------------------------------ MODULE Definitions ------------------------------
(***************************************************************************)
(* The definition part of the program block: what ProgramBuilder of        *)
(* semantics-analyze.cxx does with constant and type definitions and       *)
(* variable declarations, from collectDefiningOccurrencesInBlock() to      *)
(* analyzeVariableDeclarations(), and with program parameters.             *)
(*                                                                         *)
(* A denoter is a record with a "form"; its identifiers carry their place  *)
(* in the text of the definition.  Each action analyses one definition,    *)
(* all of its denoter included.                                            *)
(***************************************************************************)
EXTENDS Integers, FiniteSets, SequencesExt

CONSTANTS
    Vocabularies,           \* what programs may be made of, see Definition
    MaxDefinitions,         \* bound: definitions in the program
    Null                    \* a null pointer, a model value

(* A vocabulary has the constant and type definitions and the variable     *)
(* declarations a program may contain, each a record with a name and a     *)
(* denoter, and the lists of program parameters it may have.               *)
Section(kind, definitions) == {[section |-> kind, name |-> d.name, denoter |-> d.denoter] : d \in definitions}
Definition(v) ==
    Section("constant", v.constants) \cup Section("type", v.types)
        \cup Section("variable", v.variables)
Rank == [constant |-> 1, type |-> 2, variable |-> 3]
InOrder(p) == \A i, j \in DOMAIN p : i < j => Rank[p[i].section] <= Rank[p[j].section]

(* In a denoter: what is named, and where.                                 *)
Identifier(x, at) == [name |-> x, at |-> at]

VARIABLES
    program,    \* the definitions, in the order of the text
    parameters, \* the program parameters
    next,       \* the definition to be analysed, 0 before they are collected
    dos,        \* Scope::dos_ of the block: each name's first defining occurrence
    constants,  \* Block::constants_
    types,      \* Block::types_
    variables,  \* DOMAIN Block::variables_
    domains,    \* the domain types of pointers: the level of the block, the name
    errors,     \* the errors reported: the code and the place
    thrown      \* std::unordered_map::at() found nothing

vars == <<program, parameters, next, dos, constants, types, variables, domains, errors, thrown>>

-----------------------------------------------------------------------------
(* Places in the text.  A name comes first in its definition, a program    *)
(* parameter before all of them.                                           *)

WordsPerDefinition == 10
Place(i, k) == WordsPerDefinition * i + k
Here(k) == Place(next, k)
PlaceOfParameter(k) == k

(* Scope::add(): later occurrences are ignored.                            *)
Add(scope, x, at, kind) == scope @@ (x :> [at |-> at, kind |-> kind])
AddAll(scope, ids, i) ==
    FoldLeft(LAMBDA s, id : Add(s, id.name, Place(i, id.at), "NOT_TYPE"), scope, ids)
NoNames == <<>>

RECURSIVE Enumerators(_)
(* collectDefiningOccurrencesInTypeDenoter(): the enumerators in a denoter.*)
Enumerators(d) ==
    CASE d.form = "enumerated" -> d.names
      [] d.form = "array" -> FlattenSeq([k \in DOMAIN d.indices |-> Enumerators(d.indices[k])])
                                 \o Enumerators(d.component)
      [] d.form \in {"file", "set"} -> Enumerators(d.component)
      [] d.form = "record" ->
            FlattenSeq([k \in DOMAIN d.fields |-> Enumerators(d.fields[k].denoter)])
      [] OTHER -> <<>>

Input == "input"

(* build(): input is declared by the program parameter of that name.       *)
ParameterScope ==
    FoldLeftDomain(
        LAMBDA s, k : IF parameters[k] = Input
                      THEN Add(s, Input, PlaceOfParameter(k), "NOT_TYPE") ELSE s,
        NoNames, parameters)

(* collectDefiningOccurrencesInBlock()                                     *)
Collected(scope) ==
    FoldLeftDomain(
        LAMBDA s, i : AddAll(
            Add(s, program[i].name, Place(i, 0),
                IF program[i].section = "type" THEN "TYPE" ELSE "NOT_TYPE"),
            Enumerators(program[i].denoter), i),
        scope, program)

-----------------------------------------------------------------------------
(* Resolving a denoter.  "s" is what it may change, and its result so far: *)
(* a null pointer, or a type or constant.  Of a type, it matters whether   *)
(* it is ordinal, and whether it can be the component of a file.           *)

TypeInteger == "ordinal"
HostInteger == 0
ConstantInteger(number) == [host |-> HostInteger, number |-> number]

Fail(s, code, k) ==
    [s EXCEPT !.errors = @ \cup (IF s.thrown THEN {} ELSE {[code |-> code, at |-> Here(k)]}),
              !.result = Null]
Give(s, result) == [s EXCEPT !.result = result]

(* The scopes around the block's: that of the builtins.                    *)
BuiltinScope == "integer" :> [at |-> 0, kind |-> "TYPE"]
BuiltinTypes == "integer" :> TypeInteger
BlockLevel == 2
LevelsOf(x, scopes) == {l \in DOMAIN scopes : x \in DOMAIN scopes[l]}
Innermost(levels) == CHOOSE l \in levels : \A m \in levels : m <= l

(* Slip: an entry whose definition is not finished is as good as any.      *)
LookupUnfinished(id, maps, scopes, s) ==
    LET levels == LevelsOf(id.name, scopes)
        l == Innermost(levels)
    IN  IF levels = {} THEN Fail(s, "UNDEFINED_IDENTIFIER", id.at)
        ELSE IF l <= BlockLevel /\ id.name \in DOMAIN maps[l]
        THEN Give(s, IF maps[l][id.name] # Null THEN maps[l][id.name]
                     ELSE IF DOMAIN maps[1] = {} THEN ConstantInteger(0) ELSE TypeInteger)
        ELSE IF scopes[l][id.name].at > Here(id.at) THEN Fail(s, "USE_BEFORE_DEFINITION", id.at)
        ELSE Fail(s, "WRONG_IDENTIFIER_KIND", id.at)

(* lookupIdentifier(), and the test for a circular definition after it.    *)
Lookup(id, maps, scopes, s) ==
    LET levels == LevelsOf(id.name, scopes)
        l == Innermost(levels)
    IN  IF levels = {} THEN Fail(s, "UNDEFINED_IDENTIFIER", id.at)
        ELSE IF l <= BlockLevel /\ id.name \in DOMAIN maps[l]
        THEN IF maps[l][id.name] = Null THEN Fail(s, "CIRCULAR_DEFINITION", id.at)
             ELSE Give(s, maps[l][id.name])
        ELSE IF scopes[l][id.name].at > Here(id.at) THEN Fail(s, "USE_BEFORE_DEFINITION", id.at)
        ELSE Fail(s, "WRONG_IDENTIFIER_KIND", id.at)

(* resolveConstant(): a sign that does not fit is reported and ignored.    *)
ResolveConstant(c, scopes, s) ==
    LET r == IF c.form = "literal" THEN Give(s, ConstantInteger(c.number))
             ELSE Lookup(c, <<NoNames, s.constants>>, scopes, s)
    IN  IF r.result = Null \/ ~c.signed THEN r
        ELSE IF r.result.host = HostInteger THEN Give(r, ConstantInteger(-r.result.number))
        ELSE Give(Fail(r, "TYPE_MISMATCH", c.at), r.result)

(* Slip: a name is a duplicate only if the block has resolved it already.  *)
CheckDuplicateResolved(scope, id, s) ==
    IF id.name \in DOMAIN s.constants THEN Fail(s, "DUPLICATE_IDENTIFIER", id.at)
    ELSE Give(s, "new")

(* checkDuplicateIdentifier(): the result is "new" unless it is one.       *)
CheckDuplicateIdentifier(scope, id, s) ==
    IF id.name \notin DOMAIN scope THEN [s EXCEPT !.thrown = TRUE, !.result = Null]
    ELSE IF scope[id.name].at = Here(id.at) THEN Give(s, "new")
    ELSE Fail(s, "DUPLICATE_IDENTIFIER", id.at)

(* An enumerated type: its constants go to the closest containing block.   *)
ResolveEnumerated(d, scopes, s) ==
    LET Check(r, id) ==
            LET q == CheckDuplicateIdentifier(Last(scopes), id, r)
            IN  IF q.result = "new" THEN [q EXCEPT !.kept = Append(@, id.name)] ELSE q
        r == FoldLeft(Check, [s EXCEPT !.kept = <<>>], d.names)
        made == [x \in ToSet(r.kept) |->
                    [host |-> Here(d.names[1].at),
                     number |-> SelectInSeq(r.kept, LAMBDA y : y = x)]]
    IN  IF r.kept = <<>> \/ r.thrown THEN Give(r, Null)
        ELSE [r EXCEPT !.constants = @ @@ made, !.result = "ordinal"]

(* A subrange: both bounds are resolved before either is looked at.        *)
ResolveSubrange(d, scopes, s) ==
    LET least == ResolveConstant(d.smallest, scopes, s)
        most == ResolveConstant(d.largest, scopes, least)
    IN  IF Null \in {least.result, most.result} THEN Give(most, Null)
        ELSE IF most.result.host # least.result.host THEN Fail(most, "TYPE_MISMATCH", d.largest.at)
        ELSE IF most.result.number < least.result.number
        THEN Fail(most, "INVERTED_SUBRANGE_BOUNDS", d.largest.at)
        ELSE Give(most, "ordinal")

(* Slip: anything that has been declared will do.                          *)
ResolvePointerAnyKind(d, scopes, s) ==
    LET levels == LevelsOf(d.name, scopes)
    IN  IF levels = {} THEN Fail(s, "UNDEFINED_IDENTIFIER", d.at)
        ELSE [Give(s, "plain") EXCEPT !.domains = @ \cup {<<Innermost(levels), d.name>>}]

(* A pointer: only the block with its domain type is looked up.            *)
ResolvePointer(d, scopes, s) ==
    LET levels == LevelsOf(d.name, scopes)
        l == Innermost(levels)
    IN  IF levels = {} THEN Fail(s, "UNDEFINED_IDENTIFIER", d.at)
        ELSE IF scopes[l][d.name].kind # "TYPE" THEN Fail(s, "WRONG_IDENTIFIER_KIND", d.at)
        ELSE [Give(s, "plain") EXCEPT !.domains = @ \cup {<<l, d.name>>}]

RECURSIVE ResolveType(_, _, _)
(* An array: the component type comes first, then the index types from the *)
(* last to the first.                                                      *)
ResolveArray(d, scopes, s) ==
    LET Index(r, index) ==
            LET q == ResolveType(index, scopes, r)
            IN  IF Null \in {r.result, q.result} THEN IF r.result = Null THEN r ELSE q
                ELSE IF q.result # "ordinal" THEN Fail(q, "NON_ORDINAL_TYPE", index.at)
                ELSE Give(q, IF r.result = "file" THEN "file" ELSE "plain")
    IN  FoldLeft(Index, ResolveType(d.component, scopes, s), Reverse(d.indices))

(* A record has a scope of its own; a bad field is dropped.                *)
ResolveRecord(d, scopes, s) ==
    LET fields == AddAll(NoNames, [k \in DOMAIN d.fields |-> d.fields[k].name], next)
        Field(r, f) ==
            LET type == ResolveType(f.denoter, Append(scopes, fields), r)
                added == CheckDuplicateIdentifier(fields, f.name, type)
                file == added.result = "new" /\ type.result = "file"
            IN  IF type.result = Null THEN Give(type, r.result)
                ELSE Give(added, IF file THEN "file" ELSE r.result)
    IN  FoldLeft(Field, Give(s, "plain"), d.fields)

(* A file or a set.                                                        *)
ResolveComponent(d, scopes, s) ==
    LET r == ResolveType(d.component, scopes, s)
    IN  IF r.result = Null THEN r
        ELSE IF d.form = "file" /\ r.result = "file"
        THEN Fail(r, "DISALLOWED_FILE_COMPONENT", d.component.at)
        ELSE IF d.form = "set" /\ r.result # "ordinal"
        THEN Fail(r, "NON_ORDINAL_TYPE", d.component.at)
        ELSE Give(r, IF d.form = "file" THEN "file" ELSE "plain")

ResolveType(d, scopes, s) ==
    CASE d.form = "name" -> Lookup(d, <<BuiltinTypes, s.types>>, scopes, s)
      [] d.form = "enumerated" -> ResolveEnumerated(d, scopes, s)
      [] d.form = "subrange" -> ResolveSubrange(d, scopes, s)
      [] d.form = "pointer" -> ResolvePointer(d, scopes, s)
      [] d.form = "array" -> ResolveArray(d, scopes, s)
      [] d.form = "record" -> ResolveRecord(d, scopes, s)
      [] d.form \in {"file", "set"} -> ResolveComponent(d, scopes, s)

-----------------------------------------------------------------------------
(* The analysis of the block.                                              *)

Scopes == <<BuiltinScope, dos>>
State == [constants |-> constants, types |-> types, domains |-> domains, errors |-> errors,
          thrown |-> FALSE, kept |-> <<>>, result |-> Null]
Current == program[next]
Analyzing(section) == ~thrown /\ next \in DOMAIN program /\ Current.section = section
Own == Current.name :> Null

(* What r has changed, and the definition done.                            *)
Advance(r) ==
    /\ next' = next + 1
    /\ domains' = r.domains /\ errors' = r.errors /\ thrown' = r.thrown
    /\ UNCHANGED <<program, parameters, dos>>

Duplicate == dos[Current.name].at # Here(0)
SkipDuplicate ==
    /\ Duplicate
    /\ Advance(Fail(State, "DUPLICATE_IDENTIFIER", 0))
    /\ UNCHANGED <<constants, types, variables>>

(* The names of the block are known before anything is resolved.           *)
CollectDefiningOccurrences ==
    /\ next = 0
    /\ next' = 1
    /\ dos' = Collected(ParameterScope)
    /\ variables' = ToSet(parameters) \cap {Input}
    /\ errors' = {[code |-> "DUPLICATE_PROGRAM_PARAMETER", at |-> PlaceOfParameter(k)] :
                      k \in {k \in DOMAIN parameters : \E j \in 1 .. k - 1 :
                                                          parameters[j] = parameters[k]}}
    /\ UNCHANGED <<program, parameters, constants, types, domains, thrown>>

(* The entry is there, and empty, while the value is resolved.             *)
AnalyzeConstantDefinition ==
    /\ Analyzing("constant")
    /\ \/ SkipDuplicate
       \/ LET r == ResolveConstant(Current.denoter, Scopes,
                                   [State EXCEPT !.constants = @ @@ Own])
          IN  /\ ~Duplicate
              /\ constants' = [r.constants EXCEPT ![Current.name] =
                                   IF r.result = Null THEN ConstantInteger(0) ELSE r.result]
              /\ Advance(r)
              /\ UNCHANGED <<types, variables>>

(* Slip: what could not be resolved stays empty.                           *)
AnalyzeTypeDefinitionNoFallback ==
    /\ Analyzing("type")
    /\ \/ SkipDuplicate
       \/ LET r == ResolveType(Current.denoter, Scopes, [State EXCEPT !.types = @ @@ Own])
          IN  /\ ~Duplicate
              /\ types' = [r.types EXCEPT ![Current.name] = r.result]
              /\ constants' = r.constants
              /\ Advance(r)
              /\ UNCHANGED variables

AnalyzeTypeDefinition ==
    /\ Analyzing("type")
    /\ \/ SkipDuplicate
       \/ LET r == ResolveType(Current.denoter, Scopes, [State EXCEPT !.types = @ @@ Own])
          IN  /\ ~Duplicate
              /\ types' = [r.types EXCEPT ![Current.name] =
                               IF r.result = Null THEN TypeInteger ELSE r.result]
              /\ constants' = r.constants
              /\ Advance(r)
              /\ UNCHANGED variables

(* The type is resolved even if the variable is a duplicate.               *)
AnalyzeVariableDeclaration ==
    /\ Analyzing("variable")
    /\ LET r == ResolveType(Current.denoter, Scopes, State)
       IN  /\ constants' = r.constants
           /\ Advance(IF Duplicate THEN Fail(r, "DUPLICATE_IDENTIFIER", 0) ELSE r)
           /\ variables' = variables \cup (IF Duplicate THEN {} ELSE {Current.name})
           /\ UNCHANGED types

(* The end of build(): every program parameter is a variable.              *)
CheckProgramParameters ==
    /\ ~thrown /\ next = Len(program) + 1
    /\ next' = next + 1
    /\ errors' = errors \cup
          {[code |-> "MISSING_PROGRAM_PARAMETER_VARIABLE",
            at |-> PlaceOfParameter(SelectInSeq(parameters, LAMBDA p : p = x))] :
               x \in ToSet(parameters) \ variables}
    /\ UNCHANGED <<program, parameters, dos, constants, types, variables, domains, thrown>>

Analyzed == next = Len(program) + 2
Done == (thrown \/ Analyzed) /\ UNCHANGED vars

Init ==
    /\ \E v \in Vocabularies, n \in 0 .. MaxDefinitions :
          /\ program \in [1 .. n -> Definition(v)] /\ InOrder(program)
          /\ parameters \in v.parameters
    /\ next = 0 /\ dos = NoNames /\ constants = NoNames /\ types = NoNames
    /\ variables = {} /\ domains = {} /\ errors = {} /\ thrown = FALSE

Next ==
    \/ CollectDefiningOccurrences \/ AnalyzeConstantDefinition \/ AnalyzeTypeDefinition
    \/ AnalyzeVariableDeclaration \/ CheckProgramParameters \/ Done

Spec == Init /\ [][Next]_vars
=============================================================================
