---------------------------- MODULE DefinitionRules ----------------------------
(***************************************************************************)
(* What the rules of Pascal say about the definition part of a program, as *)
(* a matter of regions, defining points and applied occurrences, and the   *)
(* properties that hold the analysis against them.                         *)
(***************************************************************************)
EXTENDS Definitions

(* Defining points in the region that is the block.                        *)
Point(x, at, means, i) == [name |-> x, at |-> at, means |-> means, definition |-> i]
EnumeratorPoints(i) ==
    {Point(id.name, Place(i, id.at), "constant", i) : id \in ToSet(Enumerators(program[i].denoter))}
Points ==
    {Point(program[i].name, Place(i, 0), program[i].section, i) : i \in DOMAIN program}
        \cup UNION {EnumeratorPoints(i) : i \in DOMAIN program}
        \cup {Point(Input, PlaceOfParameter(k), "variable", 0) :
                 k \in {k \in DOMAIN parameters : parameters[k] = Input}}
PointsOf(x) == {p \in Points : p.name = x}

(* Applied occurrences in a denoter: what they have to mean, and which     *)
(* names are fields of the records around them.                            *)
Applied(id, wants, fields, i) ==
    [name |-> id.name, at |-> Place(i, id.at), wants |-> wants, fields |-> fields, definition |-> i]
AppliedInConstant(c, fields, i) ==
    IF c.form = "literal" THEN {} ELSE {Applied(c, "constant", fields, i)}

RECURSIVE AppliedIn(_, _, _)
AppliedIn(d, fields, i) ==
    CASE d.form = "name" -> {Applied(d, "type", fields, i)}
      [] d.form = "pointer" -> {Applied(d, "domain", fields, i)}
      [] d.form = "enumerated" -> {}
      [] d.form = "subrange" ->
            AppliedInConstant(d.smallest, fields, i) \cup AppliedInConstant(d.largest, fields, i)
      [] d.form = "array" ->
            AppliedIn(d.component, fields, i)
                \cup UNION {AppliedIn(d.indices[k], fields, i) : k \in DOMAIN d.indices}
      [] d.form \in {"file", "set"} -> AppliedIn(d.component, fields, i)
      [] d.form = "record" ->
            LET inside == fields \cup {d.fields[k].name.name : k \in DOMAIN d.fields}
            IN  UNION {AppliedIn(d.fields[k].denoter, inside, i) : k \in DOMAIN d.fields}

Occurrences ==
    UNION {IF program[i].section = "constant"
           THEN AppliedInConstant(program[i].denoter, {}, i)
           ELSE AppliedIn(program[i].denoter, {}, i) : i \in DOMAIN program}

RECURSIVE InDifferentParts(_, _, _, _)
(* Whether two places in a definition are in different parts of one array: *)
(* in its component and an index type, or in two of its index types.       *)
InDifferentParts(d, p, a, i) ==
    LET Places(e) == {Place(i, id.at) : id \in ToSet(Enumerators(e))}
                         \cup {b.at : b \in AppliedIn(e, {}, i)}
        parts == Append(d.indices, d.component)
    IN  CASE d.form = "array" ->
                \/ \E j, k \in DOMAIN parts :
                      j # k /\ p \in Places(parts[j]) /\ a \in Places(parts[k])
                \/ \E k \in DOMAIN parts : InDifferentParts(parts[k], p, a, i)
          [] d.form \in {"file", "set"} -> InDifferentParts(d.component, p, a, i)
          [] d.form = "record" ->
                \E k \in DOMAIN d.fields : InDifferentParts(d.fields[k].denoter, p, a, i)
          [] OTHER -> FALSE

(* A defining point precedes an applied occurrence in the text.  There is  *)
(* one exception, in which the analysis is not that of Pascal:             *)
(* resolveStructuredType() resolves the parts of an array from the last to *)
(* the first, and lookupIdentifier() accepts what is in the maps wherever  *)
(* it stands.  So the parts of an array see the enumerated constants of    *)
(* those after them, and not of those before:                              *)
(*    array [(a, b)] of set of a .. b     is legal, and is rejected        *)
(*    array [a .. b] of set of (a, b)     is not, and is accepted          *)
Precedes(p, a) ==
    IF p.definition = a.definition
       /\ InDifferentParts(program[a.definition].denoter, p.at, a.at, a.definition)
    THEN a.at < p.at ELSE p.at < a.at

(* An applied occurrence follows its defining point, a pointer's domain    *)
(* type apart, and is not in the definition of what it names.              *)
IsLegal(a) ==
    /\ a.name \notin a.fields
    /\ IF PointsOf(a.name) = {} THEN a.name = "integer" /\ a.wants # "constant"
       ELSE \A p \in PointsOf(a.name) :
               /\ p.means = (IF a.wants = "domain" THEN "type" ELSE a.wants)
               /\ a.wants = "domain" \/ Precedes(p, a)
               /\ p.at = Place(a.definition, 0) => a.wants = "domain"

RECURSIVE FieldsDiffer(_)
FieldsDiffer(d) ==
    CASE d.form = "record" ->
            /\ \A j, k \in DOMAIN d.fields :
                  j # k => d.fields[j].name.name # d.fields[k].name.name
            /\ \A k \in DOMAIN d.fields : FieldsDiffer(d.fields[k].denoter)
      [] d.form = "array" -> FieldsDiffer(d.component)
      [] d.form \in {"file", "set"} -> FieldsDiffer(d.component)
      [] OTHER -> TRUE

NamesAreRight ==
    /\ \A p, q \in Points : p.name = q.name => p = q
    /\ \A a \in Occurrences : IsLegal(a)
    /\ \A i \in DOMAIN program :
          program[i].section = "constant" \/ FieldsDiffer(program[i].denoter)

-----------------------------------------------------------------------------
(* Types and values, once all names are right.                             *)

Meaning(x) == CHOOSE p \in PointsOf(x) : TRUE
DefinitionOf(x) == program[Meaning(x).definition]
IsEnumerator(x) == Meaning(x).at # Place(Meaning(x).definition, 0)

RECURSIVE ListWith(_, _)
(* The enumerated type in a denoter with the constant x.                   *)
ListWith(d, x) ==
    CASE d.form = "enumerated" -> IF \E id \in ToSet(d.names) : id.name = x THEN {d.names} ELSE {}
      [] d.form = "array" -> ListWith(d.component, x)
                                \cup UNION {ListWith(d.indices[k], x) : k \in DOMAIN d.indices}
      [] d.form \in {"file", "set"} -> ListWith(d.component, x)
      [] OTHER -> {}

RECURSIVE ValueOf(_)
(* The value of a constant: that of the enumerator or definition it names. *)
ValueOf(c) ==
    IF c.form = "literal" THEN [host |-> "integer", number |-> IF c.signed THEN -c.number ELSE c.number]
    ELSE IF IsEnumerator(c.name)
    THEN LET list == CHOOSE l \in ListWith(DefinitionOf(c.name).denoter, c.name) : TRUE
         IN  [host |-> list[1].name, number |-> SelectInSeq(list, LAMBDA id : id.name = c.name)]
    ELSE LET v == ValueOf(DefinitionOf(c.name).denoter)
         IN  [v EXCEPT !.number = IF c.signed THEN -@ ELSE @]

RECURSIVE ConstantIsRight(_)
ConstantIsRight(c) == c.form = "name" /\ c.signed => ValueOf(c).host = "integer"

RECURSIVE KindOf(_)
KindOf(d) ==
    CASE d.form = "name" -> IF PointsOf(d.name) = {} THEN "ordinal" ELSE KindOf(DefinitionOf(d.name).denoter)
      [] d.form \in {"enumerated", "subrange"} -> "ordinal"
      [] d.form \in {"pointer", "set"} -> "plain"
      [] d.form = "file" -> "file"
      [] d.form = "array" -> IF KindOf(d.component) = "file" THEN "file" ELSE "plain"
      [] d.form = "record" ->
            IF \E k \in DOMAIN d.fields : KindOf(d.fields[k].denoter) = "file" THEN "file" ELSE "plain"

RECURSIVE TypeIsRight(_)
TypeIsRight(d) ==
    CASE d.form \in {"name", "pointer", "enumerated"} -> TRUE
      [] d.form = "subrange" ->
            /\ ConstantIsRight(d.smallest) /\ ConstantIsRight(d.largest)
            /\ ValueOf(d.smallest).host = ValueOf(d.largest).host
            /\ ValueOf(d.smallest).number <= ValueOf(d.largest).number
      [] d.form = "array" ->
            /\ TypeIsRight(d.component)
            /\ \A k \in DOMAIN d.indices : TypeIsRight(d.indices[k]) /\ KindOf(d.indices[k]) = "ordinal"
      [] d.form = "set" -> TypeIsRight(d.component) /\ KindOf(d.component) = "ordinal"
      [] d.form = "file" -> TypeIsRight(d.component) /\ KindOf(d.component) # "file"
      [] d.form = "record" -> \A k \in DOMAIN d.fields : TypeIsRight(d.fields[k].denoter)

ParametersAreRight ==
    /\ Cardinality(ToSet(parameters)) = Len(parameters)
    /\ \A x \in ToSet(parameters) : \E p \in PointsOf(x) : p.means = "variable"

Legal ==
    /\ NamesAreRight
    /\ ParametersAreRight
    /\ \A i \in DOMAIN program :
          IF program[i].section = "constant" THEN ConstantIsRight(program[i].denoter)
          ELSE TypeIsRight(program[i].denoter)

-----------------------------------------------------------------------------
(* Properties.                                                             *)

(* What the maps hold is of the declared kinds; every error is placed in   *)
(* the text that has been looked at.                                       *)
TypeOK ==
    /\ next \in 0 .. Len(program) + 2
    /\ \A x \in DOMAIN types : types[x] \in {"ordinal", "plain", "file"}
    /\ \A x \in DOMAIN constants : constants[x] # Null /\ constants[x].number \in Int
    /\ variables \subseteq DOMAIN dos
    /\ \A e \in errors : e.at < Place(next, 0) \/ e.code = "MISSING_PROGRAM_PARAMETER_VARIABLE"

(* Whatever a block defines twice, too early or in terms of itself: a name *)
(* never has a meaning in two of the block's maps, and the definition with *)
(* its first defining occurrence always gives it one, not an empty one     *)
(* that would be taken for a circular definition.                          *)
OneMeaning ==
    /\ DOMAIN constants \cap DOMAIN types = {}
    /\ (DOMAIN constants \cup DOMAIN types) \cap variables = {}
    /\ \A x \in DOMAIN types : types[x] # Null
    /\ \A i \in 1 .. next - 1 :
          i \in DOMAIN program /\ dos[program[i].name].at = Place(i, 0) /\ ~thrown =>
              program[i].name \in (CASE program[i].section = "constant" -> DOMAIN constants
                                     [] program[i].section = "type" -> DOMAIN types
                                     [] program[i].section = "variable" -> variables)

(* TypePointer::domainType() finds the type in the block that was kept,    *)
(* even in a program with errors: the later stages look it up in there.    *)
PointersLeadToTypes ==
    Analyzed => \A d \in domains :
                   d[1] <= BlockLevel /\ d[2] \in DOMAIN <<BuiltinTypes, types>>[d[1]]

(* The definition part is accepted exactly if it obeys the rules of        *)
(* regions and types, although the names are collected in one pass and     *)
(* resolved in another, and pointers are resolved in neither.  Exactly,    *)
(* that is, but for the order of the parts of an array, see Precedes.      *)
AcceptedIffLegal == Analyzed => (errors = {} <=> Legal)

(* The identifiers in a record's field list that are "scoped to the        *)
(* block" (the comment in collectFieldDefiningOccurrences) are looked up   *)
(* where they were put.                                                    *)
NothingIsThrown == ~thrown
=============================================================================
