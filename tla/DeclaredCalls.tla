------------------------------ MODULE DeclaredCalls -------------------------------
(***************************************************************************)
(* Calls of the procedures and functions a program declares:               *)
(* resolveActualParameters() of semantics-analyze.cxx, which walks through *)
(* the sections of the formal parameters and through the actual parameters *)
(* at the same time, and isCongruousWith() of semantics.cxx.               *)
(*                                                                         *)
(* A section of a signature is either a group of "count" parameters that   *)
(* are declared together, by "variable" or by "value", or one procedural   *)
(* or functional parameter, by "subroutine".                               *)
(***************************************************************************)
EXTENDS ActualParameters

CONSTANT Signatures    \* from names to the parameters and the result type

NoType == "no_type"

FormalSection ==
    [by : {"variable", "value"}, count : Nat \ {0}, type : {t \in Type : Form(t) \notin SyntheticForms}]
        \cup [by : {"subroutine"}, count : {1}, signature : DOMAIN Signatures]

SignatureAssumption ==
    /\ NoType \notin Type
    /\ \A g \in DOMAIN Signatures : Signatures[g].parameters \in Seq(FormalSection)
    /\ \A g \in DOMAIN Signatures : Signatures[g].result \in Type \cup {NoType}
    /\ \A n \in DOMAIN Names :
        Names[n].kind \in {"procedure", "function"} =>
            /\ Names[n].signature \in DOMAIN Signatures
            /\ LET g == Signatures[Names[n].signature]
               IN  IF Names[n].kind = "function"
                   THEN Names[n].type = g.result /\ (Names[n].value <=> g.parameters = <<>>)
                   ELSE g.result = NoType /\ ~Names[n].value

ASSUME SignaturesAreResolved == SignatureAssumption

VARIABLES
    section,  \* the section that is being resolved
    taken,    \* how many actual parameters it has got
    good,     \* how many of them fit: accesses or expressions
    first,    \* the type of the first one that did: first_good_parameter_type
    built     \* the sections that came out well: actual_parameters

sectionVars == <<section, taken, good, first, built>>

Parameters == Signatures[Names[callee].signature].parameters
Section == Parameters[section]

(* isCongruousWith(), and the result types that are compared with it.      *)
Congruous[g \in DOMAIN Signatures] == [o \in DOMAIN Signatures |->
    LET sections == Signatures[g].parameters
        others == Signatures[o].parameters
    IN  /\ Len(sections) = Len(others)
        /\ \A k \in DOMAIN sections :
            /\ sections[k].by = others[k].by
            /\ IF sections[k].by = "subroutine"
               THEN /\ Congruous[sections[k].signature][others[k].signature]
                    /\ Signatures[sections[k].signature].result
                        = Signatures[others[k].signature].result
               ELSE /\ sections[k].count = others[k].count
                    /\ Equivalent[sections[k].type][others[k].type]]

-----------------------------------------------------------------------------

MissingParameter ==
    /\ section <= Len(Parameters)
    /\ taken = 0
    /\ Remaining < Section.count
    /\ Stop({AtEnd}, IF wanted = "procedure" THEN "fallback" ELSE "designator")
    /\ UNCHANGED <<actuals, sectionVars>>

(* Slip: the type of the first parameter is kept, good or not.             *)
TakeFirstOfAll(isGood, type) ==
    LET goodNow == IF isGood THEN good + 1 ELSE good
    IN  IF taken + 1 = Section.count
        THEN /\ section' = section + 1
             /\ taken' = 0
             /\ good' = 0
             /\ first' = NoType
             /\ built' = IF goodNow = Section.count THEN Append(built, section) ELSE built
        ELSE /\ taken' = taken + 1
             /\ good' = goodNow
             /\ first' = IF taken = 0 THEN type ELSE first
             /\ UNCHANGED <<section, built>>

(* Slip: what is counted for a section is counted for all of them.         *)
TakeWithoutReset(isGood, type) ==
    LET goodNow == IF isGood THEN good + 1 ELSE good
    IN  IF taken + 1 = Section.count
        THEN /\ section' = section + 1
             /\ taken' = 0
             /\ good' = goodNow
             /\ first' = NoType
             /\ built' = IF goodNow = Section.count THEN Append(built, section) ELSE built
        ELSE /\ taken' = taken + 1
             /\ good' = goodNow
             /\ first' = IF isGood /\ good = 0 THEN type ELSE first
             /\ UNCHANGED <<section, built>>

(* The parameter is kept if it is good; a section is kept if all are.      *)
Take(isGood, type) ==
    LET goodNow == IF isGood THEN good + 1 ELSE good
    IN  IF taken + 1 = Section.count
        THEN /\ section' = section + 1
             /\ taken' = 0
             /\ good' = 0
             /\ first' = NoType
             /\ built' = IF goodNow = Section.count THEN Append(built, section) ELSE built
        ELSE /\ taken' = taken + 1
             /\ good' = goodNow
             /\ first' = IF isGood /\ good = 0 THEN type ELSE first
             /\ UNCHANGED <<section, built>>

(* A section that has enough actual parameters takes the next one.         *)
TakeNext(by, a, isGood, isWrong, type) ==
    /\ section <= Len(Parameters)
    /\ Section.by = by
    /\ taken > 0 \/ Remaining >= Section.count
    /\ Read(a)
    /\ errors' = errors \cup At(Place, isWrong \/ IsFormatted(a))
    /\ Take(isGood, type)
    /\ UNCHANGED <<callee, wanted, count, node, status>>

(* checkActualParameterIsConformable()                                     *)
IsConformable(type) ==
    IF first = NoType THEN Conformable[type][Section.type] ELSE type = first

VariableParameter(a) ==
    LET type == VariableType(a)
        fits == IF IsSchema(Section.type) THEN IsConformable(type) ELSE type = Section.type
        isGood ==
            /\ IsVariableAccess(a)
            /\ fits
            /\ a.form = "field" => ~Types[a.of].packed /\ <<a.of, a.field>> \notin TagFields
            /\ a.form = "component" => ~Types[a.of].packed
    IN  TakeNext("variable", a, isGood, ~isGood, type)

ValueParameter(a) ==
    LET type == ValueType(a)
        isGood ==
            IF IsSchema(Section.type)
            THEN IsConformable(type) /\ ~IsSchema(type)
            ELSE AssignmentCompatible(type, Section.type)
    IN  TakeNext("value", a, isGood, ~isGood \/ HasNoValue(a), type)

(* lookupSubroutineReference(), of a name without modifiers.               *)
SubroutineParameter(a) ==
    LET result == Signatures[Section.signature].result
        kind == IF result = NoType THEN "procedure" ELSE "function"
        isGood ==
            /\ a.form = "name"
            /\ Names[a.of].kind = kind
            /\ Congruous[Names[a.of].signature][Section.signature]
            /\ Signatures[Names[a.of].signature].result = result
    IN  TakeNext("subroutine", a, isGood, ~isGood, NoType)

(* After the last section.  A procedure statement needs all sections.      *)
FinishCall ==
    /\ section > Len(Parameters)
    /\ Stop(Extraneous(Place),
            IF wanted = "function" THEN "designator"
            ELSE IF Len(built) = Len(Parameters) THEN "statement" ELSE "fallback")
    /\ UNCHANGED <<actuals, sectionVars>>
===================================================================================
