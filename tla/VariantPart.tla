------------------------------ MODULE VariantPart ------------------------------
(***************************************************************************)
(* The variant parts of one record type: how resolveFieldList() of         *)
(* semantics-analyze.cxx checks that their case constants cover the tag    *)
(* type, the map from ordinals to variants that sem::VariantPart keeps,    *)
(* and a call of new or dispose that follows this map.                     *)
(*                                                                         *)
(* Whether a variant part covers its tag type is not found by looking for  *)
(* an ordinal without a variant: a counter that starts one below the       *)
(* smallest ordinal has to arrive at the largest one.                      *)
(***************************************************************************)
EXTENDS Integers, FiniteSets, Sequences

CONSTANTS
    IntegerMax,         \* PASCAL_INTEGER_MAX, the width of pascal_integer_t
    Records,            \* the record types, each the sequence of its variant parts
    MaxCaseConstants    \* bound: case constants in a call of new

Ordinals == -IntegerMax .. IntegerMax
NoPart == 0
Root(r) == IF r = <<>> THEN NoPart ELSE 1

(* A variant part has a tag type and tag field, which may be wrong, and    *)
(* variants.  Each of these has case constants, which may be wrong, and    *)
(* fields that end in the variant part numbered "inside", or in none.  A   *)
(* variant part other than the first is in a variant of another one.       *)
TagFlaws == {"none", "undefined", "not ordinal", "duplicate field"}
ConstantFlaws == {"none", "undefined", "other type"}
IsVariant(v) == v.constants \in Seq([flaw : ConstantFlaws, ordinal : Ordinals])
IsVariantPart(part) ==
    /\ part.flaw \in TagFlaws
    /\ part.smallest \in Ordinals /\ part.largest \in part.smallest .. IntegerMax
    /\ DOMAIN part.variants = 1 .. Len(part.variants) /\ Len(part.variants) \in Nat
    /\ \A v \in DOMAIN part.variants : IsVariant(part.variants[v])
IsRecord(r) ==
    /\ DOMAIN r = 1 .. Len(r) /\ Len(r) \in Nat
    /\ \A p \in DOMAIN r :
          /\ IsVariantPart(r[p])
          /\ \A v \in DOMAIN r[p].variants :
                r[p].variants[v].inside \in {NoPart} \cup (p + 1 .. Len(r))
    /\ \A q \in 2 .. Len(r) :
          \E p \in 1 .. q - 1 : \E v \in DOMAIN r[p].variants : r[p].variants[v].inside = q

ASSUME IntegerMaxAssumption == IntegerMax \in Nat
ASSUME RecordsAssumption == \A r \in Records : IsRecord(r)

VARIABLES
    parts,      \* the variant parts of the record type at hand
    stack,      \* the calls of resolveFieldList() that are resolving one
    index,      \* VariantPart::variant_indexes_by_ordinal_ of those that are set
    errors,     \* the errors in the record type: the code and the variant part
    given,      \* case_constants of the call of new
    current,    \* its current_field_list: the variant part at the end of it
    pc,         \* what is going on: the record type, the call, or neither
    thrown      \* std::unordered_map::at() found nothing

resolving == <<parts, stack, index, errors>>
calling == <<given, current, thrown>>
vars == <<parts, stack, index, errors, given, current, pc, thrown>>

-----------------------------------------------------------------------------
(* resolveFieldList()                                                      *)

Frame(p) ==
    [part |-> p, variant |-> 1, constant |-> 1, fields |-> FALSE,
     counter |-> parts[p].smallest - 1, used |-> {}, index |-> <<>>]

Top == stack[Len(stack)]
Below == SubSeq(stack, 1, Len(stack) - 1)
Part == parts[Top.part]
Variant == Part.variants[Top.variant]
Case == Variant.constants[Top.constant]

InVariant == pc = "resolving" /\ stack # <<>> /\ Top.variant \in DOMAIN Part.variants
AtConstant == InVariant /\ ~Top.fields /\ Top.constant \in DOMAIN Variant.constants
Error(code, p) == [code |-> code, part |-> p]

TagError(flaw) ==
    CASE flaw = "undefined" -> "UNDEFINED_IDENTIFIER"
      [] flaw = "not ordinal" -> "NON_ORDINAL_TYPE"
      [] flaw = "duplicate field" -> "DUPLICATE_IDENTIFIER"
ConstantError(flaw) == IF flaw = "undefined" THEN "UNDEFINED_IDENTIFIER" ELSE "TYPE_MISMATCH"

(* Resolves variant part p on top of these calls, unless its tag is wrong. *)
Begin(p, calls) ==
    IF parts[p].flaw = "none"
    THEN stack' = Append(calls, Frame(p)) /\ UNCHANGED errors
    ELSE stack' = calls /\ errors' = errors \cup {Error(TagError(parts[p].flaw), p)}

(* The field list is left without its variant part.                        *)
GiveUp(code) ==
    /\ errors' = errors \cup {Error(code, Top.part)}
    /\ stack' = Below
    /\ UNCHANGED index

(* Slip: the smallest ordinal is not looked at.                            *)
InRangeBelow(o) == o <= Part.largest

InRange(o) == Part.smallest <= o /\ o <= Part.largest

(* ++counter, in 32 bits.                                                  *)
Incremented(counter) == IF counter = IntegerMax THEN -IntegerMax - 1 ELSE counter + 1

(* Slip: a case constant used before is counted again.                     *)
ResolveRepeatedCaseConstant ==
    /\ AtConstant
    /\ \/ Case.flaw # "none" /\ GiveUp(ConstantError(Case.flaw))
       \/ Case.flaw = "none" /\ ~InRange(Case.ordinal) /\ GiveUp("OUT_OF_RANGE")
       \/ /\ Case.flaw = "none" /\ InRange(Case.ordinal)
          /\ stack' = Append(Below,
                [Top EXCEPT !.used = @ \cup {Case.ordinal},
                            !.counter = Incremented(@), !.constant = @ + 1])
          /\ UNCHANGED <<index, errors>>
    /\ UNCHANGED <<parts, pc, calling>>

ResolveCaseConstant ==
    /\ AtConstant
    /\ \/ Case.flaw # "none" /\ GiveUp(ConstantError(Case.flaw))
       \/ Case.flaw = "none" /\ ~InRange(Case.ordinal) /\ GiveUp("OUT_OF_RANGE")
       \/ /\ Case.flaw = "none" /\ InRange(Case.ordinal) /\ Case.ordinal \in Top.used
          /\ GiveUp("DUPLICATE_CASE")
       \/ /\ Case.flaw = "none" /\ InRange(Case.ordinal) /\ Case.ordinal \notin Top.used
          /\ stack' = Append(Below,
                [Top EXCEPT !.used = @ \cup {Case.ordinal},
                            !.counter = Incremented(@), !.constant = @ + 1])
          /\ UNCHANGED <<index, errors>>
    /\ UNCHANGED <<parts, pc, calling>>

(* resolveFieldList() calls itself for the fields of the variant.          *)
ResolveVariantFields ==
    /\ InVariant /\ ~Top.fields /\ Top.constant = Len(Variant.constants) + 1
    /\ LET calls == Append(Below, [Top EXCEPT !.fields = TRUE])
       IN  \/ /\ Variant.inside = NoPart
              /\ stack' = calls /\ UNCHANGED errors
           \/ Variant.inside # NoPart /\ Begin(Variant.inside, calls)
    /\ UNCHANGED <<parts, index, pc, calling>>

OrdinalsOf(constants) == {constants[k].ordinal : k \in DOMAIN constants}

(* Slip: variants_.size() instead of variants_.size() - 1.                 *)
IndexOfNext(constants, v, old) ==
    [o \in OrdinalsOf(constants) \cup DOMAIN old |->
        IF o \in OrdinalsOf(constants) THEN v + 1 ELSE old[o]]

(* addVariant(): these ordinals now lead to variant v.                     *)
Indexed(constants, v, old) ==
    [o \in OrdinalsOf(constants) \cup DOMAIN old |->
        IF o \in OrdinalsOf(constants) THEN v ELSE old[o]]

AddVariant ==
    /\ InVariant /\ Top.fields
    /\ stack' = Append(Below,
          [Top EXCEPT !.index = Indexed(Variant.constants, Top.variant, @),
                      !.variant = @ + 1, !.constant = 1, !.fields = FALSE])
    /\ UNCHANGED <<parts, index, errors, pc, calling>>

FinishVariantPart ==
    /\ pc = "resolving" /\ stack # <<>> /\ Top.variant = Len(Part.variants) + 1
    /\ \/ Top.counter # Part.largest /\ GiveUp("MISSING_CASE")
       \/ /\ Top.counter = Part.largest
          /\ index' = [p \in {Top.part} \cup DOMAIN index |->
                          IF p = Top.part THEN Top.index ELSE index[p]]
          /\ stack' = Below
          /\ UNCHANGED errors
    /\ UNCHANGED <<parts, pc, calling>>

-----------------------------------------------------------------------------
(* A call of new or dispose for a pointer to the record type.              *)

StartCall ==
    /\ pc = "resolving" /\ stack = <<>>
    /\ pc' = "calling"
    /\ UNCHANGED <<resolving, calling>>

OutOfRange(part, o) == o < part.smallest \/ part.largest < o

(* The call ends with the first case constant that is wrong: there is no   *)
(* variant part for it, or it is none of its tag type.                     *)
RejectCaseConstant ==
    /\ pc = "calling"
    /\ \/ current \notin DOMAIN index
       \/ /\ current \in DOMAIN index
          /\ \E case \in [flaw : {"none", "other type"}, ordinal : Ordinals] :
                case.flaw = "other type" \/ OutOfRange(parts[current], case.ordinal)
    /\ pc' = "done"
    /\ UNCHANGED <<resolving, calling>>

(* The next case constant leads to the field list of its variant.          *)
FollowCaseConstant ==
    /\ pc = "calling" /\ Len(given) < MaxCaseConstants
    /\ \E o \in Ordinals :
          /\ current \in DOMAIN index /\ ~OutOfRange(parts[current], o)
          /\ given' = Append(given, o)
          /\ \/ /\ o \notin DOMAIN index[current]
                /\ thrown' = TRUE /\ pc' = "done" /\ UNCHANGED current
             \/ /\ o \in DOMAIN index[current]
                /\ current' = parts[current].variants[index[current][o]].inside
                /\ UNCHANGED <<thrown, pc>>
    /\ UNCHANGED resolving

EndCall ==
    /\ pc = "calling"
    /\ pc' = "done"
    /\ UNCHANGED <<resolving, calling>>

Done == pc = "done" /\ UNCHANGED vars

Init ==
    /\ parts \in Records
    /\ IF parts = <<>> THEN stack = <<>> /\ errors = {}
       ELSE IF parts[1].flaw = "none" THEN stack = <<Frame(1)>> /\ errors = {}
       ELSE stack = <<>> /\ errors = {Error(TagError(parts[1].flaw), 1)}
    /\ index = <<>>
    /\ given = <<>> /\ current = Root(parts) /\ pc = "resolving" /\ thrown = FALSE

Next ==
    \/ ResolveCaseConstant \/ ResolveVariantFields \/ AddVariant \/ FinishVariantPart
    \/ StartCall \/ RejectCaseConstant \/ FollowCaseConstant \/ EndCall \/ Done

Spec == Init /\ [][Next]_vars

-----------------------------------------------------------------------------
(* What the program text says.                                             *)

ConstantsOf(p) ==
    UNION {{<<v, k>> : k \in DOMAIN parts[p].variants[v].constants} : v \in DOMAIN parts[p].variants}
ConstantAt(p, at) == parts[p].variants[at[1]].constants[at[2]]
HasConstant(part, v, o) ==
    \E k \in DOMAIN part.variants[v].constants : part.variants[v].constants[k].ordinal = o

(* Every value of the tag type belongs to one case constant.               *)
Covered(p) ==
    /\ parts[p].flaw = "none"
    /\ \A at \in ConstantsOf(p) :
          /\ ConstantAt(p, at).flaw = "none"
          /\ ConstantAt(p, at).ordinal \in parts[p].smallest .. parts[p].largest
    /\ \A o \in parts[p].smallest .. parts[p].largest :
          Cardinality({at \in ConstantsOf(p) : ConstantAt(p, at).ordinal = o}) = 1

Codes == {"UNDEFINED_IDENTIFIER", "NON_ORDINAL_TYPE", "DUPLICATE_IDENTIFIER", "TYPE_MISMATCH",
          "OUT_OF_RANGE", "DUPLICATE_CASE", "MISSING_CASE"}

-----------------------------------------------------------------------------
(* Properties.                                                             *)

(* Each call works inside its variant part, an inner call on a part that   *)
(* comes later in the text; and used_ordinals are ordinals of the tag type.*)
TypeOK ==
    /\ \A k \in DOMAIN stack :
          /\ stack[k].part \in DOMAIN parts
          /\ stack[k].variant \in 1 .. Len(parts[stack[k].part].variants) + 1
          /\ stack[k].used \subseteq parts[stack[k].part].smallest .. parts[stack[k].part].largest
          /\ stack[k].counter \in -IntegerMax - 1 .. IntegerMax
    /\ \A e \in errors : e.code \in Codes /\ e.part \in DOMAIN parts
    /\ DOMAIN index \subseteq DOMAIN parts
    /\ current \in DOMAIN parts \cup {NoPart}

(* assert(counter != PASCAL_INTEGER_MAX) before ++counter never fails,     *)
(* whatever the order of the constants and even if the tag type is integer,*)
(* because every new constant is of the tag type and was not used before.  *)
CounterNeverOverflows ==
    AtConstant /\ Case.flaw = "none" /\ InRange(Case.ordinal) /\ Case.ordinal \notin Top.used =>
        Top.counter # IntegerMax

(* A record type has no errors exactly if each of its variant parts        *)
(* divides its tag type, although only a counter is compared, and inner    *)
(* variant parts are not resolved when an outer one has been given up.     *)
AcceptedIffCovered ==
    pc # "resolving" => (errors = {} <=> \A p \in DOMAIN parts : Covered(p))

(* The map of a variant part that was set leads every value of the tag     *)
(* type to the variant that has it among its constants, so that the at()   *)
(* of variantByOrdinal() never throws and new follows the declaration.     *)
EveryOrdinalHasItsVariant ==
    /\ \A p \in DOMAIN index :
          /\ DOMAIN index[p] = parts[p].smallest .. parts[p].largest
          /\ \A o \in DOMAIN index[p] :
                index[p][o] \in DOMAIN parts[p].variants /\ HasConstant(parts[p], index[p][o], o)
    /\ ~thrown
=============================================================================
