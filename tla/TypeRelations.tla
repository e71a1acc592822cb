------------------------------ MODULE TypeRelations ------------------------------
(***************************************************************************)
(* The types of semantics-core.ixx and semantics-types.ixx, and the        *)
(* relations between them on which the analysis of statements decides:     *)
(* promotion, compatibility, assignment compatibility, conformance and     *)
(* equivalence.                                                            *)
(*                                                                         *)
(* A type object is a name, and Types says what it is made of, by the      *)
(* names of its parts.  Two objects are the same type in the code if they  *)
(* have the same address; here, if they have the same name.                *)
(***************************************************************************)
EXTENDS Integers

CONSTANT Types    \* the type objects of a program: from names to descriptions

Type == DOMAIN Types
Form(t) == Types[t].form
OfForm(form) == {t \in Type : Form(t) = form}

TypeBoolean == "Boolean"
TypeChar == "char"
TypeInteger == "integer"
TypeReal == "real"
TypeSetAny == "set_any"
TypePointerAny == "nil"

SimpleForms == {"Boolean", "char", "integer", "enumerated", "subrange"}
TypeOrdinal == {t \in Type : Form(t) \in SimpleForms}
TypeOrdinalDynamic == TypeOrdinal \cup OfForm("bounds")
TypeFileLike == OfForm("file") \cup OfForm("text")

-----------------------------------------------------------------------------
(* Builtin types are there, and parts of types are types.  A subrange has  *)
(* an ordinal host type that is no subrange, and only a set has a host     *)
(* set; that is what the definitions of types construct.  The index type   *)
(* of an array is bounds if it is the schema of a conformant array.        *)
TypesAssumption ==
    /\ \A t \in {TypeBoolean, TypeChar, TypeInteger, TypeReal} : t \in Type /\ Form(t) = t
    /\ TypeSetAny \in Type /\ OfForm("set_any") = {TypeSetAny}
    /\ TypePointerAny \in Type /\ OfForm("pointer_any") = {TypePointerAny}
    /\ \A form \in {"Boolean", "char", "integer", "real"} : OfForm(form) = {form}
    /\ \A t \in TypeOrdinal : Types[t].smallest \in Int /\ Types[t].largest \in Int
    /\ \A t \in OfForm("subrange") : Types[t].host \in TypeOrdinal \ OfForm("subrange")
    /\ \A t \in OfForm("bounds") : Types[t].bound \in TypeOrdinal
    /\ \A t \in OfForm("array") :
        /\ Types[t].index \in TypeOrdinalDynamic
        /\ Types[t].component \in Type
        /\ Types[t].packed \in BOOLEAN
    /\ \A t \in OfForm("set") :
        /\ Types[t].base \in TypeOrdinal
        /\ Types[t].packed \in BOOLEAN
        /\ Types[t].host \in OfForm("set")
        /\ Types[t].base \notin OfForm("subrange") => Types[t].host = t
        /\ Types[t].base \in OfForm("subrange") =>
            /\ Types[Types[t].host].base = Types[Types[t].base].host
            /\ Types[Types[t].host].packed = Types[t].packed
    /\ \A t \in OfForm("set_incomplete") : Types[t].base \in TypeOrdinal
    /\ \A t \in OfForm("pointer") : Types[t].domain \in Type
    /\ \A t \in OfForm("file") : Types[t].component \in Type
    /\ \A t \in OfForm("record") :
        /\ \A f \in DOMAIN Types[t].fields : Types[t].fields[f] \in Type
        /\ Types[t].packed \in BOOLEAN

ASSUME TypesAreBuiltOfTypes == TypesAssumption

(* Only expressions are of a type of one of these forms.  Nothing of which *)
(* a program has variables is, and no subrange is empty: one with inverted *)
(* bounds is an error, and so is what is built of it.                      *)
SyntheticForms == {"set_incomplete", "set_any", "pointer_any"}

DenotersAssumption ==
    /\ \A t \in TypeOrdinal : Types[t].smallest <= Types[t].largest
    /\ \A t \in OfForm("array") \cup OfForm("file") : Form(Types[t].component) \notin SyntheticForms
    /\ \A t \in OfForm("record") : \A f \in DOMAIN Types[t].fields :
        Form(Types[t].fields[f]) \notin SyntheticForms

ASSUME DenotersMakeTypes == DenotersAssumption

-----------------------------------------------------------------------------
(* fullRange(), of an ordinal type or the bounds of a schema.              *)
FullRangeOfOrdinal(t) == IF Form(t) = "subrange" THEN Types[t].host ELSE t
FullRange(t) ==
    IF Form(t) = "bounds" THEN FullRangeOfOrdinal(Types[t].bound) ELSE FullRangeOfOrdinal(t)

(* promoted(): the type an expression of that type is treated as having.   *)
Promoted(t) ==
    IF t \in TypeOrdinalDynamic THEN FullRange(t)
    ELSE IF Form(t) = "set" THEN Types[t].host
    ELSE t

(* smallestOrdinal() and largestOrdinal() of types whose range is known.   *)
SmallestOrdinal(t) == Types[t].smallest
LargestOrdinal(t) == Types[t].largest

CanBeFileComponent[t \in Type] ==
    CASE t \in TypeFileLike -> FALSE
      [] Form(t) = "array" -> CanBeFileComponent[Types[t].component]
      [] Form(t) = "record" ->
            \A f \in DOMAIN Types[t].fields : CanBeFileComponent[Types[t].fields[f]]
      [] OTHER -> TRUE

(* The recursion ends, because no type is a part of itself.                *)
FileComponentsAreKnown ==
    /\ \A t \in Type : Form(t) \notin {"array", "record", "file", "text"} => CanBeFileComponent[t]
    /\ \A t \in OfForm("array") : CanBeFileComponent[t] <=> CanBeFileComponent[Types[t].component]

ASSUME NoTypeIsPartOfItself == FileComponentsAreKnown

IsString(t) ==
    /\ Form(t) = "array"
    /\ Types[t].packed
    /\ Form(Types[t].index) = "subrange"
    /\ Types[Types[t].index].host = TypeInteger
    /\ Types[Types[t].index].smallest = 1
    /\ Types[Types[t].index].largest > 1
    /\ Types[t].component = TypeChar
StringLength(t) == Types[Types[t].index].largest

OrdinalsAreCompatible(left, right) ==
    /\ left \in TypeOrdinalDynamic
    /\ right \in TypeOrdinalDynamic
    /\ FullRange(left) = FullRange(right)

(* isCompatibleWith().                                                     *)
Compatible(left, right) ==
    \/ left = right
    \/ OrdinalsAreCompatible(left, right)
    \/ /\ IsString(left) /\ IsString(right)
       /\ StringLength(left) = StringLength(right)
    \/ /\ Form(left) = "set" /\ Form(right) = "set"
       /\ Types[left].packed = Types[right].packed
       /\ OrdinalsAreCompatible(Types[left].base, Types[right].base)
    \/ /\ Form(left) = "set_incomplete" /\ Form(right) = "set_incomplete"
       /\ OrdinalsAreCompatible(Types[left].base, Types[right].base)

(* isAssignmentCompatibleWith().                                           *)
AssignmentCompatible(left, right) ==
    \/ left = right /\ CanBeFileComponent[left]
    \/ left # right /\ Compatible(left, right)
    \/ left = TypeInteger /\ right = TypeReal
    \/ /\ Form(left) = "set_incomplete" /\ Form(right) = "set"
       /\ OrdinalsAreCompatible(Types[left].base, Types[right].base)
    \/ left = TypeSetAny /\ Form(right) \in {"set", "set_incomplete"}
    \/ left = TypePointerAny /\ Form(right) = "pointer"

IsSchema(t) == Form(t) = "array" /\ Types[t].index \notin TypeOrdinal

(* isConformableWith() of an array and the schema of a parameter.  The     *)
(* range of an index type is known unless it is that of another schema.    *)
Conformable[t \in Type] == [schema \in Type |->
    IF Form(t) = "array" /\ IsSchema(schema)
    THEN LET bound == Types[Types[schema].index].bound
             index == Types[t].index
         IN  /\ OrdinalsAreCompatible(index, bound)
             /\ index \in TypeOrdinal =>
                    /\ SmallestOrdinal(index) >= SmallestOrdinal(bound)
                    /\ LargestOrdinal(index) <= LargestOrdinal(bound)
             /\ Types[t].packed = Types[schema].packed
             /\ Conformable[Types[t].component][Types[schema].component]
    ELSE t = schema]

(* isEquivalent(): schemas are equivalent if they say the same, types if   *)
(* they are the same.                                                      *)
Equivalent[t \in Type] == [other \in Type |->
    IF Form(t) = "array" /\ Form(other) = "array" /\ IsSchema(t) /\ IsSchema(other)
    THEN /\ Types[Types[t].index].bound = Types[Types[other].index].bound
         /\ Equivalent[Types[t].component][Types[other].component]
         /\ Types[t].packed = Types[other].packed
    ELSE t = other]
===================================================================================
