-------------------------------- MODULE ValueKinds --------------------------------
(***************************************************************************)
(* What values there are, by the rules of ISO 7185 and without any type    *)
(* objects: numbers, values of an ordinal type, strings of some length,    *)
(* sets over an ordinal type that are packed or not, or may be either,     *)
(* pointers, and structures; and which of them go together.                *)
(***************************************************************************)
EXTENDS TypeRelations

(* The shape of a value: the length of a string, whether a set is packed,  *)
(* nothing otherwise.                                                      *)
Simple == 0
Either == 0
Packed == 1
Unpacked == 2

(* Kinds of values.  "of" tells apart the values of one family.            *)

Value(family, of, shape) == [family |-> family, of |-> of, shape |-> shape]
OrdinalValue(host) == Value("ordinal", host, Simple)
RealValue == Value("real", TypeReal, Simple)
StringValue(length) == Value("string", TypeChar, length)
SetValue(host, packing) == Value("set", host, packing)
EmptySetValue == SetValue(TypeSetAny, Either)
PointerValue(t) == Value("pointer", t, Simple)
NilValue == PointerValue(TypePointerAny)
Structure(t) == Value("structure", t, Simple)
Variable(t) == Value("variable", t, Simple)
Nothing == Value("nothing", TypeInteger, Simple)

BooleanValue == OrdinalValue(TypeBoolean)
IntegerValue == OrdinalValue(TypeInteger)

(* The kind of the values of a type.                                       *)
KindOf(t) ==
    IF t \in TypeOrdinalDynamic THEN OrdinalValue(FullRange(t))
    ELSE IF t = TypeReal THEN RealValue
    ELSE IF IsString(t) THEN StringValue(StringLength(t))
    ELSE IF Form(t) = "set"
         THEN SetValue(FullRange(Types[t].base), IF Types[t].packed THEN Packed ELSE Unpacked)
    ELSE IF Form(t) = "set_incomplete" THEN SetValue(FullRange(Types[t].base), Either)
    ELSE IF t = TypeSetAny THEN EmptySetValue
    ELSE IF Form(t) \in {"pointer", "pointer_any"} THEN PointerValue(t)
    ELSE Structure(t)

IsNumber(k) == k \in {IntegerValue, RealValue}
AreNumbers(k, o) == IsNumber(k) /\ IsNumber(o)
AreBoolean(k, o) == k = BooleanValue /\ o = BooleanValue
AreIntegers(k, o) == k = IntegerValue /\ o = IntegerValue

(* [] is a set over any type, and a constructor is packed if it must be.   *)
Agree(a, b, either) == a = b \/ a = either \/ b = either
AreSets(k, o) ==
    /\ k.family = "set" /\ o.family = "set"
    /\ Agree(k.of, o.of, TypeSetAny)
    /\ Agree(k.shape, o.shape, Either)
Common(a, b, either) == IF a = either THEN b ELSE a
CommonSet(k, o) == SetValue(Common(k.of, o.of, TypeSetAny), Common(k.shape, o.shape, Either))

ArePointers(k, o) ==
    k.family = "pointer" /\ o.family = "pointer" /\ Agree(k.of, o.of, TypePointerAny)

(* 6.4.6: a value of that kind may be given to a variable of the type.     *)
MayBeAssigned(k, t) ==
    LET o == KindOf(t)
    IN  \/ k = o /\ k.family # "structure"
        \/ k = IntegerValue /\ o = RealValue
        \/ AreSets(k, o)
        \/ k = NilValue /\ o.family = "pointer"
        \/ k = o /\ k.family = "structure" /\ CanBeFileComponent[t]
===================================================================================
