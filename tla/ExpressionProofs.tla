----------------------------- MODULE ExpressionProofs -----------------------------
(***************************************************************************)
(* Whatever types a program has: expressions have promoted types, and the  *)
(* analysis implements the rules of the language, provided that functions  *)
(* have promoted result types, too.                                        *)
(***************************************************************************)
EXTENDS ExpressionRules, TLAPS

USE TypesAreBuiltOfTypes, NoTypeIsPartOfItself, ProgramHasTypes DEF Simple, Either, Packed, Unpacked

-----------------------------------------------------------------------------
(* Types.                                                                  *)

(* The ordinal types are told by their forms.                              *)
LEMMA OrdinalForms ==
    ASSUME NEW t \in Type
    PROVE  /\ t \in TypeOrdinal => t \in TypeOrdinalDynamic
           /\ t \in TypeOrdinalDynamic => t \in TypeOrdinal \/ Form(t) = "bounds"
           /\ t \in TypeOrdinal <=> Form(t) \in {"Boolean", "char", "integer", "enumerated", "subrange"}
           /\ t \in TypeOrdinalDynamic <=>
                Form(t) \in {"Boolean", "char", "integer", "enumerated", "subrange", "bounds"}
    BY DEF TypeOrdinal, TypeOrdinalDynamic, SimpleForms, OfForm

(* The full range of an ordinal type or of bounds is a host type.          *)
LEMMA FullRangeType ==
    ASSUME NEW t \in TypeOrdinalDynamic
    PROVE  /\ FullRange(t) \in TypeOrdinal
           /\ Form(FullRange(t)) # "subrange"
           /\ FullRange(FullRange(t)) = FullRange(t)
    BY DEF FullRange, FullRangeOfOrdinal, TypesAssumption, TypeOrdinal, TypeOrdinalDynamic, SimpleForms, OfForm

(* Promotion comes to an end after one step.                               *)
LEMMA PromotedType ==
    ASSUME NEW t \in Type
    PROVE  Promoted(t) \in Type /\ Promoted(Promoted(t)) = Promoted(t)
    <1>1. CASE t \in TypeOrdinalDynamic
        BY <1>1, FullRangeType, OrdinalForms DEF Promoted, TypeOrdinal
    <1>2. CASE Form(t) = "set"
        <2>1. t \notin TypeOrdinalDynamic  BY <1>2, OrdinalForms
        <2>2. Types[t].host \in OfForm("set") /\ t \in OfForm("set")
            BY <1>2 DEF OfForm, TypesAssumption
        <2>3. Types[Types[t].host].host = Types[t].host
            BY <1>2, <2>2, FullRangeType DEF TypesAssumption
        <2>. QED BY <1>2, <2>1, <2>2, <2>3, OrdinalForms DEF Promoted, OfForm
    <1>3. CASE t \notin TypeOrdinalDynamic /\ Form(t) # "set"
        BY <1>3 DEF Promoted
    <1>. QED BY <1>1, <1>2, <1>3

(* The type of a constructor is a set over the type of its members.        *)
LEMMA SetIncompleteType ==
    ASSUME NEW t \in TypeOrdinal
    PROVE  /\ SetIncomplete(t) \in OfForm("set_incomplete")
           /\ Types[SetIncomplete(t)].base = t
    BY DEF SetIncomplete, ExpressionAssumption

(* The types the compiler itself has are promoted.                         *)
LEMMA BuiltinTypes ==
    /\ TypeBoolean \in TypeOrdinal /\ TypeInteger \in TypeOrdinal /\ TypeChar \in TypeOrdinal
    /\ \A t \in {TypeBoolean, TypeInteger, TypeChar, TypeReal, TypeSetAny, TypePointerAny} :
        t \in Type /\ Promoted(t) = t
    BY DEF TypesAssumption, TypeBoolean, TypeInteger, TypeChar, TypeReal, TypeSetAny,
           TypePointerAny, Promoted, FullRange, FullRangeOfOrdinal, TypeOrdinal,
           TypeOrdinalDynamic, SimpleForms, OfForm

(* The parts of a type are types.                                          *)
LEMMA ComponentTypes ==
    ASSUME NEW t \in Type
    PROVE  /\ Form(t) = "pointer" => Types[t].domain \in Type
           /\ Form(t) = "file" => Types[t].component \in Type
           /\ Form(t) = "array" => Types[t].component \in Type /\ Types[t].index \in TypeOrdinalDynamic
           /\ Form(t) = "record" =>
                \A f \in DOMAIN Types[t].fields : Types[t].fields[f] \in Type
    BY DEF TypesAssumption, OfForm

(* What an operand may have for a type is a promoted type.                 *)
LEMMA OperandType ==
    ASSUME ResultsArePromoted, NEW t \in OperandTypes
    PROVE  t \in Type /\ Promoted(t) = t
    <1>1. CASE t \in FactorTypes
        BY <1>1, PromotedType, BuiltinTypes DEF FactorTypes, ExpressionAssumption, ResultsArePromoted
    <1>2. CASE \E b \in FactorTypes \cap TypeOrdinal : t = SetIncomplete(b)
        BY <1>2, SetIncompleteType, OrdinalForms DEF OfForm, Promoted
    <1>. QED BY <1>1, <1>2 DEF OperandTypes

-----------------------------------------------------------------------------
(* Types are promoted.                                                     *)

(* Expressions have promoted types, whatever the program, as long as its   *)
(* functions do.                                                           *)
THEOREM TypesArePromoted == ResultsArePromoted => (Spec => []TypeOK)
    <1>. SUFFICES ASSUME ResultsArePromoted PROVE Spec => []TypeOK
        OBVIOUS
    <1>1. Init => TypeOK
        BY BuiltinTypes DEF Init, TypeOK, Levels, Complete, Codes
    <1>2. TypeOK /\ [Next]_vars => TypeOK'
        <2>. SUFFICES ASSUME TypeOK, [Next]_vars PROVE TypeOK'
            OBVIOUS
        <2>. USE DEF To
        <2>1. CASE ReadFactor
            <3>1. ASSUME NEW t \in ConstantTypes, ReadConstant(t) PROVE TypeOK'
                BY <3>1 DEF ReadConstant, TypeOK, Levels, Complete, ExpressionAssumption
            <3>2. CASE ReadNilOrEmptySet
                BY <3>2, BuiltinTypes DEF ReadNilOrEmptySet, TypeOK, Levels, Complete
            <3>3. ASSUME NEW t \in ResultTypes, CallFunction(t) PROVE TypeOK'
                BY <3>3 DEF CallFunction, TypeOK, Levels, Complete, ExpressionAssumption, ResultsArePromoted
            <3>4. ASSUME NEW t \in OfForm("bounds"), ReadBound(t) PROVE TypeOK'
                <4>1. Types[t].bound \in Type
                    BY DEF TypesAssumption, TypeOrdinal
                <4>. QED BY <3>4, <4>1, PromotedType DEF ReadBound, TypeOK, Levels, Complete
            <3>5. CASE ReadUnknown
                BY <3>5, BuiltinTypes DEF ReadUnknown, TypeOK, Levels, Complete, Codes
            <3>6. ASSUME NEW t \in VariableTypes, ReadVariable(t) PROVE TypeOK'
                BY <3>6 DEF ReadVariable, TypeOK, Levels, Complete, ExpressionAssumption
            <3>. QED BY <2>1, <3>1, <3>2, <3>3, <3>4, <3>5, <3>6 DEF ReadFactor
        <2>2. CASE ModifyAccess
            <3>1. CASE Dereference
                BY <3>1, ComponentTypes, BuiltinTypes DEF Dereference, TypeOK, Levels, Complete, Codes
            <3>2. ASSUME NEW f \in Fields, AccessField(f) PROVE TypeOK'
                BY <3>2, ComponentTypes DEF AccessField, TypeOK, Levels, Complete, Codes
            <3>3. ASSUME NEW t \in OperandTypes, Index(t) PROVE TypeOK'
                BY <3>3, ComponentTypes DEF Index, TypeOK, Levels, Complete, Codes
            <3>4. CASE ReadValue
                BY <3>4, PromotedType DEF ReadValue, TypeOK, Levels, Complete
            <3>. QED BY <2>2, <3>1, <3>2, <3>3, <3>4 DEF ModifyAccess
        <2>3. CASE MakeFactor
            <3>1. CASE FirstMember
                BY <3>1, BuiltinTypes DEF FirstMember, TypeOK, Levels, Complete, Codes
            <3>2. ASSUME NEW t \in OperandTypes, Member(t) PROVE TypeOK'
                BY <3>2, BuiltinTypes DEF Member, TypeOK, Levels, Complete, Codes
            <3>3. CASE CloseSet
                BY <3>3, SetIncompleteType, OrdinalForms
                DEF CloseSet, TypeOK, Levels, Complete, OfForm, Promoted
            <3>4. CASE Parenthesize
                BY <3>4 DEF Parenthesize, TypeOK, Levels, Complete
            <3>5. CASE Not
                BY <3>5, BuiltinTypes DEF Not, Unless, TypeOK, Levels, Complete, Codes
            <3>. QED BY <2>3, <3>1, <3>2, <3>3, <3>4, <3>5 DEF MakeFactor
        <2>4. CASE ApplyOperator
            <3>1. ASSUME NEW t \in OperandTypes, Multiply(t) PROVE TypeOK'
                BY <3>1, OperandType, BuiltinTypes
                DEF Multiply, Demand, Arithmetic, CommonType, Unless, TypeOK, Levels, Complete, Codes
            <3>2. ASSUME NEW t \in OperandTypes, Add(t) PROVE TypeOK'
                BY <3>2, OperandType, BuiltinTypes
                DEF Add, Demand, Arithmetic, CommonType, Unless, TypeOK, Levels, Complete, Codes
            <3>3. ASSUME NEW t \in OperandTypes, In(t) PROVE TypeOK'
                BY <3>3, BuiltinTypes DEF In, Unless, TypeOK, Levels, Complete, Codes
            <3>4. CASE Sign
                BY <3>4 DEF Sign, TypeOK, Levels, Complete, Codes
            <3>5. ASSUME NEW relation \in {"EQUAL", "NOT_EQUAL", "LESS", "GREATER", "LESS_OR_EQUAL", "GREATER_OR_EQUAL"},
                         NEW t \in OperandTypes, Compare(relation, t)
                  PROVE  TypeOK'
                BY <3>5, BuiltinTypes DEF Compare, Unless, TypeOK, Levels, Complete, Codes
            <3>. QED BY <2>4, <3>1, <3>2, <3>3, <3>4, <3>5 DEF ApplyOperator
        <2>5. CASE Use
            BY <2>5 DEF Use, Assign, UseAsCondition, UseAsCaseIndex, UseAsForValue, UseAsWithRecord,
                        Unless, TypeOK, Levels, Complete, Codes
        <2>6. CASE UNCHANGED vars
            BY <2>6 DEF vars, TypeOK
        <2>. QED BY <2>1, <2>2, <2>3, <2>4, <2>5, <2>6 DEF Next
    <1>. QED BY <1>1, <1>2, PTL DEF Spec

-----------------------------------------------------------------------------
(* Kinds of values.                                                        *)

(* A kind of value is given by its three parts.                            *)
LEMMA ValueParts ==
    \A f, o, s : /\ Value(f, o, s).family = f
                 /\ Value(f, o, s).of = o
                 /\ Value(f, o, s).shape = s
    BY DEF Value

(* Every type is of one of these kinds.                                    *)
OrdinalCase(t) == t \in TypeOrdinalDynamic /\ KindOf(t) = OrdinalValue(FullRange(t))
RealCase(t) == t = TypeReal /\ Form(t) = "real" /\ KindOf(t) = RealValue
StringCase(t) ==
    Form(t) = "array" /\ IsString(t) /\ KindOf(t) = StringValue(StringLength(t))
SetCase(t) ==
    /\ Form(t) = "set"
    /\ Types[t].base \in TypeOrdinal
    /\ Types[t].packed \in BOOLEAN
    /\ KindOf(t) = SetValue(FullRange(Types[t].base), IF Types[t].packed THEN Packed ELSE Unpacked)
IncompleteCase(t) ==
    /\ Form(t) = "set_incomplete"
    /\ Types[t].base \in TypeOrdinal
    /\ KindOf(t) = SetValue(FullRange(Types[t].base), Either)
EmptySetCase(t) == t = TypeSetAny /\ Form(t) = "set_any" /\ KindOf(t) = EmptySetValue
PointerCase(t) ==
    /\ t = TypePointerAny <=> Form(t) = "pointer_any"
    /\ Form(t) \in {"pointer", "pointer_any"}
    /\ KindOf(t) = PointerValue(t)
StructureCase(t) ==
    /\ t \notin TypeOrdinalDynamic /\ ~IsString(t)
    /\ Form(t) \notin {"real", "set", "set_incomplete", "set_any", "pointer", "pointer_any"}
    /\ t \notin {TypeReal, TypeSetAny, TypePointerAny}
    /\ KindOf(t) = Structure(t)

(* There are no other cases.                                               *)
LEMMA KindCases ==
    ASSUME NEW t \in Type
    PROVE  \/ OrdinalCase(t) \/ RealCase(t) \/ StringCase(t) \/ SetCase(t) \/ IncompleteCase(t)
           \/ EmptySetCase(t) \/ PointerCase(t) \/ StructureCase(t)
    <1>. DEFINE forms == {"Boolean", "char", "integer", "enumerated", "subrange", "bounds"}
    <1>1. t \in TypeOrdinalDynamic <=> Form(t) \in forms
        BY OrdinalForms
    <1>2. /\ t = TypeReal <=> Form(t) = "real"
          /\ t = TypeSetAny <=> Form(t) = "set_any"
          /\ t = TypePointerAny <=> Form(t) = "pointer_any"
        BY DEF TypesAssumption, TypeReal, OfForm
    <1>3. /\ Form(t) = "set" => Types[t].base \in TypeOrdinal /\ Types[t].packed \in BOOLEAN
          /\ Form(t) = "set_incomplete" => Types[t].base \in TypeOrdinal
        BY DEF TypesAssumption, OfForm
    <1>4. IsString(t) => Form(t) = "array"
        BY DEF IsString
    <1>5. CASE Form(t) \in forms
        BY <1>1, <1>5 DEF OrdinalCase, KindOf
    <1>6. CASE Form(t) = "real"
        BY <1>1, <1>2, <1>6 DEF RealCase, KindOf
    <1>7. CASE Form(t) = "array" /\ IsString(t)
        BY <1>1, <1>2, <1>7 DEF StringCase, KindOf
    <1>8. CASE Form(t) = "set"
        BY <1>1, <1>2, <1>3, <1>4, <1>8 DEF SetCase, KindOf
    <1>9. CASE Form(t) = "set_incomplete"
        BY <1>1, <1>2, <1>3, <1>4, <1>9 DEF IncompleteCase, KindOf
    <1>10. CASE Form(t) = "set_any"
        BY <1>1, <1>2, <1>4, <1>10 DEF EmptySetCase, KindOf
    <1>11. CASE Form(t) \in {"pointer", "pointer_any"}
        BY <1>1, <1>2, <1>4, <1>11 DEF PointerCase, KindOf
    <1>12. CASE /\ Form(t) \notin forms \cup {"real", "set", "set_incomplete", "set_any", "pointer", "pointer_any"}
                /\ ~IsString(t)
        BY <1>1, <1>2, <1>12 DEF StructureCase, KindOf
    <1>. QED BY <1>4, <1>5, <1>6, <1>7, <1>8, <1>9, <1>10, <1>11, <1>12

(* The kind of a promoted type tells builtin, ordinal and set types.       *)
LEMMA PromotedKinds ==
    ASSUME NEW t \in Type, Promoted(t) = t
    PROVE  /\ KindOf(t) = BooleanValue <=> t = TypeBoolean
           /\ KindOf(t) = IntegerValue <=> t = TypeInteger
           /\ KindOf(t) = RealValue <=> t = TypeReal
           /\ KindOf(t).family = "ordinal" <=> t \in TypeOrdinal
           /\ t \in TypeOrdinal => KindOf(t) = OrdinalValue(t)
           /\ KindOf(t).family = "set" <=> Form(t) \in {"set", "set_incomplete", "set_any"}
    <1>. USE ValueParts DEF OrdinalValue, RealValue, StringValue, SetValue, EmptySetValue, PointerValue,
                 Structure, BooleanValue, IntegerValue
    <1>1. TypeBoolean \in TypeOrdinal /\ TypeInteger \in TypeOrdinal
        BY BuiltinTypes
    <1>2. t \in TypeOrdinalDynamic => t \in TypeOrdinal /\ FullRange(t) = t
        BY FullRangeType DEF Promoted
    <1>3. t \in TypeOrdinal => t \in TypeOrdinalDynamic
        BY OrdinalForms
    <1>4. TypeReal \notin TypeOrdinal
        BY DEF TypeOrdinal, SimpleForms, TypesAssumption, TypeReal
    <1>5. Form(TypeReal) = "real"
        BY DEF TypesAssumption, TypeReal
    <1>6. CASE t \in TypeOrdinalDynamic
        <2>1. t \in TypeOrdinal /\ KindOf(t) = Value("ordinal", t, Simple)
            BY <1>2, <1>6 DEF KindOf
        <2>2. Form(t) \notin {"set", "set_incomplete", "set_any"} /\ t # TypeReal
            BY <1>4, <2>1, OrdinalForms
        <2>3. KindOf(t).family = "ordinal" /\ KindOf(t).of = t
            BY <2>1
        <2>. QED BY <2>1, <2>2, <2>3
    <1>7. CASE t \notin TypeOrdinalDynamic
        <2>1. t \notin TypeOrdinal /\ t # TypeBoolean /\ t # TypeInteger
            BY <1>1, <1>3, <1>7
        <2>2. KindOf(t).family # "ordinal"
            BY <1>7, KindCases
            DEF OrdinalCase, RealCase, StringCase, SetCase, IncompleteCase, EmptySetCase, PointerCase,
                StructureCase
        <2>3. KindOf(t).family = "set" <=> Form(t) \in {"set", "set_incomplete", "set_any"}
            BY <1>5, <1>7, KindCases
            DEF OrdinalCase, RealCase, StringCase, SetCase, IncompleteCase, EmptySetCase, PointerCase,
                StructureCase
        <2>4. KindOf(t) = RealValue <=> t = TypeReal
            BY <1>5, <1>7, KindCases
            DEF OrdinalCase, RealCase, StringCase, SetCase, IncompleteCase, EmptySetCase, PointerCase,
                StructureCase
        <2>. QED BY <2>1, <2>2, <2>3, <2>4
    <1>. QED BY <1>6, <1>7

-----------------------------------------------------------------------------
(* The relations between types are those between the kinds of their values.*)

(* The builtin types are the only ones of their forms.                     *)
LEMMA BuiltinForms ==
    /\ Form(TypeReal) = "real" /\ Form(TypeInteger) = "integer" /\ Form(TypeBoolean) = "Boolean"
    /\ Form(TypeSetAny) = "set_any" /\ Form(TypePointerAny) = "pointer_any"
    /\ \A t \in Type : /\ Form(t) = "real" => t = TypeReal
                       /\ Form(t) = "set_any" => t = TypeSetAny
                       /\ Form(t) = "pointer_any" => t = TypePointerAny
    BY DEF TypesAssumption, TypeReal, TypeInteger, TypeBoolean, TypeSetAny, TypePointerAny, OfForm

(* Ordinal types are compatible if they have the same values.              *)
LEMMA ValuesOfOrdinals ==
    ASSUME NEW l \in Type, NEW t \in Type
    PROVE  OrdinalsAreCompatible(l, t) <=>
            /\ l \in TypeOrdinalDynamic /\ t \in TypeOrdinalDynamic
            /\ KindOf(l) = KindOf(t)
    BY ValueParts DEF OrdinalsAreCompatible, KindOf, OrdinalValue

(* What forms exclude each other.                                          *)
LEMMA FormsDiffer ==
    ASSUME NEW t \in Type
    PROVE  /\ t \in TypeOrdinalDynamic =>
                /\ Form(t) \notin {"array", "real", "set", "set_incomplete", "set_any", "pointer",
                                   "pointer_any"}
                /\ t \notin {TypeReal, TypeSetAny, TypePointerAny}
           /\ IsString(t) => Form(t) = "array"
    BY OrdinalForms, BuiltinForms DEF IsString

(* The base of a set has a host type.                                      *)
LEMMA BaseTypes ==
    ASSUME NEW b \in TypeOrdinal
    PROVE  /\ b \in TypeOrdinalDynamic
           /\ FullRange(b) \in TypeOrdinal
           /\ FullRange(b) # TypeSetAny
    <1>1. b \in Type /\ b \in TypeOrdinalDynamic
        BY DEF TypeOrdinal, TypeOrdinalDynamic
    <1>2. FullRange(b) \in TypeOrdinal
        BY <1>1, FullRangeType
    <1>3. FullRange(b) \in Type /\ FullRange(b) \in TypeOrdinalDynamic
        BY <1>2 DEF TypeOrdinal, TypeOrdinalDynamic
    <1>. QED BY <1>1, <1>2, <1>3, FormsDiffer

(* Integers are ordinal and real numbers are not.                          *)
LEMMA IntegerIsOrdinal ==
    TypeInteger \in TypeOrdinalDynamic /\ TypeInteger # TypeReal
    BY BuiltinTypes, BuiltinForms DEF TypeOrdinalDynamic

(* What is no structure, and a string, may be the component of a file.     *)
LEMMA FileComponents ==
    ASSUME NEW t \in Type
    PROVE  /\ Form(t) \notin {"array", "record", "file", "text"} => CanBeFileComponent[t]
           /\ IsString(t) => CanBeFileComponent[t]
    <1>1. Form(TypeChar) = "char" /\ TypeChar \in Type
        BY DEF TypesAssumption, TypeChar
    <1>2. IsString(t) => t \in OfForm("array") /\ Types[t].component = TypeChar
        BY DEF IsString, OfForm
    <1>. QED BY <1>1, <1>2 DEF FileComponentsAreKnown

(* Assignment compatibility is what the kinds of the values allow.         *)
LEMMA AssignmentKinds ==
    ASSUME NEW l \in Type, Promoted(l) = l,
           NEW t \in Type, Form(t) \notin SyntheticForms
    PROVE  AssignmentCompatible(l, t) <=> MayBeAssigned(KindOf(l), t)
    <1>. USE ValueParts DEF OrdinalValue, RealValue, StringValue, SetValue, EmptySetValue, PointerValue,
                 Structure, BooleanValue, IntegerValue, NilValue
    <1>. USE DEF OrdinalCase, RealCase, StringCase, SetCase, IncompleteCase, EmptySetCase, PointerCase,
                 StructureCase
    <1>. USE FormsDiffer, BuiltinForms, FileComponents, IntegerIsOrdinal
         DEF AssignmentCompatible, Compatible, MayBeAssigned, SyntheticForms, AreSets, Agree
    <1>1. CASE OrdinalCase(l)
        BY <1>1, SMTT(30), KindCases, ValuesOfOrdinals, PromotedKinds, OrdinalForms
    <1>2. CASE RealCase(l)
        BY <1>2, SMTT(30), KindCases, ValuesOfOrdinals
    <1>3. CASE StringCase(l)
        BY <1>3, SMTT(30), KindCases, ValuesOfOrdinals
    <1>4. CASE SetCase(l)
        BY <1>4, SMTT(30), KindCases, BaseTypes DEF OrdinalsAreCompatible
    <1>5. CASE IncompleteCase(l)
        BY <1>5, SMTT(30), KindCases, BaseTypes DEF OrdinalsAreCompatible
    <1>6. CASE EmptySetCase(l)
        BY <1>6, SMTT(30), KindCases, ValuesOfOrdinals
    <1>7. CASE PointerCase(l)
        BY <1>7, SMTT(30), KindCases, ValuesOfOrdinals
    <1>8. CASE StructureCase(l)
        BY <1>8, SMTT(30), KindCases, ValuesOfOrdinals
    <1>. QED BY <1>1, <1>2, <1>3, <1>4, <1>5, <1>6, <1>7, <1>8, KindCases

(* Two operands are compatible, once synchronized, if the rules make them  *)
(* agree.                                                                  *)
Agreeing(l, r) ==
    \/ l = r
    \/ AreNumbers(KindOf(l), KindOf(r))
    \/ KindOf(l) = KindOf(r) /\ KindOf(l).family \in {"ordinal", "string"}
    \/ AreSets(KindOf(l), KindOf(r))
    \/ ArePointers(KindOf(l), KindOf(r))

(* Synchronized operands are compatible if their kinds agree.              *)
LEMMA FittingKinds ==
    ASSUME NEW l \in Type, Promoted(l) = l, NEW r \in Type, Promoted(r) = r
    PROVE  Compatible(Synchronized(l, r).left, Synchronized(l, r).right) <=> Agreeing(l, r)
    <1>. DEFINE fits == Compatible(l, r) \/ AssignmentCompatible(l, r) \/ AssignmentCompatible(r, l)
    <1>a. Compatible(Synchronized(l, r).left, Synchronized(l, r).right) <=> fits
        BY DEF Synchronized, Compatible
    <1>b. fits <=>
            \/ Compatible(l, r)
            \/ l = TypeInteger /\ r = TypeReal
            \/ r = TypeInteger /\ l = TypeReal
            \/ /\ {Form(l), Form(r)} = {"set", "set_incomplete"}
               /\ OrdinalsAreCompatible(Types[l].base, Types[r].base)
            \/ l = TypeSetAny /\ Form(r) \in {"set", "set_incomplete"}
            \/ r = TypeSetAny /\ Form(l) \in {"set", "set_incomplete"}
            \/ l = TypePointerAny /\ Form(r) = "pointer"
            \/ r = TypePointerAny /\ Form(l) = "pointer"
        BY DEF AssignmentCompatible, Compatible, OrdinalsAreCompatible
    <1>. HIDE DEF fits
    <1>. USE ValueParts DEF OrdinalValue, RealValue, StringValue, SetValue, EmptySetValue, PointerValue,
                 Structure, BooleanValue, IntegerValue, NilValue
    <1>. USE DEF OrdinalCase, RealCase, StringCase, SetCase, IncompleteCase, EmptySetCase, PointerCase,
                 StructureCase
    <1>. USE FormsDiffer, BuiltinForms, IntegerIsOrdinal, PromotedKinds
         DEF Compatible, AreNumbers, IsNumber, AreSets, ArePointers, Agree, Agreeing
    <1>1. ASSUME OrdinalCase(l) PROVE fits <=> Agreeing(l, r)
        BY <1>1, <1>b, SMTT(30), KindCases, ValuesOfOrdinals
    <1>2. ASSUME RealCase(l) PROVE fits <=> Agreeing(l, r)
        BY <1>2, <1>b, SMTT(30), KindCases, ValuesOfOrdinals
    <1>3. ASSUME StringCase(l) PROVE fits <=> Agreeing(l, r)
        BY <1>3, <1>b, SMTT(30), KindCases, ValuesOfOrdinals
    <1>4. ASSUME SetCase(l) PROVE fits <=> Agreeing(l, r)
        BY <1>4, <1>b, SMTT(30), KindCases, BaseTypes DEF OrdinalsAreCompatible
    <1>5. ASSUME IncompleteCase(l) PROVE fits <=> Agreeing(l, r)
        BY <1>5, <1>b, SMTT(30), KindCases, BaseTypes DEF OrdinalsAreCompatible
    <1>6. ASSUME EmptySetCase(l) PROVE fits <=> Agreeing(l, r)
        BY <1>6, <1>b, SMTT(30), KindCases, BaseTypes DEF OrdinalsAreCompatible
    <1>7. ASSUME PointerCase(l) PROVE fits <=> Agreeing(l, r)
        BY <1>7, <1>b, SMTT(30), KindCases, ValuesOfOrdinals
    <1>8. ASSUME StructureCase(l) PROVE fits <=> Agreeing(l, r)
        BY <1>8, <1>b, SMTT(30), KindCases, ValuesOfOrdinals
    <1>. QED BY <1>a, <1>1, <1>2, <1>3, <1>4, <1>5, <1>6, <1>7, <1>8, KindCases

(* What the tests of the operators say of the kind of a value.             *)
LEMMA OperandFamilies ==
    ASSUME NEW t \in Type, Promoted(t) = t
    PROVE  /\ IsNumeric(t) <=> IsNumber(KindOf(t))
           /\ IsSet(t) <=> KindOf(t).family = "set"
           /\ IsPointer(t) <=> KindOf(t).family = "pointer"
           /\ IsSimpleOrString(t) <=> KindOf(t).family \in {"ordinal", "real", "string"}
           /\ KindOf(t).family = "real" <=> KindOf(t) = RealValue
    <1>. USE ValueParts DEF OrdinalValue, RealValue, StringValue, SetValue, EmptySetValue, PointerValue,
                 Structure, BooleanValue, IntegerValue, NilValue
    <1>. USE DEF OrdinalCase, RealCase, StringCase, SetCase, IncompleteCase, EmptySetCase, PointerCase,
                 StructureCase
    <1>1. IsSet(t) <=> Form(t) \in {"set", "set_incomplete", "set_any"}
        BY FormsDiffer, BuiltinForms, FileComponents, BuiltinTypes
        DEF IsSet, AssignmentCompatible, Compatible, OrdinalsAreCompatible
    <1>2. IsPointer(t) <=> Form(t) \in {"pointer", "pointer_any"}
        BY FormsDiffer, BuiltinForms, FileComponents, BuiltinTypes
        DEF IsPointer, AssignmentCompatible, Compatible, OrdinalsAreCompatible
    <1>3. IsNumeric(t) <=> IsNumber(KindOf(t))
        BY PromotedKinds DEF IsNumeric, IsNumber
    <1>4. KindOf(t).family = "pointer" <=> Form(t) \in {"pointer", "pointer_any"}
        BY KindCases, FormsDiffer
    <1>5. KindOf(t).family = "real" <=> t = TypeReal
        BY KindCases, FormsDiffer, BuiltinForms
    <1>6. KindOf(t).family = "string" <=> IsString(t)
        BY KindCases, FormsDiffer, BuiltinForms
    <1>. QED BY <1>1, <1>2, <1>3, <1>4, <1>5, <1>6, PromotedKinds DEF IsSimpleOrString

(* What the tests say of one of two operands that agree.                   *)
LEMMA AgreeingFamilies ==
    ASSUME NEW l \in Type, Promoted(l) = l, NEW r \in Type, Promoted(r) = r,
           Agreeing(l, r), NEW m \in {l, r}
    PROVE  /\ IsNumeric(m) <=> AreNumbers(KindOf(l), KindOf(r))
           /\ IsSet(m) <=> AreSets(KindOf(l), KindOf(r))
           /\ IsPointer(m) <=> ArePointers(KindOf(l), KindOf(r))
           /\ IsSimpleOrString(m) <=>
                \/ AreNumbers(KindOf(l), KindOf(r))
                \/ KindOf(l) = KindOf(r) /\ KindOf(l).family \in {"ordinal", "string"}
    BY OperandFamilies, ValueParts
    DEF Agreeing, AreNumbers, IsNumber, AreSets, ArePointers, Agree, IntegerValue, RealValue, OrdinalValue

(* The operands of + - and *.                                              *)
LEMMA ArithmeticKinds ==
    ASSUME NEW l \in Type, Promoted(l) = l, NEW r \in Type, Promoted(r) = r
    PROVE  LET both == Synchronized(l, r)
           IN  (IsNumeric(both.left) \/ IsSet(both.left)) /\ Compatible(both.left, both.right)
                <=> AreNumbers(KindOf(l), KindOf(r)) \/ AreSets(KindOf(l), KindOf(r))
    <1>1. Synchronized(l, r).left \in {l, r}
        BY DEF Synchronized
    <1>2. AreNumbers(KindOf(l), KindOf(r)) \/ AreSets(KindOf(l), KindOf(r)) => Agreeing(l, r)
        BY DEF Agreeing
    <1>. QED BY <1>1, <1>2, FittingKinds, AgreeingFamilies

(* The common type of two operands has the kind of their common values.    *)
LEMMA CommonKind ==
    ASSUME NEW l \in Type, Promoted(l) = l, NEW r \in Type, Promoted(r) = r
    PROVE  /\ AreNumbers(KindOf(l), KindOf(r)) =>
                KindOf(CommonType(l, r)) =
                    IF AreIntegers(KindOf(l), KindOf(r)) THEN IntegerValue ELSE RealValue
           /\ AreSets(KindOf(l), KindOf(r)) =>
                KindOf(CommonType(l, r)) = CommonSet(KindOf(l), KindOf(r))
           /\ ~(AreNumbers(KindOf(l), KindOf(r)) /\ AreSets(KindOf(l), KindOf(r)))
    <1>. USE ValueParts DEF OrdinalValue, RealValue, StringValue, SetValue, EmptySetValue, PointerValue,
                 Structure, BooleanValue, IntegerValue, NilValue
    <1>. USE DEF OrdinalCase, RealCase, StringCase, SetCase, IncompleteCase, EmptySetCase, PointerCase,
                 StructureCase
    <1>1. AreNumbers(KindOf(l), KindOf(r)) =>
                KindOf(CommonType(l, r)) =
                    IF AreIntegers(KindOf(l), KindOf(r)) THEN IntegerValue ELSE RealValue
        <2>. SUFFICES ASSUME AreNumbers(KindOf(l), KindOf(r))
                      PROVE  KindOf(CommonType(l, r)) =
                                IF AreIntegers(KindOf(l), KindOf(r)) THEN IntegerValue ELSE RealValue
            OBVIOUS
        <2>1. l \in {TypeInteger, TypeReal} /\ r \in {TypeInteger, TypeReal}
            BY PromotedKinds DEF AreNumbers, IsNumber
        <2>2. /\ AssignmentCompatible(TypeInteger, TypeReal)
              /\ ~AssignmentCompatible(TypeReal, TypeInteger)
            BY FormsDiffer, BuiltinTypes, BuiltinForms, IntegerIsOrdinal
            DEF AssignmentCompatible, Compatible, OrdinalsAreCompatible
        <2>3. KindOf(CommonType(l, r)) = IF l = TypeReal \/ r = TypeReal THEN RealValue ELSE IntegerValue
            BY <2>1, <2>2, PromotedKinds, IntegerIsOrdinal DEF CommonType
        <2>. QED BY <2>1, <2>3, PromotedKinds, IntegerIsOrdinal DEF AreIntegers
    <1>2. AreSets(KindOf(l), KindOf(r)) =>
                KindOf(CommonType(l, r)) = CommonSet(KindOf(l), KindOf(r))
        <2>. SUFFICES ASSUME AreSets(KindOf(l), KindOf(r))
                      PROVE  KindOf(CommonType(l, r)) = CommonSet(KindOf(l), KindOf(r))
            OBVIOUS
        <2>1. /\ SetCase(l) \/ IncompleteCase(l) \/ EmptySetCase(l)
              /\ SetCase(r) \/ IncompleteCase(r) \/ EmptySetCase(r)
            BY KindCases DEF AreSets
        <2>2. CASE SetCase(l)
            BY <2>1, <2>2, BaseTypes, BuiltinForms, FormsDiffer
            DEF CommonType, CommonSet, Common, AreSets, Agree, AssignmentCompatible, Compatible,
                OrdinalsAreCompatible
        <2>3. CASE IncompleteCase(l)
            BY <2>1, <2>3, BaseTypes, BuiltinForms, FormsDiffer
            DEF CommonType, CommonSet, Common, AreSets, Agree, AssignmentCompatible, Compatible,
                OrdinalsAreCompatible
        <2>4. CASE EmptySetCase(l)
            BY <2>1, <2>4, BaseTypes, BuiltinForms, FormsDiffer, FileComponents
            DEF CommonType, CommonSet, Common, AreSets, Agree, AssignmentCompatible, Compatible,
                OrdinalsAreCompatible
        <2>. QED BY <2>1, <2>2, <2>3, <2>4
    <1>3. ~(AreNumbers(KindOf(l), KindOf(r)) /\ AreSets(KindOf(l), KindOf(r)))
        BY DEF AreNumbers, IsNumber, AreSets
    <1>. QED BY <1>1, <1>2, <1>3

(* The operands of the relational operators but in.                        *)
LEMMA ComparableKinds ==
    ASSUME NEW l \in Type, Promoted(l) = l, NEW r \in Type, Promoted(r) = r, NEW relation
    PROVE  LET both == Synchronized(l, r)
               fits == \/ IsSimpleOrString(both.left)
                       \/ IsSet(both.left) /\ relation \notin {"LESS", "GREATER"}
                       \/ IsPointer(both.left) /\ relation \in {"EQUAL", "NOT_EQUAL"}
           IN  fits /\ Compatible(both.left, both.right)
                <=> Comparable(relation, KindOf(l), KindOf(r))
    <1>1. Synchronized(l, r).left \in {l, r}
        BY DEF Synchronized
    <1>2. Comparable(relation, KindOf(l), KindOf(r)) => Agreeing(l, r)
        BY DEF Agreeing, Comparable
    <1>. QED BY <1>1, <1>2, FittingKinds, AgreeingFamilies DEF Comparable

-----------------------------------------------------------------------------
(* Every step reports an error where the word read breaks a rule.          *)

(* Promotion does not change what kind of values there are.                *)
LEMMA KindOfPromoted ==
    ASSUME NEW t \in Type
    PROVE  KindOf(Promoted(t)) = KindOf(t)
    <1>1. CASE t \in TypeOrdinalDynamic
        BY <1>1, FullRangeType, BaseTypes DEF Promoted, KindOf
    <1>2. CASE Form(t) = "set"
        <2>1. /\ Types[t].host \in OfForm("set") /\ t \in OfForm("set")
              /\ t \notin TypeOrdinalDynamic /\ Promoted(t) = Types[t].host
            BY <1>2, OrdinalForms DEF OfForm, TypesAssumption, Promoted
        <2>2. CASE Types[t].base \notin OfForm("subrange")
            BY <2>1, <2>2 DEF TypesAssumption
        <2>3. CASE Types[t].base \in OfForm("subrange")
            <3>1. /\ Types[Types[t].host].base = Types[Types[t].base].host
                  /\ Types[Types[t].host].packed = Types[t].packed
                  /\ Types[Types[t].base].host \in TypeOrdinal \ OfForm("subrange")
                BY <2>1, <2>3 DEF TypesAssumption
            <3>2. FullRange(Types[Types[t].base].host) = FullRange(Types[t].base)
                BY <2>3, <3>1, OrdinalForms DEF FullRange, FullRangeOfOrdinal, OfForm, TypeOrdinal, SimpleForms
            <3>3. Types[t].host \notin TypeOrdinalDynamic /\ Types[t].host # TypeReal /\ t # TypeReal
                BY <2>1, OrdinalForms, BuiltinForms DEF OfForm
            <3>4. ~IsString(t) /\ ~IsString(Types[t].host)
                BY <2>1, FormsDiffer DEF OfForm
            <3>. QED BY <2>1, <3>1, <3>2, <3>3, <3>4 DEF KindOf, OfForm
        <2>. QED BY <2>2, <2>3
    <1>3. CASE t \notin TypeOrdinalDynamic /\ Form(t) # "set"
        BY <1>3 DEF Promoted
    <1>. QED BY <1>1, <1>2, <1>3

(* The base of a set is promoted if the set is the type of an operand.     *)
LEMMA BasesOfOperands ==
    ASSUME ResultsArePromoted, NEW t \in OperandTypes, Form(t) \in {"set", "set_incomplete"}
    PROVE  Types[t].base \in TypeOrdinal /\ FullRange(Types[t].base) = Types[t].base
    <1>1. t \in Type /\ Promoted(t) = t
        BY OperandType
    <1>2. CASE Form(t) = "set"
        <2>1. t \in OfForm("set") /\ Types[t].host = t
            BY <1>1, <1>2, OrdinalForms DEF OfForm, Promoted
        <2>2. Types[t].base \in TypeOrdinal
            BY <2>1 DEF TypesAssumption
        <2>3. Types[t].base \notin OfForm("subrange")
            BY <2>1 DEF TypesAssumption
        <2>. QED BY <2>2, <2>3, OrdinalForms DEF FullRange, FullRangeOfOrdinal, OfForm, TypeOrdinal
    <1>3. CASE Form(t) = "set_incomplete"
        <2>1. \A s \in FactorTypes : Form(s) # "set_incomplete"
            <3>1. \A s \in VariableTypes : Form(Promoted(s)) # "set_incomplete"
                <4>. SUFFICES ASSUME NEW s \in VariableTypes PROVE Form(Promoted(s)) # "set_incomplete"
                    OBVIOUS
                <4>1. s \in Type /\ Form(s) # "set_incomplete"
                    BY DEF ExpressionAssumption, SyntheticForms
                <4>2. CASE s \in TypeOrdinalDynamic
                    BY <4>2, FullRangeType, OrdinalForms DEF Promoted, TypeOrdinal
                <4>3. CASE Form(s) = "set"
                    <5>1. Promoted(s) = Types[s].host
                        BY <4>1, <4>3, OrdinalForms DEF Promoted
                    <5>2. s \in OfForm("set")
                        BY <4>1, <4>3 DEF OfForm
                    <5>. QED BY <5>1, <5>2 DEF TypesAssumption, OfForm
                <4>. QED BY <4>1, <4>2, <4>3 DEF Promoted
            <3>. QED BY <3>1, BuiltinForms DEF FactorTypes, ExpressionAssumption, SyntheticForms
        <2>2. PICK b \in FactorTypes \cap TypeOrdinal : t = SetIncomplete(b)
            BY <1>3, <2>1 DEF OperandTypes
        <2>3. Promoted(b) = b /\ Types[t].base = b
            BY <2>2, SetIncompleteType, OperandType DEF OperandTypes
        <2>. QED BY <2>2, <2>3, BaseTypes DEF Promoted
    <1>. QED BY <1>2, <1>3

(* What the rules say of each word: first those for variables.             *)
LEMMA RulesOfAccesses ==
    ASSUME NEW k, NEW t
    PROVE  /\ Typed(k, Word("value", t)) /\ Result(k, Word("value", t)) = KindOf(t)
           /\ Typed(k, Word("variable", t)) /\ Result(k, Word("variable", t)) = Variable(t)
           /\ Typed(k, Word("end_of_variable", t))
           /\ Result(k, Word("end_of_variable", t)) = KindOf(k.of)
           /\ ~Typed(k, Word("unknown", t))
           /\ Typed(k, Word("dereference", t)) <=> Form(k.of) \in {"pointer", "file", "text"}
           /\ Result(k, Word("dereference", t)) =
                Variable(IF Form(k.of) = "pointer" THEN Types[k.of].domain
                         ELSE IF Form(k.of) = "file" THEN Types[k.of].component ELSE TypeChar)
           /\ Typed(k, Word("field", t)) <=> Form(k.of) = "record" /\ t \in DOMAIN Types[k.of].fields
           /\ Result(k, Word("field", t)) = Variable(Types[k.of].fields[t])
           /\ Typed(k, Word("index", t)) <=>
                Form(k.of) = "array" /\ MayBeAssigned(KindOf(t), Types[k.of].index)
           /\ Result(k, Word("index", t)) = Variable(Types[k.of].component)
    BY DEF Typed, Result, Word, Relations

(* The rules for factors.                                                  *)
LEMMA RulesOfFactors ==
    ASSUME NEW k, NEW t
    PROVE  /\ Typed(k, Word("parenthesize", t)) /\ Result(k, Word("parenthesize", t)) = k
           /\ Typed(k, Word("NOT", t)) <=> k = BooleanValue
           /\ Result(k, Word("NOT", t)) = BooleanValue
           /\ Typed(k, Word("first_member", t)) <=> k.family = "ordinal"
           /\ Result(k, Word("first_member", t)) = k
           /\ Typed(k, Word("member", t)) <=> KindOf(t) = k
           /\ Result(k, Word("member", t)) = k
           /\ Typed(k, Word("end_of_set", t))
           /\ Result(k, Word("end_of_set", t)) = SetValue(k.of, Either)
    BY DEF Typed, Result, Word, Relations

(* The rules for operators.                                                *)
LEMMA RulesOfOperators ==
    ASSUME NEW k, NEW t
    PROVE  /\ \A does \in {"AND", "OR"} :
                /\ Typed(k, Word(does, t)) <=> AreBoolean(k, KindOf(t))
                /\ Result(k, Word(does, t)) = BooleanValue
           /\ \A does \in {"MULTIPLY", "PLUS", "MINUS"} :
                /\ Typed(k, Word(does, t)) <=> AreNumbers(k, KindOf(t)) \/ AreSets(k, KindOf(t))
                /\ Result(k, Word(does, t)) =
                    IF AreSets(k, KindOf(t)) THEN CommonSet(k, KindOf(t))
                    ELSE IF AreIntegers(k, KindOf(t)) THEN IntegerValue ELSE RealValue
           /\ Typed(k, Word("DIVIDE_REAL", t)) <=> AreNumbers(k, KindOf(t))
           /\ Result(k, Word("DIVIDE_REAL", t)) = RealValue
           /\ \A does \in {"DIVIDE_INTEGER", "MODULO"} :
                /\ Typed(k, Word(does, t)) <=> AreIntegers(k, KindOf(t))
                /\ Result(k, Word(does, t)) = IntegerValue
           /\ Typed(k, Word("sign", t)) <=> IsNumber(k)
           /\ Result(k, Word("sign", t)) = k
           /\ \A does \in Relations :
                /\ Typed(k, Word(does, t)) <=> Comparable(does, k, KindOf(t))
                /\ Result(k, Word(does, t)) = BooleanValue
           /\ Typed(k, Word("IN", t)) <=>
                /\ KindOf(t).family = "set"
                /\ KindOf(t).of = TypeSetAny \/ k = OrdinalValue(KindOf(t).of)
           /\ Result(k, Word("IN", t)) = BooleanValue
    BY DEF Typed, Result, Word, Relations

(* The rules for statements.                                               *)
LEMMA RulesOfStatements ==
    ASSUME NEW k, NEW t
    PROVE  /\ Typed(k, Word("assign", t)) <=> MayBeAssigned(k, t)
           /\ Typed(k, Word("condition", t)) <=> k = BooleanValue
           /\ Typed(k, Word("case", t)) <=> k.family = "ordinal"
           /\ Typed(k, Word("for", t)) <=> k = KindOf(t)
           /\ Typed(k, Word("with", t)) <=> Form(k.of) = "record"
           /\ \A does \in {"assign", "condition", "case", "for", "with"} : Result(k, Word(does, t)) = k
    BY DEF Typed, Result, Word, Relations

(* A word does what it does.                                               *)
LEMMA Words == \A does, t : Word(does, t).does = does
    BY DEF Word

(* Reading a first factor follows the rules.                               *)
LEMMA FactorsImplement ==
    ASSUME ResultsArePromoted, TypeOK, ReadFactor
    PROVE  Rules!Next
    <1>. USE RulesOfAccesses DEF To, Stands, Accesses, Rules!Next, Rules!Read
    <1>1. ASSUME NEW t \in ConstantTypes, ReadConstant(t) PROVE Rules!Next
        BY <1>1 DEF ReadConstant
    <1>2. CASE ReadNilOrEmptySet
        BY <1>2 DEF ReadNilOrEmptySet
    <1>3. ASSUME NEW t \in ResultTypes, CallFunction(t) PROVE Rules!Next
        BY <1>3 DEF CallFunction
    <1>4. ASSUME NEW t \in OfForm("bounds"), ReadBound(t) PROVE Rules!Next
        <2>1. Types[t].bound \in TypeOrdinal /\ Types[t].bound \in Type
            BY DEF TypesAssumption, TypeOrdinal
        <2>2. KindOf(Promoted(Types[t].bound)) = KindOf(Types[t].bound)
            BY <2>1, KindOfPromoted
        <2>3. KindOf(Types[t].bound) = KindOf(t)
            BY <2>1, BaseTypes DEF KindOf, TypeOrdinalDynamic, FullRange, OfForm, TypeOrdinal, SimpleForms
        <2>. QED BY <1>4, <2>2, <2>3 DEF ReadBound
    <1>5. CASE ReadUnknown
        BY <1>5 DEF ReadUnknown
    <1>6. ASSUME NEW t \in VariableTypes, ReadVariable(t) PROVE Rules!Next
        BY <1>6 DEF ReadVariable
    <1>. QED BY <1>1, <1>2, <1>3, <1>4, <1>5, <1>6 DEF ReadFactor

(* So does what applyComponentAccess() makes of a variable,                *)
LEMMA AccessesImplement ==
    ASSUME ResultsArePromoted, TypeOK, ModifyAccess
    PROVE  Rules!Next
    <1>. USE RulesOfAccesses, ValueParts DEF To, Stands, Accesses, Variable, Rules!Next, Rules!Read
    <1>1. CASE Dereference
        BY <1>1 DEF Dereference
    <1>2. ASSUME NEW f \in Fields, AccessField(f) PROVE Rules!Next
        BY <1>2 DEF AccessField
    <1>3. ASSUME NEW t \in OperandTypes, Index(t) PROVE Rules!Next
        <2>1. Form(left) = "array" =>
                (AssignmentCompatible(t, Types[left].index) <=> MayBeAssigned(KindOf(t), Types[left].index))
            <3>. SUFFICES ASSUME Form(left) = "array"
                          PROVE  AssignmentCompatible(t, Types[left].index)
                                    <=> MayBeAssigned(KindOf(t), Types[left].index)
                OBVIOUS
            <3>1. Types[left].index \in TypeOrdinalDynamic
                BY ComponentTypes DEF TypeOK
            <3>2. Types[left].index \in Type
                BY <3>1 DEF TypeOrdinalDynamic, TypeOrdinal, OfForm
            <3>3. Form(Types[left].index) \notin SyntheticForms
                BY <3>1, <3>2, OrdinalForms DEF SyntheticForms
            <3>4. t \in Type /\ Promoted(t) = t
                BY OperandType
            <3>. QED BY <3>2, <3>3, <3>4, AssignmentKinds
        <2>2. Stands = Variable(left) /\ Variable(left).of = left
            BY <1>3 DEF Index
        <2>3. Typed(Stands, Word("index", t)) <=>
                Form(left) = "array" /\ AssignmentCompatible(t, Types[left].index)
            BY <2>1, <2>2
        <2>4. Result(Stands, Word("index", t)) = Variable(Types[left].component)
            BY <2>2
        <2>5. CASE Typed(Stands, Word("index", t))
            BY <1>3, <2>3, <2>4, <2>5 DEF Index
        <2>6. CASE ~Typed(Stands, Word("index", t))
            BY <1>3, <2>3, <2>6 DEF Index
        <2>. QED BY <2>5, <2>6
    <1>4. CASE ReadValue
        <2>1. KindOf(Promoted(left)) = KindOf(left)
            BY KindOfPromoted DEF TypeOK
        <2>. QED BY <1>4, <2>1 DEF ReadValue
    <1>. QED BY <1>1, <1>2, <1>3, <1>4 DEF ModifyAccess

(* what makes a factor of an expression,                                   *)
LEMMA ConstructorsImplement ==
    ASSUME ResultsArePromoted, TypeOK, MakeFactor
    PROVE  Rules!Next
    <1>. USE RulesOfFactors DEF To, Stands, Accesses, Complete, Rules!Next, Rules!Read
    <1>1. CASE FirstMember
        <2>1. left \in Type /\ Promoted(left) = left
            BY <1>1 DEF FirstMember, TypeOK
        <2>. QED BY <1>1, <2>1, PromotedKinds DEF FirstMember
    <1>2. ASSUME NEW t \in OperandTypes, Member(t) PROVE Rules!Next
        <2>1. left \in TypeOrdinal /\ left \in Type /\ Promoted(left) = left
            BY <1>2 DEF Member, TypeOK
        <2>2. KindOf(t) = KindOf(left) <=> t = left
            BY <2>1, OperandType, PromotedKinds, ValueParts DEF OrdinalValue
        <2>. QED BY <1>2, <2>2 DEF Member
    <1>3. CASE CloseSet
        <2>1. left \in TypeOrdinal /\ left \in Type /\ Promoted(left) = left
            BY <1>3 DEF CloseSet, TypeOK
        <2>2. SetIncomplete(left) \in Type /\ IncompleteCase(SetIncomplete(left))
            BY <2>1, SetIncompleteType, KindCases, FormsDiffer, BuiltinForms
            DEF OfForm, OrdinalCase, RealCase, StringCase, SetCase, IncompleteCase, EmptySetCase,
                PointerCase, StructureCase
        <2>3. FullRange(left) = left
            BY <2>1, BaseTypes DEF Promoted
        <2>4. KindOf(SetIncomplete(left)) = SetValue(left, Either)
            BY <2>1, <2>2, <2>3, SetIncompleteType DEF IncompleteCase
        <2>5. KindOf(left).of = left
            BY <2>1, PromotedKinds, ValueParts DEF OrdinalValue
        <2>. QED BY <1>3, <2>4, <2>5 DEF CloseSet
    <1>4. CASE Parenthesize
        BY <1>4 DEF Parenthesize
    <1>5. CASE Not
        <2>1. left \in Type /\ Promoted(left) = left
            BY <1>5 DEF Not, TypeOK
        <2>2. KindOf(TypeBoolean) = BooleanValue
            BY BuiltinTypes, PromotedKinds
        <2>. QED BY <1>5, <2>1, <2>2, PromotedKinds DEF Not, Unless
    <1>. QED BY <1>1, <1>2, <1>3, <1>4, <1>5 DEF MakeFactor

(* The kinds of the builtin types.                                         *)
LEMMA BuiltinKinds ==
    /\ KindOf(TypeBoolean) = BooleanValue
    /\ KindOf(TypeInteger) = IntegerValue
    /\ KindOf(TypeReal) = RealValue
    BY BuiltinTypes, PromotedKinds

(* an operator for numbers and sets,                                       *)
LEMMA ArithmeticImplements ==
    ASSUME ResultsArePromoted, TypeOK, NEW t \in OperandTypes,
           level \in Complete, NEW newLevel \in Complete,
           NEW operator \in {"MULTIPLY", "PLUS", "MINUS"}, Arithmetic(newLevel, operator, t)
    PROVE  Rules!Next
    <1>1. left \in Type /\ Promoted(left) = left /\ t \in Type /\ Promoted(t) = t
        BY OperandType DEF TypeOK
    <1>2. Stands = KindOf(left) /\ Stands' = KindOf(left')
        BY DEF Stands, Complete, Accesses, Arithmetic, To
    <1>. QED BY <1>1, <1>2, ArithmeticKinds, CommonKind, RulesOfOperators
             DEF Arithmetic, To, Rules!Next, Rules!Read

(* an operator that demands operands of one type,                          *)
LEMMA DemandsImplement ==
    ASSUME ResultsArePromoted, TypeOK, NEW t \in OperandTypes, level \in Complete,
           \/ Demand("term", TypeBoolean, "AND", t, {TypeBoolean}, "NON_BOOLEAN_TYPE")
           \/ Demand("term", TypeReal, "DIVIDE_REAL", t, {TypeInteger, TypeReal}, "NON_NUMERIC_TYPE")
           \/ \E operator \in {"DIVIDE_INTEGER", "MODULO"} :
                Demand("term", TypeInteger, operator, t, {TypeInteger}, "NON_INTEGER_TYPE")
           \/ Demand("simple", TypeBoolean, "OR", t, {TypeBoolean}, "NON_BOOLEAN_TYPE")
    PROVE  Rules!Next
    <1>1. left \in Type /\ Promoted(left) = left /\ t \in Type /\ Promoted(t) = t
        BY OperandType DEF TypeOK
    <1>2. Stands = KindOf(left) /\ Stands' = KindOf(left')
        BY DEF Stands, Complete, Accesses, Demand, To
    <1>. USE <1>1, <1>2, PromotedKinds, BuiltinKinds, RulesOfOperators
         DEF Demand, Unless, To, Rules!Next, Rules!Read
    <1>3. ASSUME NEW operator \in {"AND", "OR"}, NEW newLevel,
                 Demand(newLevel, TypeBoolean, operator, t, {TypeBoolean}, "NON_BOOLEAN_TYPE")
          PROVE  Rules!Next
        BY <1>3 DEF AreBoolean
    <1>4. CASE Demand("term", TypeReal, "DIVIDE_REAL", t, {TypeInteger, TypeReal}, "NON_NUMERIC_TYPE")
        BY <1>4 DEF AreNumbers, IsNumber
    <1>5. ASSUME NEW operator \in {"DIVIDE_INTEGER", "MODULO"},
                 Demand("term", TypeInteger, operator, t, {TypeInteger}, "NON_INTEGER_TYPE")
          PROVE  Rules!Next
        BY <1>5 DEF AreIntegers
    <1>. QED BY <1>3, <1>4, <1>5

(* every operator,                                                         *)
LEMMA OperatorsImplement ==
    ASSUME ResultsArePromoted, TypeOK, ApplyOperator
    PROVE  Rules!Next
    <1>1. ASSUME NEW t \in OperandTypes, Multiply(t) \/ Add(t) PROVE Rules!Next
        BY <1>1, ArithmeticImplements, DemandsImplement DEF Multiply, Add, Complete
    <1>. USE DEF To, Stands, Accesses, Complete, Rules!Next, Rules!Read
    <1>2. ASSUME NEW t \in OperandTypes, In(t) PROVE Rules!Next
        <2>1. left \in Type /\ Promoted(left) = left /\ t \in Type /\ Promoted(t) = t
            BY <1>2, OperandType DEF TypeOK, In
        <2>2. KindOf(t).family = "set" <=> Form(t) \in {"set", "set_incomplete", "set_any"}
            BY <2>1, PromotedKinds
        <2>3. Form(t) = "set_any" <=> t = TypeSetAny
            BY <2>1, BuiltinForms
        <2>4. t = TypeSetAny => KindOf(t).of = TypeSetAny
            BY <2>1, <2>3, KindCases, FormsDiffer, BuiltinForms, ValueParts
            DEF OrdinalCase, RealCase, StringCase, SetCase, IncompleteCase, EmptySetCase, PointerCase,
                StructureCase, EmptySetValue, SetValue
        <2>5. ASSUME Form(t) \in {"set", "set_incomplete"}
              PROVE  /\ KindOf(t).of = Types[t].base /\ KindOf(t).of # TypeSetAny
                     /\ left = Types[t].base <=> KindOf(left) = OrdinalValue(KindOf(t).of)
            <3>1. Types[t].base \in TypeOrdinal /\ FullRange(Types[t].base) = Types[t].base
                BY <2>5, BasesOfOperands
            <3>2. KindOf(t).of = Types[t].base
                BY <2>1, <2>5, <3>1, KindCases, FormsDiffer, BuiltinForms, ValueParts
                DEF OrdinalCase, RealCase, StringCase, SetCase, IncompleteCase, EmptySetCase, PointerCase,
                    StructureCase, SetValue
            <3>3. Types[t].base # TypeSetAny
                BY <3>1, BaseTypes
            <3>4. left = Types[t].base <=> KindOf(left) = OrdinalValue(Types[t].base)
                BY <2>1, <3>1, PromotedKinds, ValueParts DEF OrdinalValue
            <3>. QED BY <3>2, <3>3, <3>4
        <2>. QED BY <1>2, <2>2, <2>3, <2>4, <2>5, BuiltinKinds, RulesOfOperators DEF In, Unless
    <1>3. CASE Sign
        <2>1. left \in Type /\ Promoted(left) = left
            BY <1>3 DEF Sign, TypeOK
        <2>. QED BY <1>3, <2>1, OperandFamilies, RulesOfOperators DEF Sign
    <1>4. ASSUME NEW relation \in {"EQUAL", "NOT_EQUAL", "LESS", "GREATER", "LESS_OR_EQUAL", "GREATER_OR_EQUAL"},
                 NEW t \in OperandTypes, Compare(relation, t)
          PROVE  Rules!Next
        <2>1. left \in Type /\ Promoted(left) = left /\ t \in Type /\ Promoted(t) = t
            BY <1>4, OperandType DEF TypeOK, Compare
        <2>. QED BY <1>4, <2>1, ComparableKinds, BuiltinKinds, RulesOfOperators DEF Compare, Unless, Relations
    <1>. QED BY <1>1, <1>2, <1>3, <1>4 DEF ApplyOperator

(* and what statements demand.                                             *)
LEMMA UsesImplement ==
    ASSUME ResultsArePromoted, TypeOK, Use
    PROVE  Rules!Next
    <1>. USE RulesOfStatements, Words DEF To, Stands, Accesses, Complete, Rules!Next, Rules!Read
    <1>1. ASSUME NEW t \in VariableTypes, Assign(t) PROVE Rules!Next
        <2>1. left \in Type /\ Promoted(left) = left
            BY <1>1 DEF Assign, TypeOK
        <2>2. AssignmentCompatible(left, t) <=> MayBeAssigned(KindOf(left), t)
            BY <2>1, AssignmentKinds DEF ExpressionAssumption
        <2>. QED BY <1>1, <2>2 DEF Assign, Unless
    <1>2. CASE UseAsCondition
        <2>1. left \in Type /\ Promoted(left) = left
            BY <1>2 DEF UseAsCondition, TypeOK
        <2>. QED BY <1>2, <2>1, PromotedKinds DEF UseAsCondition, Unless
    <1>3. CASE UseAsCaseIndex
        <2>1. left \in Type /\ Promoted(left) = left
            BY <1>3 DEF UseAsCaseIndex, TypeOK
        <2>. QED BY <1>3, <2>1, PromotedKinds DEF UseAsCaseIndex, Unless
    <1>4. ASSUME NEW t \in VariableTypes \cap TypeOrdinal, UseAsForValue(t) PROVE Rules!Next
        <2>1. left \in Type /\ Promoted(left) = left /\ t \in Type
            BY <1>4 DEF UseAsForValue, TypeOK, ExpressionAssumption
        <2>2. Compatible(left, t) <=> KindOf(left) = KindOf(t)
            <3>1. t \in TypeOrdinalDynamic /\ t \in TypeOrdinal
                BY <2>1, OrdinalForms
            <3>2. Compatible(left, t) <=> left = t \/ OrdinalsAreCompatible(left, t)
                BY <2>1, <3>1, FormsDiffer, BuiltinForms DEF Compatible
            <3>3. KindOf(t).family = "ordinal"
                BY <3>1, ValueParts DEF KindOf, OrdinalValue
            <3>. QED BY <2>1, <3>1, <3>2, <3>3, ValuesOfOrdinals, PromotedKinds, OrdinalForms
        <2>. QED BY <1>4, <2>2 DEF UseAsForValue, Unless
    <1>5. CASE UseAsWithRecord
        BY <1>5, ValueParts DEF UseAsWithRecord, Unless, Variable
    <1>. QED BY <1>1, <1>2, <1>3, <1>4, <1>5 DEF Use

(* Whatever the types and however long the expression, the analysis finds  *)
(* errors where the rules do, and the types of the values they give.       *)
THEOREM AnalysisImplementsRules == ResultsArePromoted => (Spec => ImplementsRules)
    <1>. SUFFICES ASSUME ResultsArePromoted PROVE Spec => ImplementsRules
        OBVIOUS
    <1>1. Init => Rules!Init
        BY DEF Init, Rules!Init, Stands
    <1>2. TypeOK /\ [Next]_vars => [Rules!Next]_<<word, Stands, errors # {}>>
        BY FactorsImplement, AccessesImplement, ConstructorsImplement, OperatorsImplement, UsesImplement
        DEF Next, vars, Stands
    <1>3. Spec => []TypeOK
        BY TypesArePromoted
    <1>. QED BY <1>1, <1>2, <1>3, PTL DEF Spec, Rules!Spec, ImplementsRules
===================================================================================
