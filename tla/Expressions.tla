-------------------------------- MODULE Expressions --------------------------------
(***************************************************************************)
(* How StatementBuilder of semantics-analyze.cxx finds the type of an      *)
(* expression, and what the statements ask of it: resolveFactor(),         *)
(* applyComponentAccess(), resolveTerm(), resolveSimpleExpression(),       *)
(* resolveExpression() and their callers.                                  *)
(*                                                                         *)
(* The functions call each other as the grammar nests.  Each adds to the   *)
(* expression on the left of what it reads next, and of an operand on the  *)
(* right only its type matters; so the state is the expression on the      *)
(* left, and an operand is any type an expression may have.  Parentheses   *)
(* and set constructors turn an expression into the first factor of        *)
(* another one, so that every expression is reached from its left end.     *)
(***************************************************************************)
EXTENDS TypeRelations, FiniteSets

CONSTANTS
    VariableTypes,  \* types of the variables and fields a program has
    ConstantTypes,  \* types of its constants
    ResultTypes,    \* result types of its functions
    MaxErrors       \* bound: codes of errors after which nothing more is read

(* What a program gives an expression to work on.  The types of constants  *)
(* are promoted already, and whatever a set constructor may have for       *)
(* members has its type of sets.                                           *)
ExpressionAssumption ==
    /\ VariableTypes \cup ConstantTypes \cup ResultTypes
            \subseteq {t \in Type : Form(t) \notin SyntheticForms}
    /\ \A t \in ConstantTypes : Promoted(t) = t
    /\ \A t \in TypeOrdinal : \E s \in OfForm("set_incomplete") : Types[s].base = t
    /\ MaxErrors \in Nat

(* No function has a result of a subrange type.                            *)
ResultsArePromoted == \A t \in ResultTypes : Promoted(t) = t

ASSUME ProgramHasTypes == ExpressionAssumption

VARIABLES
    level,  \* the function that has the expression, see Levels
    left,   \* its type: variableType() of an access, else valueType()
    word,   \* the word read last, with its operand
    errors  \* the codes of the errors reported

vars == <<level, left, word, errors>>

(* start: none has begun.  access: applyComponentAccess().  indexing: the  *)
(* same, in a modifier with more than one index.  factor, term, simple:    *)
(* resolveTerm() and resolveSimpleExpression(), whose loops wait for an    *)
(* operator.  operand: resolveSimpleExpression() returned early.           *)
(* expression: resolveExpression() returned.  members: resolveFactor() of  *)
(* a set constructor, whose first member is of the type left.  used: a     *)
(* statement took the expression.                                          *)
Levels == {"start", "access", "indexing", "factor", "term", "simple", "operand",
           "expression", "members", "used"}
Complete == {"factor", "term", "simple", "operand", "expression"}
Accesses == {"access", "indexing"}

Word(does, operand) == [does |-> does, operand |-> operand]
Codes == {"TYPE_MISMATCH", "NON_RECORD_TYPE", "NON_ARRAY_TYPE", "NON_ORDINAL_TYPE",
          "NON_BOOLEAN_TYPE", "NON_NUMERIC_TYPE", "NON_INTEGER_TYPE", "NON_SET_TYPE",
          "UNDEFINED_IDENTIFIER", "WRONG_IDENTIFIER_KIND", "INVALID_COMPONENT_ACCESS"}

(* The type of [...] with members of type t; each base has its own.        *)
SetIncomplete(t) == CHOOSE s \in OfForm("set_incomplete") : Types[s].base = t

(* The types an expression can have as a value: valueType().  Variables    *)
(* are promoted, and the bounds of a conformant array are; the result of a *)
(* function is not.                                                        *)
FactorTypes ==
    {Promoted(t) : t \in VariableTypes} \cup ConstantTypes \cup ResultTypes
        \cup {TypeBoolean, TypeInteger, TypeReal, TypeSetAny, TypePointerAny}
OperandTypes == FactorTypes \cup {SetIncomplete(t) : t \in FactorTypes \cap TypeOrdinal}

(* Words that change nothing but the expression, or report the codes.      *)
To(newLevel, type, does, operand, codes) ==
    /\ Cardinality(errors) < MaxErrors
    /\ level' = newLevel
    /\ left' = type
    /\ word' = Word(does, operand)
    /\ errors' = errors \cup codes

Unless(condition, code) == IF condition THEN {} ELSE {code}

-----------------------------------------------------------------------------
(* The first factor.                                                       *)

ReadConstant(t) ==
    /\ level = "start"
    /\ To("factor", t, "value", t, {})

ReadNilOrEmptySet ==
    /\ level = "start"
    /\ \E t \in {TypePointerAny, TypeSetAny} : To("factor", t, "value", t, {})

(* A call, or a function identifier without parameters.                    *)
CallFunction(t) ==
    /\ level = "start"
    /\ To("factor", t, "value", t, {})

(* Slip: the type of the bounds is taken as it is.                         *)
ReadBoundUnpromoted(t) ==
    /\ level = "start"
    /\ To("factor", Types[t].bound, "value", t, {})

(* ExpressionBound                                                         *)
ReadBound(t) ==
    /\ level = "start"
    /\ To("factor", Promoted(Types[t].bound), "value", t, {})

(* An identifier that is not defined or of a wrong kind, and a component   *)
(* of what is not a variable: fallbackExpression().                        *)
ReadUnknown ==
    /\ level = "start"
    /\ \E code \in {"UNDEFINED_IDENTIFIER", "WRONG_IDENTIFIER_KIND", "INVALID_COMPONENT_ACCESS"} :
        To("factor", TypeInteger, "unknown", TypeInteger, {code})

ReadVariable(t) ==
    /\ level = "start"
    /\ To("access", t, "variable", t, {})

-----------------------------------------------------------------------------
(* applyComponentAccess(): a modifier that does not fit leaves the access  *)
(* as it is.                                                               *)

Dereference ==
    /\ level \in Accesses
    /\ \/ /\ Form(left) = "pointer"
          /\ To("access", Types[left].domain, "dereference", left, {})
       \/ /\ Form(left) = "file"
          /\ To("access", Types[left].component, "dereference", left, {})
       \/ /\ Form(left) = "text"
          /\ To("access", TypeChar, "dereference", left, {})
       \/ /\ Form(left) \notin {"pointer", "file", "text"}
          /\ To("access", left, "dereference", left, {"TYPE_MISMATCH"})

AccessField(f) ==
    /\ level \in Accesses
    /\ \/ /\ Form(left) # "record"
          /\ To("access", left, "field", f, {"NON_RECORD_TYPE"})
       \/ /\ Form(left) = "record"
          /\ f \notin DOMAIN Types[left].fields
          /\ To("access", left, "field", f, {"UNDEFINED_IDENTIFIER"})
       \/ /\ Form(left) = "record"
          /\ f \in DOMAIN Types[left].fields
          /\ To("access", Types[left].fields[f], "field", f, {})

(* An index: the first of a modifier, or the next one of a modifier whose  *)
(* indices have been good; after a bad one, the rest is not looked at.     *)
Index(t) ==
    /\ level \in Accesses
    /\ \/ /\ Form(left) # "array"
          /\ To("access", left, "index", t, {"NON_ARRAY_TYPE"})
       \/ /\ Form(left) = "array"
          /\ ~AssignmentCompatible(t, Types[left].index)
          /\ To("access", left, "index", t, {"TYPE_MISMATCH"})
       \/ /\ Form(left) = "array"
          /\ AssignmentCompatible(t, Types[left].index)
          /\ To("indexing", Types[left].component, "index", t, {})

(* VariableAccess::valueType()                                             *)
ReadValue ==
    /\ level \in Accesses
    /\ To("factor", Promoted(left), "end_of_variable", left, {})

-----------------------------------------------------------------------------
(* Set constructors.  A member that does not fit makes an empty set of it, *)
(* and the members that follow are not looked at.                          *)

FirstMember ==
    /\ level \in Complete
    /\ \/ /\ left \in TypeOrdinal
          /\ To("members", left, "first_member", left, {})
       \/ /\ left \notin TypeOrdinal
          /\ To("factor", TypeSetAny, "first_member", left, {"NON_ORDINAL_TYPE"})

(* A further member, or the end of a range of members.                     *)
Member(t) ==
    /\ level = "members"
    /\ \/ /\ t = left
          /\ To("members", left, "member", t, {})
       \/ /\ t # left
          /\ To("factor", TypeSetAny, "member", t, {"TYPE_MISMATCH"})

CloseSet ==
    /\ level = "members"
    /\ To("factor", SetIncomplete(left), "end_of_set", left, {})

Parenthesize ==
    /\ level \in Complete
    /\ To("factor", left, "parenthesize", left, {})

Not ==
    /\ level = "factor"
    /\ To("factor", TypeBoolean, "NOT", left, Unless(left = TypeBoolean, "NON_BOOLEAN_TYPE"))

-----------------------------------------------------------------------------
(* Operators.                                                              *)

(* Slip: only the left operand adapts to the right one.                    *)
SynchronizedToTheRight(l, r) ==
    IF AssignmentCompatible(l, r) THEN [left |-> r, right |-> r]
    ELSE [left |-> l, right |-> r]

(* synchronizeOperandTypes(): the two types after it.                      *)
Synchronized(l, r) ==
    IF AssignmentCompatible(l, r) THEN [left |-> r, right |-> r]
    ELSE IF AssignmentCompatible(r, l) THEN [left |-> l, right |-> l]
    ELSE [left |-> l, right |-> r]

(* ExpressionOperatorCommonType::valueType()                               *)
CommonType(l, r) == IF AssignmentCompatible(l, r) THEN r ELSE l

IsNumeric(t) == t \in {TypeInteger, TypeReal}
IsSet(t) == AssignmentCompatible(TypeSetAny, t)
IsPointer(t) == AssignmentCompatible(TypePointerAny, t)
IsSimpleOrString(t) == t \in TypeOrdinal \/ t = TypeReal \/ IsString(t)

(* The operator is reported to be wrong but makes an expression of its own *)
(* type from any operands.                                                 *)
Demand(newLevel, result, operator, t, operands, code) ==
    To(newLevel, result, operator, t, Unless(left \in operands /\ t \in operands, code))

(* + - *: if an operand does not fit, the operator is skipped.             *)
Arithmetic(newLevel, operator, t) ==
    LET both == Synchronized(left, t)
    IN  IF (IsNumeric(both.left) \/ IsSet(both.left)) /\ Compatible(both.left, both.right)
        THEN To(newLevel, CommonType(left, t), operator, t, {})
        ELSE To(newLevel, left, operator, t, {"TYPE_MISMATCH"})

(* resolveTerm()                                                           *)
Multiply(t) ==
    /\ level \in {"factor", "term"}
    /\ \/ Demand("term", TypeBoolean, "AND", t, {TypeBoolean}, "NON_BOOLEAN_TYPE")
       \/ Arithmetic("term", "MULTIPLY", t)
       \/ Demand("term", TypeReal, "DIVIDE_REAL", t, {TypeInteger, TypeReal}, "NON_NUMERIC_TYPE")
       \/ \E operator \in {"DIVIDE_INTEGER", "MODULO"} :
            Demand("term", TypeInteger, operator, t, {TypeInteger}, "NON_INTEGER_TYPE")

(* resolveSimpleExpression(), the sign of its first term.                  *)
Sign ==
    /\ level \in {"factor", "term"}
    /\ \/ /\ IsNumeric(left)
          /\ To("simple", left, "sign", left, {})
       \/ /\ ~IsNumeric(left)
          /\ To("operand", left, "sign", left, {"NON_NUMERIC_TYPE"})

(* resolveSimpleExpression()                                               *)
Add(t) ==
    /\ level \in {"factor", "term", "simple"}
    /\ \/ Demand("simple", TypeBoolean, "OR", t, {TypeBoolean}, "NON_BOOLEAN_TYPE")
       \/ \E operator \in {"PLUS", "MINUS"} : Arithmetic("simple", operator, t)

(* resolveExpression(): an error makes the constant false of it.           *)
In(t) ==
    /\ level \in {"factor", "term", "simple", "operand"}
    /\ LET isSet == Form(t) \in {"set", "set_incomplete", "set_any"}
           fits == t = TypeSetAny \/ left = Types[t].base
       IN  To("expression", TypeBoolean, "IN", t,
              IF ~isSet THEN {"NON_SET_TYPE"} ELSE Unless(fits, "TYPE_MISMATCH"))

Compare(relation, t) ==
    /\ level \in {"factor", "term", "simple", "operand"}
    /\ LET both == Synchronized(left, t)
           fits == \/ IsSimpleOrString(both.left)
                   \/ IsSet(both.left) /\ relation \notin {"LESS", "GREATER"}
                   \/ IsPointer(both.left) /\ relation \in {"EQUAL", "NOT_EQUAL"}
       IN  To("expression", TypeBoolean, relation, t,
              Unless(fits /\ Compatible(both.left, both.right), "TYPE_MISMATCH"))

-----------------------------------------------------------------------------
(* What statements do with an expression or a variable.                    *)

Assign(t) ==
    /\ level \in Complete
    /\ To("used", left, "assign", t, Unless(AssignmentCompatible(left, t), "TYPE_MISMATCH"))

(* resolveCondition()                                                      *)
UseAsCondition ==
    /\ level \in Complete
    /\ To("used", left, "condition", left, Unless(left = TypeBoolean, "NON_BOOLEAN_TYPE"))

UseAsCaseIndex ==
    /\ level \in Complete
    /\ To("used", left, "case", left, Unless(left \in TypeOrdinal, "NON_ORDINAL_TYPE"))

(* The initial or the final value of a control variable of type t.         *)
UseAsForValue(t) ==
    /\ level \in Complete
    /\ To("used", left, "for", t, Unless(Compatible(left, t), "TYPE_MISMATCH"))

UseAsWithRecord ==
    /\ level \in Accesses
    /\ To("used", left, "with", left, Unless(Form(left) = "record", "NON_RECORD_TYPE"))

-----------------------------------------------------------------------------

Init ==
    /\ level = "start"
    /\ left = TypeInteger
    /\ word = Word("program", TypeInteger)
    /\ errors = {}

Fields == {"undefined"} \cup UNION {DOMAIN Types[t].fields : t \in OfForm("record")}

ReadFactor ==
    \/ \E t \in ConstantTypes : ReadConstant(t)
    \/ ReadNilOrEmptySet
    \/ \E t \in ResultTypes : CallFunction(t)
    \/ \E t \in OfForm("bounds") : ReadBound(t)
    \/ ReadUnknown
    \/ \E t \in VariableTypes : ReadVariable(t)

ModifyAccess ==
    \/ Dereference
    \/ \E f \in Fields : AccessField(f)
    \/ \E t \in OperandTypes : Index(t)
    \/ ReadValue

MakeFactor ==
    \/ FirstMember
    \/ \E t \in OperandTypes : Member(t)
    \/ CloseSet
    \/ Parenthesize
    \/ Not

ApplyOperator ==
    \/ \E t \in OperandTypes : Multiply(t) \/ Add(t) \/ In(t)
    \/ Sign
    \/ \E relation \in {"EQUAL", "NOT_EQUAL", "LESS", "GREATER", "LESS_OR_EQUAL", "GREATER_OR_EQUAL"}, t \in OperandTypes :
        Compare(relation, t)

Use ==
    \/ \E t \in VariableTypes : Assign(t)
    \/ UseAsCondition
    \/ UseAsCaseIndex
    \/ \E t \in VariableTypes \cap TypeOrdinal : UseAsForValue(t)
    \/ UseAsWithRecord

Next == ReadFactor \/ ModifyAccess \/ MakeFactor \/ ApplyOperator \/ Use

Spec == Init /\ [][Next]_vars

-----------------------------------------------------------------------------
(* Variables have the types they are meant to, and the analysis ends with  *)
(* an expression whose type is promoted: never a subrange, or a set over   *)
(* one, on which the tests for identity of types rely.                     *)
TypeOK ==
    /\ level \in Levels
    /\ left \in Type
    /\ level \in Complete \cup {"members"} => Promoted(left) = left
    /\ level = "members" => left \in TypeOrdinal
    /\ errors \subseteq Codes

(* The comment at TypeSetIncomplete: "The base type should never be a      *)
(* subrange, since it's supposed to be the promoted type of a member       *)
(* expression", which an assertion checks.                                 *)
SetMembersArePromoted == level = "members" => Form(left) # "subrange"
====================================================================================
