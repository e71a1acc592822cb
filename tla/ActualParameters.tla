----------------------------- MODULE ActualParameters -----------------------------
(***************************************************************************)
(* The actual parameters of a call as StatementBuilder of                  *)
(* semantics-analyze.cxx looks at them: as a variable, as a value or as    *)
(* the name of a subroutine, depending on what is called; and the state of *)
(* the resolution of a call, which reads them from left to right.          *)
(***************************************************************************)
EXTENDS TypeRelations, Sequences, FiniteSets

CONSTANTS
    Names,       \* what identifiers that are no variables mean
    TagFields,   \* the pairs of a record type and its tag field
    Written,     \* for each name, the actual parameters a call of it may have
    MaxActuals   \* bound: for each name, how many of them a call may have

VARIABLES
    callee,   \* the identifier of the procedure or function called
    wanted,   \* what its place in the program calls for, "procedure" or "function"
    count,    \* how many actual parameters follow it
    actuals,  \* those read so far
    errors,   \* the places of the errors: 0 the identifier, i the i-th actual
              \* parameter, count + 1 the end of the call
    node,     \* what becomes of the call
    status    \* "lookup", then "declared" or "required", then "done"

callVars == <<callee, wanted, count, actuals, errors, node, status>>

(* The forms of an actual parameter: "variable" is any variable that is    *)
(* neither a "component" of an array nor a "field" of a record that is     *)
(* named with its record; "name" an identifier of something else; and      *)
(* "expression" whatever is no access.                                     *)
Actual(form, of, field, format) == [form |-> form, of |-> of, field |-> field, format |-> format]
NoField == "none"
ActualForms == {"variable", "component", "field", "name", "expression"}
Formats == {"none", "width", "real_width", "fraction", "real_fraction"}

(* A name is also given the type of the value it has in an expression, and *)
(* whether it has one: fallbackExpression() stands for it if not.  The     *)
(* name of a function is a call without actual parameters.  The value of a *)
(* bound of a schema is of the type that is bounded.                       *)
NameKinds == {"undefined", "constant", "procedure", "function",
              "required_procedure", "required_function"}
ParameterAssumption ==
    /\ \A n \in DOMAIN Names :
        /\ Names[n].kind \in NameKinds
        /\ Names[n].type \in Type \ OfForm("bounds")
        /\ Names[n].value \in BOOLEAN
    /\ MaxActuals \in [DOMAIN Names -> Nat]
    /\ DOMAIN Written = DOMAIN Names
    /\ \A a \in UNION {Written[n] : n \in DOMAIN Names} :
        /\ a.format \in Formats
        /\ a.form \in ActualForms
        /\ a.form = "variable" => a.of \in Type
        /\ a.form = "expression" => a.of \in Type \ OfForm("bounds")
        /\ a.form = "variable" => Form(a.of) \notin SyntheticForms
        /\ a.form = "component" => a.of \in OfForm("array")
        /\ a.form = "field" => a.of \in OfForm("record") /\ a.field \in DOMAIN Types[a.of].fields
        /\ a.form = "name" => a.of \in DOMAIN Names

ASSUME ParametersAreWritten == ParameterAssumption

-----------------------------------------------------------------------------
(* checkExpressionIsVariableAccess() and resolveVariableAccess() find no   *)
(* variable in an expression and in a name of something else.              *)
IsVariableAccess(a) == a.form \in {"variable", "field", "component"}

VariableType(a) ==
    CASE a.form = "field" -> Types[a.of].fields[a.field]
      [] a.form = "component" -> Types[a.of].component
      [] OTHER -> a.of

(* resolveExpression(): the type of the value.                             *)
ValueType(a) ==
    IF a.form = "name" THEN Names[a.of].type
    ELSE IF a.form = "expression" THEN a.of ELSE Promoted(VariableType(a))

(* It reports an error at a name that has no value.                        *)
HasNoValue(a) == a.form = "name" /\ ~Names[a.of].value

(* checkNoFormattingSpecification()                                        *)
IsFormatted(a) == a.format # "none"

At(i, condition) == IF condition THEN {i} ELSE {}

-----------------------------------------------------------------------------

Place == Len(actuals) + 1    \* of the actual parameter read next
Remaining == count - Len(actuals)
AtEnd == count + 1

Read(a) == actuals' = Append(actuals, a)

(* checkNoExtraneousParameter() when the i-th would be the next one.       *)
Extraneous(i) == At(i, i <= count)

Stop(places, result) ==
    /\ errors' = errors \cup places
    /\ node' = result
    /\ status' = "done"
    /\ UNCHANGED <<callee, wanted, count>>
===================================================================================
