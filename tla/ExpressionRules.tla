------------------------------ MODULE ExpressionRules ------------------------------
(***************************************************************************)
(* What expressions may be, by the rules of ISO 7185 (6.5 to 6.8), told    *)
(* word by word: whether a word is well typed after a text that stands for *)
(* a value of some kind, and what the text stands for then.  A word is     *)
(* what it does and the operand it does it with: the name of a type, which *)
(* is that of a value or a variable, or of a field.                        *)
(***************************************************************************)
EXTENDS Expressions, ValueKinds

Relations == {"EQUAL", "NOT_EQUAL", "LESS", "GREATER", "LESS_OR_EQUAL", "GREATER_OR_EQUAL"}
Comparable(relation, k, o) ==
    \/ AreNumbers(k, o)
    \/ k = o /\ k.family \in {"ordinal", "string"}
    \/ AreSets(k, o) /\ relation \notin {"LESS", "GREATER"}
    \/ ArePointers(k, o) /\ relation \in {"EQUAL", "NOT_EQUAL"}

(* The word is well typed after text of the kind k.                        *)
Typed(k, w) ==
    LET o == KindOf(w.operand)
        t == w.operand
    IN  CASE w.does \in {"value", "variable", "end_of_variable", "parenthesize"} -> TRUE
          [] w.does = "unknown" -> FALSE
          [] w.does = "dereference" -> Form(k.of) \in {"pointer", "file", "text"}
          [] w.does = "field" -> Form(k.of) = "record" /\ w.operand \in DOMAIN Types[k.of].fields
          [] w.does = "index" -> Form(k.of) = "array" /\ MayBeAssigned(o, Types[k.of].index)
          [] w.does = "sign" -> IsNumber(k)
          [] w.does = "NOT" -> k = BooleanValue
          [] w.does \in {"AND", "OR"} -> AreBoolean(k, o)
          [] w.does \in {"MULTIPLY", "PLUS", "MINUS"} -> AreNumbers(k, o) \/ AreSets(k, o)
          [] w.does = "DIVIDE_REAL" -> AreNumbers(k, o)
          [] w.does \in {"DIVIDE_INTEGER", "MODULO"} -> AreIntegers(k, o)
          [] w.does \in Relations -> Comparable(w.does, k, o)
          [] w.does = "IN" -> o.family = "set" /\ (o.of = TypeSetAny \/ k = OrdinalValue(o.of))
          [] w.does = "first_member" -> k.family = "ordinal"
          [] w.does = "member" -> o = k
          [] w.does = "end_of_set" -> TRUE
          [] w.does = "assign" -> MayBeAssigned(k, t)
          [] w.does = "condition" -> k = BooleanValue
          [] w.does = "case" -> k.family = "ordinal"
          [] w.does = "for" -> k = o
          [] w.does = "with" -> Form(k.of) = "record"
          [] OTHER -> FALSE

(* What the text stands for then.                                          *)
Result(k, w) ==
    LET o == KindOf(w.operand)
        t == w.operand
    IN  CASE w.does = "value" -> o
          [] w.does = "variable" -> Variable(t)
          [] w.does = "dereference" ->
                Variable(CASE Form(k.of) = "pointer" -> Types[k.of].domain
                           [] Form(k.of) = "file" -> Types[k.of].component
                           [] OTHER -> TypeChar)
          [] w.does = "field" -> Variable(Types[k.of].fields[w.operand])
          [] w.does = "index" -> Variable(Types[k.of].component)
          [] w.does = "end_of_variable" -> KindOf(k.of)
          [] w.does \in {"MULTIPLY", "PLUS", "MINUS"} ->
                IF AreSets(k, o) THEN CommonSet(k, o)
                ELSE IF AreIntegers(k, o) THEN IntegerValue ELSE RealValue
          [] w.does = "DIVIDE_REAL" -> RealValue
          [] w.does \in {"DIVIDE_INTEGER", "MODULO"} -> IntegerValue
          [] w.does \in Relations \cup {"IN", "AND", "OR", "NOT"} -> BooleanValue
          [] w.does = "end_of_set" -> SetValue(k.of, Either)
          [] OTHER -> k

-----------------------------------------------------------------------------
(* The analysis of expressions implements these rules, which know values   *)
(* and no type objects.                                                    *)

(* What the text read so far stands for: nothing, a variable, or a value.  *)
Stands ==
    IF level = "start" THEN Nothing
    ELSE IF level \in Accesses \/ (level = "used" /\ word.does = "with") THEN Variable(left)
    ELSE KindOf(left)

Rules == INSTANCE TypedReading
    WITH FirstWord <- Word("program", TypeInteger), kind <- Stands, wrong <- errors # {}

(* Every step of the analysis reports an error if, and only if, the word   *)
(* read breaks a rule where no earlier one did; and until then, the type   *)
(* it finds is that of the value the rules give the text.                  *)
ImplementsRules == Rules!Spec
===================================================================================
