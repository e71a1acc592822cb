----------------------------- MODULE MCStatements -----------------------------
(***************************************************************************)
(* Programs with few labels and names, and some of the forms of statement. *)
(***************************************************************************)
EXTENDS StatementRules

OnlySubroutine == [{"p"} -> {"none", "procedure"}]
VariableAndSubroutine ==
    {[v |-> use, p |-> subroutine] : use \in {"none", "ordinal", "other"},
                                     subroutine \in {"none", "procedure"}}
VariablesOrSubroutine ==
    {[v |-> use, p |-> second] : use \in {"none", "ordinal", "parameter"},
                                 second \in {"none", "ordinal", "procedure"}}
VariableAndFunction ==
    {[v |-> use, p |-> subroutine] : use \in {"none", "ordinal"},
                                     subroutine \in {"none", "function"}}
FunctionsAndVariable == [{"f", "g"} -> {"none", "ordinal", "function", "procedure"}]

NoFields == {<<{}>>}
HidingFields == {<<{"v"}>>}
SomeFields == {<<{"v"}>>, <<{}, {"v"}>>}
TwoFieldLists == {<<{}, {"v"}>>, <<{"v"}, {"v", "p"}>>}
FunctionFields == {<<{"f"}>>, <<{}, {}>>}

Vocabulary(labels, names, forms, declarations, fieldLists, maxSequence, maxNodes) ==
    [labels |-> labels, names |-> names, forms |-> forms, declarations |-> declarations,
     fieldLists |-> fieldLists, maxSequence |-> maxSequence, maxNodes |-> maxNodes]

(* Labels and goto statements: deeply nested blocks, every statement.      *)
JumpVocabularies ==
    { Vocabulary({1}, {"p"}, {"empty", "goto", "compound"}, OnlySubroutine, NoFields, 2, 6),
      Vocabulary({1}, {"p"}, {"empty", "goto", "compound", "repeat", "if", "while", "case"},
                 OnlySubroutine, NoFields, 2, 4),
      Vocabulary({1}, {"p"}, {"goto", "repeat", "if"}, OnlySubroutine, NoFields, 2, 5) }

(* Names: threats in loops, other accesses, functions and references.      *)
NameVocabularies ==
    { Vocabulary({}, {"v", "p"}, {"assignment", "for", "with"},
                 VariablesOrSubroutine, HidingFields, 2, 5),
      Vocabulary({}, {"v", "p"}, {"assignment", "procedure", "read", "for", "with"},
                 VariableAndSubroutine, SomeFields, 2, 5),
      Vocabulary({}, {"f", "g"}, {"empty", "assignment"},
                 FunctionsAndVariable, NoFields, 2, 6),
      Vocabulary({}, {"f", "g"}, {"assignment", "with"},
                 FunctionsAndVariable, FunctionFields, 2, 5),
      Vocabulary({1}, {"v", "p"}, {"assignment", "goto", "with"},
                 VariableAndFunction, TwoFieldLists, 1, 5) }

JumpAndNameVocabularies == JumpVocabularies \cup NameVocabularies

(* readln in a procedure or a with statement.                              *)
FileVocabularies ==
    { Vocabulary({}, {"p"}, {"readln", "with"}, OnlySubroutine, NoFields, 1, 4) }
=============================================================================
