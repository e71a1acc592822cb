------------------------------- MODULE MCLexing -------------------------------
(***************************************************************************)
(* Every short text over a few characters, with some beginning before it:  *)
(* words, numbers, comments and character strings.                         *)
(***************************************************************************)
EXTENDS LexicalReference

MCUpper(c) == CASE c = "d" -> "D" [] c = "e" -> "E" [] OTHER -> c

(* TLC evaluates a definition without parameters once, but not one that a   *)
(* constant is replaced by: hence these two.                               *)
MCSeparatorTable == SeparatorTables
MCTokenTable == TokenTables

Word(name, spelling) == [name |-> name, spelling |-> spelling]
SomeWords ==
    << Word("WsDo", <<"D", "O">>), Word("WsDownto", <<"D", "O", "W", "N", "T", "O">>),
       Word("WsOr", <<"O", "R">>), Word("WsTo", <<"T", "O">>) >>

AllLetters == {"A", "D", "E", "N", "O", "R", "T", "W"}
AllDigits == {"1"}
Blanks == {" ", "\n"}
LineBreaks == {"\n"}
AllCharacters ==
    AllLetters \cup AllDigits \cup Blanks \cup {"(", ")", "{", "}", "*", "+", ".", "'", "?"}

Texts(beginnings, chars, maxLen) ==
    {before \o w : before \in beginnings, w \in BoundedSeq(chars, maxLen)}

SomeTexts ==
    Texts({<<>>, <<"d", "O", "W", "N">>}, {"d", "O", "T", "R", "1", " "}, 4)
    \cup Texts({<<>>}, {"1", ".", "e", "+", ")", "?"}, 5)
    \cup Texts({<<"(">>, <<"{">>}, {"(", "*", ")", "}", "A"}, 5)
    \cup Texts({<<>>, <<"'">>}, {"'", "A", " ", "\n"}, 5)
MCSources == SomeTexts
=============================================================================
