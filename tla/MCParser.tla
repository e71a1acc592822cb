------------------------------- MODULE MCParser -------------------------------
(***************************************************************************)
(* Whole programs with a hole: a context from one part of the grammar, and *)
(* in it any short sequence over the tokens that matter there.             *)
(***************************************************************************)
EXTENDS GrammarReference, SequencesExt

Context(before, after) == [before |-> before, after |-> after]
Programs(contexts, alphabet, maxLen) ==
    { c.before \o w \o c.after : c \in contexts, w \in BoundedSeq(alphabet, maxLen) }

Heading == <<"program", "id", ";">>
NoStatements == <<"begin", "end", ".", "eof">>
InStatements(before, after) ==
    Context(Heading \o <<"begin">> \o before, after \o <<"end", ".", "eof">>)
InDeclarations(before, after) ==
    Context(Heading \o before, after \o <<";">> \o NoStatements)

PlainStatements == {InStatements(<<>>, <<>>)}
CutShort == {Context(Heading \o <<"begin">>, <<"eof">>)}

StructuredStatements ==
    { InStatements(<<"case", "id", "of">>, <<"end">>),
      InStatements(<<"case", "id", "of", "int", ":">>, <<"end", ";">>),
      InStatements(<<"repeat">>, <<"until", "id">>),
      InStatements(<<"for", "id", ":=", "int">>, <<"id", "do">>),
      InStatements(<<"with", "id">>, <<"do", "goto", "int">>),
      InStatements(<<"int", ":">>, <<>>) }

Expressions ==
    { InStatements(<<"id", ":=">>, <<>>),
      InStatements(<<"id", "(">>, <<")">>),
      InStatements(<<"while", "[">>, <<"]", "do">>),
      InStatements(<<"id", ":=", "id", "(">>, <<")">>) }

Types ==
    { InDeclarations(<<"var", "id", ":">>, <<>>),
      InDeclarations(<<"type", "id", "=", "array", "[">>, <<"]", "of", "id">>),
      InDeclarations(<<"var", "id", ":", "record">>, <<"end">>),
      InDeclarations(<<"var", "id", ":", "record", "case", "id">>,
                     <<"int", ":", "(", ")", "end">>),
      InDeclarations(<<"var", "id", ":", "file", "of">>, <<"id">>) }

Blocks ==
    { Context(<<"program", "id">>, NoStatements),
      InDeclarations(<<"label", "int">>, <<>>),
      InDeclarations(<<"const", "id", "=">>, <<>>),
      InDeclarations(<<"procedure", "id", ";">>, <<>>),
      InDeclarations(<<"function", "id">>, <<";", "begin", "end">>),
      InDeclarations(<<"procedure", "id", "(">>, <<")", ";", "forward">>),
      InDeclarations(<<"procedure", "id", "(", "id", ":">>,
                     <<"array", "[", "id", "..", "id", ":", "id", "]", "of", "id",
                       ")", ";", "forward">>) }

SomePrograms ==
    Programs(PlainStatements,
             {"id", "int", ":=", ";", ":", "if", "then", "else"}, 3)
    \cup Programs(CutShort, {"id", "int", "(", ":=", ";", ":", "if", "then"}, 2)
    \cup Programs(StructuredStatements,
             {"id", "int", "int10000", "intBig", ":", ";", ",", "to", "end", "goto"}, 2)
    \cup Programs(Expressions,
             {"id", "int", "realBig", "nil", "not", "[", "]", "(", ")", "..",
              "+", ".", ":"}, 2)
    \cup Programs(Types,
             {"id", "int", "-", ",", ":", "..", "(", ")", ";", "^", "of"}, 2)
    \cup Programs(Blocks,
             {"id", "forward", "int", "int10000", "(", ")", ";", ":", "var", "label", "function"}, 2)

(* TLC evaluates a definition without parameters once, but not one that a   *)
(* constant is replaced by.                                                *)
MCInputs == SomePrograms
=============================================================================
