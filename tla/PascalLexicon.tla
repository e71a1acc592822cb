----------------------------- MODULE PascalLexicon -----------------------------
(***************************************************************************)
(* The tokens and separators of Pascal: the grammars at the head of        *)
(* generate-lexing-tables.py, over the characters that occur in the        *)
(* sources of a run, and what lexing-tokens.ixx and lexing.cxx say of a    *)
(* token.                                                                  *)
(***************************************************************************)
EXTENDS LexingTables

CONSTANTS
    Alphabet,       \* the characters of the sources, after std::toupper
    Letters, Digits, White, Control,
                    \* those that are letters, digits, whitespace, and the
                    \* whitespace that may not occur in a string
    Words           \* the word symbols, a sequence of [name, spelling]

Named(name, expression) == [name |-> name, expression |-> expression]

LETTER == CharClass(Letters)
DIGIT == CharClass(Digits)
LETTER_OR_DIGIT == CharClass(Letters \cup Digits)
DIGITS == OneOrMore(DIGIT)
EXPONENT == ConcatMany(<<Literal(<<"E">>), Maybe(CharClass({"+", "-"})), DIGITS>>)

STRING_ELEMENT ==
    Either(CharClass(Alphabet \ (Control \cup {"'"})), Literal(<<"'", "'">>))

UnsignedReal ==
    Concat(DIGITS, Either(ConcatMany(<<Literal(<<".">>), DIGITS, Maybe(EXPONENT)>>), EXPONENT))

RegularTokens ==
    << Named("Identifier", Concat(LETTER, Maybe(OneOrMore(LETTER_OR_DIGIT)))),
       Named("UnsignedInteger", OneOrMore(DIGIT)),
       Named("UnsignedReal", UnsignedReal),
       Named("CharacterString",
             ConcatMany(<<Literal(<<"'">>), OneOrMore(STRING_ELEMENT), Literal(<<"'">>)>>)) >>

(* add_special_symbol                                                      *)
SpecialSymbol(name, spellings) ==
    Named(name, EitherMany([n \in DOMAIN spellings |-> Literal(spellings[n])]))

SpecialSymbols ==
    << SpecialSymbol("Plus", <<<<"+">>>>), SpecialSymbol("Minus", <<<<"-">>>>),
       SpecialSymbol("Asterisk", <<<<"*">>>>), SpecialSymbol("Slash", <<<<"/">>>>),
       SpecialSymbol("Equal", <<<<"=">>>>), SpecialSymbol("LessThan", <<<<"<">>>>),
       SpecialSymbol("GreaterThan", <<<<">">>>>),
       SpecialSymbol("LeftBracket", <<<<"[">>, <<"(", ".">>>>),
       SpecialSymbol("RightBracket", <<<<"]">>, <<".", ")">>>>),
       SpecialSymbol("Dot", <<<<".">>>>), SpecialSymbol("Comma", <<<<",">>>>),
       SpecialSymbol("Colon", <<<<":">>>>), SpecialSymbol("Semicolon", <<<<";">>>>),
       SpecialSymbol("Caret", <<<<"^">>, <<"@">>>>),
       SpecialSymbol("LeftParenthesis", <<<<"(">>>>),
       SpecialSymbol("RightParenthesis", <<<<")">>>>),
       SpecialSymbol("NotEqual", <<<<"<", ">">>>>),
       SpecialSymbol("LessThanOrEqual", <<<<"<", "=">>>>),
       SpecialSymbol("GreaterThanOrEqual", <<<<">", "=">>>>),
       SpecialSymbol("Assign", <<<<":", "=">>>>), SpecialSymbol("DotDot", <<<<".", ".">>>>) >>

(* add_word_symbol                                                         *)
WordSymbols == [n \in DOMAIN Words |-> Named(Words[n].name, Literal(Words[n].spelling))]

(* A symbol is of use only if its characters occur.                        *)
Grammar == RegularTokens \o SpecialSymbols \o WordSymbols

(* Slip: a comment may not end in several asterisks.                       *)
CommentEndingInOneAsterisk ==
    ConcatMany(<<
        Either(Literal(<<"{">>), Literal(<<"(", "*">>)),
        Maybe(OneOrMore(Either(
            CharClass(Alphabet \ {"*", "}"}),
            Concat(OneOrMore(Literal(<<"*">>)), CharClass(Alphabet \ {"*", ")", "}"}))))),
        Either(Literal(<<"}">>), Literal(<<"*", ")">>)) >>)

Comment ==
    ConcatMany(<<
        Either(Literal(<<"{">>), Literal(<<"(", "*">>)),
        Maybe(OneOrMore(Either(
            CharClass(Alphabet \ {"*", "}"}),
            Concat(OneOrMore(Literal(<<"*">>)), CharClass(Alphabet \ {"*", ")", "}"}))))),
        Maybe(OneOrMore(Literal(<<"*">>))),
        Either(Literal(<<"}">>), Literal(<<"*", ")">>)) >>)

Separators == << Named("Whitespace", CharClass(White)), Named("Comment", Comment) >>

(* main(): each stage is made from the one before.                         *)
TokenEnfa == GrammarToEnfa(Grammar)
TokenNfa == EliminateEpsilons(TokenEnfa)
TokenDfa == NfaToDfa(TokenNfa)
TokenMinDfa == MinimizeDfa(TokenDfa)
TokenTables == GenerateTables(TokenMinDfa, Alphabet)

SeparatorEnfa == GrammarToEnfa(Separators)
SeparatorNfa == EliminateEpsilons(SeparatorEnfa)
SeparatorDfa == NfaToDfa(SeparatorNfa)
SeparatorMinDfa == MinimizeDfa(SeparatorDfa)
SeparatorTables == GenerateTables(SeparatorMinDfa, Alphabet)

-----------------------------------------------------------------------------
(* The tokens.                                                             *)

(* requiresSeparation()                                                    *)
MustBeSeparated(kind) ==
    kind \in PriorityTokens \cup {"Identifier", "UnsignedInteger", "UnsignedReal"}

(* Slip: the characters are copied one by one.                             *)
StringValueCopied(text) == SubSeq(text, 2, Len(text) - 1)

(* TokenCharacterString::value(): from the character after the first       *)
(* apostrophe to the last one, past the second of two.                     *)
StringValue(text) ==
    LET from[p \in 2 .. Len(text) + 1] ==
            IF p = Len(text) THEN <<>>
            ELSE IF p > Len(text) THEN <<"read past the end">>
            ELSE <<text[p]>> \o from[p + (IF text[p] = "'" THEN 2 ELSE 1)]
    IN  from[2]
=============================================================================
