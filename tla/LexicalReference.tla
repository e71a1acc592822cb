--------------------------- MODULE LexicalReference ---------------------------
(***************************************************************************)
(* What the lexer is for, without automata: at every place the longest     *)
(* separator, or else the longest token, that an expression of the grammar *)
(* describes.                                                              *)
(***************************************************************************)
EXTENDS Lexing, PascalLexicon, SequencesExt, FiniteSetsExt

(* Where a text described by e that starts at position p of s may end.     *)
RECURSIVE Ends(_, _, _)
RECURSIVE EndsOfMany(_, _, _)
EndsOfMany(e, s, from) ==
    LET more == UNION {Ends(e, s, p) : p \in from} \ from
    IN  IF more = {} THEN from ELSE EndsOfMany(e, s, from \cup more)
Ends(e, s, p) ==
    CASE e.op = "class" -> IF p < Len(s) /\ s[p + 1] \in e.chars THEN {p + 1} ELSE {}
      [] e.op = "concat" -> UNION {Ends(e.parts[2], s, q) : q \in Ends(e.parts[1], s, p)}
      [] e.op = "either" -> Ends(e.parts[1], s, p) \cup Ends(e.parts[2], s, p)
      [] e.op = "maybe" -> {p} \cup Ends(e.parts[1], s, p)
      [] e.op = "more" -> EndsOfMany(e.parts[1], s, Ends(e.parts[1], s, p))

Text == [n \in DOMAIN source |-> Upper(source[n])]

(* The tokens that may start at p: their names and ends.                   *)
Matches(grammar, p) ==
    UNION {{<<grammar[n].name, q>> : q \in Ends(grammar[n].expression, Text, p)} :
           n \in DOMAIN grammar}
Longest(matches) == {m \in matches : \A l \in matches : l[2] <= m[2]}
Preferred(matches) ==
    IF \E m \in matches : m[1] \in PriorityTokens
    THEN {m \in matches : m[1] \in PriorityTokens} ELSE matches

(* Maximal munch, words before identifiers: every piece is the longest     *)
(* separator at its place, or, where there is none, the longest token, or, *)
(* where there is none of these, one invalid character.  The generated     *)
(* tables and the loop that reads them give exactly what the grammars say. *)
LongestMatch ==
    pieces # <<>> =>
        LET piece == pieces[Len(pieces)]
            separators == Longest(Matches(Separators, piece.from))
            tokensThere == Preferred(Longest(Matches(Grammar, piece.from)))
        IN  CASE piece.kind = "separator" -> {piece.to} = {m[2] : m \in separators}
              [] piece.kind = "invalid" ->
                    separators = {} /\ tokensThere = {} /\ piece.to = piece.from + 1
              [] OTHER -> separators = {} /\ tokensThere = {<<piece.kind, piece.to>>}

(* Where a comment that starts at p with a delimiter of this length is     *)
(* closed; the asterisk of the opening delimiter does not count.           *)
Closers(p, length) ==
    {q \in p + length + 1 .. Len(source) :
        source[q] = "}" \/ (q > p + length + 1 /\ source[q - 1] = "*" /\ source[q] = ")")}

(* A comment runs to the first closing delimiter of either kind, whatever  *)
(* is in it and however many asterisks come before the delimiter; one that *)
(* is never closed is no comment.                                          *)
CommentsEndAtTheFirstCloser ==
    pieces # <<>> =>
        LET piece == pieces[Len(pieces)]
            p == piece.from
            length == IF source[p + 1] = "{" THEN 1
                      ELSE IF p + 2 <= Len(source) /\ source[p + 1] = "(" /\ source[p + 2] = "*"
                           THEN 2 ELSE 0
        IN  length > 0 =>
                IF Closers(p, length) = {} THEN piece.kind # "separator"
                ELSE piece.kind = "separator" /\ piece.to = Min(Closers(p, length))

Doubled(value) ==
    FlattenSeq([n \in DOMAIN value |-> IF value[n] = "'" THEN <<"'", "'">> ELSE <<value[n]>>])

(* The value of a string token is the text between its apostrophes, with   *)
(* every apostrophe in it doubled: reading it never runs past the end of   *)
(* the token.                                                              *)
StringValueIsExact ==
    tokens # <<>> /\ tokens[Len(tokens)].kind = "CharacterString" =>
        LET token == tokens[Len(tokens)]
            text == SubSeq(source, token.from + 1, token.to)
        IN  <<"'">> \o Doubled(StringValue(text)) \o <<"'">> = text
=============================================================================
