--------------------------- MODULE GrammarReference ---------------------------
(***************************************************************************)
(* What the grammar of parsing.cxx means when it is read as a context-free *)
(* grammar: every alternative, every optional part and every length of a   *)
(* list is allowed, whatever could have been read instead.  The parser     *)
(* commits to the first alternative that fits and to the longest list;     *)
(* the properties below say that it loses nothing by that.                 *)
(***************************************************************************)
EXTENDS PascalGrammar, FiniteSets

Reading(ends, wants, bad) == [ends |-> ends, wants |-> wants, bad |-> bad]
Union(rs) ==
    Reading(UNION {r.ends : r \in rs}, UNION {r.wants : r \in rs},
            UNION {r.bad : r \in rs})

(* All ways to read the instructions from position i of w: where they can  *)
(* end, every <<position, kind>> at which a token of that kind could stand *)
(* but does not, and the tokens of the right kind with a bad value.        *)
RECURSIVE ReadAll(_, _, _), ReadOne(_, _, _)
ReadAll(w, i, code) ==
    IF code = <<>> THEN Reading({i}, {}, {})
    ELSE LET first == ReadOne(w, i, Head(code))
         IN  Union({Reading({}, first.wants, first.bad)}
                   \cup {ReadAll(w, j, Tail(code)) : j \in first.ends})
ReadOne(w, i, e) ==
    CASE e.op = "consume" ->
            IF KindOf[w[i]] = e.kind THEN Reading({i + 1}, {}, {})
            ELSE Reading({}, {<<i, e.kind>>}, {})
      [] e.op = "value" ->
            IF KindOf[w[i]] # e.kind THEN Reading({}, {<<i, e.kind>>}, {})
            ELSE IF w[i] \in e.ok THEN Reading({i + 1}, {}, {})
            ELSE Reading({}, {}, {i})
      [] e.op = "if" ->
            Union({ReadAll(w, i, <<C(e.kind)>> \o e.yes), ReadAll(w, i, e.no)})
      [] e.op = "call" -> ReadAll(w, i, Grammar[e.name])
      [] e.op = "try" ->
            Union({ReadAll(w, i, e.body \o e.yes), ReadAll(w, i, e.no)})
      [] e.op = "list" ->
            Union({ReadAll(w, i, <<R(e.name), e>>), Reading({i}, {}, {})})
      [] e.op = "sep" ->
            ReadAll(w, i, <<R(e.name), SepRest(e.kind, e.name)>>)
      [] e.op = "rest" ->
            Union({ReadAll(w, i, <<C(e.kind), R(e.name), e>>),
                   Reading({i}, {}, {})})
      [] e.op = "alt" ->
            Union({ReadAll(w, i, <<R(e.names[j])>>) : j \in 1..Len(e.names)})

ReadProgram == ReadAll(toks, 1, <<R(Start), C(Eof)>>)

Furthest(wants) == CHOOSE p \in {x[1] : x \in wants} : \A x \in wants : x[1] <= p

-----------------------------------------------------------------------------

(* The parser accepts exactly the programs the grammar derives: neither    *)
(* the order of the alternatives (which the comments in parseTypeDenoter,  *)
(* parseSubroutineDeclaration, parseFactor and parseStatement argue about) *)
(* nor the greedy lists make it reject one.                                *)
AcceptsTheGrammar ==
    status \in Final =>
        LET r == ReadProgram
        IN  /\ status = "accepted" <=> r.ends # {}
            /\ status = "invalid" <=> r.bad # {}

(* A syntax error is reported at the first token with which no program can *)
(* go on, and the message lists every kind that could stand there instead  *)
(* and no other: what the backtracking tried last does not matter.  A      *)
(* value that is out of range is reported at its own token.                *)
DiagnosticIsExact ==
    LET r == ReadProgram
    IN  /\ status = "unexpected" =>
            /\ unexpectedIt = Furthest(r.wants)
            /\ reprs = {x[2] : x \in {y \in r.wants : y[1] = unexpectedIt}}
        /\ status = "invalid" => r.bad = {it}
=============================================================================
