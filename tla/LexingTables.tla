----------------------------- MODULE LexingTables -----------------------------
(***************************************************************************)
(* generate-lexing-tables.py: from a grammar, which gives every token an   *)
(* expression, to the tables lexOne() reads.  Each stage is an operator    *)
(* from one automaton to the next.  Numbers stand for id(state).           *)
(***************************************************************************)
EXTENDS Naturals, Sequences, FiniteSets

CONSTANT PriorityTokens      \* PRIORITY_TOKENS

(* 255 in the tables; here a state of the DFA is a set, and this is the set *)
(* from which nothing can be read.                                         *)
DEAD_END == {}

(* Expressions.                                                            *)
Expression(op, chars, parts) == [op |-> op, chars |-> chars, parts |-> parts]
CharClass(chars) == Expression("class", chars, <<>>)
Concat(left, right) == Expression("concat", {}, <<left, right>>)
Either(top, bottom) == Expression("either", {}, <<top, bottom>>)
Maybe(element) == Expression("maybe", {}, <<element>>)
OneOrMore(element) == Expression("more", {}, <<element>>)

(* functools.reduce: every further expression is joined to the ones before. *)
ConcatMany(expressions) ==
    LET upTo[n \in DOMAIN expressions] ==
            IF n = 1 THEN expressions[1] ELSE Concat(upTo[n - 1], expressions[n])
    IN  upTo[Len(expressions)]
EitherMany(expressions) ==
    LET upTo[n \in DOMAIN expressions] ==
            IF n = 1 THEN expressions[1] ELSE Either(upTo[n - 1], expressions[n])
    IN  upTo[Len(expressions)]
Literal(spelling) == ConcatMany([n \in DOMAIN spelling |-> CharClass({spelling[n]})])

-----------------------------------------------------------------------------
(* convert_expression_to_enfa: an automaton has an end, the edges made so  *)
(* far (an edge on "" is an epsilon) and the next number to give out.      *)

Automaton(end, edges, next) == [end |-> end, edges |-> edges, next |-> next]
WithEdges(a, edges) == [a EXCEPT !.edges = @ \cup edges]

MaxDepth == 12      \* bounds the depth of the expressions and of the recursions below
Subexpressions(e) ==
    LET within[d \in 0 .. MaxDepth] ==
            IF d = 0 THEN {e}
            ELSE within[d - 1] \cup UNION {{x.parts[n] : n \in DOMAIN x.parts} : x \in within[d - 1]}
    IN  within[MaxDepth]

ExpressionToEnfa(from, expression, unused) ==
    LET enfa[start \in Nat, e \in Subexpressions(expression), next \in Nat] ==
        CASE e.op = "class" ->
                Automaton(next, {<<start, c, next>> : c \in e.chars}, next + 1)
          [] e.op = "concat" ->
                LET left == enfa[start, e.parts[1], next]
                    right == enfa[left.end, e.parts[2], left.next]
                IN  WithEdges(right, left.edges)
          [] e.op = "either" ->
                LET top == enfa[start, e.parts[1], next]
                    bottom == enfa[start, e.parts[2], top.next]
                    end == bottom.next
                IN  Automaton(end, top.edges \cup bottom.edges
                                     \cup {<<top.end, "", end>>, <<bottom.end, "", end>>},
                              end + 1)
          [] e.op = "maybe" ->
                LET element == enfa[start, e.parts[1], next]
                IN  WithEdges(element, {<<start, "", element.end>>})
          [] e.op = "more" ->
                LET element == enfa[next, e.parts[1], next + 1]
                IN  WithEdges(element, {<<start, "", next>>, <<element.end, "", next>>})
    IN  enfa[from, expression, unused]

(* A grammar is a sequence of [name, expression]; state 0 is its start.    *)
GrammarToEnfa(grammar) ==
    LET upTo[n \in 0 .. Len(grammar)] ==
            IF n = 0 THEN [edges |-> {}, results |-> {}, next |-> 1]
            ELSE LET before == upTo[n - 1]
                     a == ExpressionToEnfa(0, grammar[n].expression, before.next)
                 IN  [ edges |-> before.edges \cup a.edges,
                       results |-> before.results \cup {<<a.end, grammar[n].name>>},
                       next |-> a.next ]
    IN  upTo[Len(grammar)]

-----------------------------------------------------------------------------
(* eliminate_epsilons: a state takes the results and the transitions of    *)
(* the states it reaches on epsilons.                                      *)

EpsilonClosures(enfa) ==
    LET closure[s \in 0 .. enfa.next - 1] ==
            {s} \cup UNION {closure[e[3]] : e \in {d \in enfa.edges : d[1] = s /\ d[2] = ""}}
    IN  closure

NfaEdges(enfa, closure) ==
    {<<e[2], e[3]>> : e \in {d \in enfa.edges : d[1] \in closure /\ d[2] # ""}}
NfaResults(enfa, closure) == {r[2] : r \in {q \in enfa.results : q[1] \in closure}}

EliminateEpsilons(enfa) ==
    LET closure == EpsilonClosures(enfa)
    IN  [ results |-> [s \in DOMAIN closure |-> NfaResults(enfa, closure[s])],
          edges |-> [s \in DOMAIN closure |-> NfaEdges(enfa, closure[s])] ]

-----------------------------------------------------------------------------
(* convert_nfa_to_dfa: a state of the DFA is a set of states of the NFA.   *)

Chars(nfa, s) == {e[1] : e \in UNION {nfa.edges[q] : q \in s}}
Step(nfa, s, c) == {e[2] : e \in {d \in UNION {nfa.edges[q] : q \in s} : d[1] = c}}

(* The states reached by texts of up to MaxDepth characters, which are all *)
(* of them if no expression is deeper.                                     *)
Collected(nfa) ==
    LET reached[n \in 0 .. MaxDepth] ==
            IF n = 0 THEN {{0}}
            ELSE LET before == reached[n - 1]
                 IN  before \cup UNION {{Step(nfa, s, c) : c \in Chars(nfa, s)} : s \in before}
    IN  reached[MaxDepth]

(* Slip: the first token that fits is taken, an identifier before a word.  *)
DfaResultFirst(results) ==
    IF results = {} THEN "none"
    ELSE IF results \ PriorityTokens # {} THEN CHOOSE r \in results \ PriorityTokens : TRUE
    ELSE CHOOSE r \in results : TRUE

(* Two tokens may fit only if one of them has priority over the other.     *)
DfaResult(results) ==
    IF results = {} THEN "none"
    ELSE IF results \cap PriorityTokens # {} THEN CHOOSE r \in results \cap PriorityTokens : TRUE
    ELSE CHOOSE r \in results : TRUE

NfaToDfa(nfa) ==
    LET states == Collected(nfa)
    IN  [ start |-> {0},
          next |-> [s \in states |-> [c \in Chars(nfa, s) |-> Step(nfa, s, c)]],
          result |-> [s \in states |-> DfaResult(UNION {nfa.results[q] : q \in s})] ]

-----------------------------------------------------------------------------
(* minimize_dfa                                                            *)

(* Two states differ when one has a transition the other has not, or their *)
(* transitions lead to states known to differ.                             *)
Differ(dfa, marked, a, b) ==
    LET from == dfa.next[a]  to == dfa.next[b]
    IN  \E c \in DOMAIN from \cup DOMAIN to :
            \/ c \notin DOMAIN from \/ c \notin DOMAIN to
            \/ {from[c], to[c]} \in marked

(* The pairs still unmarked when nothing more can be marked.               *)
Unmarked(dfa, pairs, unmarked) ==
    LET after[n \in 0 .. MaxDepth] ==
            IF n = 0 THEN unmarked
            ELSE LET before == after[n - 1]
                     marked == pairs \ before
                 IN  {p \in before : \A a, b \in p : ~Differ(dfa, marked, a, b)}
    IN  after[MaxDepth]

Pairs(dfa) == {{a, b} : a, b \in DOMAIN dfa.next} \ {{a} : a \in DOMAIN dfa.next}

(* At first, the pairs that are not told apart by their results.           *)
UnmarkedAtFirst(dfa) == {p \in Pairs(dfa) : \A a, b \in p : dfa.result[a] = dfa.result[b]}

MinimizeDfa(dfa) ==
    LET same == Unmarked(dfa, Pairs(dfa), UnmarkedAtFirst(dfa))
        canonical == [s \in DOMAIN dfa.next |->
                        CHOOSE r \in {s} \cup UNION {p \in same : s \in p} : TRUE]
        kept == {s \in DOMAIN dfa.next : canonical[s] = s}
    IN  [ start |-> dfa.start,
          next |-> [s \in kept |-> [c \in DOMAIN dfa.next[s] |-> canonical[dfa.next[s][c]]]],
          result |-> [s \in kept |-> dfa.result[s]] ]

-----------------------------------------------------------------------------
(* generate_tables: a state's row reaches from its first to its last       *)
(* character, with dead ends in between.                                   *)
GenerateTables(dfa, chars) ==
    [ start |-> dfa.start, result |-> dfa.result,
      next |-> [s \in DOMAIN dfa.next |->
                  [c \in chars |-> IF c \in DOMAIN dfa.next[s] THEN dfa.next[s][c]
                                                              ELSE DEAD_END]] ]
=============================================================================
