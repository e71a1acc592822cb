----------------------------- MODULE TokenReader -----------------------------
(***************************************************************************)
(* The cursor the recursive-descent parser of parsing.cxx reads through:   *)
(* class TokenReader.  Its one subtle job is the diagnostic.  The parser   *)
(* backtracks, so the token at which it finally gives up says nothing; the *)
(* reader instead remembers the furthest token at which any attempt        *)
(* failed, with the kinds that were tried there.                           *)
(*                                                                         *)
(* The client here is arbitrary: any sequence of attempts and backtracks   *)
(* it may legally make.  Module Parser is the client the program has.      *)
(***************************************************************************)
EXTENDS Naturals, Sequences

CONSTANTS
    Kinds,      \* the token classes (TokenIdentifier, TokenComma, ...)
    Eof,        \* the class of the token that ends every sequence
    Tokens,     \* the tokens, told apart no further than the parser does
    KindOf,     \* the class of each token
    Inputs      \* the token sequences the lexer may hand over

(* The lexer ends every sequence with its only end-of-file token.          *)
ASSUME InputsAssumption ==
    /\ Eof \in Kinds
    /\ KindOf \in [Tokens -> Kinds]
    /\ \A w \in Inputs :
          /\ w \in Seq(Tokens)
          /\ Len(w) > 0
          /\ \A i \in 1..Len(w) : KindOf[w[i]] = Eof <=> i = Len(w)

VARIABLES
    toks,           \* the sequence being read; never changes
    it,             \* tokens_it_
    unexpectedIt,   \* unexpected_token_it_
    reprs,          \* unsuccessful_token_reprs_
    failed          \* history: every failed attempt <<position, kind>>

readerVars == <<toks, it, unexpectedIt, reprs, failed>>

ReaderInit ==
    /\ toks \in Inputs
    /\ it = 1
    /\ unexpectedIt = 1
    /\ reprs = {}
    /\ failed = {}

AtKind(k) == it <= Len(toks) /\ KindOf[toks[it]] = k

(* tryConsume<T> when the next token is a T.                               *)
Hit(k) ==
    /\ AtKind(k)
    /\ it' = it + 1
    /\ UNCHANGED <<toks, unexpectedIt, reprs, failed>>

(* Slips that the properties must notice: the failure is noted one token   *)
(* too far; the kinds expected at an earlier position are kept; only the   *)
(* first kind is kept.                                                     *)
MissNotedLate(k) ==
    /\ it <= Len(toks)
    /\ ~AtKind(k)
    /\ failed' = failed \cup {<<it, k>>}
    /\ unexpectedIt' = it + 1
    /\ reprs' = {k}
    /\ UNCHANGED <<toks, it>>

MissWith(k, beyond, level) ==
    /\ it <= Len(toks)
    /\ ~AtKind(k)
    /\ failed' = failed \cup {<<it, k>>}
    /\ unexpectedIt' = IF it > unexpectedIt THEN it ELSE unexpectedIt
    /\ reprs' = IF it > unexpectedIt THEN beyond
                ELSE IF it = unexpectedIt THEN level
                ELSE reprs
    /\ UNCHANGED <<toks, it>>
MissKeepsOld(k) == MissWith(k, reprs \cup {k}, reprs \cup {k})
MissFirstOnly(k) == MissWith(k, {k}, reprs)

(* tryConsume<T> when it is not: a failure at the furthest position so far *)
(* adds to the expected kinds, one beyond it starts them afresh, and one   *)
(* before it is forgotten.                                                 *)
Miss(k) ==
    /\ it <= Len(toks)
    /\ ~AtKind(k)
    /\ failed' = failed \cup {<<it, k>>}
    /\ unexpectedIt' = IF it > unexpectedIt THEN it ELSE unexpectedIt
    /\ reprs' = IF it > unexpectedIt THEN {k}
                ELSE IF it = unexpectedIt THEN reprs \cup {k}
                ELSE reprs
    /\ UNCHANGED <<toks, it>>

(* The code asserts p <= it.                                               *)
Backtrack(p) ==
    /\ p <= it
    /\ it' = p
    /\ UNCHANGED <<toks, unexpectedIt, reprs, failed>>

ReaderNext ==
    \/ \E k \in Kinds : Hit(k) \/ Miss(k)
    \/ \E p \in 1..it : Backtrack(p)

ReaderSpec == ReaderInit /\ [][ReaderNext]_readerVars

-----------------------------------------------------------------------------

ReaderTypeOK ==
    /\ toks \in Inputs
    /\ it \in 1..(Len(toks) + 1)
    /\ unexpectedIt \in 1..Len(toks)
    /\ reprs \subseteq Kinds
    /\ failed \subseteq (1..Len(toks)) \X Kinds

(* What UnexpectedToken::report prints is the furthest failure of the      *)
(* whole parse and exactly the kinds tried there, however often the reader *)
(* was moved back and forth in between.                                    *)
FurthestFailure ==
    /\ \A f \in failed : f[1] <= unexpectedIt
    /\ reprs = {k \in Kinds : <<unexpectedIt, k>> \in failed}

(* The token reported as unexpected is of none of the kinds the message    *)
(* says were expected in its place.                                        *)
ReportIsNoContradiction == KindOf[toks[unexpectedIt]] \notin reprs
=============================================================================
