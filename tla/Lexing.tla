-------------------------------- MODULE Lexing --------------------------------
(***************************************************************************)
(* lex() and lexOne() of lexing.cxx, one step per character: the outer     *)
(* loop over separators and tokens, the inner one through the tables that  *)
(* generate-lexing-tables.py makes.  Positions are C++ iterators counted   *)
(* from 0: the character at position i is source[i + 1].                   *)
(***************************************************************************)
EXTENDS Naturals, Sequences

CONSTANTS
    Sources,                \* the texts to lex
    Upper(_),               \* std::toupper
    DeadEnd,                \* 255 in the tables
    SeparatorTable,         \* SEPARATOR_STATES and SEPARATOR_TRANSITIONS
    TokenTable,             \* TOKEN_STATES and TOKEN_TRANSITIONS
    RequiresSeparation(_)   \* of a kind of token

(* A table: what state is entered on which character, and what kind of     *)
(* token, if any, has then been read.                                      *)
IsTable(t) ==
    /\ t.start \in DOMAIN t.next
    /\ DOMAIN t.result = DOMAIN t.next
    /\ DeadEnd \notin DOMAIN t.next
    /\ \A s \in DOMAIN t.next : \A c \in DOMAIN t.next[s] :
          t.next[s][c] \in DOMAIN t.next \cup {DeadEnd}
    /\ t.result[t.start] = "none"

ASSUME TablesAssumption == IsTable(SeparatorTable) /\ IsTable(TokenTable)
ASSUME SourcesAssumption == \A source \in Sources : source \in Seq(STRING)
ASSUME KindsAssumption ==
    \A s \in DOMAIN TokenTable.result :
        /\ TokenTable.result[s] \notin {"separator", "invalid"}
        /\ RequiresSeparation(TokenTable.result[s]) \in BOOLEAN

VARIABLES
    source,
    it,                         \* where lex() is
    pc,                         \* which tables lexOne() is in, or "done"
    i, state, result, tokenEnd, \* lexOne(), i and tokenEnd counted from it
    hadSeparation,
    previousRequired,           \* previous_required_separation
    tokens,
    errors,                     \* what was reported: the code and where
    pieces                      \* history: every stretch of source passed over

vars == <<source, it, pc, i, state, result, tokenEnd, hadSeparation, previousRequired,
          tokens, errors, pieces>>
lexOneVars == <<i, state, result, tokenEnd>>

Table == IF pc = "separator" THEN SeparatorTable ELSE TokenTable

(* Slip: token_end_index is not reset.                                     *)
StartLexOneKeepingEnd(table) ==
    /\ i' = 0 /\ state' = table.start /\ tokenEnd' = tokenEnd
    /\ result' = table.result[table.start]

(* lexOne() is entered.                                                    *)
StartLexOne(table) ==
    /\ i' = 0 /\ state' = table.start /\ tokenEnd' = 0
    /\ result' = table.result[table.start]

Init ==
    /\ source \in Sources
    /\ it = 0 /\ pc = "separator"
    /\ i = 0 /\ state = SeparatorTable.start /\ tokenEnd = 0
    /\ result = SeparatorTable.result[SeparatorTable.start]
    /\ hadSeparation = FALSE /\ previousRequired = FALSE
    /\ tokens = <<>> /\ errors = <<>> /\ pieces = <<>>

-----------------------------------------------------------------------------
(* lexOne()                                                                *)

AtEnd == it + i = Len(source)
Char == Upper(source[it + i + 1])
CanRead ==
    ~AtEnd /\ Char \in DOMAIN Table.next[state] /\ Table.next[state][Char] # DeadEnd

(* Slip: a token ends before the character that completes it.              *)
ReadOneShort ==
    /\ pc # "done" /\ CanRead
    /\ state' = Table.next[state][Char]
    /\ i' = i + 1
    /\ IF Table.result[state'] # "none"
       THEN result' = Table.result[state'] /\ tokenEnd' = i
       ELSE UNCHANGED <<result, tokenEnd>>
    /\ UNCHANGED <<source, it, pc, hadSeparation, previousRequired, tokens, errors, pieces>>

(* A character is read; the longest token so far is remembered.            *)
Read ==
    /\ pc # "done" /\ CanRead
    /\ state' = Table.next[state][Char]
    /\ i' = i + 1
    /\ IF Table.result[state'] # "none"
       THEN result' = Table.result[state'] /\ tokenEnd' = i + 1
       ELSE UNCHANGED <<result, tokenEnd>>
    /\ UNCHANGED <<source, it, pc, hadSeparation, previousRequired, tokens, errors, pieces>>

-----------------------------------------------------------------------------
(* lex(), when lexOne() has returned.                                      *)

Returned(p) == pc = p /\ ~CanRead
Piece(kind, length) == [kind |-> kind, from |-> it, to |-> it + length]
Pass(kind, length) ==
    it' = it + length /\ pieces' = Append(pieces, Piece(kind, length))

(* Slip: it += sep_length is missing.                                      *)
SeparatorInPlace ==
    /\ Returned("separator") /\ tokenEnd > 0
    /\ hadSeparation' = TRUE
    /\ StartLexOne(SeparatorTable)
    /\ UNCHANGED <<source, it, pc, previousRequired, tokens, errors, pieces>>

Separator ==
    /\ Returned("separator") /\ tokenEnd > 0
    /\ Pass("separator", tokenEnd)
    /\ hadSeparation' = TRUE
    /\ StartLexOne(SeparatorTable)
    /\ UNCHANGED <<source, pc, previousRequired, tokens, errors>>

NoSeparator ==
    /\ Returned("separator") /\ tokenEnd = 0 /\ it # Len(source)
    /\ pc' = "token" /\ StartLexOne(TokenTable)
    /\ UNCHANGED <<source, it, hadSeparation, previousRequired, tokens, errors, pieces>>

(* TokenEof.                                                               *)
Finish ==
    /\ Returned("separator") /\ tokenEnd = 0 /\ it = Len(source)
    /\ pc' = "done"
    /\ tokens' = Append(tokens, Piece("eof", 0))
    /\ UNCHANGED <<source, it, lexOneVars, hadSeparation, previousRequired, errors, pieces>>

NextRound == pc' = "separator" /\ hadSeparation' = FALSE /\ StartLexOne(SeparatorTable)

(* Slip: had_separation is not looked at.                                  *)
TokenAlwaysSeparated ==
    /\ Returned("token") /\ result # "none"
    /\ errors' = IF previousRequired /\ RequiresSeparation(result)
                 THEN Append(errors, [code |-> "MISSING_SEPARATOR", at |-> it]) ELSE errors
    /\ Pass(result, tokenEnd)
    /\ tokens' = Append(tokens, Piece(result, tokenEnd))
    /\ previousRequired' = RequiresSeparation(result)
    /\ NextRound /\ UNCHANGED source

Token ==
    /\ Returned("token") /\ result # "none"
    /\ errors' = IF previousRequired /\ RequiresSeparation(result) /\ ~hadSeparation
                 THEN Append(errors, [code |-> "MISSING_SEPARATOR", at |-> it]) ELSE errors
    /\ Pass(result, tokenEnd)
    /\ tokens' = Append(tokens, Piece(result, tokenEnd))
    /\ previousRequired' = RequiresSeparation(result)
    /\ NextRound /\ UNCHANGED source

Invalid ==
    /\ Returned("token") /\ result = "none"
    /\ errors' = Append(errors, [code |-> "INVALID_TOKEN", at |-> it])
    /\ Pass("invalid", 1)
    /\ previousRequired' = FALSE
    /\ NextRound /\ UNCHANGED <<source, tokens>>

Done == pc = "done" /\ UNCHANGED vars

Next == Read \/ Separator \/ NoSeparator \/ Finish \/ Token \/ Invalid \/ Done

Spec == Init /\ [][Next]_vars
FairSpec == Spec /\ WF_vars(Next)

-----------------------------------------------------------------------------

KindsOf(table) == {table.result[s] : s \in DOMAIN table.result} \ {"none"}
Pieces(kinds) == [kind : kinds, from : Nat, to : Nat]

(* Iterators stay inside the source, the automaton inside its table, and   *)
(* lexOne() never remembers a token longer than what it has read.          *)
TypeOK ==
    /\ source \in Sources /\ it \in 0 .. Len(source)
    /\ pc \in {"separator", "token", "done"}
    /\ i \in Nat /\ it + i <= Len(source) /\ tokenEnd \in 0 .. i
    /\ state \in DOMAIN Table.next \/ pc = "done"
    /\ pc = "token" => result \in KindsOf(TokenTable) \cup {"none"}
    /\ hadSeparation \in BOOLEAN /\ previousRequired \in BOOLEAN
    /\ tokens \in Seq(Pieces(KindsOf(TokenTable) \cup {"eof"}))
    /\ pieces \in Seq(Pieces(KindsOf(TokenTable) \cup {"separator", "invalid"}))
    /\ errors \in Seq([code : {"MISSING_SEPARATOR", "INVALID_TOKEN"}, at : Nat])

(* The lexer passes over every character exactly once and in order: the    *)
(* separators, tokens and invalid characters it has found tile the source  *)
(* up to where it is, and none of them is empty, so it always advances.    *)
PiecesTileTheSource ==
    /\ \A k \in DOMAIN pieces :
          /\ pieces[k].from < pieces[k].to
          /\ pieces[k].from = IF k = 1 THEN 0 ELSE pieces[k - 1].to
    /\ it = IF pieces = <<>> THEN 0 ELSE pieces[Len(pieces)].to

NeedsSeparation(k) ==
    pieces[k].kind \notin {"separator", "invalid"} /\ RequiresSeparation(pieces[k].kind)

ErrorsWith(code) == {errors[e].at : e \in {f \in DOMAIN errors : errors[f].code = code}}

(* MISSING_SEPARATOR is reported exactly where two tokens that need to be  *)
(* separated touch: not when a separator, or an invalid character, or      *)
(* another token is between them.  INVALID_TOKEN is reported exactly at    *)
(* the characters that were skipped.                                       *)
ErrorsAreExact ==
    /\ ErrorsWith("MISSING_SEPARATOR")
          = {pieces[k].from : k \in {l \in DOMAIN pieces :
                l > 1 /\ NeedsSeparation(l - 1) /\ NeedsSeparation(l)}}
    /\ ErrorsWith("INVALID_TOKEN")
          = {pieces[k].from : k \in {l \in DOMAIN pieces : pieces[l].kind = "invalid"}}

(* The lexer comes to the end of every source.                             *)
Termination == <>(pc = "done")
=============================================================================
