----------------------------- MODULE LexingProofs -----------------------------
(***************************************************************************)
(* Proofs about lex(), for every source and for any tables in which no     *)
(* token is empty.  The two loops are taken together: the invariant says   *)
(* what lexOne() has remembered while it runs (OneInv) and what the flags  *)
(* of lex() say about the last piece of source it passed over (FlagsInv).  *)
(***************************************************************************)
EXTENDS Lexing, TLAPS

Piecekinds == KindsOf(TokenTable) \cup {"separator", "invalid"}
ErrorRecords == [code : {"MISSING_SEPARATOR", "INVALID_TOKEN"}, at : Nat]

(* What ErrorsAreExact is made of, as functions of the sequences.          *)
At(es, code) == {es[e].at : e \in {f \in DOMAIN es : es[f].code = code}}
Needs(p) == p.kind \notin {"separator", "invalid"} /\ RequiresSeparation(p.kind)
Touching(ps) == {ps[k].from : k \in {l \in DOMAIN ps : l > 1 /\ Needs(ps[l - 1]) /\ Needs(ps[l])}}
Skipped(ps) == {ps[k].from : k \in {l \in DOMAIN ps : ps[l].kind = "invalid"}}
Tiles(ps, end) ==
    /\ \A k \in DOMAIN ps :
          /\ ps[k].from < ps[k].to
          /\ ps[k].from = IF k = 1 THEN 0 ELSE ps[k - 1].to
    /\ end = IF ps = <<>> THEN 0 ELSE ps[Len(ps)].to

(* lexOne() has remembered a token exactly if it is not empty, and a token *)
(* is only looked for where there is something to read.                    *)
OneInv ==
    /\ pc # "done" => (result # "none" <=> tokenEnd > 0)
    /\ pc = "token" => it < Len(source)

(* The flags of lex() tell whether the last piece is a token that the next *)
(* one may have to be separated from.                                      *)
FlagsInv ==
    pc # "done" =>
        (previousRequired /\ ~hadSeparation
            <=> pieces # <<>> /\ Needs(pieces[Len(pieces)]))

LexingInv == TypeOK /\ OneInv /\ FlagsInv /\ PiecesTileTheSource /\ ErrorsAreExact

-----------------------------------------------------------------------------
(* What an appended error or piece adds.                                   *)

LEMMA AtAppend ==
    ASSUME NEW es \in Seq(ErrorRecords), NEW x \in ErrorRecords, NEW code
    PROVE  At(Append(es, x), code) = At(es, code) \cup (IF x.code = code THEN {x.at} ELSE {})
<1> DEFINE t == Append(es, x)
<1>1. DOMAIN es = 1 .. Len(es) /\ Len(es) \in Nat /\ DOMAIN t = 1 .. Len(es) + 1
      /\ t[Len(es) + 1] = x /\ \A k \in 1 .. Len(es) : t[k] = es[k]
  OBVIOUS
<1>2. At(t, code) \subseteq At(es, code) \cup (IF x.code = code THEN {x.at} ELSE {})
  BY <1>1 DEF At
<1>3. At(es, code) \subseteq At(t, code)
  BY <1>1 DEF At
<1>4. ASSUME x.code = code PROVE x.at \in At(t, code)
  <2>1. Len(es) + 1 \in {f \in DOMAIN t : t[f].code = code} /\ t[Len(es) + 1].at = x.at
    BY <1>1, <1>4
  <2>2. QED BY <2>1 DEF At
<1>5. QED BY <1>2, <1>3, <1>4

LEMMA TouchingAppend ==
    ASSUME NEW K, NEW ps \in Seq(Pieces(K)), NEW x \in Pieces(K)
    PROVE  Touching(Append(ps, x))
             = Touching(ps) \cup (IF ps # <<>> /\ Needs(ps[Len(ps)]) /\ Needs(x)
                                  THEN {x.from} ELSE {})
<1> DEFINE t == Append(ps, x)
           n == Len(ps)
<1>1. DOMAIN ps = 1 .. n /\ n \in Nat /\ DOMAIN t = 1 .. n + 1 /\ (n + 1) - 1 = n
      /\ t[n + 1] = x /\ (\A k \in 1 .. n : t[k] = ps[k]) /\ (ps # <<>> <=> n > 0)
  OBVIOUS
<1>2. ASSUME NEW l \in 1 .. n + 1, l > 1
      PROVE  t[l - 1] = ps[l - 1] /\ l - 1 \in 1 .. n
  BY <1>1, <1>2
<1> HIDE DEF t, n
<1>3. ASSUME NEW k \in 1 .. n + 1, k > 1, Needs(t[k - 1]), Needs(t[k])
      PROVE  t[k].from \in Touching(ps) \cup (IF ps # <<>> /\ Needs(ps[n]) /\ Needs(x)
                                            THEN {x.from} ELSE {})
  <2>1. CASE k = n + 1
    BY <1>1, <1>2, <1>3, <2>1
  <2>2. CASE k \in 1 .. n
    BY <1>1, <1>2, <1>3, <2>2 DEF Touching
  <2>3. QED BY <1>1, <2>1, <2>2
<1>4. Touching(t) \subseteq Touching(ps) \cup (IF ps # <<>> /\ Needs(ps[n]) /\ Needs(x)
                                               THEN {x.from} ELSE {})
  BY <1>1, <1>3 DEF Touching
<1>5. Touching(ps) \subseteq Touching(t)
  BY <1>1, <1>2 DEF Touching
<1>6. ASSUME ps # <<>>, Needs(ps[n]), Needs(x) PROVE x.from \in Touching(t)
  <2>1. n + 1 \in {l \in DOMAIN t : l > 1 /\ Needs(t[l - 1]) /\ Needs(t[l])}
    BY <1>1, <1>6
  <2>2. QED BY <1>1, <2>1 DEF Touching
<1>7. QED BY <1>4, <1>5, <1>6 DEF t, n

LEMMA SkippedAppend ==
    ASSUME NEW K, NEW ps \in Seq(Pieces(K)), NEW x \in Pieces(K)
    PROVE  Skipped(Append(ps, x))
             = Skipped(ps) \cup (IF x.kind = "invalid" THEN {x.from} ELSE {})
<1> DEFINE t == Append(ps, x)
<1>1. DOMAIN ps = 1 .. Len(ps) /\ Len(ps) \in Nat /\ DOMAIN t = 1 .. Len(ps) + 1
      /\ t[Len(ps) + 1] = x /\ \A k \in 1 .. Len(ps) : t[k] = ps[k]
  OBVIOUS
<1>2. Skipped(t) \subseteq Skipped(ps) \cup (IF x.kind = "invalid" THEN {x.from} ELSE {})
  BY <1>1 DEF Skipped
<1>3. Skipped(ps) \subseteq Skipped(t)
  BY <1>1 DEF Skipped
<1>4. ASSUME x.kind = "invalid" PROVE x.from \in Skipped(t)
  <2>1. Len(ps) + 1 \in {l \in DOMAIN t : t[l].kind = "invalid"}
    BY <1>1, <1>4
  <2>2. QED BY <1>1, <2>1 DEF Skipped
<1>5. QED BY <1>2, <1>3, <1>4

LEMMA TilesAppend ==
    ASSUME NEW K, NEW ps \in Seq(Pieces(K)), NEW x \in Pieces(K), NEW end,
           Tiles(ps, end), x.from = end, x.from < x.to
    PROVE  Tiles(Append(ps, x), x.to)
<1> DEFINE t == Append(ps, x)
           n == Len(ps)
<1>1. DOMAIN ps = 1 .. n /\ n \in Nat /\ DOMAIN t = 1 .. n + 1 /\ Len(t) = n + 1 /\ t # <<>>
      /\ t[n + 1] = x /\ (\A k \in 1 .. n : t[k] = ps[k]) /\ (ps # <<>> <=> n > 0)
  OBVIOUS
<1> HIDE DEF t, n
<1>2. ASSUME NEW k \in 1 .. n + 1
      PROVE  t[k].from < t[k].to /\ t[k].from = IF k = 1 THEN 0 ELSE t[k - 1].to
  <2>1. CASE k \in 1 .. n
    <3>1. k # 1 => k - 1 \in 1 .. n
      BY <1>1, <2>1
    <3>2. QED BY <1>1, <2>1, <3>1 DEF Tiles
  <2>2. CASE k = n + 1
    <3>1. k # 1 => n \in 1 .. n /\ k - 1 = n
      BY <1>1, <2>2
    <3>2. QED BY <1>1, <2>2, <3>1 DEF Tiles, n
  <2>3. QED BY <1>1, <2>1, <2>2
<1>3. QED BY <1>1, <1>2 DEF Tiles, t
-----------------------------------------------------------------------------
(* The two properties, in terms of those functions.                        *)

LEMMA Restated ==
    /\ PiecesTileTheSource <=> Tiles(pieces, it)
    /\ ErrorsAreExact <=> /\ At(errors, "MISSING_SEPARATOR") = Touching(pieces)
                          /\ At(errors, "INVALID_TOKEN") = Skipped(pieces)
BY DEF PiecesTileTheSource, Tiles, ErrorsAreExact, ErrorsWith, At, Touching, Skipped,
       NeedsSeparation, Needs

LEMMA RestatedNext ==
    /\ PiecesTileTheSource' <=> Tiles(pieces', it')
    /\ ErrorsAreExact' <=> /\ At(errors', "MISSING_SEPARATOR") = Touching(pieces')
                           /\ At(errors', "INVALID_TOKEN") = Skipped(pieces')
BY DEF PiecesTileTheSource, Tiles, ErrorsAreExact, ErrorsWith, At, Touching, Skipped,
       NeedsSeparation, Needs

LEMMA SourceIsText == ASSUME TypeOK PROVE source \in Seq(STRING) /\ Len(source) \in Nat
BY SourcesAssumption DEF TypeOK

LEMMA StartsWithNothing ==
    /\ SeparatorTable.result[SeparatorTable.start] = "none"
    /\ TokenTable.result[TokenTable.start] = "none"
    /\ SeparatorTable.start \in DOMAIN SeparatorTable.next
    /\ TokenTable.start \in DOMAIN TokenTable.next
BY TablesAssumption DEF IsTable

LEMMA KindsAreTokens ==
    ASSUME NEW k \in KindsOf(TokenTable)
    PROVE  k \notin {"none", "separator", "invalid"} /\ RequiresSeparation(k) \in BOOLEAN
BY KindsAssumption DEF KindsOf

(* What a step of lexOne() may rely on: it is inside the source, and the   *)
(* state it enters is one of the table it is in.                           *)
LEMMA ReadStaysInside ==
    ASSUME LexingInv, Read
    PROVE  /\ it + i' <= Len(source) /\ i' \in Nat /\ tokenEnd' \in 0 .. i'
           /\ state' \in DOMAIN Table.next
           /\ pc = "token" => result' \in KindsOf(TokenTable) \cup {"none"}
           /\ result' # "none" <=> tokenEnd' > 0
<1>1. TypeOK /\ OneInv /\ Len(source) \in Nat /\ pc # "done"
  BY SourceIsText DEF LexingInv, Read
<1>2. it + i < Len(source) /\ it \in Nat /\ i \in Nat /\ tokenEnd \in 0 .. i /\ i' = i + 1
  BY <1>1 DEF TypeOK, Read, CanRead, AtEnd
<1>3. state \in DOMAIN Table.next /\ IsTable(Table)
  BY <1>1, TablesAssumption DEF TypeOK, Table
<1>4. state' \in DOMAIN Table.next
  BY <1>3 DEF Read, CanRead, IsTable
<1>5. \/ Table.result[state'] # "none" /\ result' = Table.result[state'] /\ tokenEnd' = i + 1
      \/ result' = result /\ tokenEnd' = tokenEnd
  BY DEF Read
<1>6. pc = "token" => result' \in KindsOf(TokenTable) \cup {"none"}
  <2>1. SUFFICES ASSUME pc = "token" PROVE result' \in KindsOf(TokenTable) \cup {"none"}
    OBVIOUS
  <2>2. Table = TokenTable /\ DOMAIN TokenTable.result = DOMAIN TokenTable.next
    BY <2>1, TablesAssumption DEF Table, IsTable
  <2>3. result \in KindsOf(TokenTable) \cup {"none"}
    BY <1>1, <2>1 DEF TypeOK
  <2>4. QED BY <1>4, <1>5, <2>2, <2>3 DEF KindsOf
<1>7. result' # "none" <=> tokenEnd' > 0
  BY <1>1, <1>2, <1>5 DEF OneInv
<1>8. QED BY <1>2, <1>4, <1>5, <1>6, <1>7
-----------------------------------------------------------------------------
(* One lemma per action of lex(): the piece it passes over, and the parts  *)
(* of the invariant one by one.                                            *)

LEMMA SeparatorStep == ASSUME LexingInv, Separator PROVE LexingInv'
<1> DEFINE p == Piece("separator", tokenEnd)
<1>1. TypeOK /\ Len(source) \in Nat /\ FlagsInv
      /\ Tiles(pieces, it) /\ At(errors, "MISSING_SEPARATOR") = Touching(pieces)
      /\ At(errors, "INVALID_TOKEN") = Skipped(pieces)
  BY SourceIsText, Restated DEF LexingInv
<1>2. it \in 0 .. Len(source) /\ i \in Nat /\ it + i <= Len(source) /\ tokenEnd \in 0 .. i
      /\ tokenEnd > 0 /\ pieces \in Seq(Pieces(Piecekinds))
  BY <1>1 DEF TypeOK, Separator, Piecekinds
<1>3. p \in Pieces(Piecekinds) /\ p.from = it /\ p.to = it + tokenEnd /\ p.kind = "separator"
  BY <1>2 DEF Piece, Pieces, Piecekinds
<1>4. pieces' = Append(pieces, p) /\ it' = p.to /\ pc = "separator" /\ pc' = "separator"
      /\ errors' = errors /\ hadSeparation' = TRUE /\ tokenEnd' = 0 /\ i' = 0
      /\ state' = SeparatorTable.start /\ result' = "none"
      /\ UNCHANGED <<source, previousRequired, tokens>>
  BY <1>3, StartsWithNothing DEF Separator, Pass, StartLexOne, Returned
<1> HIDE DEF p
<1>5. TypeOK'
  <2>1. pieces' \in Seq(Pieces(Piecekinds)) /\ Len(source') \in Nat
    BY <1>1, <1>2, <1>3, <1>4
  <2>2. it' \in 0 .. Len(source') /\ i' \in Nat /\ it' + i' <= Len(source') /\ tokenEnd' \in 0 .. i'
    BY <1>1, <1>2, <1>3, <1>4
  <2>3. state' \in DOMAIN Table'.next
    BY <1>4, StartsWithNothing DEF Table
  <2>4. QED BY <1>1, <1>4, <2>1, <2>2, <2>3 DEF TypeOK, Piecekinds
<1>6. OneInv'
  BY <1>4 DEF OneInv
<1>7. FlagsInv'
  <2>1. pieces'[Len(pieces')] = p
    BY <1>2, <1>3, <1>4
  <2>2. QED BY <1>3, <1>4, <2>1 DEF FlagsInv, Needs
<1>8. Tiles(pieces', it')
  BY <1>1, <1>2, <1>3, <1>4, TilesAppend
<1>9. Touching(pieces') = Touching(pieces) /\ Skipped(pieces') = Skipped(pieces)
  <2>1. ~Needs(p)
    BY <1>3 DEF Needs
  <2>2. Touching(pieces') = Touching(pieces)
    BY <1>2, <1>3, <1>4, <2>1, TouchingAppend
  <2>3. Skipped(pieces') = Skipped(pieces)
    BY <1>2, <1>3, <1>4, SkippedAppend
  <2>4. QED BY <2>2, <2>3
<1>10. PiecesTileTheSource' /\ ErrorsAreExact'
  BY <1>1, <1>4, <1>8, <1>9, RestatedNext
<1>11. QED BY <1>5, <1>6, <1>7, <1>10 DEF LexingInv
LEMMA TokenStep == ASSUME LexingInv, Token PROVE LexingInv'
<1> DEFINE p == Piece(result, tokenEnd)
           e == [code |-> "MISSING_SEPARATOR", at |-> it]
<1>1. TypeOK /\ Len(source) \in Nat /\ FlagsInv /\ OneInv
      /\ Tiles(pieces, it) /\ At(errors, "MISSING_SEPARATOR") = Touching(pieces)
      /\ At(errors, "INVALID_TOKEN") = Skipped(pieces)
  BY SourceIsText, Restated DEF LexingInv
<1>2. /\ it \in 0 .. Len(source) /\ i \in Nat /\ it + i <= Len(source) /\ tokenEnd \in 0 .. i
      /\ tokenEnd > 0 /\ result \in KindsOf(TokenTable)
      /\ pieces \in Seq(Pieces(Piecekinds)) /\ errors \in Seq(ErrorRecords)
      /\ tokens \in Seq(Pieces(KindsOf(TokenTable) \cup {"eof"}))
      /\ hadSeparation \in BOOLEAN /\ previousRequired \in BOOLEAN
  BY <1>1 DEF TypeOK, OneInv, Token, Returned, Piecekinds, ErrorRecords
<1>3. /\ p \in Pieces(Piecekinds) /\ p \in Pieces(KindsOf(TokenTable) \cup {"eof"})
      /\ p.from = it /\ p.to = it + tokenEnd /\ p.kind = result
      /\ Needs(p) <=> RequiresSeparation(result)
      /\ RequiresSeparation(result) \in BOOLEAN /\ p.kind # "invalid"
      /\ e \in ErrorRecords /\ e.code = "MISSING_SEPARATOR" /\ e.at = it
  BY <1>2, KindsAreTokens DEF Piece, Pieces, Piecekinds, Needs, ErrorRecords
<1>4. /\ pieces' = Append(pieces, p) /\ it' = p.to /\ pc' = "separator"
      /\ tokens' = Append(tokens, p) /\ previousRequired' = RequiresSeparation(result)
      /\ hadSeparation' = FALSE /\ tokenEnd' = 0 /\ i' = 0
      /\ state' = SeparatorTable.start /\ result' = "none" /\ source' = source
      /\ errors' = IF previousRequired /\ RequiresSeparation(result) /\ ~hadSeparation
                   THEN Append(errors, e) ELSE errors
  BY <1>3, StartsWithNothing DEF Token, Pass, StartLexOne, NextRound
<1> HIDE DEF p, e
<1>5. TypeOK'
  <2>1. pieces' \in Seq(Pieces(Piecekinds))
    BY <1>2, <1>3, <1>4
  <2>2. tokens' \in Seq(Pieces(KindsOf(TokenTable) \cup {"eof"}))
    BY <1>2, <1>3, <1>4
  <2>3. errors' \in Seq(ErrorRecords)
    BY <1>2, <1>3, <1>4
  <2>4. it' \in 0 .. Len(source') /\ i' \in Nat /\ it' + i' <= Len(source') /\ tokenEnd' \in 0 .. i'
    BY <1>1, <1>2, <1>3, <1>4
  <2>5. state' \in DOMAIN Table'.next
    BY <1>4, StartsWithNothing DEF Table
  <2>6. QED BY <1>1, <1>3, <1>4, <2>1, <2>2, <2>3, <2>4, <2>5
            DEF TypeOK, Piecekinds, ErrorRecords
<1>6. OneInv'
  BY <1>4 DEF OneInv
<1>7. FlagsInv'
  <2>1. pieces'[Len(pieces')] = p /\ pieces' # <<>>
    BY <1>2, <1>3, <1>4
  <2>2. QED BY <1>3, <1>4, <2>1 DEF FlagsInv
<1>8. Tiles(pieces', it')
  <2>1. p.from < p.to
    BY <1>2, <1>3
  <2>2. Tiles(Append(pieces, p), p.to)
    BY <1>1, <1>2, <1>3, <2>1, TilesAppend
  <2>3. QED BY <1>4, <2>2
<1>9. Skipped(pieces') = Skipped(pieces)
  <2>1. Skipped(Append(pieces, p))
           = Skipped(pieces) \cup (IF p.kind = "invalid" THEN {p.from} ELSE {})
    BY <1>2, <1>3, SkippedAppend
  <2>2. QED BY <1>3, <1>4, <2>1
<1>10. /\ At(errors', "INVALID_TOKEN") = At(errors, "INVALID_TOKEN")
       /\ At(errors', "MISSING_SEPARATOR") = At(errors, "MISSING_SEPARATOR")
             \cup (IF previousRequired /\ RequiresSeparation(result) /\ ~hadSeparation
                   THEN {it} ELSE {})
  <2>1. At(Append(errors, e), "INVALID_TOKEN") = At(errors, "INVALID_TOKEN")
    <3>1. At(Append(errors, e), "INVALID_TOKEN") = At(errors, "INVALID_TOKEN")
             \cup (IF e.code = "INVALID_TOKEN" THEN {e.at} ELSE {})
      BY <1>2, <1>3, AtAppend, ZenonT(40)
    <3>2. e.code # "INVALID_TOKEN"
      BY <1>3
    <3>3. QED BY <3>1, <3>2
  <2>2. At(Append(errors, e), "MISSING_SEPARATOR") = At(errors, "MISSING_SEPARATOR") \cup {it}
    BY <1>2, <1>3, AtAppend
  <2>3. QED BY <1>4, <2>1, <2>2
<1>11. previousRequired /\ ~hadSeparation <=> pieces # <<>> /\ Needs(pieces[Len(pieces)])
  BY <1>1 DEF FlagsInv, Token, Returned
<1>12. Touching(pieces') = Touching(pieces)
          \cup (IF pieces # <<>> /\ Needs(pieces[Len(pieces)]) /\ Needs(p) THEN {it} ELSE {})
  BY <1>2, <1>3, <1>4, TouchingAppend
<1>13. At(errors', "MISSING_SEPARATOR") = Touching(pieces')
  BY <1>1, <1>3, <1>10, <1>11, <1>12
<1>14. PiecesTileTheSource' /\ ErrorsAreExact'
  BY <1>1, <1>8, <1>9, <1>10, <1>13, RestatedNext
<1>15. QED BY <1>5, <1>6, <1>7, <1>14 DEF LexingInv

LEMMA InvalidStep == ASSUME LexingInv, Invalid PROVE LexingInv'
<1> DEFINE p == Piece("invalid", 1)
           e == [code |-> "INVALID_TOKEN", at |-> it]
<1>1. TypeOK /\ Len(source) \in Nat /\ OneInv
      /\ Tiles(pieces, it) /\ At(errors, "MISSING_SEPARATOR") = Touching(pieces)
      /\ At(errors, "INVALID_TOKEN") = Skipped(pieces)
  BY SourceIsText, Restated DEF LexingInv
<1>2. /\ it \in 0 .. Len(source) /\ it < Len(source)
      /\ pieces \in Seq(Pieces(Piecekinds)) /\ errors \in Seq(ErrorRecords)
  BY <1>1 DEF TypeOK, OneInv, Invalid, Returned, Piecekinds, ErrorRecords
<1>3. /\ p \in Pieces(Piecekinds) /\ ~Needs(p)
      /\ p.from = it /\ p.to = it + 1 /\ p.kind = "invalid"
      /\ e \in ErrorRecords /\ e.code = "INVALID_TOKEN" /\ e.at = it
  BY <1>2 DEF Piece, Pieces, Piecekinds, Needs, ErrorRecords
<1>4. /\ pieces' = Append(pieces, p) /\ it' = p.to /\ pc' = "separator"
      /\ tokens' = tokens /\ previousRequired' = FALSE
      /\ hadSeparation' = FALSE /\ tokenEnd' = 0 /\ i' = 0
      /\ state' = SeparatorTable.start /\ result' = "none" /\ source' = source
      /\ errors' = Append(errors, e)
  BY <1>3, StartsWithNothing DEF Invalid, Pass, StartLexOne, NextRound
<1> HIDE DEF p, e
<1>5. TypeOK'
  <2>1. pieces' \in Seq(Pieces(Piecekinds))
    BY <1>2, <1>3, <1>4
  <2>2. errors' \in Seq(ErrorRecords)
    BY <1>2, <1>3, <1>4
  <2>3. it' \in 0 .. Len(source') /\ i' \in Nat /\ it' + i' <= Len(source') /\ tokenEnd' \in 0 .. i'
    BY <1>1, <1>2, <1>3, <1>4
  <2>4. state' \in DOMAIN Table'.next
    BY <1>4, StartsWithNothing DEF Table
  <2>5. QED BY <1>1, <1>4, <2>1, <2>2, <2>3, <2>4 DEF TypeOK, Piecekinds, ErrorRecords
<1>6. OneInv'
  BY <1>4 DEF OneInv
<1>7. FlagsInv'
  <2>1. pieces'[Len(pieces')] = p
    BY <1>2, <1>3, <1>4
  <2>2. QED BY <1>3, <1>4, <2>1 DEF FlagsInv
<1>8. Tiles(pieces', it')
  BY <1>1, <1>2, <1>3, <1>4, TilesAppend, SMTT(30)
<1>9. Touching(pieces') = Touching(pieces) /\ Skipped(pieces') = Skipped(pieces) \cup {it}
  BY <1>2, <1>3, <1>4, TouchingAppend, SkippedAppend
<1>10. /\ At(errors', "INVALID_TOKEN") = At(errors, "INVALID_TOKEN") \cup {it}
       /\ At(errors', "MISSING_SEPARATOR") = At(errors, "MISSING_SEPARATOR")
  <2>1. At(Append(errors, e), "MISSING_SEPARATOR") = At(errors, "MISSING_SEPARATOR")
    <3>1. At(Append(errors, e), "MISSING_SEPARATOR") = At(errors, "MISSING_SEPARATOR")
             \cup (IF e.code = "MISSING_SEPARATOR" THEN {e.at} ELSE {})
      BY <1>2, <1>3, AtAppend
    <3>2. e.code # "MISSING_SEPARATOR"
      BY <1>3
    <3>3. QED BY <3>1, <3>2
  <2>2. At(Append(errors, e), "INVALID_TOKEN") = At(errors, "INVALID_TOKEN") \cup {it}
    BY <1>2, <1>3, AtAppend
  <2>3. QED BY <1>4, <2>1, <2>2
<1>11. PiecesTileTheSource' /\ ErrorsAreExact'
  BY <1>1, <1>8, <1>9, <1>10, RestatedNext
<1>12. QED BY <1>5, <1>6, <1>7, <1>11 DEF LexingInv

-----------------------------------------------------------------------------
(* The steps that pass over nothing.                                       *)

LEMMA QuietStep ==
    ASSUME LexingInv, UNCHANGED <<it, errors, pieces>>
    PROVE  PiecesTileTheSource' /\ ErrorsAreExact'
BY Restated, RestatedNext DEF LexingInv

LEMMA ReadStep == ASSUME LexingInv, Read PROVE LexingInv'
<1>1. /\ UNCHANGED <<source, it, pc, hadSeparation, previousRequired, tokens, errors, pieces>>
      /\ TypeOK /\ OneInv /\ FlagsInv /\ Table' = Table
  BY DEF Read, LexingInv, Table
<1>2. /\ it + i' <= Len(source) /\ i' \in Nat /\ tokenEnd' \in 0 .. i'
      /\ state' \in DOMAIN Table.next
      /\ pc = "token" => result' \in KindsOf(TokenTable) \cup {"none"}
      /\ result' # "none" <=> tokenEnd' > 0
  BY ReadStaysInside
<1>3. TypeOK'
  BY <1>1, <1>2 DEF TypeOK
<1>4. OneInv' /\ FlagsInv'
  BY <1>1, <1>2 DEF OneInv, FlagsInv
<1>5. QED BY <1>1, <1>3, <1>4, QuietStep DEF LexingInv

LEMMA NoSeparatorStep == ASSUME LexingInv, NoSeparator PROVE LexingInv'
<1>1. /\ UNCHANGED <<source, it, hadSeparation, previousRequired, tokens, errors, pieces>>
      /\ TypeOK /\ FlagsInv /\ Len(source) \in Nat /\ it # Len(source)
      /\ pc = "separator" /\ pc' = "token" /\ i' = 0 /\ tokenEnd' = 0 /\ result' = "none"
      /\ state' = TokenTable.start /\ state' \in DOMAIN TokenTable.next
  BY SourceIsText, StartsWithNothing DEF NoSeparator, StartLexOne, Returned, LexingInv
<1>2. TypeOK'
  <2>1. state' \in DOMAIN Table'.next
    BY <1>1 DEF Table
  <2>2. QED BY <1>1, <2>1 DEF TypeOK
<1>3. OneInv' /\ FlagsInv'
  BY <1>1 DEF OneInv, FlagsInv, TypeOK
<1>4. QED BY <1>1, <1>2, <1>3, QuietStep DEF LexingInv

LEMMA FinishStep == ASSUME LexingInv, Finish PROVE LexingInv'
<1> DEFINE p == Piece("eof", 0)
<1>1. /\ UNCHANGED <<source, it, lexOneVars, hadSeparation, previousRequired, errors, pieces>>
      /\ TypeOK /\ pc' = "done" /\ tokens' = Append(tokens, p)
  BY DEF Finish, LexingInv
<1>2. p \in Pieces(KindsOf(TokenTable) \cup {"eof"})
  BY <1>1 DEF TypeOK, Piece, Pieces
<1> HIDE DEF p
<1>3. TypeOK'
  <2>1. tokens' \in Seq(Pieces(KindsOf(TokenTable) \cup {"eof"}))
    BY <1>1, <1>2 DEF TypeOK
  <2>2. QED BY <1>1, <2>1 DEF TypeOK, lexOneVars
<1>4. OneInv' /\ FlagsInv'
  BY <1>1 DEF OneInv, FlagsInv
<1>5. QED BY <1>1, <1>3, <1>4, QuietStep DEF LexingInv

-----------------------------------------------------------------------------

LEMMA LexingInit == Init => LexingInv
<1>1. SUFFICES ASSUME Init PROVE LexingInv
  OBVIOUS
<1>2. source \in Sources /\ Len(source) \in Nat
  BY <1>1, SourcesAssumption DEF Init
<1>3. TypeOK
  <2>1. state \in DOMAIN Table.next
    BY <1>1, StartsWithNothing DEF Init, Table
  <2>2. <<>> \in Seq(Pieces(KindsOf(TokenTable) \cup {"eof"}))
        /\ <<>> \in Seq(Pieces(KindsOf(TokenTable) \cup {"separator", "invalid"}))
        /\ <<>> \in Seq([code : {"MISSING_SEPARATOR", "INVALID_TOKEN"}, at : Nat])
    OBVIOUS
  <2>3. it \in 0 .. Len(source) /\ i \in Nat /\ it + i <= Len(source) /\ tokenEnd \in 0 .. i
    BY <1>1, <1>2 DEF Init
  <2>4. QED BY <1>1, <1>2, <2>1, <2>2, <2>3 DEF Init, TypeOK
<1>4. OneInv /\ FlagsInv
  BY <1>1, StartsWithNothing DEF Init, OneInv, FlagsInv
<1>5. PiecesTileTheSource
  BY <1>1 DEF Init, PiecesTileTheSource
<1>6. ErrorsAreExact
  BY <1>1 DEF Init, ErrorsAreExact, ErrorsWith
<1>7. QED BY <1>3, <1>4, <1>5, <1>6 DEF LexingInv

LEMMA LexingNext == LexingInv /\ [Next]_vars => LexingInv'
<1>1. SUFFICES ASSUME LexingInv, [Next]_vars PROVE LexingInv'
  OBVIOUS
<1>2. CASE Read        BY <1>1, <1>2, ReadStep
<1>3. CASE Separator   BY <1>1, <1>3, SeparatorStep
<1>4. CASE NoSeparator BY <1>1, <1>4, NoSeparatorStep
<1>5. CASE Finish      BY <1>1, <1>5, FinishStep
<1>6. CASE Token       BY <1>1, <1>6, TokenStep
<1>7. CASE Invalid     BY <1>1, <1>7, InvalidStep
<1>8. CASE UNCHANGED vars
  <2>1. TypeOK' /\ OneInv' /\ FlagsInv'
    BY <1>1, <1>8 DEF vars, LexingInv, TypeOK, OneInv, FlagsInv, Table
  <2>2. QED BY <1>1, <1>8, <2>1, QuietStep DEF vars, LexingInv
<1>9. QED BY <1>1, <1>2, <1>3, <1>4, <1>5, <1>6, <1>7, <1>8 DEF Next, Done

LEMMA LexingInvariant == Spec => []LexingInv
BY LexingInit, LexingNext, PTL DEF Spec

(* lex() never leaves the source, nor lexOne() its table: no read of the   *)
(* generated arrays or of the text is out of bounds.                       *)
THEOREM LexingTypeCorrect == Spec => []TypeOK
<1>1. LexingInv => TypeOK BY DEF LexingInv
<1>2. QED BY <1>1, LexingInvariant, PTL

(* For every source and all tables without an empty token, lex() passes    *)
(* over every character exactly once, in order.                            *)
THEOREM LexingTiles == Spec => []PiecesTileTheSource
<1>1. LexingInv => PiecesTileTheSource BY DEF LexingInv
<1>2. QED BY <1>1, LexingInvariant, PTL

(* MISSING_SEPARATOR is reported exactly for the tokens that touch, and    *)
(* INVALID_TOKEN exactly for the characters that are skipped.              *)
THEOREM LexingErrors == Spec => []ErrorsAreExact
<1>1. LexingInv => ErrorsAreExact BY DEF LexingInv
<1>2. QED BY <1>1, LexingInvariant, PTL
=============================================================================
