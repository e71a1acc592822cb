----------------------------- MODULE ParserProofs -----------------------------
(***************************************************************************)
(* The reader's diagnostic is right for every client, and the parser is a  *)
(* client that never misuses it, for every grammar and every input.        *)
(***************************************************************************)
EXTENDS Parser, TLAPS

(* No failure was recorded at a token of the kind that was tried.          *)
FailuresReal == \A f \in failed : KindOf[toks[f[1]]] # f[2]

(* Only at the very first token can there be nothing expected yet.         *)
ExpectedBeyondFirst == unexpectedIt > 1 => reprs # {}

ReaderInv ==
    ReaderTypeOK /\ FurthestFailure /\ FailuresReal /\ ExpectedBeyondFirst

-----------------------------------------------------------------------------

(* An attempt or a backtrack, by whatever client, keeps the bookkeeping    *)
(* of the reader consistent.                                               *)
LEMMA ReaderStep ==
    ASSUME ReaderInv, [ReaderNext]_readerVars
    PROVE  ReaderInv'
<1> USE InputsAssumption
<1>w. toks \in Seq(Tokens) /\ Len(toks) \in Nat
  BY DEF ReaderInv, ReaderTypeOK
<1>1. CASE UNCHANGED readerVars
  BY <1>1 DEF readerVars, ReaderInv, ReaderTypeOK, FurthestFailure,
              FailuresReal, ExpectedBeyondFirst
<1>2. ASSUME NEW k \in Kinds, Hit(k)
      PROVE  ReaderInv'
  <2>1. it' = it + 1 /\ it <= Len(toks) /\ UNCHANGED <<toks, unexpectedIt, reprs, failed>>
    BY <1>2 DEF Hit, AtKind
  <2> QED
    BY <1>w, <2>1 DEF ReaderInv, ReaderTypeOK, FurthestFailure, FailuresReal,
                      ExpectedBeyondFirst
<1>3. ASSUME NEW k \in Kinds, Miss(k)
      PROVE  ReaderInv'
  <2>1. /\ it \in 1..Len(toks) /\ it' = it /\ toks' = toks
        /\ failed' = failed \cup {<<it, k>>}
        /\ KindOf[toks[it]] # k
    BY <1>3, <1>w DEF Miss, AtKind, ReaderInv, ReaderTypeOK
  <2>2. ReaderTypeOK'
    BY <1>3, <1>w, <2>1 DEF Miss, ReaderInv, ReaderTypeOK
  <2>3. FurthestFailure'
    <3> SUFFICES /\ \A f \in failed' : f[1] <= unexpectedIt'
                 /\ reprs' = {j \in Kinds : <<unexpectedIt', j>> \in failed'}
      BY DEF FurthestFailure
    <3>t. /\ unexpectedIt \in Nat /\ it \in Nat
          /\ failed \subseteq (1..Len(toks)) \X Kinds
          /\ \A f \in failed : f[1] <= unexpectedIt
          /\ reprs = {j \in Kinds : <<unexpectedIt, j>> \in failed}
      BY <1>w, <2>1 DEF ReaderInv, ReaderTypeOK, FurthestFailure
    <3>1. CASE it > unexpectedIt
      <4>1. unexpectedIt' = it /\ reprs' = {k}
        BY <1>3, <3>1 DEF Miss
      <4>2. ASSUME NEW j \in Kinds, <<it, j>> \in failed
            PROVE  FALSE
        <5>1. <<it, j>>[1] <= unexpectedIt
          BY <3>t, <4>2
        <5> QED BY <3>1, <3>t, <5>1
      <4> QED BY <2>1, <3>1, <3>t, <4>1, <4>2
    <3>2. CASE it = unexpectedIt
      <4>1. unexpectedIt' = it /\ reprs' = reprs \cup {k}
        BY <1>3, <3>2, <3>t DEF Miss
      <4> QED BY <2>1, <3>2, <3>t, <4>1
    <3>3. CASE it < unexpectedIt
      <4>1. unexpectedIt' = unexpectedIt /\ reprs' = reprs
        BY <1>3, <3>3, <3>t DEF Miss
      <4> QED BY <2>1, <3>3, <3>t, <4>1
    <3> QED BY <3>1, <3>2, <3>3, <3>t
  <2>4. FailuresReal'
    BY <2>1 DEF ReaderInv, FailuresReal
  <2>5. ExpectedBeyondFirst'
    BY <1>3, <1>w, <2>1 DEF Miss, ReaderInv, ReaderTypeOK, ExpectedBeyondFirst
  <2> QED BY <2>2, <2>3, <2>4, <2>5 DEF ReaderInv
<1>4. ASSUME NEW p \in 1..it, Backtrack(p)
      PROVE  ReaderInv'
  <2>1. it' = p /\ it \in 1..(Len(toks) + 1)
        /\ UNCHANGED <<toks, unexpectedIt, reprs, failed>>
    BY <1>4 DEF Backtrack, ReaderInv, ReaderTypeOK
  <2> QED
    BY <1>w, <2>1 DEF ReaderInv, ReaderTypeOK, FurthestFailure, FailuresReal,
                      ExpectedBeyondFirst
<1> QED BY <1>1, <1>2, <1>3, <1>4 DEF ReaderNext

LEMMA ReaderInitInv == ReaderInit => ReaderInv
  BY InputsAssumption
  DEF ReaderInit, ReaderInv, ReaderTypeOK, FurthestFailure, FailuresReal,
      ExpectedBeyondFirst

(* A token at which the kinds "reprs" were tried in vain is of none of     *)
(* them.                                                                   *)
LEMMA ReportFollows == ReaderInv => ReportIsNoContradiction
<1> SUFFICES ASSUME ReaderInv, KindOf[toks[unexpectedIt]] \in reprs
             PROVE  FALSE
  BY DEF ReportIsNoContradiction
<1> DEFINE k == KindOf[toks[unexpectedIt]]
<1>1. <<unexpectedIt, k>> \in failed
  BY DEF ReaderInv, FurthestFailure
<1> QED BY <1>1 DEF ReaderInv, FailuresReal

(* Whatever a client tries and however it moves back, what                 *)
(* UnexpectedToken::report prints is the furthest failure and exactly the  *)
(* kinds tried there.                                                      *)
THEOREM ReaderDiagnostic ==
    ReaderSpec => [](FurthestFailure /\ ReportIsNoContradiction)
<1>1. ReaderInv /\ [ReaderNext]_readerVars => ReaderInv'
  BY ReaderStep
<1>2. ReaderInv => FurthestFailure /\ ReportIsNoContradiction
  BY ReportFollows DEF ReaderInv
<1> QED BY <1>1, <1>2, ReaderInitInv, PTL DEF ReaderSpec

-----------------------------------------------------------------------------

(* What the parser keeps true: the reader's part, the order of the saved   *)
(* positions, and that there is something to report when it gives up.      *)
ParserInv == ReaderInv /\ TypeOK /\ MarksOrdered /\ NeverPastEnd /\ ExpectedNotEmpty

LEMMA ParserInit == Init => ParserInv
<1> SUFFICES ASSUME Init PROVE ParserInv
  OBVIOUS
<1>1. ReaderInv
  BY ReaderInitInv DEF Init
<1>2. marks = <<>> /\ status = "running" /\ it = 1 /\ toks \in Inputs /\ Len(toks) \in Nat \ {0}
  BY InputsAssumption DEF Init, ReaderInit
<1> QED
  BY <1>1, <1>2 DEF ParserInv, ReaderInv, TypeOK, MarksOrdered, NeverPastEnd,
                    ExpectedNotEmpty, Final

(* Every step of the parser is one step of the reader or leaves it alone.  *)
LEMMA ParserStepIsReaderStep ==
    ASSUME ParserInv, [Next]_vars
    PROVE  [ReaderNext]_readerVars
<1> USE InputsAssumption
<1>1. CASE UNCHANGED vars
  BY <1>1 DEF vars, readerVars
<1>2. CASE \/ Call \/ TryParse \/ ParseList \/ ParseSeparatedList
           \/ ParseAlternatives \/ EndTry \/ ReportUnexpected \/ Done
  BY <1>2 DEF Call, TryParse, ParseList, ParseSeparatedList, ParseAlternatives,
              EndTry, ReportUnexpected, Done, vars, readerVars
<1>3. CASE Consume \/ TryConsume \/ ParseSeparated \/ ConsumeEof
  BY <1>3 DEF Consume, TryConsume, ParseSeparated, ConsumeEof, ReaderNext
<1>4. CASE ConsumeValue
  BY <1>4 DEF ConsumeValue, ReaderNext
<1>5. CASE Catch
  <2>1. marks \in Seq(1..Len(toks)) /\ marks # <<>> /\ Len(toks) \in Nat
        /\ Backtrack(marks[Len(marks)]) /\ it \in Nat
    BY <1>5 DEF Catch, ParserInv, TypeOK, ReaderTypeOK
  <2>2. marks[Len(marks)] \in 1..Len(toks)
    BY <2>1
  <2>3. marks[Len(marks)] \in 1..it
    BY <2>1, <2>2 DEF Backtrack
  <2> QED BY <2>1, <2>3 DEF ReaderNext
<1> QED BY <1>1, <1>2, <1>3, <1>4, <1>5 DEF Next

(* Entering a try block at the current position keeps the saved positions  *)
(* in order, also if the reader then moves on.                             *)
LEMMA EnterKeepsOrder ==
    ASSUME marks \in Seq(1..Len(toks)), MarksOrdered, it \in 1..Len(toks),
           toks' = toks, Len(toks) \in Nat, it' \in Nat, it' >= it,
           marks' = Append(marks, it)
    PROVE  marks' \in Seq(1..Len(toks)) /\ MarksOrdered'
<1>1. Len(marks) \in Nat /\ Len(marks') = Len(marks) + 1
      /\ marks'[Len(marks) + 1] = it
      /\ \A i \in 1..Len(marks) : marks'[i] = marks[i] /\ marks[i] \in 1..Len(toks)
  OBVIOUS
<1> QED BY <1>1, SMTT(30) DEF MarksOrdered

(* So does leaving one, if the reader is not moved back beyond it.         *)
LEMMA LeaveKeepsOrder ==
    ASSUME marks \in Seq(1..Len(toks)), marks # <<>>, MarksOrdered,
           toks' = toks, Len(toks) \in Nat, it \in Nat, it' \in Nat,
           it' >= marks[Len(marks)],
           marks' = SubSeq(marks, 1, Len(marks) - 1)
    PROVE  marks' \in Seq(1..Len(toks)) /\ MarksOrdered'
<1> DEFINE n == Len(marks) - 1
<1>1. Len(marks) \in Nat \ {0} /\ n \in Nat /\ n + 1 = Len(marks)
  OBVIOUS
<1>2. \A i \in 1..Len(marks) : marks[i] \in 1..Len(toks)
  OBVIOUS
<1>3. /\ Len(marks') = n
      /\ \A i \in 1..n : marks'[i] = marks[i]
      /\ marks' \in Seq(1..Len(toks))
  BY <1>1, <1>2
<1>4. \A i \in 1..n : marks[i] <= marks[Len(marks)]
  BY <1>1 DEF MarksOrdered
<1>5. \A i \in 1..n : marks'[i] <= it'
  BY <1>1, <1>2, <1>3, <1>4
<1> QED BY <1>1, <1>3, <1>5 DEF MarksOrdered

LEMMA ParserStep ==
    ASSUME ParserInv, [Next]_vars
    PROVE  ParserInv'
<1> USE InputsAssumption
<1>r. ReaderInv'
  BY ParserStepIsReaderStep, ReaderStep DEF ParserInv
<1>w. /\ Len(toks) \in Nat \ {0} /\ it \in 1..(Len(toks) + 1)
      /\ marks \in Seq(1..Len(toks)) /\ MarksOrdered
      /\ ExpectedBeyondFirst /\ unexpectedIt \in 1..Len(toks)
      /\ ReaderTypeOK' /\ toks \in Inputs /\ toks \in Seq(Tokens)
  BY <1>r DEF ParserInv, ReaderInv, ReaderTypeOK, TypeOK
<1>s. /\ status \in Final \cup {"running", "throwing"}
      /\ it = Len(toks) + 1 <=> status = "accepted"
      /\ status \in {"throwing", "unexpected"} => reprs # {}
  BY DEF ParserInv, TypeOK, NeverPastEnd, ExpectedNotEmpty
<1>b. status # "accepted" => it \in 1..Len(toks)
  BY <1>w, <1>s
<1>h. ASSUME NEW k \in Kinds \ {Eof}, Hit(k)
      PROVE  it <= Len(toks) /\ it' = it + 1 /\ it' <= Len(toks) /\ toks' = toks
  <2>1. it \in 1..Len(toks) /\ KindOf[toks[it]] = k /\ it' = it + 1 /\ toks' = toks
    BY <1>h, <1>w DEF Hit, AtKind
  <2>2. it # Len(toks)
    BY <1>w, <2>1
  <2> QED BY <1>w, <2>1, <2>2
<1>m. ASSUME NEW k \in Kinds, Miss(k)
      PROVE  it <= Len(toks) /\ it' = it /\ toks' = toks /\ reprs' # {}
  BY <1>m, <1>w, SMTT(30) DEF Miss, ExpectedBeyondFirst
<1> DEFINE Kept == marks' \in Seq(1..Len(toks')) /\ MarksOrdered'
           Ended == NeverPastEnd' /\ ExpectedNotEmpty'
                    /\ status' \in Final \cup {"running", "throwing"}
<1> SUFFICES Kept /\ Ended
  BY <1>r, <1>w DEF ParserInv, TypeOK
<1>1. CASE UNCHANGED vars \/ Done
  BY <1>1, <1>w, <1>s DEF vars, Done, MarksOrdered, NeverPastEnd, ExpectedNotEmpty
<1>2. CASE Call \/ ParseSeparatedList
  BY <1>2, <1>w, <1>s
  DEF Call, ParseSeparatedList, At, readerVars, MarksOrdered, NeverPastEnd,
      ExpectedNotEmpty, Final
<1>3. CASE Consume \/ ConsumeValue
  <2>1. UNCHANGED marks /\ toks' = toks /\ it' \in Nat /\ it' >= it
    BY <1>3, <1>h, <1>m, <1>w DEF Consume, ConsumeValue, readerVars
  <2>2. Kept
    BY <2>1, <1>w DEF MarksOrdered
  <2>3. Ended
    BY <1>3, <1>h, <1>m, <1>w, <1>s
    DEF Consume, ConsumeValue, At, readerVars, NeverPastEnd, ExpectedNotEmpty, Final
  <2> QED BY <2>2, <2>3
<1>4. CASE TryConsume
  <2>1. /\ UNCHANGED <<marks, status>> /\ toks' = toks /\ it' \in Nat /\ it' >= it
        /\ it' <= Len(toks) /\ status = "running"
    BY <1>4, <1>h, <1>m, <1>w DEF TryConsume, At
  <2> QED BY <2>1, <1>w DEF MarksOrdered, NeverPastEnd, ExpectedNotEmpty, Final
<1>5. CASE TryParse \/ ParseList
  <2>1. status = "running" /\ marks' = Append(marks, it) /\ UNCHANGED <<readerVars, status>>
    BY <1>5 DEF TryParse, ParseList, At, Enter
  <2>2. toks' = toks /\ it' = it /\ it \in 1..Len(toks)
    BY <2>1, <1>b DEF readerVars
  <2>3. Kept
    BY <2>1, <2>2, <1>w, EnterKeepsOrder
  <2> QED BY <2>1, <2>2, <2>3, <1>w DEF NeverPastEnd, ExpectedNotEmpty, Final
<1>6. CASE ParseSeparated
  <2>1. PICK k \in Kinds \ {Eof} :
           /\ At("rest")
           /\ \/ Hit(k) /\ marks' = Append(marks, it)
              \/ Miss(k) /\ UNCHANGED marks
           /\ UNCHANGED status
    BY <1>6 DEF ParseSeparated, Enter
  <2>2. toks' = toks /\ it' \in Nat /\ it' >= it /\ it' <= Len(toks) /\ it \in 1..Len(toks)
    BY <2>1, <1>h, <1>m, <1>w
  <2>3. CASE UNCHANGED marks
    BY <2>1, <2>2, <2>3, <1>w DEF At, MarksOrdered, NeverPastEnd, ExpectedNotEmpty, Final
  <2>4. CASE marks' = Append(marks, it)
    <3>1. Kept
      BY <2>2, <2>4, <1>w, EnterKeepsOrder
    <3> QED BY <2>1, <2>2, <3>1, <1>w DEF At, NeverPastEnd, ExpectedNotEmpty, Final
  <2> QED BY <2>1, <2>3, <2>4
<1>7. CASE ParseAlternatives
  <2>1. /\ status = "running" /\ UNCHANGED <<readerVars, status>>
        /\ UNCHANGED marks \/ marks' = Append(marks, it)
    BY <1>7 DEF ParseAlternatives, At, Enter
  <2>2. toks' = toks /\ it' = it /\ it \in 1..Len(toks)
    BY <2>1, <1>b DEF readerVars
  <2>3. Kept
    <3>1. CASE UNCHANGED marks
      BY <2>2, <3>1, <1>w DEF MarksOrdered
    <3>2. CASE marks' = Append(marks, it)
      BY <2>2, <3>2, <1>w, EnterKeepsOrder
    <3> QED BY <2>1, <3>1, <3>2
  <2> QED BY <2>1, <2>2, <2>3, <1>w DEF NeverPastEnd, ExpectedNotEmpty, Final
<1>8. CASE EndTry \/ Catch
  <2>1. /\ marks # <<>> /\ marks' = SubSeq(marks, 1, Len(marks) - 1)
        /\ status \in {"running", "throwing"} /\ status' = "running"
        /\ toks' = toks /\ it' \in {it, marks[Len(marks)]}
    BY <1>8 DEF EndTry, Catch, Leave, Backtrack, readerVars
  <2>2. marks[Len(marks)] \in 1..Len(toks) /\ marks[Len(marks)] <= it
    BY <2>1, <1>w DEF MarksOrdered
  <2>3. it' \in 1..Len(toks) /\ it' >= marks[Len(marks)]
    BY <2>1, <2>2, <1>w, <1>b
  <2>4. Kept
    BY <2>1, <2>3, <1>w, LeaveKeepsOrder
  <2> QED BY <2>1, <2>3, <2>4, <1>w DEF NeverPastEnd, ExpectedNotEmpty, Final
<1>9. CASE ReportUnexpected \/ ConsumeEof
  <2>1. UNCHANGED marks /\ toks' = toks
    BY <1>9 DEF ReportUnexpected, ConsumeEof, readerVars, Hit, Miss
  <2>2. CASE ReportUnexpected
    BY <2>1, <2>2, <1>w, <1>s
    DEF ReportUnexpected, readerVars, MarksOrdered, NeverPastEnd, ExpectedNotEmpty, Final
  <2>3. CASE ConsumeEof /\ Hit(Eof)
    <3>1. it = Len(toks) /\ it' = it + 1
      BY <2>3, <1>w DEF Hit, AtKind
    <3>2. status' = "accepted"
      BY <2>3 DEF ConsumeEof, Hit, Miss
    <3> QED BY <2>1, <3>1, <3>2, <1>w DEF MarksOrdered, NeverPastEnd, ExpectedNotEmpty, Final
  <2>4. CASE ConsumeEof /\ Miss(Eof)
    <3>1. status' = "throwing"
      BY <2>4 DEF ConsumeEof, Hit, Miss
    <3> QED BY <2>1, <2>4, <3>1, <1>m, <1>w DEF MarksOrdered, NeverPastEnd, ExpectedNotEmpty, Final
  <2> QED BY <1>9, <2>2, <2>3, <2>4 DEF ConsumeEof
<1> QED BY <1>1, <1>2, <1>3, <1>4, <1>5, <1>6, <1>7, <1>8, <1>9 DEF Next

LEMMA ParserInvariant == Spec => []ParserInv
  BY ParserInit, ParserStep, PTL DEF Spec

-----------------------------------------------------------------------------

(* The positions, the saved positions and the expected kinds stay within   *)
(* the token vector and the token classes.                                 *)
THEOREM ParserTypeCorrect == Spec => []TypeOK
<1>1. ParserInv => TypeOK
  BY DEF ParserInv
<1> QED BY <1>1, ParserInvariant, PTL

(* The assertion of TokenReader::backtrack never fails, and no attempt is  *)
(* ever made beyond the end of the token vector.                           *)
THEOREM ParserStaysInBounds == Spec => [](MarksOrdered /\ NeverPastEnd)
<1>1. ParserInv => MarksOrdered /\ NeverPastEnd
  BY DEF ParserInv
<1> QED BY <1>1, ParserInvariant, PTL

(* The assertion of UnexpectedToken::report never fails.                   *)
THEOREM ParserHasSomethingToReport == Spec => []ExpectedNotEmpty
<1>1. ParserInv => ExpectedNotEmpty
  BY DEF ParserInv
<1> QED BY <1>1, ParserInvariant, PTL

(* The parser is one of the clients TokenReader is specified for, ...      *)
THEOREM ParserImplementsReader == Spec => ReaderSpec
<1>1. Init => ReaderInit
  BY DEF Init
<1>2. ParserInv /\ [Next]_vars => [ReaderNext]_readerVars
  BY ParserStepIsReaderStep
<1> QED BY <1>1, <1>2, ParserInvariant, PTL DEF Spec, ReaderSpec

(* ... so its diagnostic names the furthest failure and what was tried     *)
(* there.                                                                  *)
THEOREM ParserDiagnostic == Spec => [](FurthestFailure /\ ReportIsNoContradiction)
  BY ParserImplementsReader, ReaderDiagnostic
=============================================================================
