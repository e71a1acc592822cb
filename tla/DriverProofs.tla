----------------------------- MODULE DriverProofs -----------------------------
(***************************************************************************)
(* Proofs about the driver, for any number of faults.  The argument is in  *)
(* two parts.  The Reporter keeps its books: ReporterInv, which no call of *)
(* it disturbs, says that its flags agree with its messages.  The driver   *)
(* keeps the Reporter honest: Account says where the news of a fault is    *)
(* while it is not yet in hadErrors().                                     *)
(***************************************************************************)
EXTENDS Driver, FiniteSetTheorems, SequenceTheorems, TLAPS

Abouts(messages) == {messages[i].about : i \in DOMAIN messages}

(* The flags of a reporter agree with its messages.                        *)
ReporterInv(r) ==
    /\ r \in Reporters
    /\ r.hadErrors <=> Errors(r.printed) # {}
    /\ r.heldHadErrors <=> Errors(r.held) # {}
    /\ r.printed # <<>> => r.hadErrors
    /\ r.held # <<>> => r.heldHadErrors
    /\ ~r.holding => r.held = <<>>

-----------------------------------------------------------------------------
(* Sequences of messages.                                                  *)

(* An appended message is an error or leaves the errors as they were.      *)
LEMMA ErrorsOfAppend ==
    ASSUME NEW s \in Seq(Messages), NEW m \in Messages
    PROVE  /\ Append(s, m) \in Seq(Messages) /\ Append(s, m) # <<>>
           /\ m.kind = "error" => Errors(Append(s, m)) # {}
           /\ m.kind # "error" /\ Errors(s) # {} => Errors(Append(s, m)) # {}
           /\ Abouts(s) \subseteq Abouts(Append(s, m))
<1> DEFINE t == Append(s, m)
<1>1. t \in Seq(Messages) /\ t # <<>> /\ Len(t) = Len(s) + 1 /\ t[Len(s) + 1] = m
      /\ \A i \in 1 .. Len(s) : t[i] = s[i]
  OBVIOUS
<1>2. DOMAIN s = 1 .. Len(s) /\ DOMAIN t = 1 .. Len(s) + 1 /\ Len(s) \in Nat
  BY <1>1
<1>3. ASSUME m.kind = "error" PROVE Errors(t) # {}
  <2>1. Len(s) + 1 \in Errors(t)
    BY <1>1, <1>2, <1>3 DEF Errors
  <2>2. QED BY <2>1
<1>4. ASSUME Errors(s) # {} PROVE Errors(t) # {}
  <2>1. PICK i \in DOMAIN s : s[i].kind = "error"
    BY <1>4 DEF Errors
  <2>2. i \in Errors(t)
    BY <1>1, <1>2, <2>1 DEF Errors
  <2>3. QED BY <2>2
<1>5. Abouts(s) \subseteq Abouts(t)
  BY <1>1, <1>2 DEF Abouts
<1>6. QED BY <1>1, <1>3, <1>4, <1>5

(* The errors of two sequences put together are the errors of both.        *)
LEMMA ErrorsOfConcat ==
    ASSUME NEW s \in Seq(Messages), NEW t \in Seq(Messages)
    PROVE  /\ s \o t \in Seq(Messages)
           /\ Errors(s \o t) # {} <=> Errors(s) # {} \/ Errors(t) # {}
           /\ s \o t # <<>> => s # <<>> \/ t # <<>>
           /\ Abouts(s) \subseteq Abouts(s \o t)
<1> DEFINE u == s \o t
<1>1. u \in Seq(Messages) /\ Len(u) = Len(s) + Len(t)
      /\ \A i \in 1 .. Len(s) : u[i] = s[i]
      /\ \A j \in 1 .. Len(u) : j > Len(s) => u[j] = t[j - Len(s)]
      /\ (u # <<>> => s # <<>> \/ t # <<>>)
  OBVIOUS
<1>2. /\ DOMAIN s = 1 .. Len(s) /\ DOMAIN t = 1 .. Len(t) /\ DOMAIN u = 1 .. Len(s) + Len(t)
      /\ Len(s) \in Nat /\ Len(t) \in Nat
  BY <1>1
<1>3. ASSUME NEW i \in DOMAIN s, s[i].kind = "error" PROVE i \in Errors(u)
  BY <1>1, <1>2, <1>3 DEF Errors
<1>4. ASSUME NEW i \in DOMAIN t, t[i].kind = "error" PROVE i + Len(s) \in Errors(u)
  <2>1. i + Len(s) \in 1 .. Len(u) /\ i + Len(s) > Len(s) /\ (i + Len(s)) - Len(s) = i
    BY <1>1, <1>2
  <2>2. u[i + Len(s)] = t[i]
    BY <2>1, <1>1
  <2>3. QED BY <2>1, <2>2, <1>2, <1>1, <1>4 DEF Errors
<1>5. ASSUME NEW i \in DOMAIN u, u[i].kind = "error"
      PROVE  i \in Errors(s) \/ i - Len(s) \in Errors(t)
  <2>1. CASE i <= Len(s)
    BY <2>1, <1>1, <1>2, <1>5 DEF Errors
  <2>2. CASE i > Len(s)
    BY <2>2, <1>1, <1>2, <1>5 DEF Errors
  <2>3. QED BY <2>1, <2>2, <1>2
<1>6. Errors(u) # {} <=> Errors(s) # {} \/ Errors(t) # {}
  BY <1>3, <1>4, <1>5 DEF Errors
<1>7. Abouts(s) \subseteq Abouts(u)
  BY <1>1, <1>2 DEF Abouts
<1>8. QED BY <1>1, <1>6, <1>7

-----------------------------------------------------------------------------
(* The calls of the Reporter.                                              *)

(* What a call of err() or note() leaves and adds.                         *)
Emitted(r, q) ==
    /\ ReporterInv(q)
    /\ q.holding = r.holding /\ q.asserted = r.asserted
    /\ q.hadErrors <=> r.hadErrors \/ ~r.holding
    /\ q.heldHadErrors <=> r.heldHadErrors \/ r.holding
    /\ Abouts(r.printed) \subseteq Abouts(q.printed)

(* An error is printed, or held, and counted accordingly.                  *)
LEMMA ErrKeeps ==
    ASSUME NEW r, ReporterInv(r), NEW f \in Nat
    PROVE  Emitted(r, Err(r, f))
<1>1. r \in Reporters /\ r.printed \in Seq(Messages) /\ r.held \in Seq(Messages)
  BY DEF ReporterInv, Reporters
<1>2. ErrorOf(f) \in Messages /\ ErrorOf(f).kind = "error"
  BY DEF ErrorOf, Messages
<1>3. CASE r.holding
  <2>1. Err(r, f) = [r EXCEPT !.held = Append(r.held, ErrorOf(f)), !.heldHadErrors = TRUE]
    BY <1>1, <1>3 DEF Err, Emit, Reporters
  <2>2. QED BY <2>1, <1>1, <1>2, <1>3, ErrorsOfAppend, ZenonT(40) DEF Emitted, ReporterInv, Reporters
<1>4. CASE ~r.holding
  <2>1. Err(r, f) = [r EXCEPT !.printed = Append(r.printed, ErrorOf(f)), !.hadErrors = TRUE]
    BY <1>1, <1>4 DEF Err, Emit, Reporters
  <2>2. QED BY <2>1, <1>1, <1>2, <1>4, ErrorsOfAppend, ZenonT(40) DEF Emitted, ReporterInv, Reporters
<1>5. QED BY <1>3, <1>4

(* A note to an error adds nothing to the count.                           *)
LEMMA NoteKeeps ==
    ASSUME NEW r, ReporterInv(r), NEW f \in Nat,
           IF r.holding THEN r.heldHadErrors ELSE r.hadErrors
    PROVE  Emitted(r, Note(r, f))
<1>1. r \in Reporters /\ r.printed \in Seq(Messages) /\ r.held \in Seq(Messages)
  BY DEF ReporterInv, Reporters
<1>2. NoteOf(f) \in Messages /\ NoteOf(f).kind # "error"
  BY DEF NoteOf, Messages
<1>3. CASE r.holding
  <2>1. Note(r, f) = [r EXCEPT !.held = Append(r.held, NoteOf(f))]
    BY <1>1, <1>3 DEF Note, Emit, Reporters
  <2>2. QED BY <2>1, <1>1, <1>2, <1>3, ErrorsOfAppend DEF Emitted, ReporterInv, Reporters
<1>4. CASE ~r.holding
  <2>1. Note(r, f) = [r EXCEPT !.printed = Append(r.printed, NoteOf(f))]
    BY <1>1, <1>4 DEF Note, Emit, Reporters
  <2>2. QED BY <2>1, <1>1, <1>2, <1>4, ErrorsOfAppend DEF Emitted, ReporterInv, Reporters
<1>5. QED BY <1>3, <1>4

(* A report, with its note or without.                                     *)
LEMMA ReportKeeps ==
    ASSUME NEW r, ReporterInv(r), NEW f \in Nat, NEW q \in Report(r, f)
    PROVE  Emitted(r, q)
<1>1. Emitted(r, Err(r, f))
  BY ErrKeeps
<1>2. Emitted(Err(r, f), Note(Err(r, f), f))
  BY <1>1, NoteKeeps DEF Emitted
<1>3. Emitted(r, Note(Err(r, f), f))
  BY <1>1, <1>2 DEF Emitted
<1>4. QED BY <1>1, <1>3 DEF Report

(* hold() only holds.                                                      *)
LEMMA HoldKeeps ==
    ASSUME NEW r, ReporterInv(r), ~r.holding
    PROVE  LET q == Hold(r)
           IN  /\ ReporterInv(q) /\ q.holding /\ q.asserted = r.asserted
               /\ q.hadErrors = r.hadErrors /\ ~q.heldHadErrors
               /\ q.printed = r.printed
<1>1. r \in Reporters /\ r.held = <<>>
  BY DEF ReporterInv
<1>2. Hold(r) = [r EXCEPT !.holding = TRUE]
  BY <1>1 DEF Hold, Reporters
<1>3. ~r.heldHadErrors
  BY <1>1 DEF ReporterInv, Errors, Reporters
<1>4. QED BY <1>1, <1>2, <1>3 DEF ReporterInv, Reporters

(* unholdDiscard() forgets what was held and that it was held.             *)
LEMMA UnholdDiscardKeeps ==
    ASSUME NEW r, ReporterInv(r), r.holding
    PROVE  LET q == UnholdDiscard(r)
           IN  /\ ReporterInv(q) /\ ~q.holding /\ q.asserted = r.asserted
               /\ q.hadErrors = r.hadErrors /\ q.printed = r.printed
<1>1. r \in Reporters
  BY DEF ReporterInv
<1>2. UnholdDiscard(r)
        = [r EXCEPT !.held = <<>>, !.heldHadErrors = FALSE, !.holding = FALSE]
  BY <1>1 DEF UnholdDiscard, Reporters
<1>3. Errors(<<>>) = {} /\ <<>> \in Seq(Messages)
  BY DEF Errors
<1>4. QED BY <1>1, <1>2, <1>3 DEF ReporterInv, Reporters

(* unhold() shows what was held and counts it.                             *)
LEMMA UnholdKeeps ==
    ASSUME NEW r, ReporterInv(r), r.holding
    PROVE  LET q == Unhold(r)
           IN  /\ ReporterInv(q) /\ ~q.holding /\ q.asserted = r.asserted
               /\ q.hadErrors <=> r.hadErrors \/ r.heldHadErrors
               /\ Abouts(r.printed) \subseteq Abouts(q.printed)
<1> DEFINE p == [r EXCEPT !.printed = r.printed \o r.held,
                          !.hadErrors = r.hadErrors \/ r.heldHadErrors]
<1>1. r \in Reporters /\ r.printed \in Seq(Messages) /\ r.held \in Seq(Messages)
  BY DEF ReporterInv, Reporters
<1>2. ReporterInv(p) /\ Abouts(r.printed) \subseteq Abouts(p.printed)
  BY <1>1, ErrorsOfConcat DEF ReporterInv, Reporters
<1>3. p.holding /\ p.asserted = r.asserted
      /\ (p.hadErrors <=> r.hadErrors \/ r.heldHadErrors)
  BY <1>1 DEF Reporters
<1>4. Unhold(r) = UnholdDiscard(p)
  BY <1>1 DEF Unhold, Reporters
<1> HIDE DEF p
<1>5. QED BY <1>2, <1>3, <1>4, UnholdDiscardKeeps

-----------------------------------------------------------------------------
(* The driver.                                                             *)

Shape ==
    /\ stage \in Stages /\ exitCode \in {0, 1, 2}
    /\ dump \in BOOLEAN /\ refused \in BOOLEAN
    /\ faults \in SUBSET Nat /\ IsFiniteSet(faults)
    /\ write \in Writes
    /\ write.pc # "none" => stage = "analyze"

Books ==
    /\ ReporterInv(reporter) /\ ~reporter.asserted
    /\ reporter.holding <=> write.pc = "held"

(* The faults are accounted for: an error has been printed or is held, or  *)
(* the expression it is in is about to be resolved again.                  *)
Account ==
    /\ faults # {} <=> \/ reporter.hadErrors \/ reporter.heldHadErrors
                       \/ write.pc \in {"format", "again"} /\ write.fault # 0
    /\ write.pc = "held" => (reporter.heldHadErrors <=> write.fault # 0)

Verdicts ==
    /\ exitCode = 2 <=> stage # "exit"
    /\ refused => exitCode = 1
    /\ exitCode = 0 => ~reporter.hadErrors
    /\ exitCode = 1 => refused \/ reporter.hadErrors

DriverInv == Shape /\ Books /\ Account /\ Verdicts

(* A fault that is found is new, and on the reporter's books.              *)
LEMMA FoundKeeps ==
    ASSUME Shape, NEW r, ReporterInv(r), NEW q \in Report(r, NewFault)
    PROVE  /\ NewFault \in Nat \ {0}
           /\ LET f == faults \cup {NewFault}
              IN  f # {} /\ f \in SUBSET Nat /\ IsFiniteSet(f)
           /\ Emitted(r, q)
<1>1. NewFault \in Nat \ {0}
  BY FS_CardinalityType DEF Shape, NewFault
<1>2. IsFiniteSet(faults \cup {NewFault})
  BY FS_AddElement DEF Shape
<1>3. QED BY <1>1, <1>2, ReportKeeps DEF Shape

(* What is held counts only while messages are held.                       *)
LEMMA NothingHeld ==
    ASSUME NEW r, ReporterInv(r), ~r.holding
    PROVE  ~r.heldHadErrors
<1>1. Errors(<<>>) = {}
  BY DEF Errors
<1>2. QED BY <1>1 DEF ReporterInv, Reporters

LEMMA DriverInit == Init => DriverInv
<1> SUFFICES ASSUME Init PROVE DriverInv
  OBVIOUS
<1>1. <<>> \in Seq(Messages) /\ Errors(<<>>) = {}
  BY DEF Errors
<1>2. ReporterInv(NewReporter)
  BY <1>1 DEF ReporterInv, NewReporter, Reporters
<1>3. IsFiniteSet({})
  BY FS_EmptySet
<1>4. Shape
  BY <1>3 DEF Init, Shape, Stages, Writes, NoWrite
<1>5. Books
  BY <1>2 DEF Init, Books, NoWrite, NewReporter
<1>6. Account
  BY DEF Init, Account, NoWrite, NewReporter
<1>7. Verdicts
  BY DEF Init, Verdicts, NewReporter
<1>8. QED BY <1>4, <1>5, <1>6, <1>7 DEF DriverInv

LEMMA DriverStep == DriverInv /\ [Next]_vars => DriverInv'
<1> SUFFICES ASSUME DriverInv, [Next]_vars PROVE DriverInv'
  OBVIOUS
<1> USE DEF DriverInv
<1> DEFINE FoundSomething(r) ==
      /\ NewFault \in Nat \ {0} /\ Emitted(r, reporter')
      /\ faults' # {} /\ faults' \in SUBSET Nat /\ IsFiniteSet(faults')
<1>1. ReporterInv(reporter) /\ ~reporter.asserted
  BY DEF Books
<1>2. ASSUME NEW r, ReporterInv(r), Found(r) PROVE FoundSomething(r)
  BY <1>2, FoundKeeps DEF Found
<1>3. ASSUME FoundByFrontEnd PROVE FoundSomething(reporter)
  BY <1>1, <1>3, FoundKeeps DEF FoundByFrontEnd, Report
<1>4. ~reporter.holding => ~reporter.heldHadErrors
  BY <1>1, NothingHeld
<1> HIDE DEF FoundSomething
<1>5. CASE DumpOption \/ Refuse \/ Accept \/ EndLex
  <2>1. reporter' = reporter /\ faults' = faults /\ write' = write
    BY <1>5 DEF DumpOption, Refuse, Accept, EndLex
  <2>2. Shape'
    BY <1>5, <2>1 DEF DumpOption, Refuse, Accept, EndLex, Exit, Shape, Stages
  <2>3. Books' /\ Account'
    BY <2>1 DEF Books, Account
  <2>4. Verdicts'
    BY <1>5, <2>1 DEF DumpOption, Refuse, Accept, EndLex, Exit, Verdicts
  <2>5. QED BY <2>2, <2>3, <2>4
<1>6. CASE NonAscii
  <2>1. CASE FoundByFrontEnd /\ Exit(1)
    <3>1. FoundSomething(reporter) /\ dump' = dump /\ refused' = refused /\ write' = write
          /\ stage = "ascii"
      BY <1>3, <1>6, <2>1 DEF NonAscii
    <3>2. Shape'
      BY <2>1, <3>1 DEF FoundSomething, Exit, Shape, Stages
    <3>3. Books' /\ Account' /\ Verdicts'
      BY <2>1, <3>1, <1>4 DEF FoundSomething, Emitted, Exit, Shape, Books, Account, Verdicts
    <3>4. QED BY <3>2, <3>3
  <2>2. CASE stage' = "lex" /\ UNCHANGED <<exitCode, reporter, faults>>
    BY <1>6, <2>2 DEF NonAscii, Shape, Books, Account, Verdicts, Stages
  <2>3. QED BY <1>6, <2>1, <2>2 DEF NonAscii
<1>7. CASE LexError \/ Parse
  <2>1. /\ dump' = dump /\ refused' = refused /\ exitCode' = exitCode /\ write' = write
        /\ stage \in {"lex", "parse"} /\ stage' \in {"lex", "parsed"}
        /\ FoundByFrontEnd \/ UNCHANGED <<reporter, faults>>
    BY <1>7 DEF LexError, Parse, FoundByFrontEnd
  <2>2. CASE FoundByFrontEnd
    <3>1. FoundSomething(reporter)
      BY <1>3, <2>2
    <3>2. Shape'
      BY <2>1, <3>1 DEF FoundSomething, Shape, Stages
    <3>3. Books' /\ Account' /\ Verdicts'
      BY <2>1, <3>1, <1>4 DEF FoundSomething, Emitted, Shape, Books, Account, Verdicts
    <3>4. QED BY <3>2, <3>3
  <2>3. CASE UNCHANGED <<reporter, faults>>
    BY <2>1, <2>3 DEF Shape, Books, Account, Verdicts, Stages
  <2>4. QED BY <2>1, <2>2, <2>3
<1>8. CASE CheckErrors
  BY <1>4, <1>8 DEF CheckErrors, Exit, Shape, Books, Account, Verdicts, Stages
<1>9. CASE OtherConstruct \/ RestFault
  BY <1>1, <1>2, <1>4, <1>9 DEF FoundSomething, Emitted, OtherConstruct, RestFault, StageKept,
        Analyzing, Shape, Books, Account, Verdicts
<1>10. CASE EndAnalysis
  BY <1>4, <1>10 DEF EndAnalysis, Exit, Analyzing, Shape, Books, Account, Verdicts, Stages
<1>11. CASE EndWrite
  BY <1>4, <1>11 DEF EndWrite, StageKept, Analyzing, NoWrite, Writes, Shape, Books, Account,
        Verdicts
<1>12. CASE HoldFirstParameter
  <2> DEFINE r == Hold(reporter)
  <2>1. ~reporter.holding /\ ~reporter.heldHadErrors
    BY <1>4, <1>12 DEF HoldFirstParameter, Analyzing, Books
  <2>2. /\ ReporterInv(r) /\ r.holding /\ ~r.asserted
        /\ r.hadErrors = reporter.hadErrors /\ ~r.heldHadErrors
    BY <1>1, <2>1, HoldKeeps
  <2> HIDE DEF r
  <2>3. PICK ln \in BOOLEAN, type \in {"file", "text", "value"}, bad \in BOOLEAN :
          /\ IF bad THEN Found(r) ELSE reporter' = r /\ UNCHANGED faults
          /\ write' = [pc |-> "held", ln |-> ln, type |-> type,
                        fault |-> IF bad THEN NewFault ELSE 0]
    BY <1>12 DEF HoldFirstParameter, r
  <2>4. StageKept /\ Analyzing("none")
    BY <1>12 DEF HoldFirstParameter
  <2>5. CASE bad
    <3>1. FoundSomething(r)
      BY <1>2, <2>2, <2>3, <2>5
    <3>2. write' = [pc |-> "held", ln |-> ln, type |-> type, fault |-> NewFault]
      BY <2>3, <2>5
    <3>3. QED BY <3>1, <3>2, <2>2, <2>4 DEF FoundSomething, Emitted, StageKept, Analyzing,
                     Writes, Shape, Books, Account, Verdicts
  <2>6. CASE ~bad
    <3>1. reporter' = r /\ faults' = faults
          /\ write' = [pc |-> "held", ln |-> ln, type |-> type, fault |-> 0]
      BY <2>3, <2>6
    <3>2. QED BY <3>1, <2>1, <2>2, <2>4 DEF StageKept, Analyzing, Writes, Shape, Books,
                     Account, Verdicts
  <2>7. QED BY <2>5, <2>6
<1>13. CASE Target
  <2>1. reporter.holding /\ StageKept /\ faults' = faults /\ write.pc = "held"
        /\ write' = [write EXCEPT !.pc = "format"] /\ reporter' = UnholdDiscard(reporter)
    BY <1>13 DEF Target, Analyzing, Books
  <2>2. /\ ReporterInv(reporter') /\ ~reporter'.holding /\ ~reporter'.asserted
        /\ reporter'.hadErrors = reporter.hadErrors
    BY <1>1, <2>1, UnholdDiscardKeeps
  <2>3. ~reporter'.heldHadErrors
    BY <2>2, NothingHeld
  <2>4. QED BY <2>1, <2>2, <2>3 DEF StageKept, Writes, Shape, Books, Account, Verdicts
<1>14. CASE TargetFormat
  BY <1>1, <1>2, <1>4, <1>14 DEF FoundSomething, Emitted, TargetFormat, StageKept, Analyzing,
        Writes, Shape, Books, Account, Verdicts
<1>15. CASE TargetAgain
  <2>1. StageKept /\ Analyzing("again") /\ write \in Writes /\ ~reporter.holding
    BY <1>15 DEF TargetAgain, Analyzing, Books, Shape
  <2>2. CASE Found(reporter) /\ write' = NoWrite
    BY <1>1, <1>2, <1>4, <2>1, <2>2 DEF FoundSomething, Emitted, StageKept, Analyzing, NoWrite,
        Writes, Shape, Books, Account, Verdicts
  <2>3. CASE /\ write.fault = 0 /\ reporter' = reporter /\ faults' = faults
             /\ write' = [write EXCEPT !.pc = "rest"]
    BY <1>1, <1>4, <2>1, <2>3 DEF StageKept, Analyzing, Writes, Shape, Books, Account, Verdicts
  <2>4. CASE /\ write.fault # 0 /\ reporter' \in Report(reporter, write.fault)
             /\ faults' = faults /\ write' = [write EXCEPT !.pc = "rest"]
    <3>1. write.fault \in Nat
      BY <2>1 DEF Writes
    <3>2. Emitted(reporter, reporter')
      BY <1>1, <2>4, <3>1, ReportKeeps
    <3>3. QED BY <1>1, <1>4, <2>1, <2>4, <3>2 DEF Emitted, StageKept, Analyzing, Writes, Shape,
                     Books, Account, Verdicts
  <2>5. QED BY <1>15, <2>2, <2>3, <2>4 DEF TargetAgain
<1>16. CASE Value
  <2> DEFINE r == Unhold(reporter)
  <2>1. reporter.holding /\ StageKept /\ Analyzing("held")
    BY <1>16 DEF Value, Analyzing, Books
  <2>2. /\ ReporterInv(r) /\ ~r.holding /\ ~r.asserted
        /\ (r.hadErrors <=> reporter.hadErrors \/ reporter.heldHadErrors)
    BY <1>1, <2>1, UnholdKeeps
  <2>3. ~r.heldHadErrors
    BY <2>2, NothingHeld
  <2> HIDE DEF r
  <2>4. CASE reporter' = r /\ faults' = faults /\ write' = [write EXCEPT !.pc = "rest"]
    BY <2>1, <2>2, <2>3, <2>4 DEF StageKept, Analyzing, Writes, Shape, Books, Account, Verdicts
  <2>5. CASE Found(r) /\ write' = NoWrite
    <3>1. FoundSomething(r)
      BY <1>2, <2>2, <2>5
    <3>2. QED BY <2>1, <2>2, <2>3, <2>5, <3>1 DEF FoundSomething, Emitted, StageKept, Analyzing,
                     NoWrite, Writes, Shape, Books, Account, Verdicts
  <2>6. QED BY <1>16, <2>4, <2>5 DEF Value, r
<1>17. CASE UNCHANGED vars
  <2>1. Shape' /\ Verdicts'
    BY <1>17 DEF vars, Shape, Verdicts
  <2>2. Books' /\ Account'
    BY <1>17 DEF vars, Books, Account
  <2>3. QED BY <2>1, <2>2
<1>18. QED
  BY <1>5, <1>6, <1>7, <1>8, <1>9, <1>10, <1>11, <1>12, <1>13, <1>14, <1>15, <1>16,
     <1>17 DEF Next, Done

LEMMA DriverInvariant == Spec => []DriverInv
<1>1. Init => DriverInv
  BY DriverInit
<1>2. DriverInv /\ [Next]_vars => DriverInv'
  BY DriverStep
<1>3. QED BY <1>1, <1>2, PTL DEF Spec

(* main(), the Reporter and the resolution of a write statement keep to    *)
(* the states they are declared to have.                                   *)
THEOREM DriverTypeCorrect == Spec => []TypeOK
<1>1. DriverInv => TypeOK
  BY DEF DriverInv, Shape, Books, ReporterInv, TypeOK
<1>2. QED BY <1>1, DriverInvariant, PTL

(* No assertion of the Reporter fails, and nothing is held outside the     *)
(* first parameter of a write statement.                                   *)
THEOREM DriverHoldDiscipline == Spec => []HoldDiscipline
<1>1. DriverInv => HoldDiscipline
  BY NothingHeld DEF DriverInv, Books, ReporterInv, HoldDiscipline
<1>2. QED BY <1>1, DriverInvariant, PTL

(* hadErrors() is what the user has seen.                                  *)
THEOREM DriverHadErrors == Spec => []HadErrorsIsWhatWasShown
<1>1. DriverInv => HadErrorsIsWhatWasShown
  BY DEF DriverInv, Books, ReporterInv, HadErrorsIsWhatWasShown
<1>2. QED BY <1>1, DriverInvariant, PTL

(* The exit code is 0 exactly when the source has no fault, although       *)
(* messages about faults are thrown away on the way.                       *)
THEOREM DriverVerdict == Spec => []AcceptedIffFaultless
<1>1. ASSUME DriverInv, stage = "exit", ~refused PROVE exitCode = 0 <=> faults = {}
  <2>1. write.pc = "none" /\ ~reporter.holding /\ ReporterInv(reporter)
    BY <1>1 DEF DriverInv, Shape, Books, Writes
  <2>2. ~reporter.heldHadErrors
    BY <2>1, NothingHeld
  <2>3. faults # {} <=> reporter.hadErrors
    BY <1>1, <2>1, <2>2 DEF DriverInv, Account
  <2>4. exitCode = 1 <=> reporter.hadErrors
    BY <1>1 DEF DriverInv, Shape, Verdicts
  <2>5. QED BY <1>1, <2>3, <2>4 DEF DriverInv, Shape, Verdicts
<1>2. DriverInv => AcceptedIffFaultless
  BY <1>1 DEF AcceptedIffFaultless
<1>3. QED BY <1>2, DriverInvariant, PTL

(* Neither the parser nor the analyzer starts after an error.              *)
THEOREM DriverStages == Spec => StagesStopAtErrors
<1>1. ASSUME DriverInv, [Next]_vars, stage' # stage, stage' \in {"parse", "analyze"}
      PROVE  reporter.printed = <<>>
  <2>1. CheckErrors
    BY <1>1 DEF Next, vars, DumpOption, Refuse, Accept, NonAscii, LexError, EndLex, Parse,
         OtherConstruct, EndAnalysis, HoldFirstParameter, Target, TargetFormat, TargetAgain,
         Value, RestFault, EndWrite, Done, StageKept, Exit
  <2>2. ~reporter.hadErrors
    BY <1>1, <2>1 DEF CheckErrors, Exit
  <2>3. QED BY <1>1, <2>2 DEF DriverInv, Books, ReporterInv
<1>2. DriverInv /\ [Next]_vars
        => [stage' # stage /\ stage' \in {"parse", "analyze"} => reporter.printed = <<>>]_vars
  BY <1>1
<1>3. QED BY <1>2, DriverInvariant, PTL DEF Spec, StagesStopAtErrors

-----------------------------------------------------------------------------
(* Each fault is shown once.  The second invariant follows a fault through *)
(* a write statement: what its first parameter reported is either held, or *)
(* was thrown away and not shown, when it is reported again.               *)

AllMessages(r) == r.printed \o r.held
ErrorAbouts(messages) == {messages[i].about : i \in Errors(messages)}
Once(messages) ==
    \A i, j \in Errors(messages) : messages[i].about = messages[j].about => i = j

Numbered == \A f \in faults : f \in 1 .. Cardinality(faults)
Reported ==
    /\ Once(AllMessages(reporter)) /\ ErrorAbouts(AllMessages(reporter)) \subseteq faults
    /\ write.fault \in faults \cup {0}
    /\ write.pc \in {"held", "format", "again"} => write.fault \notin ErrorAbouts(reporter.printed)

(* An appended error is one more fault, an appended note is not.           *)
LEMMA OnceAppend ==
    ASSUME NEW s \in Seq(Messages), NEW m \in Messages, Once(s)
    PROVE  LET t == Append(s, m)
           IN  /\ m.kind # "error" => Once(t) /\ ErrorAbouts(t) = ErrorAbouts(s)
               /\ m.kind = "error" /\ m.about \notin ErrorAbouts(s)
                     => Once(t) /\ ErrorAbouts(t) = ErrorAbouts(s) \cup {m.about}
<1> DEFINE t == Append(s, m)
<1>1. t \in Seq(Messages) /\ Len(t) = Len(s) + 1 /\ t[Len(s) + 1] = m
      /\ \A i \in 1 .. Len(s) : t[i] = s[i]
  OBVIOUS
<1>2. DOMAIN s = 1 .. Len(s) /\ DOMAIN t = 1 .. Len(s) + 1 /\ Len(s) \in Nat
  BY <1>1
<1>3. ASSUME m.kind # "error" PROVE Errors(t) = Errors(s)
  BY <1>1, <1>2, <1>3 DEF Errors
<1>4. ASSUME m.kind = "error" PROVE Errors(t) = Errors(s) \cup {Len(s) + 1}
  BY <1>1, <1>2, <1>4 DEF Errors
<1>5. \A i \in Errors(s) : t[i] = s[i] /\ i # Len(s) + 1
  BY <1>1, <1>2 DEF Errors
<1> HIDE DEF t
<1>6. ASSUME m.kind # "error" PROVE Once(t) /\ ErrorAbouts(t) = ErrorAbouts(s)
  BY <1>3, <1>5, <1>6 DEF Once, ErrorAbouts
<1>7. ASSUME m.kind = "error", m.about \notin ErrorAbouts(s)
      PROVE  Once(t) /\ ErrorAbouts(t) = ErrorAbouts(s) \cup {m.about}
  <2>1. \A i \in Errors(s) : s[i].about # m.about
    BY <1>7 DEF ErrorAbouts
  <2>2. Errors(t) = Errors(s) \cup {Len(s) + 1} /\ t[Len(s) + 1] = m
    BY <1>1, <1>4, <1>7
  <2>3. Once(t)
    BY <1>5, <2>1, <2>2 DEF Once
  <2>4. ErrorAbouts(t) = ErrorAbouts(s) \cup {m.about}
    BY <1>5, <2>2 DEF ErrorAbouts
  <2>5. QED BY <2>3, <2>4
<1>8. QED BY <1>6, <1>7 DEF t

(* Appending to the second of two sequences.                               *)
LEMMA ConcatAppend ==
    ASSUME NEW s \in Seq(Messages), NEW t \in Seq(Messages), NEW m \in Messages
    PROVE  s \o Append(t, m) = Append(s \o t, m)
<1> DEFINE u == s \o Append(t, m)
           v == Append(s \o t, m)
<1>1. Append(t, m) \in Seq(Messages) /\ Len(Append(t, m)) = Len(t) + 1
      /\ s \o t \in Seq(Messages) /\ Len(s \o t) = Len(s) + Len(t)
  OBVIOUS
<1>2. u \in Seq(Messages) /\ v \in Seq(Messages)
      /\ Len(u) = Len(s) + Len(t) + 1 /\ Len(v) = Len(s) + Len(t) + 1
  BY <1>1
<1>3. ASSUME NEW i \in 1 .. Len(u) PROVE u[i] = v[i]
  BY <1>1, <1>2
<1> HIDE DEF u, v
<1>4. u = v
  BY <1>2, <1>3, SeqEqual
<1>5. QED BY <1>4 DEF u, v

(* A message goes to the end of all messages, wherever it is kept.         *)
LEMMA EmitAppends ==
    ASSUME NEW r, ReporterInv(r), NEW m \in Messages
    PROVE  LET q == Emit(r, m)
           IN  /\ AllMessages(q) = Append(AllMessages(r), m)
               /\ AllMessages(r) \in Seq(Messages)
               /\ r.holding => q.printed = r.printed
<1>1. r \in Reporters /\ r.printed \in Seq(Messages) /\ r.held \in Seq(Messages)
  BY DEF ReporterInv, Reporters
<1>2. CASE r.holding
  <2>1. Emit(r, m) = [r EXCEPT !.held = Append(r.held, m)]
    BY <1>1, <1>2 DEF Emit, Reporters
  <2>2. Emit(r, m).held = Append(r.held, m) /\ Emit(r, m).printed = r.printed
    BY <1>1, <2>1 DEF Reporters
  <2>3. r.printed \o Append(r.held, m) = Append(r.printed \o r.held, m)
    BY <1>1, ConcatAppend
  <2>4. QED BY <1>1, <2>2, <2>3 DEF AllMessages
<1>3. CASE ~r.holding
  <2>1. Emit(r, m) = [r EXCEPT !.printed = Append(r.printed, m)]
    BY <1>1, <1>3 DEF Emit, Reporters
  <2>2. Emit(r, m).held = <<>> /\ Emit(r, m).printed = Append(r.printed, m) /\ r.held = <<>>
    BY <1>1, <1>3, <2>1 DEF Reporters, ReporterInv
  <2>3. \A s \in Seq(Messages) : s \o <<>> = s
    OBVIOUS
  <2>4. Append(r.printed, m) \in Seq(Messages)
    BY <1>1
  <2>5. QED BY <1>1, <1>3, <2>2, <2>3, <2>4 DEF AllMessages
<1>4. QED BY <1>2, <1>3

(* A report of a fault of which no message is there.                       *)
LEMMA ReportOnce ==
    ASSUME NEW r, ReporterInv(r), NEW f \in Nat, NEW q \in Report(r, f),
           Once(AllMessages(r)), f \notin ErrorAbouts(AllMessages(r))
    PROVE  /\ Once(AllMessages(q))
           /\ ErrorAbouts(AllMessages(q)) = ErrorAbouts(AllMessages(r)) \cup {f}
           /\ r.holding => q.printed = r.printed
<1> DEFINE e == Err(r, f)
           n == Note(e, f)
<1>1. /\ ErrorOf(f) \in Messages /\ ErrorOf(f).kind = "error" /\ ErrorOf(f).about = f
      /\ NoteOf(f) \in Messages /\ NoteOf(f).kind # "error"
  BY DEF ErrorOf, NoteOf, Messages
<1>2. Emitted(r, e)
  BY ErrKeeps
<1>3. e.printed = Emit(r, ErrorOf(f)).printed /\ e.held = Emit(r, ErrorOf(f)).held
  BY DEF Err, Emit, ReporterInv, Reporters
<1>4. AllMessages(e) = Append(AllMessages(r), ErrorOf(f)) /\ (r.holding => e.printed = r.printed)
      /\ AllMessages(r) \in Seq(Messages)
  BY <1>1, <1>3, EmitAppends DEF AllMessages
<1>5. Once(AllMessages(e)) /\ ErrorAbouts(AllMessages(e)) = ErrorAbouts(AllMessages(r)) \cup {f}
  BY <1>1, <1>4, OnceAppend
<1>6. ReporterInv(e) /\ e.holding = r.holding
  BY <1>2 DEF Emitted
<1> HIDE DEF e
<1>7. AllMessages(n) = Append(AllMessages(e), NoteOf(f)) /\ AllMessages(e) \in Seq(Messages)
      /\ (r.holding => n.printed = e.printed)
  BY <1>1, <1>6, EmitAppends DEF Note
<1>8. Once(AllMessages(n)) /\ ErrorAbouts(AllMessages(n)) = ErrorAbouts(AllMessages(e))
  BY <1>1, <1>5, <1>7, OnceAppend
<1>9. q = e \/ q = n
  BY DEF Report, e
<1>10. CASE q = e
  BY <1>10, <1>4, <1>5
<1>11. CASE q = n
  BY <1>11, <1>4, <1>5, <1>7, <1>8
<1>12. QED BY <1>9, <1>10, <1>11

(* When nothing is held, what there is has been printed.                   *)
LEMMA AllPrinted ==
    ASSUME NEW r, ReporterInv(r), ~r.holding
    PROVE  AllMessages(r) = r.printed
<1>1. r.held = <<>> /\ r.printed \in Seq(Messages)
  BY DEF ReporterInv, Reporters
<1>2. QED BY <1>1, ConcatEmptySeq DEF AllMessages

(* The printed errors are among all errors.                                *)
LEMMA OnceInPart ==
    ASSUME NEW s \in Seq(Messages), NEW t \in Seq(Messages), Once(s \o t)
    PROVE  Once(s) /\ ErrorAbouts(s) \subseteq ErrorAbouts(s \o t)
<1> DEFINE u == s \o t
<1>1. u \in Seq(Messages) /\ Len(u) = Len(s) + Len(t) /\ \A i \in 1 .. Len(s) : u[i] = s[i]
  OBVIOUS
<1>2. DOMAIN s = 1 .. Len(s) /\ DOMAIN u = 1 .. Len(s) + Len(t)
      /\ Len(s) \in Nat /\ Len(t) \in Nat
  BY <1>1
<1>3. \A i \in Errors(s) : i \in Errors(u) /\ u[i] = s[i]
  BY <1>1, <1>2 DEF Errors
<1> HIDE DEF u
<1>4. Once(u)
  BY DEF u
<1>5. QED BY <1>3, <1>4, ZenonT(40) DEF Once, ErrorAbouts, u

LEMMA PrintedIsPart ==
    ASSUME NEW r, ReporterInv(r), Once(AllMessages(r))
    PROVE  Once(r.printed) /\ ErrorAbouts(r.printed) \subseteq ErrorAbouts(AllMessages(r))
<1>1. r.held \in Seq(Messages) /\ r.printed \in Seq(Messages)
  BY DEF ReporterInv, Reporters
<1>2. QED BY <1>1, OnceInPart DEF AllMessages

(* A new fault has a number of its own, and the faults stay numbered.      *)
LEMMA NewFaultIsNew ==
    ASSUME Shape, Numbered
    PROVE  /\ NewFault \in Nat \ {0} /\ NewFault \notin faults /\ 0 \notin faults
           /\ \A f \in faults \cup {NewFault} : f \in 1 .. Cardinality(faults \cup {NewFault})
<1>1. Cardinality(faults) \in Nat /\ NewFault = Cardinality(faults) + 1
  BY FS_CardinalityType DEF Shape, NewFault
<1>2. NewFault \notin faults
  BY <1>1 DEF Numbered
<1>3. Cardinality(faults \cup {NewFault}) = Cardinality(faults) + 1
  BY <1>1, <1>2, FS_AddElement DEF Shape
<1>4. QED BY <1>1, <1>2, <1>3 DEF Numbered

LEMMA OnceInit == Init => Numbered /\ Reported
<1> SUFFICES ASSUME Init PROVE Numbered /\ Reported
  OBVIOUS
<1>1. faults = {} /\ write.fault = 0 /\ write.pc = "none"
      /\ reporter.printed = <<>> /\ reporter.held = <<>>
  BY DEF Init, NewReporter, NoWrite
<1>2. AllMessages(reporter) = <<>>
  BY <1>1 DEF AllMessages
<1>3. Errors(<<>>) = {}
  BY DEF Errors
<1>4. QED BY <1>1, <1>2, <1>3 DEF Numbered, Reported, Once, ErrorAbouts

LEMMA OnceStep ==
    DriverInv /\ Numbered /\ Reported /\ [Next]_vars => Numbered' /\ Reported'
<1> SUFFICES ASSUME DriverInv, Numbered, Reported, [Next]_vars PROVE Numbered' /\ Reported'
  OBVIOUS
<1> DEFINE all == AllMessages(reporter)
           Fresh(r) == /\ Once(AllMessages(reporter'))
                       /\ ErrorAbouts(AllMessages(reporter'))
                             = ErrorAbouts(AllMessages(r)) \cup {NewFault}
                       /\ r.holding => reporter'.printed = r.printed
                       /\ ~r.holding => AllMessages(reporter') = reporter'.printed
                       /\ faults' = faults \cup {NewFault}
<1>1. /\ ReporterInv(reporter) /\ (reporter.holding <=> write.pc = "held")
      /\ Shape /\ write \in Writes
  BY DEF DriverInv, Books, Shape
<1>2. NewFault \in Nat \ {0} /\ NewFault \notin faults /\ 0 \notin faults
      /\ \A f \in faults \cup {NewFault} : f \in 1 .. Cardinality(faults \cup {NewFault})
  BY <1>1, NewFaultIsNew
<1>3. Once(all) /\ ErrorAbouts(all) \subseteq faults
  BY DEF Reported
<1>4. ASSUME NEW r, ReporterInv(r), Once(AllMessages(r)),
             ErrorAbouts(AllMessages(r)) \subseteq faults,
             reporter' \in Report(r, NewFault), faults' = faults \cup {NewFault}
      PROVE  Fresh(r) /\ Numbered'
  <2>1. NewFault \in Nat /\ NewFault \notin ErrorAbouts(AllMessages(r))
    BY <1>2, <1>4
  <2>2. /\ Once(AllMessages(reporter'))
        /\ ErrorAbouts(AllMessages(reporter')) = ErrorAbouts(AllMessages(r)) \cup {NewFault}
        /\ r.holding => reporter'.printed = r.printed
    BY <1>4, <2>1, ReportOnce
  <2>3. ReporterInv(reporter') /\ reporter'.holding = r.holding
    BY <1>4, <2>1, ReportKeeps DEF Emitted
  <2>4. ~r.holding => AllMessages(reporter') = reporter'.printed
    BY <2>3, AllPrinted
  <2>5. Numbered'
    BY <1>2, <1>4 DEF Numbered
  <2>6. QED BY <1>4, <2>2, <2>4, <2>5
<1>5. ASSUME NEW r, ReporterInv(r), Once(AllMessages(r)),
             ErrorAbouts(AllMessages(r)) \subseteq faults, Found(r)
      PROVE  Fresh(r) /\ Numbered'
  <2>1. reporter' \in Report(r, NewFault) /\ faults' = faults \cup {NewFault}
    BY <1>5 DEF Found
  <2>2. QED BY <1>4, <1>5, <2>1
<1>6. ASSUME FoundByFrontEnd PROVE Fresh(reporter) /\ Numbered'
  <2>1. reporter' \in Report(reporter, NewFault) /\ faults' = faults \cup {NewFault}
    BY <1>6 DEF FoundByFrontEnd, Report
  <2>2. QED BY <1>1, <1>3, <1>4, <2>1
<1>7. ASSUME faults' = faults PROVE Numbered'
  BY <1>7 DEF Numbered
<1>8. ASSUME Found(reporter) PROVE Fresh(reporter) /\ Numbered'
  BY <1>1, <1>3, <1>5, <1>8
<1>9. ~reporter.holding => all = reporter.printed
  BY <1>1, AllPrinted
<1>10. write.fault \in faults \cup {0}
       /\ (write.pc \in {"held", "format", "again"}
              => write.fault \notin ErrorAbouts(reporter.printed))
  BY DEF Reported
<1> HIDE DEF Fresh, all
<1>11. CASE UNCHANGED <<reporter, faults, write>>
  BY <1>7, <1>11 DEF Reported, AllMessages
<1>12. CASE (FoundByFrontEnd \/ Found(reporter)) /\ write' = write
            /\ write.pc \in {"none", "rest"}
  <2>1. Fresh(reporter) /\ Numbered'
    BY <1>6, <1>8, <1>12
  <2>2. QED BY <1>3, <1>10, <1>12, <2>1 DEF Fresh, Reported, all
<1>13. CASE HoldFirstParameter
  <2> DEFINE r == Hold(reporter)
  <2>1. ~reporter.holding
    BY <1>1, <1>13 DEF HoldFirstParameter, Analyzing
  <2>2. ReporterInv(r) /\ r.holding /\ r.printed = reporter.printed
    BY <1>1, <2>1, HoldKeeps
  <2>3. r.held = reporter.held
    BY <1>1 DEF Hold, ReporterInv, Reporters
  <2>4. AllMessages(r) = all /\ all = reporter.printed
    BY <1>9, <2>1, <2>2, <2>3 DEF AllMessages, all
  <2> HIDE DEF r
  <2>5. PICK ln \in BOOLEAN, type \in {"file", "text", "value"}, bad \in BOOLEAN :
          /\ IF bad THEN Found(r) ELSE reporter' = r /\ UNCHANGED faults
          /\ write' = [pc |-> "held", ln |-> ln, type |-> type,
                        fault |-> IF bad THEN NewFault ELSE 0]
    BY <1>13 DEF HoldFirstParameter, r
  <2>6. CASE bad
    <3>1. Fresh(r) /\ Numbered'
      BY <1>3, <1>5, <2>2, <2>4, <2>5, <2>6
    <3>2. write'.pc = "held" /\ write'.fault = NewFault
      BY <2>5, <2>6
    <3>3. NewFault \notin ErrorAbouts(reporter'.printed)
      BY <1>2, <1>3, <2>2, <2>4, <3>1 DEF Fresh
    <3>4. QED BY <1>3, <2>4, <3>1, <3>2, <3>3 DEF Fresh, Reported
  <2>7. CASE ~bad
    <3>1. reporter' = r /\ faults' = faults /\ write'.fault = 0
      BY <2>5, <2>7
    <3>2. 0 \notin ErrorAbouts(reporter'.printed)
      BY <1>2, <1>3, <2>2, <2>4, <3>1
    <3>3. QED BY <1>3, <1>7, <2>4, <3>1, <3>2 DEF Reported
  <2>8. QED BY <2>6, <2>7
<1>14. CASE Target
  <2>1. reporter.holding /\ faults' = faults /\ write.pc = "held"
        /\ reporter' = UnholdDiscard(reporter) /\ write' = [write EXCEPT !.pc = "format"]
    BY <1>1, <1>14 DEF Target, Analyzing
  <2>2. ReporterInv(reporter') /\ ~reporter'.holding /\ reporter'.printed = reporter.printed
    BY <1>1, <2>1, UnholdDiscardKeeps
  <2>3. AllMessages(reporter') = reporter.printed
    BY <2>2, AllPrinted
  <2>4. Once(reporter.printed) /\ ErrorAbouts(reporter.printed) \subseteq faults
    BY <1>1, <1>3, PrintedIsPart DEF all
  <2>5. write'.fault = write.fault
    BY <1>1, <2>1 DEF Writes
  <2>6. QED BY <1>7, <1>10, <2>1, <2>2, <2>3, <2>4, <2>5 DEF Reported
<1>15. CASE TargetFormat
  <2>1. write.pc = "format" /\ ~reporter.holding /\ write' = [write EXCEPT !.pc = "again"]
    BY <1>1, <1>15 DEF TargetFormat, Analyzing
  <2>2. write'.fault = write.fault /\ write'.pc = "again"
    BY <1>1, <2>1 DEF Writes
  <2>3. CASE Found(reporter)
    <3>1. Fresh(reporter) /\ Numbered'
      BY <1>8, <2>3
    <3>2. write.fault # NewFault
      BY <1>2, <1>10
    <3>3. write.fault \notin ErrorAbouts(reporter'.printed)
      BY <1>9, <1>10, <2>1, <3>1, <3>2 DEF Fresh, all
    <3>4. QED BY <1>3, <1>10, <2>2, <3>1, <3>3 DEF Fresh, Reported, all
  <2>4. CASE UNCHANGED <<reporter, faults>>
    <3>1. AllMessages(reporter') = all
      BY <2>4 DEF AllMessages, all
    <3>2. QED BY <1>3, <1>7, <1>10, <2>1, <2>2, <2>4, <3>1 DEF Reported
  <2>5. QED BY <1>15, <2>3, <2>4 DEF TargetFormat
<1>16. CASE TargetAgain
  <2>1. write.pc = "again" /\ ~reporter.holding
    BY <1>1, <1>16 DEF TargetAgain, Analyzing
  <2>2. CASE Found(reporter) /\ write' = NoWrite
    <3>1. Fresh(reporter) /\ Numbered'
      BY <1>8, <2>2
    <3>2. write'.fault = 0 /\ write'.pc = "none"
      BY <2>2 DEF NoWrite
    <3>3. QED BY <1>3, <3>1, <3>2 DEF Fresh, Reported, all
  <2>3. CASE write.fault = 0 /\ reporter' = reporter /\ faults' = faults
             /\ write' = [write EXCEPT !.pc = "rest"]
    <3>1. write'.fault = 0 /\ write'.pc = "rest" /\ AllMessages(reporter') = all
      BY <1>1, <2>3 DEF Writes, AllMessages, all
    <3>2. QED BY <1>3, <1>7, <2>3, <3>1 DEF Reported
  <2>4. CASE write.fault # 0 /\ reporter' \in Report(reporter, write.fault)
             /\ faults' = faults /\ write' = [write EXCEPT !.pc = "rest"]
    <3>1. write.fault \in Nat /\ write.fault \in faults
          /\ write'.fault = write.fault /\ write'.pc = "rest"
      BY <1>1, <1>10, <2>4 DEF Writes
    <3>2. write.fault \notin ErrorAbouts(all)
      BY <1>9, <1>10, <2>1
    <3>3. /\ Once(AllMessages(reporter'))
          /\ ErrorAbouts(AllMessages(reporter')) = ErrorAbouts(all) \cup {write.fault}
      BY <1>1, <1>3, <2>4, <3>1, <3>2, ReportOnce DEF all
    <3>4. QED BY <1>3, <1>7, <2>4, <3>1, <3>3 DEF Reported
  <2>5. QED BY <1>16, <2>2, <2>3, <2>4 DEF TargetAgain
<1>17. CASE Value
  <2> DEFINE r == Unhold(reporter)
  <2>1. reporter.holding
    BY <1>1, <1>17 DEF Value, Analyzing
  <2>2. ReporterInv(r) /\ ~r.holding
    BY <1>1, <2>1, UnholdKeeps
  <2>3. r.printed = all
    BY <1>1 DEF Unhold, UnholdDiscard, ReporterInv, Reporters, AllMessages, all
  <2>4. AllMessages(r) = all
    BY <2>2, <2>3, AllPrinted
  <2> HIDE DEF r
  <2>5. CASE reporter' = r /\ faults' = faults /\ write' = [write EXCEPT !.pc = "rest"]
    <3>1. write'.fault = write.fault /\ write'.pc = "rest"
      BY <1>1, <2>5 DEF Writes
    <3>2. QED BY <1>3, <1>7, <1>10, <2>4, <2>5, <3>1 DEF Reported
  <2>6. CASE Found(r) /\ write' = NoWrite
    <3>1. Fresh(r) /\ Numbered'
      BY <1>3, <1>5, <2>2, <2>4, <2>6
    <3>2. write'.fault = 0 /\ write'.pc = "none"
      BY <2>6 DEF NoWrite
    <3>3. QED BY <1>3, <2>4, <3>1, <3>2 DEF Fresh, Reported
  <2>7. QED BY <1>17, <2>5, <2>6 DEF Value, r
<1>18. CASE EndWrite
  <2>1. write'.fault = 0 /\ write'.pc = "none" /\ reporter' = reporter /\ faults' = faults
    BY <1>18 DEF EndWrite, NoWrite
  <2>2. QED BY <1>3, <1>7, <2>1 DEF Reported, all
<1>19. CASE \/ DumpOption \/ Refuse \/ Accept \/ NonAscii \/ LexError \/ EndLex \/ Parse
            \/ CheckErrors \/ OtherConstruct \/ EndAnalysis \/ RestFault \/ Done
            \/ UNCHANGED vars
  <2>1. write' = write
    BY <1>19 DEF DumpOption, Refuse, Accept, NonAscii, LexError, EndLex, Parse, CheckErrors,
         OtherConstruct, EndAnalysis, RestFault, Done, vars
  <2>2. \/ UNCHANGED <<reporter, faults>>
        \/ FoundByFrontEnd /\ write.pc = "none"
        \/ Found(reporter) /\ write.pc \in {"none", "rest"}
    BY <1>1, <1>19 DEF DumpOption, Refuse, Accept, NonAscii, LexError, EndLex, Parse,
         CheckErrors, OtherConstruct, EndAnalysis, RestFault, Done, vars, Shape, Analyzing
  <2>3. QED BY <1>11, <1>12, <2>1, <2>2
<1>20. QED
  BY <1>13, <1>14, <1>15, <1>16, <1>17, <1>18, <1>19 DEF Next

(* No fault is shown to the user twice, although the target of a write     *)
(* statement is resolved twice and its messages may have been held.        *)
THEOREM DriverShowsOnce == Spec => []NoFaultShownTwice
<1>1. Init => DriverInv /\ Numbered /\ Reported
  BY DriverInit, OnceInit
<1>2. (DriverInv /\ Numbered /\ Reported) /\ [Next]_vars
         => (DriverInv /\ Numbered /\ Reported)'
  BY DriverStep, OnceStep
<1>3. Reported => NoFaultShownTwice
  BY DEF Reported, Once, AllMessages, NoFaultShownTwice
<1>4. QED BY <1>1, <1>2, <1>3, PTL DEF Spec

-----------------------------------------------------------------------------
(* Refinement.                                                             *)

(* What has been shown stays shown.                                        *)
LEMMA ShownGrows == DriverInv /\ [Next]_vars => Shown \subseteq Shown'
<1> SUFFICES ASSUME DriverInv, [Next]_vars PROVE Shown \subseteq Shown'
  OBVIOUS
<1> DEFINE Grows == Abouts(reporter.printed) \subseteq Abouts(reporter'.printed)
<1>1. ReporterInv(reporter) /\ (reporter.holding <=> write.pc = "held") /\ Shape
  BY DEF DriverInv, Books
<1>2. ASSUME NEW r, ReporterInv(r), Abouts(reporter.printed) \subseteq Abouts(r.printed),
             Found(r)
      PROVE  Grows
  BY <1>2, <1>1, FoundKeeps DEF Found, Emitted
<1>3. ASSUME FoundByFrontEnd PROVE Grows
  BY <1>3, <1>1, FoundKeeps DEF FoundByFrontEnd, Report, Emitted
<1>4. ASSUME reporter' = reporter PROVE Grows
  BY <1>4
<1>5. ASSUME Found(reporter) PROVE Grows
  BY <1>1, <1>2, <1>5
<1> HIDE DEF Grows
<1>6. ASSUME \/ DumpOption \/ Refuse \/ Accept \/ NonAscii \/ LexError \/ EndLex \/ Parse
             \/ CheckErrors \/ OtherConstruct \/ EndAnalysis \/ TargetFormat \/ RestFault
             \/ EndWrite \/ Done \/ UNCHANGED vars
      PROVE Grows
  BY <1>3, <1>4, <1>5, <1>6 DEF DumpOption, Refuse, Accept, NonAscii, LexError, EndLex, Parse,
       CheckErrors, OtherConstruct, EndAnalysis, TargetFormat, RestFault, EndWrite, Done, vars
<1>7. ASSUME HoldFirstParameter PROVE Grows
  <2>1. ~reporter.holding
    BY <1>1, <1>7 DEF HoldFirstParameter, Analyzing
  <2>2. ReporterInv(Hold(reporter)) /\ Hold(reporter).printed = reporter.printed
    BY <1>1, <2>1, HoldKeeps
  <2>3. Found(Hold(reporter)) \/ reporter' = Hold(reporter)
    BY <1>7 DEF HoldFirstParameter
  <2>4. QED BY <1>2, <2>2, <2>3 DEF Grows
<1>8. ASSUME Target PROVE Grows
  <2>1. reporter.holding /\ reporter' = UnholdDiscard(reporter)
    BY <1>1, <1>8 DEF Target, Analyzing
  <2>2. reporter'.printed = reporter.printed
    BY <1>1, <2>1, UnholdDiscardKeeps
  <2>3. QED BY <2>2 DEF Grows
<1>9. ASSUME TargetAgain PROVE Grows
  <2>1. CASE write.fault # 0 /\ reporter' \in Report(reporter, write.fault)
    <3>1. write.fault \in Nat
      BY <1>1 DEF Shape, Writes
    <3>2. QED BY <1>1, <2>1, <3>1, ReportKeeps DEF Emitted, Grows
  <2>2. QED BY <1>4, <1>5, <1>9, <2>1 DEF TargetAgain
<1>10. ASSUME Value PROVE Grows
  <2>1. reporter.holding
    BY <1>1, <1>10 DEF Value, Analyzing
  <2>2. /\ ReporterInv(Unhold(reporter))
        /\ Abouts(reporter.printed) \subseteq Abouts(Unhold(reporter).printed)
    BY <1>1, <2>1, UnholdKeeps
  <2>3. Found(Unhold(reporter)) \/ reporter' = Unhold(reporter)
    BY <1>10 DEF Value
  <2>4. QED BY <1>2, <2>2, <2>3 DEF Grows
<1>11. Grows
  BY <1>6, <1>7, <1>8, <1>9, <1>10 DEF Next
<1>12. refused => refused'
  BY DEF DriverInv, Next, vars, DumpOption, Refuse, Accept, NonAscii, LexError, EndLex, Parse,
       CheckErrors, OtherConstruct, EndAnalysis, HoldFirstParameter, Target, TargetFormat,
       TargetAgain, Value, RestFault, EndWrite, Done, StageKept
<1>13. QED BY <1>11, <1>12 DEF Grows, Shown, Abouts

(* Nothing is shown exactly when no error was printed and main() refused   *)
(* nothing.                                                                *)
LEMMA ShownNothing == DriverInv => (Shown = {} <=> ~refused /\ ~reporter.hadErrors)
<1> SUFFICES ASSUME DriverInv PROVE Shown = {} <=> ~refused /\ ~reporter.hadErrors
  OBVIOUS
<1>1. ReporterInv(reporter)
  BY DEF DriverInv, Books
<1>2. CASE reporter.hadErrors
  <2>1. PICK i \in DOMAIN reporter.printed : reporter.printed[i].kind = "error"
    BY <1>1, <1>2 DEF ReporterInv, Errors
  <2>2. reporter.printed[i].about \in Shown
    BY <2>1 DEF Shown
  <2>3. QED BY <1>2, <2>2
<1>3. CASE ~reporter.hadErrors
  <2>1. reporter.printed = <<>>
    BY <1>1, <1>3 DEF ReporterInv
  <2>2. Shown = IF refused THEN {0} ELSE {}
    BY <2>1 DEF Shown
  <2>3. QED BY <1>3, <2>2
<1>4. QED BY <1>2, <1>3

(* The command keeps its promise: what it shows only grows, and it accepts *)
(* a source exactly when it has shown nothing about it.                    *)
THEOREM DriverImplementsCompiler == Spec => ImplementsCompiler
<1>1. Init => Promise!Init
  BY DEF Init, Promise!Init, Shown, Verdict, NewReporter
<1>2. ASSUME DriverInv, DriverInv', [Next]_vars
      PROVE  [Promise!Next]_<<Shown, Verdict>>
  <2>1. Shown \subseteq Shown'
    BY <1>2, ShownGrows
  <2>2. CASE exitCode # 2
    <3>1. stage = "exit"
      BY <1>2, <2>2 DEF DriverInv, Verdicts
    <3>2. UNCHANGED vars
      BY <1>2, <3>1 DEF DriverInv, Shape, Next, vars, DumpOption, Refuse, Accept, NonAscii,
           LexError, EndLex, Parse, CheckErrors, OtherConstruct, EndAnalysis,
           HoldFirstParameter, Target, TargetFormat, TargetAgain, Value, RestFault, EndWrite,
           Done, StageKept, Analyzing
    <3>3. QED BY <3>2 DEF vars, Shown, Verdict
  <2>3. CASE exitCode = 2 /\ exitCode' = 2
    <3>1. Verdict = "none" /\ Verdict' = "none"
      BY <2>3 DEF Verdict
    <3>2. QED BY <2>1, <3>1 DEF Promise!Next, Promise!Show
  <2>4. CASE exitCode = 2 /\ exitCode' # 2
    <3>1. Verdict = "none"
      BY <2>4 DEF Verdict
    <3>2. exitCode' \in {0, 1}
      BY <1>2, <2>4 DEF DriverInv, Shape
    <3>3. (Shown = {} <=> ~refused /\ ~reporter.hadErrors)'
      BY <1>2, ShownNothing, PTL
    <3>4. exitCode' = 0 <=> Shown' = {}
      BY <1>2, <3>2, <3>3 DEF DriverInv, Verdicts
    <3>5. Verdict' = IF Shown' = {} THEN "accepted" ELSE "rejected"
      BY <3>2, <3>4 DEF Verdict
    <3>6. QED BY <2>1, <3>1, <3>5 DEF Promise!Next, Promise!Decide
  <2>5. QED BY <2>2, <2>3, <2>4
<1>3. QED
  BY <1>1, <1>2, DriverInvariant, PTL
     DEF Spec, ImplementsCompiler, Promise!Spec, Promise!compilerVars
=============================================================================
