------------------------------- MODULE Reporter -------------------------------
(***************************************************************************)
(* class Reporter of reporting.ixx, as operators on its state: what it has *)
(* printed, whether it counts as an error, and the messages held back      *)
(* while the analyzer looks at an expression it may have to look at again. *)
(***************************************************************************)
EXTENDS Naturals, Sequences

NewReporter ==
    [ hadErrors |-> FALSE,
      holding |-> FALSE,            \* holding_
      held |-> <<>>,                \* held_messages_
      heldHadErrors |-> FALSE,      \* held_had_errors_
      printed |-> <<>>,             \* what went to stderr
      asserted |-> FALSE ]          \* an assertion of this class failed

(* A message names the fault it is about.                                  *)
ErrorOf(f) == [kind |-> "error", about |-> f]
NoteOf(f) == [kind |-> "note", about |-> f]

Emit(r, m) ==
    IF r.holding THEN [r EXCEPT !.held = Append(@, m)]
                 ELSE [r EXCEPT !.printed = Append(@, m)]

Err(r, f) ==
    IF r.holding THEN [Emit(r, ErrorOf(f)) EXCEPT !.heldHadErrors = TRUE]
                 ELSE [Emit(r, ErrorOf(f)) EXCEPT !.hadErrors = TRUE]

Note(r, f) == Emit(r, NoteOf(f))

Hold(r) == [r EXCEPT !.holding = TRUE, !.asserted = @ \/ r.holding]

(* Slip: the flag survives the messages it was set for.                    *)
UnholdDiscardKeepingFlag(r) ==
    [r EXCEPT !.held = <<>>, !.holding = FALSE, !.asserted = @ \/ ~r.holding]

UnholdDiscard(r) ==
    [r EXCEPT !.held = <<>>, !.heldHadErrors = FALSE, !.holding = FALSE,
              !.asserted = @ \/ ~r.holding]

(* Slip: the messages are printed but do not count.                        *)
UnholdPrintingOnly(r) ==
    UnholdDiscard([r EXCEPT !.printed = @ \o r.held])

Unhold(r) ==
    UnholdDiscard([r EXCEPT !.printed = @ \o r.held,
                            !.hadErrors = @ \/ r.heldHadErrors])

Messages == [kind : {"error", "note"}, about : Nat]
Reporters ==
    [ hadErrors : BOOLEAN, holding : BOOLEAN, held : Seq(Messages),
      heldHadErrors : BOOLEAN, printed : Seq(Messages), asserted : BOOLEAN ]
=============================================================================
