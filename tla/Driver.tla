-------------------------------- MODULE Driver --------------------------------
(***************************************************************************)
(* main(): the command line, the stages and the exit code, around the one  *)
(* Reporter they share.  Of lexing, parsing and analysis only what they    *)
(* report is modelled, except for the statements "write" and "writeln":    *)
(* they look at their first parameter before they know what it is, holding *)
(* the messages back, and then look at it again.                           *)
(***************************************************************************)
EXTENDS Reporter, FiniteSets

CONSTANT MaxFaults      \* bounds how many faults an input has
ASSUME MaxFaultsAssumption == MaxFaults \in Nat

VARIABLES
    stage,          \* where main() is
    exitCode,       \* what it returned; 2 while it runs
    dump,           \* dump_parse_tree
    refused,        \* main() printed an error of its own
    reporter,
    faults,         \* history: the faults found in the input so far
    write           \* the write statement being resolved

vars == <<stage, exitCode, dump, refused, reporter, faults, write>>

Stages == {"options", "source", "read", "ascii", "lex", "lexed", "parse", "parsed",
           "analyze", "exit"}
(* Where the resolution of a write statement is: not in one, its first     *)
(* parameter resolved and its messages held, the same parameter about to   *)
(* be checked and resolved as a variable, what comes after it.             *)
Writes == [pc : {"none", "held", "format", "again", "rest"},
           ln : BOOLEAN, type : {"file", "text", "value"}, fault : Nat]
NoWrite == [pc |-> "none", ln |-> FALSE, type |-> "value", fault |-> 0]

Init ==
    /\ stage = "options" /\ exitCode = 2 /\ dump = FALSE /\ refused = FALSE
    /\ reporter = NewReporter /\ faults = {} /\ write = NoWrite

Exit(code) == stage' = "exit" /\ exitCode' = code

-----------------------------------------------------------------------------
(* A fault is numbered when it is found; faults are numbered from 1.       *)

NewFault == Cardinality(faults) + 1
CanFault == Cardinality(faults) < MaxFaults

(* A fault is reported by an error, in the analyzer perhaps with a note.   *)
Report(r, f) == {Err(r, f), Note(Err(r, f), f)}
Found(r) ==
    /\ CanFault
    /\ faults' = faults \cup {NewFault}
    /\ reporter' \in Report(r, NewFault)
FoundByFrontEnd ==
    /\ CanFault
    /\ faults' = faults \cup {NewFault}
    /\ reporter' = Err(reporter, NewFault)

-----------------------------------------------------------------------------
(* The command line and the file.                                          *)

DumpOption ==
    /\ stage = "options" /\ dump' = TRUE
    /\ UNCHANGED <<stage, exitCode, refused, reporter, faults, write>>

(* An unknown option; not exactly one source; a file that cannot be opened *)
(* or read.                                                                *)
Refuse ==
    /\ stage \in {"options", "source", "read"}
    /\ refused' = TRUE /\ Exit(1)
    /\ UNCHANGED <<dump, reporter, faults, write>>

Accept ==
    /\ \/ stage = "options" /\ stage' = "source"
       \/ stage = "source" /\ stage' = "read"
       \/ stage = "read" /\ stage' = "ascii"
    /\ UNCHANGED <<exitCode, dump, refused, reporter, faults, write>>

NonAscii ==
    /\ stage = "ascii"
    /\ \/ FoundByFrontEnd /\ Exit(1)
       \/ stage' = "lex" /\ UNCHANGED <<exitCode, reporter, faults>>
    /\ UNCHANGED <<dump, refused, write>>

-----------------------------------------------------------------------------
(* The stages.                                                             *)

(* The lexer goes on after an error, ...                                   *)
LexError ==
    /\ stage = "lex" /\ FoundByFrontEnd
    /\ UNCHANGED <<stage, exitCode, dump, refused, write>>
EndLex ==
    /\ stage = "lex" /\ stage' = "lexed"
    /\ UNCHANGED <<exitCode, dump, refused, reporter, faults, write>>

(* ... the parser does not.                                                *)
Parse ==
    /\ stage = "parse" /\ stage' = "parsed"
    /\ (FoundByFrontEnd \/ UNCHANGED <<reporter, faults>>)
    /\ UNCHANGED <<exitCode, dump, refused, write>>

(* if (reporter.hadErrors()) return 1; and, after parsing, the dump.       *)
CheckErrors ==
    /\ \/ /\ stage = "lexed"
          /\ IF reporter.hadErrors THEN Exit(1)
             ELSE stage' = "parse" /\ UNCHANGED exitCode
       \/ /\ stage = "parsed"
          /\ IF reporter.hadErrors THEN Exit(1)
             ELSE IF dump THEN Exit(0)
             ELSE stage' = "analyze" /\ UNCHANGED exitCode
    /\ UNCHANGED <<dump, refused, reporter, faults, write>>

Analyzing(pc) == stage = "analyze" /\ write.pc = pc
StageKept == UNCHANGED <<stage, exitCode, dump, refused>>

(* Anything but a write statement.                                         *)
OtherConstruct ==
    /\ Analyzing("none") /\ Found(reporter)
    /\ UNCHANGED write /\ StageKept

(* Slip: the exit code is the number of errors.                            *)
EndAnalysisCounting ==
    /\ Analyzing("none")
    /\ Exit(Cardinality(faults))
    /\ UNCHANGED <<dump, refused, reporter, faults, write>>

EndAnalysis ==
    /\ Analyzing("none")
    /\ Exit(IF reporter.hadErrors THEN 1 ELSE 0)
    /\ UNCHANGED <<dump, refused, reporter, faults, write>>

-----------------------------------------------------------------------------
(* write and writeln.                                                      *)

(* reporter_.hold(); resolveExpression(first parameter)                    *)
HoldFirstParameter ==
    /\ Analyzing("none")
    /\ \E ln \in BOOLEAN, type \in {"file", "text", "value"}, bad \in BOOLEAN :
          /\ IF bad THEN Found(Hold(reporter))
                    ELSE reporter' = Hold(reporter) /\ UNCHANGED faults
          /\ write' = [pc |-> "held", ln |-> ln, type |-> type,
                        fault |-> IF bad THEN NewFault ELSE 0]
    /\ StageKept

IsTarget == write.type = "text" \/ (write.type = "file" /\ ~write.ln)

(* Slip: the messages about a target are shown before it is resolved again. *)
TargetShownTwice ==
    /\ Analyzing("held") /\ IsTarget
    /\ reporter' = Unhold(reporter)
    /\ write' = [write EXCEPT !.pc = "format"]
    /\ UNCHANGED faults /\ StageKept

(* Slip: the target is resolved while messages are still held.             *)
TargetStillHeld ==
    /\ Analyzing("held") /\ IsTarget
    /\ write' = [write EXCEPT !.pc = "format"]
    /\ UNCHANGED <<faults, reporter>> /\ StageKept

(* The first parameter is the file to write to: it will be resolved again. *)
Target ==
    /\ Analyzing("held") /\ IsTarget
    /\ reporter' = UnholdDiscard(reporter)
    /\ write' = [write EXCEPT !.pc = "format"]
    /\ UNCHANGED faults /\ StageKept

(* checkNoFormattingSpecification, which may complain and go on.           *)
TargetFormat ==
    /\ Analyzing("format")
    /\ (Found(reporter) \/ UNCHANGED <<reporter, faults>>)
    /\ write' = [write EXCEPT !.pc = "again"]
    /\ StageKept

(* resolveExpressionAsVariableAccess: an expression that is not a variable *)
(* access is an error of its own, whatever else is wrong in it; a variable *)
(* access has the fault it had the first time.                             *)
TargetAgain ==
    /\ Analyzing("again")
    /\ \/ Found(reporter) /\ write' = NoWrite
       \/ /\ IF write.fault = 0 THEN reporter' = reporter
             ELSE reporter' \in Report(reporter, write.fault)
          /\ write' = [write EXCEPT !.pc = "rest"]
          /\ UNCHANGED faults
    /\ StageKept

(* The first parameter is a value: what was held is shown.  Then "output"  *)
(* is looked up, without which the statement ends there.                   *)
Value ==
    /\ Analyzing("held") /\ ~IsTarget
    /\ \/ /\ reporter' = Unhold(reporter) /\ UNCHANGED faults
          /\ write' = [write EXCEPT !.pc = "rest"]
       \/ Found(Unhold(reporter)) /\ write' = NoWrite
    /\ StageKept

(* The value itself and the parameters after the first, or that there is   *)
(* none.                                                                   *)
RestFault ==
    /\ Analyzing("rest") /\ Found(reporter)
    /\ UNCHANGED write /\ StageKept
EndWrite ==
    /\ Analyzing("rest")
    /\ write' = NoWrite
    /\ UNCHANGED <<reporter, faults>> /\ StageKept

Done == stage = "exit" /\ UNCHANGED vars

Next ==
    \/ DumpOption \/ Refuse \/ Accept \/ NonAscii
    \/ LexError \/ EndLex \/ Parse \/ CheckErrors
    \/ OtherConstruct \/ EndAnalysis
    \/ HoldFirstParameter \/ Target \/ TargetFormat \/ TargetAgain \/ Value
    \/ RestFault \/ EndWrite
    \/ Done

Spec == Init /\ [][Next]_vars

-----------------------------------------------------------------------------

(* The state of main(), of the Reporter and of the statement being resolved. *)
TypeOK ==
    /\ stage \in Stages /\ exitCode \in {0, 1, 2}
    /\ dump \in BOOLEAN /\ refused \in BOOLEAN
    /\ reporter \in Reporters
    /\ faults \in SUBSET Nat
    /\ write \in Writes

(* hold(), unhold() and unholdDiscard() alternate: none of their asserts   *)
(* fails, the messages are held only while the first parameter of a write  *)
(* statement is looked at, and none is left behind when it is over.        *)
HoldDiscipline ==
    /\ ~reporter.asserted
    /\ reporter.holding <=> write.pc = "held"
    /\ ~reporter.holding => reporter.held = <<>> /\ ~reporter.heldHadErrors

Errors(messages) == {i \in DOMAIN messages : messages[i].kind = "error"}

(* hadErrors() says what the user has seen: it is true exactly when an     *)
(* error has been printed, and what is held counts exactly when it holds   *)
(* an error.                                                               *)
HadErrorsIsWhatWasShown ==
    /\ reporter.hadErrors <=> Errors(reporter.printed) # {}
    /\ reporter.heldHadErrors <=> Errors(reporter.held) # {}

(* No fault is shown to the user twice, although the target of a write     *)
(* statement is resolved twice.                                            *)
NoFaultShownTwice ==
    \A i, j \in Errors(reporter.printed \o reporter.held) :
        (reporter.printed \o reporter.held)[i].about
            = (reporter.printed \o reporter.held)[j].about => i = j

(* Whatever is held back and thrown away, a source with a fault is never   *)
(* accepted and one without is never rejected.                             *)
AcceptedIffFaultless ==
    stage = "exit" /\ ~refused => (exitCode = 0 <=> faults = {})

(* A stage works only on what the stage before it had nothing to say       *)
(* about: nothing has been printed when parsing, the dump or the analysis  *)
(* starts.                                                                 *)
StagesStopAtErrors ==
    [][stage' # stage /\ stage' \in {"parse", "analyze"} => reporter.printed = <<>>]_vars

(* The command refines the promise made to its user: faults are only ever  *)
(* added to what is shown, and the verdict is acceptance exactly when      *)
(* nothing is shown.  A refusal of main() itself counts as fault 0.        *)
Shown ==
    {reporter.printed[i].about : i \in DOMAIN reporter.printed}
        \cup (IF refused THEN {0} ELSE {})
Verdict == CASE exitCode = 2 -> "none" [] exitCode = 1 -> "rejected"
             [] exitCode = 0 -> "accepted"
Promise == INSTANCE Compiler WITH shown <- Shown, verdict <- Verdict
ImplementsCompiler == Promise!Spec
=============================================================================
