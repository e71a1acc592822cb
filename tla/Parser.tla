------------------------------- MODULE Parser -------------------------------
(***************************************************************************)
(* The parser of parsing.cxx: the combinators its grammar functions are    *)
(* written with, run as a machine over a grammar given as a table.         *)
(*                                                                         *)
(* A grammar function is a sequence of instructions.  What C++ keeps on    *)
(* its call stack is here a stack of frames, one for each try block that   *)
(* is active: the instructions still to run inside it and what to run      *)
(* after it, depending on whether it was left normally or by an            *)
(* UnexpectedToken.  "marks" holds the positions those blocks go back to.  *)
(***************************************************************************)
EXTENDS TokenReader

CONSTANTS
    Grammar,    \* from the name of a grammar function to its instructions
    Start       \* the function parse() calls

-----------------------------------------------------------------------------
(* The instructions.                                                       *)

\* consume<T>
C(k) == [op |-> "consume", kind |-> k]
\* consumeLabel, consumeInt, consumeReal, consumeDirectiveForward: a token of
\* the kind, whose value must moreover be acceptable
V(k, ok) == [op |-> "value", kind |-> k, ok |-> ok]
\* if (tryConsume<T>()) yes else no
If(k, yes, no) == [op |-> "if", kind |-> k, yes |-> yes, no |-> no]
\* a call of the grammar function n
R(n) == [op |-> "call", name |-> n]
\* if (tryParse(body)) yes else no
Try(body, yes, no) == [op |-> "try", body |-> body, yes |-> yes, no |-> no]
\* parseOptional
Opt(n) == Try(<<R(n)>>, <<>>, <<>>)
\* parseList
List(n) == [op |-> "list", name |-> n]
\* parseSeparatedList, and its loop once an item has been read
Sep(k, n) == [op |-> "sep", kind |-> k, name |-> n]
SepRest(k, n) == [op |-> "rest", kind |-> k, name |-> n]
\* parseAlternatives
Alt(names) == [op |-> "alt", names |-> names]
\* parseEnum: tryConsume of each kind but the last, which is consumed
Enum2(a, b) == If(a, <<>>, <<C(b)>>)
Enum3(a, b, c) == If(a, <<>>, <<Enum2(b, c)>>)
Enum5(a, b, c, d, e) == If(a, <<>>, <<If(b, <<>>, <<Enum3(c, d, e)>>)>>)
Enum7(a, b, c, d, e, f, g) ==
    If(a, <<>>, <<If(b, <<>>, <<Enum5(c, d, e, f, g)>>)>>)

-----------------------------------------------------------------------------

VARIABLES
    frames,     \* the stack, outermost first
    marks,      \* the positions saved by all frames but the outermost
    status      \* "running", "throwing", or how parse() ended

vars == <<toks, it, unexpectedIt, reprs, failed, frames, marks, status>>

Final == {"accepted", "unexpected", "invalid"}

Frame(code, yes, no) == [code |-> code, yes |-> yes, no |-> no]

Init ==
    /\ ReaderInit
    /\ frames = <<Frame(<<R(Start)>>, <<>>, <<>>)>>
    /\ marks = <<>>
    /\ status = "running"

Top == frames[Len(frames)]
Instr == Head(Top.code)
Rest == Tail(Top.code)

At(op) == status = "running" /\ Top.code # <<>> /\ Instr.op = op

(* Replaces the instruction at the top by others.                          *)
WithCode(fs, code) ==
    [fs EXCEPT ![Len(fs)] = [@ EXCEPT !.code = code]]
Continue(code) == frames' = WithCode(frames, code \o Rest)

(* Enters a try block that starts at p.                                    *)
Enter(p, body, yes, no) ==
    /\ frames' = Append(WithCode(frames, Rest), Frame(body, yes, no))
    /\ marks' = Append(marks, p)

(* Leaves the innermost try block; the caller runs code next.              *)
Leave(code) ==
    LET outer == SubSeq(frames, 1, Len(frames) - 1)
    IN  /\ frames' = WithCode(outer, code \o outer[Len(outer)].code)
        /\ marks' = SubSeq(marks, 1, Len(marks) - 1)

-----------------------------------------------------------------------------

Call ==
    /\ At("call")
    /\ Continue(Grammar[Instr.name])
    /\ UNCHANGED <<readerVars, marks, status>>

Consume ==
    \E k \in Kinds \ {Eof} :
        /\ At("consume") /\ Instr.kind = k
        /\ \/ Hit(k) /\ Continue(<<>>) /\ UNCHANGED <<marks, status>>
           \/ Miss(k) /\ status' = "throwing" /\ UNCHANGED <<frames, marks>>

(* A token whose value is unacceptable is put back, and the error thrown   *)
(* is one no try block catches.                                            *)
ConsumeValue ==
    \E k \in Kinds \ {Eof} :
        /\ At("value") /\ Instr.kind = k
        /\ \/ /\ AtKind(k) /\ toks[it] \in Instr.ok
              /\ Hit(k) /\ Continue(<<>>) /\ UNCHANGED <<marks, status>>
           \/ /\ AtKind(k) /\ toks[it] \notin Instr.ok
              /\ status' = "invalid"
              /\ UNCHANGED <<readerVars, frames, marks>>
           \/ Miss(k) /\ status' = "throwing" /\ UNCHANGED <<frames, marks>>

TryConsume ==
    \E k \in Kinds \ {Eof} :
        /\ At("if") /\ Instr.kind = k
        /\ \/ Hit(k) /\ Continue(Instr.yes)
           \/ Miss(k) /\ Continue(Instr.no)
        /\ UNCHANGED <<marks, status>>

TryParse ==
    /\ At("try")
    /\ Enter(it, Instr.body, Instr.yes, Instr.no)
    /\ UNCHANGED <<readerVars, status>>

(* Slip: the loop goes on after an item that could not be read.            *)
ParseListForever ==
    /\ At("list")
    /\ Enter(it, <<R(Instr.name)>>, <<Instr>>, <<Instr>>)
    /\ UNCHANGED <<readerVars, status>>

(* for (;;) if (!tryParse(item)) break;                                    *)
ParseList ==
    /\ At("list")
    /\ Enter(it, <<R(Instr.name)>>, <<Instr>>, <<>>)
    /\ UNCHANGED <<readerVars, status>>

(* The first item is read outside any try block.                           *)
ParseSeparatedList ==
    /\ At("sep")
    /\ Continue(<<R(Instr.name), SepRest(Instr.kind, Instr.name)>>)
    /\ UNCHANGED <<readerVars, marks, status>>

(* Each later one is read inside a block that goes back to before the      *)
(* separator: a separator nothing follows is left to the caller.           *)
ParseSeparated ==
    \E k \in Kinds \ {Eof} :
        /\ At("rest") /\ Instr.kind = k
        /\ \/ Hit(k) /\ Enter(it, <<R(Instr.name)>>, <<Instr>>, <<>>)
           \/ Miss(k) /\ Continue(<<>>) /\ UNCHANGED marks
        /\ UNCHANGED status

ParseAlternatives ==
    /\ At("alt")
    /\ IF Len(Instr.names) = 1
       THEN Continue(<<R(Instr.names[1])>>) /\ UNCHANGED marks
       ELSE Enter(it, <<R(Head(Instr.names))>>, <<>>, <<Alt(Tail(Instr.names))>>)
    /\ UNCHANGED <<readerVars, status>>

(* A try block ends normally.                                              *)
EndTry ==
    /\ status = "running" /\ Top.code = <<>> /\ marks # <<>>
    /\ Leave(Top.yes)
    /\ UNCHANGED <<readerVars, status>>

(* catch (TokenReader::UnexpectedToken &) in the innermost try block.      *)
Catch ==
    /\ status = "throwing" /\ marks # <<>>
    /\ Backtrack(marks[Len(marks)])
    /\ Leave(Top.no)
    /\ status' = "running"

(* The catch of parse() itself.                                            *)
ReportUnexpected ==
    /\ status = "throwing" /\ marks = <<>>
    /\ status' = "unexpected"
    /\ UNCHANGED <<readerVars, frames, marks>>

(* parse(): once the program is read, nothing may be left.                 *)
ConsumeEof ==
    /\ status = "running" /\ Top.code = <<>> /\ marks = <<>>
    /\ \/ Hit(Eof) /\ status' = "accepted"
       \/ Miss(Eof) /\ status' = "throwing"
    /\ UNCHANGED <<frames, marks>>

Done == status \in Final /\ UNCHANGED vars

Next ==
    \/ Call \/ Consume \/ ConsumeValue \/ TryConsume
    \/ TryParse \/ ParseList \/ ParseSeparatedList \/ ParseSeparated
    \/ ParseAlternatives \/ EndTry \/ Catch \/ ReportUnexpected \/ ConsumeEof
    \/ Done

Spec == Init /\ [][Next]_vars

(* Nothing but its own end stops the parser.                               *)
FairSpec == Spec /\ WF_vars(Next)

-----------------------------------------------------------------------------

TypeOK ==
    /\ ReaderTypeOK
    /\ marks \in Seq(1..Len(toks))
    /\ status \in Final \cup {"running", "throwing"}

(* backtrack() asserts that it is only ever asked to move back, and a try  *)
(* block goes back no further than the block around it did: reading never  *)
(* leaves the part of the input its caller has given it.                   *)
MarksOrdered ==
    /\ \A i, j \in 1..Len(marks) : i <= j => marks[i] <= marks[j]
    /\ \A i \in 1..Len(marks) : marks[i] <= it

(* The end-of-file token is consumed by parse() only, as the last thing it *)
(* does, so no attempt ever reads beyond the end of the token vector.      *)
NeverPastEnd == it = Len(toks) + 1 <=> status = "accepted"

(* UnexpectedToken::report asserts that some kind was expected.            *)
ExpectedNotEmpty == status \in {"throwing", "unexpected"} => reprs # {}

(* Every token sequence is parsed in finitely many steps, whatever lists,  *)
(* nesting and backtracking it asks for.                                   *)
Termination == <>(status \in Final)
=============================================================================
