---------------------------------- MODULE Calls -----------------------------------
(***************************************************************************)
(* Procedure statements and function designators: the identifier is looked *)
(* up, and what it stands for decides how its actual parameters are        *)
(* resolved.                                                               *)
(***************************************************************************)
EXTENDS DeclaredCalls, RequiredCalls

vars == <<callVars, sectionVars, fileVars>>

Init ==
    /\ callee \in DOMAIN Names
    /\ wanted \in {"procedure", "function"}
    /\ count \in 0..MaxActuals[callee]
    /\ files \in IF callee \in UsersOfDefaultFile THEN ProgramFiles ELSE {{}}
    /\ actuals = <<>>
    /\ errors = {}
    /\ node = "none"
    /\ status = "lookup"
    /\ section = 1 /\ taken = 0 /\ good = 0 /\ first = NoType /\ built = <<>>
    /\ file = NoFile /\ kept = 0

(* lookupSubroutineReference()                                             *)
RequiredKind == IF wanted = "function" THEN "required_function" ELSE "required_procedure"
Found ==
    CASE Names[callee].kind = wanted -> "declared"
      [] Names[callee].kind = RequiredKind -> "required"
      [] OTHER -> "nothing"

LookUp ==
    /\ status = "lookup"
    /\ \/ /\ Found = "nothing"
          /\ Stop({0}, "fallback")
       \/ /\ Found # "nothing"
          /\ status' = Found
          /\ UNCHANGED <<callee, wanted, count, errors, node>>
    /\ UNCHANGED <<actuals, sectionVars, fileVars>>

CallDeclared ==
    /\ status = "declared"
    /\ \/ MissingParameter
       \/ \E a \in Written[callee] : VariableParameter(a) \/ ValueParameter(a) \/ SubroutineParameter(a)
       \/ FinishCall
    /\ UNCHANGED fileVars

CallRequired ==
    /\ status = "required"
    /\ \/ MissingFirst
       \/ UseDefaultFile
       \/ \E a \in Written[callee] : Required(a)
       \/ FinishReading
       \/ FinishWriting
    /\ UNCHANGED sectionVars

Done == status = "done" /\ UNCHANGED vars

Next ==
    \/ LookUp
    \/ CallDeclared
    \/ CallRequired
    \/ Done

Spec == Init /\ [][Next]_vars
===================================================================================
