------------------------------- MODULE Compiler -------------------------------
(***************************************************************************)
(* What the command promises: it shows diagnostics while it works, then    *)
(* gives its verdict, and the verdict is acceptance if and only if it has  *)
(* shown none.                                                             *)
(***************************************************************************)
EXTENDS Naturals

VARIABLES
    shown,      \* the faults shown to the user
    verdict     \* "none", "accepted" or "rejected"

compilerVars == <<shown, verdict>>

Init == shown = {} /\ verdict = "none"

(* A fault is shown once.                                                  *)
Show ==
    /\ verdict = "none"
    /\ shown' # shown /\ shown \subseteq shown'
    /\ verdict' = "none"

(* A last fault may be shown together with the verdict it leads to.        *)
Decide ==
    /\ verdict = "none"
    /\ shown \subseteq shown'
    /\ verdict' = IF shown' = {} THEN "accepted" ELSE "rejected"

Next == Show \/ Decide

Spec == Init /\ [][Next]_compilerVars
=============================================================================
