------------------------------ MODULE MCDriver ------------------------------
(***************************************************************************)
(* The driver with a few faults: one for each place a message can come     *)
(* from in a write statement, and one more to tell "again" from "another". *)
(***************************************************************************)
EXTENDS Driver
=============================================================================
