------------------------------ MODULE MCBridge ------------------------------
(***************************************************************************)
(* A round of three calls: one that prints little, one with a script that  *)
(* does not fit into the pipe and prints more than the other pipe holds,   *)
(* and one more.                                                           *)
(***************************************************************************)
EXTENDS Bridge

MCCalls == << [script |-> 2, prints |-> 1], [script |-> 5, prints |-> 3], [script |-> 1, prints |-> 4] >>
=============================================================================
