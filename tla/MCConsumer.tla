------------------------------ MODULE MCConsumer ------------------------------
(***************************************************************************)
(* Instances of Consumer for TLC: one source with two sessions.            *)
(***************************************************************************)
EXTENDS Consumer

CONSTANT f

MCSession == {1, 2}
MCOfSource == [x \in MCSession |-> f]
=============================================================================
