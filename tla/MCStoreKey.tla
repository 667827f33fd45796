------------------------------ MODULE MCStoreKey ------------------------------
(***************************************************************************)
(* Instances of StoreKey for TLC: a1 is made on this machine, b comes in a *)
(* file from another one.                                                  *)
(***************************************************************************)
EXTENDS StoreKey

CONSTANTS a1, b, g1, g2, w1, w2
=============================================================================
