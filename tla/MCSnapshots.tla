----------------------------- MODULE MCSnapshots -----------------------------
(***************************************************************************)
(* Instances of Snapshots for TLC: file 1 is the instruction file of a     *)
(* project, in a WSL distribution; file 2 is what the agent remembers of   *)
(* the same project, beside the agent's own logs.                          *)
(***************************************************************************)
EXTENDS Snapshots

CONSTANT p

MCFile == {1, 2}
MCProjectOf == [f \in MCFile |-> p]
MCErasable == {[scope |-> "source_path", key |-> 2], [scope |-> "project_root", key |-> p]}
=============================================================================
