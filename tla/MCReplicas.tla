------------------------------ MODULE MCReplicas ------------------------------
(***************************************************************************)
(* Instances of Replicas for TLC: two machines.  unc and mnt are spellings *)
(* of one directory for everyone; only the first machine's mount table     *)
(* knows that win is that directory too.                                   *)
(***************************************************************************)
EXTENDS Replicas

CONSTANTS unc, mnt, win, other, file

MCMachine == {1, 2}
MCEvent == {1, 2, 3}
MCLoggedOn == [e \in MCEvent |-> CASE e = 1 -> {1, 2} [] e = 2 -> {1} [] e = 3 -> {2}]
MCSession == {"a"}
MCSessionOf == [e \in MCEvent |-> "a"]
MCPathOf == [x \in MCSession |-> file]
MCRootOf == [e \in MCEvent |-> CASE e = 1 -> mnt [] e = 2 -> win [] e = 3 -> other]
MCDirOf == [r \in Root |-> IF r = unc THEN mnt ELSE r]
MCHostDirOf ==
  [m \in MCMachine |-> [r \in Root |-> IF r = unc \/ (m = 1 /\ r = win) THEN mnt ELSE r]]
MCErasable == {[scope |-> "session", key |-> "a"], [scope |-> "project_root", key |-> unc]}
=============================================================================
