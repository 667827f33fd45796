------------------------------- MODULE MCRoots -------------------------------
(***************************************************************************)
(* Instances of Roots for TLC: the home directory u of a drive, a checkout *)
(* w in it and s inside w, which may be a repository of its own.  s is     *)
(* registered in its /mnt spelling, as an agent in a distribution sees it. *)
(***************************************************************************)
EXTENDS Roots

U == <<"u">>
W == <<"u", "w">>
S == <<"u", "w", "s">>
MCDir == {U, W, S}
MCHome == {U}
Own(d) == [form |-> "own", dir |-> d]
Mnt(d) == [form |-> "mnt", dir |-> d]
MCCandidate == {Mnt(S)}
MCRegistered == Mnt(S) :> "git"
Tree(u, w, s) == (U :> u) @@ (W :> w) @@ (S :> s)
MCRepo == {Tree("A", "marker", "B")}
MCUnread == {{}, {S}, {W}}
MCChanges == {<<S, "A">>, <<S, "gone">>}
=============================================================================
