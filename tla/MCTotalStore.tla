---------------------------- MODULE MCTotalStore ----------------------------
(* Small instances of TotalStore: one file, one session, two spellings of   *)
(* one directory, and the batches that scans of that file yield.            *)
EXTENDS TotalStore, TLC

CONSTANTS f1, a, r1, r2, d1, x, y

MCPathOf == [s \in Source |-> CHOOSE p \in Path : TRUE]
MCDirOf == [r \in Root |-> d1]

One == [session |-> a, seq |-> 0, root |-> r1, data |-> x]
Two == [session |-> a, seq |-> 1, root |-> r2, data |-> y]
Rewritten == [session |-> a, seq |-> 0, root |-> r1, data |-> y]

MCBatch == {{One}, {One, Two}}
EraseRoot == {[scope |-> "project_root", key |-> r1]}
EraseAny == {[scope |-> "session", key |-> a], [scope |-> "project_root", key |-> r1]}
Handles == Permutations(Handle)

Loose == [session |-> a, seq |-> 1, root |-> NoRoot, data |-> x]
PairBatch == {{One}, {One, Loose}}

EmptyToo == MCBatch \union {{}, {Rewritten}}
=============================================================================
