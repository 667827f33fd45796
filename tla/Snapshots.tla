------------------------------ MODULE Snapshots ------------------------------
(***************************************************************************)
(* The instruction and memory files of the agents ("Class-B"), kept as     *)
(* versions.  A round of sync-snapshots looks for the files, resolves the  *)
(* project each belongs to, reads the newest stored versions, reads the    *)
(* files (those of a WSL distribution in one batch) and appends a version  *)
(* of every file that changed.  Rounds of several processes overlap, users *)
(* edit, delete and erase meanwhile, and any probe may fail to answer,     *)
(* which must not be taken for "is not there".                             *)
(*                                                                         *)
(* A content is the number of the edit that wrote it; 0 is no file.        *)
(***************************************************************************)
EXTENDS Integers

CONSTANTS
  Syncer,              \* processes that run sync-snapshots
  File,                \* numbers: sources are taken in this order
  Bridged,             \* files of a WSL distribution
  Inside,              \* files found in the directory of their project
  Project, ProjectOf,  \* the project a file belongs to
  None,
  Erasable,            \* erasures users ask for
  MaxEdits, MaxFaults  \* bounds of the model

Tombstone == [scope : {"source_path"}, key : File] \union [scope : {"project_root"}, key : Project]

ASSUME SnapshotsAssumption ==
  /\ File \subseteq Nat /\ Bridged \subseteq File /\ Inside \subseteq File
  /\ ProjectOf \in [File -> Project] /\ None \notin Project
  /\ Erasable \subseteq Tombstone
  /\ MaxEdits \in Nat \ {0} /\ MaxFaults \in Nat

VARIABLES
  disk,     \* disk[f]: what is in f
  dir,      \* projects whose directory exists
  edits,    \* edits so far (bound)
  rows,     \* the snapshot events
  tombs,
  sync,     \* sync[s]: a round
  view,     \* files that `svault snapshots` last left out as gone
  faults    \* probes and reads that failed (bound)

world == <<disk, dir, edits>>
store == <<rows, tombs>>
vars == <<world, store, sync, view, faults>>

-----------------------------------------------------------------------------
Row == [off : Nat, file : File, seq : Nat, content : Nat, root : Project \union {None},
        dated : BOOLEAN]
NoRow == [off |-> 0, file |-> 0, seq |-> 0, content |-> 0, root |-> None, dated |-> FALSE]
Idle == [step |-> "idle", todo |-> {}, latest |-> [f \in File |-> NoRow],
         batch |-> [f \in File |-> None], event |-> NoRow]

Matches(t, r) ==
  IF t.scope = "source_path" THEN t.key = r.file ELSE t.key = r.root
Erased(r) == \E t \in tombs : Matches(t, r)

(* latest_snapshot_rows: of every file the row with the greatest offset.   *)
Versions(f) == {r \in rows : r.file = f}
Latest(f) ==
  IF Versions(f) = {} THEN NoRow
  ELSE CHOOSE r \in Versions(f) : \A q \in Versions(f) : q.off <= r.off

(* A call that may fail: it does so at most MaxFaults times.               *)
Answers == UNCHANGED faults
Fails == faults < MaxFaults /\ faults' = faults + 1

-----------------------------------------------------------------------------
(* class_b::enumerate.  What cannot be listed is left out of the round, a  *)
(* project directory that is gone or cannot be probed leaves its memory    *)
(* files without a project root, and its own files out.                    *)
Resolved(p, blind) == p \in dir \ blind
Found(f, hidden, blind) ==
  disk[f] # 0 /\ f \notin hidden /\ (f \in Inside => Resolved(ProjectOf[f], blind))
RootSeen(f, blind) == IF Resolved(ProjectOf[f], blind) THEN ProjectOf[f] ELSE None

Enumerate(s) ==
  /\ sync[s].step = "idle"
  /\ \E hidden \in SUBSET File, blind \in SUBSET Project :
       /\ IF hidden = {} /\ blind = {} THEN Answers ELSE Fails
       /\ sync' = [sync EXCEPT ![s].step = "latest",
            ![s].todo = {[file |-> f, root |-> RootSeen(f, blind)] :
                           f \in {g \in File : Found(g, hidden, blind)}}]
  /\ UNCHANGED <<world, store, view>>

ReadLatest(s) ==
  /\ sync[s].step = "latest"
  /\ sync' = [sync EXCEPT ![s].step = "batch", ![s].latest = [f \in File |-> [Latest(f) EXCEPT !.off = 0]]]
  /\ UNCHANGED <<world, store, view, faults>>

(* SnapshotPrefetch: None is no answer, the file is read by itself.        *)
Prefetch(s) ==
  /\ sync[s].step = "batch"
  /\ \/ Answers /\ sync' = [sync EXCEPT ![s].step = "files",
                   ![s].batch = [f \in File |-> IF f \in Bridged THEN disk[f] ELSE None]]
     \/ Fails /\ sync' = [sync EXCEPT ![s].step = "files"]
  /\ UNCHANGED <<world, store, view>>

-----------------------------------------------------------------------------
NextSource(s) == CHOOSE x \in sync[s].todo : \A y \in sync[s].todo : x.file <= y.file
Content(s, f) == IF sync[s].batch[f] = None THEN disk[f] ELSE sync[s].batch[f]

(* The stored version a round goes on from was read before any file was.   *)
Cursor(s, f) == sync[s].latest[f]

(* snapshot_cursor: a version is written again when what is known of its   *)
(* project changed, or when its time was not known and can be asked now.   *)
MetaStale(x, old, askable) == old.root # x.root \/ (~old.dated /\ askable)

Unchanged_ContentOnly(x, old, content, askable) == old # NoRow /\ old.content = content

Unchanged(x, old, content, askable) ==
  old # NoRow /\ old.content = content /\ ~MetaStale(x, old, askable)
NextSeq(old) == IF old = NoRow THEN 0 ELSE old.seq + 1

(* scan_snapshot_file: one source.  askable and dated are two questions    *)
(* for the time of the file; a batch has brought the answer to the second. *)
ScanFile(s) ==
  /\ sync[s].step = "files" /\ sync[s].todo # {}
  /\ LET x == NextSource(s)
         old == Cursor(s, x.file)
         content == Content(s, x.file)
         left == [sync[s] EXCEPT !.todo = @ \ {x}]
     IN \E read, askable, dated \in BOOLEAN :
          /\ sync[s].batch[x.file] # None => read /\ dated
          /\ IF read /\ askable /\ dated THEN Answers ELSE Fails
          /\ sync' = [sync EXCEPT ![s] =
               IF ~read \/ content = 0 \/ Unchanged(x, old, content, askable) THEN left
               ELSE [left EXCEPT !.step = "append",
                       !.event = [off |-> 0, file |-> x.file, seq |-> NextSeq(old), content |-> content,
                                  root |-> x.root, dated |-> dated]]]
  /\ UNCHANGED <<world, store, view>>

(* AUTOINCREMENT.  What matters of a new offset is only that it is greater *)
(* than those that are there.                                              *)
Offsets == {0} \union {r.off : r \in rows}
NextOffset == 1 + CHOOSE n \in Offsets : \A k \in Offsets : k <= n

Stored(r) == \E q \in Versions(r.file) : q.seq = r.seq

Refused_StoredOnly(r) == Stored(r)

(* append_events: what is erased is not taken, nor what is there already.  *)
Refused(r) == Erased(r) \/ Stored(r)

AppendVersion(s) ==
  /\ sync[s].step = "append"
  /\ LET r == sync[s].event
     IN rows' = IF Refused(r) THEN rows ELSE rows \union {[r EXCEPT !.off = NextOffset]}
  /\ sync' = [sync EXCEPT ![s].step = "files", ![s].event = NoRow]
  /\ UNCHANGED <<world, tombs, view, faults>>

EndRound(s) ==
  /\ sync[s].step = "files" /\ sync[s].todo = {}
  /\ sync' = [sync EXCEPT ![s] = Idle]
  /\ UNCHANGED <<world, store, view, faults>>

(* The process dies, or the store does not answer.                         *)
Die(s) ==
  /\ sync[s].step # "idle" /\ Fails
  /\ sync' = [sync EXCEPT ![s] = Idle]
  /\ UNCHANGED <<world, store, view>>

-----------------------------------------------------------------------------
(* snapshot_view: a version is left out when its file is known to be gone; *)
(* one that cannot be asked for is kept.  A distribution answers as one.   *)
LeftOut(unknown) == {f \in File : Latest(f) # NoRow /\ f \notin unknown /\ disk[f] = 0}

Look ==
  /\ \E unknown \in {{}, Bridged} \union {{f} : f \in File \ Bridged} :
       /\ IF unknown = {} THEN Answers ELSE Fails
       /\ view' = LeftOut(unknown)
  /\ UNCHANGED <<world, store, sync>>

Erase(t) ==
  /\ t \in Erasable \ tombs
  /\ tombs' = tombs \union {t}
  /\ rows' = {r \in rows : ~Matches(t, r)}
  /\ UNCHANGED <<world, sync, view, faults>>

-----------------------------------------------------------------------------
(* What users and agents do to the files.                                  *)
Edit(f) ==
  /\ edits < MaxEdits /\ (f \in Inside => ProjectOf[f] \in dir)
  /\ edits' = edits + 1
  /\ disk' = [disk EXCEPT ![f] = edits + 1]
  /\ UNCHANGED <<dir, store, sync, view, faults>>

Delete(f) ==
  /\ edits < MaxEdits /\ disk[f] # 0
  /\ edits' = edits + 1
  /\ disk' = [disk EXCEPT ![f] = 0]
  /\ UNCHANGED <<dir, store, sync, view, faults>>

RemoveProject(p) ==
  /\ edits < MaxEdits /\ p \in dir
  /\ edits' = edits + 1
  /\ dir' = dir \ {p}
  /\ disk' = [f \in File |-> IF f \in Inside /\ ProjectOf[f] = p THEN 0 ELSE disk[f]]
  /\ UNCHANGED <<store, sync, view, faults>>

-----------------------------------------------------------------------------
Init ==
  /\ disk = [f \in File |-> 1] /\ dir = Project /\ edits = 1
  /\ rows = {} /\ tombs = {}
  /\ sync = [s \in Syncer |-> Idle]
  /\ view = {}
  /\ faults = 0

Round(s) ==
  \/ Enumerate(s) \/ ReadLatest(s) \/ Prefetch(s)
  \/ ScanFile(s) \/ AppendVersion(s) \/ EndRound(s)

Next ==
  \/ \E s \in Syncer : Round(s) \/ Die(s)
  \/ Look
  \/ \E t \in Erasable : Erase(t)
  \/ \E f \in File : Edit(f) \/ Delete(f)
  \/ \E p \in Project : RemoveProject(p)

Spec == Init /\ [][Next]_vars

(* Rounds are started again and again (a timer of the host), and consumers *)
(* ask for the view again and again (external).                            *)
FairSpec == Spec /\ WF_vars(Look) /\ \A s \in Syncer : WF_vars(Round(s))

-----------------------------------------------------------------------------
TypeOK ==
  /\ disk \in [File -> Nat] /\ dir \subseteq Project /\ edits \in 1..MaxEdits
  /\ rows \subseteq Row
  /\ \A r, q \in rows :  \* PRIMARY KEY, UNIQUE
       r.off = q.off \/ (r.file = q.file /\ r.seq = q.seq) => r = q
  /\ tombs \subseteq Tombstone
  /\ \A s \in Syncer :
       /\ sync[s].step \in {"idle", "latest", "batch", "files", "append"}
       /\ sync[s].todo \subseteq [file : File, root : Project \union {None}]
       /\ sync[s].latest \in [File -> Row \union {NoRow}]
       /\ sync[s].event \in Row \union {NoRow}
  /\ view \subseteq File
  /\ faults \in 0..MaxFaults

(* What the user erased is not stored again by a round that found, read or *)
(* compared it before the erasure (store.rs, tombstone: "neither a later   *)
(* increment nor a full rebuild brings it back").  The one thing that an   *)
(* erased project leaves behind are memory files, kept beside the agent's  *)
(* logs, whose version names no project: their round could not resolve its *)
(* directory.  A file of the project itself is never stored without one.   *)
ErasedUnlessUnresolved ==
  \A r \in rows, t \in tombs :
    IF t.scope = "source_path" THEN r.file # t.key
    ELSE ProjectOf[r.file] = t.key => r.root = None /\ r.file \notin Inside

(* When nothing changes any more, the newest version of every file is what *)
(* is in it, under the project it belongs to, and the view leaves out the  *)
(* files that are gone and no other: no probe that failed is taken for a   *)
(* deletion for good, nor a deleted file for one that is there.            *)
Follows(f) ==
  LET r == [file |-> f, root |-> RootSeen(f, {})]
  IN (disk[f] # 0 /\ ~Erased(r)) => Latest(f).content = disk[f] /\ Latest(f).root = r.root
Shown(f) == Latest(f) # NoRow => (f \in view <=> disk[f] = 0)
FollowsFile == <>[](\A f \in File : Follows(f) /\ Shown(f))
=============================================================================
