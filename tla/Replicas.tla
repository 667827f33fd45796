------------------------------- MODULE Replicas -------------------------------
(***************************************************************************)
(* Several machines, each writing its own store and holding a read-only    *)
(* replica of every other one.  A replica is replaced as a whole by a      *)
(* later snapshot, in whatever order and as late as the transport likes.   *)
(* `--all-stores` reads all of them together and honours the erasures of   *)
(* every one; `adopt-erasures` takes the others' erasures into one's own   *)
(* store, one transaction per erasure.                                     *)
(*                                                                         *)
(* A store is what readers see of it: current rows and tombstones.         *)
(***************************************************************************)
EXTENDS Integers, FiniteSets

CONSTANTS
  Machine,                 \* ordered as numbers, as store_ids are
  Reader,                  \* machines on which someone reads
  Event, LoggedOn,         \* what agents may log, and on which machines
  SessionId, SessionOf,    \* the session of an event
  Path, PathOf,            \* the file of a session
  Root, RootOf,            \* the project root of an event, as spelled
  Dir, DirOf,              \* registry_key without a mount table
  HostDirOf,               \* HostDirOf[m]: the same with the mounts of m
  Erasable,                \* erasures users ask for
  Budget,                  \* sessions-read --max-events
  MaxAsked, MaxFaults      \* bounds of the model

Tombstone == [scope : {"session"}, key : SessionId]
       \union [scope : {"source_path"}, key : Path]
       \union [scope : {"project_root"}, key : Root]

ASSUME ReplicasAssumption ==
  /\ Machine \subseteq Nat /\ IsFiniteSet(Machine) /\ Reader \subseteq Machine
  /\ Event \subseteq Nat /\ IsFiniteSet(Event)
  /\ LoggedOn \in [Event -> SUBSET Machine]
  /\ SessionOf \in [Event -> SessionId] /\ PathOf \in [SessionId -> Path]
  /\ RootOf \in [Event -> Root]
  /\ DirOf \in [Root -> Dir]
  /\ HostDirOf \in [Machine -> [Root -> Dir]]
  /\ Erasable \subseteq Tombstone
  /\ Budget \in Nat \ {0}

VARIABLES
  stores,      \* stores[m]: the store of machine m
  replica,     \* replica[m][n]: what machine m has of the store of n
  adopting,    \* adopting[m]: tombstones that adopt-erasures has still to apply
  read,        \* a sessions-read --all-stores, somewhere
  asked,       \* history: every erasure a user asked for
  faults       \* replicas that broke, adoptions that died (bound)

replicaVars == <<stores, replica, adopting, read, asked, faults>>

-----------------------------------------------------------------------------
Store == [rows : SUBSET Event, tombs : SUBSET Tombstone]
Empty == [rows |-> {}, tombs |-> {}]
Unavailable == [rows |-> {}, tombs |-> {[scope |-> "unavailable"]}]
NoRead == [step |-> "none"]

Column(scope, e) ==
  CASE scope = "session"      -> SessionOf[e]
    [] scope = "source_path"  -> PathOf[SessionOf[e]]
    [] scope = "project_root" -> RootOf[e]

Matches(t, e) == Column(t.scope, e) = t.key

(* What slots machine m can read: its own store and the replicas that open. *)
Slots(m) ==
  {m} \union {n \in Machine \ {m} : replica[m][n] # Unavailable}
SlotOf(m, n) == IF n = m THEN stores[m] ELSE replica[m][n]

-----------------------------------------------------------------------------
(* apply_projection, for one event; what an erasure matches is not taken.  *)
Ingest(m, e) ==
  /\ m \in LoggedOn[e]
  /\ e \notin stores[m].rows
  /\ \A t \in stores[m].tombs : ~Matches(t, e)
  /\ stores' = [stores EXCEPT ![m].rows = @ \union {e}]
  /\ UNCHANGED <<replica, adopting, read, asked, faults>>

(* One tombstone per spelling of the same directory that the store knows   *)
(* (from its data keys).                                                   *)
Spellings(s, t, dir) ==
  {t} \union
  {[scope |-> "project_root", key |-> RootOf[e]] :
     e \in {x \in s.rows : t.scope = "project_root" /\ dir[RootOf[x]] = dir[t.key]}}

(* tombstone_covering: tombstones and deletions in one transaction.        *)
Covering(s, t, dir) ==
  LET new == Spellings(s, t, dir) IN
  [rows |-> {e \in s.rows : \A u \in new : ~Matches(u, e)}, tombs |-> s.tombs \union new]

(* The mount table is asked of wsl.exe, and empty when it does not answer. *)
Mounts(m) == {DirOf, HostDirOf[m]}

EraseOn(m, t) ==
  /\ Cardinality(asked) < MaxAsked
  /\ t \notin asked
  /\ \E dir \in Mounts(m) : stores' = [stores EXCEPT ![m] = Covering(@, t, dir)]
  /\ asked' = asked \union {t}
  /\ UNCHANGED <<replica, adopting, read, faults>>

-----------------------------------------------------------------------------
(* The transport: a consistent snapshot of another machine's store.        *)
Sync(m, n) ==
  /\ n # m
  /\ replica[m][n] # stores[n]
  /\ replica' = [replica EXCEPT ![m][n] = stores[n]]
  /\ UNCHANGED <<stores, adopting, read, asked, faults>>

Break(m, n) ==
  /\ n # m /\ replica[m][n] # Unavailable
  /\ faults < MaxFaults
  /\ faults' = faults + 1
  /\ replica' = [replica EXCEPT ![m][n] = Unavailable]
  /\ UNCHANGED <<stores, adopting, read, asked>>

NewTombstones_WithRows(m) ==
  {t \in UNION {SlotOf(m, n).tombs : n \in Slots(m) \ {m}} \ stores[m].tombs :
     \E e \in stores[m].rows : Matches(t, e)}

NewTombstones(m) == UNION {SlotOf(m, n).tombs : n \in Slots(m) \ {m}} \ stores[m].tombs

(* adopt-erasures: the replicas' tombstones that the local store did not   *)
(* have when it looked.                                                    *)
BeginAdopt(m) ==
  /\ adopting[m] = {}
  /\ NewTombstones(m) # {}
  /\ adopting' = [adopting EXCEPT ![m] = NewTombstones(m)]
  /\ UNCHANGED <<stores, replica, read, asked, faults>>

AdoptOne(m, t) ==
  /\ t \in adopting[m]
  /\ \E dir \in Mounts(m) : stores' = [stores EXCEPT ![m] = Covering(@, t, dir)]
  /\ adopting' = [adopting EXCEPT ![m] = @ \ {t}]
  /\ UNCHANGED <<replica, read, asked, faults>>

AdoptDies(m) ==
  /\ adopting[m] # {}
  /\ faults < MaxFaults
  /\ faults' = faults + 1
  /\ adopting' = [adopting EXCEPT ![m] = {}]
  /\ UNCHANGED <<stores, replica, read, asked>>

-----------------------------------------------------------------------------
(* sessions-read --all-stores.                                             *)
EventsOf(s, x) ==
  {e \in s.rows : SessionOf[e] = x /\ \A t \in s.tombs : ~Matches(t, e)}

(* The copy with the most events, the smaller store_id among equals.       *)
PickStore(counts) ==
  {n \in DOMAIN counts :
     /\ counts[n] > 0
     /\ \A k \in DOMAIN counts : counts[k] < counts[n] \/ (counts[k] = counts[n] /\ n <= k)}

CoversSession(tombs, x) ==
  \/ [scope |-> "session", key |-> x] \in tombs
  \/ [scope |-> "source_path", key |-> PathOf[x]] \in tombs

CoversRoot_ExactString(tombs, r) == [scope |-> "project_root", key |-> r] \in tombs

CoversRoot(tombs, r) ==
  \E t \in tombs : t.scope = "project_root" /\ DirOf[t.key] = DirOf[r]

(* Every store is asked for its tombstones ...                             *)
BeginRead(m, x) ==
  /\ read = NoRead
  /\ read' = [step |-> "gathered", on |-> m, ses |-> x, slots |-> Slots(m),
              tombs |-> UNION {SlotOf(m, n).tombs : n \in Slots(m)}]
  /\ UNCHANGED <<stores, replica, adopting, asked, faults>>

(* ... then counts its rows of the session; the fullest copy is picked ... *)
Count ==
  LET counts == [n \in read.slots |-> Cardinality(EventsOf(SlotOf(read.on, n), read.ses))]
      picked == {n \in PickStore(counts) : ~CoversSession(read.tombs, read.ses)}
  IN
  /\ read.step = "gathered"
  /\ read' = IF picked = {} THEN NoRead
             ELSE [step |-> "picked", on |-> read.on, ses |-> read.ses, tombs |-> read.tombs,
                   from |-> CHOOSE n \in picked : TRUE]
  /\ UNCHANGED <<stores, replica, adopting, asked, faults>>

(* ... and read, but for what any store's erasures cover.                  *)
Fetch ==
  LET found == EventsOf(SlotOf(read.on, read.from), read.ses)
      page == {e \in found : Cardinality({d \in found : d < e}) < Budget}
  IN
  /\ read.step = "picked"
  /\ read' = [step |-> "shown", ses |-> read.ses, tombs |-> read.tombs,
              events |-> {e \in page : ~CoversRoot(read.tombs, RootOf[e])}]
  /\ UNCHANGED <<stores, replica, adopting, asked, faults>>

EndRead ==
  /\ read.step = "shown"
  /\ read' = NoRead
  /\ UNCHANGED <<stores, replica, adopting, asked, faults>>

-----------------------------------------------------------------------------
ReplicasInit ==
  /\ stores = [m \in Machine |-> Empty]
  /\ replica = [m \in Machine |-> [n \in Machine |-> Unavailable]]
  /\ adopting = [m \in Machine |-> {}]
  /\ read = NoRead
  /\ asked = {} /\ faults = 0

ReplicasNext ==
  \/ \E m \in Machine, e \in Event : Ingest(m, e)
  \/ \E m \in Machine, t \in Erasable : EraseOn(m, t)
  \/ \E m, n \in Machine : Sync(m, n) \/ Break(m, n)
  \/ \E m \in Machine : BeginAdopt(m) \/ AdoptDies(m)
  \/ \E m \in Machine : \E t \in adopting[m] : AdoptOne(m, t)
  \/ \E m \in Reader, x \in SessionId : BeginRead(m, x)
  \/ Count \/ Fetch \/ EndRead

ReplicasSpec == ReplicasInit /\ [][ReplicasNext]_replicaVars

(* Every machine syncs with every other one and adopts, round after round. *)
ReplicasFairSpec ==
  /\ ReplicasSpec
  /\ \A m, n \in Machine : WF_replicaVars(Sync(m, n))
  /\ \A m \in Machine :
       /\ WF_replicaVars(BeginAdopt(m))
       /\ WF_replicaVars(\E t \in adopting[m] : AdoptOne(m, t))

-----------------------------------------------------------------------------
ReplicasTypeOK ==
  /\ stores \in [Machine -> Store]
  /\ \A m, n \in Machine : replica[m][n] \in Store \union {Unavailable}
  /\ \A m \in Machine : adopting[m] \subseteq Tombstone
  /\ asked \subseteq Erasable
  /\ faults \in 0..MaxFaults

(* What any readable store had erased when a merged read began is not in   *)
(* its answer, under whatever spelling, although the copy it comes from    *)
(* was picked later and has not heard of the erasure.                      *)
MergedReadShowsNoErased ==
  read.step = "shown" =>
    \A e \in read.events, t \in read.tombs :
      /\ ~Matches(t, e)
      /\ t.scope = "project_root" => DirOf[t.key] # DirOf[RootOf[e]]

(* An erasure reaches every machine: each of them ends with the tombstone  *)
(* and without the rows, although replicas lag, break, and adoptions die.  *)
ErasuresReachEveryStore ==
  \A t \in Erasable :
    (t \in asked) ~>
      [](\A m \in Machine : t \in stores[m].tombs /\ \A e \in stores[m].rows : ~Matches(t, e))
=============================================================================
