------------------------------ MODULE TotalStore ------------------------------
(***************************************************************************)
(* The event store of session-vault (src/src/store.rs): one SQLite file    *)
(* that several processes open at once.                                    *)
(*                                                                         *)
(* Each source file has generations of rows, numbered by a pair            *)
(* <<source revision, projection revision>>; current_head says which one   *)
(* readers see.  A Rollback opens a new source revision (the bytes of the  *)
(* old one are gone from the disk), a Reparse a new projection revision    *)
(* (same bytes, better parse), an Append adds to the current generation.   *)
(*                                                                         *)
(* A Handle is one open TotalStore: its connection is behind a mutex, so   *)
(* it runs one call at a time, but calls of different handles interleave.  *)
(* SQLite makes every write transaction (BEGIN IMMEDIATE) atomic; what a   *)
(* call reads BEFORE that transaction is kept in call[h] and may be stale  *)
(* when the write lock is finally granted (busy_timeout is 30 s).          *)
(***************************************************************************)
EXTENDS Integers, FiniteSets, Sequences

CONSTANTS
  Handle,                 \* open stores (processes), each with a connection
  Source,                 \* source files: (type, location, path)
  Path, PathOf,           \* the path of a source; two sources may share one
  Session, SeqNo, Data,    \* what tells two events apart
  Root, NoRoot,           \* project roots, as spelled; NoRoot: unattributed
  Dir, DirOf,             \* registry_key: the directory a spelling names
  Batch,                  \* sets of events that a scan of one file can yield
  Op, NoOp,               \* ProjectionTokens a caller may pass; NoOp: None
  Erasable,               \* (scope, key) pairs the user may erase
  MaxSourceRevision,      \* bounds of the model, not of the code
  MaxProjectionRevision,
  MaxLog

Event == [session : Session, seq : SeqNo, root : Root \union {NoRoot}, data : Data]

(* (session, seq) is what the unique key of raw_events adds to a generation *)
Key(e) == <<e.session, e.seq>>

Tombstone == [scope : {"session"}, key : Session]
       \union [scope : {"source_path"}, key : Path]
       \union [scope : {"project_root"}, key : Root]

ASSUME StoreAssumption ==
  /\ PathOf \in [Source -> Path]
  /\ DirOf \in [Root -> Dir]
  /\ NoRoot \notin Root
  /\ NoOp \notin Op
  /\ Erasable \subseteq Tombstone
  /\ Batch \subseteq SUBSET Event
  /\ \A b \in Batch : IsFiniteSet(b) /\ \A e, f \in b : Key(e) = Key(f) => e = f
  /\ MaxSourceRevision \in Nat
  /\ MaxProjectionRevision \in Nat
  /\ MaxLog \in Nat

VARIABLES
  rows,        \* raw_events
  ledger,      \* projections: why each generation exists
  head,        \* current_head: a row per source ever projected
  feed,        \* projection_log: the change-feed
  applied,     \* applied_projections: tokens already honoured
  tombstones,  \* what the user erased
  dataKeys,    \* data_keys: one key per (source, project root)
  call         \* the call each handle is in the middle of

vars == <<rows, ledger, head, feed, applied, tombstones, dataKeys, call>>

-----------------------------------------------------------------------------
Rev == Nat \X Nat
Mode == {"append", "rollback", "reparse"}

Row == [src : Source, rev : Rev, ev : Event]
LedgerEntry == [src : Source, rev : Rev, origin : Mode]
FeedEntry == [src : Source, old : Rev, new : Rev, reason : Mode]

(* A rewrite's token names its operation, the head it read and its size.   *)
RewriteOp == {"reattribute", "recompute"} \X Rev \X Nat
AppliedToken == [src : Source, op : Op \union RewriteOp, at : Rev]

NoExpect == [rows |-> -1, rev |-> <<0, 0>>]
Expect == [rows : Nat, rev : Rev]

Idle == [step |-> "idle"]
Applying == [step : {"screening", "prepared", "queued"}, src : Source, mode : Mode,
             batch : SUBSET Event, op : Op \union {NoOp} \union RewriteOp,
             expect : Expect \union {NoExpect}, moved : SUBSET (Root \union {NoRoot}),
             head : Rev]
OldGeneration == [src : Source, rev : Rev, n : Nat, head : Rev]
Reclaiming == [step : {"reclaiming"}, plan : SUBSET OldGeneration]

-----------------------------------------------------------------------------
HeadOf(s) == IF s \in DOMAIN head THEN head[s] ELSE <<0, 0>>
At(s, v) == {r \in rows : r.src = s /\ r.rev = v}
Current(s) == At(s, HeadOf(s))

(* A definition named X_Something, right before X, is X as a plausible bug *)
(* would have it; the specification never uses it.                         *)
Target(mode, v) ==
  CASE mode = "append"   -> v
    [] mode = "rollback" -> <<v[1] + 1, 0>>
    [] mode = "reparse"  -> <<v[1], v[2] + 1>>

Matches(t, s, e) ==
  \/ t.scope = "session" /\ t.key = e.session
  \/ t.scope = "source_path" /\ t.key = PathOf[s]
  \/ t.scope = "project_root" /\ t.key = e.root

Erased(s, e) == \E t \in tombstones : Matches(t, s, e)

Honoured(s, op) == \E t \in applied : t.src = s /\ t.op = op

Admitted_NoTombstones(s, v, batch) ==
  {e \in batch : \A r \in At(s, v) : Key(r.ev) # Key(e)}

(* What INSERT OR IGNORE really adds to generation v of s.                 *)
Admitted(s, v, batch) ==
  {e \in batch : ~Erased(s, e) /\ \A r \in At(s, v) : Key(r.ev) # Key(e)}

Init ==
  /\ rows = {}
  /\ ledger = {}
  /\ head = [s \in {} |-> <<0, 0>>]
  /\ feed = <<>>
  /\ applied = {}
  /\ tombstones = {}
  /\ dataKeys = {}
  /\ call = [h \in Handle |-> Idle]

Return(h) == call' = [call EXCEPT ![h] = Idle]
StoreUnchanged ==
  UNCHANGED <<rows, ledger, head, feed, applied, tombstones, dataKeys>>

-----------------------------------------------------------------------------
(* apply_projection, first half: the token is looked up and the head is    *)
(* read on the bare connection.  A token already honoured returns at once  *)
(* and changes nothing.  Only svault's Rollback and Reparse carry tokens.  *)
BeginApply(h, s, mode, batch, op) ==
  /\ call[h] = Idle
  /\ mode = "append" => op = NoOp
  /\ ~Honoured(s, op)
  /\ call' = [call EXCEPT ![h] =
       [step |-> "queued", src |-> s, mode |-> mode, batch |-> batch, op |-> op,
        expect |-> NoExpect, moved |-> {}, head |-> HeadOf(s)]]
  /\ StoreUnchanged

(* apply_projection, second half: one IMMEDIATE transaction.  Its target   *)
(* and the generation a Reparse supersedes come from the head read before. *)
PremiseHolds_HeadOnly(c) ==
  \/ c.expect = NoExpect
  \/ c.head = c.expect.rev /\ HeadOf(c.src) = c.expect.rev

PremiseHolds(c) ==
  \/ c.expect = NoExpect
  \/ /\ c.head = c.expect.rev
     /\ HeadOf(c.src) = c.expect.rev
     /\ Cardinality(At(c.src, c.expect.rev)) = c.expect.rows

(* A Reparse deletes what it supersedes, unless that loses events.         *)
Superseded(c, added) ==
  IF c.mode = "reparse" /\ Cardinality(added) >= Cardinality(At(c.src, c.head))
    THEN {c.head} ELSE {}

Announced_ReparseOnly(c, v) ==
  IF c.mode # "reparse" THEN feed
  ELSE Append(feed, [src |-> c.src, old |-> c.head, new |-> v, reason |-> c.mode])

Booked_NewGenerationsOnly(s, v, mode) ==
  IF mode = "append" THEN {} ELSE {[src |-> s, rev |-> v, origin |-> mode]}

(* INSERT OR IGNORE INTO projections: the first reason to exist stays.     *)
Booked(s, v, mode) ==
  IF \E l \in ledger : l.src = s /\ l.rev = v THEN {}
  ELSE {[src |-> s, rev |-> v, origin |-> mode]}

(* current_head is upserted, projection_log gets a row iff the head moves. *)
MovedHead(s, v) == [x \in DOMAIN head \union {s} |-> IF x = s THEN v ELSE head[x]]

Announced(c, v) ==
  IF v = c.head THEN feed
  ELSE Append(feed, [src |-> c.src, old |-> c.head, new |-> v, reason |-> c.mode])

CommitApply(h) ==
  LET c == call[h]
      s == c.src
      v == Target(c.mode, c.head)
      added == Admitted(s, v, c.batch)
      dead == Superseded(c, added)
  IN
  /\ c.step = "queued"
  /\ PremiseHolds(c)
  /\ ~Honoured(s, c.op)
  /\ v[1] <= MaxSourceRevision /\ v[2] <= MaxProjectionRevision
  /\ v # c.head => Len(feed) < MaxLog
  /\ rows' = {r \in rows : ~(r.src = s /\ r.rev \in dead)}
               \union {[src |-> s, rev |-> v, ev |-> e] : e \in added}
  /\ ledger' = {l \in ledger : ~(l.src = s /\ l.rev \in dead)}
                 \union Booked(s, v, c.mode)
  /\ head' = MovedHead(s, v)
  /\ feed' = Announced(c, v)
  /\ applied' = IF c.op = NoOp THEN applied
                ELSE applied \union {[src |-> s, op |-> c.op, at |-> v]}
  /\ dataKeys' = dataKeys \union {<<s, e.root>> : e \in {x \in c.batch : ~Erased(s, x)}}
  /\ UNCHANGED tombstones
  /\ Return(h)

GiveUp_TokenKept(h) ==
  /\ call[h] # Idle
  /\ Return(h)
  /\ applied' = IF call[h].step = "queued" /\ call[h].op # NoOp
                THEN applied \union {[src |-> call[h].src, op |-> call[h].op,
                                     at |-> Target(call[h].mode, call[h].head)]}
                ELSE applied
  /\ UNCHANGED <<rows, ledger, head, feed, tombstones, dataKeys>>

(* The transaction writes nothing: the premise failed, the token's primary *)
(* key collided, SQLite gave up waiting, or the process died.              *)
GiveUp(h) ==
  /\ call[h] # Idle
  /\ Return(h)
  /\ StoreUnchanged

-----------------------------------------------------------------------------
(* decode_generation_on: a source is left alone when an event of it cannot *)
(* be decoded.                                                             *)
Decodes(s) == \A r \in Current(s) : <<s, r.ev.root>> \in dataKeys

(* reattribute and recompute_attribution read the current projection,      *)
(* rewrite the project roots of its events, and write it back as a Reparse *)
(* on the premise that head and row count are still those that were read.  *)
Prepare(h, s, what, step, batch, moved) ==
  LET n == Cardinality(Current(s)) IN
  call' = [call EXCEPT ![h] =
    [step |-> step, src |-> s, mode |-> "reparse", batch |-> batch,
     op |-> <<what, HeadOf(s), n>>, expect |-> [rows |-> n, rev |-> HeadOf(s)],
     moved |-> moved, head |-> HeadOf(s)]]

(* to: what the registry now spells each root as; never another directory. *)
BeginReattribute(h, s, to) ==
  /\ call[h] = Idle
  /\ Decodes(s)
  /\ \A p \in Root : DirOf[to[p]] = DirOf[p]
  /\ \E r \in Current(s) : r.ev.root \in Root /\ to[r.ev.root] # r.ev.root
  /\ Prepare(h, s, "reattribute", "prepared",
             {IF r.ev.root \in Root THEN [r.ev EXCEPT !.root = to[r.ev.root]]
              ELSE r.ev : r \in Current(s)}, {})
  /\ StoreUnchanged

(* to: the root each event's cwd belongs to under the current registry.    *)
BeginRecompute(h, s, to) ==
  /\ call[h] = Idle
  /\ Decodes(s)
  /\ \E r \in Current(s) : to[r] # r.ev.root
  /\ Prepare(h, s, "recompute", "screening",
             {[r.ev EXCEPT !.root = to[r]] : r \in Current(s)},
             {to[r] : r \in {x \in Current(s) : to[x] # x.ev.root}})
  /\ StoreUnchanged

(* erased_roots: a source is left alone when an event would move under an  *)
(* erased root; the answer is not looked at again in the transaction.      *)
ErasedRoots(roots) == {p \in roots : [scope |-> "project_root", key |-> p] \in tombstones}

ScreenErasedRoots(h) ==
  /\ call[h].step = "screening"
  /\ call' = [call EXCEPT ![h] =
       IF ErasedRoots(call[h].moved) # {}
         THEN Idle ELSE [call[h] EXCEPT !.step = "prepared"]]
  /\ StoreUnchanged

(* write_rewritten calls apply_projection_if: token and head are read.     *)
QueueRewrite(h) ==
  /\ call[h].step = "prepared"
  /\ ~Honoured(call[h].src, call[h].op)
  /\ call' = [call EXCEPT ![h].step = "queued", ![h].head = HeadOf(call[h].src)]
  /\ StoreUnchanged

-----------------------------------------------------------------------------
Covering_ExactString(t) == {t}

(* tombstone_covering: every spelling of the erased directory that the     *)
(* store has a key for gets its own tombstone; rows go, and so do the keys *)
(* no row needs any more, all in one transaction.                          *)
Covering(t) ==
  {t} \union IF t.scope # "project_root" THEN {}
             ELSE {[scope |-> "project_root", key |-> p] :
                     p \in {q \in Root : /\ DirOf[q] = DirOf[t.key]
                                         /\ \E k \in dataKeys : k[2] = q}}

NeededKeys_CurrentOnly(left) ==
  {k \in dataKeys : \E r \in left : /\ r.src = k[1] /\ r.ev.root = k[2]
                                    /\ r.rev = HeadOf(r.src)}

NeededKeys(left) ==
  {k \in dataKeys : \E r \in left : r.src = k[1] /\ r.ev.root = k[2]}

Erase(h, t) ==
  LET ts == Covering(t)
      left == {r \in rows : ~\E u \in ts : Matches(u, r.src, r.ev)}
  IN
  /\ call[h] = Idle
  /\ tombstones' = tombstones \union ts
  /\ rows' = left
  /\ dataKeys' = NeededKeys(left)
  /\ UNCHANGED <<ledger, head, feed, applied, call>>

(* gc as it was before its third condition (same source revision) came in. *)
Garbage_AnySource == {l \in ledger : l.origin = "reparse" /\ l.rev # HeadOf(l.src)}

(* gc_superseded_projections: earlier parses of the bytes the head parses. *)
Garbage == {l \in ledger : /\ l.origin = "reparse"
                           /\ l.rev[1] = HeadOf(l.src)[1]
                           /\ l.rev # HeadOf(l.src)}

Gc(h) ==
  /\ call[h] = Idle
  /\ rows' = {r \in rows : ~\E l \in Garbage : l.src = r.src /\ l.rev = r.rev}
  /\ ledger' = ledger \ Garbage
  /\ UNCHANGED <<head, feed, applied, tombstones, dataKeys, call>>

-----------------------------------------------------------------------------
(* rollback_coverage: an old source revision is covered when every one of  *)
(* its events has a counterpart of its own in the current projection that  *)
(* says the same; seq and attribution are not part of what it says.        *)
SayingTheSame(R, e) ==
  {r \in R : r.ev.session = e.session /\ r.ev.data = e.data}

Covered(old, current) ==
  \A r \in old : Cardinality(SayingTheSame(old, r.ev))
                   <= Cardinality(SayingTheSame(current, r.ev))

OldGenerations ==
  {[src |-> r.src, rev |-> r.rev, n |-> Cardinality(At(r.src, r.rev)),
    head |-> HeadOf(r.src)] : r \in {x \in rows : x.rev[1] < HeadOf(x.src)[1]}}

(* reclaim_covered_rollbacks decrypts and compares outside any transaction *)
BeginReclaim(h) ==
  LET plan == {g \in OldGenerations : Covered(At(g.src, g.rev), Current(g.src))} IN
  /\ call[h] = Idle
  /\ plan # {}
  /\ call' = [call EXCEPT ![h] = [step |-> "reclaiming", plan |-> plan]]
  /\ StoreUnchanged

(* reclaim_generations: each one only if head and row count still agree.   *)
CommitReclaim(h) ==
  LET still == {g \in call[h].plan : /\ HeadOf(g.src) = g.head
                                     /\ Cardinality(At(g.src, g.rev)) = g.n}
      Reclaimed(s, v) == \E g \in still : g.src = s /\ g.rev = v
  IN
  /\ call[h].step = "reclaiming"
  /\ rows' = {r \in rows : ~Reclaimed(r.src, r.rev)}
  /\ ledger' = {l \in ledger : ~Reclaimed(l.src, l.rev)}
  /\ UNCHANGED <<head, feed, applied, tombstones, dataKeys>>
  /\ Return(h)

-----------------------------------------------------------------------------
Apply(h) ==
  \/ \E s \in Source, mode \in Mode, b \in Batch, op \in Op \union {NoOp} :
       BeginApply(h, s, mode, b, op)
  \/ CommitApply(h)
  \/ GiveUp(h)

Rewrite(h) ==
  \/ \E s \in Source, to \in [Root -> Root] : BeginReattribute(h, s, to)
  \/ \E s \in Source : \E to \in [Current(s) -> Root \union {NoRoot}] :
       BeginRecompute(h, s, to)
  \/ ScreenErasedRoots(h)
  \/ QueueRewrite(h)

Remove(h) ==
  \/ \E t \in Erasable : Erase(h, t)
  \/ Gc(h)
  \/ BeginReclaim(h)
  \/ CommitReclaim(h)

Next == \E h \in Handle : Apply(h) \/ Rewrite(h) \/ Remove(h)

Spec == Init /\ [][Next]_vars

-----------------------------------------------------------------------------
(* Every variable has its type.                                            *)
TypeOK ==
  /\ rows \subseteq Row
  /\ ledger \subseteq LedgerEntry
  /\ DOMAIN head \subseteq Source /\ \A s \in DOMAIN head : head[s] \in Rev
  /\ feed \in Seq(FeedEntry)
  /\ applied \subseteq AppliedToken
  /\ tombstones \subseteq Tombstone
  /\ dataKeys \subseteq Source \X (Root \union {NoRoot})
  /\ call \in [Handle -> {Idle} \union Applying \union Reclaiming]

(* What the user erased is not in the store, however erasures, scans and   *)
(* rewrites of several processes interleave (store.rs, tombstone: "neither *)
(* a later increment nor a full rebuild brings it back").                  *)
NoErasedRow == \A r \in rows : ~Erased(r.src, r.ev)

(* The data key of every stored row is still there: erasing destroys only  *)
(* keys that no row of any source, session or generation needs.            *)
RowsDecodable == \A r \in rows : <<r.src, r.ev.root>> \in dataKeys

(* Every stored generation has its ledger row, in every interleaving: gc   *)
(* decides by the ledger, so a generation without one is out of its reach. *)
LedgerCoversRows == \A r \in rows : \E l \in ledger : l.src = r.src /\ l.rev = r.rev

(* A recorded token names a generation that was really opened, and that    *)
(* consumers were told of: token, rows and change-feed commit together.    *)
TokenNamesOpenedGeneration ==
  \A t \in applied : \E i \in DOMAIN feed : feed[i].src = t.src /\ feed[i].new = t.at

(* Erasing a project root removes the directory's rows under every         *)
(* spelling: data_keys knows every spelling that any stored row has.       *)
ErasureCoversDirectory ==
  [][\A t \in tombstones' \ tombstones :
       t.scope = "project_root" =>
         \A r \in rows' : r.ev.root \in Root => DirOf[r.ev.root] # DirOf[t.key]]_vars

(* Rows of an earlier source revision are the only copy of bytes that are  *)
(* gone from the disk: they leave the store only when the user erases them *)
(* or when the current projection says all of it again.                    *)
OnlyCopyKept ==
  [][\A r \in rows :
       r.rev[1] < HeadOf(r.src)[1] /\ r \notin rows' =>
         \/ \E t \in tombstones' : Matches(t, r.src, r.ev)
         \/ Covered(At(r.src, r.rev), Current(r.src))]_vars

SameEvent(e, f) == Key(e) = Key(f) /\ e.data = f.data

(* A rewrite of attributions commits in this step.                         *)
RewriteCommits(h) ==
  /\ call[h].step = "queued" /\ call[h].expect # NoExpect
  /\ call'[h] # call[h] /\ <<rows, head>>' # <<rows, head>>

(* Everything that c read is still in the generation that it read.         *)
ReadIsThere(c) ==
  \A e \in c.batch : \E r \in At(c.src, c.expect.rev) : SameEvent(r.ev, e)

(* The new generation does not take the event e as c has rewritten it: its *)
(* new root is erased, or a stale process has left a row in its place.     *)
NotTaken(c, e) ==
  \E f \in c.batch :
    /\ SameEvent(e, f)
    /\ f \notin Admitted(c.src, Target(c.mode, c.head), {f})

(* A rewrite works on what it read outside any transaction, and commits    *)
(* while other processes append, roll back, re-parse, erase and rewrite.   *)
(* It does not cover what they wrote (store.rs, apply_projection_if): all  *)
(* that is current when it commits is current in the generation it opens,  *)
(* or is kept where it was.  The premise is head and row count: that an    *)
(* event which was read has gone and another has come is not seen by it.   *)
RewriteLosesNothing ==
  [][\A h \in Handle : RewriteCommits(h) /\ ReadIsThere(call[h]) =>
       \A r \in Current(call[h].src) :
         \/ \E q \in rows' : /\ q.src = r.src /\ q.rev = head'[r.src]
                            /\ SameEvent(q.ev, r.ev)
         \/ r \in rows' /\ NotTaken(call[h], r.ev)]_vars

-----------------------------------------------------------------------------
(* What a consumer may rely on, and that the store, used by one process at *)
(* a time, keeps it: see SourceView.                                       *)
View == INSTANCE SourceView WITH
  Hit <- Matches,
  view <- [s \in Source |-> {r.ev : r \in Current(s)}],
  version <- [s \in Source |-> Cardinality({i \in DOMAIN feed : feed[i].src = s})],
  forgotten <- tombstones

(* The store implements the consumer's contract.                           *)
ImplementsSourceView == View!Spec
=============================================================================
