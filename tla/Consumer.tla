------------------------------- MODULE Consumer -------------------------------
(***************************************************************************)
(* A program that mirrors the store through `svault`: `pull` for new rows, *)
(* `changes` for replaced projections, `sessions-recent`/`sessions-read`   *)
(* to rebuild a source, `erasures`.  Each is a process of its own that     *)
(* opens the store read-only and reads page by page, every page one        *)
(* statement; writers commit between any two pages.  The cursors are the   *)
(* consumer's, and it runs one command at a time.                          *)
(*                                                                         *)
(* The store is TotalStore seen by a reader: a source's head is the number *)
(* of times it moved, and what a row says is the generation it is from.    *)
(***************************************************************************)
EXTENDS Integers, Sequences, FiniteSets

CONSTANTS
  Source,
  Session, OfSource,       \* sessions, ordered as numbers; the source of each
  PullLimit,               \* values of pull --limit; 0 is none
  Batch,                   \* rows of one page of pull (1000 in the code)
  MaxEvents,               \* sessions-read --max-events
  ChangeLimit,             \* changes --limit
  MaxOffset, MaxMoves, MaxBad, MaxErased, MaxFailures    \* bounds of the model

ASSUME ConsumerAssumption ==
  /\ Session \subseteq Nat /\ IsFiniteSet(Session)
  /\ OfSource \in [Session -> Source]
  /\ PullLimit \subseteq Nat
  /\ Batch \in Nat \ {0} /\ MaxEvents \in Nat \ {0} /\ ChangeLimit \in Nat \ {0}
  /\ MaxOffset \in Nat /\ MaxFailures \in Nat

VARIABLES
  rows,        \* raw_events
  last,        \* sqlite_sequence: the largest offset ever given
  head,        \* current_head, as how often it moved
  feed,        \* projection_log: the source of each record
  erased,      \* tombstones, of sessions
  mirror,      \* what the consumer has
  pulled,      \* its --since for pull
  changed,     \* its --since for changes
  stale,       \* sources it has still to rebuild
  task,        \* the command it is running
  failures     \* commands that failed (bound)

store == <<rows, last, head, feed, erased>>
consumer == <<mirror, pulled, changed, stale, task, failures>>
vars == <<rows, last, head, feed, erased, mirror, pulled, changed, stale, task, failures>>

-----------------------------------------------------------------------------
Row == [off : Nat, ses : Session, seq : Nat, gen : Nat, good : BOOLEAN]
Entry == [ses : Session, seq : Nat, gen : Nat]
Told(r) == [ses |-> r.ses, seq |-> r.seq, gen |-> r.gen]
Slot(e) == <<e.ses, e.seq>>

Idle == [cmd |-> "idle"]
Pulling == [cmd : {"pull"}, cursor : Nat, emitted : Nat, limit : PullLimit, upto : Nat]
NotStarted == -1
Done == -2
Rebuilding == [cmd : {"rebuild"}, src : Source, left : 1..MaxEvents, got : SUBSET Entry,
               todo : [Session -> Nat \union {NotStarted, Done}]]

Of(x) == OfSource[x]
Current(r) == r.gen = head[Of(r.ses)] /\ r.ses \notin erased
Shown == {Told(r) : r \in {q \in rows : Current(q) /\ q.good}}

FirstByOffset(S, n) == {r \in S : Cardinality({q \in S : q.off < r.off}) < n}
FirstBySeq(S, n) == {r \in S : Cardinality({q \in S : q.seq < r.seq}) < n}
Top(S) == CHOOSE m \in S : \A k \in S : k <= m

-----------------------------------------------------------------------------
(* Writers.  An offset is never used twice, even when its row is erased.   *)
NextOffset_MaxPlusOne == Top({0} \union {r.off : r \in rows}) + 1

NextOffset == last + 1

AppendRow(x, good) ==
  LET seqs == {r.seq : r \in {q \in rows : q.ses = x /\ q.gen = head[Of(x)]}} IN
  /\ x \notin erased
  /\ NextOffset <= MaxOffset
  /\ rows' = rows \union
       {[off |-> NextOffset, ses |-> x, seq |-> Top(seqs \union {-1}) + 1,
         gen |-> head[Of(x)], good |-> good]}
  /\ last' = NextOffset
  /\ UNCHANGED <<head, feed, erased, consumer>>

(* A Rollback or a Reparse: n[x] rows of session x in a new generation; a  *)
(* Reparse removes the rows it supersedes.                                 *)
Replace(s, n, bad, supersedes) ==
  LET new == {p \in Session \X (0..MaxOffset) :
                Of(p[1]) = s /\ p[2] < n[p[1]] /\ p[1] \notin erased}
      before(p) == {q \in new : q[1] < p[1] \/ (q[1] = p[1] /\ q[2] < p[2])}
      old == {r \in rows : supersedes /\ Of(r.ses) = s /\ Current(r)}
  IN
  /\ head[s] < MaxMoves
  /\ last + Cardinality(new) <= MaxOffset
  /\ bad \subseteq new
  /\ rows' = (rows \ old) \union
       {[off |-> NextOffset + Cardinality(before(p)), ses |-> p[1], seq |-> p[2],
         gen |-> head[s] + 1, good |-> p \notin bad] : p \in new}
  /\ last' = last + Cardinality(new)
  /\ head' = [head EXCEPT ![s] = @ + 1]
  /\ feed' = Append(feed, s)
  /\ UNCHANGED <<erased, consumer>>

Erase(x) ==
  /\ x \notin erased
  /\ Cardinality(erased) < MaxErased
  /\ erased' = erased \union {x}
  /\ rows' = {r \in rows : r.ses # x}
  /\ UNCHANGED <<last, head, feed, consumer>>

BadRows == {r \in rows : ~r.good}

Write ==
  \/ \E x \in Session, good \in BOOLEAN :
       /\ good \/ Cardinality(BadRows) < MaxBad
       /\ AppendRow(x, good)
  \/ \E s \in Source :
       /\ head[s] < MaxMoves
       /\ \E n \in {m \in [Session -> 0..2] : \A x \in Session : Of(x) # s \/ x \in erased => m[x] = 0} :
            \E bad \in SUBSET {p \in Session \X {0} : n[p[1]] > 0}, sup \in BOOLEAN :
              /\ Cardinality(BadRows) + Cardinality(bad) <= MaxBad
              /\ Replace(s, n, bad, sup)
  \/ \E x \in Session : Erase(x)

-----------------------------------------------------------------------------
(* pull --projection current.  Rows that do not decode are skipped, but    *)
(* the page still ends at them.                                            *)
PullPage(cursor, n) == FirstByOffset({r \in rows : r.off > cursor /\ Current(r)}, n)

Wanted(t) ==
  IF t.limit = 0 \/ t.limit - t.emitted > Batch THEN Batch ELSE t.limit - t.emitted

Upsert(m, new) == {e \in m : \A f \in new : Slot(e) # Slot(f)} \union new

BeginPull(limit) ==
  /\ task = Idle
  /\ task' = [cmd |-> "pull", cursor |-> pulled, emitted |-> 0, limit |-> limit, upto |-> pulled]
  /\ UNCHANGED <<store, mirror, pulled, changed, stale, failures>>

CaughtUp_NoGoodRow(page) == \A r \in page : ~r.good

(* Only a page of no rows at all means that there is nothing left.         *)
CaughtUp(page) == page = {}

PullMore ==
  LET page == PullPage(task.cursor, Wanted(task))
      good == {r \in page : r.good}
  IN
  /\ task.cmd = "pull"
  /\ task.limit = 0 \/ task.emitted < task.limit
  /\ ~CaughtUp(page)
  /\ mirror' = Upsert(mirror, {Told(r) : r \in good})
  /\ task' = [task EXCEPT !.cursor = Top({r.off : r \in page}), !.emitted = @ + Cardinality(good),
                          !.upto = Top({@} \union {r.off : r \in good})]
  /\ UNCHANGED <<store, pulled, changed, stale, failures>>

(* The summary's last_offset is that of the last event, bad rows left out. *)
EndPull ==
  /\ task.cmd = "pull"
  /\ \/ task.limit # 0 /\ task.emitted >= task.limit
     \/ CaughtUp(PullPage(task.cursor, Wanted(task)))
  /\ pulled' = task.upto
  /\ task' = Idle
  /\ UNCHANGED <<store, mirror, changed, stale, failures>>

(* A command that fails half way leaves the consumer's cursors alone.      *)
Fail ==
  /\ task # Idle
  /\ failures < MaxFailures
  /\ failures' = failures + 1
  /\ task' = Idle
  /\ UNCHANGED <<store, mirror, pulled, changed, stale>>

-----------------------------------------------------------------------------
ChangesAfter(n) ==
  SubSeq(feed, n + 1, IF n + ChangeLimit < Len(feed) THEN n + ChangeLimit ELSE Len(feed))

Changes ==
  LET page == ChangesAfter(changed) IN
  /\ task = Idle
  /\ page # <<>>
  /\ stale' = stale \union {page[i] : i \in DOMAIN page}
  /\ changed' = changed + Len(page)
  /\ UNCHANGED <<store, mirror, pulled, task, failures>>

Erasures ==
  /\ task = Idle
  /\ \E e \in mirror : e.ses \in erased
  /\ mirror' = {e \in mirror : e.ses \notin erased}
  /\ UNCHANGED <<store, pulled, changed, stale, task, failures>>

-----------------------------------------------------------------------------
(* sessions-read.  One more row than the budget is looked up, to tell a    *)
(* page that is just full from one with more behind it.                    *)
CurrentRowsOf(x, after) == {r \in rows : r.ses = x /\ Current(r) /\ r.seq > after}

SessionPage(x, after, budget) ==
  LET found == FirstBySeq(CurrentRowsOf(x, after), budget + 1)
      page == FirstBySeq(found, budget)
  IN [events |-> {Told(r) : r \in {q \in page : q.good}},
      hasMore |-> found # page,
      lastSeq |-> Top({after} \union {r.seq : r \in page})]

Unread == {x \in Session : task.todo[x] = NotStarted}

(* Where to read on: a session without more rows is done.                  *)
Position(page) == IF page.hasMore THEN page.lastSeq ELSE Done

(* sessions-recent lists the sessions that have current rows.              *)
BeginRebuild(s) ==
  /\ task = Idle
  /\ s \in stale
  /\ task' = [cmd |-> "rebuild", src |-> s, left |-> MaxEvents, got |-> {},
              todo |-> [x \in Session |->
                IF Of(x) = s /\ CurrentRowsOf(x, -1) # {} THEN NotStarted ELSE Done]]
  /\ UNCHANGED <<store, mirror, pulled, changed, stale, failures>>

(* One call for every session not yet read: each is a statement of its     *)
(* own, with what the sessions before it left of --max-events.  Sessions   *)
(* the budget does not reach have has_more = None: the next call has them. *)
ReadSession(x) ==
  LET page == SessionPage(x, -1, task.left)
      left == task.left - Cardinality(page.events)
  IN
  /\ task.cmd = "rebuild"
  /\ x \in Unread
  /\ task' = [task EXCEPT !.got = @ \union page.events,
                          !.todo[x] = Position(page),
                          !.left = IF left = 0 \/ Unread = {x} THEN MaxEvents ELSE left]
  /\ UNCHANGED <<store, mirror, pulled, changed, stale, failures>>

(* --after-seq goes with exactly one session, in a call of its own.        *)
ReadOn(x) ==
  LET page == SessionPage(x, task.todo[x], MaxEvents) IN
  /\ task.cmd = "rebuild"
  /\ task.todo[x] >= 0
  /\ task.left = MaxEvents
  /\ task' = [task EXCEPT !.got = @ \union page.events, !.todo[x] = Position(page)]
  /\ UNCHANGED <<store, mirror, pulled, changed, stale, failures>>

(* Its copy of the source is replaced as a whole.                          *)
EndRebuild ==
  /\ task.cmd = "rebuild"
  /\ \A x \in Session : task.todo[x] = Done
  /\ mirror' = {e \in mirror : Of(e.ses) # task.src} \union task.got
  /\ stale' = stale \ {task.src}
  /\ task' = Idle
  /\ UNCHANGED <<store, pulled, changed, failures>>

-----------------------------------------------------------------------------
Init ==
  /\ rows = {} /\ last = 0 /\ feed = <<>> /\ erased = {}
  /\ head = [s \in Source |-> 0]
  /\ mirror = {} /\ pulled = 0 /\ changed = 0 /\ stale = {}
  /\ task = Idle /\ failures = 0

Consume ==
  \/ \E limit \in PullLimit : BeginPull(limit)
  \/ PullMore \/ EndPull
  \/ Changes \/ Erasures
  \/ \E s \in Source : BeginRebuild(s)
  \/ \E x \in Session : ReadSession(x) \/ ReadOn(x)
  \/ EndRebuild

Next == Write \/ Consume \/ Fail

Spec == Init /\ [][Next]_vars

(* A command that has begun goes on (Fail is bounded); the consumer pulls  *)
(* again and again, which it can because every command comes to an end,    *)
(* and does not put off for ever what it has to work off.                  *)
Working ==
  \/ PullMore \/ EndPull \/ EndRebuild
  \/ \E x \in Session : ReadSession(x) \/ ReadOn(x)
WorkOff == Changes \/ Erasures \/ \E s \in Source : BeginRebuild(s)

FairSpec ==
  /\ Spec
  /\ WF_vars(Working)
  /\ SF_vars(WorkOff)
  /\ []<><<\E limit \in PullLimit : BeginPull(limit)>>_vars

-----------------------------------------------------------------------------
(* Types; an offset belongs to one row and was given out (AUTOINCREMENT).  *)
TypeOK ==
  /\ rows \subseteq Row
  /\ \A q, r \in rows : q.off = r.off => q = r
  /\ last \in Nat /\ \A r \in rows : r.off \in 1..last
  /\ head \in [Source -> Nat]
  /\ feed \in Seq(Source)
  /\ erased \subseteq Session
  /\ mirror \subseteq Entry
  /\ pulled \in Nat /\ changed \in 0..Len(feed)
  /\ stale \subseteq Source
  /\ task \in {Idle} \union Pulling \union Rebuilding
  /\ failures \in 0..MaxFailures

Outdated(s) == s \in stale \/ \E i \in DOMAIN feed : i > changed /\ feed[i] = s

(* A source whose change-feed the consumer has read and worked off is      *)
(* mirrored in full up to the pull cursor: no row falls between pages, a   *)
(* page and a rebuild, or two runs of pull, whatever is written meanwhile  *)
(* (offsets are not reused, pages end at rows that do not decode).         *)
MirrorMissesNothing ==
  \A r \in rows :
    (Current(r) /\ r.good /\ r.off <= pulled /\ ~Outdated(Of(r.ses))) => Told(r) \in mirror

(* When nothing is written any more, the mirror ends equal to what the     *)
(* store shows: rows that do not decode never block pull or sessions-read, *)
(* and a session longer than --max-events can be read to its end.          *)
Converges == <>[](mirror = Shown)
=============================================================================
