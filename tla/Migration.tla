------------------------------ MODULE Migration ------------------------------
(***************************************************************************)
(* What opening a store does to it.  A store written by an earlier program *)
(* is brought to the present shape by whoever opens it (migrate), step by  *)
(* step: some steps are transactions, most decide from something read      *)
(* before, any other program may open the same file meanwhile, and a       *)
(* program may be killed between two steps.                                *)
(***************************************************************************)
EXTENDS Integers, FiniteSets, FiniteSetsExt

CONSTANTS
  Program,      \* programs that open the store
  File,         \* source files
  Stores,       \* the stores they may find
  None,
  MaxWrites, MaxCrashes    \* bounds of the model

VARIABLES
  raw,       \* the table raw_events: its shape and its rows
  left,      \* raw_events_pre_srev, the table set aside while raw is rewritten
  identity,  \* project_identity: keyed by its observers too?  and the time each root was seen
  tables,    \* the other tables that are there
  ledger,    \* projections: the <<file, source revision, projection revision>> listed
  head,      \* current_head
  marks,     \* store_meta: what is known to be done
  keys,      \* files whose group has a data key
  program,   \* where each program is in opening, and what it remembers
  found,     \* history: the store as it was found
  twice,     \* history: a table already rewritten was rewritten again
  writes, crashes

vars == <<raw, left, identity, tables, ledger, head, marks, keys, program, found, twice,
          writes, crashes>>
store == <<raw, left, identity, tables, ledger, head, marks, keys>>
bounds == <<found, twice, writes, crashes>>

-----------------------------------------------------------------------------
(* Shapes of raw_events: no table, one row per event, one per event and    *)
(* generation, one per event and both revisions, and this with the time    *)
(* as a number.                                                            *)
Shapes == {"none", "flat", "generation", "revisions", "current"}
HasRevisions(shape) == shape \in {"revisions", "current"}
NoTable == [shape |-> "none", rows |-> {}]
EmptyTable == [shape |-> "current", rows |-> {}]

(* event_aad: what the ciphertext of a row is bound to, by the version the *)
(* row itself names.  In a table with generations, srev is the generation. *)
EventAad(r) ==
  IF r.aad >= 2 THEN <<2, r.file, r.seq, r.srev, r.prev>> ELSE <<1, r.file, r.seq, r.srev>>

(* decode_event_on: under the data key of the group, or the master key.    *)
Opens(r) ==
  /\ r.env.aad = EventAad(r)
  /\ \/ r.env.by = "group" /\ r.file \in keys
     \/ r.env.by = "master"

Readable(r) == r.env.by = "plain" \/ r.env.aad = EventAad(r)

Sealed(r) == [r EXCEPT !.env = [by |-> "group", aad |-> EventAad(r)]]
Legacy == {r \in raw.rows : r.env.by # "group"}

Coordinates(r) == <<r.file, r.srev, r.prev>>
SameEvent(r, s) == r.file = s.file /\ r.seq = s.seq /\ r.srev = s.srev /\ r.prev = s.prev
Unique(rows) == \A r, s \in rows : SameEvent(r, s) => r = s

(* The SELECT that moves rows, by the columns it takes the revisions from. *)
MovedRow(r, from) ==
  [r EXCEPT !.srev = IF from = "zero" THEN 0 ELSE @,
            !.prev = IF from = "own" THEN @ ELSE 0,
            !.aad = IF from = "own" THEN @ ELSE 1,
            !.ms = TRUE]
Moved(rows, from) == {MovedRow(r, from) : r \in rows}

OrphanFrom_Old(shape) == IF shape = "generation" THEN "generation" ELSE "zero"

OrphanFrom(shape) == CASE HasRevisions(shape) -> "own"
                       [] shape = "generation" -> "generation"
                       [] OTHER -> "zero"

Greatest(f) ==
  LET of == {r \in raw.rows : r.file = f}
  IN  CHOOSE g \in {<<r.srev, r.prev>> : r \in of} :
        \A r \in of : r.srev < g[1] \/ (r.srev = g[1] /\ r.prev <= g[2])

Others == {"coordinates", "data_keys"}
Marks == {"coords_backfilled", "encryption_version"}

-----------------------------------------------------------------------------
(* Types, and what the stores of earlier programs have in common.          *)
Aad == {<<>>} \union ({1} \X File \X Nat \X Nat) \union ({2} \X File \X Nat \X Nat \X Nat)
Event == {"found", "written"} \X Nat
EventRow == [off : Nat, file : File, seq : Nat, srev : Nat, prev : Nat, aad : {1, 2}, ms : BOOLEAN,
             env : [by : {"plain", "master", "group"}, aad : Aad], event : Event]
Sighting == [root : STRING, by : STRING \union {None}, first : Nat, last : Nat]

StoreTypeOK(s) ==
  /\ s.raw \in [shape : Shapes, rows : SUBSET EventRow]
  /\ s.left \in [shape : Shapes, rows : SUBSET EventRow]
  /\ s.identity \in [observed : BOOLEAN, rows : SUBSET Sighting]
  /\ s.tables \subseteq Others /\ s.marks \subseteq Marks /\ s.keys \subseteq File
  /\ s.ledger \subseteq File \X Nat \X Nat
  /\ s.head \in [File -> (Nat \X Nat) \union {None}]

(* A table without revisions has rows of none; no table has no rows.       *)
Fits(table) ==
  /\ table.shape = "none" => table.rows = {}
  /\ ~HasRevisions(table.shape) => \A r \in table.rows :
       r.prev = 0 /\ r.aad = 1 /\ (table.shape = "flat" => r.srev = 0)

OffsetsUnique(rows) == \A r, s \in rows : r.off = s.off => r = s
Bound(r, withKey) == Readable(r) /\ (r.env.by = "group" => r.file \in withKey)

(* No other event has taken the place of one in a table set aside.         *)
Unclaimed(table, aside) ==
  \A r \in table.rows, s \in Moved(aside.rows, OrphanFrom(aside.shape)) :
    r.off # s.off /\ ~SameEvent(r, s)

IsNewest(g, rows, f) ==
  /\ \E r \in rows : r.file = f /\ g = <<r.srev, r.prev>>
  /\ \A r \in rows : r.file = f => r.srev < g[1] \/ (r.srev = g[1] /\ r.prev <= g[2])

(* Plain rows are older than all others.                                   *)
PlainFirst(rows) ==
  \A r, s \in rows : r.env.by = "plain" /\ s.env.by # "plain" => r.off < s.off

(* A head is that of the newest rows, in a store that has not been open to *)
(* a program with data keys; where heads were filled in, none is missing.  *)
HeadsRight(s) ==
  /\ \A f \in File : s.head[f] # None => s.left = NoTable /\ IsNewest(s.head[f], s.raw.rows, f)
  /\ "coords_backfilled" \in s.marks => \A r \in s.raw.rows \union s.left.rows : s.head[r.file] # None

ASSUME MigrationAssumption ==
  /\ None \notin Nat \X Nat
  /\ \A s \in Stores :
       /\ StoreTypeOK(s)
       /\ IsFiniteSet(s.raw.rows) /\ IsFiniteSet(s.left.rows) /\ IsFiniteSet(s.identity.rows)
       /\ Fits(s.raw) /\ Fits(s.left) /\ Unclaimed(s.raw, s.left)
       /\ OffsetsUnique(s.raw.rows) /\ OffsetsUnique(s.left.rows)
       /\ \A r \in s.raw.rows \union s.left.rows : Bound(r, s.keys)
       /\ "data_keys" \notin s.tables => HeadsRight(s) /\ PlainFirst(s.raw.rows \union s.left.rows)

-----------------------------------------------------------------------------
Closed == [at |-> "closed", saw |-> None, remembers |-> {}]

Init ==
  /\ \E s \in Stores :
       /\ raw = s.raw /\ left = s.left /\ identity = s.identity
       /\ tables = s.tables /\ ledger = s.ledger /\ head = s.head
       /\ marks = s.marks /\ keys = s.keys
       /\ found = s
  /\ program = [p \in Program |-> Closed]
  /\ twice = FALSE /\ writes = 0 /\ crashes = 0

At(p, step) == program[p].at = step
Go(p, step, saw, remembers) ==
  program' = [program EXCEPT ![p] = [at |-> step, saw |-> saw, remembers |-> remembers]]
Continue(p, step) == Go(p, step, None, {})

(* An SQL error: the transaction is undone and open returns it.            *)
Fail(p) == program' = [program EXCEPT ![p] = Closed] /\ UNCHANGED <<store, bounds>>

(* from_conn, migrate: the first tables, and whether identities have       *)
(* observers.                                                              *)
Begin(p) ==
  /\ At(p, "closed")
  /\ Go(p, "identity", IF identity.observed THEN "observers" ELSE "roots", {})
  /\ UNCHANGED <<store, bounds>>

(* One line for every root, seen from the first time to the last.          *)
MergedIdentity_Latest ==
  LET Latest(x) == CHOOSE i \in identity.rows :
                     i.root = x /\ \A j \in identity.rows : j.root = x => j.last <= i.last
  IN  [observed |-> FALSE, rows |-> {[Latest(i.root) EXCEPT !.by = None] : i \in identity.rows}]

MergedIdentity ==
  LET Roots == {i.root : i \in identity.rows}
  IN  [observed |-> FALSE,
       rows |-> {[root |-> x, by |-> None,
                  first |-> Min({i.first : i \in {j \in identity.rows : j.root = x}}),
                  last |-> Max({i.last : i \in {j \in identity.rows : j.root = x}})] : x \in Roots}]

RewriteIdentity(p) ==
  /\ At(p, "identity")
  /\ identity' = IF program[p].saw = "observers" THEN MergedIdentity ELSE identity
  /\ Continue(p, "look")
  /\ UNCHANGED <<raw, left, tables, ledger, head, marks, keys, bounds>>

LookAtShape(p) ==
  /\ At(p, "look")
  /\ Go(p, "rewrite", raw.shape, {})
  /\ UNCHANGED <<store, bounds>>

(* No table: made anew.  No revisions: renamed, made anew, filled from the *)
(* generation, dropped, in one transaction.  What decides was read before. *)
RewriteFrom(shape) == IF shape = "generation" THEN "generation" ELSE "zero"

CanRewrite(shape) ==
  /\ left = NoTable
  /\ shape = "generation" => raw.shape = "generation"
  /\ Unique(Moved(raw.rows, RewriteFrom(shape)))

Rewrite(p) ==
  /\ At(p, "rewrite")
  /\ LET saw == program[p].saw
     IN  IF saw = "none"
         THEN /\ raw' = IF raw = NoTable THEN EmptyTable ELSE raw
              /\ Go(p, "orphan", saw, {})
              /\ UNCHANGED <<left, identity, tables, ledger, head, marks, keys, bounds>>
         ELSE IF HasRevisions(saw)
         THEN Go(p, "orphan", saw, {}) /\ UNCHANGED <<store, bounds>>
         ELSE IF CanRewrite(saw)
         THEN /\ raw' = [shape |-> "current", rows |-> Moved(raw.rows, RewriteFrom(saw))]
              /\ twice' = (twice \/ HasRevisions(raw.shape))
              /\ Go(p, "orphan", saw, {})
              /\ UNCHANGED <<left, identity, tables, ledger, head, marks, keys, found, writes,
                             crashes>>
         ELSE Fail(p)

(* A table left aside by a rewrite that was cut short is taken back, with  *)
(* the revisions it has; a row whose place is taken is passed over.        *)
LookForOrphan_OldOnly(p) ==
  /\ At(p, "orphan")
  /\ Go(p, IF left = NoTable \/ HasRevisions(program[p].saw) THEN "column" ELSE "recover",
        program[p].saw, {})
  /\ UNCHANGED <<store, bounds>>

LookForOrphan(p) ==
  /\ At(p, "orphan")
  /\ Go(p, IF left = NoTable THEN "column" ELSE "recover", program[p].saw, {})
  /\ UNCHANGED <<store, bounds>>

Untaken(rows) == {r \in rows : \A s \in raw.rows : s.off # r.off /\ ~SameEvent(r, s)}

Recover(p) ==
  /\ At(p, "recover")
  /\ IF left = NoTable \/ raw.shape # "current" THEN Fail(p)
     ELSE /\ raw' = [raw EXCEPT !.rows = @ \union Untaken(Moved(left.rows, OrphanFrom(left.shape)))]
          /\ left' = NoTable
          /\ Go(p, "column", program[p].saw, {})
          /\ UNCHANGED <<identity, tables, ledger, head, marks, keys, bounds>>

(* ALTER TABLE ADD COLUMN fails when the column is there.                  *)
AddColumn(p) ==
  /\ At(p, "column")
  /\ IF program[p].saw # "revisions"
     THEN Continue(p, "coordinates") /\ UNCHANGED <<store, bounds>>
     ELSE IF raw.shape = "current" THEN Fail(p)
     ELSE /\ raw' = [raw EXCEPT !.shape = "current"]
          /\ Continue(p, "coordinates")
          /\ UNCHANGED <<left, identity, tables, ledger, head, marks, keys, bounds>>

-----------------------------------------------------------------------------
(* The ledger and the heads of rows older than both, filled in once.       *)
MakeCoordinates_AllTables(p) ==
  /\ At(p, "coordinates")
  /\ tables' = Others
  /\ Continue(p, IF "coords_backfilled" \in marks THEN "times" ELSE "ledger")
  /\ UNCHANGED <<raw, left, identity, ledger, head, marks, keys, bounds>>

MakeCoordinates(p) ==
  /\ At(p, "coordinates")
  /\ tables' = tables \union {"coordinates"}
  /\ Continue(p, IF "coords_backfilled" \in marks THEN "times" ELSE "ledger")
  /\ UNCHANGED <<raw, left, identity, ledger, head, marks, keys, bounds>>

FillLedger(p) ==
  /\ At(p, "ledger")
  /\ ledger' = ledger \union {Coordinates(r) : r \in raw.rows}
  /\ Continue(p, "heads")
  /\ UNCHANGED <<raw, left, identity, tables, head, marks, keys, bounds>>

FilledHead(f) ==
  IF head[f] = None /\ \E r \in raw.rows : r.file = f THEN Greatest(f) ELSE head[f]

FillHeads(p) ==
  /\ At(p, "heads")
  /\ head' = [f \in File |-> FilledHead(f)]
  /\ Continue(p, "mark")
  /\ UNCHANGED <<raw, left, identity, tables, ledger, marks, keys, bounds>>

MarkCoordinates(p) ==
  /\ At(p, "mark")
  /\ marks' = marks \union {"coords_backfilled"}
  /\ Continue(p, "times")
  /\ UNCHANGED <<raw, left, identity, tables, ledger, head, keys, bounds>>

FillTimes(p) ==
  /\ At(p, "times")
  /\ raw' = [raw EXCEPT !.rows = {[r EXCEPT !.ms = TRUE] : r \in @}]
  /\ Continue(p, "keys")
  /\ UNCHANGED <<left, identity, tables, ledger, head, marks, keys, bounds>>

-----------------------------------------------------------------------------
(* migrate_event_envelopes: rows not under the key of their group are read *)
(* first and written back in one transaction.                              *)
MakeKeys(p) ==
  /\ At(p, "keys")
  /\ tables' = tables \union {"data_keys"}
  /\ Continue(p, "legacy")
  /\ UNCHANGED <<raw, left, identity, ledger, head, marks, keys, bounds>>

ReadLegacy(p) ==
  /\ At(p, "legacy")
  /\ IF "encryption_version" \in marks THEN Continue(p, "validate") /\ UNCHANGED <<store, bounds>>
     ELSE IF Legacy = {}
     THEN /\ marks' = marks \union {"encryption_version"}
          /\ Continue(p, "validate")
          /\ UNCHANGED <<raw, left, identity, tables, ledger, head, keys, bounds>>
     ELSE Go(p, "reseal", None, Legacy) /\ UNCHANGED <<store, bounds>>

(* UPDATE raw_events SET event_json, by offset, from the rows remembered.  *)
Resealed(r, old) ==
  IF \E s \in old : s.off = r.off
  THEN [r EXCEPT !.env = Sealed(CHOOSE s \in old : s.off = r.off).env]
  ELSE r

Reseal(p) ==
  /\ At(p, "reseal")
  /\ LET old == program[p].remembers
     IN  IF \E r \in old : ~Readable(r) THEN Fail(p)
         ELSE /\ raw' = [raw EXCEPT !.rows = {Resealed(r, old) : r \in @}]
              /\ keys' = keys \union {r.file : r \in old}
              /\ marks' = marks \union {"encryption_version"}
              /\ Continue(p, "validate")
              /\ UNCHANGED <<left, identity, tables, ledger, head, bounds>>

(* validate_cipher: the first row opens.                                   *)
FirstRowOpens == \A r \in raw.rows : (\A s \in raw.rows : r.off <= s.off) => Opens(r)

Validate(p) ==
  /\ At(p, "validate")
  /\ IF FirstRowOpens THEN Continue(p, "open") /\ UNCHANGED <<store, bounds>> ELSE Fail(p)

-----------------------------------------------------------------------------
(* A batch of one event, into the current projection or into that of a     *)
(* rewritten file (apply_projection).                                      *)
HeadOf(f) == IF head[f] = None THEN <<0, 0>> ELSE head[f]
NextOffset == 1 + Max({0} \union {r.off : r \in raw.rows})
NextSeq(f, to) ==
  LET there == {r \in raw.rows : Coordinates(r) = <<f, to[1], to[2]>>}
  IN  1 + Max({0} \union {r.seq : r \in there})

Write(p, f, to) ==
  /\ At(p, "open") /\ writes < MaxWrites
  /\ raw' = [raw EXCEPT !.rows = @ \union
       {Sealed([off |-> NextOffset, file |-> f, seq |-> NextSeq(f, to), srev |-> to[1],
                prev |-> to[2], aad |-> 2, ms |-> TRUE, env |-> None,
                event |-> <<"written", writes>>])}]
  /\ ledger' = ledger \union {<<f, to[1], to[2]>>}
  /\ head' = [head EXCEPT ![f] = to]
  /\ keys' = keys \union {f}
  /\ writes' = writes + 1
  /\ UNCHANGED <<left, identity, tables, marks, program, found, twice, crashes>>

Append(p, f) == Write(p, f, HeadOf(f))
Rollback(p, f) == \E r \in raw.rows : r.file = f /\ Write(p, f, <<HeadOf(f)[1] + 1, 0>>)

Close(p) ==
  /\ At(p, "open")
  /\ program' = [program EXCEPT ![p] = Closed]
  /\ UNCHANGED <<store, bounds>>

Crash(p) ==
  /\ ~At(p, "closed") /\ crashes < MaxCrashes
  /\ crashes' = crashes + 1
  /\ program' = [program EXCEPT ![p] = Closed]
  /\ UNCHANGED <<store, found, twice, writes>>

-----------------------------------------------------------------------------
Migrate(p) ==
  \/ RewriteIdentity(p) \/ LookAtShape(p) \/ Rewrite(p) \/ LookForOrphan(p) \/ Recover(p)
  \/ AddColumn(p) \/ MakeCoordinates(p) \/ FillLedger(p) \/ FillHeads(p) \/ MarkCoordinates(p)
  \/ FillTimes(p) \/ MakeKeys(p) \/ ReadLegacy(p) \/ Reseal(p) \/ Validate(p)

Next ==
  \E p \in Program :
    \/ Begin(p)
    \/ Migrate(p)
    \/ \E f \in File : Append(p, f) \/ Rollback(p, f)
    \/ Close(p)
    \/ Crash(p)

Spec == Init /\ [][Next]_vars

(* Whoever started opening goes on, and some program opens the store again *)
(* (every command and every tick of a host does).                          *)
FairSpec == Spec /\ \A p \in Program : WF_vars(Migrate(p)) /\ WF_vars(Begin(p))

-----------------------------------------------------------------------------
(* open_read_only: every table and column a current program has is there   *)
(* (or the error is SchemaBehind), and the first row opens.                *)
Admitted == raw.shape = "current" /\ tables = Others /\ FirstRowOpens

(* read_session: the rows of the current projection that open.             *)
Shown(f) == {r.event : r \in {s \in raw.rows : /\ Coordinates(s) = <<f, HeadOf(f)[1], HeadOf(f)[2]>>
                                               /\ Opens(s)}}

Newest(f) ==
  LET of == {r \in raw.rows : r.file = f}
  IN  {r.event : r \in {s \in of : <<s.srev, s.prev>> = Greatest(f)}}

Steps == {"closed", "identity", "look", "rewrite", "orphan", "recover", "column", "coordinates",
          "ledger", "heads", "mark", "times", "keys", "legacy", "reseal", "validate", "open"}

(* The store keeps its types, whoever brings it from whatever shape, and a *)
(* program remembers nothing but shapes and rows.                          *)
TypeOK ==
  /\ StoreTypeOK([raw |-> raw, left |-> left, identity |-> identity, tables |-> tables,
                  ledger |-> ledger, head |-> head, marks |-> marks, keys |-> keys])
  /\ program \in [Program -> [at : Steps, saw : Shapes \union {"observers", "roots", None},
                              remembers : SUBSET EventRow]]
  /\ found \in Stores
  /\ twice \in BOOLEAN /\ writes \in Nat /\ crashes \in Nat

(* No event the store was found with, or given since, is lost: its row is  *)
(* in the table, or still in the one set aside, and a root stays known     *)
(* from the first time any observer saw it to the last (migrate moves rows *)
(* and drops where they were, from flags read before).                     *)
NothingLost ==
  /\ \A n \in 0..writes - 1 : \E s \in raw.rows \union left.rows : s.event = <<"written", n>>
  /\ \A r \in found.raw.rows \union found.left.rows :
       \E s \in raw.rows \union left.rows : s.event = r.event
  /\ \A i \in found.identity.rows : \E j \in identity.rows :
       i.root = j.root /\ j.first <= i.first /\ i.last <= j.last

(* Every row stays bound to where it is: it opens, or it still waits to be *)
(* resealed and its envelope can be.  A second program must not rewrite    *)
(* what the first one has rewritten (twice: a store without generations    *)
(* opened by two programs at once, see README).                            *)
RowsStayBound ==
  ~twice => \A r \in raw.rows \union left.rows : Readable(r) /\ (r.env.by = "group" => r.file \in keys)

(* A reader that is let in sees, of every file, the newest generation and  *)
(* all of it, as before the migration ("不改变任何一个已有查询的答案"), as  *)
(* long as data_keys, made after the heads are filled, was not there yet.  *)
ReadersSeeTheNewest ==
  (Admitted /\ ~twice /\ "data_keys" \notin found.tables) =>
    \A f \in File : (\E r \in raw.rows : r.file = f) => Shown(f) = Newest(f)

(* Whatever is interrupted, the store gets to its present shape and stays: *)
(* no table aside, every row listed, timed and sealed, every file with a   *)
(* head, and both marks set.                                               *)
Migrated ==
  /\ raw.shape = "current" /\ left = NoTable /\ tables = Others /\ ~identity.observed
  /\ marks = {"coords_backfilled", "encryption_version"}
  /\ \A r \in raw.rows : r.ms /\ Coordinates(r) \in ledger /\ head[r.file] # None /\ Opens(r)

Settles == <>[](twice \/ Migrated)
=============================================================================
