# Verification of session-vault

session-vault ingests the session logs that coding agents leave on disk into one
encrypted event store (SQLite), which other programs mirror.  This directory holds
TLA+ models of it, the TLC runs that check them and the TLAPS proofs about them.
Paths below are relative to the repository (`src/...`).

## 1. Inventory

| Component | Code | State | Operations | Modules |
|---|---|---|---|---|
| Event store | `src/store.rs` | `raw_events`, `projections` (ledger), `current_head`, `projection_log` (change-feed), `applied_projections` (tokens), `tombstones`, `data_keys` | `apply_projection`, `reattribute`, `recompute_attribution`, `tombstone`, `gc_superseded_projections`, `reclaim_covered_rollbacks` | `TotalStore`, `SourceView` |
| Append-log scan and its round | `src/scan.rs`, `scan_plan.rs`, `observation.rs`, `cursor.rs`, `token.rs`, `bin/svault.rs` (`scan-all`) | the file; the state file; the store | stat, read, parse, plan, commit, save | `CommitPlan`, `ScanIngest` |
| Index of session files | `scan.rs`, `discover.rs`, `compressed.rs`, `wsl.rs` | the host's index; files in two forms | discover, stat, read, parse, prune | `Sources`, `Transcripts` |
| Consumer reads | `store.rs` (`read_*`), `bin/svault.rs` (`pull`, `changes`, `sessions-*`, `erasures`) | cursors kept by the consumer | pages, resumable reads, change-feed | `Consumer` |
| Erasure across stores | `store.rs` (`adopt_tombstones`), `bin/svault.rs` (`--all-stores`) | tombstones of several stores, mount tables | adopt, merged reads | `Replicas` |
| Keys | `store_crypto.rs`, `store.rs` (`rekey`, `import_master_key`) | key file or keychain, backup, wrapped data keys | create, export, import, rekey | `StoreKey` |
| Opening and migration | `store.rs` (`migrate`, `migrate_event_envelopes`) | tables of earlier eras, marks, a table left aside | open for writing, open for reading | `Migration` |
| Snapshot sources | `class_b.rs`, `store.rs` (`sync_snapshots`) | newest version and absence per snapshot | enumerate, read, append a version, look, erase | `Snapshots` |
| Attribution, roots, identity | `attribution.rs`, `identity.rs`, `pathnorm.rs`, `store.rs` (`register_project_root`, sweeps, `project_roots_report`) | root registry, identity records and verdicts, their revision | register, sweep, report, attribute | `Roots`, `Paths`, `Walks` |
| Parsers | `parser.rs` | state carried in the cursor (Codex totals, session, turn) | parse a batch | `Transcripts` |
| Compressed logs | `compressed.rs` | remembered lengths | length, range, choice of the form | `Frames`, `Sources` |
| Bridge | `wsl.rs`, `deadline.rs` | a child process, two pipes, the time of a round | spawn, write, poll, drain, kill | `Bridge` |
| Probe boundary | `probe.rs`, `wsl.rs` | none | classify what the host or a distribution says | `Probes` |
| Discovery | `discovery.rs`, `project_dir.rs`, `memory_roots.rs`, `session_origin.rs` | none | climb to a root, decode a directory name, list homes | `Walks`, `Discovery`, `Probes` |
| DTOs, reports, CLI output, parity | `rawevent.rs`, `report.rs`, `bin/*` | none | serialise, print | not modelled |

How they interact.  A scanner process (`svault`, or a desktop host that embeds the
library) asks the store whether a source has a projection, reads the file from a
remembered offset, decides by `CommitPlan` what the observation means, applies it to
the store in one transaction per source, and saves its state file once at the end.
Several processes may have the store open; SQLite serialises their write transactions,
not what they read before.  Consumers share no memory with a writer: they read rows by
offset and follow the change-feed.  Everything about a distribution goes through
`wsl.exe`, within the time that a round has left.

What is hard here:

- **Generations.**  A file's events live in generations `<<source revision, projection
  revision>>`.  An old *source* revision is the only copy of bytes that are gone; an old
  *projection* revision can be made again.  A wrong revision, a stale head or a
  collection in the wrong order destroys data silently.
- **Several writers.**  The head is read before the write lock is held; rewrites of
  attributions decrypt whole generations outside any transaction.
- **Erasure** must survive rescans, rewrites in flight, other spellings of the same
  directory and replicas that lag, and must not destroy keys that other rows need.
- **Rounds.**  Store and state file are not atomic together; files grow, shrink, are
  replaced, compressed and restored between two steps; the program is upgraded; rounds
  crash, fail and lose their state file.
- **Consumers** read page by page, each page a statement of its own, against writers.
- **"I could not ask" is not "it is not there".**  Files, roots, snapshots and sessions
  are dropped on an absence, so an absence must be a fact.
- **Keys.**  A data key that nothing opens is lost data.

`PROJECT.json` lists the hazards at their lines with the properties that cover them.

## 2. Modules

A definition whose name is another's with a suffix (`Token_Fresh` before `Token`) is
that definition with a plausible bug; no specification uses it, it shows that the
properties notice.  The `MC*` modules give the constants their values.

**`TotalStore`** is `store.rs`: one variable per table (row ids, timestamps and
ciphertext are left out), and `call[h]`, what each open store (`Handle`) has read and
not yet committed.  A call of `apply_projection` is two steps: `BeginApply` reads the
token and the head on the bare connection, `CommitApply` is the IMMEDIATE transaction,
which computes its target from the head read *before*.  `reattribute` and
`recompute_attribution` are `BeginReattribute` / `BeginRecompute` (a whole generation is
decrypted, if its rows can be, and rewritten in memory), `ScreenErasedRoots`,
`QueueRewrite` and the same `CommitApply`, on the premise that head and row count are
those that were read.  `Erase`, `Gc` and `CommitReclaim` are single transactions;
`BeginReclaim` is the comparison outside one.  `GiveUp` is every way a call ends without
writing.  Roots are spellings; `DirOf` is `registry_key`.

**`SourceView`** is the contract towards a mirror: while a source's change-feed version
stands still its view only grows; a view is replaced only together with a feed record;
what was erased is never shown again.  `TotalStore` implements it for one handle.

**`CommitPlan`** is `CommitPlan::plan` and the predicates around it, pure.
**`ScanIngest`** is one append-log read by `svault scan-all`.  The file is a sequence of
bytes and an mtime; a round is `Begin`, `Stat`, `Read` (or `ShortRead`), `Commit`,
`Save`, each a step, so that the file may change between any two.  `Unreadable`,
`CommitFails`, `Crash` and `Forgetful` are its faults, `Upgrade` raises
`PARSER_REVISION`, `Stream` begins a round that does not write; a `Life` says what a file
goes through.  The count of bytes of a half
line, the wrap-around of offsets, the fingerprint with its covered length and the token
are kept, because mistakes would be there.  The store is `TotalStore` cut down to one
source and to transactions that do not interleave.  `Byte` is any alphabet; `TypeOK`
says what a round knows at each of its steps (`AtStat`, `AtRead`, `AtCommit`, `AtSave`).

**`Consumer`** is a program that mirrors the store: `pull` in pages, `changes`,
`sessions-recent`/`sessions-read` with their budget and resumption (a rebuilt source),
`erasures`.  A rebuild reads session by session, each from a `Position` of its own that
the next page resumes at; `Unread` is what a spent budget leaves to the next command.
Writers append, replace, erase and collect between any two pages.
**`Replicas`** is several machines with a store each and read-only replicas of the
others, replaced as a whole (`Sync`) or broken (`Break`); a merged read is
`BeginRead`/`Count`/`Fetch`, adoption `BeginAdopt`/`AdoptOne`/`AdoptDies`, one
transaction per erasure.

**`StoreKey`** is the master key: opening and creating, validation, export, import, and
a rekey by its steps (backup, rewrap, write, rename), with the writers that loaded the
old key, a key file or a keychain, and crashes between any two steps.  A data key is
known by the master key that opens it.  **`Migration`** is what opening does to a store
of an earlier era, step by step as `migrate` goes, with any number of programs and
crashes; a found store may be what an interrupted rewrite of its table left.
`MigrationAssumption` says what stores are found: in a table set aside no row has a place
that the other table has taken, offsets are unique, every envelope opens where its row
is, and a store that has no `data_keys` yet has right heads and its plain rows first.

**`Snapshots`** is `sync-snapshots`: `Enumerate`, `ReadLatest`, `Prefetch`, `ScanFile`,
`AppendVersion`, `EndRound`, with overlapping rounds and users who edit, delete and
erase; the stored versions are a set of rows with an offset each, and the newest of a file
is that with the greatest.  **`Roots`** is the registry and the identity sweep: `Discover`, `CountRoot`,
`BeginSweep`, `Ask`, `RecordIdentity`, `NoteVerdict`, `OutOfTime`, `Restart`, and a
report that reads in four statements.  An identity record keeps the identities a path
ever had and the last one, which is what is reported.  `InDistro` are the directories
inside a distribution, where roots are looked for by a script.

**`Sources`** is one round of a host's index over session files on its disk and in a
distribution, which agents write, compress, restore and delete; its parsers are
**`Transcripts`**, functions from lines and a carried state to events.  Files are
counted in lines, calls fail or run out of time.  What a line of a Codex session accounts
for is part of it; `Honest` lines keep account as Codex does.  **`Bridge`** is the calls themselves:
`Start`, `Write`, `Close`, `Drain`, `Poll`, `Join` of the host, `Read`, `PrintOut`,
`Exit` and `Trouble` of the child, and `Tick`.

The pure modules have no behaviour of their own; **`Answers`** says what they may be
asked and puts the questions one at a time, and `MCAnswers` bounds them.  **`Probes`**: what each function of the boundary concludes
from each situation of a path.  **`Walks`**: climbing to a repository, its `.git` file,
configuration and remote; decoding a directory name.  **`Frames`**: lengths and slices of
a compressed file.  **`Paths`**: spellings of a directory, registry keys, identities.
**`Discovery`**: distributions, mounted drives and homes; the root of a session's
directory and what its events keep of it.

Composition: `ScanIngest` extends `CommitPlan`; `Sources` extends `Transcripts`;
`Discovery` extends `Paths` and `Walks`; `Answers` extends the pure modules; `TotalStore`
instantiates `SourceView`.

## 3. Runs

| Run | Instance | Shows |
|---|---|---|
| `single` | 1 process, 1 file, 2 spellings of a directory, 4 batches (empty and shrunken included), 1 source and 1 projection revision deep, 3 feed records | an erasure reaches every spelling; only copies stay; the store implements `SourceView` |
| `pair` | 2 processes (symmetric), 1 file, 2 events, 2 feed records | erased stays erased; keys, ledger and tokens; a rewrite does not cover what the other process wrote since it read; in every interleaving |
| `scans` | a file that grows to 8 bytes (2 parsers, 2 faults of any kind), 4 contents with 1 rewrite (3 parsers, 2 failed reads or writes), or a file of 6 bytes that rounds without `--write-store` read too | the store is a prefix of the file; consumed means stored; growth is never a rewrite; owed reparses are made; the store catches up |
| `mirror` | 1 source of 2 sessions, pages of 1 or 2 rows, 2 moves of the head, 1 erasure, 1 bad row, 1 failed command | the mirror misses nothing and ends equal to the store |
| `merge` | 2 machines, 3 events of which one is on both, 4 spellings, mount tables that differ, 1 erasure, 1 fault | a merged read shows nothing erased; erasures reach every store |
| `rekey` | 2 keys, 2 data keys, 2 writers, file and keychain, 2 commands, 1 crash | no data key becomes unopenable; the backup heals; running it again settles it |
| `versions` | 2 overlapping rounds, 2 files of one project, one in a distribution, 2 edits, 1 fault | what is erased is not stored again by a round that read it before; the newest version ends as the file, and the view leaves out exactly the files that are gone |
| `sweep` | 3 nested directories, the home among them, 3 events, unreadable layers | records are the nearest repository's; a report says what is on record or will be asked again; every root gets a verdict |
| `rounds` | a source on the host, one in a distribution, 4 pairs of sessions, 1 failed call | batches are one parse; tokens add up; nothing is dropped unasked; the index settles |
| `calls` | 3 calls, time for two, pipes of 2, 2 troubles | host and child never wait on each other; calls keep to the round; every call ends |
| `open` | 2 programs, 9 found stores, 2 writes, 1 crash | no row is lost or cut off from its key; early readers see the newest generation; the shape settles |
| `answers` | every bounded question to the pure modules | absences are facts; walks conclude only from answers; lengths are of the bytes; one directory is one project |

Each component's type invariant (`TypeOK`) holds under the same configurations; all but
that of `Replicas` are proved, and the runs spend their properties on the rest.

### Bounds

Every bound is a CONSTANT.  `TotalStore`: `MaxSourceRevision`, `MaxProjectionRevision`,
`MaxLog`; one rollback and one reparse reach every combination the code distinguishes
(older source, older parse, current), and generations interact only with their
neighbours.  `ScanIngest`: the bounds of a `Life` and `MaxFaults`; eight bytes hold two
complete lines and the beginning of a third or a bad line between good ones, two faults
allow a crash during the recovery from a crash.  `Consumer`: `MaxOffset`, `MaxMoves`,
`MaxBad`, `MaxErased`, `MaxFailures`, `Batch` (rows of a sessions-read page), `MaxEvents`,
`ChangeLimit`; pages of one row put a writer between any two rows.  `Replicas`:
`MaxAsked`, `MaxFaults`; `StoreKey`: `MaxGoals`, `MaxCrashes`; `Snapshots`: `MaxEdits`,
`MaxFaults`; `Roots`: `MaxEvents` and which layers can be unread (the safety properties
were also checked with two hosts and two events); `Sources`: `Born`, the moves of each script, `MaxFaults` (the safety properties
also with four moves on both sources); `Bridge`: `MaxLate`, `MaxFaults`, `Pipe`, `Cap`,
`Budget`; `Migration`: `MaxWrites`, `MaxCrashes`.  `answers`: situations with at most one
lesser circumstance unusual, two layers with one deaf point each, names of three words
with at most two deaf paths, at most two frames, one to three roots out of nine spellings
in five worlds of mounts, machines of at most two distributions with a nested mount.
In `sweep`, `InDistro` is empty: the script in a distribution passes by unreadable
layers (below).

### Fairness

Only the liveness properties use it, and it is on steps of the program, never on faults,
agents or users' edits.

- `ScanIngest`, `Snapshots`, `Roots`: weak fairness of `Round`: a round that has begun
  takes its next step, and the host's timer starts another one.  `Sources` states the
  same as `[]<><<Round>>_vars`, since a round can always start.
- `Consumer`: weak fairness of a command's pages; pulls without end, which is possible
  because every command comes to an end; strong fairness of working off what the feed
  announced, because commands exclude each other.
- `Replicas`: weak fairness of `Sync`, `BeginAdopt` and `AdoptOne`: the transport and the
  adoption run periodically.
- `StoreKey`: a rekey that has begun goes on; writers are quit in the end and the user
  repeats an interrupted rekey, which the code's instructions ask for.
- `Bridge`: the host, its reading threads and the clock; nothing of the child, which may
  hang.  Its cfg has `CHECK_DEADLOCK FALSE` because a round ends.
- `Migration`: a program that has opened the store goes on, and hosts open it again.

### Where the code and its comments disagree

The instances above stay away from these, or their properties except them by name.  Each
shows as a violation when the constant or the exception that is named is changed.

Store, scan and consumer:

- `apply_projection_if` reads the head before it has the write lock.  With two handles in
  `single`, the feed misses a head move and `OnlyCopyKept` fails (a Reparse with a stale
  head deletes what has become an old source revision).  An append with a stale head moves
  the head without a feed record.
- The premise of a rewrite, that nobody appended since it read (`store.rs:3109`), is head
  and row count: an erasure of what it read and an append restore the count, and the new
  generation covers the append.  `RewriteLosesNothing` excepts a rewrite whose reading has
  lost an event since (`ReadIsThere`); `NotTaken` is what the commit itself refuses, an
  event whose new root is erased or whose place a stale process has filled.
- A file that returns to earlier content produces the earlier token: the Rollback is
  skipped and the cursor moves on.
- A full read forced by a newer parser has no cursor to see a truncation with; it becomes
  a Reparse and deletes the only copy.
- A half line that ends inside a character moves the offset off the line boundary.
- With two scanners (`Scanner = {p1, p2}`), one that was told to reparse and has read the
  file before the other stored a later line replaces the projection by what it has read:
  the line is hidden, though the other's cursor is past it, until the first one scans again.
- Rounds without `--write-store` share the state file (`Stream`).  They move the cursor
  past bytes that were never stored and forget which parser produced the projection;
  `AllWrite` excepts them from everything but the numbering of events and
  `NoFalseRollback`.
- A crash or a lost state file before the first save leaves no recorded parser; a newer
  one then owes nothing (`ReparsedByNewest` with faults in `Replaced`).
- A rewritten file that meets a lost state file is appended to the old projection; its
  growth after a crash opens a second source revision.  A file truncated to nothing has no
  fingerprint and its Rollback is refused in every round.  `CatchesUp` fails with two
  rewrites and an upgrade.
- A spelling of an erased directory that the store has never seen is not erased.
- `sessions-recent --all-stores` picks sessions from lists that each store has cut to the
  limit (`svault.rs:432`, `docs/linux-replica.md:82`).

Keys and migration:

- A crash between creating `.new` and its rename makes every further rekey fail, where
  `store.rs:1439` says that one simply runs it again (`RerunSettlesOrStray` excepts it).
  An empty key file after a crash in its creation is never filled.
- Two first installations that race in the keychain: the second writes over the first
  one's key (`lost` in `StoreKey`; the properties except it).
- Two rekeys to different keys, with a writer that still holds the first, are not healed.
- A "flat" store that two programs open at once is rewritten twice, with the wrong
  `aad_version` (`twice` in `Migration`).  A generation store that already has
  `data_keys` lets a reader in before the heads are filled.  A `revisions` table without
  its time column next to a table left aside never opens.  Rows that a downgraded
  program wrote in the first envelope become unreadable after a rekey.
- The recovery of a table left aside, in a store that was written to since, passes over
  rows whose place is taken (`INSERT OR IGNORE`, `store.rs:1907`) and then drops the table
  (`store.rs:1925`), where `store.rs:1863` says that it moves them first.

Roots, snapshots and places:

- `project_roots_report` says that it reads under one lock, so that no verdict meets an
  older identity (`store.rs:2815`).  The lock is the process's own; identities, verdicts,
  roots and revision are separate statements, and another process that records an identity
  between the first two makes that combination (`RowsAreRecordedOrAsked` excepts it).  A
  bump that fails after the insert leaves the old revision with the new row.
- The table above `converge_mnt_roots` says that a merged row takes the identity that is
  not empty (`store.rs:2941`); the code takes the representative's, or none, on purpose.
- The identity walk does not except the home directory, the walk for a project root does.
  A marker above the point where a drive is mounted is found and not recognised.
- The script that climbs in a distribution passes by a layer it may not search
  (`wsl.rs:514`), and so do its other tests, which say "no" about one.  `read_range` and
  `with_reader` report an unplugged drive as absence, unconfirmed.  A link that only the
  distribution can follow is not a file to a host that is asked without the bridge, and a
  dangling one is absent to the host and present to the distribution (the latter is not
  modelled).
- `find_git_root` says that it returns `Absent` for a start that does not exist
  (`identity.rs:84`); it returns `StartMissing`.
- `registry_key` strips the distribution of any `/mnt/<letter>` path without asking the
  mount table, so that two distributions' own directories may get one key, contrary to
  `project_dir.rs:206`.  `host_drive_mounts` is empty when there are several
  distributions, or anything fails.  With a moved automount root, a snapshot's project and
  its registry key differ.
- `decode_project_dir` is greedy: a sibling with a longer name hides an existing project,
  and `_` cannot be rebuilt.
- `.git` files that name no directory are a repository on the host and none in a
  distribution.
- An erased project's snapshots are not taken again when it comes back (`class_b.rs:149`);
  older versions without a project survive its erasure (`ErasedUnlessUnresolved` excepts
  them).

Files and calls:

- `stdin` of `wsl.exe` is written before the deadline is looked at (`wsl.rs:114`): a call
  outlives the round by its writing time (`OutlivesByItsWriting`), and with a script
  larger than the pipe and a child that hangs or prints it hangs for ever, contrary to
  `deadline.rs:21` and `docs/scan-state-model.md:177`.  `CallsEnd` excepts such scripts,
  and `NoSelfMadeDeadlock` those that say more than the other pipe holds before all but a
  pipeful of them is read (`Overlong`).
- A restore between looking at the plain form and at the compressed one, and a directory
  walk that races with one, look like an absence; `PruneHasReason` excepts these.
- The remembered length of a compressed file is keyed by size and times in seconds.
  `decode_range` stops before the last frame's checksum, and `decoded_len` trusts headers.

## 4. Proofs

The proofs are about every value of the constants: any number of processes, files and
keys, no bound on revisions, crashes or writes.  They assume the named ASSUMEs of the
modules (`StoreAssumption` and the like: sets of the right kind, maps with the right
domain, finite batches, and for `Migration` the stores that are found, section 2) and,
where a theorem has an ASSUME of its own, what is said of it here.

**`TotalStoreProofs`**: `TypeCorrect`, `ErasedStaysErased` (`NoErasedRow`),
`RowsStayDecodable` (`RowsDecodable`), `ErasureReachesEverySpelling`
(`ErasureCoversDirectory`), `LedgerCoversEveryRow` (`LedgerCoversRows`),
`TokensNameOpenedGenerations` (`TokenNamesOpenedGeneration`).  The base is
`TypeInv == TypeOK /\ FiniteStore /\ TokensOpenGenerations`.  `TypeOK` alone is not
inductive: row counts are numbers only while the store is finite, and a queued call with
a token must be one that opens a generation, or its record could name one that was not
announced.  One lemma per action shows that it keeps `TypeInv`; the other invariants are
proved from it and themselves.  `NoErasedRow` and `RowsDecodable` concern rows that enter
only in `CommitApply` and leave anywhere; tombstones and keys change only in `Erase`.
`ErasureCoversDirectory` is a step property that needs `RowsDecodable`: the spellings are
found through the keys.  `LedgerCoversRows` rests on `TargetNotSuperseded`: what a Reparse
deletes from the ledger is never the generation it has just written, even with a stale
head.

`RewritesLoseNothing` (`RewriteLosesNothing`) is about any number of processes.
`RewriteInv` says that a generation has one row per key, and that a rewrite's batch has a
key once and as many events as it has read.  If all of these are still there when it
commits, and there are as many rows, there are no others: a generation that somebody
appended to has more, one that somebody replaced is not the head.

Two theorems assume `OneProcess`, since a second process may move the head between what a
call reads and its transaction: `OnlyCopiesAreKept` (`OnlyCopyKept`) and
`StoreImplementsSourceView` (`ImplementsSourceView`); TLC finds each violated with two
handles (above).  Their invariant is `CallsFresh`: what a call has read is still what
the store holds, so the generation a Reparse retires is the one it reads.  The
refinement is proved step by step: each action of `TotalStore` maps to a step of
`SourceView` on the one source it touches, or to a stutter.

**`ScanIngestProofs`**: `ScanTypeCorrect`, `GrowthIsNoRewriting` (`NoFalseRollback`),
`ShownIsInTheFile` (the first half of `StoreIsPrefixOfFile`), `FileIsShownAsItIs`
(`StoreIsPrefixOfFile`) and `NothingIsSkipped` (`ConsumedIsStored`, until the file is first
replaced).  The first third of the module is about sequences: what a piece of the file
between two line ends parses to is a run of the file's events, numbered on from the count
of good lines before it (`EventsOfPiece`), and a file that grows keeps its lines, counts
and events (`PrefixKeepsLines`, `PrefixKeepsEvents`).  Then two invariants:

- `Growing`, for any number of scanners: every cursor, on disk or in a round, stands at
  the end of a line and has counted the good lines before it; every fingerprint is of a
  prefix of the file; what a round holds are events of the file before its new cursor,
  and all of them if it is to reparse.  From it no scanner sees a shrunken or differing
  file, and every stored row is an event of the file under its own number.
- `Covered`, for one scanner and rounds that write: what is shown are the first events of
  the file up to some number; every cursor stands no further than the first event that is
  missing, except that of a round that holds what lies between; a token that is on record
  covers nothing that is not shown, so that skipping it loses nothing; no row is of a
  generation yet to be opened.

The hypotheses are those under which TLC finds no counterexample.  `NoCutCharacter`: no
read can end inside a character (`Pending` counts three bytes for a cut one, section 3);
with a two-byte character in a line that is being written `NoFalseRollback` is violated.
The run has the same restriction.  `OneScanner`: with two scanners that have state files
of their own, and a file that only grows, TLC finds both `StoreIsPrefixOfFile` and
`ConsumedIsStored` violated (section 3).

**`ConsumerProofs`**: `ConsumerTypeCorrect` and `PagingMissesNothing`
(`MirrorMissesNothing`), for all page sizes, limits and budgets.  `ConsumerInv` adds to the
property what makes it inductive: a generation has one row per session and number and no
row precedes the opening of its generation (`StoreInv`); a pull has mirrored everything up
to the cursor of its *task*, not only to what it will report (`PullInv`); and a rebuild
has, of every row that was there when it began, the row or a position in its session that
is still before it, unless the source was replaced since, which the feed then says
(`RebuildInv`).

The same module has `NoErasedInMergedRead` (`MergedReadShowsNoErased`) of `Replicas`,
with `ReadInv`: what machines pass to each other are tombstones, a read keeps those it
gathered, and once it has picked a copy none of them names the session or its file.

**`RootsProofs`**: `RootsTypeCorrect`, `AskedIsRecorded` (`SeenIsRecorded`),
`ReportedIsRecordedOrAsked` (`RowsAreRecordedOrAsked`) and `NearestIsRecorded`
(`AnswersAreNearest`).  `RootsInv` says that a path's last identity is one it had and is
never forgotten.  `AnsweredInv` follows what is owed through every step that can fail: a
host notes no root as resolved before its identity is on record, does not count as asked
what it notes as unresolved, and counts nothing else without a verdict written or about to
be (`HostOwes`); a verdict on record has its identity or somebody who will ask again
(`VerdictHolds`), and so has what a report read of it earlier (`ReportHolds`).  The walk
to the nearest layer is an argument about the greatest prefix of a path;
`AnswersAreNearest` excepts `InDistro`, where the script passes by a layer it may not
search.

**`MigrationProofs`**: `MigrationTypeCorrect`, `MigrationLosesNothing` (`NothingLost`),
`EnvelopesStayBound` (`RowsStayBound`) and `ReadersAreAnsweredAsBefore`
(`ReadersSeeTheNewest`), in four layers, each resting on the one before.  `ShapeInv`: which
shapes the tables can have at each step of each program, given that another one may be at
any other step.  `PlaceInv`: no row of the table set aside has a place that is taken, or
`INSERT OR IGNORE` would pass over it and the drop would lose it; what a program remembers
to reseal is still there.  `BoundInv`: envelopes open where their rows are, because moves
keep the coordinates an envelope is bound to.  `HeadInv`: a head that is filled is the
newest generation, and nobody is let in before all are.  The last two hold unless a
second program rewrote the table again (`twice`), which the code allows (section 3).

**`StoreKeyProofs`**: `StoreKeyTypes`, `EveryDataKeyOpens` (`NothingUnopenable`),
`BackupRepairs` (`BackupHeals`).  That every data key opens is not inductive.
`KeyInv` adds that what a writer holds in memory is a key that can still be found
(`HeldIsFound`), that a rekey has set the old key aside before it wraps anything and works
towards one the user asked for (`RekeyKeepsOld`), and that a keychain entry is never torn.
`HealInv` says which keys are in use while the store is on its way to its first goal: the
one it records as previous, and the goal.

**`SourcesProofs`**, about the index: `TypeCorrect`, `DroppedForAReason`
(`PruneHasReason`), `OneParseOfAll` (`BatchesAreOneParse`) and `TokensAddUp`
(`UsageAddsUp`).  `SourcesAssumption` says of the scripts of the agents that lines are
sequences and that only Codex compresses its sessions.

- `TypeInv`: no cursor is beyond the lines of its file, in whichever form the file is.
- `ReasonInv`: what a round holds against a source is a fact of a moment of that round.
  Its parts follow the answers on their way: what discovery misses is kept
  (`MissingIsKept`), and what the walk, the host, a single question, a batch or a listing
  said was so (`WalkAnswers`, `LocalAnswers`, `PlainAnswers`, `BridgedAnswers`,
  `ListAnswers`).
- `BatchInv`: what is kept of a source is the parse of the lines before its cursor, and
  what a round has parsed is the parse from the state that was carried on.  The parsers are
  folds, whose recurrence the module proves from the definition of `FoldLeft` (the least
  number of lines at which it could fail); two batches are then one parse by
  `FoldSlice`.
- `TokensAddUp` assumes `AllHonest`: a line accounts for what it states of the last turn
  or, if it states only a total, for what the total has grown by since the line before in
  the same session; a session starts at nothing.  Then the difference that the parser
  makes of two totals is what the lines between them used, and nothing is lost or counted
  twice where sessions or batches meet.  TLC checks that the scripts of `rounds` are
  honest (`MCHonest`).

And about the calls (`Bridge`, whose names carry "Calls" so that both stand in one
module): `CallsTypeCorrect`, `OnlyOverlongScriptsHang` (`NoSelfMadeDeadlock`) and
`CallsKeepToTheRound` (`OutlivesByItsWriting`).  `PipesInv` says that pipes are empty
between calls, that a child is alive only while its host writes or waits, and that during
the writing no more has been said than the commands read so far print: host and child both
stuck means a full pipe each way, hence a script that is longer than one pipe and says
more than the other holds.  `CallsInv` adds how the times
of a round and of a call relate in every step of the host (`CallInTime`), how much is in
which pipe, that a step belongs to a call that is not answered yet (`CallIsBusy`), and that
there is no child between calls (`NoChildLeft`).

**`AnswersProofs`**, about the pure modules: `ProbesDoNotLie` (`NoProbeLies`),
`WalksConclude` (`WalksConcludeFromAnswers`), `LengthIsThatOfTheBytes`
(`LengthOfTheBytes`) and `OneDirectoryIsOneProject` (`DirectoriesAreTold`, what
`OneProjectForADirectory` says of spellings).  A question is one of those that may be asked (`AskedInv`), and each
theorem is then a lemma about the functions, for questions of any size.
`AnswersAssumption` says what may be asked: sequences of layers, of words and of frames,
where everything answers before some are made deaf; roots of any number and spelling, in
any world of mounts in which no distribution has a mount point at or below one of another
that mounts something else there.  That a drive is the same one in every distribution is
what `registry_key` goes by; where it is not, one key would stand for two directories.

- Probes: every function in every situation, also in those with several unusual
  circumstances that the run leaves out; what one concludes is carried from `LocalProbe`,
  `Stat` and `Asked` to those that call them.
- Climbs: `Climb` finds the first layer that is not absent (`ClimbIs`); a deaf layer
  either comes after that one and changes nothing, or is the one where the climb ends
  without knowing.  The chain from the `.git` file to the remote is the same argument in
  five steps.
- Names: `Decode`, `Encode` and `WordsOf` are folds.  That a fold over `n` elements is `n`
  steps is shown from the definition of `FoldLeft` (`IsFold`, `FoldStep`), with the least
  number at which it could fail; on the way a run is in a directory whose name are the
  words so far (`NextNameGoesOn`), and with deaf paths it is there too or has given up
  (`NextNameHears`).
- Frames: what `decode_stream`, `decoded_len` and `skip` make of a file agree, frame by
  frame, on the bytes before the frame (`Size`); a file cut off fails in the frame it is
  cut off in; a range is answered in the first frame that reaches its end.
- Directories: a path has at most one place on a drive, whichever of the tables leads to it
  (`TablesAgree`), and case does not matter to which mount point is above it
  (`AlikeBelowOnePoint`).  So one key is one place (`OneKeyIsOnePlace`), and a spelling that
  says where it is has its place for a key (`TellingKey`).  The keys that cover one path lie
  on one line (`OnOneLine`), so the longest key and the greatest depth choose the same root;
  the other forms of a path cover nothing more (`FormsAre`).  The roots of a bucket that was
  made without a guess share a key after each row (`JoinedKeeps`).

And about what is kept of files that are not logs (`Snapshots`): `SnapshotsTypeCorrect`,
`ErasedStaysOut` (`ErasedUnlessUnresolved`) and `EveryVersionWasWritten`.  `SnapshotsInv`
says of the store that offsets, and numbers of a file's versions, are unique, that nothing
is in it that names what was erased, that every version was in its file once and names its
project, or none if its directory did not resolve (`RootsAreTrue`); and of a round that
what it found, read from a batch and is about to append is the same.  Rounds overlap and
append what they read before an erasure: `AppendVersion` looks at the tombstones again,
and without that step `ErasedIsNotStored` would not be inductive.

Model-checked only:

- Liveness: `ReparsedByNewest`, `CatchesUp`, `Converges`, `ErasuresReachEveryStore`,
  `RerunSettlesOrStray`, `FollowsFile`, `EveryRootSettles`, `IndexSettles`, `CallsEnd` and
  `Settles`.  Properties under fairness are beyond the proof system.
- `ConsumedIsStored` once a file was replaced.
- Of `OneProjectForADirectory`, what `Discovery` says of machines and sessions: it sorts a
  table of mounts, whose order is left open among points of one length, and speaks of a
  root that other, longer roots could hide.

## 5. Not modelled

- `parity.rs`, `report.rs`, logging, `rawevent.rs` and what the commands print: data types
  and formatting without state.
- `project_root.rs`'s `resolve_project_root`, which no production path calls.
- The patterns of names in `catalog.rs`, the rewriting of remote URLs (only which remotes
  are the same is kept), the text of shell scripts and their quoting.
- `sessions-recent --all-stores`, search and statistics.
- Blocks, entropy coding and checksums inside zstd; the ciphers and envelopes.
- In `Sources`: an mtime that goes back, and plain files that are read whole in one batch.
  In `Probes`: a cut of `read_many` inside a path, or at a place where its base64 still
  decodes; its total limit counts as "large".

## 6. Plan

1. Proofs: `ConsumedIsStored` across a rewrite, where cursors are told apart by the mtime
   they carry.
2. What two scanners with state files of their own do promise of one store (`Scanner` is
   already a parameter of `ScanIngest` and of the first three theorems about it).
3. `sessions-recent --all-stores` as a second read of `Replicas`.
