------------------------------- MODULE Sources -------------------------------
(***************************************************************************)
(* One round of a host that keeps an index of session files: it discovers  *)
(* them, on its own disk and in a WSL distribution, asks for their sizes,  *)
(* reads and parses what is new, and drops from the index what is no       *)
(* longer there.  Meanwhile the agents write, and Codex puts files it has  *)
(* not used for a while into a compressed form, in place, and back.  Every *)
(* call may fail or run out of time, which must not be taken for "nothing  *)
(* is there".                                                              *)
(*                                                                         *)
(* Files are counted in lines.  A source goes by its logical name,         *)
(* whichever of its two forms holds it.                                    *)
(***************************************************************************)
EXTENDS Transcripts, FiniteSets

CONSTANTS
  Source, Bridged,     \* session files; those in the WSL distribution
  Scripts,             \* what may happen to each source: [provider, lines, form, moves],
                       \* its agent, what it writes, the form it has at the start,
                       \* and how many steps the agent makes (bound)
  Born,                \* lines there are at the start
  MaxFaults            \* bound of the model

Local == Source \ Bridged
Form == {"plain", "zst"}

(* Only Codex compresses, and None is nothing that a field may hold.       *)
ASSUME SourcesAssumption ==
  /\ Bridged \subseteq Source
  /\ Born \in Nat /\ MaxFaults \in Nat
  /\ None \notin Nat /\ None # "file" /\ None \notin [len : Int, id : Int]
  /\ \A c \in Scripts, s \in Source :
       /\ c[s].provider \in {"codex", "claude", "jsonl"}
       /\ c[s].form \in Form /\ (c[s].form = "zst" => c[s].provider = "codex")
       /\ c[s].moves \in Nat
       /\ c[s].lines \in Seq(Range(c[s].lines)) /\ Born <= Len(c[s].lines)

VARIABLES
  script,    \* script[s]: what is being written to s
  plain,     \* plain[s]: lines of the plain file, None when there is none
  zst,       \* zst[s]: [len, id] of the compressed file, None when there is none
  moves,     \* moves[s]: steps made by the agent of s; also numbers compressed files
  missing,   \* missing[s]: forms of s that have not been there all through the round
  index,     \* sources the host keeps
  cursor,    \* cursor[s]: how far it has read, and the state of the parser
  events,    \* events[s]: what it has parsed
  lengths,   \* lengths[s]: the decoded length it remembers of a compressed file
  round, faults

files == <<script, plain, zst, moves, missing>>
kept == <<index, cursor, events, lengths>>
vars == <<files, kept, round, faults>>

-----------------------------------------------------------------------------
NewCursor == [offset |-> 0, next |-> 0, codex |-> NoState]
Closed == [source |-> None, form |-> "plain", size |-> 0, bytes |-> None, identity |-> None]
Idle == [step |-> "idle", asked |-> {}, found |-> {}, listed |-> {}, unreachable |-> {},
         stats |-> [s \in Source |-> None], ids |-> [s \in Source |-> None],
         batch |-> {}, whole |-> [s \in Source |-> None], todo |-> {}, file |-> Closed]

Exists(s) == plain[s] # None \/ zst[s] # None
Has(s, form) == IF form = "plain" THEN plain[s] # None ELSE zst[s] # None
Length(s) == IF plain[s] # None THEN plain[s] ELSE zst[s].len
MayBeCompressed(s) == script[s].provider = "codex"

(* A call that may fail: it does so at most MaxFaults times.               *)
Answers == UNCHANGED faults
Fails == faults < MaxFaults /\ faults' = faults + 1

Goto(step) == round' = [round EXCEPT !.step = step]

-----------------------------------------------------------------------------
(* The agents.  What discovery may miss of a source are the forms that     *)
(* were not there at some moment of the round: the walk of a directory     *)
(* meets them in any order, the queries in a distribution the plain one    *)
(* first, so that a compressed form counts when it was not there later.    *)
Missing(before, s, isPlain, isZst) ==
  LET p == before \union (IF isPlain THEN {} ELSE {"plain"})
      z == IF ~isZst /\ (s \in Local \/ "plain" \in p) THEN {"zst"} ELSE {}
  IN p \union z

Now(s, before) == Missing(before, s, plain[s] # None, zst[s] # None)

Move(s) ==
  /\ moves[s] < script[s].moves /\ moves' = [moves EXCEPT ![s] = @ + 1]
  /\ missing' = [missing EXCEPT ![s] = Missing(@, s, plain'[s] # None, zst'[s] # None)]
  /\ UNCHANGED <<script, kept, round, faults>>

Becomes(s, p, z) ==
  /\ plain' = [plain EXCEPT ![s] = p] /\ zst' = [zst EXCEPT ![s] = z]
  /\ Move(s)

Write(s) ==
  /\ plain[s] # None /\ plain[s] < Len(script[s].lines)
  /\ Becomes(s, plain[s] + 1, zst[s])

(* Codex compresses into a new file, then deletes the old one; to go on    *)
(* writing it goes the other way.  It may die between the two.             *)
Compress(s) ==
  /\ MayBeCompressed(s) /\ plain[s] # None /\ zst[s] = None
  /\ Becomes(s, plain[s], [len |-> plain[s], id |-> moves[s] + 1])

Restore(s) ==
  /\ plain[s] = None /\ zst[s] # None
  /\ Becomes(s, zst[s].len, zst[s])

DropPlain(s) ==
  /\ plain[s] # None /\ zst[s] # None /\ zst[s].len = plain[s]
  /\ Becomes(s, None, zst[s])

DropCompressed(s) ==
  /\ plain[s] # None /\ zst[s] # None
  /\ Becomes(s, plain[s], None)

(* The user deletes a session, or puts back a copy made long ago.          *)
Delete(s) == Exists(s) /\ Becomes(s, None, None)
PutBack(s) == zst[s] = None /\ plain[s] # Born /\ Becomes(s, Born, None)

-----------------------------------------------------------------------------
(* Discovery.  The walk of a directory meets the names in any order, each  *)
(* at a moment of its own; a directory or a name that cannot be read makes *)
(* the location unreachable, and what was met is reported all the same.    *)
Begin ==
  /\ round.step = "idle"
  /\ round' = [Idle EXCEPT !.step = "walk"]
  /\ missing' = [s \in Source |-> Now(s, {})]
  /\ UNCHANGED <<script, plain, zst, moves, kept, faults>>

Names == Local \X Form
Matched(n) == Has(n[1], n[2]) /\ (n[2] = "zst" => MayBeCompressed(n[1]))

Walk(n) ==
  /\ round.step = "walk" /\ n \in Names \ round.asked /\ Answers
  /\ round' = [round EXCEPT !.asked = @ \union {n},
                            !.found = IF Matched(n) THEN @ \union {n} ELSE @]
  /\ UNCHANGED <<files, kept>>

WalkFails ==
  /\ round.step = "walk" /\ Fails
  /\ round' = [round EXCEPT !.step = "distros", !.unreachable = @ \union {"local"}]
  /\ UNCHANGED <<files, kept>>

WalkEnds ==
  /\ round.step = "walk" /\ round.asked = Names /\ Answers
  /\ Goto("distros")
  /\ UNCHANGED <<files, kept>>

(* Without the list of distributions none of them has been asked.          *)
ListDistros ==
  /\ round.step = "distros"
  /\ \/ Answers /\ Goto("plain")
     \/ Fails /\ round' = [round EXCEPT !.step = "list", !.unreachable = @ \union {"wsl"}]
  /\ UNCHANGED <<files, kept>>

(* list_files_many: one call with a query for each form, the plain one     *)
(* first.  An answer that is cut off, or one query that fails, is no       *)
(* answer at all: half a list would make the rest look deleted.            *)
Found(form) == {<<s, form>> : s \in {t \in Bridged : Has(t, form)}}
QueryFor(form) == {n \in Found(form) : form = "zst" => MayBeCompressed(n[1])}

Query_HalfAList(form) ==
  \/ Answers /\ round' = [round EXCEPT !.step = IF form = "plain" THEN "zst" ELSE "list",
                                       !.found = @ \union QueryFor(form)]
  \/ Fails /\ Goto("list")

Query(form) ==
  \/ Answers /\ round' = [round EXCEPT !.step = IF form = "plain" THEN "zst" ELSE "list",
                                       !.found = @ \union QueryFor(form)]
  \/ Fails /\ round' = [round EXCEPT !.step = "list",
                                     !.found = {n \in @ : n[1] \in Local},
                                     !.unreachable = @ \union {"wsl"}]

Find(form) ==
  /\ round.step = form /\ Query(form)
  /\ UNCHANGED <<files, kept>>

(* Both forms are one source (collect_matching, fold_compressed_wsl).      *)
Logical(found) == {n[1] : n \in found}

List ==
  /\ round.step = "list" /\ Answers
  /\ round' = [round EXCEPT !.step = "stat_many", !.listed = Logical(round.found),
                            !.todo = Logical(round.found), !.found = {}, !.asked = {}]
  /\ UNCHANGED <<files, kept>>

-----------------------------------------------------------------------------
(* StatPrefetch::for_sources, one call each for the plain files and for    *)
(* the compressed form of those that are not there.  A size of Gone is     *)
(* "not there", None is no answer.                                         *)
Gone == [len |-> -1, id |-> -1]
Asked == round.listed \intersect Bridged
PlainStat(s) == IF plain[s] = None THEN Gone ELSE [len |-> plain[s], id |-> 0]
Identity(s) == IF zst[s] = None THEN Gone ELSE zst[s]
NotPlain == {s \in Asked : round.stats[s] = Gone}

StatMany ==
  /\ round.step = "stat_many"
  /\ \/ Answers /\ round' = [round EXCEPT !.step = "identify",
                   !.stats = [s \in Source |-> IF s \in Asked THEN PlainStat(s) ELSE None]]
     \/ Fails /\ Goto("scan")
  /\ UNCHANGED <<files, kept>>

Known_ByName(s) == lengths[s] # None /\ lengths[s].id # -1

(* cached_compressed_len: the length is that of the file as it was.        *)
Known(s) == lengths[s] # None /\ lengths[s].id = round.ids[s].id

(* plan_compressed_reads: those to be read as a batch when the first one   *)
(* is needed.                                                              *)
Planned(ids) ==
  {s \in NotPlain : ids[s] # Gone /\ (lengths[s] = None \/ lengths[s].id # ids[s].id)}

IdentifyMany ==
  /\ round.step = "identify"
  /\ \/ LET ids == [s \in Source |-> IF s \in NotPlain THEN Identity(s) ELSE None]
        IN Answers /\ round' = [round EXCEPT !.step = "scan", !.ids = ids, !.batch = Planned(ids)]
     \/ Fails /\ Goto("scan")
  /\ UNCHANGED <<files, kept>>

-----------------------------------------------------------------------------
(* Reading one source: stat tells the form and the size, read brings what  *)
(* is new of it.  Whatever fails leaves the source as it is until the next *)
(* round.                                                                  *)
Current == round.file.source
GiveUp == round' = [round EXCEPT !.step = "scan", !.file = Closed]

Open(s) ==
  /\ round.step = "scan" /\ s \in round.todo /\ Answers
  /\ round' = [round EXCEPT !.step = "stat", !.todo = @ \ {s}, !.file.source = s]
  /\ UNCHANGED <<files, kept>>

Sized(form, size, bytes, identity) ==
  round' = [round EXCEPT !.step = "read",
    !.file = [source |-> Current, form |-> form, size |-> size, bytes |-> bytes, identity |-> identity]]

(* The plain file, from the answers of the prefetch when it has one.       *)
Stat ==
  /\ round.step = "stat"
  /\ LET stat == IF round.stats[Current] # None THEN round.stats[Current] ELSE PlainStat(Current)
     IN \/ Answers /\ IF stat = Gone THEN Goto("stat_zst") ELSE Sized("plain", stat.len, None, None)
        \/ round.stats[Current] = None /\ Fails /\ GiveUp
  /\ UNCHANGED <<files, kept>>

(* The compressed file here: its length is read off its frames.            *)
StatLocal ==
  /\ round.step = "stat_zst" /\ Current \in Local
  /\ \/ Answers /\ IF zst[Current] = None THEN GiveUp
                   ELSE Sized("zst", zst[Current].len, None, None)
     \/ Fails /\ GiveUp
  /\ UNCHANGED <<files, kept>>

(* In the distribution: gone, as the prefetch knows; of known length; or   *)
(* to be read whole for its length, in the batch or by itself.             *)
StatGone ==
  /\ round.step = "stat_zst" /\ Current \in Bridged /\ round.ids[Current] = Gone /\ Answers
  /\ GiveUp
  /\ UNCHANGED <<files, kept>>

HasIdentity == round.ids[Current] \notin {None, Gone}

StatKnown ==
  /\ round.step = "stat_zst" /\ Current \in Bridged /\ HasIdentity /\ Known(Current) /\ Answers
  /\ Sized("zst", lengths[Current].len, None, round.ids[Current])
  /\ UNCHANGED <<files, kept>>

ToReadWhole ==
  /\ round.step = "stat_zst" /\ Current \in Bridged /\ round.ids[Current] # Gone
  /\ ~(HasIdentity /\ Known(Current))

ReadMany ==
  /\ ToReadWhole /\ Current \in round.batch
  /\ \/ Answers /\ round' = [round EXCEPT !.batch = {},
                     !.whole = [s \in Source |-> IF s \in round.batch THEN zst[s] ELSE None]]
     \/ Fails /\ round' = [round EXCEPT !.batch = {}]
  /\ UNCHANGED <<files, kept>>

(* The length is remembered when what was read is what was identified.     *)
Remember(read) == IF HasIdentity /\ round.ids[Current].id = read.id THEN read ELSE lengths[Current]

StatWhole ==
  /\ ToReadWhole /\ Current \notin round.batch
  /\ LET read == IF round.whole[Current] # None THEN round.whole[Current] ELSE zst[Current]
     IN \/ /\ Answers
           /\ IF read = None THEN GiveUp /\ UNCHANGED lengths
              ELSE /\ Sized("zst", read.len, read, None)
                   /\ lengths' = [lengths EXCEPT ![Current] = Remember(read)]
        \/ round.whole[Current] = None /\ Fails /\ GiveUp /\ UNCHANGED lengths
  /\ UNCHANGED <<files, index, cursor, events>>

-----------------------------------------------------------------------------
(* A file that has become shorter than it was when asked is not read.      *)
ReadTo(len, size) == IF len >= size THEN size ELSE None

(* The compressed bytes: those the length was taken from, or the same      *)
(* version of the file read now.                                           *)
CompressedTo(f) ==
  IF f.bytes # None THEN ReadTo(f.bytes.len, f.size)
  ELSE IF zst[f.source] = None \/ (f.identity # None /\ zst[f.source].id # f.identity.id) THEN None
  ELSE ReadTo(zst[f.source].len, f.size)

PlainTo(f) == IF plain[f.source] = None THEN None ELSE ReadTo(plain[f.source], f.size)

(* How far a read gets; None when the form it was asked for is gone.       *)
Readable(f) == IF f.form = "plain" THEN PlainTo(f) ELSE CompressedTo(f)

(* A size below the cursor is a file that was cut: all of it is read again.*)
Resume(f) ==
  IF f.size < cursor[f.source].offset THEN [cursor |-> NewCursor, events |-> <<>>]
  ELSE [cursor |-> cursor[f.source], events |-> events[f.source]]

Parsed(s, from, end, state) ==
  LET out == ParseLines(script[s].provider, SubSeq(script[s].lines, from.cursor.offset + 1, end),
                        from.cursor.next, state)
  IN [cursor |-> [offset |-> end, next |-> from.cursor.next + Len(out.events), codex |-> out.state],
      events |-> from.events \o out.events]

Take_StateForgotten(s, from, end) == Parsed(s, from, end, NoState)

(* scan_append_log, of whole lines: what is new is parsed on from the      *)
(* state that was kept.                                                    *)
Take(s, from, end) == Parsed(s, from, end, from.cursor.codex)

Read ==
  /\ round.step = "read" /\ GiveUp
  /\ LET f == round.file
         from == Resume(f)
         more == f.size > from.cursor.offset
     IN \/ /\ Answers
           /\ IF more /\ Readable(f) # None
              THEN LET taken == Take(f.source, from, Readable(f))
                   IN /\ cursor' = [cursor EXCEPT ![f.source] = taken.cursor]
                      /\ events' = [events EXCEPT ![f.source] = taken.events]
              ELSE UNCHANGED <<cursor, events>>
        \/ more /\ Fails /\ UNCHANGED <<cursor, events>>
  /\ UNCHANGED <<files, index, lengths>>

-----------------------------------------------------------------------------
Where(s) == IF s \in Local THEN "local" ELSE "wsl"

(* The host: a source that was not listed is dropped, with what was read   *)
(* of it, unless its location could not be asked.                          *)
Stale == {s \in index : s \notin round.listed /\ Where(s) \notin round.unreachable}

Prune ==
  /\ round.step = "scan" /\ round.todo = {} /\ Answers
  /\ index' = (index \ Stale) \union round.listed
  /\ cursor' = [s \in Source |-> IF s \in Stale THEN NewCursor ELSE cursor[s]]
  /\ events' = [s \in Source |-> IF s \in Stale THEN <<>> ELSE events[s]]
  /\ round' = Idle
  /\ UNCHANGED <<files, lengths>>

-----------------------------------------------------------------------------
Init ==
  /\ script \in Scripts
  /\ plain = [s \in Source |-> IF script[s].form = "plain" THEN Born ELSE None]
  /\ zst = [s \in Source |-> IF script[s].form = "zst" THEN [len |-> Born, id |-> 0] ELSE None]
  /\ moves = [s \in Source |-> 0] /\ missing = [s \in Source |-> {}]
  /\ index = {} /\ cursor = [s \in Source |-> NewCursor]
  /\ events = [s \in Source |-> <<>>] /\ lengths = [s \in Source |-> None]
  /\ round = Idle /\ faults = 0

Agent(s) ==
  \/ Write(s) \/ Compress(s) \/ Restore(s) \/ DropPlain(s) \/ DropCompressed(s)
  \/ Delete(s) \/ PutBack(s)

Discover ==
  \/ Begin \/ (\E n \in Names : Walk(n)) \/ WalkFails \/ WalkEnds
  \/ ListDistros \/ (\E form \in Form : Find(form)) \/ List

Scan ==
  \/ StatMany \/ IdentifyMany \/ (\E s \in Source : Open(s))
  \/ Stat \/ StatLocal \/ StatGone \/ StatKnown \/ ReadMany \/ StatWhole \/ Read

Round == Discover \/ Scan \/ Prune

Next == Round \/ \E s \in Source : Agent(s)

Spec == Init /\ [][Next]_vars

(* The host starts a round again and again, and every call in it ends:     *)
(* with an answer, or at its deadline.  Some step of the round is possible *)
(* in every state, so this is WF_vars(Round), which TLC is slow to check.  *)
FairSpec == Spec /\ []<><<Round>>_vars

-----------------------------------------------------------------------------
TypeOK ==
  /\ script \in Scripts
  /\ plain \in [Source -> Nat \union {None}]
  /\ \A s \in Source : zst[s] = None \/ zst[s] \in [len : Nat, id : 0..moves[s]]
  /\ \A s \in Source : moves[s] \in 0..script[s].moves
  /\ missing \in [Source -> SUBSET Form]
  /\ index \subseteq Source
  /\ \A s \in Source : cursor[s].offset \in 0..Len(script[s].lines)
  /\ \A s \in Source : lengths[s] = None \/ lengths[s] \in [len : Nat, id : 0..moves[s]]
  /\ round.step \in {"idle", "walk", "distros", "plain", "zst", "list", "stat_many",
                     "identify", "scan", "stat", "stat_zst", "read"}
  /\ round.unreachable \subseteq {"local", "wsl"}
  /\ faults \in 0..MaxFaults

(* Sources are dropped because they are gone: neither form of them was     *)
(* there all through the round.  Never because a directory, a distribution *)
(* or one of two queries did not answer, and never because a file was      *)
(* compressed in the distribution, where the plain form is asked for first.*)
(* What may be dropped although it exists is a source uncompressed there   *)
(* between the two questions, or here while its directory is walked.       *)
PruneHasReason ==
  [][\A s \in index \ index' : missing[s] = Form]_vars

(* However the lines came in, in whichever form and in what batches, the   *)
(* events are those of one parse of all of them from the start.            *)
BatchesAreOneParse ==
  \A s \in Source :
    LET lines == SubSeq(script[s].lines, 1, cursor[s].offset)
    IN events[s] = ParseLines(script[s].provider, lines, 0, NoState).events

(* The tokens of a Codex session.  What a line is said to account for is   *)
(* what it states of the last turn or, if it states only a total, what the *)
(* total has grown by since the line before in the same session; a session *)
(* starts at nothing.                                                      *)
Usage == [input : Nat, cached : Nat, output : Nat]

Accounts(session, total, line, session2, total2) ==
  /\ line.used \in Usage /\ line.used.cached <= line.used.input
  /\ total2 \in Usage
  /\ IF line.type = "session_meta"
     THEN /\ line.used = NoUsage
          /\ session2 = Given(line.session, session)
          /\ total2 = IF session2 = session THEN total ELSE NoUsage
     ELSE /\ session2 = session
          /\ IF line.type = "token_count"
             THEN /\ total2 = Given(line.total, total)
                  /\ IF line.last # None THEN line.last = line.used
                     ELSE IF line.total # None THEN line.total = Sum(total, line.used)
                     ELSE line.used = NoUsage
             ELSE line.used = NoUsage /\ total2 = total

(* The sessions and totals that lines go through, the file's own first.    *)
Path(lines, own, total) ==
  /\ own[0] = "file" /\ total[0] = NoUsage
  /\ \A k \in 0..(Len(lines) - 1) : Accounts(own[k], total[k], lines[k + 1], own[k + 1], total[k + 1])

Honest(lines) == \E own, total : Path(lines, own, total)
AllHonest == \A c \in Scripts, s \in Source : c[s].provider = "codex" => Honest(c[s].lines)

(* The usage of Codex adds up: no tokens are lost or counted twice where   *)
(* sessions and batches meet.                                              *)
UsageAddsUp ==
  \A s \in Source : script[s].provider = "codex" =>
    Spent(events[s]) = FoldLeft(LAMBDA acc, l : Sum(acc, l.used), NoUsage,
                                SubSeq(script[s].lines, 1, cursor[s].offset))

(* When the agents and the failures end, the index is what is there, read  *)
(* to its end.                                                             *)
Settled(s) ==
  IF Exists(s) THEN s \in index /\ cursor[s].offset = Length(s) ELSE s \notin index
IndexSettles == <>[](\A s \in Source : Settled(s))
=============================================================================
