----------------------------- MODULE ScanIngest -----------------------------
(***************************************************************************)
(* `svault scan-all --write-store` on one append-log: an agent appends     *)
(* JSON lines to a session file (or rewrites it), scanners read it round   *)
(* by round, project what they read into the store, and remember how far   *)
(* they got in a state file of their own, saved at the end of a round.     *)
(*                                                                         *)
(* Bytes are modelled one by one, because a scanner counts them: it stats  *)
(* the file, reads from its safe offset to the size it was told, and keeps *)
(* a half-written last line for the next round.  The store is TotalStore   *)
(* reduced to one source and to transactions that do not interleave.       *)
(***************************************************************************)
EXTENDS CommitPlan, Integers, Sequences, FiniteSets

CONSTANTS
  Scanner,          \* programs that scan, each with a state file of its own
  Byte,
  NL, Lead,         \* the newline byte; bytes that open a two-byte character
  Text, Good,       \* lines the agent may write; those that parse to an event
  Life,             \* what may happen to a file, each with the bounds of the model
  Word,             \* 2^64 in the code: offsets wrap
  MaxFaults         \* bound of the model

(* A life of the file: what it holds at first, what it may be replaced by, *)
(* what may go wrong, and how long, how often and how new it may get.      *)
ASSUME ScanAssumption ==
  /\ Word \in Nat \ {0}
  /\ NL \in Byte /\ Text \subseteq Seq(Byte)
  /\ \A l \in Life :
       /\ l.start \in Seq(Byte) /\ Len(l.start) < Word /\ l.rewritten \subseteq Seq(Byte)
       /\ l.kinds \subseteq {"unreadable", "commit", "crash", "forgetful", "streamed"}
       /\ l.bytes \in Nat /\ l.rewrites \in Nat /\ l.parsers \in Nat
       /\ l.bytes < Word

VARIABLES
  life,        \* the life this file has
  file,        \* bytes and mtime
  unwritten,   \* the rest of a line the agent has begun
  installed,   \* PARSER_REVISION of the installed program
  disk,        \* disk[p]: the state file of scanner p (its entry for the file)
  scan,        \* scan[p]: the round scanner p is in
  rows, head, tokens,    \* the store: see TotalStore
  faults, rewrites       \* what has gone wrong so far (bounds)

store == <<rows, head, tokens>>
vars == <<life, file, unwritten, installed, disk, scan, rows, head, tokens, faults, rewrites>>

-----------------------------------------------------------------------------
NoState == [none |-> "state"]
NoHash == [none |-> "fingerprint"]
NoCursor == [none |-> "cursor"]
NoHead == <<>>
NoTime == -1
Unrecorded == 0

Off == [step |-> "off"]
NewCursor == [offset |-> 0, mtime |-> NoTime, seq |-> 0]

(* Lines.  A line ends at a newline; a blank one is skipped, any other one *)
(* that does not parse is a bad line.                                      *)
Newlines(b) == {i \in DOMAIN b : b[i] = NL}
Latest(S) == CHOOSE m \in S \union {0} : \A i \in S : i <= m
TextAt(b, i) == SubSeq(b, Latest({j \in Newlines(b) : j < i}) + 1, i - 1)
GoodEnds(b) == {i \in Newlines(b) : TextAt(b, i) \in Good}
BadEnds(b) == {i \in Newlines(b) : TextAt(b, i) \notin Good \union {<<>>}}

Parse_FromZero(b, base) ==
  {[seq |-> Cardinality({j \in GoodEnds(b) : j < i}), text |-> TextAt(b, i)] : i \in GoodEnds(b)}

(* parse_lines numbers the events of the good lines on from base.          *)
Parse(b, base) ==
  {[seq |-> base + Cardinality({j \in GoodEnds(b) : j < i}), text |-> TextAt(b, i)] :
     i \in GoodEnds(b)}

(* split_complete_jsonl measures the half line at the end in the text that *)
(* from_utf8_lossy made: a character cut in two counts three bytes there.  *)
Pending(b) ==
  Len(b) - Latest(Newlines(b)) + IF b # <<>> /\ b[Len(b)] \in Lead THEN 2 ELSE 0

(* A fingerprint is the hash of a full read together with its length.      *)
PrefixDiffers_WholeFile(hash, b) == hash # NoHash /\ hash.bytes # b

PrefixDiffers(hash, b) ==
  /\ hash # NoHash
  /\ Len(b) >= Len(hash.bytes)
  /\ SubSeq(b, 1, Len(hash.bytes)) # hash.bytes

-----------------------------------------------------------------------------
(* The store, one transaction at a time (apply_projection).                *)
Head0 == IF head = NoHead THEN <<0, 0>> ELSE head
At(v) == {r \in rows : r.rev = v}
Current == At(Head0)
Shown == {[seq |-> r.seq, text |-> r.text] : r \in Current}

Target(mode) ==
  CASE mode = "append"   -> Head0
    [] mode = "rollback" -> <<Head0[1] + 1, 0>>
    [] mode = "reparse"  -> <<Head0[1], Head0[2] + 1>>

Superseded(mode, added) ==
  mode = "reparse" /\ Cardinality(added) >= Cardinality(Current)

Project(mode, token, events, parser) ==
  LET v == Target(mode)
      added == {e \in events : \A r \in At(v) : r.seq # e.seq}
      kept == IF Superseded(mode, added) THEN rows \ Current ELSE rows
  IN
  IF mode # "append" /\ token \in tokens THEN UNCHANGED store
  ELSE /\ rows' = kept \union
              {[rev |-> v, seq |-> e.seq, text |-> e.text, parser |-> parser] : e \in added}
       /\ head' = v
       /\ tokens' = IF mode = "append" THEN tokens ELSE tokens \union {token}

-----------------------------------------------------------------------------
Init ==
  /\ life \in Life
  /\ file = [bytes |-> life.start, mtime |-> life.rewrites]
  /\ unwritten = <<>>
  /\ installed = 1
  /\ disk = [p \in Scanner |-> NoState]
  /\ scan = [p \in Scanner |-> Off]
  /\ rows = {} /\ head = NoHead /\ tokens = {}
  /\ faults = 0 /\ rewrites = 0

(* The agent writes a line in as many pieces as it likes.                  *)
Write ==
  \E line \in IF unwritten = <<>> THEN {Append(t, NL) : t \in Text} ELSE {unwritten} :
    \E k \in 1..Len(line) :
      /\ Len(file.bytes) + Len(line) <= life.bytes
      /\ file' = [file EXCEPT !.bytes = @ \o SubSeq(line, 1, k)]
      /\ unwritten' = SubSeq(line, k + 1, Len(line))
      /\ UNCHANGED <<life, installed, disk, scan, store, faults, rewrites>>

(* The file is replaced by another one, older than what it replaces (a     *)
(* backup put back, a checkout); a newer one of at least the same size is  *)
(* what the code says this layer cannot see.                               *)
Rewrite ==
  \E b \in life.rewritten :
    /\ rewrites < life.rewrites
    /\ b # file.bytes
    /\ file' = [bytes |-> b, mtime |-> file.mtime - 1]
    /\ unwritten' = <<>>
    /\ rewrites' = rewrites + 1
    /\ UNCHANGED <<life, installed, disk, scan, store, faults>>

(* A new version of the program, with a new PARSER_REVISION.               *)
Upgrade ==
  /\ installed < life.parsers
  /\ \A p \in Scanner : scan[p] = Off
  /\ installed' = installed + 1
  /\ UNCHANGED <<life, file, unwritten, disk, scan, store, faults, rewrites>>

-----------------------------------------------------------------------------
(* owes_reprojection: a revision was recorded, and it is another one.      *)
Owes(writes, state, parser) ==
  writes /\ state # NoState /\ state.parser \notin {Unrecorded, parser}

(* scan_reasons: a first time is one the store knows nothing of.           *)
Why(prior, stale) ==
  (IF prior = "absent" THEN {"initial"} ELSE {}) \union IF stale THEN {"parser_stale"} ELSE {}

(* has_projection, and prior, which asks it before anything is read.       *)
HasProjection == head # NoHead
AskedPrior(writes) ==
  IF ~writes THEN "no_store" ELSE IF HasProjection THEN "present" ELSE "absent"

(* The round begins: the state file is loaded (state is what came of it),  *)
(* the store is asked for a prior projection, and that settles how much    *)
(* will be read.                                                           *)
Begin(p, writes, state) ==
  LET prior == AskedPrior(writes)
      why == Why(prior, Owes(writes, state, installed))
  IN
  /\ scan[p] = Off
  /\ scan' = [scan EXCEPT ![p] =
       [step |-> "stat", writes |-> writes, state |-> state, prior |-> prior, reasons |-> why,
        cursor |-> IF state = NoState \/ WantsFullRead(why) \/ WantsReparse(why)
                     THEN NoCursor ELSE state.cursor,
        hash |-> IF state = NoState THEN NoHash ELSE state.hash,
        parser |-> installed]]
  /\ UNCHANGED <<life, file, unwritten, installed, disk, store, faults, rewrites>>

Resume(c) == IF c = NoCursor THEN NewCursor ELSE c

Shrank_SizeOnly(c) == Len(file.bytes) < c.offset

(* The file is shorter than what was consumed, or older than it was.       *)
Shrank(c) ==
  Len(file.bytes) < c.offset \/ (c.mtime # NoTime /\ file.mtime < c.mtime)

Observed(p, step, change, quality, events, cursor, hash) ==
  scan' = [scan EXCEPT ![p] =
    [step |-> step, writes |-> @.writes, state |-> @.state, prior |-> @.prior,
     reasons |-> @.reasons, parser |-> @.parser,
     obs |-> [change |-> change, quality |-> quality, events |-> events,
              cursor |-> cursor, hash |-> hash]]]

Stat(p) ==
  LET c == Resume(scan[p].cursor)
      from == IF Shrank(c) THEN NewCursor ELSE c
      change == IF Shrank(c) THEN "rewritten" ELSE "appended"
      size == Len(file.bytes)
  IN
  /\ scan[p].step = "stat"
  /\ IF from.offset >= size
     THEN Observed(p, "commit", change, "clean", {}, [from EXCEPT !.mtime = file.mtime], NoHash)
     ELSE scan' = [scan EXCEPT ![p] =
            [step |-> "read", writes |-> @.writes, state |-> @.state, prior |-> @.prior,
             reasons |-> @.reasons, parser |-> @.parser, hash |-> @.hash,
             oneShot |-> @.cursor = NoCursor, cursor |-> from, change |-> change,
             size |-> size, mtime |-> file.mtime]]
  /\ UNCHANGED <<life, file, unwritten, installed, disk, store, faults, rewrites>>

(* Reads [offset, size) of what the file holds by now.  A full read has a  *)
(* fingerprint and is compared with the one before.  A bad line rejects an *)
(* incremental batch; a one-shot read keeps the good lines.                *)
Read(p) ==
  LET s == scan[p]
      c == s.cursor
      b == SubSeq(file.bytes, c.offset + 1, s.size)
      full == c.offset = 0
      change == IF full /\ PrefixDiffers(s.hash, b) THEN "rewritten" ELSE s.change
      bad == BadEnds(b) # {}
      events == Parse(b, c.seq)
      ahead == [offset |-> (s.size - Pending(b)) % Word, mtime |-> s.mtime,
                seq |-> c.seq + Cardinality(events)]
      hash == IF full THEN [bytes |-> b] ELSE NoHash
  IN
  /\ s.step = "read"
  /\ Len(file.bytes) >= s.size
  /\ IF bad /\ ~s.oneShot
     THEN Observed(p, "commit", change, "poison", {}, [c EXCEPT !.mtime = s.mtime], hash)
     ELSE Observed(p, "commit", change, IF bad THEN "degraded" ELSE "clean", events, ahead, hash)
  /\ UNCHANGED <<life, file, unwritten, installed, disk, store, faults, rewrites>>

(* A stat or a read that yields nothing.                                   *)
Unavailable(p) ==
  LET s == scan[p] IN
  /\ s.step \in {"stat", "read"}
  /\ IF s.step = "stat"
     THEN Observed(p, "commit", "appended", "stat_failed", {}, Resume(s.cursor), NoHash)
     ELSE Observed(p, "commit", s.change, "read_failed", {}, s.cursor, NoHash)
  /\ UNCHANGED <<life, file, unwritten, installed, disk, store, rewrites>>

(* read_exact fails on a file that got shorter since it was stat'ed.       *)
ShortRead(p) ==
  /\ scan[p].step = "read" /\ Len(file.bytes) < scan[p].size
  /\ Unavailable(p)
  /\ UNCHANGED faults

Strikes(kind) ==
  /\ kind \in life.kinds
  /\ faults < MaxFaults
  /\ faults' = faults + 1

Unreadable(p) ==
  /\ Strikes("unreadable")
  /\ Unavailable(p)

-----------------------------------------------------------------------------
(* next_state: a fingerprint survives rounds that had none; the parser     *)
(* revision is that of the projection in the store.                        *)
NextState(s) ==
  [cursor |-> s.obs.cursor, parser |-> IF s.writes THEN s.parser ELSE Unrecorded,
   hash |-> IF s.obs.hash # NoHash THEN s.obs.hash
            ELSE IF s.state # NoState THEN s.state.hash ELSE NoHash]

Token_NoParser(s) == [hash |-> s.obs.hash, parser |-> 0, upTo |-> s.obs.cursor.offset]

(* ProjectionToken: the bytes, the parser, and the range that was read.    *)
Token(s) == [hash |-> s.obs.hash, parser |-> s.parser, upTo |-> s.obs.cursor.offset]

Refused(mode, obs) == mode # "append" /\ obs.hash = NoHash

Finish_AlwaysAdvance(p, wrote) ==
  scan' = [scan EXCEPT ![p] = [step |-> "save", state |-> NextState(@)]]

(* The cursor moves on only if the plan said to write and that succeeded.  *)
Finish(p, wrote) ==
  scan' = [scan EXCEPT ![p] = [step |-> "save", state |-> IF wrote THEN NextState(@) ELSE @.state]]

(* ScanWriter::commit, or nothing at all in a round that only streams.     *)
Commit(p) ==
  LET s == scan[p]
      mode == Plan(s.obs, s.reasons, s.prior).store
  IN
  /\ s.step = "commit"
  /\ IF ~s.writes
     THEN UNCHANGED store /\ Finish(p, TRUE)
     ELSE IF mode = "preserve" \/ Refused(mode, s.obs)
     THEN UNCHANGED store /\ Finish(p, FALSE)
     ELSE Project(mode, Token(s), s.obs.events, s.parser) /\ Finish(p, TRUE)
  /\ UNCHANGED <<life, file, unwritten, installed, disk, faults, rewrites>>

(* SQLite fails the transaction: the round goes on without this source.    *)
CommitFails(p) ==
  /\ scan[p].step = "commit" /\ scan[p].writes
  /\ Strikes("commit")
  /\ Finish(p, FALSE)
  /\ UNCHANGED <<life, file, unwritten, installed, disk, store, rewrites>>

(* save_cursors: a temporary file and a rename.                            *)
Save(p) ==
  /\ scan[p].step = "save"
  /\ disk' = [disk EXCEPT ![p] = scan[p].state]
  /\ scan' = [scan EXCEPT ![p] = Off]
  /\ UNCHANGED <<life, file, unwritten, installed, store, faults, rewrites>>

(* The process dies, or the state file cannot be written.                  *)
Crash(p) ==
  /\ scan[p] # Off
  /\ Strikes("crash")
  /\ scan' = [scan EXCEPT ![p] = Off]
  /\ UNCHANGED <<life, file, unwritten, installed, disk, store, rewrites>>

(* The state file is lost, or cannot be read or parsed: an empty table.    *)
Forgetful(p) ==
  /\ disk[p] # NoState
  /\ Strikes("forgetful")
  /\ disk' = [disk EXCEPT ![p] = NoState]
  /\ UNCHANGED <<life, file, unwritten, installed, scan, store, rewrites>>

Round(p) ==
  Begin(p, TRUE, disk[p]) \/ Stat(p) \/ Read(p) \/ ShortRead(p) \/ Commit(p) \/ Save(p)

(* A round without --write-store, on the same state file.                  *)
Stream(p) == "streamed" \in life.kinds /\ Begin(p, FALSE, disk[p])

Fault(p) == Unreadable(p) \/ CommitFails(p) \/ Crash(p) \/ Forgetful(p)

Next ==
  \/ Write \/ Rewrite \/ Upgrade
  \/ \E p \in Scanner : Round(p) \/ Stream(p) \/ Fault(p)

Spec == Init /\ [][Next]_vars

(* A round that has begun goes on, and there is always another one.        *)
FairSpec == Spec /\ \A p \in Scanner : WF_vars(Round(p))

-----------------------------------------------------------------------------
Cursor == [offset : Nat, mtime : Int, seq : Nat]
Hash == [bytes : Seq(Byte)]
State == [cursor : Cursor, parser : Nat, hash : Hash \union {NoHash}]
Event == [seq : Nat, text : Seq(Byte)]
Obs == [change : Change, quality : Quality, events : SUBSET Event, cursor : Cursor,
        hash : Hash \union {NoHash}]

(* What a round knows at each of its steps.                                *)
AtStat == [step : {"stat"}, writes : BOOLEAN, state : State \union {NoState}, prior : Prior,
           reasons : SUBSET Reason, parser : Nat, cursor : Cursor \union {NoCursor},
           hash : Hash \union {NoHash}]
AtRead == [step : {"read"}, writes : BOOLEAN, state : State \union {NoState}, prior : Prior,
           reasons : SUBSET Reason, parser : Nat, hash : Hash \union {NoHash},
           oneShot : BOOLEAN, cursor : Cursor, change : Change, size : Nat, mtime : Int]
AtCommit == [step : {"commit"}, writes : BOOLEAN, state : State \union {NoState}, prior : Prior,
             reasons : SUBSET Reason, parser : Nat, obs : Obs]
AtSave == [step : {"save"}, state : State \union {NoState}]
Rounds == {Off} \union AtStat \union AtRead \union AtCommit \union AtSave

(* Type correctness.                                                       *)
TypeOK ==
  /\ life \in Life
  /\ file \in [bytes : Seq(Byte), mtime : Int] /\ unwritten \in Seq(Byte)
  /\ installed \in Nat
  /\ disk \in [Scanner -> State \union {NoState}]
  /\ scan \in [Scanner -> Rounds]
  /\ rows \subseteq [rev : Nat \X Nat, seq : Nat, text : Seq(Byte), parser : Nat]
  /\ head \in (Nat \X Nat) \union {NoHead}
  /\ tokens \subseteq [hash : Hash, parser : Nat, upTo : Nat]
  /\ faults \in Nat /\ rewrites \in Nat

FileEvents == Parse(file.bytes, 0)
AllWrite == "streamed" \notin life.kinds
Consumed(c) == {e \in FileEvents : e \in Parse(SubSeq(file.bytes, 1, c.offset), 0)}

(* A file that is only appended to is shown as it is: the current          *)
(* projection is its first events, in order, without a gap or a duplicate, *)
(* whatever crashed, failed, was forgotten or was upgraded on the way.     *)
(* What rounds that do not write have read is left out of it, and the      *)
(* events after it still have their own numbers.                           *)
StoreIsPrefixOfFile ==
  rewrites = 0 =>
    /\ Shown \subseteq FileEvents
    /\ AllWrite => \E n \in 0..Cardinality(FileEvents) : Shown = {e \in FileEvents : e.seq < n}

(* What a remembered offset has left behind is in the store: no later      *)
(* round would read it again.  (The state describes the file that is there *)
(* now when it has its mtime.)                                             *)
ConsumedIsStored ==
  AllWrite => \A p \in Scanner :
    disk[p] # NoState /\ disk[p].cursor.mtime = file.mtime =>
      Consumed(disk[p].cursor) \subseteq Shown

(* Growing is not rewriting: a file that was only ever appended to never   *)
(* gets a new source revision, which would be kept for ever.               *)
NoFalseRollback == rewrites = 0 => Head0[1] = 0

(* Once no newer program comes, everything shown was parsed by the newest: *)
(* a Reparse that is owed is made.  Only the state file knows that it is:  *)
(* a first round that died before saving it, or a lost file, leaves events *)
(* of the older parser in the store that nobody parses again.              *)
ReparsedByNewest ==
  life.kinds \intersect {"crash", "forgetful", "streamed"} = {} =>
    <>[](\A r \in Current : r.parser = installed)

(* Once the agent has stopped, and if no line is bad, the store ends up    *)
(* with all the lines of the file.                                         *)
CatchesUp == <>[](AllWrite /\ BadEnds(file.bytes) = {} => Shown = FileEvents)
=============================================================================
