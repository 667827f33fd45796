---------------------------- MODULE SourcesProofs ----------------------------
(***************************************************************************)
(* What holds of Sources for any session files, whatever is written to     *)
(* them and in whichever form, and whatever calls fail; and of Bridge, the *)
(* calls by which a round asks a distribution, for any calls and times.    *)
(***************************************************************************)
EXTENDS Sources, Bridge, WellFoundedInduction, SequenceTheorems, TLAPS

-----------------------------------------------------------------------------
(* The inductive invariant, in parts.                                      *)

(* A compressed file of s, as it is or was.                                *)
Packed(s) == [len : 0..Len(script[s].lines), id : 0..moves[s]]

FilesOK ==
  /\ script \in Scripts
  /\ plain \in [Source -> Nat \union {None}] /\ DOMAIN zst = Source /\ DOMAIN moves = Source
  /\ \A s \in Source :
       /\ plain[s] \in 0..Len(script[s].lines) \union {None}
       /\ moves[s] \in 0..script[s].moves
       /\ zst[s] \in Packed(s) \union {None}
       /\ zst[s] # None => MayBeCompressed(s)

KeptOK ==
  /\ index \subseteq Source
  /\ DOMAIN cursor = Source /\ DOMAIN events = Source /\ DOMAIN lengths = Source
  /\ \A s \in Source :
       /\ cursor[s].offset \in 0..Len(script[s].lines)
       /\ lengths[s] \in Packed(s) \union {None}

(* The round: what it has asked and found are names, what it has been told *)
(* of a source is a size of it, and it reads no more than there is.        *)
Steps == {"idle", "walk", "distros", "plain", "zst", "list", "stat_many", "identify", "scan",
          "stat", "stat_zst", "read"}

Told == [len : Int, id : Int] \union {None}

RoundShape ==
  round \in [step : Steps, asked : SUBSET Names, found : SUBSET (Source \X Form),
             listed : SUBSET Source, unreachable : SUBSET {"local", "wsl"},
             stats : [Source -> Told], ids : [Source -> Told], batch : SUBSET Source,
             whole : [Source -> Told], todo : SUBSET Source,
             file : [source : Source \union {None}, form : Form, size : Int,
                     bytes : Told, identity : Told]]

RoundAnswers ==
  \A s \in Source :
    /\ round.stats[s] \in [len : 0..Len(script[s].lines), id : {0}] \union {None, Gone}
    /\ round.ids[s] \in Packed(s) \union {None, Gone}
    /\ round.whole[s] \in Packed(s) \union {None}

RoundFile ==
  /\ round.step \in {"stat", "stat_zst", "read"} => Current \in Source
  /\ round.step = "read" => round.file.size \in 0..Len(script[Current].lines)

TypeInv ==
  /\ FilesOK /\ KeptOK
  /\ RoundShape /\ RoundAnswers /\ RoundFile
  /\ missing \in [Source -> SUBSET Form] /\ faults \in 0..MaxFaults

-----------------------------------------------------------------------------
(* What a round has not met of a source has not been there all the time.   *)

(* During a round the forms that are not there are missing.                *)
MissingIsKept == round.step # "idle" => \A s \in Source : Now(s, missing[s]) = missing[s]

Met(s, form) == <<s, form>> \in round.found \/ form \in missing[s]

WalkAnswers == round.step = "walk" => \A n \in round.asked : Met(n[1], n[2])

LocalAnswers ==
  round.step \in {"distros", "plain", "zst", "list"} =>
    "local" \in round.unreachable \/ \A s \in Local, form \in Form : Met(s, form)

PlainAnswers == round.step = "zst" => \A s \in Bridged : Met(s, "plain")

BridgedAnswers ==
  round.step = "list" =>
    "wsl" \in round.unreachable
      \/ \A s \in Bridged : s \in Logical(round.found) \/ missing[s] = Form

ListAnswers ==
  round.step \in {"stat_many", "identify", "scan", "stat", "stat_zst", "read"} =>
    \A s \in Source : s \in round.listed \/ Where(s) \in round.unreachable \/ missing[s] = Form

ReasonInv ==
  /\ MissingIsKept /\ WalkAnswers /\ LocalAnswers /\ PlainAnswers /\ BridgedAnswers /\ ListAnswers

-----------------------------------------------------------------------------
(* What the assumptions and the types say of one script.                   *)
LEMMA ScriptOf ==
  ASSUME FilesOK, NEW s \in Source
  PROVE  /\ script[s].provider \in {"codex", "claude", "jsonl"}
         /\ script[s].form \in Form
         /\ script[s].form = "zst" => script[s].provider = "codex"
         /\ script[s].moves \in Nat
         /\ script[s].lines \in Seq(Range(script[s].lines))
         /\ Len(script[s].lines) \in Nat /\ Born \in 0..Len(script[s].lines)
BY SourcesAssumption DEF FilesOK

(* A compressed file is a record of numbers, and never None.               *)
LEMMA PackedIs ==
  ASSUME NEW s \in Source, Len(script[s].lines) \in Nat, moves[s] \in Nat, NEW x \in Packed(s)
  PROVE  /\ x.len \in 0..Len(script[s].lines) /\ x.id \in 0..moves[s]
         /\ x # None /\ x # Gone /\ x = [len |-> x.len, id |-> x.id]
<1>1. x.len \in 0..Len(script[s].lines) /\ x.id \in 0..moves[s] /\ x = [len |-> x.len, id |-> x.id]
  BY DEF Packed
<1>2. x \in [len : Int, id : Int]
  BY <1>1
<1>3. x # None
  BY <1>2, SourcesAssumption
<1>4. x # Gone
  BY <1>1 DEF Gone
<1> QED
  BY <1>1, <1>3, <1>4

LEMMA MissingFacts ==
  ASSUME NEW before \in SUBSET Form, NEW s \in Source, NEW p \in BOOLEAN, NEW z \in BOOLEAN
  PROVE  /\ before \subseteq Missing(before, s, p, z) /\ Missing(before, s, p, z) \subseteq Form
         /\ Missing(Missing(before, s, p, z), s, p, z) = Missing(before, s, p, z)
BY DEF Missing, Form

-----------------------------------------------------------------------------
(* The agents.                                                             *)
LEMMA AgentMoves ==
  ASSUME TypeInv, NEW s \in Source, Agent(s)
  PROVE  /\ plain' = [plain EXCEPT ![s] = plain'[s]] /\ zst' = [zst EXCEPT ![s] = zst'[s]]
         /\ Move(s)
         /\ plain'[s] \in 0..Len(script[s].lines) \union {None}
         /\ \/ zst'[s] = None \/ zst'[s] = zst[s]
            \/ zst'[s] = [len |-> plain[s], id |-> moves[s] + 1] /\ plain[s] # None
         /\ zst'[s] # None => MayBeCompressed(s)
<1> FilesOK
  BY DEF TypeInv
<1> USE ScriptOf DEF Becomes
<1>1. CASE Write(s)
  BY <1>1, SourcesAssumption DEF Write, FilesOK
<1>2. CASE Compress(s)
  BY <1>2 DEF Compress, FilesOK
<1>3. CASE Restore(s)
  <2>1. zst[s].len \in 0..Len(script[s].lines)
    BY <1>3, PackedIs DEF Restore, FilesOK
  <2> QED
    BY <1>3, <2>1 DEF Restore, FilesOK
<1>4. CASE DropPlain(s)
  BY <1>4 DEF DropPlain, FilesOK
<1>5. CASE DropCompressed(s)
  BY <1>5 DEF DropCompressed, FilesOK
<1>6. CASE Delete(s)
  BY <1>6 DEF Delete, FilesOK
<1>7. CASE PutBack(s)
  BY <1>7 DEF PutBack, FilesOK
<1> QED
  BY <1>1, <1>2, <1>3, <1>4, <1>5, <1>6, <1>7 DEF Agent

LEMMA AgentKeepsTypes ==
  ASSUME TypeInv, NEW s \in Source, Agent(s)
  PROVE  TypeInv'
<1>1. /\ plain' = [plain EXCEPT ![s] = plain'[s]] /\ zst' = [zst EXCEPT ![s] = zst'[s]]
      /\ plain'[s] \in 0..Len(script[s].lines) \union {None}
      /\ \/ zst'[s] = None \/ zst'[s] = zst[s]
         \/ zst'[s] = [len |-> plain[s], id |-> moves[s] + 1] /\ plain[s] # None
      /\ zst'[s] # None => MayBeCompressed(s)
  BY AgentMoves
<1>2. /\ moves[s] < script[s].moves /\ moves' = [moves EXCEPT ![s] = @ + 1]
      /\ missing' = [missing EXCEPT ![s] = Missing(@, s, plain'[s] # None, zst'[s] # None)]
      /\ UNCHANGED <<script, index, cursor, events, lengths, round, faults>>
  BY AgentMoves DEF Move, kept
<1>3. \A t \in Source : /\ Len(script[t].lines) \in Nat /\ script[t].moves \in Nat
                        /\ moves[t] \in Nat /\ moves'[t] \in moves[t]..script[t].moves
  BY <1>2, ScriptOf DEF TypeInv, FilesOK
<1>4. \A t \in Source : Packed(t) \subseteq Packed(t)'
  BY <1>2, <1>3 DEF Packed
<1>5. zst'[s] \in Packed(s)' \union {None}
  <2>1. CASE zst'[s] = [len |-> plain[s], id |-> moves[s] + 1] /\ plain[s] # None
    <3>1. plain[s] \in 0..Len(script[s].lines) /\ moves'[s] = moves[s] + 1
      BY <1>2, <2>1 DEF TypeInv, FilesOK
    <3> QED
      BY <1>2, <1>3, <2>1, <3>1 DEF Packed
  <2> QED
    BY <1>1, <1>4, <2>1 DEF TypeInv, FilesOK
<1>6. FilesOK'
  <2>1. plain' \in [Source -> Nat \union {None}] /\ DOMAIN zst' = Source /\ DOMAIN moves' = Source
    BY <1>1, <1>2, <1>3 DEF TypeInv, FilesOK
  <2>2. ASSUME NEW t \in Source
        PROVE  /\ plain'[t] \in 0..Len(script'[t].lines) \union {None}
               /\ moves'[t] \in 0..script'[t].moves
               /\ zst'[t] \in Packed(t)' \union {None}
               /\ zst'[t] # None => MayBeCompressed(t)'
    <3>1. CASE t = s
      BY <1>1, <1>2, <1>3, <1>5, <3>1 DEF TypeInv, FilesOK, MayBeCompressed
    <3>2. CASE t # s
      BY <1>1, <1>2, <1>3, <1>4, <3>2 DEF TypeInv, FilesOK, MayBeCompressed
    <3> QED
      BY <3>1, <3>2
  <2> QED
    BY <1>2, <2>1, <2>2 DEF TypeInv, FilesOK
<1>7. KeptOK' /\ RoundShape' /\ RoundAnswers' /\ RoundFile'
  BY <1>2, <1>4 DEF TypeInv, KeptOK, RoundShape, RoundAnswers, RoundFile, Current
<1>8. missing' \in [Source -> SUBSET Form] /\ faults' \in 0..MaxFaults
  <2>1. PICK m : m = Missing(missing[s], s, plain'[s] # None, zst'[s] # None)
    OBVIOUS
  <2>2. missing[s] \in SUBSET Form
    BY DEF TypeInv
  <2>3. m \in SUBSET Form
    BY <2>1, <2>2 DEF Missing, Form
  <2>4. missing' = [missing EXCEPT ![s] = m]
    BY <1>2, <2>1
  <2> QED
    BY <1>2, <2>3, <2>4 DEF TypeInv
<1> QED
  BY <1>6, <1>7, <1>8 DEF TypeInv

LEMMA AgentKeepsReason ==
  ASSUME TypeInv, ReasonInv, NEW s \in Source, Agent(s)
  PROVE  ReasonInv'
<1>2. /\ plain' = [plain EXCEPT ![s] = plain'[s]] /\ zst' = [zst EXCEPT ![s] = zst'[s]]
      /\ missing' = [missing EXCEPT ![s] = Missing(@, s, plain'[s] # None, zst'[s] # None)]
      /\ round' = round
  BY AgentMoves DEF Move
<1>3. missing[s] \in SUBSET Form
  BY DEF TypeInv
<1>4. missing[s] \subseteq missing'[s] /\ missing'[s] \subseteq Form /\ Now(s, missing[s])' = missing'[s]
  <2>1. missing'[s] = Missing(missing[s], s, plain'[s] # None, zst'[s] # None)
    BY <1>2 DEF TypeInv
  <2>2. Now(s, missing[s])' = Missing(missing'[s], s, plain'[s] # None, zst'[s] # None)
    BY DEF Now
  <2> QED
    BY <1>3, <2>1, <2>2 DEF Missing, Form
<1>5. \A t \in Source : t # s => missing'[t] = missing[t] /\ Now(t, missing[t])' = Now(t, missing[t])
  BY <1>2 DEF TypeInv, FilesOK, Now
<1>6. MissingIsKept'
  BY <1>2, <1>4, <1>5 DEF ReasonInv, MissingIsKept
<1>7. \A t \in Source : missing[t] \subseteq missing'[t] /\ (missing[t] = Form => missing'[t] = Form)
  BY <1>4, <1>5
<1>8. \A t \in Source, form \in Form : Met(t, form) => Met(t, form)'
  BY <1>2, <1>7 DEF Met
<1>9. WalkAnswers' /\ LocalAnswers' /\ PlainAnswers'
  BY <1>2, <1>8, SourcesAssumption
  DEF ReasonInv, WalkAnswers, LocalAnswers, PlainAnswers, TypeInv, RoundShape, Names, Local, Form
<1>10. BridgedAnswers' /\ ListAnswers'
  BY <1>2, <1>7, SourcesAssumption DEF ReasonInv, BridgedAnswers, ListAnswers, Logical, Where, Local
<1> QED
  BY <1>6, <1>9, <1>10 DEF ReasonInv

-----------------------------------------------------------------------------
(* The round: its steps leave the files alone.                             *)
RoundOK == RoundShape /\ RoundAnswers /\ RoundFile

LEMMA RoundLeavesFiles ==
  ASSUME TypeInv, Round
  PROVE  /\ UNCHANGED <<script, plain, zst, moves>> /\ FilesOK'
         /\ \A s \in Source : Packed(s)' = Packed(s)
         /\ faults' \in 0..MaxFaults
<1>1. Discover => UNCHANGED <<script, plain, zst, moves>>
  BY DEF Discover, Begin, Walk, WalkFails, WalkEnds, ListDistros, Find, List, files
<1>2. Scan => UNCHANGED <<script, plain, zst, moves>>
  BY DEF Scan, StatMany, IdentifyMany, Open, Stat, StatLocal, StatGone, StatKnown, ReadMany,
         StatWhole, Read, files
<1>4. UNCHANGED <<script, plain, zst, moves>>
  BY <1>1, <1>2 DEF Round, Prune, files
<1>5. FilesOK' /\ \A s \in Source : Packed(s)' = Packed(s)
  BY <1>4 DEF TypeInv, FilesOK, Packed, MayBeCompressed
<1>6. Answers \/ Fails
  <2>1. CASE Discover
    BY <2>1 DEF Discover, Begin, Walk, WalkFails, WalkEnds, ListDistros, Find, Query, List, Answers
  <2>2. CASE Scan
    BY <2>2 DEF Scan, StatMany, IdentifyMany, Open, Stat, StatLocal, StatGone, StatKnown, ReadMany,
                StatWhole, Read
  <2> QED
    BY <2>1, <2>2 DEF Round, Prune
<1>7. faults' \in 0..MaxFaults
  BY <1>6, SourcesAssumption DEF TypeInv, Answers, Fails
<1> QED
  BY <1>4, <1>5, <1>7

(* A step that tells nothing of a source leaves the answers as they are.   *)
LEMMA AnswersStay ==
  ASSUME TypeInv, Round, round'.stats = round.stats, round'.ids = round.ids,
         round'.whole = round.whole
  PROVE  RoundAnswers'
BY RoundLeavesFiles DEF TypeInv, RoundAnswers

LEMMA DiscoverKeepsTypes ==
  ASSUME TypeInv, Discover
  PROVE  RoundOK' /\ kept' = kept /\ missing' \in [Source -> SUBSET Form]
<1> USE DEF RoundOK, RoundShape, RoundFile, Steps
<1>0. Round
  BY DEF Round
<1>1. CASE Begin
  <2>1. round' = [Idle EXCEPT !.step = "walk"]
    BY <1>1 DEF Begin
  <2>2. RoundShape' /\ RoundFile'
    <3>1. None \in Told /\ "plain" \in Form
      BY DEF Told, Form
    <3>2. round' = [step |-> "walk", asked |-> {}, found |-> {}, listed |-> {}, unreachable |-> {},
                    stats |-> [s \in Source |-> None], ids |-> [s \in Source |-> None],
                    batch |-> {}, whole |-> [s \in Source |-> None], todo |-> {}, file |-> Closed]
      BY <2>1 DEF Idle
    <3> QED
      BY <3>1, <3>2 DEF Closed
  <2>3. RoundAnswers'
    BY <2>1 DEF Idle, RoundAnswers
  <2>4. missing' \in [Source -> SUBSET Form]
    BY <1>1 DEF Begin, Now, Missing, Form
  <2> QED
    BY <1>1, <2>2, <2>3, <2>4 DEF Begin
<1>2. ASSUME NEW n \in Names, Walk(n) PROVE RoundOK'
  <2>1. n \in Source \X Form
    BY DEF Names, Local
  <2> QED
    BY <1>0, <1>2, <2>1, AnswersStay DEF Walk, TypeInv
<1>3. ASSUME WalkFails PROVE RoundOK'
  BY <1>0, <1>3, AnswersStay DEF WalkFails, TypeInv
<1>4. ASSUME WalkEnds PROVE RoundOK'
  BY <1>0, <1>4, AnswersStay DEF WalkEnds, Goto, TypeInv
<1>5. ASSUME ListDistros PROVE RoundOK'
  <2>1. CASE round' = [round EXCEPT !.step = "plain"]
    BY <1>0, <2>1, AnswersStay DEF TypeInv
  <2>2. CASE round' = [round EXCEPT !.step = "list", !.unreachable = @ \union {"wsl"}]
    BY <1>0, <2>2, AnswersStay DEF TypeInv
  <2> QED
    BY <1>5, <2>1, <2>2 DEF ListDistros, Goto
<1>6. ASSUME NEW form \in Form, Find(form) PROVE RoundOK'
  <2>1. QueryFor(form) \subseteq Source \X Form
    BY SourcesAssumption DEF QueryFor, Found
  <2>2. PICK step \in {"zst", "list"} :
          \/ round' = [round EXCEPT !.step = step, !.found = @ \union QueryFor(form)]
          \/ round' = [round EXCEPT !.step = "list", !.found = {n \in @ : n[1] \in Local},
                                   !.unreachable = @ \union {"wsl"}]
    BY <1>6 DEF Find, Query
  <2>3. CASE round' = [round EXCEPT !.step = step, !.found = @ \union QueryFor(form)]
    BY <1>0, <2>1, <2>3, AnswersStay DEF TypeInv
  <2>4. CASE round' = [round EXCEPT !.step = "list", !.found = {n \in @ : n[1] \in Local},
                                    !.unreachable = @ \union {"wsl"}]
    BY <1>0, <2>4, AnswersStay DEF TypeInv
  <2> QED
    BY <2>2, <2>3, <2>4
<1>7. ASSUME List PROVE RoundOK'
  <2>1. Logical(round.found) \subseteq Source
    BY DEF Logical, TypeInv
  <2> QED
    BY <1>0, <1>7, <2>1, AnswersStay DEF List, TypeInv
<1>8. kept' = kept
  BY DEF Discover, Begin, Walk, WalkFails, WalkEnds, ListDistros, Find, List
<1>9. CASE ~Begin
  <2>1. RoundOK'
    <3> HIDE DEF RoundOK, RoundShape, RoundFile
    <3> QED
      BY <1>2, <1>3, <1>4, <1>5, <1>6, <1>7, <1>9 DEF Discover
  <2>2. missing' = missing
    BY <1>9 DEF Discover, Walk, WalkFails, WalkEnds, ListDistros, Find, List, files
  <2> QED
    BY <1>8, <2>1, <2>2 DEF TypeInv
<1> QED
  BY <1>1, <1>8, <1>9

(* The prefetch: a size of a file, that it is gone, or no answer.          *)
LEMMA StatManyKeepsTypes ==
  ASSUME TypeInv, StatMany
  PROVE  RoundOK'
<1> USE DEF RoundOK, RoundShape, RoundFile, Steps
<1>0. Round /\ \A s \in Source : Packed(s)' = Packed(s) /\ script' = script
  BY RoundLeavesFiles DEF Round, Scan
<1>1. CASE round' = [round EXCEPT !.step = "scan"]
  BY <1>0, <1>1, AnswersStay DEF TypeInv
<1>2. CASE round' = [round EXCEPT !.step = "identify",
                       !.stats = [s \in Source |-> IF s \in Asked THEN PlainStat(s) ELSE None]]
  <2>1. ASSUME NEW s \in Source
        PROVE  PlainStat(s) \in [len : 0..Len(script[s].lines), id : {0}] \union {Gone}
    BY ScriptOf DEF TypeInv, FilesOK, PlainStat
  <2>2. ASSUME NEW s \in Source
        PROVE  PlainStat(s) \in Told
    BY <2>1, ScriptOf DEF TypeInv, Told, Gone
  <2>3. RoundShape' /\ RoundFile'
    <3>1. None \in Told
      BY DEF Told
    <3> QED
      BY <1>2, <2>2, <3>1 DEF TypeInv
  <2>4. RoundAnswers'
    BY <1>0, <1>2, <2>1 DEF TypeInv, RoundAnswers
  <2> QED
    BY <2>3, <2>4
<1> QED
  BY <1>1, <1>2 DEF StatMany, Goto

LEMMA IdentifyKeepsTypes ==
  ASSUME TypeInv, IdentifyMany
  PROVE  RoundOK'
<1> USE DEF RoundOK, RoundShape, RoundFile, Steps
<1>0. Round /\ \A s \in Source : Packed(s)' = Packed(s) /\ script' = script
  BY RoundLeavesFiles DEF Round, Scan
<1>1. CASE round' = [round EXCEPT !.step = "scan"]
  BY <1>0, <1>1, AnswersStay DEF TypeInv
<1>2. ASSUME NEW ids, ids = [s \in Source |-> IF s \in NotPlain THEN Identity(s) ELSE None],
             round' = [round EXCEPT !.step = "scan", !.ids = ids, !.batch = Planned(ids)]
      PROVE  RoundOK'
  <2>1. ASSUME NEW s \in Source
        PROVE  ids[s] \in Packed(s) \union {None, Gone} /\ ids[s] \in Told
    <3>1. zst[s] \in Packed(s) \union {None} /\ Gone \in Told /\ None \in Told
      BY DEF TypeInv, FilesOK, Gone, Told
    <3>2. zst[s] \in Told
      BY <3>1, ScriptOf DEF TypeInv, FilesOK, Told, Packed
    <3> QED
      BY <1>2, <3>1, <3>2 DEF Identity
  <2>2. Planned(ids) \subseteq Source
    BY SourcesAssumption DEF Planned, NotPlain, Asked
  <2>3. ids \in [Source -> Told]
    BY <1>2, <2>1
  <2>4. RoundShape' /\ RoundFile'
    BY <1>2, <2>2, <2>3 DEF TypeInv
  <2>5. RoundAnswers'
    BY <1>0, <1>2, <2>1 DEF TypeInv, RoundAnswers
  <2> QED
    BY <2>4, <2>5
<1> QED
  BY <1>1, <1>2 DEF IdentifyMany, Goto

(* A source whose size is not had is closed, the others are read so far.   *)
LEMMA GiveUpKeepsTypes ==
  ASSUME TypeInv, Round, GiveUp
  PROVE  RoundOK'
<1>1. Closed \in [source : Source \union {None}, form : Form, size : Int, bytes : Told,
                  identity : Told]
  BY DEF Closed, Form, Told
<1>2. RoundShape' /\ RoundFile'
  BY <1>1 DEF TypeInv, GiveUp, RoundShape, RoundFile, Steps
<1> QED
  BY <1>2, AnswersStay DEF GiveUp, RoundOK

LEMMA SizedKeepsTypes ==
  ASSUME TypeInv, Round, round.step \in {"stat", "stat_zst"},
         NEW form \in Form, NEW size \in 0..Len(script[Current].lines),
         NEW bytes \in Told, NEW identity \in Told, Sized(form, size, bytes, identity)
  PROVE  RoundOK'
<1>1. Current \in Source
  BY DEF TypeInv, RoundFile
<1>2. round' = [round EXCEPT !.step = "read",
                  !.file = [source |-> Current, form |-> form, size |-> size, bytes |-> bytes,
                            identity |-> identity]]
  BY DEF Sized
<1>3. Len(script[Current].lines) \in Nat
  BY <1>1, ScriptOf DEF TypeInv
<1>4. RoundShape'
  <2>1. PICK file : file = [source |-> Current, form |-> form, size |-> size, bytes |-> bytes,
                            identity |-> identity]
    OBVIOUS
  <2>2. file \in [source : Source \union {None}, form : Form, size : Int, bytes : Told,
                  identity : Told]
    BY <1>1, <1>3, <2>1
  <2>3. round' = [round EXCEPT !.step = "read", !.file = file]
    BY <1>2, <2>1
  <2> QED
    BY <2>2, <2>3 DEF TypeInv, RoundShape, Steps
<1>5. RoundFile'
  <2>1. round'.file.source = Current /\ round'.file.size = size /\ round'.step = "read"
    BY <1>2 DEF TypeInv, RoundShape
  <2> QED
    BY <1>1, <2>1, RoundLeavesFiles DEF RoundFile, Current
<1>6. round'.stats = round.stats /\ round'.ids = round.ids /\ round'.whole = round.whole
  BY <1>2 DEF TypeInv, RoundShape
<1> QED
  BY <1>4, <1>5, <1>6, AnswersStay DEF RoundOK

LEMMA OpenKeepsTypes ==
  ASSUME TypeInv, NEW s \in Source, Open(s)
  PROVE  RoundOK'
<1>1. Round
  BY DEF Round, Scan
<1>2. RoundShape' /\ RoundFile'
  BY DEF Open, TypeInv, RoundShape, RoundFile, Steps, Current
<1>3. RoundAnswers'
  BY <1>1, AnswersStay DEF Open, TypeInv, RoundShape
<1> QED
  BY <1>2, <1>3 DEF RoundOK

LEMMA StatKeepsTypes ==
  ASSUME TypeInv, Stat
  PROVE  RoundOK'
<1>0. Round
  BY DEF Round, Scan
<1>1. Current \in Source /\ Len(script[Current].lines) \in Nat
  BY ScriptOf DEF Stat, TypeInv, RoundFile
<1>2. PICK stat : stat = IF round.stats[Current] # None THEN round.stats[Current] ELSE PlainStat(Current)
  OBVIOUS
<1>3. stat \in [len : 0..Len(script[Current].lines), id : {0}] \union {Gone}
  BY <1>1, <1>2 DEF PlainStat, TypeInv, RoundAnswers, FilesOK
<1>4. CASE round' = [round EXCEPT !.step = "stat_zst"]
  <2>1. RoundShape' /\ RoundFile'
    BY <1>1, <1>4 DEF TypeInv, RoundShape, RoundFile, Steps, Current
  <2>2. RoundAnswers'
    BY <1>0, <1>4, AnswersStay DEF TypeInv, RoundShape
  <2> QED
    BY <2>1, <2>2 DEF RoundOK
<1>5. CASE Sized("plain", stat.len, None, None) /\ stat # Gone
  <2>1. stat.len \in 0..Len(script[Current].lines) /\ None \in Told /\ "plain" \in Form
    BY <1>3, <1>5 DEF Told, Form
  <2> QED
    BY <1>0, <1>5, <2>1, SizedKeepsTypes DEF Stat
<1>6. CASE GiveUp
  BY <1>0, <1>6, GiveUpKeepsTypes
<1> QED
  BY <1>2, <1>4, <1>5, <1>6 DEF Stat, Goto

LEMMA StatLocalKeepsTypes ==
  ASSUME TypeInv, StatLocal
  PROVE  RoundOK'
<1>0. Round
  BY DEF Round, Scan
<1>1. CASE GiveUp
  BY <1>0, <1>1, GiveUpKeepsTypes
<1>2. CASE zst[Current] # None /\ Sized("zst", zst[Current].len, None, None)
  <2>1. Current \in Source
    BY DEF StatLocal, TypeInv, RoundFile
  <2>2. zst[Current].len \in 0..Len(script[Current].lines) /\ None \in Told /\ "zst" \in Form
    BY <1>2, <2>1, ScriptOf, PackedIs DEF TypeInv, FilesOK, Told, Form
  <2> QED
    BY <1>0, <1>2, <2>2, SizedKeepsTypes DEF StatLocal
<1> QED
  BY <1>1, <1>2 DEF StatLocal

LEMMA StatKnownKeepsTypes ==
  ASSUME TypeInv, StatKnown
  PROVE  RoundOK'
<1>0. Round
  BY DEF Round, Scan
<1>1. Current \in Source
  BY DEF StatKnown, TypeInv, RoundFile
<1>2. lengths[Current].len \in 0..Len(script[Current].lines) /\ None \in Told /\ "zst" \in Form
  BY <1>1, ScriptOf, PackedIs DEF StatKnown, Known, TypeInv, FilesOK, KeptOK, Told, Form
<1>3. round.ids[Current] \in Told
  BY <1>1 DEF TypeInv, RoundShape
<1>4. Sized("zst", lengths[Current].len, None, round.ids[Current]) /\ round.step = "stat_zst"
  BY DEF StatKnown
<1> QED
  BY <1>0, <1>2, <1>3, <1>4, SizedKeepsTypes

LEMMA ReadManyKeepsTypes ==
  ASSUME TypeInv, ReadMany
  PROVE  RoundOK'
<1> USE DEF RoundOK, RoundShape, RoundFile, Steps
<1>0. Round /\ \A s \in Source : Packed(s)' = Packed(s) /\ script' = script
  BY RoundLeavesFiles DEF Round, Scan
<1>1. CASE round' = [round EXCEPT !.batch = {}]
  <2>1. RoundShape' /\ RoundFile'
    BY <1>0, <1>1 DEF TypeInv, Current
  <2>2. RoundAnswers'
    BY <1>0, <1>1, AnswersStay DEF TypeInv
  <2> QED
    BY <2>1, <2>2
<1>2. ASSUME NEW whole, whole = [s \in Source |-> IF s \in round.batch THEN zst[s] ELSE None],
             round' = [round EXCEPT !.batch = {}, !.whole = whole]
      PROVE  RoundOK'
  <2>1. ASSUME NEW s \in Source
        PROVE  whole[s] \in Packed(s) \union {None} /\ whole[s] \in Told
    <3>1. zst[s] \in Packed(s) \union {None} /\ None \in Told
      BY DEF TypeInv, FilesOK, Told
    <3>2. zst[s] \in Told
      BY <3>1, ScriptOf DEF TypeInv, FilesOK, Told, Packed
    <3> QED
      BY <1>2, <3>1, <3>2
  <2>2. whole \in [Source -> Told]
    BY <1>2, <2>1
  <2>3. RoundShape' /\ RoundFile'
    BY <1>0, <1>2, <2>2 DEF TypeInv, Current
  <2>4. RoundAnswers'
    BY <1>0, <1>2, <2>1 DEF TypeInv, RoundAnswers
  <2> QED
    BY <2>3, <2>4
<1> QED
  BY <1>1, <1>2 DEF ReadMany

LEMMA StatWholeKeepsTypes ==
  ASSUME TypeInv, StatWhole
  PROVE  RoundOK' /\ KeptOK'
<1>0. Round /\ (\A s \in Source : Packed(s)' = Packed(s)) /\ script' = script
  BY RoundLeavesFiles DEF Round, Scan
<1>1. Current \in Source
  BY DEF StatWhole, ToReadWhole, TypeInv, RoundFile
<1>2. PICK read : read = IF round.whole[Current] # None THEN round.whole[Current] ELSE zst[Current]
  OBVIOUS
<1>3. read \in Packed(Current) \union {None}
  BY <1>1, <1>2 DEF TypeInv, RoundAnswers, FilesOK
<1>4. CASE GiveUp /\ UNCHANGED lengths
  <2>1. RoundOK'
    BY <1>0, <1>4, GiveUpKeepsTypes
  <2>2. KeptOK'
    BY <1>0, <1>4 DEF StatWhole, TypeInv, KeptOK
  <2> QED
    BY <2>1, <2>2
<1>5. CASE /\ read # None /\ Sized("zst", read.len, read, None)
           /\ lengths' = [lengths EXCEPT ![Current] = Remember(read)]
  <2>1. read \in Packed(Current) /\ read.len \in 0..Len(script[Current].lines)
    BY <1>1, <1>3, <1>5, ScriptOf, PackedIs DEF TypeInv, FilesOK
  <2>2. read \in Told /\ None \in Told /\ "zst" \in Form
    BY <1>1, <2>1, ScriptOf DEF Told, Form, Packed, TypeInv, FilesOK
  <2>3. RoundOK'
    BY <1>0, <1>5, <2>1, <2>2, SizedKeepsTypes DEF StatWhole, ToReadWhole
  <2>4. Remember(read) \in Packed(Current) \union {None}
    BY <1>1, <2>1 DEF Remember, TypeInv, KeptOK
  <2>5. KeptOK'
    BY <1>0, <1>1, <1>5, <2>4 DEF StatWhole, TypeInv, KeptOK
  <2> QED
    BY <2>3, <2>5
<1> QED
  BY <1>2, <1>4, <1>5 DEF StatWhole

(* What is read ends where the size said: within what is written.          *)
LEMMA ReadableIsTheSize ==
  ASSUME NEW f, Readable(f) # None, f.size \in Nat
  PROVE  Readable(f) = f.size
BY DEF Readable, PlainTo, CompressedTo, ReadTo

LEMMA TakeIs ==
  ASSUME NEW s, NEW from, NEW end
  PROVE  Take(s, from, end).cursor.offset = end
BY DEF Take, Parsed

LEMMA ReadKeepsTypes ==
  ASSUME TypeInv, Read
  PROVE  RoundOK' /\ KeptOK'
<1>0. Round /\ (\A s \in Source : Packed(s)' = Packed(s)) /\ script' = script
  BY RoundLeavesFiles DEF Round, Scan
<1>1. RoundOK'
  BY <1>0, GiveUpKeepsTypes DEF Read
<1>2. round.file.source \in Source /\ round.file.size \in 0..Len(script[round.file.source].lines)
  BY DEF Read, TypeInv, RoundFile, Current
<1>3. Len(script[round.file.source].lines) \in Nat
  BY <1>2, ScriptOf DEF TypeInv
<1>4. CASE UNCHANGED <<cursor, events>>
  BY <1>0, <1>1, <1>4 DEF Read, TypeInv, KeptOK
<1>5. CASE \E taken :
             /\ taken = Take(round.file.source, Resume(round.file), Readable(round.file))
             /\ Readable(round.file) # None
             /\ cursor' = [cursor EXCEPT ![round.file.source] = taken.cursor]
             /\ events' = [events EXCEPT ![round.file.source] = taken.events]
  <2>1. PICK taken :
             /\ taken = Take(round.file.source, Resume(round.file), Readable(round.file))
             /\ Readable(round.file) # None
             /\ cursor' = [cursor EXCEPT ![round.file.source] = taken.cursor]
             /\ events' = [events EXCEPT ![round.file.source] = taken.events]
    BY <1>5
  <2>2. taken.cursor.offset = round.file.size
    BY <1>2, <1>3, <2>1, TakeIs, ReadableIsTheSize
  <2> QED
    BY <1>0, <1>1, <1>2, <2>1, <2>2 DEF Read, TypeInv, KeptOK
<1> QED
  BY <1>4, <1>5 DEF Read

LEMMA PruneKeepsTypes ==
  ASSUME TypeInv, Prune
  PROVE  RoundOK' /\ KeptOK'
<1>0. Round /\ (\A s \in Source : Packed(s)' = Packed(s)) /\ script' = script
  BY RoundLeavesFiles DEF Round
<1>1. RoundShape'
  <2>1. Closed \in [source : Source \union {None}, form : Form, size : Int, bytes : Told,
                    identity : Told] /\ None \in Told
    BY DEF Closed, Form, Told
  <2>2. round' = [step |-> "idle", asked |-> {}, found |-> {}, listed |-> {}, unreachable |-> {},
                  stats |-> [s \in Source |-> None], ids |-> [s \in Source |-> None],
                  batch |-> {}, whole |-> [s \in Source |-> None], todo |-> {}, file |-> Closed]
    BY DEF Prune, Idle
  <2> QED
    BY <2>1, <2>2 DEF RoundShape, Steps
<1>2. RoundFile' /\ RoundAnswers'
  BY DEF Prune, Idle, RoundFile, RoundAnswers
<1>3. KeptOK'
  BY <1>0, ScriptOf DEF Prune, TypeInv, KeptOK, RoundShape, NewCursor
<1> QED
  BY <1>1, <1>2, <1>3 DEF RoundOK

LEMMA InitTypes == Init => TypeInv
<1> SUFFICES ASSUME Init PROVE TypeInv
  OBVIOUS
<1>1. FilesOK
  BY SourcesAssumption DEF Init, FilesOK, Packed, MayBeCompressed, Form
<1>2. KeptOK
  BY <1>1, ScriptOf DEF Init, KeptOK, NewCursor
<1>3. RoundShape
  <2>1. Closed \in [source : Source \union {None}, form : Form, size : Int, bytes : Told,
                    identity : Told] /\ None \in Told
    BY DEF Closed, Form, Told
  <2> QED
    BY <2>1 DEF Init, Idle, RoundShape, Steps
<1>4. RoundAnswers /\ RoundFile
  BY DEF Init, Idle, RoundAnswers, RoundFile
<1> QED
  BY <1>1, <1>2, <1>3, <1>4, SourcesAssumption DEF Init, TypeInv

LEMMA NextKeepsTypes ==
  ASSUME TypeInv, [Next]_vars
  PROVE  TypeInv'
<1>1. CASE UNCHANGED vars
  <2>1. \A s \in Source : Packed(s)' = Packed(s)
    BY <1>1 DEF vars, files, Packed
  <2> QED
    BY <1>1, <2>1 DEF vars, files, kept, TypeInv, FilesOK, KeptOK, RoundShape, RoundAnswers, RoundFile,
                      Current, MayBeCompressed
<1>2. ASSUME NEW s \in Source, Agent(s) PROVE TypeInv'
  BY <1>2, AgentKeepsTypes
<1>3. CASE Round
  <2>1. RoundOK' /\ KeptOK' /\ missing' \in [Source -> SUBSET Form]
    <3>0. \A s \in Source : Packed(s)' = Packed(s) /\ script' = script
      BY <1>3, RoundLeavesFiles
    <3>1. CASE Discover
      BY <3>0, <3>1, DiscoverKeepsTypes DEF TypeInv, KeptOK, kept
    <3>2. CASE Prune
      BY <3>2, PruneKeepsTypes DEF Prune, files, TypeInv
    <3>3. CASE Scan
      <4>1. missing' = missing
        BY <3>3 DEF Scan, StatMany, IdentifyMany, Open, Stat, StatLocal, StatGone, StatKnown, ReadMany,
                    StatWhole, Read, files
      <4>2. CASE StatWhole \/ Read
        BY <4>1, <4>2, StatWholeKeepsTypes, ReadKeepsTypes DEF TypeInv
      <4>3. CASE ~(StatWhole \/ Read)
        <5>1. kept' = kept
          BY <3>3, <4>3 DEF Scan, StatMany, IdentifyMany, Open, Stat, StatLocal, StatGone, StatKnown,
                            ReadMany
        <5>2. KeptOK'
          BY <3>0, <5>1 DEF kept, TypeInv, KeptOK
        <5>3. StatGone => RoundOK'
          BY <1>3, GiveUpKeepsTypes DEF StatGone
        <5>4. RoundOK'
          BY <3>3, <4>3, <5>3, StatManyKeepsTypes, IdentifyKeepsTypes, OpenKeepsTypes, StatKeepsTypes,
             StatLocalKeepsTypes, StatKnownKeepsTypes, ReadManyKeepsTypes DEF Scan
        <5> QED
          BY <4>1, <5>2, <5>4 DEF TypeInv
      <4> QED
        BY <4>2, <4>3
    <3> QED
      BY <1>3, <3>1, <3>2, <3>3 DEF Round
  <2> QED
    BY <1>3, <2>1, RoundLeavesFiles DEF TypeInv, RoundOK
<1> QED
  BY <1>1, <1>2, <1>3 DEF Next

(* The state stays well typed, whatever the sources, scripts and failures. *)
THEOREM TypeCorrect == Spec => []TypeOK
<1>1. TypeInv => TypeOK
  <2> SUFFICES ASSUME TypeInv PROVE TypeOK
    OBVIOUS
  <2>1. \A s \in Source : Packed(s) \subseteq [len : Nat, id : 0..moves[s]]
    BY ScriptOf DEF TypeInv, Packed
  <2> QED
    BY <2>1 DEF TypeInv, TypeOK, FilesOK, KeptOK, RoundShape, Steps
<1> QED
  BY <1>1, InitTypes, NextKeepsTypes, PTL DEF Spec

-----------------------------------------------------------------------------
(* Why a source may be dropped.                                            *)

(* During a round, a form that is not there is missing.                    *)
LEMMA NotThereIsMissing ==
  ASSUME TypeInv, ReasonInv, round.step # "idle", NEW s \in Source
  PROVE  /\ missing[s] \subseteq Form
         /\ plain[s] = None => "plain" \in missing[s]
         /\ zst[s] = None /\ (s \in Local \/ "plain" \in missing[s]) => "zst" \in missing[s]
<1>1. Now(s, missing[s]) = missing[s] /\ missing[s] \in SUBSET Form
  BY DEF ReasonInv, MissingIsKept, TypeInv
<1> QED
  BY <1>1 DEF Now, Missing, Form

(* An answer says that a form is there, or it is missing.                  *)
LEMMA WalkKeepsReason ==
  ASSUME TypeInv, ReasonInv, NEW n \in Names, Walk(n)
  PROVE  ReasonInv'
<1>1. /\ round.step = "walk" /\ UNCHANGED <<script, plain, zst, missing>>
      /\ round' = [round EXCEPT !.asked = @ \union {n},
                                !.found = IF Matched(n) THEN @ \union {n} ELSE @]
  BY DEF Walk, files
<1>2. /\ round'.step = "walk" /\ round'.asked = round.asked \union {n}
      /\ round'.found = IF Matched(n) THEN round.found \union {n} ELSE round.found
  BY <1>1 DEF TypeInv, RoundShape
<1>3. n = <<n[1], n[2]>> /\ n[1] \in Source /\ n[1] \in Local /\ n[2] \in Form
  BY DEF Names, Local
<1>4. Met(n[1], n[2])'
  <2>1. CASE Matched(n)
    BY <1>2, <1>3, <2>1 DEF Met
  <2>2. CASE ~Has(n[1], n[2])
    BY <1>1, <1>3, <2>2, NotThereIsMissing DEF Has, Met, Form
  <2>3. CASE Has(n[1], n[2]) /\ n[2] = "zst" /\ ~MayBeCompressed(n[1])
    BY <1>3, <2>3 DEF Has, TypeInv, FilesOK
  <2> QED
    BY <2>1, <2>2, <2>3 DEF Matched
<1>5. \A m \in round.asked : Met(m[1], m[2])'
  <2>1. round.found \subseteq round'.found /\ missing' = missing
    BY <1>1, <1>2
  <2>2. \A m \in round.asked : <<m[1], m[2]>> \in round.found \/ m[2] \in missing[m[1]]
    BY <1>1 DEF ReasonInv, WalkAnswers, Met
  <2> QED
    BY <2>1, <2>2 DEF Met
<1>6. MissingIsKept'
  BY <1>1, <1>2 DEF ReasonInv, MissingIsKept, Now
<1> QED
  BY <1>2, <1>4, <1>5, <1>6
  DEF ReasonInv, WalkAnswers, LocalAnswers, PlainAnswers, BridgedAnswers, ListAnswers

LEMMA BeginKeepsReason ==
  ASSUME TypeInv, ReasonInv, Begin
  PROVE  ReasonInv'
<1>1. /\ round'.step = "walk" /\ round'.asked = {} /\ UNCHANGED <<plain, zst>>
      /\ missing' = [s \in Source |-> Now(s, {})]
  BY DEF Begin, Idle
<1>2. MissingIsKept'
  BY <1>1 DEF MissingIsKept, Now, Missing
<1> QED
  BY <1>1, <1>2 DEF ReasonInv, WalkAnswers, LocalAnswers, PlainAnswers, BridgedAnswers, ListAnswers

(* The two ends of the walk: all names were met, or its location is out.   *)
LEMMA WalkEndsKeepsReason ==
  ASSUME TypeInv, ReasonInv, WalkFails \/ WalkEnds
  PROVE  ReasonInv'
<1>1. /\ round.step = "walk" /\ round'.step = "distros" /\ round'.found = round.found
      /\ UNCHANGED <<plain, zst, missing>>
      /\ "local" \in round'.unreachable \/ round.asked = Names
  BY DEF WalkFails, WalkEnds, Goto, files, TypeInv, RoundShape
<1>2. MissingIsKept'
  BY <1>1 DEF ReasonInv, MissingIsKept, Now
<1>3. LocalAnswers'
  <2> SUFFICES ASSUME round.asked = Names, NEW s \in Local, NEW form \in Form PROVE Met(s, form)'
    BY <1>1 DEF LocalAnswers
  <2>1. <<s, form>> \in round.asked
    BY DEF Names
  <2>2. Met(s, form)
    BY <1>1, <2>1 DEF ReasonInv, WalkAnswers
  <2> QED
    BY <1>1, <2>2 DEF Met
<1> QED
  BY <1>1, <1>2, <1>3 DEF ReasonInv, WalkAnswers, PlainAnswers, BridgedAnswers, ListAnswers

LEMMA ListDistrosKeepsReason ==
  ASSUME TypeInv, ReasonInv, ListDistros
  PROVE  ReasonInv'
<1>1. /\ round.step = "distros" /\ round'.found = round.found /\ UNCHANGED <<plain, zst, missing>>
      /\ \/ round'.step = "plain" /\ round'.unreachable = round.unreachable
         \/ round'.step = "list" /\ round'.unreachable = round.unreachable \union {"wsl"}
  BY DEF ListDistros, Goto, files, TypeInv, RoundShape
<1> QED
  BY <1>1 DEF ReasonInv, MissingIsKept, Now, WalkAnswers, LocalAnswers, PlainAnswers, BridgedAnswers,
              ListAnswers, Met

(* The two queries: a source that the second one does not name either was  *)
(* missed by the first while it had no plain form, and has none since.     *)
LEMMA FindKeepsReason ==
  ASSUME TypeInv, ReasonInv, NEW form \in Form, Find(form)
  PROVE  ReasonInv'
<1>1. round.step = form /\ UNCHANGED <<script, plain, zst, missing>>
  BY DEF Find, files
<1>2. MissingIsKept'
  BY <1>1 DEF Find, Query, ReasonInv, MissingIsKept, Now, Form, TypeInv, RoundShape
<1>3. CASE round' = [round EXCEPT !.step = "list", !.found = {n \in @ : n[1] \in Local},
                                  !.unreachable = @ \union {"wsl"}]
  <2>1. /\ round'.step = "list" /\ round'.found = {n \in round.found : n[1] \in Local}
        /\ round'.unreachable = round.unreachable \union {"wsl"}
    BY <1>3 DEF TypeInv, RoundShape
  <2>2. LocalAnswers'
    BY <1>1, <2>1 DEF ReasonInv, LocalAnswers, Met, Form
  <2> QED
    BY <1>2, <2>1, <2>2 DEF ReasonInv, WalkAnswers, PlainAnswers, BridgedAnswers, ListAnswers
<1>4. CASE round' = [round EXCEPT !.step = IF form = "plain" THEN "zst" ELSE "list",
                                  !.found = @ \union QueryFor(form)]
  <2>1. /\ round'.step = (IF form = "plain" THEN "zst" ELSE "list")
        /\ round'.found = round.found \union QueryFor(form)
        /\ round'.unreachable = round.unreachable
    BY <1>4 DEF TypeInv, RoundShape
  <2>2. LocalAnswers'
    BY <1>1, <2>1 DEF ReasonInv, LocalAnswers, Met, Form
  <2>3. \A s \in Bridged : s \in Source
    BY SourcesAssumption
  <2>4. ASSUME NEW s \in Bridged, Has(s, form)
        PROVE  <<s, form>> \in QueryFor(form)
    <3>1. form = "zst" => MayBeCompressed(s)
      BY <2>3, <2>4 DEF Has, TypeInv, FilesOK
    <3>2. <<s, form>> \in Found(form)
      BY <2>4 DEF Found
    <3> QED
      BY <3>1, <3>2 DEF QueryFor
  <2>5. CASE form = "plain"
    <3>1. PlainAnswers'
      <4> SUFFICES ASSUME NEW s \in Bridged PROVE Met(s, "plain")'
        BY DEF PlainAnswers
      <4>1. CASE Has(s, "plain")
        BY <2>1, <2>4, <2>5, <4>1 DEF Met
      <4>2. CASE ~Has(s, "plain")
        BY <1>1, <2>3, <2>5, <4>2, NotThereIsMissing DEF Has, Met
      <4> QED
        BY <4>1, <4>2
    <3> QED
      BY <1>2, <2>1, <2>2, <2>5, <3>1 DEF ReasonInv, WalkAnswers, BridgedAnswers, ListAnswers
  <2>6. CASE form = "zst"
    <3>1. BridgedAnswers'
      <4> SUFFICES ASSUME NEW s \in Bridged PROVE (s \in Logical(round.found) \/ missing[s] = Form)'
        BY DEF BridgedAnswers
      <4>1. CASE <<s, "plain">> \in round.found
        BY <2>1, <4>1 DEF Logical
      <4>2. CASE Has(s, "zst")
        <5>1. <<s, form>> \in round'.found
          BY <2>1, <2>4, <2>6, <4>2
        <5>2. <<s, form>>[1] = s
          OBVIOUS
        <5> QED
          BY <5>1, <5>2 DEF Logical
      <4>3. CASE <<s, "plain">> \notin round.found /\ ~Has(s, "zst")
        <5>1. "plain" \in missing[s]
          BY <1>1, <2>6, <4>3 DEF ReasonInv, PlainAnswers, Met
        <5>2. "zst" \in missing[s] /\ missing[s] \subseteq Form
          BY <1>1, <2>3, <2>6, <4>3, <5>1, NotThereIsMissing DEF Has
        <5> QED
          BY <1>1, <5>1, <5>2 DEF Form
      <4> QED
        BY <4>1, <4>2, <4>3
    <3> QED
      BY <1>2, <2>1, <2>2, <2>6, <3>1 DEF ReasonInv, WalkAnswers, PlainAnswers, ListAnswers
  <2> QED
    BY <2>5, <2>6 DEF Form
<1> QED
  BY <1>3, <1>4 DEF Find, Query

(* What is not listed now has been met in neither form.                    *)
LEMMA ListKeepsReason ==
  ASSUME TypeInv, ReasonInv, List
  PROVE  ReasonInv'
<1>1. /\ round.step = "list" /\ UNCHANGED <<plain, zst, missing>>
      /\ round'.step = "stat_many" /\ round'.listed = Logical(round.found)
      /\ round'.unreachable = round.unreachable
  BY DEF List, files, TypeInv, RoundShape
<1>2. MissingIsKept'
  BY <1>1 DEF ReasonInv, MissingIsKept, Now
<1>3. ASSUME NEW s \in Source
      PROVE  s \in Logical(round.found) \/ Where(s) \in round.unreachable \/ missing[s] = Form
  <2>1. CASE s \in Local
    <3>1. missing[s] \subseteq Form
      BY DEF TypeInv
    <3>2. CASE \E form \in Form : <<s, form>> \in round.found
      BY <3>2 DEF Logical
    <3>3. CASE "local" \notin round.unreachable /\ \A form \in Form : <<s, form>> \notin round.found
      BY <1>1, <2>1, <3>1, <3>3 DEF ReasonInv, LocalAnswers, Met
    <3> QED
      BY <2>1, <3>2, <3>3 DEF Where
  <2>2. CASE s \notin Local
    BY <1>1, <2>2 DEF ReasonInv, BridgedAnswers, Where, Local
  <2> QED
    BY <2>1, <2>2
<1>4. ListAnswers'
  BY <1>1, <1>3 DEF ListAnswers
<1> QED
  BY <1>1, <1>2, <1>4 DEF ReasonInv, WalkAnswers, LocalAnswers, PlainAnswers, BridgedAnswers

(* Sizes and bytes change nothing of what is listed.                       *)
LEMMA ScanKeepsReason ==
  ASSUME TypeInv, ReasonInv, Scan
  PROVE  ReasonInv'
<1>1. UNCHANGED <<plain, zst, missing>>
  BY DEF Scan, StatMany, IdentifyMany, Open, Stat, StatLocal, StatGone, StatKnown, ReadMany,
         StatWhole, Read, files
<1> DEFINE After == {"stat_many", "identify", "scan", "stat", "stat_zst", "read"}
<1>2. /\ round.step \in After /\ round'.step \in After
      /\ round'.listed = round.listed /\ round'.unreachable = round.unreachable
  <2>1. CASE StatMany \/ IdentifyMany
    BY <2>1 DEF StatMany, IdentifyMany, Goto, TypeInv, RoundShape
  <2>2. CASE \E s \in Source : Open(s)
    BY <2>2 DEF Open, TypeInv, RoundShape
  <2>3. CASE Stat \/ StatLocal \/ StatGone \/ StatKnown
    BY <2>3 DEF Stat, StatLocal, StatGone, StatKnown, Goto, GiveUp, Sized, TypeInv, RoundShape
  <2>4. CASE ReadMany
    BY <2>4 DEF ReadMany, ToReadWhole, TypeInv, RoundShape
  <2>5. CASE StatWhole
    BY <2>5 DEF StatWhole, ToReadWhole, GiveUp, Sized, TypeInv, RoundShape
  <2>6. CASE Read
    BY <2>6 DEF Read, GiveUp, TypeInv, RoundShape
  <2> QED
    BY <2>1, <2>2, <2>3, <2>4, <2>5, <2>6 DEF Scan
<1> QED
  BY <1>1, <1>2 DEF ReasonInv, MissingIsKept, Now, WalkAnswers, LocalAnswers, PlainAnswers,
                    BridgedAnswers, ListAnswers

LEMMA NextKeepsReason ==
  ASSUME TypeInv, ReasonInv, [Next]_vars
  PROVE  ReasonInv'
<1>1. CASE UNCHANGED vars
  BY <1>1 DEF vars, files, ReasonInv, MissingIsKept, Now, WalkAnswers, LocalAnswers, PlainAnswers,
              BridgedAnswers, ListAnswers, Met
<1>2. CASE Prune
  BY <1>2 DEF Prune, Idle, ReasonInv, MissingIsKept, WalkAnswers, LocalAnswers, PlainAnswers,
              BridgedAnswers, ListAnswers
<1>3. CASE Discover
  BY <1>3, WalkKeepsReason, BeginKeepsReason, WalkEndsKeepsReason, ListDistrosKeepsReason,
     FindKeepsReason, ListKeepsReason DEF Discover
<1>4. ASSUME NEW s \in Source, Agent(s) PROVE ReasonInv'
  BY <1>4, AgentKeepsReason
<1> QED
  BY <1>1, <1>2, <1>3, <1>4, ScanKeepsReason DEF Next, Round

LEMMA InitReason == Init => ReasonInv
BY DEF Init, Idle, ReasonInv, MissingIsKept, WalkAnswers, LocalAnswers, PlainAnswers,
       BridgedAnswers, ListAnswers

(* The host drops a source only if each of its forms was not there at some *)
(* moment of the round: for any sources, whatever the agents do to them    *)
(* between the questions, and whichever questions fail.                    *)
THEOREM DroppedForAReason == Spec => PruneHasReason
<1>1. ASSUME TypeInv, ReasonInv, [Next]_vars
      PROVE  [\A s \in index \ index' : missing[s] = Form]_vars
  <2>1. CASE Prune
    BY <1>1, <2>1 DEF Prune, Stale, ReasonInv, ListAnswers, TypeInv, KeptOK
  <2>2. CASE UNCHANGED vars
    BY <2>2
  <2>3. CASE Discover \/ Scan \/ \E s \in Source : Agent(s)
    <3>1. index' = index
      <4>1. CASE Discover
        BY <4>1 DEF Discover, Begin, Walk, WalkFails, WalkEnds, ListDistros, Find, List, kept
      <4>2. CASE Scan
        BY <4>2 DEF Scan, StatMany, IdentifyMany, Open, Stat, StatLocal, StatGone, StatKnown,
                    ReadMany, StatWhole, Read, kept
      <4>3. ASSUME NEW s \in Source, Agent(s) PROVE index' = index
        BY <1>1, <4>3, AgentMoves DEF Move, kept
      <4> QED
        BY <2>3, <4>1, <4>2, <4>3
    <3> QED
      BY <3>1
  <2> QED
    BY <1>1, <2>1, <2>2, <2>3 DEF Next, Round
<1>2. TypeInv /\ ReasonInv /\ [Next]_vars => (TypeInv /\ ReasonInv)'
  BY NextKeepsTypes, NextKeepsReason
<1> QED
  BY <1>1, <1>2, InitTypes, InitReason, PTL DEF Spec, PruneHasReason

-----------------------------------------------------------------------------
(* What FoldLeft computes, from its definition: induction on the number of *)
(* lines, as the search for the least number that fails.  There are three  *)
(* folds, told apart by what: the parse of a provider's lines, the tokens  *)
(* of events, and those the lines themselves account for.                  *)
IsList(x) == x \in Seq(Range(x))

Plus(acc, e) == Sum(acc, [input |-> e.event.usage.input + e.event.usage.cached,
                          cached |-> e.event.usage.cached, output |-> e.event.usage.output])
Takes(what, acc, x) ==
  IF what = "spent" THEN Plus(acc, x)
  ELSE IF what = "used" THEN Sum(acc, x.used) ELSE ParseLine(what, acc, x)

ParseFold(p, acc, lines) == FoldLeft(LAMBDA a, line : ParseLine(p, a, line), acc, lines)
SpentFold(acc, list) ==
  FoldLeft(LAMBDA a, e : Sum(a, [input |-> e.event.usage.input + e.event.usage.cached,
                                 cached |-> e.event.usage.cached,
                                 output |-> e.event.usage.output]), acc, list)
UsedFold(acc, lines) == FoldLeft(LAMBDA a, l : Sum(a, l.used), acc, lines)

Fold(what, acc, list) ==
  IF what = "spent" THEN SpentFold(acc, list)
  ELSE IF what = "used" THEN UsedFold(acc, list) ELSE ParseFold(what, acc, list)

(* What FoldLeft evaluates: a function of the sets of places, in which the *)
(* last place is taken off first.                                          *)
IsFold(f, k, p, acc, lines) ==
  f = [S \in SUBSET (1..k) |->
         IF S = {} THEN acc ELSE Takes(p, f[S \ {Max(S)}], lines[Max(S)])]

(* What such a function says of the first i places.                        *)
UpTo(f, i) == f[1..i]

LEMMA LeastNatural ==
  ASSUME NEW S \in SUBSET Nat, S # {}
  PROVE  \E m \in S : \A k \in S : m <= k
<1>1. PICK m \in S : \A k \in S : ~(<<k, m>> \in OpToRel(<, Nat))
  BY NatLessThanWellFounded, WFMin
<1>2. \A k \in S : ~(k < m)
  BY <1>1 DEF OpToRel
<1> QED
  BY <1>2

LEMMA MaxIs ==
  ASSUME NEW k \in Nat, NEW S \in SUBSET (1..k), k \in S
  PROVE  Max(S) = k
<1>1. \A y \in S : y \in Int /\ k >= y
  OBVIOUS
<1>2. \A x \in S : (\A y \in S : x >= y) => x = k
  BY <1>1
<1> QED
  BY <1>1, <1>2 DEF Max

LEMMA FoldExists ==
  ASSUME NEW p, NEW acc, NEW lines
  PROVE  \A k \in Nat : \E f : IsFold(f, k, p, acc, lines)
<1> DEFINE Bad == {k \in Nat : ~\E f : IsFold(f, k, p, acc, lines)}
<1> SUFFICES ASSUME Bad # {} PROVE FALSE
  OBVIOUS
<1>1. PICK m \in Bad : \A k \in Bad : m <= k
  BY LeastNatural
<1>2. CASE m = 0
  <2>1. PICK f : f = [S \in SUBSET (1..0) |-> acc]
    OBVIOUS
  <2>2. 1..0 = {}
    OBVIOUS
  <2>3. IsFold(f, 0, p, acc, lines)
    BY <2>1, <2>2 DEF IsFold
  <2> QED
    BY <1>1, <1>2, <2>3
<1>3. CASE m # 0
  <2>0. m \in Nat \ {0} /\ m - 1 \in Nat /\ m - 1 \notin Bad
    BY <1>1, <1>3
  <2>1. PICK f : IsFold(f, m - 1, p, acc, lines)
    BY <2>0
  <2>2. PICK g : g = [S \in SUBSET (1..m) |->
                        IF m \in S THEN Takes(p, f[S \ {m}], lines[m]) ELSE f[S]]
    OBVIOUS
  <2>3. ASSUME NEW S \in SUBSET (1..m)
        PROVE  g[S] = IF S = {} THEN acc ELSE Takes(p, g[S \ {Max(S)}], lines[Max(S)])
    <3>1. CASE m \in S
      <4>1. Max(S) = m
        BY <2>0, <3>1, MaxIs
      <4>2. S \ {m} \in SUBSET (1..m)
        OBVIOUS
      <4>3. S \ {m} \in SUBSET (1..(m - 1))
        BY <2>0
      <4>4. g[S \ {m}] = f[S \ {m}]
        BY <2>2, <4>2
      <4> QED
        BY <2>2, <3>1, <4>1, <4>4
    <3>2. CASE m \notin S
      <4>1. S \in SUBSET (1..(m - 1))
        BY <2>0, <3>2
      <4>2. f[S] = IF S = {} THEN acc ELSE Takes(p, f[S \ {Max(S)}], lines[Max(S)])
        BY <2>1, <4>1 DEF IsFold
      <4>3. g[S] = f[S] /\ g[S \ {Max(S)}] = f[S \ {Max(S)}]
        BY <2>2, <3>2
      <4> QED
        BY <4>2, <4>3
    <3> QED
      BY <3>1, <3>2
  <2>4. IsFold(g, m, p, acc, lines)
    <3>1. g = [S \in SUBSET (1..m) |-> g[S]]
      BY <2>2
    <3> QED
      BY <2>3, <3>1 DEF IsFold
  <2> QED
    BY <1>1, <2>4
<1> QED
  BY <1>2, <1>3

LEMMA FoldBase ==
  ASSUME NEW p, NEW acc, NEW lines, NEW n \in Nat, NEW f, IsFold(f, n, p, acc, lines)
  PROVE  UpTo(f, 0) = acc
<1>1. 1..0 = {}
  OBVIOUS
<1> QED
  BY <1>1 DEF IsFold, UpTo

LEMMA FoldStep ==
  ASSUME NEW p, NEW acc, NEW lines, NEW n \in Nat, NEW f, IsFold(f, n, p, acc, lines),
         NEW i \in 1..n, NEW h \in Nat, i = h + 1
  PROVE  UpTo(f, i) = Takes(p, UpTo(f, h), lines[i])
<1>1. Max(1..i) = i
  BY MaxIs
<1>2. (1..i) \ {i} = 1..h /\ 1..i # {} /\ 1..i \in SUBSET (1..n)
  OBVIOUS
<1>3. f[1..i] = IF 1..i = {} THEN acc ELSE Takes(p, f[(1..i) \ {Max(1..i)}], lines[Max(1..i)])
  BY <1>2 DEF IsFold
<1> QED
  BY <1>1, <1>2, <1>3 DEF UpTo

LEMMA FoldAgrees ==
  ASSUME NEW p, NEW acc, NEW a, NEW b, NEW j \in Nat, NEW k \in Nat, NEW f, NEW g,
         IsFold(f, j, p, acc, a), IsFold(g, k, p, acc, b),
         NEW m \in Nat, m <= j, m <= k, \A i \in 1..m : a[i] = b[i]
  PROVE  UpTo(f, m) = UpTo(g, m)
<1> DEFINE Bad == {i \in 0..m : UpTo(f, i) # UpTo(g, i)}
<1> SUFFICES ASSUME Bad # {} PROVE FALSE
  OBVIOUS
<1>0. Bad \in SUBSET Nat
  OBVIOUS
<1>1. PICK i \in Bad : \A l \in Bad : i <= l
  <2> HIDE DEF Bad
  <2> QED
    BY <1>0, LeastNatural
<1>2. i # 0
  <2>1. UpTo(f, 0) = acc
    BY FoldBase
  <2>2. UpTo(g, 0) = acc
    BY FoldBase
  <2> QED
    BY <2>1, <2>2
<1>3. i \in 1..m /\ i - 1 \in 0..m /\ i - 1 \notin Bad
  BY <1>1, <1>2
<1>4. PICK h \in Nat : h = i - 1
  BY <1>3
<1>5. UpTo(f, h) = UpTo(g, h) /\ i \in 1..j /\ i \in 1..k /\ i = h + 1
  BY <1>3, <1>4
<1> HIDE DEF Bad
<1>6. UpTo(f, i) = Takes(p, UpTo(f, h), a[i])
  BY <1>4, <1>5, FoldStep
<1>7. UpTo(g, i) = Takes(p, UpTo(g, h), b[i])
  BY <1>4, <1>5, FoldStep
<1>8. a[i] = b[i]
  BY <1>3
<1> QED
  BY <1>1, <1>5, <1>6, <1>7, <1>8 DEF Bad

LEMMA FoldIs ==
  ASSUME NEW p, NEW acc, NEW lines, NEW n \in Nat, DOMAIN lines = 1..n
  PROVE  \E f : IsFold(f, n, p, acc, lines) /\ Fold(p, acc, lines) = UpTo(f, n)
<1>1. CASE p = "spent"
  <2>1. PICK g : IsFold(g, n, p, acc, lines)
    BY FoldExists
  <2> DEFINE Goes(h) == h = [S \in SUBSET (1..n) |->
                               IF S = {} THEN acc ELSE Sum(h[S \ {Max(S)}],
                                 [input |-> lines[Max(S)].event.usage.input + lines[Max(S)].event.usage.cached,
                                  cached |-> lines[Max(S)].event.usage.cached,
                                  output |-> lines[Max(S)].event.usage.output])]
  <2>2. \A h : Goes(h) <=> IsFold(h, n, p, acc, lines)
    BY <1>1 DEF IsFold, Takes, Plus
  <2>3. PICK f : f = CHOOSE h : Goes(h)
    OBVIOUS
  <2>4. Goes(f)
    <3> HIDE DEF Goes
    <3> QED
      BY <2>1, <2>2, <2>3
  <2>5. Fold(p, acc, lines) = SpentFold(acc, lines)
    BY <1>1 DEF Fold
  <2>6. SpentFold(acc, lines) = UpTo(f, n)
    BY <2>3, Zenon DEF SpentFold, FoldLeft, MapThenFoldSet, UpTo
  <2> QED
    BY <2>2, <2>4, <2>5, <2>6
<1>2. CASE p = "used"
  <2>1. PICK g : IsFold(g, n, p, acc, lines)
    BY FoldExists
  <2> DEFINE Goes(h) == h = [S \in SUBSET (1..n) |->
                               IF S = {} THEN acc ELSE Sum(h[S \ {Max(S)}], lines[Max(S)].used)]
  <2>2. \A h : Goes(h) <=> IsFold(h, n, p, acc, lines)
    BY <1>2 DEF IsFold, Takes, Plus
  <2>3. PICK f : f = CHOOSE h : Goes(h)
    OBVIOUS
  <2>4. Goes(f)
    <3> HIDE DEF Goes
    <3> QED
      BY <2>1, <2>2, <2>3
  <2>5. Fold(p, acc, lines) = UsedFold(acc, lines)
    BY <1>2 DEF Fold
  <2>6. UsedFold(acc, lines) = UpTo(f, n)
    BY <2>3, Zenon DEF UsedFold, FoldLeft, MapThenFoldSet, UpTo
  <2> QED
    BY <2>2, <2>4, <2>5, <2>6
<1>3. CASE p # "spent" /\ p # "used"
  <2>1. PICK g : IsFold(g, n, p, acc, lines)
    BY FoldExists
  <2> DEFINE Goes(h) == h = [S \in SUBSET (1..n) |->
                               IF S = {} THEN acc ELSE ParseLine(p, h[S \ {Max(S)}], lines[Max(S)])]
  <2>2. \A h : Goes(h) <=> IsFold(h, n, p, acc, lines)
    BY <1>3 DEF IsFold, Takes, Plus
  <2>3. PICK f : f = CHOOSE h : Goes(h)
    OBVIOUS
  <2>4. Goes(f)
    <3> HIDE DEF Goes
    <3> QED
      BY <2>1, <2>2, <2>3
  <2>5. Fold(p, acc, lines) = ParseFold(p, acc, lines)
    BY <1>3 DEF Fold
  <2>6. ParseFold(p, acc, lines) = UpTo(f, n)
    BY <2>3, Zenon DEF ParseFold, FoldLeft, MapThenFoldSet, UpTo
  <2> QED
    BY <2>2, <2>4, <2>5, <2>6
<1> QED
  BY <1>1, <1>2, <1>3

LEMMA FoldNothing ==
  ASSUME NEW p, NEW acc, NEW lines, IsList(lines), NEW i \in 0..Len(lines)
  PROVE  Fold(p, acc, SubSeq(lines, i + 1, i)) = acc
<1>0. Len(lines) \in Nat /\ i \in Nat /\ lines \in Seq(Range(lines))
  BY DEF IsList
<1>1. PICK a : a = SubSeq(lines, i + 1, i)
  OBVIOUS
<1>2. PICK n \in Nat : n = 0
  OBVIOUS
<1>3. DOMAIN a = 1..n
  BY <1>0, <1>1, <1>2
<1>4. PICK f : IsFold(f, n, p, acc, a) /\ Fold(p, acc, a) = UpTo(f, n)
  BY <1>3, FoldIs
<1>5. UpTo(f, 0) = acc
  BY <1>4, FoldBase
<1> QED
  BY <1>1, <1>2, <1>4, <1>5

(* FoldLeft goes through a sequence a line at a time.                      *)
LEMMA FoldSlice ==
  ASSUME NEW p, NEW acc, NEW lines, IsList(lines), NEW i \in 0..Len(lines)
  PROVE  \A k \in i..(Len(lines) - 1) :
           Fold(p, acc, SubSeq(lines, i + 1, k + 1)) =
             Takes(p, Fold(p, acc, SubSeq(lines, i + 1, k)), lines[k + 1])
<1>0. Len(lines) \in Nat /\ i \in Nat /\ lines \in Seq(Range(lines))
  BY DEF IsList
<1>1. ASSUME NEW k \in i..Len(lines)
      PROVE  /\ DOMAIN SubSeq(lines, i + 1, k) = 1..(k - i) /\ k - i \in Nat
             /\ \A l \in 1..(k - i) : SubSeq(lines, i + 1, k)[l] = lines[i + l]
  BY <1>0
<1>3. ASSUME NEW k \in i..(Len(lines) - 1)
      PROVE  Fold(p, acc, SubSeq(lines, i + 1, k + 1)) =
                Takes(p, Fold(p, acc, SubSeq(lines, i + 1, k)), lines[k + 1])
  <2>0. k \in i..Len(lines) /\ k + 1 \in i..Len(lines)
    BY <1>0
  <2>1. PICK n \in Nat : n = k - i
    BY <1>0
  <2>2. PICK a : a = SubSeq(lines, i + 1, k)
    OBVIOUS
  <2>3. PICK b : b = SubSeq(lines, i + 1, k + 1)
    OBVIOUS
  <2>4. DOMAIN a = 1..n /\ \A l \in 1..n : a[l] = lines[i + l]
    BY <1>1, <2>0, <2>1, <2>2
  <2>5. DOMAIN b = 1..(n + 1) /\ \A l \in 1..(n + 1) : b[l] = lines[i + l]
    <3>1. (k + 1) - i = n + 1
      BY <1>0, <2>1
    <3> QED
      BY <1>1, <2>0, <2>3, <3>1
  <2>6. PICK f : IsFold(f, n, p, acc, a) /\ Fold(p, acc, a) = UpTo(f, n)
    BY <2>4, FoldIs
  <2>7. PICK j \in Nat : j = n + 1
    OBVIOUS
  <2>8. PICK g : IsFold(g, j, p, acc, b) /\ Fold(p, acc, b) = UpTo(g, j)
    <3>1. DOMAIN b = 1..j
      BY <2>5, <2>7
    <3> QED
      BY <2>7, <3>1, FoldIs
  <2>9. UpTo(f, n) = UpTo(g, n)
    <3>1. ASSUME NEW l \in 1..n
          PROVE  a[l] = b[l]
      <4>1. l \in 1..(n + 1)
        OBVIOUS
      <4> QED
        BY <2>4, <2>5, <4>1
    <3>2. n <= j /\ n <= n
      BY <2>7
    <3> QED
      BY <2>6, <2>8, <3>1, <3>2, FoldAgrees
  <2>10. UpTo(g, j) = Takes(p, UpTo(g, n), b[j])
    <3>1. j \in 1..j
      BY <2>7
    <3> QED
      BY <2>1, <2>7, <2>8, <3>1, FoldStep
  <2>11. b[j] = lines[k + 1]
    BY <1>0, <2>1, <2>5, <2>7
  <2> QED
    BY <2>2, <2>3, <2>6, <2>8, <2>9, <2>10, <2>11
<1> QED
  BY <1>3

-----------------------------------------------------------------------------
LEMMA ListsJoin ==
  ASSUME NEW a, NEW b, IsList(a), IsList(b)
  PROVE  /\ IsList(a \o b) /\ Len(a \o b) = Len(a) + Len(b)
         /\ \A i \in 1..Len(a) : (a \o b)[i] = a[i]
         /\ \A i \in 1..Len(b) : (a \o b)[Len(a) + i] = b[i]
<1>1. a \in Seq(Range(a) \union Range(b)) /\ b \in Seq(Range(a) \union Range(b))
  BY DEF IsList
<1>2. Len(a \o b) = Len(a) + Len(b) /\ a \o b \in Seq(Range(a) \union Range(b))
  BY <1>1
<1>3. \A i \in 1..Len(a) : (a \o b)[i] = a[i]
  BY <1>1
<1>4. \A i \in 1..Len(b) : (a \o b)[Len(a) + i] = b[i]
  BY <1>1
<1>5. IsList(a \o b)
  <2>1. PICK c : c = a \o b
    OBVIOUS
  <2>2. PICK S : c \in Seq(S)
    BY <1>2, <2>1
  <2>3. c = [i \in 1..Len(c) |-> c[i]] /\ DOMAIN c = 1..Len(c) /\ Len(c) \in Nat
    BY <2>2
  <2>4. \A i \in 1..Len(c) : c[i] \in Range(c)
    BY <2>3 DEF Range
  <2>5. c \in [1..Len(c) -> Range(c)]
    BY <2>3, <2>4
  <2>6. c \in Seq(Range(c))
    BY <2>3, <2>5
  <2> QED
    BY <2>1, <2>6 DEF IsList
<1> QED
  BY <1>2, <1>3, <1>4, <1>5

Chain(a, b) == a \o b

LEMMA EmptyList ==
  /\ IsList(<<>>)
  /\ \A a : IsList(a) => a \o <<>> = a /\ <<>> \o a = a
<1>1. IsList(<<>>)
  BY DEF IsList, Range
<1> QED
  BY <1>1 DEF IsList

LEMMA JoinAgain ==
  \A x, y, z : IsList(x) /\ IsList(y) /\ IsList(z) => Chain(Chain(x, y), z) = Chain(x, Chain(y, z))
<1> SUFFICES ASSUME NEW x, NEW y, NEW z, IsList(x), IsList(y), IsList(z)
             PROVE  (x \o y) \o z = x \o (y \o z)
  BY DEF Chain
<1>1. PICK S : S = Range(x) \union Range(y) \union Range(z)
  OBVIOUS
<1>2. x \in Seq(S) /\ y \in Seq(S) /\ z \in Seq(S)
  BY <1>1 DEF IsList
<1> QED
  BY <1>2

LEMMA OneEvent ==
  ASSUME NEW condition, NEW event
  PROVE  IsList(When(condition, event))
<1>1. <<event>> \in Seq({event}) /\ Range(<<event>>) = {event}
  BY DEF Range
<1> QED
  BY <1>1, EmptyList DEF When, IsList

-----------------------------------------------------------------------------
IsParse(a) == a = [state |-> a.state, events |-> a.events] /\ IsList(a.events)
FirstState(state) == IF state = NoState THEN [NoState EXCEPT !.session = "file"] ELSE state
Begun(state) == [state |-> state, events |-> <<>>]

Providers == {"codex", "claude", "jsonl"}

(* The events of a line are put behind those that are there.               *)
NewEvents(p, state, line) ==
  IF p = "codex" THEN CodexEvents(state, line)
  ELSE IF p = "claude" THEN ClaudeEvents(line) ELSE JsonlEvents(line)
NewState(p, state, line) == IF p = "codex" THEN CodexState(state, line) ELSE state

LEMMA ParseSlice ==
  ASSUME NEW p \in Providers, NEW acc, NEW lines, IsList(lines), NEW i \in 0..Len(lines)
  PROVE  \A k \in i..(Len(lines) - 1) :
           Fold(p, acc, SubSeq(lines, i + 1, k + 1)) =
             ParseLine(p, Fold(p, acc, SubSeq(lines, i + 1, k)), lines[k + 1])
<1>1. \A a, line : Takes(p, a, line) = ParseLine(p, a, line)
  BY DEF Takes, Providers
<1> QED
  BY <1>1, FoldSlice

(* parse_lines is such a fold, from the state that was kept.               *)
LEMMA ParseLinesIs ==
  ASSUME NEW p \in Providers, NEW lines, NEW next, NEW state
  PROVE  ParseLines(p, lines, next, state) =
           [events |-> Numbered(Fold(p, Begun(FirstState(state)), lines).events, next),
            state |-> IF p = "codex" THEN Fold(p, Begun(FirstState(state)), lines).state ELSE NoState]
<1>1. Fold(p, Begun(FirstState(state)), lines) = ParseFold(p, Begun(FirstState(state)), lines)
  BY DEF Fold, Providers
<1>2. ParseLines(p, lines, next, state) =
        [events |-> Numbered(ParseFold(p, Begun(FirstState(state)), lines).events, next),
         state |-> IF p = "codex" THEN ParseFold(p, Begun(FirstState(state)), lines).state ELSE NoState]
  BY Zenon DEF ParseLines, ParseFold, Begun, FirstState
<1> QED
  BY <1>1, <1>2

LEMMA EventsAreLists ==
  ASSUME NEW p \in Providers, NEW state, NEW line
  PROVE  IsList(NewEvents(p, state, line))
<1>1. IsList(CodexEvents(state, line))
  BY OneEvent, EmptyList DEF CodexEvents
<1>2. IsList(JsonlEvents(line))
  BY OneEvent DEF JsonlEvents
<1>3. IsList(ClaudeEvents(line))
  BY OneEvent, ListsJoin DEF ClaudeEvents
<1> QED
  BY <1>1, <1>2, <1>3 DEF NewEvents

LEMMA ParseLineIs ==
  ASSUME NEW p \in Providers, NEW a, IsParse(a), NEW line
  PROVE  ParseLine(p, a, line) =
           [state |-> NewState(p, a.state, line), events |-> a.events \o NewEvents(p, a.state, line)]
<1>1. a = [state |-> a.state, events |-> a.events]
  BY DEF IsParse
<1>2. CASE p = "codex"
  BY <1>2 DEF ParseLine, NewState, NewEvents
<1>3. CASE p = "claude"
  <2>1. ParseLine(p, a, line) = [a EXCEPT !.events = a.events \o ClaudeEvents(line)]
    BY <1>3 DEF ParseLine
  <2> QED
    BY <1>1, <1>3, <2>1 DEF NewState, NewEvents
<1>4. CASE p = "jsonl"
  <2>1. ParseLine(p, a, line) = [a EXCEPT !.events = a.events \o JsonlEvents(line)]
    BY <1>4 DEF ParseLine
  <2> QED
    BY <1>1, <1>4, <2>1 DEF NewState, NewEvents
<1> QED
  BY <1>2, <1>3, <1>4 DEF Providers

LEMMA ParseLineKeeps ==
  ASSUME NEW p \in Providers, NEW a, IsParse(a), NEW line
  PROVE  IsParse(ParseLine(p, a, line))
<1>1. PICK all : all = a.events \o NewEvents(p, a.state, line)
  OBVIOUS
<1>2. IsList(all)
  BY <1>1, EventsAreLists, ListsJoin DEF IsParse
<1>3. ParseLine(p, a, line) = [state |-> NewState(p, a.state, line), events |-> all]
  BY <1>1, ParseLineIs
<1> QED
  BY <1>2, <1>3 DEF IsParse

(* Induction from i to n, on a set of numbers.                             *)
LEMMA Climb ==
  ASSUME NEW i \in Nat, NEW n \in Nat, NEW G, i \in G,
         \A k \in i..(n - 1) : k \in G => k + 1 \in G
  PROVE  \A k \in i..n : k \in G
<1> DEFINE Bad == {k \in i..n : k \notin G}
<1> SUFFICES ASSUME Bad # {} PROVE FALSE
  OBVIOUS
<1>1. Bad \in SUBSET Nat
  OBVIOUS
<1>2. PICK m \in Bad : \A k \in Bad : m <= k
  <2> HIDE DEF Bad
  <2> QED
    BY <1>1, LeastNatural
<1>3. m \in i..n /\ m \notin G
  BY <1>2
<1>4. m - 1 \in i..(n - 1)
  BY <1>3
<1>5. m - 1 \in G
  BY <1>2, <1>4
<1>6. (m - 1) + 1 \in G
  BY <1>4, <1>5
<1> QED
  BY <1>3, <1>6

-----------------------------------------------------------------------------
(* The state of Codex says a session, so that it is never taken for none.  *)
Opened(state) == "session" \in DOMAIN state /\ state.session # None

LEMMA OpenedIsKept ==
  ASSUME NEW state, Opened(state), NEW line
  PROVE  Opened(CodexState(state, line))
<1>1. Opened(OpenSession(state, line))
  BY DEF OpenSession, Opened, NoState
<1>2. Opened(TurnContext(state, line))
  BY DEF TurnContext, Opened
<1>3. Opened(Counted(state, line))
  BY DEF Counted, Opened
<1> QED
  BY <1>1, <1>2, <1>3 DEF CodexState

(* What is parsed of the lines from i on.                                  *)
Sound(p, state, a) ==
  /\ IsParse(a)
  /\ IF p = "codex" THEN Opened(a.state) ELSE a.state = state

LEMMA BatchIsSound ==
  ASSUME NEW p \in Providers, NEW state, p = "codex" => Opened(state),
         NEW lines, IsList(lines), NEW i \in 0..Len(lines)
  PROVE  \A k \in i..Len(lines) : Sound(p, state, Fold(p, Begun(state), SubSeq(lines, i + 1, k)))
<1> DEFINE F(k) == Fold(p, Begun(state), SubSeq(lines, i + 1, k))
           G == {k \in i..Len(lines) : Sound(p, state, F(k))}
<1>0. Len(lines) \in Nat /\ i \in Nat
  BY DEF IsList
<1>1. i \in G
  <2>1. Fold(p, Begun(state), SubSeq(lines, i + 1, i)) = Begun(state)
    <3>1. PICK acc : acc = Begun(state)
      OBVIOUS
    <3>2. Fold(p, acc, SubSeq(lines, i + 1, i)) = acc
      BY FoldNothing
    <3> QED
      BY <3>1, <3>2
  <2>2. Sound(p, state, Begun(state))
    BY EmptyList DEF Sound, IsParse, Begun
  <2> QED
    BY <1>0, <2>1, <2>2
<1>2. ASSUME NEW k \in i..(Len(lines) - 1), k \in G
      PROVE  k + 1 \in G
  <2>1. Fold(p, Begun(state), SubSeq(lines, i + 1, k + 1)) =
          ParseLine(p, Fold(p, Begun(state), SubSeq(lines, i + 1, k)), lines[k + 1])
    <3>1. PICK acc : acc = Begun(state)
      OBVIOUS
    <3> HIDE DEF G
    <3>2. Fold(p, acc, SubSeq(lines, i + 1, k + 1)) =
            ParseLine(p, Fold(p, acc, SubSeq(lines, i + 1, k)), lines[k + 1])
      BY ParseSlice
    <3> QED
      BY <3>1, <3>2
  <2>2. PICK a : a = F(k)
    OBVIOUS
  <2>3. Sound(p, state, a)
    BY <1>2, <2>2
  <2>4. PICK b : b = ParseLine(p, a, lines[k + 1])
    OBVIOUS
  <2>5. IsParse(b)
    BY <2>3, <2>4, ParseLineKeeps DEF Sound
  <2>6. b.state = NewState(p, a.state, lines[k + 1])
    <3>1. b = [state |-> NewState(p, a.state, lines[k + 1]),
               events |-> a.events \o NewEvents(p, a.state, lines[k + 1])]
      BY <2>3, <2>4, ParseLineIs DEF Sound
    <3> QED
      BY <3>1
  <2>7. Sound(p, state, b)
    BY <2>3, <2>5, <2>6, OpenedIsKept DEF Sound, NewState
  <2>8. F(k + 1) = b
    BY <2>1, <2>2, <2>4
  <2> QED
    BY <1>0, <2>7, <2>8
<1> HIDE DEF G
<1>3. \A k \in i..Len(lines) : k \in G
  BY <1>0, <1>1, <1>2, Climb
<1> QED
  BY <1>3 DEF G

Joined(a, b) == [state |-> b.state, events |-> a.events \o b.events]

(* A batch of lines, parsed on from the state the lines before it left, is *)
(* what one parse of them all makes of it.                                 *)
LEMMA BatchesJoin ==
  ASSUME NEW p \in Providers, NEW state, p = "codex" => Opened(state),
         NEW lines, IsList(lines), NEW i \in 0..Len(lines),
         NEW end \in i..Len(lines),
         NEW a, a = Fold(p, Begun(state), SubSeq(lines, 1, i)),
         NEW b, b = Fold(p, Begun(a.state), SubSeq(lines, i + 1, end))
  PROVE  Fold(p, Begun(state), SubSeq(lines, 1, end)) = Joined(a, b)
<1> DEFINE B(k) == Fold(p, Begun(a.state), SubSeq(lines, i + 1, k))
           C(k) == Fold(p, Begun(state), SubSeq(lines, 1, k))
           G == {k \in i..Len(lines) : C(k) = [state |-> B(k).state, events |-> a.events \o B(k).events]}
<1>0. Len(lines) \in Nat /\ i \in Nat /\ 0 \in 0..Len(lines)
  BY DEF IsList
<1>1. Sound(p, state, a)
  <2>1. \A k \in 0..Len(lines) : Sound(p, state, Fold(p, Begun(state), SubSeq(lines, 0 + 1, k)))
    BY <1>0, BatchIsSound
  <2> QED
    BY <2>1
<1>2. PICK st : st = a.state
  OBVIOUS
<1>3. p = "codex" => Opened(st)
  BY <1>1, <1>2 DEF Sound
<1>4. PICK mid : mid = Begun(st)
  OBVIOUS
<1>5. PICK acc : acc = Begun(state)
  OBVIOUS
<1>6. i \in G
  <2>1. Fold(p, mid, SubSeq(lines, i + 1, i)) = mid
    BY FoldNothing
  <2>2. a = [state |-> a.state, events |-> a.events] /\ IsList(a.events)
    BY <1>1 DEF Sound, IsParse
  <2>3. B(i) = [state |-> a.state, events |-> <<>>]
    BY <1>2, <1>4, <2>1 DEF Begun
  <2>4. a.events \o <<>> = a.events
    BY <2>2, EmptyList
  <2>5. C(i) = a /\ i \in i..Len(lines)
    BY <1>0
  <2>6. C(i) = [state |-> B(i).state, events |-> a.events \o B(i).events]
    <3> HIDE DEF B, C
    <3> QED
      BY <2>2, <2>3, <2>4, <2>5
  <2> QED
    BY <2>5, <2>6
<1>7. ASSUME NEW k \in i..(Len(lines) - 1), k \in G
      PROVE  k + 1 \in G
  <2>1. Fold(p, mid, SubSeq(lines, i + 1, k + 1)) =
          ParseLine(p, Fold(p, mid, SubSeq(lines, i + 1, k)), lines[k + 1])
    <3> HIDE DEF G
    <3> QED
      BY ParseSlice
  <2>2. Fold(p, acc, SubSeq(lines, 1, k + 1)) = ParseLine(p, Fold(p, acc, SubSeq(lines, 1, k)), lines[k + 1])
    <3> HIDE DEF G
    <3>1. k \in 0..(Len(lines) - 1)
      BY <1>0
    <3>2. PICK z \in 0..Len(lines) : z = 0 /\ z + 1 = 1
      BY <1>0
    <3>3. \A l \in z..(Len(lines) - 1) :
             Fold(p, acc, SubSeq(lines, z + 1, l + 1)) =
               ParseLine(p, Fold(p, acc, SubSeq(lines, z + 1, l)), lines[l + 1])
      BY ParseSlice
    <3> QED
      BY <3>1, <3>2, <3>3
  <2>3. PICK d : d = Fold(p, mid, SubSeq(lines, i + 1, k))
    OBVIOUS
  <2>4. PICK c : c = Fold(p, acc, SubSeq(lines, 1, k))
    OBVIOUS
  <2>5. c = [state |-> d.state, events |-> a.events \o d.events]
    BY <1>2, <1>4, <1>5, <1>7, <2>3, <2>4
  <2>6. Sound(p, st, d)
    <3> HIDE DEF G
    <3>1. k \in i..Len(lines)
      BY <1>0
    <3>2. \A l \in i..Len(lines) : Sound(p, st, Fold(p, Begun(st), SubSeq(lines, i + 1, l)))
      BY <1>3, BatchIsSound
    <3> QED
      BY <1>4, <2>3, <3>1, <3>2
  <2>7. IsList(a.events) /\ IsList(d.events) /\ IsParse(d)
    BY <1>1, <2>6 DEF Sound, IsParse
  <2>8. IsParse(c) /\ c.state = d.state /\ c.events = a.events \o d.events
    <3>1. IsList(a.events \o d.events)
      BY <2>7, ListsJoin
    <3> QED
      BY <2>5, <3>1 DEF IsParse
  <2>9. PICK new : new = NewEvents(p, d.state, lines[k + 1])
    OBVIOUS
  <2>10. IsList(new)
    BY <2>9, EventsAreLists
  <2>11. ParseLine(p, d, lines[k + 1]) =
           [state |-> NewState(p, d.state, lines[k + 1]), events |-> d.events \o new]
    BY <2>7, <2>9, ParseLineIs
  <2>12. ParseLine(p, c, lines[k + 1]) =
           [state |-> NewState(p, d.state, lines[k + 1]), events |-> (a.events \o d.events) \o new]
    BY <2>8, <2>9, ParseLineIs
  <2>13. (a.events \o d.events) \o new = a.events \o (d.events \o new)
    <3>1. PICK e, f : e = a.events /\ f = d.events
      OBVIOUS
    <3>2. IsList(e) /\ IsList(f)
      BY <2>7, <3>1
    <3>3. (e \o f) \o new = e \o (f \o new)
      <4> HIDE DEF B, C, G
      <4>1. Chain(Chain(e, f), new) = Chain(e, Chain(f, new))
        BY <2>10, <3>2, JoinAgain
      <4> QED
        BY <4>1 DEF Chain
    <3> QED
      BY <3>1, <3>3
  <2>14. B(k + 1) = ParseLine(p, d, lines[k + 1]) /\ C(k + 1) = ParseLine(p, c, lines[k + 1])
    BY <1>2, <1>4, <1>5, <2>1, <2>2, <2>3, <2>4
  <2>15. C(k + 1) = [state |-> B(k + 1).state, events |-> a.events \o B(k + 1).events]
    <3>1. PICK x, y, all : x = B(k + 1) /\ y = C(k + 1) /\ all = a.events \o (d.events \o new)
      OBVIOUS
    <3>2. x = [state |-> NewState(p, d.state, lines[k + 1]), events |-> d.events \o new]
      BY <2>11, <2>14, <3>1
    <3>3. y = [state |-> NewState(p, d.state, lines[k + 1]), events |-> all]
      BY <2>12, <2>13, <2>14, <3>1
    <3>4. y = [state |-> x.state, events |-> a.events \o x.events]
      <4>1. x.events = d.events \o new
        BY <3>2
      <4>2. a.events \o x.events = all
        BY <3>1, <4>1
      <4> HIDE DEF B, C, G
      <4> QED
        BY <3>2, <3>3, <4>2
    <3> QED
      BY <3>1, <3>4
  <2>16. k + 1 \in i..Len(lines)
    BY <1>0
  <2> QED
    BY <2>15, <2>16
<1>8. \A k \in i..Len(lines) : k \in G
  <2> HIDE DEF G
  <2> QED
    BY <1>0, <1>6, <1>7, Climb
<1>9. C(end) = [state |-> B(end).state, events |-> a.events \o B(end).events]
  BY <1>8
<1> QED
  BY <1>9 DEF Joined

-----------------------------------------------------------------------------
(* What is kept of a source is one parse of the lines read of it.          *)
OneParse(p, lines, read) ==
  LET all == Fold(p, Begun(FirstState(NoState)), SubSeq(lines, 1, read.cursor.offset))
  IN /\ read.events = Numbered(all.events, 0)
     /\ read.cursor.next = Len(all.events)
     /\ read.cursor.codex = IF p = "codex" /\ read.cursor.offset > 0 THEN all.state ELSE NoState

Kept(s) == [cursor |-> cursor[s], events |-> events[s]]
BatchInv == \A s \in Source : OneParse(script[s].provider, script[s].lines, Kept(s))

LEMMA NumberedJoin ==
  ASSUME NEW a, NEW b, IsList(a), IsList(b)
  PROVE  Numbered(a, 0) \o Numbered(b, Len(a)) = Numbered(a \o b, 0)
<1>1. PICK c : c = a \o b
  OBVIOUS
<1>2. /\ IsList(c) /\ Len(c) = Len(a) + Len(b)
      /\ \A i \in 1..Len(a) : c[i] = a[i]
      /\ \A i \in 1..Len(b) : c[Len(a) + i] = b[i]
  BY <1>1, ListsJoin
<1>3. /\ Len(a) \in Nat /\ Len(b) \in Nat /\ Len(c) \in Nat
      /\ DOMAIN a = 1..Len(a) /\ DOMAIN b = 1..Len(b) /\ DOMAIN c = 1..Len(c)
  BY <1>2 DEF IsList
<1>4. PICK S : S = [seq : Int, event : Range(a) \union Range(b) \union Range(c)]
  OBVIOUS
<1>5. PICK x, y, z : x = Numbered(a, 0) /\ y = Numbered(b, Len(a)) /\ z = Numbered(c, 0)
  OBVIOUS
<1>6. /\ x = [i \in 1..Len(a) |-> [seq |-> i - 1, event |-> a[i]]]
      /\ y = [i \in 1..Len(b) |-> [seq |-> Len(a) + i - 1, event |-> b[i]]]
      /\ z = [i \in 1..Len(c) |-> [seq |-> i - 1, event |-> c[i]]]
  BY <1>3, <1>5 DEF Numbered
<1>7. x \in Seq(S) /\ y \in Seq(S) /\ z \in Seq(S)
  <2>1. \A i \in 1..Len(a) : a[i] \in Range(a)
    BY <1>3 DEF Range
  <2>2. \A i \in 1..Len(b) : b[i] \in Range(b)
    BY <1>3 DEF Range
  <2>3. \A i \in 1..Len(c) : c[i] \in Range(c)
    BY <1>3 DEF Range
  <2>4. x \in [1..Len(a) -> S]
    BY <1>3, <1>4, <1>6, <2>1
  <2>5. y \in [1..Len(b) -> S]
    BY <1>3, <1>4, <1>6, <2>2
  <2>6. z \in [1..Len(c) -> S]
    BY <1>3, <1>4, <1>6, <2>3
  <2>7. x \in Seq(S)
    BY <1>3, <2>4
  <2>8. y \in Seq(S)
    BY <1>3, <2>5
  <2>9. z \in Seq(S)
    BY <1>3, <2>6
  <2> QED
    BY <2>7, <2>8, <2>9
<1>8. Len(x) = Len(a) /\ Len(y) = Len(b) /\ Len(z) = Len(c)
  BY <1>3, <1>6, <1>7
<1>9. PICK w : w = x \o y
  OBVIOUS
<1>10. w \in Seq(S) /\ Len(w) = Len(z) /\ Len(z) = Len(a) + Len(b)
  <2>1. x \o y \in Seq(S) /\ Len(x \o y) = Len(x) + Len(y)
    BY <1>7
  <2> QED
    BY <1>2, <1>8, <1>9, <2>1
<1>11. ASSUME NEW i \in 1..Len(z) PROVE w[i] = z[i]
  <2>1. CASE i <= Len(a)
    <3>1. w[i] = x[i] /\ i \in 1..Len(a)
      BY <1>3, <1>7, <1>8, <1>9, <2>1
    <3>2. c[i] = a[i]
      BY <1>2, <3>1
    <3> QED
      BY <1>6, <1>8, <3>1, <3>2
  <2>2. CASE i > Len(a)
    <3>1. PICK j \in 1..Len(b) : i = Len(a) + j
      <4>1. i \in Int /\ i > Len(a) /\ i <= Len(a) + Len(b)
        BY <1>3, <1>8, <1>10, <2>2
      <4>2. PICK j : j = i - Len(a)
        OBVIOUS
      <4>3. j \in 1..Len(b) /\ i = Len(a) + j
        BY <1>3, <4>1, <4>2
      <4> QED
        BY <4>3
    <3>2. w[i] = y[j]
      BY <1>3, <1>7, <1>8, <1>9, <3>1
    <3>3. c[i] = b[j]
      BY <1>2, <3>1
    <3> QED
      BY <1>6, <1>8, <3>1, <3>2, <3>3
  <2>3. i \in Int /\ Len(a) \in Int
    BY <1>3
  <2> QED
    BY <2>1, <2>2, <2>3
<1>12. w = [i \in 1..Len(w) |-> w[i]]
  BY <1>10
<1>13. z = [i \in 1..Len(z) |-> z[i]]
  BY <1>7
<1>14. w = z
  BY <1>10, <1>11, <1>12, <1>13
<1> QED
  BY <1>1, <1>5, <1>9, <1>14

LEMMA NumberedLen ==
  ASSUME NEW a, IsList(a), NEW n
  PROVE  Len(Numbered(a, n)) = Len(a)
<1>1. DOMAIN a = 1..Len(a) /\ Len(a) \in Nat
  BY DEF IsList
<1>2. Numbered(a, n) = [i \in 1..Len(a) |-> [seq |-> n + i - 1, event |-> a[i]]]
  BY <1>1 DEF Numbered
<1> QED
  BY <1>1, <1>2

(* Reading on from where one parse ended.                                  *)
LEMMA TakeIsOneParse ==
  ASSUME NEW s, NEW p \in Providers, NEW lines, IsList(lines),
         p = script[s].provider, lines = script[s].lines,
         NEW from, OneParse(p, lines, from), from.cursor.offset \in 0..Len(lines),
         NEW end \in (from.cursor.offset + 1)..Len(lines)
  PROVE  OneParse(p, lines, Take(s, from, end))
<1>0. Len(lines) \in Nat
  BY DEF IsList
<1>00. PICK start : start = FirstState(NoState)
  OBVIOUS
<1>1. PICK i \in 0..Len(lines) : i = from.cursor.offset
  OBVIOUS
<1>2. PICK a : a = Fold(p, Begun(start), SubSeq(lines, 1, i))
  OBVIOUS
<1>3. PICK b : b = Fold(p, Begun(a.state), SubSeq(lines, i + 1, end))
  OBVIOUS
<1>4. PICK c : c = Fold(p, Begun(start), SubSeq(lines, 1, end))
  OBVIOUS
<1>5. Opened(start)
  BY <1>00, SourcesAssumption DEF Opened, FirstState, NoState
<1>6. end \in i..Len(lines) /\ end \in 0..Len(lines) /\ end > 0 /\ end \in Nat
  BY <1>0, <1>1
<1>7. Sound(p, start, a) /\ Sound(p, start, c)
  <2>1. PICK z \in 0..Len(lines) : z = 0 /\ z + 1 = 1
    BY <1>0
  <2>2. \A k \in z..Len(lines) : Sound(p, start, Fold(p, Begun(start), SubSeq(lines, z + 1, k)))
    BY <1>5, BatchIsSound
  <2> QED
    BY <1>1, <1>2, <1>4, <1>6, <2>1, <2>2
<1>8. PICK st : st = a.state
  OBVIOUS
<1>9. Sound(p, st, b)
  <2>1. p = "codex" => Opened(st)
    BY <1>7, <1>8 DEF Sound
  <2>2. \A k \in i..Len(lines) : Sound(p, st, Fold(p, Begun(st), SubSeq(lines, i + 1, k)))
    BY <2>1, BatchIsSound
  <2> QED
    BY <1>3, <1>6, <1>8, <2>2
<1>10. c = [state |-> b.state, events |-> a.events \o b.events]
  <2>1. p = "codex" => Opened(start)
    BY <1>5
  <2>2. end \in i..Len(lines)
    BY <1>6
  <2>3. Fold(p, Begun(start), SubSeq(lines, 1, end)) = Joined(a, b)
    BY <1>2, <1>3, <2>1, <2>2, BatchesJoin
  <2> QED
    BY <1>4, <2>3 DEF Joined
<1>11. from.events = Numbered(a.events, 0) /\ from.cursor.next = Len(a.events)
  BY <1>00, <1>1, <1>2 DEF OneParse
<1>12. FirstState(from.cursor.codex) = a.state
  <2>1. CASE p = "codex" /\ i > 0
    <3>1. from.cursor.codex = a.state
      BY <1>00, <1>1, <1>2, <2>1 DEF OneParse
    <3>2. a.state # NoState
      BY <1>7, <2>1 DEF Sound, Opened, NoState
    <3> QED
      BY <3>1, <3>2 DEF FirstState
  <2>2. CASE p # "codex"
    BY <1>00, <1>1, <1>2, <1>7, <2>2 DEF OneParse, Sound
  <2>3. CASE i = 0
    <3>1. from.cursor.codex = NoState
      BY <1>1, <2>3 DEF OneParse
    <3>2. a = Begun(start)
      <4>1. PICK z \in 0..Len(lines) : z = 0 /\ z + 1 = 1
        BY <1>0
      <4>2. Fold(p, Begun(start), SubSeq(lines, z + 1, z)) = Begun(start)
        BY FoldNothing
      <4> QED
        BY <1>2, <2>3, <4>1, <4>2
    <3> QED
      BY <1>00, <3>1, <3>2 DEF Begun
  <2> QED
    BY <2>1, <2>2, <2>3
<1>13. ParseLines(p, SubSeq(lines, i + 1, end), from.cursor.next, from.cursor.codex) =
         [events |-> Numbered(b.events, Len(a.events)), state |-> IF p = "codex" THEN b.state ELSE NoState]
  <2>1. ParseLines(p, SubSeq(lines, i + 1, end), from.cursor.next, from.cursor.codex) =
          [events |-> Numbered(Fold(p, Begun(FirstState(from.cursor.codex)), SubSeq(lines, i + 1, end)).events,
                               from.cursor.next),
           state |-> IF p = "codex"
                     THEN Fold(p, Begun(FirstState(from.cursor.codex)), SubSeq(lines, i + 1, end)).state
                     ELSE NoState]
    BY ParseLinesIs
  <2> QED
    BY <1>3, <1>11, <1>12, <2>1
<1>14. PICK out : out = ParseLines(p, SubSeq(lines, i + 1, end), from.cursor.next, from.cursor.codex)
  OBVIOUS
<1>15. PICK e, f : e = a.events /\ f = b.events
  OBVIOUS
<1>16. IsList(e) /\ IsList(f)
  BY <1>7, <1>9, <1>15 DEF Sound, IsParse
<1>17. Numbered(e, 0) \o Numbered(f, Len(e)) = Numbered(e \o f, 0)
  BY <1>16, NumberedJoin
<1>18. Len(Numbered(f, Len(e))) = Len(f) /\ Len(e \o f) = Len(e) + Len(f)
  BY <1>16, NumberedLen, ListsJoin
<1>19. c.events = e \o f /\ c.state = b.state
  BY <1>10, <1>15
<1>20. PICK t, x, y : t = Take(s, from, end) /\ x = Numbered(e, 0) /\ y = Numbered(f, Len(e))
  OBVIOUS
<1>21. out.events = y /\ out.state = IF p = "codex" THEN c.state ELSE NoState
  BY <1>13, <1>14, <1>15, <1>19, <1>20
<1>22. t = [cursor |-> [offset |-> end, next |-> from.cursor.next + Len(out.events), codex |-> out.state],
            events |-> from.events \o out.events]
  BY <1>1, <1>14, <1>20, Zenon DEF Take, Parsed
<1>23. t.cursor.offset = end /\ t.cursor.codex = out.state
  BY <1>22
<1>24. t.cursor.next = Len(c.events)
  <2>1. t.cursor.next = from.cursor.next + Len(out.events)
    BY <1>22
  <2> QED
    BY <1>11, <1>15, <1>18, <1>19, <1>20, <1>21, <2>1
<1>25. t.events = Numbered(c.events, 0)
  <2>1. t.events = x \o y
    BY <1>11, <1>15, <1>20, <1>21, <1>22
  <2> QED
    BY <1>17, <1>19, <1>20, <2>1
<1>26. OneParse(p, lines, t)
  BY <1>00, <1>4, <1>6, <1>21, <1>23, <1>24, <1>25 DEF OneParse
<1> QED
  BY <1>20, <1>26

(* What is not read yet is kept: nothing.                                  *)
LEMMA NothingRead ==
  ASSUME NEW p, NEW lines, IsList(lines), NEW read, read.cursor = NewCursor, read.events = <<>>
  PROVE  OneParse(p, lines, read)
<1>1. PICK z \in 0..Len(lines) : z = 0 /\ z + 1 = 1
  BY DEF IsList
<1>2. PICK acc : acc = Begun(FirstState(NoState))
  OBVIOUS
<1>3. Fold(p, Begun(FirstState(NoState)), SubSeq(lines, 1, 0)) = Begun(FirstState(NoState))
  <2>1. Fold(p, acc, SubSeq(lines, z + 1, z)) = acc
    BY FoldNothing
  <2> QED
    BY <1>1, <1>2, <2>1
<1>4. Numbered(<<>>, 0) = <<>>
  BY DEF Numbered
<1> QED
  BY <1>3, <1>4 DEF OneParse, NewCursor, Begun

LEMMA ReadKeepsBatches ==
  ASSUME TypeInv, BatchInv, Read
  PROVE  BatchInv'
<1>0. script' = script
  BY DEF Read, files
<1>1. CASE UNCHANGED <<cursor, events>>
  BY <1>0, <1>1 DEF BatchInv, Kept
<1>2. CASE ~UNCHANGED <<cursor, events>>
  <2>1. PICK f, from : f = round.file /\ from = Resume(f)
    OBVIOUS
  <2>2. PICK taken :
          /\ f.size > from.cursor.offset /\ Readable(f) # None
          /\ taken = Take(f.source, from, Readable(f))
          /\ cursor' = [cursor EXCEPT ![f.source] = taken.cursor]
          /\ events' = [events EXCEPT ![f.source] = taken.events]
    BY <1>2, <2>1 DEF Read
  <2>3. PICK s \in Source : s = f.source /\ f.size \in 0..Len(script[s].lines)
    BY <2>1 DEF Read, TypeInv, RoundFile, Current
  <2>4. PICK p, lines : p = script[s].provider /\ lines = script[s].lines
    OBVIOUS
  <2>5. p \in Providers /\ IsList(lines) /\ Len(lines) \in Nat
    BY <2>4, ScriptOf DEF TypeInv, Providers, IsList
  <2>6. PICK end : end = Readable(f)
    OBVIOUS
  <2>7. end = f.size
    BY <2>2, <2>3, <2>5, <2>4, <2>6, ReadableIsTheSize
  <2>8. OneParse(p, lines, from) /\ from.cursor.offset \in 0..Len(lines)
    <3>1. CASE f.size < cursor[s].offset
      <4>1. from = [cursor |-> NewCursor, events |-> <<>>]
        BY <2>1, <2>3, <3>1 DEF Resume
      <4>2. from.cursor = NewCursor /\ from.events = <<>> /\ from.cursor.offset = 0
        BY <4>1 DEF NewCursor
      <4> QED
        BY <2>5, <4>2, NothingRead
    <3>2. CASE ~(f.size < cursor[s].offset)
      <4>1. from = Kept(s)
        BY <2>1, <2>3, <3>2 DEF Resume, Kept
      <4>2. from.cursor.offset \in 0..Len(lines)
        BY <2>4, <4>1 DEF Kept, TypeInv, KeptOK
      <4> QED
        BY <2>4, <4>1, <4>2 DEF BatchInv
    <3> QED
      BY <3>1, <3>2
  <2>9. end \in (from.cursor.offset + 1)..Len(lines)
    BY <2>2, <2>3, <2>4, <2>5, <2>7, <2>8
  <2>10. OneParse(p, lines, taken)
    BY <2>2, <2>3, <2>4, <2>5, <2>6, <2>8, <2>9, TakeIsOneParse
  <2>11. ASSUME NEW t \in Source
         PROVE  OneParse(script'[t].provider, script'[t].lines, Kept(t)')
    <3>1. CASE t = s
      <4>1. cursor'[t] = taken.cursor /\ events'[t] = taken.events
        BY <2>2, <2>3, <3>1 DEF TypeInv, KeptOK
      <4>2. Kept(t)' = [cursor |-> taken.cursor, events |-> taken.events]
        BY <4>1 DEF Kept
      <4>3. OneParse(p, lines, [cursor |-> taken.cursor, events |-> taken.events])
        BY <2>10 DEF OneParse
      <4> QED
        BY <1>0, <2>4, <3>1, <4>2, <4>3
    <3>2. CASE t # s
      <4>1. cursor'[t] = cursor[t] /\ events'[t] = events[t]
        BY <2>2, <2>3, <3>2 DEF TypeInv, KeptOK
      <4> QED
        BY <1>0, <4>1 DEF BatchInv, Kept
    <3> QED
      BY <3>1, <3>2
  <2> QED
    BY <2>11 DEF BatchInv
<1> QED
  BY <1>1, <1>2

LEMMA NextKeepsBatches ==
  ASSUME TypeInv, BatchInv, [Next]_vars
  PROVE  BatchInv'
<1>1. CASE Prune
  <2>0. script' = script
    BY <1>1 DEF Prune, files
  <2>1. ASSUME NEW s \in Source
        PROVE  OneParse(script'[s].provider, script'[s].lines, Kept(s)')
    <3>1. CASE s \in Stale
      <4>1. Kept(s)' = [cursor |-> NewCursor, events |-> <<>>]
        BY <1>1, <3>1 DEF Prune, Kept
      <4>2. IsList(script[s].lines)
        BY ScriptOf DEF TypeInv, IsList
      <4>3. Kept(s)'.cursor = NewCursor /\ Kept(s)'.events = <<>>
        BY <4>1
      <4> QED
        BY <2>0, <4>2, <4>3, NothingRead
    <3>2. CASE s \notin Stale
      <4>1. cursor'[s] = cursor[s] /\ events'[s] = events[s]
        BY <1>1, <3>2 DEF Prune
      <4> QED
        BY <2>0, <4>1 DEF BatchInv, Kept
    <3> QED
      BY <3>1, <3>2
  <2> QED
    BY <2>1 DEF BatchInv
<1>2. CASE UNCHANGED <<script, cursor, events>>
  BY <1>2 DEF BatchInv, Kept
<1>3. ASSUME ~Prune, ~Read PROVE UNCHANGED <<script, cursor, events>>
  <2>1. CASE Discover
    BY <2>1 DEF Discover, Begin, Walk, WalkFails, WalkEnds, ListDistros, Find, List, files, kept
  <2>2. CASE Scan
    BY <1>3, <2>2 DEF Scan, StatMany, IdentifyMany, Open, Stat, StatLocal, StatGone, StatKnown,
                      ReadMany, StatWhole, files, kept
  <2>3. ASSUME NEW s \in Source, Agent(s) PROVE UNCHANGED <<script, cursor, events>>
    BY <2>3, AgentMoves DEF Move, kept
  <2>4. CASE UNCHANGED vars
    BY <2>4 DEF vars, files, kept
  <2> QED
    BY <1>3, <2>1, <2>2, <2>3, <2>4 DEF Next, Round
<1> QED
  BY <1>1, <1>2, <1>3, ReadKeepsBatches

LEMMA InitBatches == Init => BatchInv
<1> SUFFICES ASSUME Init, NEW s \in Source PROVE OneParse(script[s].provider, script[s].lines, Kept(s))
  BY DEF BatchInv
<1>1. IsList(script[s].lines)
  BY InitTypes, ScriptOf DEF TypeInv, IsList
<1>2. Kept(s) = [cursor |-> NewCursor, events |-> <<>>]
  BY DEF Init, Kept
<1> QED
  BY <1>1, <1>2, NothingRead

(* However the lines of a source came in, in whichever form and in which   *)
(* batches, after whatever failed, was cut off or was put back, the events *)
(* kept of it are those of one parse of its lines from the start: for      *)
(* every provider, any lines, and files of any length.                     *)
THEOREM OneParseOfAll == Spec => []BatchesAreOneParse
<1>1. ASSUME TypeInv, BatchInv PROVE BatchesAreOneParse
  <2> SUFFICES ASSUME NEW s \in Source
               PROVE  events[s] = ParseLines(script[s].provider,
                        SubSeq(script[s].lines, 1, cursor[s].offset), 0, NoState).events
    BY DEF BatchesAreOneParse
  <2>1. PICK p, lines : p = script[s].provider /\ lines = SubSeq(script[s].lines, 1, cursor[s].offset)
    OBVIOUS
  <2>2. events[s] = Numbered(Fold(p, Begun(FirstState(NoState)), lines).events, 0)
    BY <1>1, <2>1 DEF BatchInv, OneParse, Kept
  <2>3. ParseLines(p, lines, 0, NoState) =
          [events |-> Numbered(Fold(p, Begun(FirstState(NoState)), lines).events, 0),
           state |-> IF p = "codex" THEN Fold(p, Begun(FirstState(NoState)), lines).state ELSE NoState]
    <3>1. p \in Providers
      BY <1>1, <2>1, ScriptOf DEF TypeInv, Providers
    <3> QED
      BY <3>1, ParseLinesIs
  <2> QED
    BY <2>1, <2>2, <2>3
<1>2. TypeInv /\ BatchInv /\ [Next]_vars => (TypeInv /\ BatchInv)'
  BY NextKeepsTypes, NextKeepsBatches
<1> QED
  BY <1>1, <1>2, InitTypes, InitBatches, PTL DEF Spec

-----------------------------------------------------------------------------
(* The tokens of a Codex session: a fold takes what is appended last.      *)
LEMMA FoldAppend ==
  ASSUME NEW what, NEW acc, NEW a, IsList(a), NEW x
  PROVE  Fold(what, acc, a \o <<x>>) = Takes(what, Fold(what, acc, a), x)
<1>1. PICK one : one = <<x>>
  OBVIOUS
<1>2. IsList(one) /\ Len(one) = 1 /\ one[1] = x
  <2>1. <<x>> \in Seq({x}) /\ Range(<<x>>) = {x}
    BY DEF Range
  <2> QED
    BY <1>1, <2>1 DEF IsList
<1>3. PICK c : c = a \o one
  OBVIOUS
<1>4. PICK n \in Nat : n = Len(a)
  BY DEF IsList
<1>5. /\ IsList(c) /\ Len(c) = n + 1 /\ c[n + 1] = x
      /\ \A i \in 1..n : c[i] = a[i]
  <2>1. /\ IsList(c) /\ Len(c) = Len(a) + Len(one)
        /\ \A i \in 1..Len(a) : c[i] = a[i]
        /\ \A i \in 1..Len(one) : c[Len(a) + i] = one[i]
    <3>1. /\ IsList(a \o one) /\ Len(a \o one) = Len(a) + Len(one)
          /\ \A i \in 1..Len(a) : (a \o one)[i] = a[i]
          /\ \A i \in 1..Len(one) : (a \o one)[Len(a) + i] = one[i]
      <4>1. IsList(one)
        BY <1>2
      <4> QED
        BY <4>1, ListsJoin
    <3> QED
      BY <1>3, <3>1
  <2> QED
    BY <1>2, <1>4, <2>1
<1>6. PICK z \in 0..Len(c) : z = 0 /\ z + 1 = 1
  BY <1>4, <1>5
<1>7. n \in z..(Len(c) - 1)
  BY <1>4, <1>5, <1>6
<1>8. Fold(what, acc, SubSeq(c, z + 1, n + 1)) = Takes(what, Fold(what, acc, SubSeq(c, z + 1, n)), c[n + 1])
  BY <1>5, <1>7, FoldSlice
<1>9. SubSeq(c, 1, n + 1) = c
  BY <1>5 DEF IsList
<1>10. SubSeq(c, 1, n) = a
  <2>1. PICK b : b = SubSeq(c, 1, n)
    OBVIOUS
  <2>2. Len(b) = n /\ b = [i \in 1..n |-> c[i]]
    BY <1>5, <2>1 DEF IsList
  <2>3. a = [i \in 1..n |-> a[i]]
    BY <1>4 DEF IsList
  <2> QED
    BY <1>5, <2>1, <2>2, <2>3
<1> QED
  BY <1>1, <1>3, <1>5, <1>6, <1>8, <1>9, <1>10

(* The state of Codex at a line of which the session and total are known.  *)
IsAt(state, session, total) ==
  /\ state = [session |-> session, turn |-> state.turn, cwd |-> state.cwd, previous |-> total]
  /\ session # None /\ total \in Usage

LEMMA StateGoesAlong ==
  ASSUME NEW state, NEW session, NEW total, IsAt(state, session, total),
         NEW line, NEW session2, NEW total2, Accounts(session, total, line, session2, total2)
  PROVE  IsAt(CodexState(state, line), session2, total2)
<1>1. state = [session |-> session, turn |-> state.turn, cwd |-> state.cwd, previous |-> total]
  BY DEF IsAt
<1>2. CASE line.type = "session_meta"
  <2>1. CodexState(state, line) = OpenSession(state, line)
    BY <1>2 DEF CodexState
  <2>2. CASE line.session \in {None, session}
    <3>1. OpenSession(state, line) = [state EXCEPT !.cwd = Given(line.cwd, @)]
      BY <1>1, <2>2 DEF OpenSession
    <3>2. session2 = session /\ total2 = total
      BY <1>2, <2>2 DEF Accounts, Given
    <3> QED
      BY <1>1, <2>1, <3>1, <3>2 DEF IsAt
  <2>3. CASE line.session \notin {None, session}
    <3>1. OpenSession(state, line) =
            [[NoState EXCEPT !.session = line.session] EXCEPT !.cwd = Given(line.cwd, @)]
      <4>1. state.session = session
        BY <1>1
      <4>2. line.session \notin {None, state.session}
        BY <2>3, <4>1
      <4> QED
        BY <4>2 DEF OpenSession
    <3>2. session2 = line.session /\ total2 = NoUsage /\ session2 # None
      BY <1>2, <2>3 DEF Accounts, Given
    <3> QED
      BY <2>1, <3>1, <3>2 DEF IsAt, NoState, Accounts
  <2> QED
    BY <2>2, <2>3
<1>3. CASE line.type = "turn_context"
  <2>1. CodexState(state, line) = TurnContext(state, line)
    BY <1>3 DEF CodexState
  <2>2. session2 = session /\ total2 = total
    BY <1>3 DEF Accounts
  <2>3. PICK turn2, cwd2 : turn2 = Given(line.turn, state.turn) /\ cwd2 = Given(line.cwd, state.cwd)
    OBVIOUS
  <2>4. TurnContext(state, line) = [state EXCEPT !.turn = turn2, !.cwd = cwd2]
    BY <2>3 DEF TurnContext
  <2>5. TurnContext(state, line) = [session |-> session, turn |-> turn2, cwd |-> cwd2, previous |-> total]
    <3>1. PICK t, c : t = state.turn /\ c = state.cwd
      OBVIOUS
    <3>2. state = [session |-> session, turn |-> t, cwd |-> c, previous |-> total]
      BY <1>1, <3>1
    <3> QED
      BY <2>4, <3>2
  <2> QED
    BY <2>1, <2>2, <2>5 DEF IsAt
<1>4. CASE line.type = "token_count"
  <2>1. CodexState(state, line) = Counted(state, line)
    BY <1>4 DEF CodexState
  <2>2. session2 = session /\ total2 = Given(line.total, total) /\ total2 \in Usage
    BY <1>4 DEF Accounts
  <2> QED
    BY <1>1, <2>1, <2>2 DEF IsAt, Counted, Given
<1>5. CASE line.type \notin {"session_meta", "turn_context", "token_count"}
  <2>1. CodexState(state, line) = state
    BY <1>5 DEF CodexState
  <2>2. session2 = session /\ total2 = total
    BY <1>5 DEF Accounts
  <2> QED
    BY <2>1, <2>2 DEF IsAt
<1> QED
  BY <1>2, <1>3, <1>4, <1>5

(* Tokens are added up field by field.                                     *)
LEMMA SumOfUsage ==
  ASSUME NEW a \in Usage, NEW b \in Usage
  PROVE  /\ Sum(a, b) \in Usage
         /\ Sum(a, b).input = a.input + b.input
         /\ Sum(a, b).cached = a.cached + b.cached
         /\ Sum(a, b).output = a.output + b.output
         /\ Sum(a, NoUsage) = a
         /\ Subtract(Sum(a, b), a) = b
<1>1. DOMAIN a = {"input", "cached", "output"} /\ DOMAIN b = {"input", "cached", "output"}
  BY DEF Usage
<1>2. PICK c : c = Sum(a, b)
  OBVIOUS
<1>3. c = [k \in {"input", "cached", "output"} |-> a[k] + b[k]]
  BY <1>1, <1>2 DEF Sum
<1>4. a["input"] \in Nat /\ a["cached"] \in Nat /\ a["output"] \in Nat
  BY DEF Usage
<1>5. b["input"] \in Nat /\ b["cached"] \in Nat /\ b["output"] \in Nat
  BY DEF Usage
<1>6. c \in Usage
  <2>1. c = [input |-> c["input"], cached |-> c["cached"], output |-> c["output"]]
    BY <1>3
  <2>2. c["input"] \in Nat /\ c["cached"] \in Nat /\ c["output"] \in Nat
    BY <1>3, <1>4, <1>5
  <2> QED
    BY <2>1, <2>2 DEF Usage
<1>7. Sum(a, NoUsage) = a
  <2>1. Sum(a, NoUsage) = [k \in {"input", "cached", "output"} |-> a[k] + NoUsage[k]]
    BY <1>1 DEF Sum
  <2>2. \A k \in {"input", "cached", "output"} : a[k] + NoUsage[k] = a[k]
    BY <1>4 DEF NoUsage
  <2>3. a = [k \in {"input", "cached", "output"} |-> a[k]]
    BY DEF Usage
  <2> QED
    BY <2>1, <2>2, <2>3
<1>8. Subtract(c, a) = b
  <2>1. Subtract(c, a) = [k \in {"input", "cached", "output"} |-> Minus(c[k], a[k])]
    BY <1>3 DEF Subtract
  <2>2. \A k \in {"input", "cached", "output"} : Minus(c[k], a[k]) = b[k]
    BY <1>3, <1>4, <1>5 DEF Minus
  <2>3. b = [k \in {"input", "cached", "output"} |-> b[k]]
    BY DEF Usage
  <2> QED
    BY <2>1, <2>2, <2>3
<1> QED
  BY <1>2, <1>3, <1>6, <1>7, <1>8

(* An event of a line adds to the tokens what the line accounts for; a     *)
(* line that makes no event accounts for none.                             *)
LEMMA LineAddsItsTokens ==
  ASSUME NEW state, NEW session, NEW total, IsAt(state, session, total),
         NEW line, NEW session2, NEW total2, Accounts(session, total, line, session2, total2),
         NEW acc \in Usage
  PROVE  \/ CodexEvents(state, line) = <<>> /\ Sum(acc, line.used) = acc
         \/ \E e : /\ CodexEvents(state, line) = <<e>>
                   /\ \A n : Plus(acc, [seq |-> n, event |-> e]) = Sum(acc, line.used)
<1>0. state.previous = total /\ line.used \in Usage /\ total \in Usage
  BY DEF IsAt, Accounts
<1>1. ASSUME line.used = NoUsage PROVE Sum(acc, line.used) = acc
  BY <1>0, <1>1, SumOfUsage
<1>2. ASSUME NEW e, NEW n, e.usage \in Usage,
             NEW d \in Usage, e.usage = [input |-> d.input - d.cached, cached |-> d.cached, output |-> d.output]
      PROVE  Plus(acc, [seq |-> n, event |-> e]) = Sum(acc, d)
  <2>1. PICK x : x = [input |-> e.usage.input + e.usage.cached,
                      cached |-> e.usage.cached, output |-> e.usage.output]
    OBVIOUS
  <2>2. Plus(acc, [seq |-> n, event |-> e]) = Sum(acc, x)
    BY <2>1 DEF Plus
  <2>3. d = [input |-> d.input, cached |-> d.cached, output |-> d.output]
        /\ d.input \in Nat /\ d.cached \in Nat /\ d.output \in Nat
    BY <1>2 DEF Usage
  <2>4. e.usage.input = d.input - d.cached /\ e.usage.cached = d.cached /\ e.usage.output = d.output
    BY <1>2
  <2>5. (d.input - d.cached) + d.cached = d.input
    BY <2>3
  <2> QED
    BY <2>1, <2>2, <2>3, <2>4, <2>5
<1>3. CASE line.type = "response_item"
  <2>1. line.used = NoUsage
    BY <1>3 DEF Accounts
  <2>2. PICK e : e = Event(state, line.item, line.actor, NoUsage)
    OBVIOUS
  <2>3. CodexEvents(state, line) = IF line.item # None THEN <<e>> ELSE <<>>
    BY <1>3, <2>2 DEF CodexEvents, When
  <2>4. ASSUME NEW n PROVE Plus(acc, [seq |-> n, event |-> e]) = Sum(acc, line.used)
    <3>1. e.usage = NoUsage
      BY <2>2 DEF Event
    <3>2. NoUsage \in Usage
      BY DEF NoUsage, Usage
    <3>3. NoUsage = [input |-> NoUsage.input - NoUsage.cached, cached |-> NoUsage.cached,
                     output |-> NoUsage.output]
      BY DEF NoUsage
    <3>4. Plus(acc, [seq |-> n, event |-> e]) = Sum(acc, NoUsage)
      BY <1>2, <3>1, <3>2, <3>3
    <3> QED
      BY <2>1, <3>4
  <2> QED
    BY <1>1, <2>1, <2>3, <2>4
<1>4. CASE line.type = "token_count"
  <2>1. Delta(state, line) = line.used
    <3>1. IF line.last # None THEN line.last = line.used
          ELSE IF line.total # None THEN line.total = Sum(total, line.used)
          ELSE line.used = NoUsage
      BY <1>4 DEF Accounts
    <3>2. Subtract(Sum(total, line.used), total) = line.used
      BY <1>0, SumOfUsage
    <3> QED
      BY <1>0, <3>1, <3>2 DEF Delta
  <2>2. PICK e : e = Event(state, "usage", "assistant", Tokens(line.used))
    OBVIOUS
  <2>3. CodexEvents(state, line) = IF line.used # NoUsage THEN <<e>> ELSE <<>>
    BY <1>4, <2>1, <2>2 DEF CodexEvents, When
  <2>4. ASSUME NEW n PROVE Plus(acc, [seq |-> n, event |-> e]) = Sum(acc, line.used)
    <3>1. e.usage = Tokens(line.used)
      BY <2>2 DEF Event
    <3>2. line.used.cached <= line.used.input
      BY DEF Accounts
    <3>3. line.used.input \in Nat /\ line.used.cached \in Nat /\ line.used.output \in Nat
      BY <1>0 DEF Usage
    <3>4. PICK c : c = IF line.used.cached < line.used.input THEN line.used.cached ELSE line.used.input
      OBVIOUS
    <3>5. c = line.used.cached
      BY <3>2, <3>3, <3>4
    <3>6. Tokens(line.used) = [input |-> line.used.input - line.used.cached,
                               cached |-> line.used.cached, output |-> line.used.output]
      BY <3>4, <3>5 DEF Tokens
    <3>7. Tokens(line.used) \in Usage
      BY <3>2, <3>3, <3>6 DEF Usage
    <3> QED
      BY <1>0, <1>2, <3>1, <3>6, <3>7
  <2> QED
    BY <1>1, <2>3, <2>4
<1>5. CASE line.type \notin {"response_item", "token_count"}
  <2>1. CodexEvents(state, line) = <<>>
    BY <1>5 DEF CodexEvents
  <2>2. line.used = NoUsage
    BY <1>5 DEF Accounts
  <2> QED
    BY <1>1, <2>1, <2>2
<1> QED
  BY <1>3, <1>4, <1>5

(* The tokens of events that are numbered from the first.                  *)
TokensOf(list) == Fold("spent", NoUsage, Numbered(list, 0))

LEMMA TokensAppend ==
  ASSUME NEW a, IsList(a), NEW e
  PROVE  TokensOf(a \o <<e>>) = Plus(TokensOf(a), [seq |-> Len(a), event |-> e])
<1>1. PICK one, x : one = <<e>> /\ x = [seq |-> Len(a), event |-> e]
  OBVIOUS
<1>2. IsList(one)
  BY <1>1, OneEvent DEF When
<1>3. Len(a) \in Nat /\ a \in Seq(Range(a)) /\ DOMAIN a = 1..Len(a)
  BY DEF IsList
<1>4. Numbered(one, Len(a)) = <<x>>
  <2>1. PICK n : n = Numbered(one, Len(a))
    OBVIOUS
  <2>2. DOMAIN one = {1} /\ one[1] = e
    BY <1>1
  <2>3. n = [i \in {1} |-> [seq |-> Len(a) + i - 1, event |-> one[i]]]
    BY <2>1, <2>2 DEF Numbered
  <2>4. Len(a) + 1 - 1 = Len(a)
    BY <1>3
  <2>5. n = [i \in {1} |-> x]
    BY <1>1, <2>2, <2>3, <2>4
  <2>6. <<x>> = [i \in {1} |-> x]
    <3>1. <<x>> \in Seq({x}) /\ Len(<<x>>) = 1 /\ <<x>>[1] = x
      OBVIOUS
    <3> QED
      BY <3>1
  <2> QED
    BY <2>1, <2>5, <2>6
<1>5. Numbered(a \o one, 0) = Numbered(a, 0) \o Numbered(one, Len(a))
  BY <1>2, NumberedJoin
<1>6. PICK list : list = Numbered(a, 0)
  OBVIOUS
<1>7. IsList(list)
  <2>1. list = [i \in 1..Len(a) |-> [seq |-> 0 + i - 1, event |-> a[i]]]
    BY <1>3, <1>6 DEF Numbered
  <2>2. list \in [1..Len(a) -> Range(list)] /\ DOMAIN list = 1..Len(a)
    BY <2>1 DEF Range
  <2> QED
    BY <1>3, <2>2 DEF IsList
<1>8. Fold("spent", NoUsage, list \o <<x>>) = Takes("spent", Fold("spent", NoUsage, list), x)
  BY <1>7, FoldAppend
<1>9. TokensOf(a \o one) = Fold("spent", NoUsage, list \o <<x>>)
  BY <1>4, <1>5, <1>6 DEF TokensOf
<1> QED
  BY <1>1, <1>6, <1>8, <1>9 DEF TokensOf, Takes

(* What the first k lines parse to, along their path.                      *)
AddsUp(parse, session, total, used) ==
  /\ IsParse(parse) /\ IsAt(parse.state, session, total)
  /\ TokensOf(parse.events) = used /\ used \in Usage

LEMMA LineAddsUp ==
  ASSUME NEW parse, NEW session, NEW total, NEW used, AddsUp(parse, session, total, used),
         NEW line, NEW session2, NEW total2, Accounts(session, total, line, session2, total2)
  PROVE  AddsUp(ParseLine("codex", parse, line), session2, total2, Sum(used, line.used))
<1>1. PICK state, list, new : state = parse.state /\ list = parse.events /\ new = CodexEvents(state, line)
  OBVIOUS
<1>2. PICK b : b = ParseLine("codex", parse, line)
  OBVIOUS
<1>3. b = [state |-> CodexState(state, line), events |-> list \o new]
  BY <1>1, <1>2 DEF ParseLine
<1>4. IsParse(b)
  BY <1>2, ParseLineKeeps DEF AddsUp, Providers
<1>5. IsAt(b.state, session2, total2)
  <2>1. IsAt(CodexState(state, line), session2, total2)
    BY <1>1, StateGoesAlong DEF AddsUp
  <2> QED
    BY <1>3, <2>1
<1>6. IsList(list) /\ IsAt(state, session, total) /\ TokensOf(list) = used /\ used \in Usage
  BY <1>1 DEF AddsUp, IsParse
<1>7. line.used \in Usage
  BY DEF Accounts
<1>8. TokensOf(list \o new) = Sum(used, line.used)
  <2>1. CASE new = <<>> /\ Sum(used, line.used) = used
    <3>1. list \o new = list
      BY <1>6, <2>1, EmptyList
    <3> QED
      BY <1>6, <2>1, <3>1
  <2>2. CASE \E e : /\ new = <<e>>
                    /\ \A n : Plus(used, [seq |-> n, event |-> e]) = Sum(used, line.used)
    <3>1. PICK e : /\ new = <<e>>
                   /\ \A n : Plus(used, [seq |-> n, event |-> e]) = Sum(used, line.used)
      BY <2>2
    <3>2. TokensOf(list \o <<e>>) = Plus(used, [seq |-> Len(list), event |-> e])
      BY <1>6, TokensAppend
    <3> QED
      BY <3>1, <3>2
  <2> QED
    BY <1>1, <1>6, <2>1, <2>2, LineAddsItsTokens
<1>9. Sum(used, line.used) \in Usage
  BY <1>6, <1>7, SumOfUsage
<1>10. TokensOf(b.events) = Sum(used, line.used)
  BY <1>3, <1>8
<1> QED
  BY <1>2, <1>4, <1>5, <1>9, <1>10 DEF AddsUp

LEMMA HonestLinesAddUp ==
  ASSUME NEW lines, IsList(lines), Honest(lines), NEW n \in 0..Len(lines)
  PROVE  TokensOf(Fold("codex", Begun(FirstState(NoState)), SubSeq(lines, 1, n)).events) =
           Fold("used", NoUsage, SubSeq(lines, 1, n))
<1>0. Len(lines) \in Nat
  BY DEF IsList
<1>1. PICK own, total : Path(lines, own, total)
  BY DEF Honest
<1>2. PICK acc : acc = Begun(FirstState(NoState))
  OBVIOUS
<1>3. PICK z \in 0..Len(lines) : z = 0 /\ z + 1 = 1
  BY <1>0
<1> DEFINE P(k) == Fold("codex", acc, SubSeq(lines, z + 1, k))
           U(k) == Fold("used", NoUsage, SubSeq(lines, z + 1, k))
           G == {k \in z..Len(lines) : AddsUp(P(k), own[k], total[k], U(k))}
<1>4. z \in G
  <2>1. P(z) = acc /\ U(z) = NoUsage
    BY FoldNothing
  <2>2. IsParse(acc)
    BY <1>2, EmptyList DEF IsParse, Begun
  <2>3. acc.events = <<>> /\ acc.state = [NoState EXCEPT !.session = "file"]
    BY <1>2 DEF Begun, FirstState
  <2>4. NoUsage \in Usage
    BY DEF NoUsage, Usage
  <2>5. IsAt(acc.state, "file", NoUsage)
    BY <2>3, <2>4, SourcesAssumption DEF IsAt, NoState
  <2>6. TokensOf(<<>>) = NoUsage
    <3>1. Numbered(<<>>, 0) = SubSeq(<<>>, 1, 0)
      BY DEF Numbered
    <3>2. PICK y, none : none = <<>> /\ y = 0 /\ y + 1 = 1
      OBVIOUS
    <3>3. IsList(none) /\ y \in 0..Len(none)
      BY <3>2, EmptyList
    <3>4. Fold("spent", NoUsage, SubSeq(none, y + 1, y)) = NoUsage
      BY <3>3, FoldNothing
    <3> QED
      BY <3>1, <3>2, <3>4 DEF TokensOf
  <2>7. own[z] = "file" /\ total[z] = NoUsage
    BY <1>1, <1>3 DEF Path
  <2>8. AddsUp(P(z), own[z], total[z], U(z))
    <3> HIDE DEF P, U
    <3> QED
      BY <2>1, <2>2, <2>3, <2>4, <2>5, <2>6, <2>7 DEF AddsUp
  <2> QED
    BY <1>0, <1>3, <2>8
<1>5. ASSUME NEW k \in z..(Len(lines) - 1), k \in G
      PROVE  k + 1 \in G
  <2>1. AddsUp(P(k), own[k], total[k], U(k))
    BY <1>5
  <2>2. P(k + 1) = ParseLine("codex", P(k), lines[k + 1])
    <3> HIDE DEF G
    <3>1. "codex" \in Providers
      BY DEF Providers
    <3> QED
      BY <3>1, ParseSlice
  <2>3. U(k + 1) = Sum(U(k), lines[k + 1].used)
    <3> HIDE DEF G
    <3>1. U(k + 1) = Takes("used", U(k), lines[k + 1])
      BY FoldSlice
    <3> QED
      BY <3>1 DEF Takes
  <2>4. Accounts(own[k], total[k], lines[k + 1], own[k + 1], total[k + 1])
    BY <1>0, <1>1, <1>3 DEF Path
  <2>5. AddsUp(P(k + 1), own[k + 1], total[k + 1], U(k + 1))
    <3> HIDE DEF P, U, G
    <3> QED
      BY <2>1, <2>2, <2>3, <2>4, LineAddsUp
  <2>6. k + 1 \in z..Len(lines)
    BY <1>0, <1>3
  <2> QED
    BY <2>5, <2>6
<1>6. \A k \in z..Len(lines) : k \in G
  <2> HIDE DEF G
  <2> QED
    BY <1>0, <1>3, <1>4, <1>5, Climb
<1>7. AddsUp(P(n), own[n], total[n], U(n))
  BY <1>3, <1>6
<1> QED
  BY <1>2, <1>3, <1>7 DEF AddsUp

(* No tokens of a Codex session are lost or counted twice, wherever its    *)
(* batches and sessions meet: those of the events kept are those the lines *)
(* read account for, for any lines that keep account as Codex does.        *)
THEOREM TokensAddUp ==
  AllHonest /\ Spec => []UsageAddsUp
<1>1. ASSUME TypeInv, BatchInv, AllHonest PROVE UsageAddsUp
  <2> SUFFICES ASSUME NEW s \in Source, script[s].provider = "codex"
               PROVE  Spent(events[s]) = FoldLeft(LAMBDA acc, l : Sum(acc, l.used), NoUsage,
                                                  SubSeq(script[s].lines, 1, cursor[s].offset))
    BY DEF UsageAddsUp
  <2>1. PICK lines, n : lines = script[s].lines /\ n = cursor[s].offset
    OBVIOUS
  <2>2. IsList(lines) /\ Honest(lines) /\ n \in 0..Len(lines)
    BY <1>1, <2>1, ScriptOf DEF TypeInv, FilesOK, KeptOK, IsList, AllHonest
  <2>3. TokensOf(Fold("codex", Begun(FirstState(NoState)), SubSeq(lines, 1, n)).events) =
          Fold("used", NoUsage, SubSeq(lines, 1, n))
    BY <2>2, HonestLinesAddUp
  <2>4. events[s] = Numbered(Fold("codex", Begun(FirstState(NoState)), SubSeq(lines, 1, n)).events, 0)
    BY <1>1, <2>1 DEF BatchInv, OneParse, Kept
  <2>5. Spent(events[s]) = Fold("spent", NoUsage, events[s])
    <3>1. Spent(events[s]) = SpentFold(NoUsage, events[s])
      BY Zenon DEF Spent, SpentFold
    <3> QED
      BY <3>1 DEF Fold
  <2>6. Fold("used", NoUsage, SubSeq(lines, 1, n)) = UsedFold(NoUsage, SubSeq(lines, 1, n))
    BY DEF Fold
  <2>7. Spent(events[s]) = UsedFold(NoUsage, SubSeq(lines, 1, n))
    BY <2>3, <2>4, <2>5, <2>6 DEF TokensOf
  <2> QED
    BY <2>1, <2>7, Zenon DEF UsedFold
<1> DEFINE T == AllHonest /\ TypeInv /\ BatchInv
<1>2. AllHonest /\ Init => T
  BY InitTypes, InitBatches
<1>3. T /\ [Next]_vars => T'
  BY NextKeepsTypes, NextKeepsBatches DEF AllHonest
<1>4. T => UsageAddsUp
  BY <1>1
<1> QED
  BY <1>2, <1>3, <1>4, PTL DEF Spec

-----------------------------------------------------------------------------
(* The calls of Bridge, by which a round asks a distribution.              *)

(* The times of a call, in each of its steps.  While the script is being   *)
(* written the limit was what the round had left, less what has passed.    *)
CallInTime ==
  /\ At("writing") => call.limit <= left + call.spent
  /\ At("waiting") => call.wait <= left + call.spent

CallsTyped == Times /\ Pipes /\ done \in 0..Len(Calls) /\ CallInTime

LEMMA CallIsTyped ==
  ASSUME done \in 0..Len(Calls), done < Len(Calls)
  PROVE  CurrentCall.script \in Nat /\ CurrentCall.prints \in Nat
<1>1. Calls \in Seq([script : Nat, prints : Nat])
  BY BridgeAssumption
<1>2. done + 1 \in 1..Len(Calls)
  BY <1>1
<1>3. Calls[done + 1] \in [script : Nat, prints : Nat]
  BY <1>1, <1>2, ElementOfSeq, Zenon
<1>4. CurrentCall \in [script : Nat, prints : Nat]
  BY <1>3 DEF CurrentCall
<1> QED
  BY <1>4

(* A call is in a step only while calls are left to answer.                *)
CallIsBusy == ~At("off") => done < Len(Calls)
NoChildLeft == At("off") => child = "none"

CallsInv == CallsTyped /\ CallIsBusy /\ NoChildLeft

LEMMA InitCalls == CallsInit => CallsInv
  BY BridgeAssumption DEF CallsInit, CallsInv, CallsTyped, Times, Pipes, CallInTime, CallIsBusy, NoChildLeft, Off, At

LEMMA AnswerKeepsCalls ==
  ASSUME CallsInv, Answer, done < Len(Calls), left' \in Int
  PROVE  CallsInv'
  BY BridgeAssumption DEF CallsInv, CallsTyped, Times, Pipes, CallInTime, CallIsBusy, NoChildLeft, Off, At, Answer

LEMMA NextKeepsCalls == CallsInv /\ [CallsNext]_callVars => CallsInv'
<1> SUFFICES ASSUME CallsInv, [CallsNext]_callVars PROVE CallsInv'
  OBVIOUS
<1> USE BridgeAssumption
<1>1. CASE Start
  <2>1. CASE Answer
    BY <1>1, <2>1, AnswerKeepsCalls DEF Start, CallsInv, CallsTyped, Times
  <2>2. CASE /\ left > 0 /\ child' = "alive"
             /\ call' = [Off EXCEPT !.step = "writing", !.limit = Limit, !.unsent = CurrentCall.script]
             /\ UNCHANGED <<done, pipes>>
    <3>1. CurrentCall.script \in Nat
      BY <1>1, CallIsTyped DEF Start, CallsInv, CallsTyped
    <3>2. Limit \in Int /\ Limit <= left
      BY DEF Limit, Least, CallsInv, CallsTyped, Times
    <3>3. left' = left /\ done' = done /\ done < Len(Calls) /\ UNCHANGED <<stdin, stdout, pending>>
      BY <1>1, <2>2 DEF Start, pipes
    <3>4. call' = [step |-> "writing", limit |-> Limit, unsent |-> CurrentCall.script,
                   wait |-> 0, polled |-> FALSE, spent |-> 0]
      BY <2>2 DEF Off
    <3>5. Times'
      BY <3>1, <3>2, <3>3, <3>4 DEF CallsInv, CallsTyped, Times
    <3>6. CallInTime' /\ CallIsBusy' /\ NoChildLeft'
      BY <3>2, <3>3, <3>4 DEF CallsInv, CallsTyped, Times, CallInTime, CallIsBusy, NoChildLeft, At
    <3> QED
      BY <2>2, <3>3, <3>5, <3>6 DEF CallsInv, CallsTyped, Pipes
  <2> QED
    BY <1>1, <2>1, <2>2 DEF Start, CallsInv, CallsTyped, Times
<1>2. CASE WriteScript
  <2>1. /\ call' = [call EXCEPT !.unsent = @ - 1] /\ call.unsent > 0 /\ call.step = "writing"
        /\ stdin' = stdin + 1 /\ stdin < Pipe
        /\ UNCHANGED <<left, done, child, stdout, pending>>
    BY <1>2 DEF WriteScript, At
  <2>2. Times'
    <3>1. left \in Int /\ call.unsent \in Nat
      BY DEF CallsInv, CallsTyped, Times
    <3>2. call.unsent - 1 \in Nat
      BY <2>1, <3>1
    <3> QED
      BY <2>1, <3>1, <3>2 DEF CallsInv, CallsTyped, Times
  <2>4. CallInTime' /\ CallIsBusy' /\ NoChildLeft'
    BY <2>1 DEF CallsInv, CallsTyped, Times, CallInTime, CallIsBusy, NoChildLeft, At
  <2>3. Pipes'
    BY <2>1 DEF CallsInv, CallsTyped, Pipes
  <2> QED
    BY <2>1, <2>2, <2>3, <2>4 DEF CallsInv, CallsTyped
<1>3. CASE WriteFails
  BY <1>3, AnswerKeepsCalls DEF WriteFails, CallsInv, CallsTyped, Times, CallIsBusy, At
<1>4. CASE Close
  BY <1>4 DEF Close, CallsInv, CallsTyped, Times, Pipes, CallInTime, CallIsBusy, NoChildLeft, At, pipes
<1>5. CASE Poll
  <2>1. CASE Answer
    BY <1>5, <2>1, AnswerKeepsCalls DEF Poll, CallsInv, CallsTyped, Times, CallIsBusy, At
  <2>2. CASE /\ call' = [call EXCEPT !.step = "joining"] \/ call' = [call EXCEPT !.polled = TRUE]
             /\ UNCHANGED <<done, child, pipes>>
    BY <1>5, <2>2 DEF Poll, CallsInv, CallsTyped, Times, Pipes, CallInTime, CallIsBusy, NoChildLeft, At, pipes
  <2> QED
    BY <1>5, <2>1, <2>2 DEF Poll
<1>6. CASE Join
  BY <1>6, AnswerKeepsCalls DEF Join, CallsInv, CallsTyped, Times, CallIsBusy, At
<1>7. CASE Drain
  BY <1>7 DEF Drain, CallsInv, CallsTyped, Times, Pipes, CallInTime, CallIsBusy, NoChildLeft, At
<1>8. CASE ReadCommand
  <2>1. ~At("off")
    BY <1>8 DEF ReadCommand, CallsInv, NoChildLeft
  <2>2. CurrentCall.prints \in Nat
    BY <2>1, CallIsTyped DEF CallsInv, CallsTyped, CallIsBusy
  <2> QED
    BY <1>8, <2>2 DEF ReadCommand, CanRead, CallsInv, CallsTyped, Times, Pipes, CallInTime, CallIsBusy, NoChildLeft, At
<1>9. CASE PrintOut
  BY <1>9 DEF PrintOut, CanPrint, CallsInv, CallsTyped, Times, Pipes, CallInTime, CallIsBusy, NoChildLeft, At
<1>10. CASE Exit
  BY <1>10 DEF Exit, CanExit, InputClosed, CallsInv, CallsTyped, Times, Pipes, CallInTime, CallIsBusy, NoChildLeft, At, pipes
<1>11. CASE Trouble
  BY <1>11 DEF Trouble, CallsInv, CallsTyped, Times, Pipes, CallInTime, CallIsBusy, NoChildLeft, At, pipes
<1>12. CASE Tick
  <2>1. /\ UNCHANGED <<done, child, stdin, stdout, pending>> /\ left' = left - 1
        /\ call' = [call EXCEPT !.polled = FALSE,
                       !.wait = IF call.step = "waiting" THEN @ - 1 ELSE @,
                       !.spent = IF call.step = "writing" THEN @ + 1 ELSE @]
    BY <1>12 DEF Tick, At, pipes
  <2>2. Times'
    <3> DEFINE wait == IF call.step = "waiting" THEN call.wait - 1 ELSE call.wait
               spent == IF call.step = "writing" THEN call.spent + 1 ELSE call.spent
    <3>1. left - 1 \in Int /\ wait \in Int /\ spent \in Nat
      BY DEF CallsInv, CallsTyped, Times
    <3>2. call' = [call EXCEPT !.polled = FALSE, !.wait = wait, !.spent = spent]
      BY <2>1 DEF CallsInv, CallsTyped, Times
    <3> HIDE DEF wait, spent
    <3> QED
      BY <2>1, <3>1, <3>2 DEF CallsInv, CallsTyped, Times
  <2>3. CallInTime'
    <3>1. left \in Int /\ call.limit \in Int /\ call.wait \in Int /\ call.spent \in Nat
      BY DEF CallsInv, CallsTyped, Times
    <3>2. /\ call'.step = call.step /\ call'.limit = call.limit
          /\ call.step = "waiting" => call'.wait = call.wait - 1 /\ call'.spent = call.spent
          /\ call.step = "writing" => call'.spent = call.spent + 1
      BY <2>1 DEF CallsInv, CallsTyped, Times
    <3>3. left' = left - 1
      BY <2>1
    <3> QED
      BY <3>1, <3>2, <3>3 DEF CallsInv, CallsTyped, CallInTime, At
  <2>4. CallIsBusy' /\ NoChildLeft' /\ Pipes'
    BY <2>1 DEF CallsInv, CallsTyped, Times, CallIsBusy, NoChildLeft, Pipes, At
  <2> QED
    BY <2>1, <2>2, <2>3, <2>4 DEF CallsInv, CallsTyped
<1>13. CASE UNCHANGED callVars
  BY <1>13 DEF callVars, pipes, CallsInv, CallsTyped, Times, Pipes, CallInTime, CallIsBusy, NoChildLeft, At, CurrentCall
<1> QED
  BY <1>1, <1>2, <1>3, <1>4, <1>5, <1>6, <1>7, <1>8, <1>9, <1>10, <1>11, <1>12, <1>13
  DEF CallsNext, Host, Child

(* Faults are counted up to their bound.                                   *)
LEMMA TroublesBounded ==
  ASSUME troubles \in 0..MaxTroubles, [CallsNext]_callVars
  PROVE  troubles' \in 0..MaxTroubles
<1>1. troubles' = troubles \/ (troubles < MaxTroubles /\ troubles' = troubles + 1)
  BY DEF CallsNext, Host, Child, Start, WriteScript, WriteFails, Close, Poll, Join, Drain, ReadCommand, PrintOut,
         Exit, Trouble, Tick, Ok, Fault, pipes, callVars
<1> QED
  BY <1>1, BridgeAssumption

-----------------------------------------------------------------------------
(* The state stays well typed, for any calls, sizes and times.             *)
THEOREM CallsTypeCorrect == CallsSpec => []CallsTypeOK
<1> DEFINE T == CallsInv /\ troubles \in 0..MaxTroubles
<1>1. CallsInit => T
  BY InitCalls, BridgeAssumption DEF CallsInit
<1>2. T /\ [CallsNext]_callVars => T'
  BY NextKeepsCalls, TroublesBounded
<1>3. T => CallsTypeOK
  BY DEF CallsInv, CallsTyped, CallsTypeOK
<1> QED
  BY <1>1, <1>2, <1>3, PTL DEF CallsSpec

(* What a child has read of its script, and said, while it is written: all *)
(* that the commands it read print is in the pipe or still to be printed,  *)
(* since nobody reads it yet.                                              *)
HasRead == CurrentCall.script - call.unsent - stdin
Said == stdout + pending

PipesInv ==
  /\ At("off") => stdin = 0 /\ stdout = 0 /\ pending = 0
  /\ child = "alive" => At("writing") \/ At("waiting")
  /\ At("writing") => HasRead \in Nat /\ Said <= CurrentCall.prints * HasRead

(* The products an output is bounded by.                                   *)
LEMMA OneMore ==
  ASSUME NEW p \in Nat, NEW n \in Nat
  PROVE  p * (n + 1) = p * n + p /\ p * n \in Nat /\ p * 0 = 0
OBVIOUS

LEMMA NoLess ==
  ASSUME NEW p \in Nat, NEW n \in Nat, NEW m \in Nat, n <= m
  PROVE  p * n <= p * m
<1>1. PICK d \in Nat : m = n + d
  <2>1. m - n \in Nat /\ m = n + (m - n)
    OBVIOUS
  <2> QED
    BY <2>1
<1>2. p * m = p * n + p * d /\ p * n \in Nat /\ p * d \in Nat
  BY <1>1
<1> QED
  BY <1>2

LEMMA NextKeepsPipes == CallsInv /\ PipesInv /\ [CallsNext]_callVars => PipesInv'
<1> SUFFICES ASSUME CallsInv, PipesInv, [CallsNext]_callVars PROVE PipesInv'
  OBVIOUS
<1>1. /\ stdin \in Nat /\ stdout \in Nat /\ pending \in Nat /\ call.unsent \in Nat
      /\ DOMAIN call = {"step", "limit", "unsent", "wait", "polled", "spent"}
  BY BridgeAssumption DEF CallsInv, CallsTyped, Times, Pipes
<1>2. CASE Answer
  BY <1>2 DEF Answer, PipesInv, Off, At
<1>3. CASE At("off")
  <2>1. CASE /\ child' = "alive" /\ UNCHANGED <<done, pipes>>
             /\ call' = [Off EXCEPT !.step = "writing", !.limit = Limit, !.unsent = CurrentCall.script]
             /\ done < Len(Calls)
    <3>1. CurrentCall.script \in Nat /\ CurrentCall.prints \in Nat /\ CurrentCall' = CurrentCall
      BY <2>1, CallIsTyped DEF CallsInv, CallsTyped, CurrentCall
    <3>2. call'.step = "writing" /\ call'.unsent = CurrentCall.script
      BY <2>1 DEF Off
    <3>3. stdin' = 0 /\ stdout' = 0 /\ pending' = 0
      BY <1>3, <2>1 DEF PipesInv, pipes
    <3>4. HasRead' = 0 /\ Said' = 0
      BY <3>1, <3>2, <3>3 DEF HasRead, Said
    <3> QED
      BY <3>1, <3>2, <3>4, OneMore DEF PipesInv, At
  <2>2. CASE Tick \/ UNCHANGED callVars
    <3>1. call'.step = "off" /\ UNCHANGED <<child, stdin, stdout, pending>> /\ child = "none"
      BY <1>1, <1>3, <2>2 DEF Tick, callVars, pipes, At, CallsInv, NoChildLeft
    <3> QED
      BY <1>3, <3>1 DEF PipesInv, At
  <2> QED
    BY <1>2, <1>3, <2>1, <2>2
    DEF CallsNext, Host, Child, Start, WriteScript, WriteFails, Close, Poll, Join, Drain, ReadCommand,
        PrintOut, Exit, Trouble, At, Draining, CallsInv, NoChildLeft
<1>4. CASE At("writing")
  <2>1. CurrentCall.script \in Nat /\ CurrentCall.prints \in Nat
    BY <1>4, CallIsTyped DEF CallsInv, CallsTyped, CallIsBusy, At
  <2>2. HasRead \in Nat /\ Said <= CurrentCall.prints * HasRead
    BY <1>4 DEF PipesInv
  <2>3. CASE WriteScript
    <3>1. /\ call'.step = "writing" /\ call'.unsent = call.unsent - 1 /\ stdin' = stdin + 1
          /\ stdout' = stdout /\ pending' = pending /\ CurrentCall' = CurrentCall
      BY <1>1, <1>4, <2>3 DEF WriteScript, At, CurrentCall
    <3>2. HasRead' = HasRead /\ Said' = Said
      BY <1>1, <2>1, <3>1 DEF HasRead, Said
    <3> QED
      BY <2>2, <3>1, <3>2 DEF PipesInv, At
  <2>4. CASE ReadCommand
    <3>1. /\ call' = call /\ stdin' = stdin - 1 /\ stdout' = stdout /\ pending = 0
          /\ pending' = CurrentCall.prints /\ CurrentCall' = CurrentCall
      BY <2>4 DEF ReadCommand, CanRead, CurrentCall
    <3>2. HasRead' = HasRead + 1
      BY <1>1, <2>1, <3>1 DEF HasRead
    <3>3. Said' = Said + CurrentCall.prints /\ Said \in Nat
      BY <1>1, <2>1, <3>1 DEF Said
    <3>4. CurrentCall.prints * (HasRead + 1) = CurrentCall.prints * HasRead + CurrentCall.prints
          /\ CurrentCall.prints * HasRead \in Nat
      BY <2>1, <2>2, OneMore
    <3>5. Said' <= CurrentCall.prints * (HasRead + 1)
      BY <2>1, <2>2, <3>3, <3>4
    <3>6. (At("writing"))' /\ HasRead' \in Nat
      BY <1>4, <2>2, <3>1, <3>2 DEF At
    <3> QED
      BY <3>1, <3>2, <3>5, <3>6 DEF PipesInv, At
  <2>5. CASE PrintOut
    <3>1. /\ call' = call /\ stdin' = stdin /\ stdout' = stdout + 1 /\ pending' = pending - 1
          /\ CurrentCall' = CurrentCall
      BY <2>5 DEF PrintOut, CurrentCall
    <3>2. HasRead' = HasRead /\ Said' = Said
      BY <1>1, <3>1 DEF HasRead, Said
    <3> QED
      BY <1>4, <2>2, <3>1, <3>2 DEF PipesInv, At
  <2>6. CASE Close
    BY <1>1, <2>6 DEF Close, PipesInv, At
  <2>7. CASE Trouble \/ Tick \/ UNCHANGED callVars
    <3>1. /\ call'.step = call.step /\ call'.unsent = call.unsent
          /\ UNCHANGED <<done, stdin, stdout, pending>>
      BY <1>1, <2>7 DEF Trouble, Tick, callVars, pipes
    <3>2. HasRead' = HasRead /\ Said' = Said /\ CurrentCall' = CurrentCall
      BY <3>1 DEF HasRead, Said, CurrentCall
    <3> QED
      BY <1>4, <2>2, <3>1, <3>2 DEF PipesInv, At
  <2> QED
    BY <1>2, <1>4, <2>3, <2>4, <2>5, <2>6, <2>7
    DEF CallsNext, Host, Child, Start, WriteFails, Poll, Join, Drain, Draining, Exit, CanExit, InputClosed, At
<1>5. CASE At("waiting") \/ At("joining")
  <2>1. CASE call'.step \in {"waiting", "joining"} /\ (child' = "alive" => call'.step = "waiting")
    BY <2>1 DEF PipesInv, At
  <2> QED
    BY <1>1, <1>2, <1>5, <2>1
    DEF PipesInv, CallsNext, Host, Child, Start, WriteScript, WriteFails, Close, Poll, Join, Drain, ReadCommand,
        PrintOut, Exit, Trouble, Tick, At, callVars, pipes
<1>6. At("off") \/ At("writing") \/ At("waiting") \/ At("joining")
  BY DEF CallsInv, CallsTyped, Times, At
<1> QED
  BY <1>3, <1>4, <1>5, <1>6

(* run_wsl and wait_with_deadline, for pipes of any size, any scripts and  *)
(* outputs: while the host waits, a child that is well can go on; while it *)
(* writes, both can hang only on a script that does not fit into one pipe  *)
(* and whose first commands say more than fits into the other.             *)
THEOREM OnlyOverlongScriptsHang == CallsSpec => []NoSelfMadeDeadlock
<1>1. CallsInit => PipesInv
  BY DEF CallsInit, PipesInv, Off, At
<1>2. CallsInv /\ PipesInv => NoSelfMadeDeadlock
  <2> SUFFICES ASSUME CallsInv, PipesInv, child = "alive", ~(CanRead \/ CanPrint \/ CanExit),
                      ~(Draining /\ stdout > 0)
               PROVE  At("writing") /\ (call.unsent = 0 \/ stdin < Pipe \/ Overlong(CurrentCall))
    BY DEF NoSelfMadeDeadlock
  <2>1. /\ stdin \in 0..Pipe /\ stdout \in 0..Pipe /\ pending \in Nat /\ call.unsent \in Nat
        /\ Pipe \in Nat \ {0}
    BY BridgeAssumption DEF CallsInv, CallsTyped, Times, Pipes
  <2>2. At("writing")
    BY <2>1 DEF PipesInv, CanRead, CanPrint, CanExit, InputClosed, Draining
  <2>3. CASE call.unsent # 0 /\ ~(stdin < Pipe)
    <3>1. stdin = Pipe /\ pending > 0 /\ stdout = Pipe
      BY <2>1, <2>3 DEF CanRead, CanPrint
    <3>2. PICK size \in Nat, prints \in Nat : size = CurrentCall.script /\ prints = CurrentCall.prints
      BY <2>2, CallIsTyped DEF CallsInv, CallsTyped, CallIsBusy, At
    <3>3. PICK n \in Nat : n = HasRead /\ Said <= prints * n
      BY <2>2, <3>2 DEF PipesInv
    <3>4. n <= size - Pipe - 1 /\ Said > Pipe
      BY <2>1, <2>3, <3>1, <3>2, <3>3 DEF HasRead, Said
    <3>5. n # 0
      BY <2>1, <3>3, <3>4, OneMore DEF Said
    <3>6. size - Pipe - 1 \in Nat /\ size > Pipe + 1
      BY <2>1, <3>4, <3>5
    <3>7. prints * n <= prints * (size - Pipe - 1)
      BY <3>4, <3>6, NoLess
    <3>8. prints * n \in Nat /\ prints * (size - Pipe - 1) \in Nat /\ Said \in Nat
      BY <2>1, <3>6 DEF Said
    <3> QED
      BY <2>1, <2>2, <3>2, <3>3, <3>4, <3>6, <3>7, <3>8 DEF Overlong
  <2> QED
    BY <2>2, <2>3
<1> QED
  BY <1>1, <1>2, InitCalls, NextKeepsCalls, NextKeepsPipes, PTL DEF CallsSpec

(* Deadline::budget_for, for any times: a call that waits has no more time *)
(* than the round, but for what the writing of its script took.            *)
THEOREM CallsKeepToTheRound == CallsSpec => []OutlivesByItsWriting
<1>1. CallsInv => OutlivesByItsWriting
  BY DEF CallsInv, CallsTyped, CallInTime, OutlivesByItsWriting
<1> QED
  BY <1>1, InitCalls, NextKeepsCalls, PTL DEF CallsSpec
=============================================================================
