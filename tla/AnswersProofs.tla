---------------------------- MODULE AnswersProofs ----------------------------
(***************************************************************************)
(* What the answers are for questions of any size, and what is kept of the *)
(* files that they are about: what holds of Snapshots for any files,       *)
(* projects, erasures and edits, any number of overlapping rounds, and     *)
(* whatever probes fail.                                                   *)
(***************************************************************************)
EXTENDS Answers, Snapshots, WellFoundedInduction, TLAPS

-----------------------------------------------------------------------------
(* A question is one of those that may be asked.                           *)
AskedInv ==
  /\ About("probe") => question.w \in Situations
  /\ About("climb") => question.c \in Climbs
  /\ About("decode") => question.d \in Decodes
  /\ About("frames") => question.stream \in Streams
  /\ About("paths") => question.asked \in Registries

LEMMA InitAsks == AnswersInit => AskedInv
BY DEF AnswersInit, AskedInv, About

LEMMA NextAsks ==
  ASSUME AskedInv, [AnswersNext]_question
  PROVE  AskedInv'
<1>1. CASE UNCHANGED question
  BY <1>1 DEF AskedInv, About
<1>2. CASE TakeBack
  BY <1>2 DEF TakeBack, AskedInv, About
<1>3. CASE AskProbe
  BY <1>3 DEF AskProbe, AskedInv, About
<1>4. CASE AskClimb
  BY <1>4 DEF AskClimb, AskedInv, About
<1>5. CASE AskDecode
  BY <1>5 DEF AskDecode, AskedInv, About
<1>6. CASE AskFrames
  BY <1>6 DEF AskFrames, AskedInv, About
<1>7. CASE AskPaths
  BY <1>7 DEF AskPaths, AskedInv, About
<1>8. CASE AskMachine \/ AskSession
  BY <1>8 DEF AskMachine, AskSession, AskedInv, About
<1> QED
  BY <1>1, <1>2, <1>3, <1>4, <1>5, <1>6, <1>7, <1>8 DEF AnswersNext

-----------------------------------------------------------------------------
LEMMA LeastNatural ==
  ASSUME NEW S \in SUBSET Nat, S # {}
  PROVE  \E m \in S : \A k \in S : m <= k
<1>1. PICK m \in S : \A k \in S : ~(<<k, m>> \in OpToRel(<, Nat))
  BY NatLessThanWellFounded, WFMin
<1>2. \A k \in S : ~(k < m)
  BY <1>1 DEF OpToRel
<1> QED
  BY <1>2

LEMMA GreatestNatural ==
  ASSUME NEW S \in SUBSET Nat, S # {}, NEW b \in Nat, \A k \in S : k <= b
  PROVE  \E m \in S : \A k \in S : k <= m
<1>1. PICK U : U = {u \in Nat : \A k \in S : k <= u}
  OBVIOUS
<1>2. PICK m \in U : \A u \in U : m <= u
  <2>1. b \in U /\ U \in SUBSET Nat
    BY <1>1
  <2> QED
    BY <2>1, LeastNatural
<1>3. m \in Nat /\ \A k \in S : k <= m
  BY <1>1, <1>2
<1>4. m \in S
  <2> SUFFICES ASSUME m \notin S PROVE FALSE
    OBVIOUS
  <2>1. \A k \in S : k \in Nat /\ k <= m - 1
    BY <1>3
  <2>2. PICK k \in S : TRUE
    OBVIOUS
  <2>3. m - 1 \in Nat
    BY <1>3, <2>1, <2>2
  <2>4. PICK u \in Nat : u = m - 1
    BY <2>3
  <2>5. u \in U
    <3>1. \A l \in S : l <= u
      BY <2>1, <2>4
    <3> QED
      BY <1>1, <3>1
  <2> QED
    BY <1>2, <1>3, <2>4, <2>5
<1> QED
  BY <1>3, <1>4

LEMMA MinIs ==
  ASSUME NEW S \in SUBSET Nat, S # {}
  PROVE  Min(S) \in S /\ \A k \in S : Min(S) <= k
BY LeastNatural DEF Min

-----------------------------------------------------------------------------
(* Probes.                                                                 *)
LEMMA ProbesAnswer ==
  ASSUME NEW w \in Situation
  PROVE  /\ LocalProbe(w) \in Kind \union {"absent", "unknown"}
         /\ BridgeProbe(w) \in Kind \union {"absent", "unknown"}
         /\ UncProbe(w) \in Kind \union {"absent", "unknown"}
<1> USE DEF Situation, Kind
<1>1. \A u \in Situation : LocalProbe(u) \in Kind \union {"absent", "unknown"}
  BY DEF LocalProbe, HostSays, Classified, Confirmed
<1>2. BridgeProbe(w) \in Kind \union {"absent", "unknown"}
  BY DEF BridgeProbe, StatKind, Asked, Tests
<1>3. Unanchored(w) \in Situation
  BY DEF Unanchored
<1>4. LocalProbe(Unanchored(w)) \in Kind \union {"absent", "unknown"}
  BY <1>1, <1>3
<1> QED
  BY <1>1, <1>2, <1>4 DEF UncProbe

LEMMA HostIsTruthful ==
  ASSUME NEW w \in Situation, HostIsBelieved(w)
  PROVE  /\ Truthful(LocalProbe(w), w) /\ Truthful(LocalRead(w), w)
         /\ LocalStat(w) = "found" => w.node # "nothing"
         /\ LocalStat(w) = "absent" => w.node = "nothing"
         /\ Truthful(ReadBytes(w), w) /\ Truthful(ReadDirEntries(w), w)
         /\ w.reach # "offline" => Truthful(ReadRange(w), w)
         /\ w.reach # "link" => \A prefix \in {"none", "share"} :
              HostFile(w, prefix) = "absent" => w.node # "file"
<1> USE DEF Situation, HostIsBelieved, Truthful, Kind
<1>1. Truthful(LocalProbe(w), w)
  BY DEF LocalProbe, HostSays, Classified, Confirmed
<1>2. Truthful(LocalRead(w), w)
  BY DEF LocalRead, HostReads, HostSays, Classified, Confirmed
<1>3. LocalStat(w) = "found" => w.node # "nothing"
  BY <1>1, ProbesAnswer DEF LocalStat
<1>4. LocalStat(w) = "absent" => w.node = "nothing"
  BY <1>1, ProbesAnswer DEF LocalStat
<1>5. Truthful(ReadBytes(w), w) /\ Truthful(ReadDirEntries(w), w)
  BY DEF ReadBytes, ReadDirEntries, HostReads, HostSays, Classified, Confirmed
<1>6. w.reach # "offline" => Truthful(ReadRange(w), w)
  BY DEF ReadRange, WithReader, HostReads, HostSays
<1>7. w.reach # "link" => \A prefix \in {"none", "share"} :
              HostFile(w, prefix) = "absent" => w.node # "file"
  BY DEF HostFile, ForRoot, LocalProbe, HostSays, Classified, Confirmed
<1> QED
  BY <1>1, <1>2, <1>3, <1>4, <1>5, <1>6, <1>7

LEMMA BridgeIsTruthful ==
  ASSUME NEW w \in Situation, w.distro # "layer"
  PROVE  /\ Truthful(BridgeProbe(w), w) /\ NoFileThere(BridgeRead(w), w)
         /\ NoFileThere(ExistingFiles(w), w)
         /\ HostIsBelieved(w) => /\ Truthful(UncProbe(w), w) /\ NoFileThere(UncRead(w), w)
                                 /\ HostFile(w, "distribution") = "absent" => w.node # "file"
<1> USE DEF Situation, Truthful, NoFileThere, Kind
<1>1. Truthful(BridgeProbe(w), w) /\ NoFileThere(BridgeRead(w), w)
  BY DEF BridgeProbe, BridgeRead, StatKind, ReadFileAt, Stat, Asked, Tests
<1>2. NoFileThere(ExistingFiles(w), w)
  BY DEF ExistingFiles, Stat, Asked, Tests
<1>3. ASSUME HostIsBelieved(w)
      PROVE  Truthful(LocalProbe(Unanchored(w)), w) /\ Truthful(LocalRead(Unanchored(w)), w)
  <2>1. PICK u : u = Unanchored(w)
    OBVIOUS
  <2>2. u \in Situation /\ u.node = w.node /\ HostIsBelieved(u)
    BY <1>3, <2>1 DEF Unanchored, HostIsBelieved
  <2>3. Truthful(LocalProbe(u), u) /\ Truthful(LocalRead(u), u)
    BY <2>2, HostIsTruthful
  <2> QED
    BY <2>1, <2>2, <2>3
<1>4. HostIsBelieved(w) => Truthful(UncProbe(w), w) /\ NoFileThere(UncRead(w), w)
  BY <1>1, <1>3 DEF UncProbe, UncRead
<1>5. HostIsBelieved(w) => (HostFile(w, "distribution") = "absent" => w.node # "file")
  <2>1. PICK says : says = UncProbe(w)
    OBVIOUS
  <2>2. HostFile(w, "distribution") =
          CASE says = "file" -> "present" [] says = "unknown" -> "failed" [] OTHER -> "absent"
    BY <2>1 DEF HostFile, ForRoot
  <2>3. HostFile(w, "distribution") = "absent" => says \notin {"file", "unknown"}
    BY <2>2
  <2>4. says \in Kind \union {"absent", "unknown"}
    BY <2>1, ProbesAnswer
  <2>5. says = "other" => w.node = "other"
    BY <2>1, <2>4 DEF UncProbe, BridgeProbe, StatKind, Asked, Tests
  <2> QED
    BY <1>4, <2>1, <2>3, <2>4, <2>5
<1> QED
  BY <1>1, <1>2, <1>4, <1>5

(* Whatever part of the output arrives, and whatever else was asked.       *)
LEMMA ManyAreTruthful ==
  ASSUME NEW paths, NEW how \in {"stat", "identify", "read"}, NEW kept, NEW i \in DOMAIN paths,
         paths[i].w \in Situation, paths[i].w.distro # "layer", paths[i].gone = FALSE
  PROVE  NoFileThere(ManyAnswers(paths, how, kept)[i], paths[i].w)
<1>1. PICK said : said = {OutputOf(paths, how)[k] : k \in (1..kept) \intersect DOMAIN OutputOf(paths, how)}
  OBVIOUS
<1>2. ManyAnswers(paths, how, kept)[i] =
        IF i \notin said \/ Record(paths[i], how) \in {"large", "broken"} THEN "unknown"
        ELSE IF Record(paths[i], how) = "missing" THEN "absent" ELSE "file"
  BY <1>1 DEF ManyAnswers
<1>3. Record(paths[i], how) = "missing" <=> paths[i].w.node # "file"
  <2>1. PICK p : p = paths[i]
    OBVIOUS
  <2>2. Tests(p.w) = p.w.node /\ p.gone = FALSE
    BY <2>1 DEF Tests
  <2>3. Record(p, how) = "missing" <=> p.w.node # "file"
    BY <2>2 DEF Record
  <2> QED
    BY <2>1, <2>3
<1> QED
  BY <1>2, <1>3 DEF NoFileThere

LEMMA WholeIsTruthful ==
  ASSUME NEW w \in Situation, w.distro # "layer", Asked(w), NEW large \in BOOLEAN, NEW kept
  PROVE  NoFileThere(ReadWhole([w |-> w, large |-> large, gone |-> FALSE], kept), w)
<1>1. PICK p : p = [w |-> w, large |-> large, gone |-> FALSE]
  OBVIOUS
<1>2. PICK first : first = ManyAnswers(<<p>>, "read", kept)[1]
  OBVIOUS
<1>3. NoFileThere(first, w)
  <2>1. PICK one : one = <<p>>
    OBVIOUS
  <2>2. 1 \in DOMAIN one /\ one[1] = p /\ p.w = w /\ p.gone = FALSE
    BY <1>1, <2>1
  <2>3. NoFileThere(ManyAnswers(one, "read", kept)[1], one[1].w)
    BY <2>2, ManyAreTruthful
  <2> QED
    BY <1>2, <2>1, <2>2, <2>3
<1>4. ReadWhole(p, kept) = IF first # "unknown" THEN first
                           ELSE IF Stat(w) = "file" THEN BridgeRange(w) ELSE Stat(w)
  BY <1>1, <1>2 DEF ReadWhole
<1> QED
  BY <1>1, <1>3, <1>4 DEF NoFileThere, Stat, BridgeRange, Asked, Tests, Situation

LEMMA PackedIsMissed ==
  ASSUME NEW w \in Situation, NEW n \in {"file", "nothing"}, NEW decodes \in BOOLEAN,
         NEW packed, packed = [w EXCEPT !.node = n]
  PROVE  /\ HostIsBelieved(w) /\ ReadLocal(w, packed, decodes) = "absent" =>
              w.node # "file" /\ packed.node = "nothing"
         /\ w.distro # "layer" /\ ReadWsl(w, packed, decodes) = "absent" =>
              w.node # "file" /\ packed.node = "nothing"
<1>0. /\ packed \in Situation /\ packed.node = n /\ packed.reach = w.reach /\ packed.form = w.form
      /\ packed.distro = w.distro /\ packed.time = w.time
  BY DEF Situation, Kind
<1>1. ASSUME HostIsBelieved(w), ReadLocal(w, packed, decodes) = "absent"
      PROVE  w.node # "file" /\ packed.node = "nothing"
  <2>1. ReadBytes(w) = "absent" /\ WithReader(packed, decodes) = "absent"
    BY <1>1 DEF ReadLocal
  <2>2. w.node = "nothing"
    BY <1>1, <2>1, HostIsTruthful DEF Truthful
  <2>3. HostReads(packed) = "notfound"
    BY <2>1 DEF WithReader
  <2>4. w.reach \notin {"offline", "detached"}
    BY <1>1, <2>1 DEF Situation, HostIsBelieved, ReadBytes, Classified, Confirmed, HostReads, HostSays
  <2> QED
    BY <1>0, <2>2, <2>3, <2>4 DEF HostReads, HostSays, Situation
<1>2. ASSUME w.distro # "layer", ReadWsl(w, packed, decodes) = "absent"
      PROVE  w.node # "file" /\ packed.node = "nothing"
  <2>1. PICK whole : whole = ReadWhole([w |-> packed, large |-> FALSE, gone |-> FALSE], 1)
    OBVIOUS
  <2>2. ReadFileAt(w) = "absent" /\ whole = "absent"
    BY <1>2, <2>1 DEF ReadWsl
  <2>3. Asked(w) /\ w.node # "file"
    BY <1>2, <2>2 DEF ReadFileAt, Stat, Asked, Tests, Situation
  <2>4. Asked(packed)
    BY <1>0, <2>3 DEF Asked
  <2>5. NoFileThere(whole, packed)
    BY <1>0, <1>2, <2>1, <2>4, WholeIsTruthful
  <2> QED
    BY <1>0, <2>2, <2>3, <2>5 DEF NoFileThere
<1> QED
  BY <1>1, <1>2

(* The line of a session is the first that has its number.                 *)
IsLine(line) == line = [id |-> line.id, remote |-> line.remote]

LEMMA FirstWithTheNumber ==
  ASSUME NEW S, NEW lines \in Seq(S), NEW I, I = {i \in 1..Len(lines) : lines[i].id = 1},
         NEW at, at = IF I # {} THEN Min(I) ELSE 0, at # 0
  PROVE  at \in DOMAIN lines /\ lines[at] \in S /\ lines[at].id = 1
<1>1. \A i \in I : i \in 1..Len(lines) /\ lines[i].id = 1
  OBVIOUS
<1>2. I \in SUBSET Nat
  BY <1>1
<1>3. at \in I
  BY <1>2, MinIs
<1> QED
  BY <1>1, <1>3

LEMMA LineOfASession ==
  ASSUME NEW S, NEW lines \in Seq(S), \A line \in S : IsLine(line),
         CodexOrigin(lines, 1) # "not recorded"
  PROVE  \E i \in DOMAIN lines : lines[i] = [id |-> 1, remote |-> CodexOrigin(lines, 1)]
<1>1. PICK at : at = SelectInSeq(lines, LAMBDA line : line.id = 1)
  OBVIOUS
<1>2. PICK I : I = {i \in 1..Len(lines) : lines[i].id = 1}
  OBVIOUS
<1>3. at = IF I # {} THEN Min(I) ELSE 0
  BY <1>1, <1>2 DEF SelectInSeq
<1>4. at # 0 /\ CodexOrigin(lines, 1) = lines[at].remote
  BY <1>1 DEF CodexOrigin
<1>5. at \in DOMAIN lines /\ lines[at] \in S /\ lines[at].id = 1
  BY <1>2, <1>3, <1>4, FirstWithTheNumber, Zenon
<1>6. lines[at] = [id |-> 1, remote |-> lines[at].remote]
  BY <1>5, Zenon DEF IsLine
<1> QED
  BY <1>4, <1>5, <1>6, Zenon

LEMMA OriginsAreTheirOwn ==
  ASSUME NEW w \in Situation
  PROVE  OriginIsItsOwn(w)
<1> SUFFICES
      ASSUME NEW packed \in {[w EXCEPT !.node = n] : n \in {"file", "nothing"}},
             NEW decodes \in BOOLEAN,
             NEW lines \in {<<>>, <<[id |-> 2, remote |-> "two"], [id |-> 1, remote |-> "one"]>>,
                            <<[id |-> 2, remote |-> "two"], [id |-> 1, remote |-> "bad"]>>},
             NEW read \in (IF HostIsBelieved(w) THEN {ReadLocal(w, packed, decodes)} ELSE {})
                          \union (IF w.distro # "layer" THEN {ReadWsl(w, packed, decodes)} ELSE {}),
             NEW source \in {"codex", "claude"}
      PROVE  LET origin == RunSessionOrigin(source, read, w.text, lines, 1) IN
             /\ origin = "missing" => w.node # "file" /\ packed.node = "nothing"
             /\ origin \notin {"missing", "unreadable", "not recorded"} =>
                  \E i \in DOMAIN lines : source = "codex" /\ lines[i] = [id |-> 1, remote |-> origin]
  BY Zenon DEF OriginIsItsOwn
<1>a. PICK n \in {"file", "nothing"} : packed = [w EXCEPT !.node = n]
  OBVIOUS
<1>b. \/ HostIsBelieved(w) /\ read = ReadLocal(w, packed, decodes)
      \/ w.distro # "layer" /\ read = ReadWsl(w, packed, decodes)
  OBVIOUS
<1>c. PICK S : lines \in Seq(S) /\ \A line \in S : IsLine(line)
  <2>1. PICK two, one, bad : /\ two = [id |-> 2, remote |-> "two"] /\ one = [id |-> 1, remote |-> "one"]
                             /\ bad = [id |-> 1, remote |-> "bad"]
    OBVIOUS
  <2>2. PICK S : S = {two, one, bad}
    OBVIOUS
  <2>3. lines \in {<<>>, <<two, one>>, <<two, bad>>}
    BY <2>1
  <2>4. lines \in Seq(S)
    <3>1. two \in S /\ one \in S /\ bad \in S
      BY <2>2
    <3>2. <<>> \in Seq(S) /\ <<two, one>> \in Seq(S) /\ <<two, bad>> \in Seq(S)
      BY <3>1
    <3> QED
      BY <2>3, <3>2
  <2>5. \A line \in S : IsLine(line)
    BY <2>1, <2>2 DEF IsLine
  <2> QED
    BY <2>4, <2>5
<1>1. PICK origin : origin = RunSessionOrigin(source, read, w.text, lines, 1)
  OBVIOUS
<1>2. PICK own : own = CodexOrigin(lines, 1)
  OBVIOUS
<1>3. own # "missing"
  <2>1. own # "not recorded" => own \in {"one", "two"}
    BY <1>2, Zenon DEF CodexOrigin
  <2> QED
    BY <2>1
<1>4. origin = "missing" => read = "absent"
  BY <1>1, <1>2, <1>3 DEF RunSessionOrigin, ReadCodexOrigin
<1>5. origin \notin {"missing", "unreadable", "not recorded"} => source = "codex" /\ origin = own
  BY <1>1, <1>2 DEF RunSessionOrigin, ReadCodexOrigin
<1>6. origin = "missing" => w.node # "file" /\ packed.node = "nothing"
  BY <1>4, <1>a, <1>b, PackedIsMissed
<1>7. origin \notin {"missing", "unreadable", "not recorded"} =>
        \E i \in DOMAIN lines : source = "codex" /\ lines[i] = [id |-> 1, remote |-> origin]
  <2>1. own # "not recorded" => \E i \in DOMAIN lines : lines[i] = [id |-> 1, remote |-> own]
    BY <1>2, <1>c, LineOfASession
  <2> QED
    BY <1>5, <2>1
<1> QED
  BY <1>1, <1>6, <1>7

LEMMA AnswersAre ==
  ASSUME NEW w \in Situation
  PROVE  AnswersAreTrue(w)
<1>1. w.distro # "layer" /\ Asked(w) => \A large, gone \in BOOLEAN, kept \in 0..2 :
        /\ \A how \in {"stat", "identify", "read"} :
             NoFileThere(ManyAnswers(<<[w |-> w, large |-> FALSE, gone |-> gone],
                                       [w |-> w, large |-> large, gone |-> FALSE]>>, how, kept)[2], w)
        /\ NoFileThere(ReadWhole([w |-> w, large |-> large, gone |-> FALSE], kept), w)
  <2> SUFFICES ASSUME w.distro # "layer", Asked(w), NEW large \in BOOLEAN, NEW gone \in BOOLEAN,
                      NEW kept \in 0..2
               PROVE  /\ \A how \in {"stat", "identify", "read"} :
                           NoFileThere(ManyAnswers(<<[w |-> w, large |-> FALSE, gone |-> gone],
                              [w |-> w, large |-> large, gone |-> FALSE]>>, how, kept)[2], w)
                      /\ NoFileThere(ReadWhole([w |-> w, large |-> large, gone |-> FALSE], kept), w)
    OBVIOUS
  <2>1. PICK paths : paths = <<[w |-> w, large |-> FALSE, gone |-> gone],
                              [w |-> w, large |-> large, gone |-> FALSE]>>
    OBVIOUS
  <2>2. 2 \in DOMAIN paths /\ paths[2].w = w /\ paths[2].gone = FALSE
    BY <2>1
  <2>3. ASSUME NEW how \in {"stat", "identify", "read"}
        PROVE  NoFileThere(ManyAnswers(paths, how, kept)[2], w)
    <3>1. NoFileThere(ManyAnswers(paths, how, kept)[2], paths[2].w)
      BY <2>2, ManyAreTruthful
    <3> QED
      BY <2>2, <3>1
  <2>4. NoFileThere(ReadWhole([w |-> w, large |-> large, gone |-> FALSE], kept), w)
    BY WholeIsTruthful
  <2> QED
    BY <2>1, <2>3, <2>4
<1>2. w.reach = "open" /\ w.anchor # "failing" /\ w.form = "below" /\ w.time /\ w.text =>
        /\ LocalProbe(w) = (IF w.node = "nothing" THEN "absent" ELSE w.node)
        /\ w.node = "file" => LocalRead(w) = "file" /\ HostFile(w, "none") = "present"
  BY DEF Situation, Kind, LocalProbe, LocalRead, HostFile, ForRoot, HostReads, HostSays, Classified,
         Confirmed
<1>3. w.distro = "up" /\ w.inside /\ w.time => BridgeProbe(w) # "unknown"
  BY DEF Situation, Kind, BridgeProbe, StatKind, Asked, Tests
<1>4. w.reach = "link" /\ w.distro = "up" /\ w.inside /\ w.time /\ w.anchor # "failing"
        /\ w.form = "below" => UncProbe(w) = (IF w.node = "nothing" THEN "absent" ELSE w.node)
  <2> SUFFICES ASSUME w.reach = "link", w.distro = "up", w.inside, w.time, w.form = "below"
               PROVE  UncProbe(w) = IF w.node = "nothing" THEN "absent" ELSE w.node
    OBVIOUS
  <2>1. LocalProbe(Unanchored(w)) = IF w.node = "nothing" THEN "absent" ELSE "other"
    BY DEF Situation, Kind, Unanchored, LocalProbe, HostSays, Classified, Confirmed
  <2>2. BridgeProbe(w) = IF w.node = "nothing" THEN "absent" ELSE w.node
    BY DEF Situation, Kind, BridgeProbe, StatKind, Asked, Tests
  <2> QED
    BY <2>1, <2>2 DEF UncProbe
<1> HIDE DEF Truthful
<1> QED
  BY <1>1, <1>2, <1>3, <1>4, HostIsTruthful, BridgeIsTruthful, OriginsAreTheirOwn
     DEF AnswersAreTrue

(* NoProbeLies, in every situation.                                        *)
THEOREM ProbesDoNotLie == AnswersSpec => []NoProbeLies
<1>1. AskedInv => NoProbeLies
  BY AnswersAssumption, AnswersAre DEF AskedInv, NoProbeLies
<1> QED
  BY <1>1, InitAsks, NextAsks, PTL DEF AnswersSpec

-----------------------------------------------------------------------------
(* Climbs.                                                                 *)
Answered == Present \union {"absent"}
AnAnswer == Answered \union {"unknown"}

LEMMA ClimbIs ==
  ASSUME NEW s \in Seq(AnAnswer)
  PROVE  \E at \in 0..Len(s) :
           /\ Climb(s).layer = at /\ (Climb(s).known <=> at = 0 \/ s[at] # "unknown")
           /\ at = 0 => \A k \in 1..Len(s) : s[k] = "absent"
           /\ at # 0 => s[at] # "absent" /\ \A k \in 1..Len(s) : k < at => s[k] = "absent"
<1>1. PICK I : I = {i \in 1..Len(s) : s[i] # "absent"}
  OBVIOUS
<1>2. PICK at : at = IF I # {} THEN Min(I) ELSE 0
  OBVIOUS
<1>3. Climb(s).layer = at /\ (Climb(s).known <=> at = 0 \/ s[at] # "unknown")
  <2>1. PICK known : known = (at = 0 \/ s[at] # "unknown")
    OBVIOUS
  <2>2. Climb(s) = [layer |-> at, known |-> known]
    BY <1>1, <1>2, <2>1, Zenon DEF Climb, SelectInSeq
  <2>3. Climb(s).layer = at /\ Climb(s).known = known
    BY <2>2
  <2> QED
    BY <2>1, <2>3
<1>4. I \in SUBSET Nat
  BY <1>1
<1>5. I # {} => at \in I /\ \A k \in I : at <= k
  BY <1>2, <1>4, MinIs
<1>6. at \in 0..Len(s)
  BY <1>1, <1>2, <1>5
<1>7. at = 0 => \A k \in 1..Len(s) : s[k] = "absent"
  BY <1>1, <1>5
<1>8. at # 0 => s[at] # "absent" /\ \A k \in 1..Len(s) : k < at => s[k] = "absent"
  <2> SUFFICES ASSUME at # 0 PROVE s[at] # "absent" /\ \A k \in 1..Len(s) : k < at => s[k] = "absent"
    OBVIOUS
  <2>1. at \in I /\ \A k \in I : at <= k
    BY <1>2, <1>5
  <2>2. s[at] # "absent"
    BY <1>1, <2>1
  <2>3. ASSUME NEW k \in 1..Len(s), k < at, s[k] # "absent" PROVE FALSE
    <3>1. k \in I
      BY <1>1, <2>3
    <3> QED
      BY <1>6, <2>1, <2>3, <3>1
  <2> QED
    BY <2>2, <2>3
<1> QED
  BY <1>3, <1>6, <1>7, <1>8

(* Whom a climb asks: some of those that answer are not heard.             *)
Hears(h, t) ==
  /\ h \in Seq(AnAnswer) /\ t \in Seq(Answered) /\ Len(h) = Len(t)
  /\ \A i \in 1..Len(t) : h[i] \in {t[i], "unknown"}

LEMMA ClimbHears ==
  ASSUME NEW h, NEW t, Hears(h, t)
  PROVE  /\ Climb(t).known
         /\ Climb(h).known => Climb(h).layer = Climb(t).layer
         /\ Climb(t).layer \in 0..Len(t)
<1>1. h \in Seq(AnAnswer) /\ t \in Seq(AnAnswer) /\ Len(h) = Len(t)
  BY DEF Hears, AnAnswer
<1>2. \A i \in 1..Len(t) : t[i] # "unknown" /\ h[i] \in {t[i], "unknown"}
  BY DEF Hears, Answered, Present
<1>3. PICK a \in 0..Len(h) :
           /\ Climb(h).layer = a /\ (Climb(h).known <=> a = 0 \/ h[a] # "unknown")
           /\ a = 0 => \A k \in 1..Len(h) : h[k] = "absent"
           /\ a # 0 => h[a] # "absent" /\ \A k \in 1..Len(h) : k < a => h[k] = "absent"
  BY <1>1, ClimbIs
<1>4. PICK b \in 0..Len(t) :
           /\ Climb(t).layer = b /\ (Climb(t).known <=> b = 0 \/ t[b] # "unknown")
           /\ b = 0 => \A k \in 1..Len(t) : t[k] = "absent"
           /\ b # 0 => t[b] # "absent" /\ \A k \in 1..Len(t) : k < b => t[k] = "absent"
  BY <1>1, ClimbIs
<1>5. Len(h) \in Nat /\ a \in Nat /\ b \in Nat
  BY <1>1
<1>6. a = 0 \/ h[a] # "unknown" => a = b
  BY <1>1, <1>2, <1>3, <1>4, <1>5
<1>7. b = 0 \/ t[b] # "unknown"
  BY <1>2, <1>4, <1>5
<1> QED
  BY <1>3, <1>4, <1>6, <1>7

(* The fields of a layer of which some are deaf.                           *)
LEMMA HeardFields ==
  ASSUME NEW l \in Layer, NEW deaf, NEW g, g = HeardLayer(l, deaf)
  PROVE  /\ l.git \in Answered /\ l.marker \in Answered
         /\ g.git \in {l.git, "unknown"} /\ g.marker \in {l.marker, "unknown"}
         /\ g.gitText \in {l.gitText, "unknown"} /\ g.common \in {l.common, "unknown"}
         /\ g.commonText \in {l.commonText, "unknown"}
         /\ \A c \in {"own", "gitdir", "common"} :
              /\ g.config[c].probe \in {l.config[c].probe, "unknown"}
              /\ g.config[c].text \in {l.config[c].text, "unknown"}
<1>1. DOMAIN l = {"git", "gitText", "common", "commonText", "config", "marker"}
  BY DEF Layer
<1>2. DOMAIN l.config = {"own", "gitdir", "common"}
  BY DEF Layer
<1>3. \A p \in DOMAIN l : p # "config" => g[p] = Heard(l[p], p, deaf)
  BY DEF HeardLayer
<1>4. g.config = [c \in DOMAIN l.config |-> [probe |-> Heard(l.config[c].probe, "probe", deaf),
                                             text |-> Heard(l.config[c].text, "text", deaf)]]
  BY <1>1, Zenon DEF HeardLayer
<1>5. \A c \in {"own", "gitdir", "common"} :
        /\ g.config[c].probe = Heard(l.config[c].probe, "probe", deaf)
        /\ g.config[c].text = Heard(l.config[c].text, "text", deaf)
  BY <1>2, <1>4
<1>6. /\ g.git = Heard(l.git, "git", deaf) /\ g.marker = Heard(l.marker, "marker", deaf)
      /\ g.gitText = Heard(l.gitText, "gitText", deaf) /\ g.common = Heard(l.common, "common", deaf)
      /\ g.commonText = Heard(l.commonText, "commonText", deaf)
  BY <1>1, <1>3
<1>7. l.git \in Answered /\ l.marker \in Answered
  BY DEF Layer, Told, Answered
<1> QED
  BY <1>5, <1>6, <1>7 DEF Heard

LEMMA OriginHears ==
  ASSUME NEW l \in Layer, NEW deaf, NEW g, g = HeardLayer(l, deaf)
  PROVE  /\ ConfigPath(g) \in {ConfigPath(l), "unknown"}
         /\ OriginUrl(g) \in {OriginUrl(l), "unknown"}
         /\ ConfigPath(l) \in {"absent", "own", "gitdir", "common"}
         /\ CanonicalId(g) \in {CanonicalId(l), Unknown}
<1>1. ConfigPath(l) \in {"absent", "own", "gitdir", "common"}
  BY DEF Layer, Told, Present, ConfigPath
<1>2. ConfigPath(g) \in {ConfigPath(l), "unknown"}
  <2>1. l.git # "unknown" /\ l.gitText # "unknown" /\ l.common # "unknown" /\ l.commonText # "unknown"
    BY DEF Layer, Told, Present
  <2> QED
    BY <2>1, HeardFields DEF ConfigPath
<1>3. OriginUrl(g) \in {OriginUrl(l), "unknown"}
  <2>1. CASE ConfigPath(g) = "unknown" \/ ConfigPath(l) = "absent"
    BY <1>2, <2>1 DEF OriginUrl
  <2>2. CASE ConfigPath(g) # "unknown" /\ ConfigPath(l) # "absent"
    <3>1. PICK c \in {"own", "gitdir", "common"} : c = ConfigPath(l) /\ c = ConfigPath(g)
      BY <1>1, <1>2, <2>2
    <3>2. OriginUrl(g) = OriginAt(g.config[c]) /\ OriginUrl(l) = OriginAt(l.config[c])
      BY <3>1 DEF OriginUrl
    <3>3. /\ g.config[c].probe \in {l.config[c].probe, "unknown"}
          /\ g.config[c].text \in {l.config[c].text, "unknown"}
      BY HeardFields
    <3> QED
      BY <3>2, <3>3 DEF OriginAt
  <2> QED
    BY <2>1, <2>2
<1> QED
  BY <1>1, <1>2, <1>3 DEF CanonicalId

(* A climb over layers, and over the same of which some are deaf.          *)
Gits(layers) == [i \in DOMAIN layers |-> layers[i].git]

LEMMA RootHears ==
  ASSUME NEW start \in Answered, NEW from \in {start, "unknown"}, NEW here, NEW there,
         Hears(Gits(here), Gits(there)), NEW t, t = Gits(there)
  PROVE  /\ FindGitRoot(from, here) \in {Unknown, FindGitRoot(start, there)}
         /\ FindGitRoot(start, there).says = "found" =>
              /\ FindGitRoot(start, there) = [says |-> "found", layer |-> Climb(t).layer]
              /\ Climb(t).layer \in 1..Len(t)
         /\ FindGitRoot(start, there) # Unknown
<1>0. PICK h : h = Gits(here)
  OBVIOUS
<1>1. /\ Climb(t).known /\ (Climb(h).known => Climb(h).layer = Climb(t).layer)
      /\ Climb(t).layer \in 0..Len(t)
  BY <1>0, ClimbHears
<1>2. Len(t) \in Nat
  BY DEF Hears
<1>3. FindGitRoot(from, here) =
        IF from = "absent" THEN [says |-> "missing"]
        ELSE IF from = "unknown" \/ ~Climb(h).known THEN Unknown
        ELSE IF Climb(h).layer = 0 THEN [says |-> "absent"] ELSE [says |-> "found", layer |-> Climb(h).layer]
  BY <1>0, Zenon DEF FindGitRoot, Gits
<1>4. FindGitRoot(start, there) =
        IF start = "absent" THEN [says |-> "missing"]
        ELSE IF start = "unknown" \/ ~Climb(t).known THEN Unknown
        ELSE IF Climb(t).layer = 0 THEN [says |-> "absent"] ELSE [says |-> "found", layer |-> Climb(t).layer]
  BY <1>0, Zenon DEF FindGitRoot, Gits
<1>5. start # "unknown"
  BY DEF Answered, Present
<1> QED
  <2>1. CASE start = "absent"
    <3>1. FindGitRoot(start, there) = [says |-> "missing"]
      BY <1>4, <2>1
    <3>2. FindGitRoot(from, here) \in {Unknown, [says |-> "missing"]}
      BY <1>3, <2>1
    <3> QED
      BY <3>1, <3>2 DEF Unknown
  <2>2. CASE start # "absent" /\ Climb(t).layer = 0
    <3>1. FindGitRoot(start, there) = [says |-> "absent"]
      BY <1>1, <1>4, <1>5, <2>2
    <3>2. FindGitRoot(from, here) \in {Unknown, [says |-> "absent"]}
      BY <1>1, <1>3, <2>2
    <3> QED
      BY <3>1, <3>2 DEF Unknown
  <2>3. CASE start # "absent" /\ Climb(t).layer # 0
    <3>1. FindGitRoot(start, there) = [says |-> "found", layer |-> Climb(t).layer]
      BY <1>1, <1>4, <1>5, <2>3
    <3>2. FindGitRoot(from, here) \in {Unknown, [says |-> "found", layer |-> Climb(t).layer]}
      BY <1>1, <1>3, <2>3
    <3>3. FindGitRoot(start, there).says = "found" /\ Unknown.says = "unknown"
      BY <3>1 DEF Unknown
    <3>4. Climb(t).layer \in 1..Len(t)
      BY <1>1, <1>2, <2>3
    <3> QED
      BY <3>1, <3>2, <3>3, <3>4
  <2> QED
    BY <2>1, <2>2, <2>3

LEMMA GitsHear ==
  ASSUME NEW layers \in Seq(Layer), NEW deaf, NEW here,
         here = [i \in DOMAIN layers |-> HeardLayer(layers[i], deaf[i])], NEW home
  PROVE  /\ Hears([i \in DOMAIN here |-> here[i].git], [i \in DOMAIN layers |-> layers[i].git])
         /\ Hears([i \in DOMAIN here |-> AwayFromHome(here, home)[i].git],
                  [i \in DOMAIN layers |-> AwayFromHome(layers, home)[i].git])
         /\ Hears([i \in DOMAIN here |-> AwayFromHome(here, home)[i].marker],
                  [i \in DOMAIN layers |-> AwayFromHome(layers, home)[i].marker])
<1>1. PICK n \in Nat : n = Len(layers) /\ DOMAIN layers = 1..n /\ DOMAIN here = 1..n
  OBVIOUS
<1>2. \A i \in 1..n : /\ layers[i].git \in Answered /\ layers[i].marker \in Answered
                      /\ here[i].git \in {layers[i].git, "unknown"}
                      /\ here[i].marker \in {layers[i].marker, "unknown"}
  <2> TAKE i \in 1..n
  <2>1. layers[i] \in Layer
    BY <1>1
  <2>2. here[i] = HeardLayer(layers[i], deaf[i])
    BY <1>1
  <2> QED
    BY <2>1, <2>2, HeardFields
<1>3. \A i \in 1..n :
        /\ AwayFromHome(here, home)[i].git = (IF i = home THEN "absent" ELSE here[i].git)
        /\ AwayFromHome(here, home)[i].marker = (IF i = home THEN "absent" ELSE here[i].marker)
        /\ AwayFromHome(layers, home)[i].git = (IF i = home THEN "absent" ELSE layers[i].git)
        /\ AwayFromHome(layers, home)[i].marker = (IF i = home THEN "absent" ELSE layers[i].marker)
  <2> TAKE i \in 1..n
  <2>1. {"git", "marker"} \subseteq DOMAIN layers[i]
    <3>1. PICK l \in Layer : l = layers[i]
      BY <1>1
    <3>2. {"git", "marker"} \subseteq DOMAIN l
      BY DEF Layer
    <3> QED
      BY <3>1, <3>2
  <2>2. {"git", "marker"} \subseteq DOMAIN here[i]
    <3>1. here[i] = HeardLayer(layers[i], deaf[i])
      BY <1>1
    <3>2. DOMAIN here[i] = DOMAIN layers[i]
      BY <3>1 DEF HeardLayer
    <3> QED
      BY <2>1, <3>2
  <2>3. AwayFromHome(here, home)[i] =
          IF i = home THEN [here[i] EXCEPT !.git = "absent", !.marker = "absent"] ELSE here[i]
    BY <1>1 DEF AwayFromHome
  <2>4. AwayFromHome(layers, home)[i] =
          IF i = home THEN [layers[i] EXCEPT !.git = "absent", !.marker = "absent"] ELSE layers[i]
    BY <1>1 DEF AwayFromHome
  <2>5. i = home => AwayFromHome(here, home)[i].git = "absent" /\ AwayFromHome(here, home)[i].marker = "absent"
    BY <2>2, <2>3
  <2>6. i = home => AwayFromHome(layers, home)[i].git = "absent" /\ AwayFromHome(layers, home)[i].marker = "absent"
    BY <2>1, <2>4
  <2> QED
    BY <2>3, <2>4, <2>5, <2>6
<1>4. ASSUME NEW h, NEW t, DOMAIN h = 1..n, DOMAIN t = 1..n, h = [i \in 1..n |-> h[i]], t = [i \in 1..n |-> t[i]],
             \A i \in 1..n : t[i] \in Answered /\ h[i] \in {t[i], "unknown"}
      PROVE  Hears(h, t)
  <2>1. \A i \in 1..n : h[i] \in AnAnswer
    BY <1>4 DEF AnAnswer
  <2>2. h \in [1..n -> AnAnswer] /\ t \in [1..n -> Answered]
    BY <1>4, <2>1
  <2>3. h \in Seq(AnAnswer) /\ t \in Seq(Answered) /\ Len(h) = n /\ Len(t) = n
    BY <2>2
  <2> QED
    BY <1>4, <2>3 DEF Hears
<1>5. "absent" \in Answered
  BY DEF Answered
<1>6. Hears([i \in DOMAIN here |-> here[i].git], [i \in DOMAIN layers |-> layers[i].git])
  <2>1. PICK h : h = [i \in DOMAIN here |-> here[i].git]
    OBVIOUS
  <2>2. PICK t : t = [i \in DOMAIN layers |-> layers[i].git]
    OBVIOUS
  <2>a. DOMAIN h = 1..n /\ DOMAIN t = 1..n /\ h = [i \in 1..n |-> h[i]] /\ t = [i \in 1..n |-> t[i]]
    BY <1>1, <2>1, <2>2
  <2>3. \A i \in 1..n : t[i] \in Answered /\ h[i] \in {t[i], "unknown"}
    <3> TAKE i \in 1..n
    <3>1. h[i] = here[i].git /\ t[i] = layers[i].git
      BY <1>1, <2>1, <2>2
    <3> QED
      BY <1>2, <3>1
  <2>4. Hears(h, t)
    BY <1>4, <2>a, <2>3
  <2> QED
    BY <2>1, <2>2, <2>4
<1>7. Hears([i \in DOMAIN here |-> AwayFromHome(here, home)[i].git],
            [i \in DOMAIN layers |-> AwayFromHome(layers, home)[i].git])
  <2>1. PICK h : h = [i \in DOMAIN here |-> AwayFromHome(here, home)[i].git]
    OBVIOUS
  <2>2. PICK t : t = [i \in DOMAIN layers |-> AwayFromHome(layers, home)[i].git]
    OBVIOUS
  <2>a. DOMAIN h = 1..n /\ DOMAIN t = 1..n /\ h = [i \in 1..n |-> h[i]] /\ t = [i \in 1..n |-> t[i]]
    BY <1>1, <2>1, <2>2
  <2>3. \A i \in 1..n : t[i] \in Answered /\ h[i] \in {t[i], "unknown"}
    <3> TAKE i \in 1..n
    <3>1. h[i] = AwayFromHome(here, home)[i].git /\ t[i] = AwayFromHome(layers, home)[i].git
      BY <1>1, <2>1, <2>2
    <3> QED
      <4>1. CASE i = home
        BY <1>3, <1>5, <3>1, <4>1
      <4>2. CASE i # home
        <5>1. h[i] = here[i].git /\ t[i] = layers[i].git
          BY <1>3, <3>1, <4>2
        <5> QED
          BY <1>2, <5>1
      <4> QED
        BY <4>1, <4>2
  <2>4. Hears(h, t)
    BY <1>4, <2>a, <2>3
  <2> QED
    BY <2>1, <2>2, <2>4
<1>8. Hears([i \in DOMAIN here |-> AwayFromHome(here, home)[i].marker],
            [i \in DOMAIN layers |-> AwayFromHome(layers, home)[i].marker])
  <2>1. PICK h : h = [i \in DOMAIN here |-> AwayFromHome(here, home)[i].marker]
    OBVIOUS
  <2>2. PICK t : t = [i \in DOMAIN layers |-> AwayFromHome(layers, home)[i].marker]
    OBVIOUS
  <2>a. DOMAIN h = 1..n /\ DOMAIN t = 1..n /\ h = [i \in 1..n |-> h[i]] /\ t = [i \in 1..n |-> t[i]]
    BY <1>1, <2>1, <2>2
  <2>3. \A i \in 1..n : t[i] \in Answered /\ h[i] \in {t[i], "unknown"}
    <3> TAKE i \in 1..n
    <3>1. h[i] = AwayFromHome(here, home)[i].marker /\ t[i] = AwayFromHome(layers, home)[i].marker
      BY <1>1, <2>1, <2>2
    <3> QED
      <4>1. CASE i = home
        BY <1>3, <1>5, <3>1, <4>1
      <4>2. CASE i # home
        <5>1. h[i] = here[i].marker /\ t[i] = layers[i].marker
          BY <1>3, <3>1, <4>2
        <5> QED
          BY <1>2, <5>1
      <4> QED
        BY <4>1, <4>2
  <2>4. Hears(h, t)
    BY <1>4, <2>a, <2>3
  <2> QED
    BY <2>1, <2>2, <2>4
<1> QED
  BY <1>6, <1>7, <1>8

LEMMA LocalHears ==
  ASSUME NEW start \in Answered, NEW from \in {start, "unknown"}, NEW layers \in Seq(Layer), NEW deaf,
         NEW here, here = [i \in DOMAIN layers |-> HeardLayer(layers[i], deaf[i])]
  PROVE  OnlyWhatAllWouldSay(LocalRepoId(from, here), LocalRepoId(start, layers))
<1>1. PICK h : h = Gits(here)
  OBVIOUS
<1>2. PICK t : t = Gits(layers)
  OBVIOUS
<1>3. Hears(h, t)
  BY <1>1, <1>2, GitsHear DEF Gits
<1>4. PICK n \in Nat : n = Len(layers) /\ DOMAIN layers = 1..n /\ DOMAIN here = 1..n
  OBVIOUS
<1>5. Len(t) = n
  BY <1>2, <1>4 DEF Gits
<1>6. PICK heard : heard = FindGitRoot(from, here)
  OBVIOUS
<1>7. PICK told : told = FindGitRoot(start, layers)
  OBVIOUS
<1>8. PICK at : at = Climb(t).layer
  OBVIOUS
<1>9. /\ heard \in {Unknown, told} /\ told # Unknown
      /\ told.says = "found" => told = [says |-> "found", layer |-> at] /\ at \in 1..n
  <2>2. /\ FindGitRoot(from, here) \in {Unknown, FindGitRoot(start, layers)}
        /\ FindGitRoot(start, layers).says = "found" =>
             /\ FindGitRoot(start, layers) = [says |-> "found", layer |-> Climb(t).layer]
             /\ Climb(t).layer \in 1..Len(t)
        /\ FindGitRoot(start, layers) # Unknown
    BY <1>1, <1>2, <1>3, RootHears
  <2> QED
    BY <1>5, <1>6, <1>7, <1>8, <2>2
<1>10. CASE heard = Unknown
  <2>1. heard.says = "unknown"
    BY <1>10 DEF Unknown
  <2>2. LocalRepoId(from, here) = Unknown
    BY <1>6, <2>1 DEF LocalRepoId
  <2> QED
    BY <2>2 DEF OnlyWhatAllWouldSay
<1>11. CASE heard = told /\ told.says = "found"
  <2>1. CanonicalId(here[at]) \in {CanonicalId(layers[at]), Unknown}
    <3>1. at \in 1..n /\ layers[at] \in Layer /\ here[at] = HeardLayer(layers[at], deaf[at])
      BY <1>4, <1>9, <1>11
    <3> QED
      BY <3>1, OriginHears
  <2>2. told.layer = at
    BY <1>9, <1>11
  <2>3. LocalRepoId(from, here) = IF CanonicalId(here[at]) = Unknown THEN Unknown
                                  ELSE [says |-> CanonicalId(here[at]).says, layer |-> at]
    BY <1>6, <1>11, <2>2 DEF LocalRepoId
  <2>4. LocalRepoId(start, layers) = IF CanonicalId(layers[at]) = Unknown THEN Unknown
                                     ELSE [says |-> CanonicalId(layers[at]).says, layer |-> at]
    BY <1>7, <1>11, <2>2 DEF LocalRepoId
  <2> QED
    BY <2>1, <2>3, <2>4 DEF OnlyWhatAllWouldSay
<1>12. CASE heard = told /\ told.says # "found"
  <2>1. LocalRepoId(from, here) = LocalRepoId(start, layers)
    BY <1>6, <1>7, <1>12 DEF LocalRepoId
  <2> QED
    BY <2>1 DEF OnlyWhatAllWouldSay
<1> QED
  BY <1>9, <1>10, <1>11, <1>12

LEMMA WslHears ==
  ASSUME NEW start \in Answered, NEW from \in {start, "unknown"}, NEW layers \in Seq(Layer), NEW deaf,
         layers # <<>>, NEW here, here = [i \in DOMAIN layers |-> HeardLayer(layers[i], deaf[i])]
  PROVE  OnlyWhatAllWouldSay(WslRepoId(from, here), WslRepoId(start, layers))
<1>1. layers[1] \in Layer /\ here[1] = HeardLayer(layers[1], deaf[1])
  OBVIOUS
<1>2. /\ ConfigPath(here[1]) \in {ConfigPath(layers[1]), "unknown"}
      /\ OriginUrl(here[1]) \in {OriginUrl(layers[1]), "unknown"}
      /\ ConfigPath(layers[1]) \in {"absent", "own", "gitdir", "common"}
  BY <1>1, OriginHears
<1>3. start # "unknown"
  BY DEF Answered, Present
<1> QED
  BY <1>2, <1>3 DEF OnlyWhatAllWouldSay, WslRepoId

LEMMA ProbeHears ==
  ASSUME NEW layers \in Seq(Layer), NEW deaf, NEW home,
         NEW here, here = [i \in DOMAIN layers |-> HeardLayer(layers[i], deaf[i])]
  PROVE  OnlyWhatAllWouldSay(ProbeLocal(here, home), ProbeLocal(layers, home))
<1>1. PICK h : h = [i \in DOMAIN here |-> AwayFromHome(here, home)[i].git]
  OBVIOUS
<1>2. PICK t : t = [i \in DOMAIN layers |-> AwayFromHome(layers, home)[i].git]
  OBVIOUS
<1>3. PICK hm : hm = [i \in DOMAIN here |-> AwayFromHome(here, home)[i].marker]
  OBVIOUS
<1>4. PICK tm : tm = [i \in DOMAIN layers |-> AwayFromHome(layers, home)[i].marker]
  OBVIOUS
<1>5. Hears(h, t) /\ Hears(hm, tm)
  BY <1>1, <1>2, <1>3, <1>4, GitsHear
<1>6. DOMAIN AwayFromHome(here, home) = DOMAIN here /\ DOMAIN AwayFromHome(layers, home) = DOMAIN layers
  BY DEF AwayFromHome
<1>7. ProbeLocal(here, home) = ProjectRoot(Climb(h), Climb(hm))
  BY <1>1, <1>3, <1>6 DEF ProbeLocal
<1>8. ProbeLocal(layers, home) = ProjectRoot(Climb(t), Climb(tm))
  BY <1>2, <1>4, <1>6 DEF ProbeLocal
<1>9. /\ Climb(t).known /\ Climb(h).known => Climb(h).layer = Climb(t).layer
      /\ Climb(tm).known /\ Climb(hm).known => Climb(hm).layer = Climb(tm).layer
      /\ Climb(t).known /\ Climb(tm).known
  BY <1>5, ClimbHears
<1> QED
  BY <1>7, <1>8, <1>9 DEF OnlyWhatAllWouldSay, ProjectRoot

LEMMA ShellHears ==
  ASSUME NEW layers \in Seq(Layer), NEW reached \in BOOLEAN, NEW home
  PROVE  OnlyWhatAllWouldSay(ProbeWsl(reached, layers, home), ProbeLocal(layers, home))
<1>1. ASSUME NEW i \in DOMAIN layers
      PROVE  [layers[i] EXCEPT !.git = Shell(@), !.marker = Shell(@)] = layers[i]
  <2>1. PICK l \in Layer : l = layers[i]
    OBVIOUS
  <2>2. Shell(l.git) = l.git /\ Shell(l.marker) = l.marker
    BY DEF Shell, Layer, Told, Present
  <2>3. [l EXCEPT !.git = l.git, !.marker = l.marker] = l
    BY DEF Layer
  <2> QED
    BY <2>1, <2>2, <2>3
<1>2. [i \in DOMAIN layers |-> [layers[i] EXCEPT !.git = Shell(@), !.marker = Shell(@)]]
        = [i \in DOMAIN layers |-> layers[i]]
  BY <1>1
<1>3. [i \in DOMAIN layers |-> layers[i]] = layers
  OBVIOUS
<1> QED
  BY <1>2, <1>3 DEF ProbeWsl, OnlyWhatAllWouldSay

(* In its own directory a repository is the same to both.                  *)
LEMMA OwnDirectoryAlike ==
  ASSUME NEW start \in Answered, NEW layers \in Seq(Layer), layers # <<>>,
         start = "absent" => layers[1].git = "absent", layers[1].git # "absent"
  PROVE  LocalRepoId(start, layers).says = WslRepoId(start, layers).says
<1>1. PICK t : t = [i \in DOMAIN layers |-> layers[i].git]
  OBVIOUS
<1>a. \A l \in Layer : l.git \in Present \union {"absent"}
  BY DEF Layer, Told
<1>2. layers[1] \in Layer /\ layers[1].git \in Present
  BY <1>a
<1>3. t \in Seq(AnAnswer) /\ 1 \in 1..Len(t) /\ t[1] = layers[1].git
  <2>1. \A i \in DOMAIN layers : layers[i].git \in AnAnswer
    BY <1>a DEF AnAnswer, Answered
  <2>2. PICK n \in Nat : DOMAIN layers = 1..n /\ n >= 1
    OBVIOUS
  <2>3. t \in [1..n -> AnAnswer] /\ t[1] = layers[1].git
    BY <1>1, <2>1, <2>2
  <2> QED
    BY <2>2, <2>3
<1>4. Climb(t).layer = 1 /\ Climb(t).known
  <2>1. PICK a \in 0..Len(t) :
           /\ Climb(t).layer = a /\ (Climb(t).known <=> a = 0 \/ t[a] # "unknown")
           /\ a = 0 => \A k \in 1..Len(t) : t[k] = "absent"
           /\ a # 0 => t[a] # "absent" /\ \A k \in 1..Len(t) : k < a => t[k] = "absent"
    BY <1>3, ClimbIs
  <2>2. t[1] # "absent" /\ t[1] # "unknown"
    BY <1>2, <1>3 DEF Present
  <2>3. a = 1
    BY <1>3, <2>1, <2>2
  <2> QED
    BY <2>1, <2>2, <2>3
<1>5. FindGitRoot(start, layers) = [says |-> "found", layer |-> 1]
  <2>1. start \notin {"absent", "unknown"}
    BY DEF Answered, Present
  <2> QED
    BY <1>1, <1>4, <2>1 DEF FindGitRoot
<1>6. LocalRepoId(start, layers) = IF CanonicalId(layers[1]) = Unknown THEN Unknown
                                   ELSE [says |-> CanonicalId(layers[1]).says, layer |-> 1]
  BY <1>5 DEF LocalRepoId
<1>7. ConfigPath(layers[1]) \in {"absent", "own", "gitdir", "common"}
  BY <1>2, OriginHears
<1>8. start # "unknown" /\ start # "absent"
  BY DEF Answered, Present
<1>9. CASE ConfigPath(layers[1]) = "absent"
  <2>1. CanonicalId(layers[1]) = [says |-> "path"]
    BY <1>9 DEF CanonicalId, OriginUrl, IdentityOf
  <2>2. LocalRepoId(start, layers) = [says |-> "path", layer |-> 1]
    BY <1>6, <2>1 DEF Unknown
  <2>3. WslRepoId(start, layers) = [says |-> "path", layer |-> 0, missing |-> FALSE]
    BY <1>8, <1>9 DEF WslRepoId
  <2> QED
    BY <2>2, <2>3
<1>10. CASE ConfigPath(layers[1]) # "absent" /\ OriginUrl(layers[1]) = "unknown"
  <2>1. LocalRepoId(start, layers) = Unknown
    BY <1>6, <1>10 DEF CanonicalId
  <2>2. WslRepoId(start, layers) = Unknown
    BY <1>7, <1>10 DEF WslRepoId
  <2> QED
    BY <2>1, <2>2
<1>11. CASE ConfigPath(layers[1]) # "absent" /\ OriginUrl(layers[1]) # "unknown"
  <2>1. PICK s : s = IdentityOf(OriginUrl(layers[1]))
    OBVIOUS
  <2>2. s # "unknown"
    BY <2>1 DEF IdentityOf
  <2>3. CanonicalId(layers[1]) = [says |-> s]
    BY <1>11, <2>1 DEF CanonicalId
  <2>4. LocalRepoId(start, layers) = [says |-> s, layer |-> 1]
    BY <1>6, <2>2, <2>3 DEF Unknown
  <2>5. WslRepoId(start, layers) = [says |-> s, layer |-> 1]
    BY <1>7, <1>11, <2>1 DEF WslRepoId
  <2> QED
    BY <2>4, <2>5
<1> QED
  BY <1>9, <1>10, <1>11

LEMMA ClimbsAre ==
  ASSUME NEW c, IsClimb(c)
  PROVE  ClimbsAreFacts(c.start, c.layers, c.home, c.deafStart, c.deaf)
<1>1. /\ c.start \in Answered /\ c.layers \in Seq(Layer) /\ c.layers # <<>>
      /\ c.start = "absent" => c.layers[1].git = "absent"
  BY DEF IsClimb, Told, Answered
<1>2. PICK here : here = [i \in DOMAIN c.layers |-> HeardLayer(c.layers[i], c.deaf[i])]
  OBVIOUS
<1>3. PICK from \in {c.start, "unknown"} : from = Heard(c.start, "start", c.deafStart)
  BY DEF Heard
<1>4. OnlyWhatAllWouldSay(LocalRepoId(from, here), LocalRepoId(c.start, c.layers))
  BY <1>1, <1>2, LocalHears
<1>5. OnlyWhatAllWouldSay(WslRepoId(from, here), WslRepoId(c.start, c.layers))
  BY <1>1, <1>2, WslHears
<1>6. OnlyWhatAllWouldSay(ProbeLocal(here, c.home), ProbeLocal(c.layers, c.home))
  BY <1>1, <1>2, ProbeHears
<1>7. OnlyWhatAllWouldSay(ProbeWsl(c.deafStart = {}, c.layers, c.home), ProbeLocal(c.layers, c.home))
  <2>1. PICK reached \in BOOLEAN : reached = (c.deafStart = {})
    OBVIOUS
  <2>2. OnlyWhatAllWouldSay(ProbeWsl(reached, c.layers, c.home), ProbeLocal(c.layers, c.home))
    BY <1>1, ShellHears
  <2> QED
    BY <2>1, <2>2
<1>8. c.layers[1].git # "absent" => LocalRepoId(c.start, c.layers).says = WslRepoId(c.start, c.layers).says
  BY <1>1, OwnDirectoryAlike
<1> QED
  BY <1>2, <1>3, <1>4, <1>5, <1>6, <1>7, <1>8 DEF ClimbsAreFacts

-----------------------------------------------------------------------------
(* What FoldLeft computes, from its definition: induction on the number of *)
(* elements, as the search for the least number that fails.  The folds are *)
(* told apart by what.                                                     *)
Takes(what, acc, x) ==
  CASE what.fold = "total" -> acc + x
    [] what.fold = "size" -> acc + BytesOf(x)
    [] what.fold = "run" -> DecodeNext(acc, x, what.end)
    [] what.fold = "length" -> IF acc.ok THEN LengthNext(acc, x) ELSE acc
    [] what.fold = "words" -> IF x \in Mark THEN acc ELSE Append(acc, x)
    [] what.fold = "encode" -> acc \o WordsOf(x)
    [] what.fold = "decode" -> NextName(what.enc, what.tree, acc)
    [] what.fold = "groups" ->
         IF x.id = Nothing THEN acc ELSE Joined(acc, x, what.distros, what.mounts)

(* What FoldLeft evaluates: a function of the sets of places, in which the *)
(* last place is taken off first.                                          *)
IsFold(f, k, p, acc, lines) ==
  f = [S \in SUBSET (1..k) |->
         IF S = {} THEN acc ELSE Takes(p, f[S \ {Max(S)}], lines[Max(S)])]

(* What such a function says of the first i places.                        *)
UpTo(f, i) == f[1..i]

LEMMA MaxIs ==
  ASSUME NEW k \in Nat, NEW S \in SUBSET (1..k), k \in S
  PROVE  Max(S) = k
<1>1. \A y \in S : y \in Int /\ k >= y
  OBVIOUS
<1>2. \A x \in S : (\A y \in S : x >= y) => x = k
  BY <1>1
<1> QED
  BY <1>1, <1>2 DEF Max

LEMMA FoldExists ==
  ASSUME NEW p, NEW acc, NEW lines
  PROVE  \A k \in Nat : \E f : IsFold(f, k, p, acc, lines)
<1> DEFINE Bad == {k \in Nat : ~\E f : IsFold(f, k, p, acc, lines)}
<1> SUFFICES ASSUME Bad # {} PROVE FALSE
  OBVIOUS
<1>1. PICK m \in Bad : \A k \in Bad : m <= k
  BY LeastNatural
<1>2. CASE m = 0
  <2>1. PICK f : f = [S \in SUBSET (1..0) |-> acc]
    OBVIOUS
  <2>2. 1..0 = {}
    OBVIOUS
  <2>3. IsFold(f, 0, p, acc, lines)
    BY <2>1, <2>2 DEF IsFold
  <2> QED
    BY <1>1, <1>2, <2>3
<1>3. CASE m # 0
  <2>0. m \in Nat \ {0} /\ m - 1 \in Nat /\ m - 1 \notin Bad
    BY <1>1, <1>3
  <2>1. PICK f : IsFold(f, m - 1, p, acc, lines)
    BY <2>0
  <2>2. PICK g : g = [S \in SUBSET (1..m) |->
                        IF m \in S THEN Takes(p, f[S \ {m}], lines[m]) ELSE f[S]]
    OBVIOUS
  <2>3. ASSUME NEW S \in SUBSET (1..m)
        PROVE  g[S] = IF S = {} THEN acc ELSE Takes(p, g[S \ {Max(S)}], lines[Max(S)])
    <3>1. CASE m \in S
      <4>1. Max(S) = m
        BY <2>0, <3>1, MaxIs
      <4>2. S \ {m} \in SUBSET (1..m)
        OBVIOUS
      <4>3. S \ {m} \in SUBSET (1..(m - 1))
        BY <2>0
      <4>4. g[S \ {m}] = f[S \ {m}]
        BY <2>2, <4>2
      <4> QED
        BY <2>2, <3>1, <4>1, <4>4
    <3>2. CASE m \notin S
      <4>1. S \in SUBSET (1..(m - 1))
        BY <2>0, <3>2
      <4>2. f[S] = IF S = {} THEN acc ELSE Takes(p, f[S \ {Max(S)}], lines[Max(S)])
        BY <2>1, <4>1 DEF IsFold
      <4>3. g[S] = f[S] /\ g[S \ {Max(S)}] = f[S \ {Max(S)}]
        BY <2>2, <3>2
      <4> QED
        BY <4>2, <4>3
    <3> QED
      BY <3>1, <3>2
  <2>4. IsFold(g, m, p, acc, lines)
    <3>1. g = [S \in SUBSET (1..m) |-> g[S]]
      BY <2>2
    <3> QED
      BY <2>3, <3>1 DEF IsFold
  <2> QED
    BY <1>1, <2>4
<1> QED
  BY <1>2, <1>3

LEMMA FoldBase ==
  ASSUME NEW p, NEW acc, NEW lines, NEW n \in Nat, NEW f, IsFold(f, n, p, acc, lines)
  PROVE  UpTo(f, 0) = acc
<1>1. 1..0 = {}
  OBVIOUS
<1> QED
  BY <1>1 DEF IsFold, UpTo

LEMMA FoldStep ==
  ASSUME NEW p, NEW acc, NEW lines, NEW n \in Nat, NEW f, IsFold(f, n, p, acc, lines),
         NEW i \in 1..n, NEW h \in Nat, i = h + 1
  PROVE  UpTo(f, i) = Takes(p, UpTo(f, h), lines[i])
<1>1. Max(1..i) = i
  BY MaxIs
<1>2. (1..i) \ {i} = 1..h /\ 1..i # {} /\ 1..i \in SUBSET (1..n)
  OBVIOUS
<1>3. f[1..i] = IF 1..i = {} THEN acc ELSE Takes(p, f[(1..i) \ {Max(1..i)}], lines[Max(1..i)])
  BY <1>2 DEF IsFold
<1> QED
  BY <1>1, <1>2, <1>3 DEF UpTo

LEMMA FoldAgrees ==
  ASSUME NEW p, NEW acc, NEW a, NEW b, NEW j \in Nat, NEW k \in Nat, NEW f, NEW g,
         IsFold(f, j, p, acc, a), IsFold(g, k, p, acc, b),
         NEW m \in Nat, m <= j, m <= k, \A i \in 1..m : a[i] = b[i]
  PROVE  UpTo(f, m) = UpTo(g, m)
<1> DEFINE Bad == {i \in 0..m : UpTo(f, i) # UpTo(g, i)}
<1> SUFFICES ASSUME Bad # {} PROVE FALSE
  OBVIOUS
<1>0. Bad \in SUBSET Nat
  OBVIOUS
<1>1. PICK i \in Bad : \A l \in Bad : i <= l
  <2> HIDE DEF Bad
  <2> QED
    BY <1>0, LeastNatural
<1>2. i # 0
  <2>1. UpTo(f, 0) = acc
    BY FoldBase
  <2>2. UpTo(g, 0) = acc
    BY FoldBase
  <2> QED
    BY <2>1, <2>2
<1>3. i \in 1..m /\ i - 1 \in 0..m /\ i - 1 \notin Bad
  BY <1>1, <1>2
<1>4. PICK h \in Nat : h = i - 1
  BY <1>3
<1>5. UpTo(f, h) = UpTo(g, h) /\ i \in 1..j /\ i \in 1..k /\ i = h + 1
  BY <1>3, <1>4
<1> HIDE DEF Bad
<1>6. UpTo(f, i) = Takes(p, UpTo(f, h), a[i])
  BY <1>4, <1>5, FoldStep
<1>7. UpTo(g, i) = Takes(p, UpTo(g, h), b[i])
  BY <1>4, <1>5, FoldStep
<1>8. a[i] = b[i]
  BY <1>3
<1> QED
  BY <1>1, <1>5, <1>6, <1>7, <1>8 DEF Bad

LEMMA TotalFolds ==
  ASSUME NEW lengths, NEW n \in Nat, DOMAIN lengths = 1..n, NEW what, what = [fold |-> "total"],
         NEW acc, acc = 0
  PROVE  \E f : IsFold(f, n, what, acc, lengths) /\ Total(lengths) = UpTo(f, n)
<1>1. PICK g : IsFold(g, n, what, acc, lengths)
  BY FoldExists
<1> DEFINE Goes(h) == h = [S \in SUBSET (1..n) |->
                             IF S = {} THEN acc
                             ELSE h[S \ {Max(S)}] + lengths[Max(S)]]
<1>2. \A h : Goes(h) <=> IsFold(h, n, what, acc, lengths)
  BY DEF IsFold, Takes
<1>3. PICK f : f = CHOOSE h : Goes(h)
  OBVIOUS
<1>4. Goes(f)
  <2> HIDE DEF Goes
  <2> QED
    BY <1>1, <1>2, <1>3
<1>5. Total(lengths) = UpTo(f, n)
  BY <1>3, Zenon DEF Total, FoldLeft, MapThenFoldSet, UpTo
<1> QED
  BY <1>2, <1>4, <1>5

LEMMA SizeFolds ==
  ASSUME NEW stream, NEW n \in Nat, DOMAIN stream = 1..n, NEW what, what = [fold |-> "size"],
         NEW acc, acc = 0
  PROVE  \E f : IsFold(f, n, what, acc, stream) /\ Size(stream) = UpTo(f, n)
<1>1. PICK g : IsFold(g, n, what, acc, stream)
  BY FoldExists
<1> DEFINE Goes(h) == h = [S \in SUBSET (1..n) |->
                             IF S = {} THEN acc
                             ELSE h[S \ {Max(S)}] + BytesOf(stream[Max(S)])]
<1>2. \A h : Goes(h) <=> IsFold(h, n, what, acc, stream)
  BY DEF IsFold, Takes
<1>3. PICK f : f = CHOOSE h : Goes(h)
  OBVIOUS
<1>4. Goes(f)
  <2> HIDE DEF Goes
  <2> QED
    BY <1>1, <1>2, <1>3
<1>5. Size(stream) = UpTo(f, n)
  BY <1>3, Zenon DEF Size, FoldLeft, MapThenFoldSet, UpTo
<1> QED
  BY <1>2, <1>4, <1>5

UntilEnd(end) == [fold |-> "run", end |-> end]
AtStart == [pos |-> 0, step |-> "going"]

LEMMA RunFolds ==
  ASSUME NEW stream, NEW end, NEW n \in Nat, DOMAIN stream = 1..n, NEW what, what = UntilEnd(end),
         NEW acc, acc = AtStart
  PROVE  \E f : IsFold(f, n, what, acc, stream) /\ DecodeStream(stream, end) = UpTo(f, n)
<1>1. PICK g : IsFold(g, n, what, acc, stream)
  BY FoldExists
<1> DEFINE Goes(h) == h = [S \in SUBSET (1..n) |->
                             IF S = {} THEN acc
                             ELSE DecodeNext(h[S \ {Max(S)}], stream[Max(S)], end)]
<1>2. \A h : Goes(h) <=> IsFold(h, n, what, acc, stream)
  BY DEF IsFold, Takes, UntilEnd
<1>3. PICK f : f = CHOOSE h : Goes(h)
  OBVIOUS
<1>4. Goes(f)
  <2> HIDE DEF Goes
  <2> QED
    BY <1>1, <1>2, <1>3
<1>5. DecodeStream(stream, end) = UpTo(f, n)
  BY <1>3, Zenon DEF AtStart, DecodeStream, FoldLeft, MapThenFoldSet, UpTo
<1> QED
  BY <1>2, <1>4, <1>5

LEMMA LengthFolds ==
  ASSUME NEW stream, NEW n \in Nat, DOMAIN stream = 1..n, NEW what, what = [fold |-> "length"],
         NEW acc, acc = Answer(0)
  PROVE  \E f : IsFold(f, n, what, acc, stream) /\ DecodedLen(stream) = UpTo(f, n)
<1>1. PICK g : IsFold(g, n, what, acc, stream)
  BY FoldExists
<1> DEFINE Goes(h) == h = [S \in SUBSET (1..n) |->
                             IF S = {} THEN acc
                             ELSE IF h[S \ {Max(S)}].ok THEN LengthNext(h[S \ {Max(S)}], stream[Max(S)])
                                ELSE h[S \ {Max(S)}]]
<1>2. \A h : Goes(h) <=> IsFold(h, n, what, acc, stream)
  BY DEF IsFold, Takes
<1>3. PICK f : f = CHOOSE h : Goes(h)
  OBVIOUS
<1>4. Goes(f)
  <2> HIDE DEF Goes
  <2> QED
    BY <1>1, <1>2, <1>3
<1>5. DecodedLen(stream) = UpTo(f, n)
  BY <1>3, Zenon DEF DecodedLen, FoldLeft, MapThenFoldSet, UpTo
<1> QED
  BY <1>2, <1>4, <1>5

LEMMA WordsFold ==
  ASSUME NEW name, NEW n \in Nat, DOMAIN name = 1..n, NEW what, what = [fold |-> "words"],
         NEW acc, acc = <<>>
  PROVE  \E f : IsFold(f, n, what, acc, name) /\ WordsOf(name) = UpTo(f, n)
<1>1. PICK g : IsFold(g, n, what, acc, name)
  BY FoldExists
<1> DEFINE Goes(h) == h = [S \in SUBSET (1..n) |->
                             IF S = {} THEN acc
                             ELSE IF name[Max(S)] \in Mark THEN h[S \ {Max(S)}]
                                ELSE Append(h[S \ {Max(S)}], name[Max(S)])]
<1>2. \A h : Goes(h) <=> IsFold(h, n, what, acc, name)
  BY DEF IsFold, Takes
<1>3. PICK f : f = CHOOSE h : Goes(h)
  OBVIOUS
<1>4. Goes(f)
  <2> HIDE DEF Goes
  <2> QED
    BY <1>1, <1>2, <1>3
<1>5. WordsOf(name) = UpTo(f, n)
  BY <1>3, Zenon DEF WordsOf, FoldLeft, MapThenFoldSet, UpTo
<1> QED
  BY <1>2, <1>4, <1>5

LEMMA EncodeFolds ==
  ASSUME NEW names, NEW n \in Nat, DOMAIN names = 1..n, NEW what, what = [fold |-> "encode"],
         NEW acc, acc = <<>>
  PROVE  \E f : IsFold(f, n, what, acc, names) /\ Encode(names) = UpTo(f, n)
<1>1. PICK g : IsFold(g, n, what, acc, names)
  BY FoldExists
<1> DEFINE Goes(h) == h = [S \in SUBSET (1..n) |->
                             IF S = {} THEN acc
                             ELSE h[S \ {Max(S)}] \o WordsOf(names[Max(S)])]
<1>2. \A h : Goes(h) <=> IsFold(h, n, what, acc, names)
  BY DEF IsFold, Takes
<1>3. PICK f : f = CHOOSE h : Goes(h)
  OBVIOUS
<1>4. Goes(f)
  <2> HIDE DEF Goes
  <2> QED
    BY <1>1, <1>2, <1>3
<1>5. Encode(names) = UpTo(f, n)
  BY <1>3, Zenon DEF Encode, FoldLeft, MapThenFoldSet, UpTo
<1> QED
  BY <1>2, <1>4, <1>5

DecodeOf(enc, tree) == [fold |-> "decode", enc |-> enc, tree |-> tree]
AtRoot == [says |-> "dir", at |-> 0, path |-> <<>>]

LEMMA DecodeFolds ==
  ASSUME NEW enc, NEW tree, NEW n \in Nat, DOMAIN enc = 1..n, NEW what, what = DecodeOf(enc, tree),
         NEW acc, acc = AtRoot
  PROVE  \E f : IsFold(f, n, what, acc, enc) /\ Decode(enc, tree) = UpTo(f, n)
<1>1. PICK g : IsFold(g, n, what, acc, enc)
  BY FoldExists
<1> DEFINE Goes(h) == h = [S \in SUBSET (1..n) |->
                             IF S = {} THEN acc
                             ELSE NextName(enc, tree, h[S \ {Max(S)}])]
<1>2. \A h : Goes(h) <=> IsFold(h, n, what, acc, enc)
  BY DEF IsFold, Takes, DecodeOf
<1>3. PICK f : f = CHOOSE h : Goes(h)
  OBVIOUS
<1>4. Goes(f)
  <2> HIDE DEF Goes
  <2> QED
    BY <1>1, <1>2, <1>3
<1>5. Decode(enc, tree) = UpTo(f, n)
  BY <1>3, Zenon DEF AtRoot, Decode, FoldLeft, MapThenFoldSet, UpTo
<1> QED
  BY <1>2, <1>4, <1>5

-----------------------------------------------------------------------------
(* Frames.                                                                 *)

(* Sums are numbers, and grow.                                             *)
LEMMA TotalIsANumber ==
  ASSUME NEW lengths \in Seq(Nat)
  PROVE  Total(lengths) \in Nat
<1>1. PICK n \in Nat : n = Len(lengths) /\ DOMAIN lengths = 1..n
  OBVIOUS
<1>2. PICK what : what = [fold |-> "total"]
  OBVIOUS
<1>3. PICK acc : acc = 0
  OBVIOUS
<1>4. PICK f : IsFold(f, n, what, acc, lengths) /\ Total(lengths) = UpTo(f, n)
  BY <1>1, <1>2, <1>3, TotalFolds
<1> DEFINE Bad == {i \in 0..n : UpTo(f, i) \notin Nat}
<1>5. Bad = {}
  <2> SUFFICES ASSUME Bad # {} PROVE FALSE
    OBVIOUS
  <2>0. Bad \in SUBSET Nat
    OBVIOUS
  <2>1. PICK i \in Bad : \A l \in Bad : i <= l
    <3> HIDE DEF Bad
    <3> QED
      BY <2>0, LeastNatural
  <2>2. UpTo(f, 0) = 0
    BY <1>3, <1>4, FoldBase
  <2>3. i \in 1..n /\ i - 1 \in 0..n /\ i - 1 \notin Bad
    BY <2>1, <2>2
  <2>4. PICK h \in Nat : h = i - 1 /\ i = h + 1
    BY <2>3
  <2>5. UpTo(f, h) \in Nat /\ UpTo(f, i) \notin Nat /\ lengths[i] \in Nat
    BY <1>1, <2>1, <2>3, <2>4
  <2> HIDE DEF Bad
  <2>6. UpTo(f, i) = Takes(what, UpTo(f, h), lengths[i])
    BY <1>4, <2>3, <2>4, FoldStep
  <2>7. Takes(what, UpTo(f, h), lengths[i]) = UpTo(f, h) + lengths[i]
    BY <1>2 DEF Takes
  <2> QED
    BY <2>5, <2>6, <2>7
<1> QED
  BY <1>1, <1>4, <1>5

LEMMA BytesAreANumber ==
  ASSUME NEW s, IsStream(s), NEW i \in DOMAIN s
  PROVE  /\ BytesOf(s[i]) \in Nat
         /\ s[i].kind # "data" => BytesOf(s[i]) = 0
<1>1. s[i] \in AFrame /\ s[i].there <= Len(s[i].blocks)
  BY DEF IsStream
<1>2. PICK f \in AFrame : f = s[i]
  BY <1>1
<1>3. f.blocks \in Seq(Nat) /\ f.there \in Nat /\ f.there <= Len(f.blocks)
  BY <1>1, <1>2 DEF AFrame
<1>4. SubSeq(f.blocks, 1, f.there) \in Seq(Nat)
  BY <1>3
<1>5. Total(f.blocks) \in Nat /\ Total(SubSeq(f.blocks, 1, f.there)) \in Nat
  BY <1>3, <1>4, TotalIsANumber
<1> QED
  BY <1>2, <1>5 DEF BytesOf

(* What is known of a stream before its frames are gone through.           *)
Stream(s, n, f) ==
  /\ IsStream(s) /\ n \in Nat /\ n = Len(s) /\ DOMAIN s = 1..n
  /\ \A i \in 1..n : BytesOf(s[i]) \in Nat /\ (s[i].kind # "data" => BytesOf(s[i]) = 0)
  /\ IsFold(f, n, [fold |-> "size"], 0, s) /\ Size(s) = UpTo(f, n)
  /\ UpTo(f, 0) = 0
  /\ \A i \in 1..n : UpTo(f, i) = UpTo(f, i - 1) + BytesOf(s[i])
  /\ \A i \in 0..n : UpTo(f, i) \in Nat
  /\ \A i \in 0..n : UpTo(f, i) <= UpTo(f, n)

LEMMA SizesGrow ==
  ASSUME NEW s, IsStream(s)
  PROVE  \E n, f : Stream(s, n, f)
<1>1. PICK n \in Nat : n = Len(s) /\ DOMAIN s = 1..n
  BY DEF IsStream
<1>2. PICK what : what = [fold |-> "size"]
  OBVIOUS
<1>3. PICK acc : acc = 0
  OBVIOUS
<1>4. PICK f : IsFold(f, n, what, acc, s) /\ Size(s) = UpTo(f, n)
  BY <1>1, <1>2, <1>3, SizeFolds
<1>5. \A i \in 1..n : BytesOf(s[i]) \in Nat /\ (s[i].kind # "data" => BytesOf(s[i]) = 0)
  BY <1>1, BytesAreANumber
<1>6. UpTo(f, 0) = 0
  BY <1>3, <1>4, FoldBase
<1>7. ASSUME NEW i \in 1..n
      PROVE  UpTo(f, i) = UpTo(f, i - 1) + BytesOf(s[i])
  <2>1. PICK h \in Nat : h = i - 1 /\ i = h + 1
    BY <1>1
  <2>2. UpTo(f, i) = Takes(what, UpTo(f, h), s[i])
    BY <1>4, <2>1, FoldStep
  <2>3. Takes(what, UpTo(f, h), s[i]) = UpTo(f, h) + BytesOf(s[i])
    BY <1>2 DEF Takes
  <2> QED
    BY <2>1, <2>2, <2>3
<1>8. \A i \in 0..n : UpTo(f, i) \in Nat
  <2> DEFINE Bad == {i \in 0..n : UpTo(f, i) \notin Nat}
  <2> SUFFICES ASSUME Bad # {} PROVE FALSE
    OBVIOUS
  <2>0. Bad \in SUBSET Nat
    OBVIOUS
  <2>1. PICK i \in Bad : \A l \in Bad : i <= l
    <3> HIDE DEF Bad
    <3> QED
      BY <2>0, LeastNatural
  <2>2. i \in 1..n /\ i - 1 \in 0..n /\ i - 1 \notin Bad
    BY <1>6, <2>1
  <2>3. UpTo(f, i - 1) \in Nat
    BY <2>2
  <2> QED
    BY <1>5, <1>7, <2>1, <2>2, <2>3
<1>9. \A i \in 0..n : UpTo(f, i) <= UpTo(f, n)
  <2> DEFINE Bad == {k \in 0..n : ~(UpTo(f, n - k) <= UpTo(f, n))}
  <2>0. Bad \in SUBSET Nat
    OBVIOUS
  <2>1. Bad = {}
    <3> SUFFICES ASSUME Bad # {} PROVE FALSE
      OBVIOUS
    <3>1. PICK k \in Bad : \A l \in Bad : k <= l
      <4> HIDE DEF Bad
      <4> QED
        BY <2>0, LeastNatural
    <3>2. k # 0
      BY <1>8, <3>1
    <3>3. k \in 1..n /\ k - 1 \in 0..n /\ k - 1 \notin Bad
      BY <3>1, <3>2
    <3>4. PICK i \in 1..n : i = n - (k - 1) /\ n - k = i - 1
      BY <3>3
    <3>5. UpTo(f, i) <= UpTo(f, n) /\ ~(UpTo(f, i - 1) <= UpTo(f, n))
      BY <3>1, <3>3, <3>4
    <3>6. UpTo(f, i) = UpTo(f, i - 1) + BytesOf(s[i]) /\ i - 1 \in 0..n /\ n \in 0..n
      BY <1>7, <3>4
    <3> QED
      BY <1>5, <1>8, <3>5, <3>6
  <2> TAKE i \in 0..n
  <2>2. PICK k \in 0..n : k = n - i /\ i = n - k
    OBVIOUS
  <2> QED
    BY <2>1, <2>2
<1>10. IsFold(f, n, [fold |-> "size"], 0, s)
  BY <1>2, <1>3, <1>4
<1> QED
  BY <1>1, <1>4, <1>5, <1>6, <1>7, <1>8, <1>9, <1>10 DEF Stream

(* A frame that is read to its end and is what it says.                    *)
Sound(f) ==
  /\ HeaderReadable(f) /\ Complete(f)
  /\ f.kind = "data" => f.sum # "wrong" /\ f.says \in {NoSize, BytesOf(f)}

(* A reader, after i frames: it goes on behind sound frames of which it    *)
(* has the bytes, it has enough, or it failed.                             *)
LEMMA ReaderGoes ==
  ASSUME NEW s, NEW n, NEW f, Stream(s, n, f), NEW end \in Nat \union {NoSize}, NoSize \notin Nat
  PROVE  \E g : /\ DecodeStream(s, end) = UpTo(g, n)
                /\ UpTo(g, 0) = [pos |-> 0, step |-> "going"]
                /\ \A i \in 1..n : UpTo(g, i) = DecodeNext(UpTo(g, i - 1), s[i], end)
                /\ \A i \in 0..n :
                     \/ UpTo(g, i).step = "failed"
                     \/ /\ UpTo(g, i) = [pos |-> UpTo(f, i), step |-> "going"]
                        /\ \A k \in 1..i : Sound(s[k])
                     \/ /\ UpTo(g, i).step = "enough" /\ end # NoSize
                        /\ UpTo(g, i).pos \in Nat /\ end <= UpTo(g, i).pos
                        /\ UpTo(g, i).pos <= UpTo(f, i)
<1>0. n \in Nat /\ DOMAIN s = 1..n /\ \A i \in 1..n : s[i] \in AFrame
  BY DEF Stream, IsStream
<1>1. PICK what : what = UntilEnd(end)
  OBVIOUS
<1>2. PICK acc : acc = AtStart
  OBVIOUS
<1>3. PICK g : IsFold(g, n, what, acc, s) /\ DecodeStream(s, end) = UpTo(g, n)
  BY <1>0, <1>1, <1>2, RunFolds
<1>4. UpTo(g, 0) = [pos |-> 0, step |-> "going"]
  BY <1>0, <1>2, <1>3, FoldBase DEF AtStart
<1>5. ASSUME NEW i \in 1..n
      PROVE  UpTo(g, i) = DecodeNext(UpTo(g, i - 1), s[i], end)
  <2>1. PICK h \in Nat : h = i - 1 /\ i = h + 1
    BY <1>0
  <2>2. UpTo(g, i) = Takes(what, UpTo(g, h), s[i])
    BY <1>0, <1>3, <2>1, FoldStep
  <2>3. Takes(what, UpTo(g, h), s[i]) = DecodeNext(UpTo(g, h), s[i], end)
    BY <1>1 DEF Takes, UntilEnd
  <2> QED
    BY <2>1, <2>2, <2>3
<1> DEFINE Failing(i) == UpTo(g, i).step = "failed"
           Going(i) == /\ UpTo(g, i) = [pos |-> UpTo(f, i), step |-> "going"]
                       /\ \A k \in 1..i : Sound(s[k])
           Enough(i) == /\ UpTo(g, i).step = "enough" /\ end # NoSize
                        /\ UpTo(g, i).pos \in Nat /\ end <= UpTo(g, i).pos
                        /\ UpTo(g, i).pos <= UpTo(f, i)
           Good(i) == Failing(i) \/ Going(i) \/ Enough(i)
<1>6. Good(0)
  BY <1>4 DEF Stream
<1>7. ASSUME NEW i \in 1..n, Good(i - 1)
      PROVE  Good(i)
  <2>0. /\ UpTo(f, i) = UpTo(f, i - 1) + BytesOf(s[i]) /\ BytesOf(s[i]) \in Nat
        /\ UpTo(f, i - 1) \in Nat /\ UpTo(f, i) \in Nat /\ (s[i].kind # "data" => BytesOf(s[i]) = 0)
    <3>1. i - 1 \in 0..n /\ i \in 0..n
      BY <1>0
    <3> QED
      BY <3>1 DEF Stream
  <2>1. UpTo(g, i) = DecodeNext(UpTo(g, i - 1), s[i], end)
    BY <1>5
  <2>2. PICK b \in AFrame : b = s[i]
    BY <1>0
  <2>3. PICK r : r = UpTo(g, i - 1)
    OBVIOUS
  <2>4. CASE Failing(i - 1)
    BY <2>1, <2>4 DEF DecodeNext
  <2>5. CASE Enough(i - 1)
    <3>1. UpTo(g, i) = UpTo(g, i - 1)
      BY <2>1, <2>5 DEF DecodeNext
    <3>2. UpTo(g, i).pos \in Nat /\ UpTo(g, i).pos <= UpTo(f, i)
      BY <2>0, <2>5, <3>1
    <3> QED
      BY <2>5, <3>1, <3>2
  <2>6. CASE Going(i - 1)
    <3>1. r.step = "going" /\ r.pos = UpTo(f, i - 1) /\ DOMAIN r = {"pos", "step"}
      BY <2>3, <2>6
    <3>2. CASE ~HeaderReadable(b)
      <4>1. UpTo(g, i) = [r EXCEPT !.step = "failed"]
        BY <2>1, <2>2, <2>3, <3>1, <3>2 DEF DecodeNext
      <4> QED
        BY <3>1, <4>1
    <3>3. CASE HeaderReadable(b) /\ b.kind = "skippable"
      <4>1. UpTo(g, i) = [r EXCEPT !.step = IF Complete(b) THEN "going" ELSE "failed"]
        BY <2>1, <2>2, <2>3, <3>1, <3>3 DEF DecodeNext
      <4>2. CASE ~Complete(b)
        BY <3>1, <4>1, <4>2
      <4>3. CASE Complete(b)
        <5>1. UpTo(g, i) = [pos |-> UpTo(f, i - 1), step |-> "going"]
          BY <2>3, <2>6, <4>1, <4>3
        <5>2. UpTo(f, i) = UpTo(f, i - 1)
          BY <2>0, <2>2, <3>3
        <5>3. Sound(s[i])
          BY <2>2, <3>3, <4>3 DEF Sound
        <5>4. \A k \in 1..i : Sound(s[k])
          BY <2>6, <5>3
        <5> QED
          BY <5>1, <5>2, <5>4
      <4> QED
        BY <4>2, <4>3
    <3>4. CASE HeaderReadable(b) /\ b.kind # "skippable"
      <4>0. b.kind = "data"
        BY <3>4 DEF HeaderReadable
      <4>1. UpTo(g, i) = [pos |-> UpTo(f, i), step |-> DecodeFrame(b, UpTo(f, i - 1), end)]
        BY <2>0, <2>1, <2>2, <2>3, <3>1, <3>4 DEF DecodeNext
      <4>2. CASE DecodeFrame(b, UpTo(f, i - 1), end) = "failed"
        BY <4>1, <4>2
      <4>3. CASE DecodeFrame(b, UpTo(f, i - 1), end) = "enough"
        <5>1. end # NoSize /\ UpTo(f, i - 1) + BytesOf(b) >= end
          BY <4>3 DEF DecodeFrame
        <5>2. UpTo(g, i).step = "enough" /\ UpTo(g, i).pos = UpTo(f, i)
          BY <4>1, <4>3
        <5> QED
          BY <2>0, <2>2, <5>1, <5>2
      <4>4. CASE DecodeFrame(b, UpTo(f, i - 1), end) = "going"
        <5>1. Sound(b)
          BY <3>4, <4>4 DEF Sound, DecodeFrame
        <5>2. \A k \in 1..i : Sound(s[k])
          BY <2>2, <2>6, <5>1
        <5> QED
          BY <4>1, <4>4, <5>2
      <4> QED
        BY <4>2, <4>3, <4>4 DEF DecodeFrame
    <3> QED
      BY <3>2, <3>3, <3>4
  <2> QED
    BY <1>7, <2>4, <2>5, <2>6
<1>8. \A i \in 0..n : Good(i)
  <2> DEFINE Bad == {i \in 0..n : ~Good(i)}
  <2> SUFFICES ASSUME Bad # {} PROVE FALSE
    OBVIOUS
  <2>0. Bad \in SUBSET Nat
    BY <1>0
  <2>1. PICK i \in Bad : \A l \in Bad : i <= l
    <3> HIDE DEF Bad
    <3> QED
      BY <2>0, LeastNatural
  <2> HIDE DEF Good
  <2>2. i \in 1..n /\ i - 1 \in 0..n /\ i - 1 \notin Bad
    BY <1>0, <1>6, <2>1
  <2>3. Good(i - 1)
    BY <2>2
  <2> QED
    BY <1>7, <2>1, <2>2, <2>3
<1> QED
  BY <1>3, <1>4, <1>5, <1>8

(* The length, after i frames: it failed, or what the headers say of those *)
(* is complete, and not less than the bytes when no header says less.      *)
LEMMA LengthGoes ==
  ASSUME NEW s, NEW n, NEW f, Stream(s, n, f), NoSize \notin Nat, Word \in Nat \ {0}
  PROVE  \E g : /\ DecodedLen(s) = UpTo(g, n)
                /\ \A i \in 0..n :
                     \/ UpTo(g, i) = Failed
                     \/ \E v \in Nat : /\ UpTo(g, i) = Answer(v) /\ v < Word
                                       /\ \A k \in 1..i : Complete(s[k])
                                       /\ ~Understated(s) => UpTo(f, i) <= v
                /\ (\A k \in 1..n : Sound(s[k])) =>
                     \A i \in 0..n :
                       UpTo(g, i) = IF UpTo(f, i) < Word THEN Answer(UpTo(f, i)) ELSE Failed
<1>0. n \in Nat /\ DOMAIN s = 1..n /\ \A i \in 1..n : s[i] \in AFrame
  BY DEF Stream, IsStream
<1>1. PICK what : what = [fold |-> "length"]
  OBVIOUS
<1>2. PICK acc : acc = Answer(0)
  OBVIOUS
<1>3. PICK g : IsFold(g, n, what, acc, s) /\ DecodedLen(s) = UpTo(g, n)
  BY <1>0, <1>1, <1>2, LengthFolds
<1>4. UpTo(g, 0) = Answer(0)
  BY <1>0, <1>2, <1>3, FoldBase
<1>5. ASSUME NEW i \in 1..n
      PROVE  UpTo(g, i) = IF UpTo(g, i - 1).ok THEN LengthNext(UpTo(g, i - 1), s[i]) ELSE UpTo(g, i - 1)
  <2>1. PICK h \in Nat : h = i - 1 /\ i = h + 1
    BY <1>0
  <2>2. UpTo(g, i) = Takes(what, UpTo(g, h), s[i])
    BY <1>0, <1>3, <2>1, FoldStep
  <2>3. Takes(what, UpTo(g, h), s[i]) =
          IF UpTo(g, h).ok THEN LengthNext(UpTo(g, h), s[i]) ELSE UpTo(g, h)
    BY <1>1 DEF Takes
  <2> QED
    BY <2>1, <2>2, <2>3
<1>6. Failed.ok = FALSE /\ \A v : Answer(v).ok = TRUE /\ Answer(v).value = v
  BY DEF Failed, Answer
<1>7. \A i \in 0..n : UpTo(f, i) \in Nat
  BY DEF Stream
<1>8. \A i \in 1..n : /\ UpTo(f, i) = UpTo(f, i - 1) + BytesOf(s[i]) /\ BytesOf(s[i]) \in Nat
                      /\ s[i].kind # "data" => BytesOf(s[i]) = 0
  BY DEF Stream
<1> DEFINE Counted(i) == \E v \in Nat : /\ UpTo(g, i) = Answer(v) /\ v < Word
                                        /\ \A k \in 1..i : Complete(s[k])
                                        /\ ~Understated(s) => UpTo(f, i) <= v
           Good(i) == UpTo(g, i) = Failed \/ Counted(i)
           Exact(i) == UpTo(g, i) = IF UpTo(f, i) < Word THEN Answer(UpTo(f, i)) ELSE Failed
<1>9. Good(0) /\ Exact(0)
  <2>1. UpTo(f, 0) = 0
    BY DEF Stream
  <2>2. 0 \in Nat /\ 0 < Word
    OBVIOUS
  <2> QED
    BY <1>4, <2>1, <2>2
<1>10. ASSUME NEW i \in 1..n, Good(i - 1)
       PROVE  Good(i)
  <2>1. CASE UpTo(g, i - 1) = Failed
    BY <1>5, <1>6, <2>1
  <2>2. CASE Counted(i - 1)
    <3>1. PICK v \in Nat : /\ UpTo(g, i - 1) = Answer(v) /\ v < Word
                           /\ \A k \in 1..(i - 1) : Complete(s[k])
                           /\ ~Understated(s) => UpTo(f, i - 1) <= v
      BY <2>2
    <3>2. UpTo(g, i) = LengthNext(Answer(v), s[i])
      BY <1>5, <1>6, <3>1
    <3>3. PICK b \in AFrame : b = s[i]
      BY <1>0
    <3>4. PICK size : size = IF b.kind = "skippable" THEN 0
                             ELSE IF b.says # NoSize THEN b.says ELSE BytesOf(b)
      OBVIOUS
    <3>5. size \in Nat
      BY <1>8, <3>3, <3>4 DEF AFrame
    <3>6. CASE UpTo(g, i) = Failed
      BY <3>6
    <3>7. CASE UpTo(g, i) # Failed
      <4>1. /\ HeaderReadable(b)
            /\ IF b.kind = "skippable" \/ b.says # NoSize THEN Skipped(b)
               ELSE DecodeFrame(b, 0, NoSize) = "going"
            /\ v + size < Word /\ UpTo(g, i) = Answer(v + size)
        BY <1>6, <3>2, <3>3, <3>4, <3>7 DEF LengthNext
      <4>2. Complete(b)
        BY <4>1 DEF Skipped, DecodeFrame
      <4>3. \A k \in 1..i : Complete(s[k])
        BY <3>1, <3>3, <4>2
      <4>4. ~Understated(s) => BytesOf(b) <= size
        <5> SUFFICES ASSUME ~Understated(s) PROVE BytesOf(b) <= size
          OBVIOUS
        <5>1. b.kind = "data" /\ b.says # NoSize => ~(b.says < BytesOf(b))
          BY <1>0, <3>3 DEF Understated
        <5>2. b.kind = "data" \/ b.kind = "skippable"
          BY <4>1 DEF HeaderReadable
        <5>3. BytesOf(b) \in Nat /\ (b.kind # "data" => BytesOf(b) = 0)
          BY <1>8, <3>3
        <5> QED
          BY <3>4, <3>5, <5>1, <5>2, <5>3
      <4>5. ~Understated(s) => UpTo(f, i) <= v + size
        <5>1. UpTo(f, i) = UpTo(f, i - 1) + BytesOf(b) /\ BytesOf(b) \in Nat /\ UpTo(f, i - 1) \in Nat
          BY <1>0, <1>7, <1>8, <3>3
        <5> QED
          BY <3>1, <3>5, <4>4, <5>1
      <4> QED
        BY <3>5, <4>1, <4>3, <4>5
    <3> QED
      BY <3>6, <3>7
  <2> QED
    BY <1>10, <2>1, <2>2
<1>11. ASSUME \A k \in 1..n : Sound(s[k]), NEW i \in 1..n, Exact(i - 1)
       PROVE  Exact(i)
  <2>1. PICK v \in Nat : v = UpTo(f, i - 1)
    BY <1>0, <1>7
  <2>2. PICK b \in AFrame : b = s[i]
    BY <1>0
  <2>3. Sound(b) /\ BytesOf(b) \in Nat /\ (b.kind # "data" => BytesOf(b) = 0)
        /\ UpTo(f, i) = v + BytesOf(b)
    BY <1>8, <1>11, <2>1, <2>2
  <2>4. CASE ~(v < Word)
    <3>1. UpTo(g, i) = Failed
      BY <1>5, <1>6, <1>11, <2>1, <2>4
    <3>2. ~(UpTo(f, i) < Word)
      BY <2>3, <2>4
    <3> QED
      BY <3>1, <3>2
  <2>5. CASE v < Word
    <3>1. UpTo(g, i) = LengthNext(Answer(v), b)
      BY <1>5, <1>6, <1>11, <2>1, <2>2, <2>5
    <3>2. PICK size : size = IF b.kind = "skippable" THEN 0
                             ELSE IF b.says # NoSize THEN b.says ELSE BytesOf(b)
      OBVIOUS
    <3>3. b.kind = "data" \/ b.kind = "skippable"
      BY <2>3 DEF Sound, HeaderReadable
    <3>4. size = BytesOf(b)
      BY <2>3, <3>2, <3>3 DEF Sound
    <3>5. HeaderReadable(b) /\ Skipped(b)
      BY <2>3 DEF Sound, Skipped
    <3>6. b.kind = "data" => DecodeFrame(b, 0, NoSize) = "going"
      BY <2>3 DEF Sound, DecodeFrame
    <3>7. LengthNext(Answer(v), b) = IF v + size < Word THEN Answer(v + size) ELSE Failed
      BY <1>6, <3>2, <3>3, <3>5, <3>6 DEF LengthNext
    <3> QED
      BY <2>3, <3>1, <3>4, <3>7
  <2> QED
    BY <2>4, <2>5
<1>12. \A i \in 0..n : Good(i)
  <2> DEFINE Bad == {i \in 0..n : ~Good(i)}
  <2> SUFFICES ASSUME Bad # {} PROVE FALSE
    OBVIOUS
  <2>0. Bad \in SUBSET Nat
    BY <1>0
  <2>1. PICK i \in Bad : \A l \in Bad : i <= l
    <3> HIDE DEF Bad
    <3> QED
      BY <2>0, LeastNatural
  <2> HIDE DEF Good
  <2>2. i \in 1..n /\ i - 1 \in 0..n /\ i - 1 \notin Bad
    BY <1>0, <1>9, <2>1
  <2>3. Good(i - 1)
    BY <2>2
  <2> QED
    BY <1>10, <2>1, <2>2, <2>3
<1>13. ASSUME \A k \in 1..n : Sound(s[k])
       PROVE  \A i \in 0..n : Exact(i)
  <2> DEFINE Bad == {i \in 0..n : ~Exact(i)}
  <2> SUFFICES ASSUME Bad # {} PROVE FALSE
    OBVIOUS
  <2>0. Bad \in SUBSET Nat
    BY <1>0
  <2>1. PICK i \in Bad : \A l \in Bad : i <= l
    <3> HIDE DEF Bad
    <3> QED
      BY <2>0, LeastNatural
  <2> HIDE DEF Exact
  <2>2. i \in 1..n /\ i - 1 \in 0..n /\ i - 1 \notin Bad
    BY <1>0, <1>9, <2>1
  <2>3. Exact(i - 1)
    BY <2>2
  <2> QED
    BY <1>11, <1>13, <2>1, <2>2, <2>3
<1> HIDE DEF Exact
<1>14. (\A k \in 1..n : Sound(s[k])) => \A i \in 0..n : Exact(i)
  BY <1>13
<1> USE DEF Exact
<1> QED
  BY <1>3, <1>12, <1>14, Zenon

(* A reader that wants less than another goes on or has enough when the    *)
(* other does.                                                             *)
LEMMA LessIsReadToo ==
  ASSUME NEW s, NEW n, NEW f, Stream(s, n, f), NoSize \notin Nat,
         NEW long \in Nat, NEW short \in Nat, short <= long,
         DecodeStream(s, long).step # "failed", DecodeStream(s, long).pos >= long
  PROVE  DecodeStream(s, short).step # "failed" /\ DecodeStream(s, short).pos >= short
<1>0. n \in Nat /\ DOMAIN s = 1..n /\ long # NoSize /\ short # NoSize
  BY DEF Stream
<1>1. PICK g : /\ DecodeStream(s, long) = UpTo(g, n)
               /\ UpTo(g, 0) = [pos |-> 0, step |-> "going"]
               /\ \A i \in 1..n : UpTo(g, i) = DecodeNext(UpTo(g, i - 1), s[i], long)
               /\ \A i \in 0..n :
                     \/ UpTo(g, i).step = "failed"
                     \/ /\ UpTo(g, i) = [pos |-> UpTo(f, i), step |-> "going"]
                        /\ \A k \in 1..i : Sound(s[k])
                     \/ /\ UpTo(g, i).step = "enough" /\ long # NoSize
                        /\ UpTo(g, i).pos \in Nat /\ long <= UpTo(g, i).pos
                        /\ UpTo(g, i).pos <= UpTo(f, i)
  BY ReaderGoes
<1>2. PICK h : /\ DecodeStream(s, short) = UpTo(h, n)
               /\ UpTo(h, 0) = [pos |-> 0, step |-> "going"]
               /\ \A i \in 1..n : UpTo(h, i) = DecodeNext(UpTo(h, i - 1), s[i], short)
               /\ \A i \in 0..n :
                     \/ UpTo(h, i).step = "failed"
                     \/ /\ UpTo(h, i) = [pos |-> UpTo(f, i), step |-> "going"]
                        /\ \A k \in 1..i : Sound(s[k])
                     \/ /\ UpTo(h, i).step = "enough" /\ short # NoSize
                        /\ UpTo(h, i).pos \in Nat /\ short <= UpTo(h, i).pos
                        /\ UpTo(h, i).pos <= UpTo(f, i)
  BY ReaderGoes
<1> DEFINE Same(i) == /\ UpTo(g, i) = [pos |-> UpTo(f, i), step |-> "going"]
                      /\ UpTo(h, i) = [pos |-> UpTo(f, i), step |-> "going"]
           Good(i) == UpTo(g, i).step = "failed" \/ UpTo(h, i).step = "enough" \/ Same(i)
<1>3. Good(0)
  BY <1>1, <1>2 DEF Stream
<1>4. ASSUME NEW i \in 1..n, Good(i - 1)
      PROVE  Good(i)
  <2>1. UpTo(g, i) = DecodeNext(UpTo(g, i - 1), s[i], long)
    BY <1>1
  <2>2. UpTo(h, i) = DecodeNext(UpTo(h, i - 1), s[i], short)
    BY <1>2
  <2>3. CASE UpTo(g, i - 1).step = "failed"
    BY <2>1, <2>3 DEF DecodeNext
  <2>4. CASE UpTo(h, i - 1).step = "enough"
    BY <2>2, <2>4 DEF DecodeNext
  <2>5. CASE Same(i - 1)
    <3>0. i \in 0..n /\ UpTo(f, i) \in Nat
      BY <1>0 DEF Stream
    <3>1. CASE UpTo(g, i).step = "failed" \/ UpTo(h, i).step = "enough"
      BY <3>1
    <3>2. CASE UpTo(g, i).step = "enough"
      <4>1. PICK b : b = s[i]
        OBVIOUS
      <4>2. PICK p : p = UpTo(f, i - 1)
        OBVIOUS
      <4>3. p \in Nat /\ BytesOf(b) \in Nat
        <5>1. i - 1 \in 0..n
          BY <1>0
        <5> QED
          BY <4>1, <4>2, <5>1 DEF Stream
      <4>4. PICK r : r = [pos |-> p, step |-> "going"]
        OBVIOUS
      <4>5. r.pos = p /\ r.step = "going" /\ DOMAIN r = {"pos", "step"}
        BY <4>4
      <4>6. UpTo(g, i) = DecodeNext(r, b, long) /\ UpTo(h, i) = DecodeNext(r, b, short)
        BY <2>1, <2>2, <2>5, <4>1, <4>2, <4>4
      <4>7. HeaderReadable(b)
        <5>1. CASE ~HeaderReadable(b)
          <6>1. DecodeNext(r, b, long) = [r EXCEPT !.step = "failed"]
            BY <4>5, <5>1 DEF DecodeNext
          <6>2. [r EXCEPT !.step = "failed"].step = "failed"
            BY <4>5
          <6> QED
            BY <3>2, <4>6, <6>1, <6>2
        <5> QED
          BY <5>1
      <4>8. b.kind # "skippable"
        <5>1. CASE b.kind = "skippable"
          <6>1. DecodeNext(r, b, long) = [r EXCEPT !.step = IF Complete(b) THEN "going" ELSE "failed"]
            BY <4>5, <4>7, <5>1 DEF DecodeNext
          <6>2. [r EXCEPT !.step = IF Complete(b) THEN "going" ELSE "failed"].step \in {"going", "failed"}
            BY <4>5
          <6> QED
            BY <3>2, <4>6, <6>1, <6>2
        <5> QED
          BY <5>1
      <4>9. UpTo(g, i).step = DecodeFrame(b, p, long) /\ UpTo(h, i).step = DecodeFrame(b, p, short)
        BY <4>5, <4>6, <4>7, <4>8 DEF DecodeNext
      <4>10. p + BytesOf(b) >= long
        BY <3>2, <4>9 DEF DecodeFrame
      <4>11. p + BytesOf(b) >= short
        BY <4>3, <4>10
      <4>12. DecodeFrame(b, p, short) = "enough"
        BY <1>0, <4>11 DEF DecodeFrame
      <4> QED
        BY <4>9, <4>12
    <3>3. CASE /\ UpTo(g, i) = [pos |-> UpTo(f, i), step |-> "going"]
               /\ \A k \in 1..i : Sound(s[k])
               /\ UpTo(h, i).step # "enough"
      <4>1. CASE UpTo(h, i).step = "failed"
        <5>1. PICK b : b = s[i]
          OBVIOUS
        <5>2. Sound(b)
          BY <3>3, <5>1
        <5>3. PICK r : r = [pos |-> UpTo(f, i - 1), step |-> "going"]
          OBVIOUS
        <5>4. r.pos = UpTo(f, i - 1) /\ r.step = "going" /\ DOMAIN r = {"pos", "step"}
          BY <5>3
        <5>5. UpTo(h, i) = DecodeNext(r, b, short)
          BY <2>2, <2>5, <5>1, <5>3
        <5>6. CASE b.kind = "skippable"
          <6>1. DecodeNext(r, b, short) = [r EXCEPT !.step = "going"]
            BY <5>2, <5>4, <5>6 DEF DecodeNext, Sound
          <6>2. [r EXCEPT !.step = "going"].step = "going"
            BY <5>4
          <6> QED
            BY <4>1, <5>5, <6>1, <6>2
        <5>7. CASE b.kind # "skippable"
          <6>1. UpTo(h, i).step = DecodeFrame(b, UpTo(f, i - 1), short)
            BY <5>2, <5>4, <5>5, <5>7 DEF DecodeNext, Sound
          <6>2. b.kind = "data"
            BY <5>2, <5>7 DEF Sound, HeaderReadable
          <6>3. DecodeFrame(b, UpTo(f, i - 1), short) # "failed"
            BY <5>2, <6>2 DEF DecodeFrame, Sound
          <6> QED
            BY <4>1, <6>1, <6>3
        <5> QED
          BY <5>6, <5>7
      <4>2. CASE UpTo(h, i).step # "failed"
        BY <1>2, <3>0, <3>3, <4>2
      <4> QED
        BY <4>1, <4>2
    <3> QED
      BY <1>1, <3>0, <3>1, <3>2, <3>3
  <2> QED
    BY <1>4, <2>3, <2>4, <2>5
<1>5. Good(n)
  <2> DEFINE Bad == {i \in 0..n : ~Good(i)}
  <2> SUFFICES ASSUME Bad # {} PROVE FALSE
    BY <1>0
  <2>0. Bad \in SUBSET Nat
    BY <1>0
  <2>1. PICK i \in Bad : \A l \in Bad : i <= l
    <3> HIDE DEF Bad
    <3> QED
      BY <2>0, LeastNatural
  <2> HIDE DEF Good
  <2>2. i \in 1..n /\ i - 1 \in 0..n /\ i - 1 \notin Bad
    BY <1>0, <1>3, <2>1
  <2>3. Good(i - 1)
    BY <2>2
  <2> QED
    BY <1>4, <2>1, <2>2, <2>3
<1>6. n \in 0..n /\ UpTo(f, n) \in Nat
  BY <1>0 DEF Stream
<1>7. CASE UpTo(h, n).step = "enough"
  BY <1>2, <1>6, <1>7
<1>8. CASE Same(n)
  <2>1. UpTo(h, n).step = "going" /\ UpTo(h, n).pos = UpTo(f, n) /\ UpTo(g, n).pos = UpTo(f, n)
    BY <1>8
  <2> QED
    BY <1>1, <1>2, <1>6, <2>1
<1> QED
  BY <1>1, <1>5, <1>7, <1>8

LEMMA PlaceOfTheReader ==
  ASSUME NEW s, NEW n, NEW f, Stream(s, n, f), NoSize \notin Nat, NEW end \in Nat,
         DecodeStream(s, end).step # "failed"
  PROVE  DecodeStream(s, end).pos \in Nat /\ DecodeStream(s, end).pos <= Size(s)
<1>1. n \in 0..n /\ Size(s) = UpTo(f, n) /\ UpTo(f, n) \in Nat
  BY DEF Stream
<1>2. PICK h : /\ DecodeStream(s, end) = UpTo(h, n)
               /\ \A i \in 0..n :
                    \/ UpTo(h, i).step = "failed"
                    \/ /\ UpTo(h, i) = [pos |-> UpTo(f, i), step |-> "going"]
                       /\ \A k \in 1..i : Sound(s[k])
                    \/ /\ UpTo(h, i).step = "enough" /\ end # NoSize
                       /\ UpTo(h, i).pos \in Nat /\ end <= UpTo(h, i).pos
                       /\ UpTo(h, i).pos <= UpTo(f, i)
  BY ReaderGoes
<1>3. UpTo(h, n) = [pos |-> UpTo(f, n), step |-> "going"] => UpTo(h, n).pos = UpTo(f, n)
  OBVIOUS
<1> QED
  BY <1>1, <1>2, <1>3

(* What a range that is not empty needs.                                   *)
LEMMA RangeIs ==
  ASSUME NEW s, NEW n, NEW f, Stream(s, n, f), NoSize \notin Nat,
         NEW start \in Nat, NEW end \in Nat, start < end
  PROVE  IF DecodeStream(s, end).step # "failed" /\ DecodeStream(s, end).pos >= end
         THEN DecodeRange(s, start, end) = Answer(SubSeq(Decoded(s), start + 1, end))
         ELSE DecodeRange(s, start, end) = Failed
<1>1. DecodeStream(s, end).step # "failed" => DecodeStream(s, end).pos \in Nat
  BY PlaceOfTheReader
<1>2. ~(end <= start)
  OBVIOUS
<1>3. DecodeRange(s, start, end) =
        IF DecodeStream(s, end).step = "failed" \/ DecodeStream(s, end).pos < end THEN Failed
        ELSE Answer(SubSeq(Decoded(s), start + 1, end))
  BY <1>2, Zenon DEF DecodeRange
<1> QED
  BY <1>1, <1>3

LEMMA LengthsAre ==
  ASSUME NEW s, IsStream(s), NoSize \notin Nat, Word \in Nat \ {0}
  PROVE  LengthIsOfTheBytes(s)
<1>1. PICK n, f : Stream(s, n, f)
  BY SizesGrow
<1>2. PICK size \in Nat : size = Size(s) /\ size = UpTo(f, n)
  <2>1. n \in 0..n
    BY <1>1 DEF Stream
  <2> QED
    BY <1>1, <2>1 DEF Stream
<1>3. PICK has : has = Decoded(s)
  OBVIOUS
<1>4. has = [k \in 1..size |-> k] /\ has \in Seq(Nat) /\ Len(has) = size
  <2>1. has = [k \in 1..size |-> k]
    BY <1>2, <1>3 DEF Decoded
  <2>2. has \in [1..size -> Nat]
    BY <2>1
  <2> QED
    BY <2>1, <2>2
<1>5. PICK len : len = DecodedLen(s)
  OBVIOUS
<1>6. n \in Nat /\ DOMAIN s = 1..n /\ n \in 0..n
  BY <1>1 DEF Stream
<1>7. Failed.ok = FALSE /\ \A v : Answer(v).ok = TRUE /\ Answer(v).value = v
  BY DEF Failed, Answer
<1>8. PICK r : /\ DecodeStream(s, NoSize) = UpTo(r, n)
               /\ UpTo(r, 0) = [pos |-> 0, step |-> "going"]
               /\ \A i \in 1..n : UpTo(r, i) = DecodeNext(UpTo(r, i - 1), s[i], NoSize)
               /\ \A i \in 0..n :
                     \/ UpTo(r, i).step = "failed"
                     \/ /\ UpTo(r, i) = [pos |-> UpTo(f, i), step |-> "going"]
                        /\ \A k \in 1..i : Sound(s[k])
                     \/ /\ UpTo(r, i).step = "enough" /\ NoSize # NoSize
                        /\ UpTo(r, i).pos \in Nat /\ NoSize <= UpTo(r, i).pos
                        /\ UpTo(r, i).pos <= UpTo(f, i)
  BY <1>1, ReaderGoes
<1>9. PICK g : /\ DecodedLen(s) = UpTo(g, n)
               /\ \A i \in 0..n :
                     \/ UpTo(g, i) = Failed
                     \/ \E v \in Nat : /\ UpTo(g, i) = Answer(v) /\ v < Word
                                       /\ \A k \in 1..i : Complete(s[k])
                                       /\ ~Understated(s) => UpTo(f, i) <= v
               /\ (\A k \in 1..n : Sound(s[k])) =>
                     \A i \in 0..n :
                       UpTo(g, i) = IF UpTo(f, i) < Word THEN Answer(UpTo(f, i)) ELSE Failed
  BY <1>1, LengthGoes
<1>10. DecodeAll(s).ok => \A k \in 1..n : Sound(s[k])
  <2> SUFFICES ASSUME DecodeAll(s).ok PROVE \A k \in 1..n : Sound(s[k])
    OBVIOUS
  <2>1. DecodeStream(s, NoSize).step # "failed"
    BY <1>7 DEF DecodeAll
  <2> QED
    BY <1>6, <1>8, <2>1
<1>11. DecodeAll(s).ok => len = IF Len(has) < Word THEN Answer(Len(has)) ELSE Failed
  BY <1>2, <1>4, <1>5, <1>6, <1>9, <1>10
<1>12. \/ len = Failed
       \/ \E v \in Nat : /\ len = Answer(v)
                         /\ \A k \in 1..n : Complete(s[k])
                         /\ ~Understated(s) => size <= v
  BY <1>2, <1>5, <1>6, <1>9
<1>13. (\E i \in DOMAIN s : ~Complete(s[i])) => ~len.ok /\ ~DecodeAll(s).ok
  <2> SUFFICES ASSUME NEW i \in 1..n, ~Complete(s[i]) PROVE ~len.ok /\ ~DecodeAll(s).ok
    BY <1>6
  <2>1. len = Failed
    BY <1>12
  <2>2. ~Sound(s[i])
    BY DEF Sound
  <2>3. ~DecodeAll(s).ok
    BY <1>10, <2>2
  <2> QED
    BY <1>7, <2>1, <2>3
<1>14. ASSUME NEW a \in 0..(size + 1), NEW b \in 0..(size + 1), DecodeRange(s, a, b).ok
       PROVE  DecodeRange(s, a, b).value = IF b <= a THEN <<>> ELSE SubSeq(has, a + 1, b)
  BY <1>3, <1>7, <1>14 DEF DecodeRange
<1>15. ASSUME len.ok, DecodeRange(s, 0, len.value).ok, ~Understated(s)
       PROVE  /\ DecodeRange(s, 0, len.value) = Answer(has)
              /\ \A k \in 0..len.value :
                   DecodeRange(s, 0, k).value \o DecodeRange(s, k, len.value).value = has
  <2>a. len # Failed
    BY <1>7, <1>15
  <2>b. PICK v \in Nat : len = Answer(v) /\ (~Understated(s) => size <= v)
    BY <1>12, <2>a
  <2>1. len.value = v /\ size <= v
    BY <1>7, <1>15, <2>b
  <2>2. ASSUME NEW k \in Nat
        PROVE  DecodeRange(s, k, k) = Answer(<<>>)
    BY DEF DecodeRange
  <2>3. CASE v = 0
    <3>1. has = <<>>
      <4>1. size = 0
        BY <2>1, <2>3
      <4> QED
        BY <1>4, <4>1
    <3>2. DecodeRange(s, 0, 0) = Answer(<<>>)
      BY <2>2
    <3>3. DecodeRange(s, 0, 0).value \o DecodeRange(s, 0, 0).value = <<>>
      BY <1>7, <3>2
    <3>4. \A k \in 0..v : k = 0
      BY <2>3
    <3> QED
      BY <2>1, <2>3, <3>1, <3>2, <3>3, <3>4
  <2>4. CASE v > 0
    <3>1. DecodeStream(s, v).step # "failed" /\ DecodeStream(s, v).pos >= v
      <4>1. DecodeRange(s, 0, v) # Failed
        BY <1>7, <1>15, <2>1
      <4> QED
        BY <1>1, <2>4, <4>1, RangeIs
    <3>2. v = size
      <4>1. DecodeStream(s, v).pos \in Nat /\ DecodeStream(s, v).pos <= size
        BY <1>1, <1>2, <3>1, PlaceOfTheReader
      <4> QED
        BY <2>1, <3>1, <4>1
    <3>3. ASSUME NEW k \in 1..v
          PROVE  DecodeRange(s, 0, k) = Answer(SubSeq(has, 1, k))
      <4>1. DecodeStream(s, k).step # "failed" /\ DecodeStream(s, k).pos >= k
        BY <1>1, <3>1, LessIsReadToo
      <4>2. DecodeRange(s, 0, k) = Answer(SubSeq(has, 0 + 1, k))
        <5>1. k \in Nat /\ 0 < k
          OBVIOUS
        <5> QED
          BY <1>1, <1>3, <4>1, <5>1, RangeIs
      <4> QED
        BY <4>2
    <3>4. ASSUME NEW k \in 0..(v - 1)
          PROVE  DecodeRange(s, k, v) = Answer(SubSeq(has, k + 1, v))
      <4>1. k \in Nat /\ k < v
        OBVIOUS
      <4> QED
        BY <1>1, <1>3, <3>1, <4>1, RangeIs
    <3>5. SubSeq(has, 1, v) = has /\ <<>> \o has = has /\ has \o <<>> = has
      BY <1>4, <3>2
    <3>6. DecodeRange(s, 0, v) = Answer(has)
      <4>1. v \in 1..v
        BY <2>4
      <4>2. DecodeRange(s, 0, v) = Answer(SubSeq(has, 1, v))
        BY <3>3, <4>1
      <4> QED
        BY <3>5, <4>2
    <3>7. ASSUME NEW k \in 0..v
          PROVE  DecodeRange(s, 0, k).value \o DecodeRange(s, k, v).value = has
      <4>1. CASE k = 0
        BY <1>7, <2>2, <3>5, <3>6, <4>1
      <4>2. CASE k = v
        BY <1>7, <2>2, <3>5, <3>6, <4>2
      <4>3. CASE k \in 1..(v - 1)
        <5>1. SubSeq(has, 1, k) \o SubSeq(has, k + 1, v) = has
          BY <1>4, <3>2, <4>3
        <5>2. k \in 1..v /\ k \in 0..(v - 1)
          BY <4>3
        <5>3. DecodeRange(s, 0, k) = Answer(SubSeq(has, 1, k))
          BY <3>3, <5>2
        <5>4. DecodeRange(s, k, v) = Answer(SubSeq(has, k + 1, v))
          BY <3>4, <5>2
        <5> QED
          BY <1>7, <5>1, <5>3, <5>4
      <4>4. k = 0 \/ k = v \/ k \in 1..(v - 1)
        OBVIOUS
      <4> QED
        BY <4>1, <4>2, <4>3, <4>4, Zenon
    <3> QED
      BY <2>1, <3>6, <3>7
  <2>5. v = 0 \/ v > 0
    OBVIOUS
  <2> QED
    BY <2>3, <2>4, <2>5, Zenon
<1> QED
  <2>1. \A a, b \in 0..(Len(has) + 1) : DecodeRange(s, a, b).ok =>
          DecodeRange(s, a, b).value = (IF b <= a THEN <<>> ELSE SubSeq(has, a + 1, b))
    BY <1>4, <1>14
  <2>2. len.ok /\ DecodeRange(s, 0, len.value).ok /\ ~Understated(s) =>
          /\ DecodeRange(s, 0, len.value) = Answer(has)
          /\ \A k \in 0..len.value :
               DecodeRange(s, 0, k).value \o DecodeRange(s, k, len.value).value = has
    BY <1>15
  <2> QED
    BY <1>3, <1>5, <1>11, <1>13, <2>1, <2>2, Zenon DEF LengthIsOfTheBytes

(* LengthOfTheBytes, for files of any number of frames.                    *)
THEOREM LengthIsThatOfTheBytes == AnswersSpec => []LengthOfTheBytes
<1>1. AskedInv => LengthOfTheBytes
  BY AnswersAssumption, LengthsAre DEF AskedInv, LengthOfTheBytes
<1> QED
  BY <1>1, InitAsks, NextAsks, PTL DEF AnswersSpec

-----------------------------------------------------------------------------
(* Names.                                                                  *)

(* The words of the name that words are joined to are these words.         *)
LEMMA NamesAreTheirWords ==
  ASSUME NEW S, S \intersect Mark = {}, NEW words \in Seq(S), words # <<>>
  PROVE  WordsOf(NameOf(words)) = words
<1>1. PICK m \in Nat \ {0} : m = Len(words) /\ DOMAIN words = 1..m
  OBVIOUS
<1>2. PICK n \in Nat : n = 2 * m - 1
  <2>1. 2 * m - 1 \in Nat
    BY <1>1
  <2> QED
    BY <2>1
<1>3. PICK name : name = NameOf(words)
  OBVIOUS
<1>4. name = [k \in 1..n |-> IF k % 2 = 1 THEN words[(k + 1) \div 2] ELSE Dash]
  BY <1>1, <1>2, <1>3 DEF NameOf
<1>5. \A q \in 1..m : 2 * q - 1 \in 1..n /\ name[2 * q - 1] = words[q]
  <2> TAKE q \in 1..m
  <2>1. 2 * q - 1 \in 1..n
    BY <1>1, <1>2
  <2>2. (2 * q - 1) % 2 = 1 /\ ((2 * q - 1) + 1) \div 2 = q
    OBVIOUS
  <2> QED
    BY <1>4, <2>1, <2>2
<1>6. \A q \in 1..(m - 1) : 2 * q \in 1..n /\ name[2 * q] = Dash
  <2> TAKE q \in 1..(m - 1)
  <2>1. 2 * q \in 1..n
    BY <1>1, <1>2
  <2>2. (2 * q) % 2 # 1
    OBVIOUS
  <2> QED
    BY <1>4, <2>1, <2>2
<1>a. Dash \in Mark
  BY DEF Mark
<1>7. PICK what : what = [fold |-> "words"]
  OBVIOUS
<1>8. PICK acc : acc = <<>>
  OBVIOUS
<1>9. PICK f : IsFold(f, n, what, acc, name) /\ WordsOf(name) = UpTo(f, n)
  <2>1. DOMAIN name = 1..n
    BY <1>4
  <2> QED
    BY <1>7, <1>8, <2>1, WordsFold
<1>10. UpTo(f, 0) = <<>>
  BY <1>8, <1>9, FoldBase
<1>11. ASSUME NEW i \in 1..n
       PROVE  UpTo(f, i) = IF name[i] \in Mark THEN UpTo(f, i - 1)
                           ELSE Append(UpTo(f, i - 1), name[i])
  <2>1. PICK h \in Nat : h = i - 1 /\ i = h + 1
    BY <1>1
  <2>2. UpTo(f, i) = Takes(what, UpTo(f, h), name[i])
    BY <1>9, <2>1, FoldStep
  <2> QED
    BY <1>7, <2>1, <2>2 DEF Takes
<1>12. \A q \in 1..m : words[q] \in S /\ words[q] \notin Mark
  BY <1>1
<1> DEFINE Good(q) == UpTo(f, 2 * q - 1) = SubSeq(words, 1, q)
<1>13. Good(1)
  <2>1. 1 \in 1..m /\ 2 * 1 - 1 = 1 /\ 1 \in 1..n /\ 1 - 1 = 0
    BY <1>1, <1>2
  <2>2. name[1] = words[1] /\ words[1] \notin Mark
    BY <1>5, <1>12, <2>1
  <2>3. UpTo(f, 1) = Append(<<>>, words[1])
    BY <1>10, <1>11, <2>1, <2>2
  <2>4. Append(<<>>, words[1]) = SubSeq(words, 1, 1)
    BY <1>1
  <2> QED
    BY <2>1, <2>3, <2>4
<1>14. ASSUME NEW q \in 1..(m - 1), Good(q)
       PROVE  Good(q + 1)
  <2>1. PICK i \in 1..n : i = 2 * q
    BY <1>6
  <2>2. PICK h \in Nat : h = 2 * q - 1 /\ i = h + 1 /\ h = i - 1
    BY <2>1
  <2>3. UpTo(f, i) = UpTo(f, h)
    <3>1. name[i] = Dash
      BY <1>6, <2>1
    <3> QED
      BY <1>a, <1>11, <2>2, <3>1
  <2>4. PICK j \in 1..n : j = 2 * (q + 1) - 1 /\ j = i + 1 /\ i = j - 1
    <3>1. q + 1 \in 1..m /\ 2 * (q + 1) - 1 = 2 * q + 1
      OBVIOUS
    <3> QED
      BY <1>5, <2>1, <3>1
  <2>5. UpTo(f, j) = Append(UpTo(f, i), words[q + 1])
    <3>1. q + 1 \in 1..m
      OBVIOUS
    <3>2. name[j] = words[q + 1] /\ name[j] \notin Mark
      BY <1>5, <1>12, <2>4, <3>1
    <3> QED
      BY <1>11, <2>4, <3>2
  <2>6. Append(SubSeq(words, 1, q), words[q + 1]) = SubSeq(words, 1, q + 1)
    BY <1>1
  <2>7. UpTo(f, h) = SubSeq(words, 1, q)
    BY <1>14, <2>2
  <2> QED
    BY <2>3, <2>4, <2>5, <2>6, <2>7
<1>15. Good(m)
  <2> DEFINE Bad == {q \in 1..m : ~Good(q)}
  <2>a. m \in 1..m
    BY <1>1
  <2> HIDE DEF Good
  <2> SUFFICES ASSUME Bad # {} PROVE FALSE
    BY <2>a
  <2>0. Bad \in SUBSET Nat
    OBVIOUS
  <2>1. PICK q \in Bad : \A l \in Bad : q <= l
    <3> HIDE DEF Bad
    <3> QED
      BY <2>0, LeastNatural
  <2>2. q \in 1..m /\ q - 1 \in 1..(m - 1) /\ q - 1 \notin Bad
    BY <1>13, <2>1
  <2>3. Good(q - 1) /\ (q - 1) + 1 = q
    BY <2>2
  <2> QED
    BY <1>14, <2>1, <2>2, <2>3
<1>16. SubSeq(words, 1, m) = words
  BY <1>1
<1> QED
  BY <1>2, <1>3, <1>9, <1>15, <1>16

LEMMA EncodeNothing == Encode(<<>>) = <<>>
<1>1. PICK n \in Nat : n = 0
  OBVIOUS
<1>2. PICK names : names = <<>>
  OBVIOUS
<1>3. PICK acc : acc = <<>>
  OBVIOUS
<1>4. DOMAIN names = 1..n
  BY <1>1, <1>2
<1>5. PICK what : what = [fold |-> "encode"]
  OBVIOUS
<1>6. PICK f : IsFold(f, n, what, acc, names) /\ Encode(names) = UpTo(f, n)
  BY <1>3, <1>4, <1>5, EncodeFolds
<1>7. UpTo(f, 0) = acc
  BY <1>6, FoldBase
<1> QED
  BY <1>1, <1>2, <1>3, <1>6, <1>7

LEMMA EncodeOneMore ==
  ASSUME NEW S, NEW path \in Seq(S), NEW name \in S
  PROVE  Encode(Append(path, name)) = Encode(path) \o WordsOf(name)
<1>1. PICK n \in Nat : n = Len(path) /\ DOMAIN path = 1..n
  OBVIOUS
<1>2. PICK m \in Nat : m = n + 1 /\ n = m - 1
  OBVIOUS
<1>3. PICK more : more = Append(path, name)
  OBVIOUS
<1>4. DOMAIN more = 1..m /\ more[m] = name /\ \A i \in 1..n : path[i] = more[i]
  BY <1>1, <1>2, <1>3
<1>5. PICK what : what = [fold |-> "encode"]
  OBVIOUS
<1>6. PICK acc : acc = <<>>
  OBVIOUS
<1>7. PICK f : IsFold(f, n, what, acc, path) /\ Encode(path) = UpTo(f, n)
  BY <1>1, <1>5, <1>6, EncodeFolds
<1>8. PICK g : IsFold(g, m, what, acc, more) /\ Encode(more) = UpTo(g, m)
  BY <1>4, <1>5, <1>6, EncodeFolds
<1>9. UpTo(f, n) = UpTo(g, n)
  <2>1. n <= n /\ n <= m
    BY <1>2
  <2> QED
    BY <1>4, <1>7, <1>8, <2>1, FoldAgrees
<1>10. UpTo(g, m) = Takes(what, UpTo(g, n), more[m])
  <2>1. m \in 1..m
    BY <1>2
  <2>2. PICK i \in 1..m : i = m
    BY <2>1
  <2>3. PICK h \in Nat : h = i - 1 /\ i = h + 1 /\ h = n
    BY <1>2, <2>2
  <2>4. UpTo(g, i) = Takes(what, UpTo(g, h), more[i])
    BY <1>8, <2>3, FoldStep
  <2> QED
    BY <2>2, <2>3, <2>4
<1>11. Takes(what, UpTo(g, n), name) = UpTo(g, n) \o WordsOf(name)
  BY <1>5 DEF Takes
<1> QED
  BY <1>3, <1>4, <1>7, <1>8, <1>9, <1>10, <1>11

(* The longest of some lengths.                                            *)
LongestIn(S) == CHOOSE j \in S : \A k \in S : k <= j

LEMMA LongestIs ==
  ASSUME NEW n \in Nat, NEW S \in SUBSET (1..n), S # {}
  PROVE  /\ LongestIn(S) \in S /\ \A k \in S : k <= LongestIn(S)
         /\ \A j \in S : (\A k \in S : k <= j) => j = LongestIn(S)
<1>1. PICK bounds : bounds = {n - j : j \in S}
  OBVIOUS
<1>2. bounds \in SUBSET Nat /\ bounds # {}
  <2>1. \A j \in S : j \in Nat /\ j <= n /\ n - j \in Nat
    OBVIOUS
  <2> QED
    BY <1>1, <2>1
<1>3. PICK b \in bounds : \A c \in bounds : b <= c
  BY <1>2, LeastNatural
<1>4. PICK j \in S : b = n - j
  BY <1>1
<1>5. ASSUME NEW k \in S PROVE k <= j
  <2>1. n - k \in bounds
    BY <1>1
  <2>2. b <= n - k
    BY <1>3, <2>1
  <2> QED
    BY <1>4, <2>2
<1>6. LongestIn(S) \in S /\ \A k \in S : k <= LongestIn(S)
  BY <1>5 DEF LongestIn
<1>7. ASSUME NEW i \in S, \A k \in S : k <= i PROVE i = LongestIn(S)
  <2>1. i <= LongestIn(S) /\ LongestIn(S) <= i
    BY <1>6, <1>7
  <2>2. \A k \in S : k \in Int
    OBVIOUS
  <2>3. i \in Int /\ LongestIn(S) \in Int
    BY <1>6, <2>2
  <2> QED
    BY <2>1, <2>3
<1> QED
  BY <1>6, <1>7

(* The names that words may be joined to, and which are directories.       *)
NameAt(enc, run, j) == Append(run.path, NameOf(SubSeq(enc, run.at + 1, j)))
Dirs(enc, tree, run) ==
  {j \in (run.at + 1)..Len(enc) : AnswerAt(tree, NameAt(enc, run, j)) = "dir"}
Silent(enc, tree, run) ==
  \E j \in (run.at + 1)..Len(enc) :
    AnswerAt(tree, NameAt(enc, run, j)) = "unknown" /\ \A k \in Dirs(enc, tree, run) : k < j

LEMMA NextNameIs ==
  ASSUME NEW enc, NEW tree, NEW run
  PROVE  NextName(enc, tree, run) =
           IF run.says # "dir" \/ run.at = Len(enc) THEN run
           ELSE IF Silent(enc, tree, run) THEN Unknown
           ELSE IF Dirs(enc, tree, run) = {} THEN [says |-> "absent"]
           ELSE [says |-> "dir", at |-> LongestIn(Dirs(enc, tree, run)),
                 path |-> NameAt(enc, run, LongestIn(Dirs(enc, tree, run)))]
BY Zenon DEF NextName, Silent, Dirs, NameAt, LongestIn

(* An answer that is not heard stops the walk, or does not matter.         *)
LEMMA NextNameHears ==
  ASSUME NEW enc, Len(enc) \in Nat, NEW tree, NEW heard, NEW run,
         \A path : /\ AnswerAt(tree, path) # "unknown"
                   /\ AnswerAt(heard, path) \in {AnswerAt(tree, path), "unknown"},
         run.says = "dir" => run.at \in Nat
  PROVE  NextName(enc, heard, run) \in {NextName(enc, tree, run), Unknown}
<1>1. CASE run.says # "dir" \/ run.at = Len(enc)
  <2>1. NextName(enc, heard, run) = run /\ NextName(enc, tree, run) = run
    BY <1>1, NextNameIs
  <2> QED
    BY <2>1
<1>2. CASE ~(run.says # "dir" \/ run.at = Len(enc))
  <2>1. PICK D : D = Dirs(enc, tree, run)
    OBVIOUS
  <2>2. PICK H : H = Dirs(enc, heard, run)
    OBVIOUS
  <2>3. PICK at \in Nat : at = run.at
    BY <1>2
  <2>4. PICK n \in Nat : n = Len(enc)
    OBVIOUS
  <2>5. /\ D = {j \in (at + 1)..n : AnswerAt(tree, NameAt(enc, run, j)) = "dir"}
        /\ H = {j \in (at + 1)..n : AnswerAt(heard, NameAt(enc, run, j)) = "dir"}
    BY <2>1, <2>2, <2>3, <2>4 DEF Dirs
  <2>6. D \in SUBSET (1..n) /\ H \in SUBSET (1..n) /\ H \subseteq D
    BY <2>5
  <2>7. ~Silent(enc, tree, run)
    BY DEF Silent
  <2>8. CASE Silent(enc, heard, run)
    <3>1. NextName(enc, heard, run) = Unknown
      BY <1>2, <2>8, NextNameIs
    <3> QED
      BY <3>1
  <2>9. CASE ~Silent(enc, heard, run)
    <3>1. \A j \in (at + 1)..n : (\A k \in H : k < j) => AnswerAt(heard, NameAt(enc, run, j)) # "unknown"
      BY <2>2, <2>3, <2>4, <2>9 DEF Silent
    <3>2. \A j \in D : (\A k \in H : k < j) => j \in H
      BY <2>5, <3>1
    <3>3. CASE H = {}
      <4>1. D = {}
        BY <3>2, <3>3
      <4>2. NextName(enc, heard, run) = [says |-> "absent"] /\ NextName(enc, tree, run) = [says |-> "absent"]
        BY <1>2, <2>1, <2>2, <2>7, <2>9, <3>3, <4>1, NextNameIs
      <4> QED
        BY <4>2
    <3>4. CASE H # {}
      <4>1. PICK l : l = LongestIn(H)
        OBVIOUS
      <4>2. l \in H /\ \A k \in H : k <= l
        BY <2>6, <3>4, <4>1, LongestIs
      <4>3. l \in D /\ D # {}
        BY <2>6, <4>2
      <4>4. ASSUME NEW k \in D PROVE k <= l
        <5> SUFFICES ASSUME ~(k <= l) PROVE FALSE
          OBVIOUS
        <5>1. k \in Int /\ l \in Int
          BY <2>6, <4>2
        <5>2. \A j \in H : j < k
          <6> TAKE j \in H
          <6>1. j \in Int /\ j <= l
            BY <2>6, <4>2
          <6> QED
            BY <5>1, <6>1
        <5>3. k \in H
          BY <3>2, <5>2
        <5> QED
          BY <4>2, <5>3
      <4>5. l = LongestIn(D)
        BY <2>6, <4>3, <4>4, LongestIs
      <4>6. NextName(enc, heard, run) = [says |-> "dir", at |-> l, path |-> NameAt(enc, run, l)]
        BY <1>2, <2>2, <2>9, <3>4, <4>1, NextNameIs
      <4>7. NextName(enc, tree, run) = [says |-> "dir", at |-> l, path |-> NameAt(enc, run, l)]
        BY <1>2, <2>1, <2>7, <4>3, <4>5, NextNameIs
      <4> QED
        BY <4>6, <4>7
    <3> QED
      BY <3>3, <3>4
  <2> QED
    BY <2>8, <2>9
<1> QED
  BY <1>1, <1>2

LEMMA TwoParts ==
  ASSUME NEW T, NEW s \in Seq(T), NEW a \in Nat, NEW b \in (a + 1)..Len(s)
  PROVE  SubSeq(s, 1, a) \o SubSeq(s, a + 1, b) = SubSeq(s, 1, b)
<1>1. PICK p : p = SubSeq(s, 1, a)
  OBVIOUS
<1>2. PICK q : q = SubSeq(s, a + 1, b)
  OBVIOUS
<1>3. p \in Seq(T) /\ Len(p) = a /\ \A k \in 1..a : p[k] = s[k]
  BY <1>1
<1>4. q \in Seq(T) /\ Len(q) = b - a /\ \A k \in 1..(b - a) : q[k] = s[a + k]
  BY <1>2
<1>5. p \o q \in Seq(T) /\ Len(p \o q) = b
  <2>1. Len(p) + Len(q) = b
    BY <1>3, <1>4
  <2> QED
    BY <1>3, <1>4, <2>1
<1>6. ASSUME NEW k \in 1..b PROVE (p \o q)[k] = s[k]
  <2>1. CASE k <= a
    BY <1>3, <1>4, <2>1
  <2>2. CASE ~(k <= a)
    <3>1. PICK l \in 1..(b - a) : l = k - a
      BY <2>2
    <3>2. (p \o q)[Len(p) + l] = q[l]
      BY <1>3, <1>4, <3>1
    <3>3. Len(p) + l = k /\ a + l = k
      BY <1>3, <3>1
    <3> QED
      BY <1>4, <3>1, <3>2, <3>3
  <2> QED
    BY <2>1, <2>2
<1>7. p \o q = SubSeq(s, 1, b)
  <2>1. PICK r : r = SubSeq(s, 1, b)
    OBVIOUS
  <2>2. r \in Seq(T) /\ Len(r) = b /\ \A k \in 1..b : r[k] = s[k]
    BY <2>1
  <2> QED
    BY <1>5, <1>6, <2>1, <2>2
<1> QED
  BY <1>1, <1>2, <1>7

(* What a run that is in a directory after i words has found.              *)
InADir(enc, Name, n, i, run) ==
  /\ run.at \in i..n /\ run.path \in Seq(Name)
  /\ Encode(run.path) = SubSeq(enc, 1, run.at)
MarksApart(enc, Name) ==
  enc \in Seq(Range(enc)) /\ Range(enc) \intersect Mark = {} /\ Name = Seq(Range(enc) \union {Dash})

LEMMA NextNameGoesOn ==
  ASSUME NEW enc, NEW tree, NEW n \in Nat, Len(enc) = n, NEW Name, MarksApart(enc, Name),
         NEW i \in 1..n, NEW run, run.says = "dir" => InADir(enc, Name, n, i - 1, run),
         NextName(enc, tree, run).says = "dir"
  PROVE  /\ InADir(enc, Name, n, i, NextName(enc, tree, run))
         /\ \/ NextName(enc, tree, run) = run
            \/ AnswerAt(tree, NextName(enc, tree, run).path) = "dir"
<1>1. enc \in Seq(Range(enc)) /\ Range(enc) \intersect Mark = {} /\ Name = Seq(Range(enc) \union {Dash})
  BY DEF MarksApart
<1>2. PICK next : next = NextName(enc, tree, run)
  OBVIOUS
<1>3. run.says = "dir" => /\ run.at \in (i - 1)..n /\ run.path \in Seq(Name)
                          /\ Encode(run.path) = SubSeq(enc, 1, run.at)
  BY DEF InADir
<1>4. next.says = "dir"
  BY <1>2
<1>5. /\ next.at \in i..n /\ next.path \in Seq(Name)
      /\ Encode(next.path) = SubSeq(enc, 1, next.at)
      /\ next = run \/ AnswerAt(tree, next.path) = "dir"
  <2>1. PICK D : D = Dirs(enc, tree, run)
    OBVIOUS
  <2>2. run.says = "dir"
    BY <1>2, <1>4, NextNameIs DEF Unknown
  <2>3. PICK at \in (i - 1)..n : at = run.at
    BY <1>3, <2>2
  <2>4. CASE run.at = n
    <3>1. next = run
      BY <1>2, <2>2, <2>4, NextNameIs
    <3> QED
      BY <1>3, <2>2, <2>4, <3>1
  <2>5. CASE run.at # n
    <3>1. D = {j \in (at + 1)..n : AnswerAt(tree, NameAt(enc, run, j)) = "dir"}
      BY <2>1, <2>3 DEF Dirs
    <3>2. PICK l : l = LongestIn(D)
      OBVIOUS
    <3>3. D # {} /\ next = [says |-> "dir", at |-> l, path |-> NameAt(enc, run, l)]
      <4>1. Unknown.says # "dir" /\ [says |-> "absent"].says # "dir"
        BY DEF Unknown
      <4> QED
        BY <1>2, <1>4, <2>1, <2>2, <2>5, <3>2, <4>1, NextNameIs
    <3>4. l \in D
      <4>1. D \in SUBSET (1..n)
        BY <3>1
      <4> QED
        BY <3>2, <3>3, <4>1, LongestIs
    <3>5. l \in (at + 1)..n /\ AnswerAt(tree, NameAt(enc, run, l)) = "dir"
      BY <3>1, <3>4
    <3>6. PICK words : words = SubSeq(enc, at + 1, l)
      OBVIOUS
    <3>7. words \in Seq(Range(enc)) /\ Len(words) = l - at /\ words # <<>>
      <4>1. PICK T : T = Range(enc)
        OBVIOUS
      <4>2. enc \in Seq(T)
        BY <1>1, <4>1
      <4>3. at + 1 \in 1..n /\ l \in (at + 1)..n /\ at \in Nat
        BY <2>3, <3>5
      <4>4. words \in Seq(T) /\ Len(words) = l - at /\ words # <<>>
        BY <3>6, <4>2, <4>3
      <4> QED
        BY <4>1, <4>4
    <3>8. WordsOf(NameOf(words)) = words
      BY <1>1, <3>7, NamesAreTheirWords
    <3>9. NameOf(words) \in Name
      <4>1. PICK m \in Nat \ {0} : m = Len(words) /\ DOMAIN words = 1..m
        BY <3>7
      <4>2. PICK S : S = Range(enc) \union {Dash}
        OBVIOUS
      <4>3. \A k \in 1..(2 * m - 1) : k % 2 = 1 => (k + 1) \div 2 \in 1..m
        BY <4>1
      <4>4. \A k \in 1..m : words[k] \in S
        BY <3>7, <4>1, <4>2
      <4>5. NameOf(words) \in [1..(2 * m - 1) -> S]
        BY <4>1, <4>2, <4>3, <4>4 DEF NameOf
      <4>6. 2 * m - 1 \in Nat
        BY <4>1
      <4>7. NameOf(words) \in Seq(S)
        BY <4>5, <4>6
      <4> QED
        BY <1>1, <4>2, <4>7
    <3>10. next.at = l /\ next.path = Append(run.path, NameOf(words))
      BY <2>3, <3>3, <3>6 DEF NameAt
    <3>11. next.path \in Seq(Name)
      BY <1>3, <2>2, <3>9, <3>10
    <3>12. Encode(next.path) = Encode(run.path) \o words
      BY <1>1, <1>3, <2>2, <3>8, <3>9, <3>10, EncodeOneMore
    <3>13. SubSeq(enc, 1, at) \o words = SubSeq(enc, 1, l)
      <4>1. PICK T : T = Range(enc)
        OBVIOUS
      <4>2. enc \in Seq(T)
        BY <1>1, <4>1
      <4>3. at \in Nat /\ l \in (at + 1)..Len(enc)
        BY <2>3, <3>5
      <4> QED
        BY <3>6, <4>2, <4>3, TwoParts
    <3>14. next.at \in i..n
      BY <2>3, <3>5, <3>10
    <3>15. Encode(next.path) = SubSeq(enc, 1, next.at)
      <4>1. Encode(run.path) = SubSeq(enc, 1, at)
        BY <1>3, <2>2, <2>3
      <4> QED
        BY <3>10, <3>12, <3>13, <4>1
    <3>16. NameAt(enc, run, l) = next.path
      BY <3>3, <3>10
    <3>17. AnswerAt(tree, next.path) = "dir"
      BY <3>5, <3>16
    <3> QED
      BY <3>11, <3>14, <3>15, <3>17, Zenon
  <2> QED
    BY <2>4, <2>5
<1> QED
  BY <1>2, <1>5 DEF InADir

LEMMA NamesAreHeard ==
  ASSUME NEW enc, NEW tree, NEW deaf, NEW n \in Nat, Len(enc) = n, DOMAIN enc = 1..n, n # 0,
         enc \in Seq(Range(enc)), Range(enc) \intersect Mark = {},
         \A path \in DOMAIN tree : tree[path] \in Told
  PROVE  DecodesAreFacts(enc, tree, deaf)
<1>4. PICK other : other = [path \in DOMAIN tree |-> Heard(tree[path], path, deaf)]
  OBVIOUS
<1>5. \A path : /\ AnswerAt(tree, path) # "unknown"
                /\ AnswerAt(other, path) \in {AnswerAt(tree, path), "unknown"}
  <2> TAKE path
  <2>1. CASE path \in DOMAIN tree
    <3>1. tree[path] # "unknown"
      BY <2>1 DEF Told, Present
    <3>2. other[path] \in {tree[path], "unknown"} /\ path \in DOMAIN other
      BY <1>4, <2>1 DEF Heard
    <3> QED
      BY <2>1, <3>1, <3>2 DEF AnswerAt
  <2>2. CASE path \notin DOMAIN tree
    BY <1>4, <2>2 DEF AnswerAt
  <2> QED
    BY <2>1, <2>2
<1>6. PICK acc : acc = AtRoot
  OBVIOUS
<1>7a. PICK p : p = DecodeOf(enc, tree)
  OBVIOUS
<1>7b. PICK q : q = DecodeOf(enc, other)
  OBVIOUS
<1>8. PICK f : IsFold(f, n, p, acc, enc) /\ Decode(enc, tree) = UpTo(f, n)
  BY <1>6, <1>7a, DecodeFolds
<1>9. PICK g : IsFold(g, n, q, acc, enc) /\ Decode(enc, other) = UpTo(g, n)
  BY <1>6, <1>7b, DecodeFolds
<1>10. UpTo(f, 0) = AtRoot /\ UpTo(g, 0) = AtRoot
  BY <1>6, <1>8, <1>9, FoldBase
<1>11. ASSUME NEW i \in 1..n
       PROVE  /\ UpTo(f, i) = NextName(enc, tree, UpTo(f, i - 1))
              /\ UpTo(g, i) = NextName(enc, other, UpTo(g, i - 1))
  <2>1. PICK h \in Nat : h = i - 1 /\ i = h + 1
    OBVIOUS
  <2>2. UpTo(f, i) = Takes(p, UpTo(f, h), enc[i])
    BY <1>8, <2>1, FoldStep
  <2>3. UpTo(g, i) = Takes(q, UpTo(g, h), enc[i])
    BY <1>9, <2>1, FoldStep
  <2>4. \A acc2 : Takes(p, acc2, enc[i]) = NextName(enc, tree, acc2)
    BY <1>7a DEF Takes, DecodeOf
  <2>5. \A acc2 : Takes(q, acc2, enc[i]) = NextName(enc, other, acc2)
    BY <1>7b DEF Takes, DecodeOf
  <2> QED
    BY <2>1, <2>2, <2>3, <2>4, <2>5
<1>12. PICK Name : Name = Seq(Range(enc) \union {Dash})
  OBVIOUS
<1> DEFINE Known(i) == UpTo(f, i).says = "dir" =>
                         /\ UpTo(f, i).at \in i..n /\ UpTo(f, i).path \in Seq(Name)
                         /\ Encode(UpTo(f, i).path) = SubSeq(enc, 1, UpTo(f, i).at)
                         /\ i # 0 => AnswerAt(tree, UpTo(f, i).path) = "dir"
           Good(i) == Known(i) /\ UpTo(g, i) \in {UpTo(f, i), Unknown}
<1>13. Good(0)
  <2>1. AtRoot.at = 0 /\ AtRoot.path = <<>>
    BY DEF AtRoot
  <2>2. SubSeq(enc, 1, 0) = <<>> /\ 0 \in 0..n /\ <<>> \in Seq(Name)
    OBVIOUS
  <2> QED
    BY <1>10, <2>1, <2>2, EncodeNothing
<1>14. ASSUME NEW i \in 1..n, Good(i - 1)
       PROVE  Good(i)
  <2>1. PICK r : r = UpTo(f, i - 1)
    OBVIOUS
  <2>2. PICK next : next = NextName(enc, tree, r)
    OBVIOUS
  <2>3. r.says = "dir" => /\ r.at \in (i - 1)..n /\ r.path \in Seq(Name)
                          /\ Encode(r.path) = SubSeq(enc, 1, r.at)
                          /\ i - 1 # 0 => AnswerAt(tree, r.path) = "dir"
    BY <1>14, <2>1
  <2>4. UpTo(f, i) = next
    BY <1>11, <2>1, <2>2
  <2>5. next.says = "dir" => /\ next.at \in i..n /\ next.path \in Seq(Name)
                             /\ Encode(next.path) = SubSeq(enc, 1, next.at)
                             /\ next = r \/ AnswerAt(tree, next.path) = "dir"
    <3>1. MarksApart(enc, Name)
      BY <1>12 DEF MarksApart
    <3>2. r.says = "dir" => InADir(enc, Name, n, i - 1, r)
      BY <2>3 DEF InADir
    <3>3. ASSUME next.says = "dir"
          PROVE  InADir(enc, Name, n, i, next) /\ (next = r \/ AnswerAt(tree, next.path) = "dir")
      BY <2>2, <3>1, <3>2, <3>3, NextNameGoesOn, Zenon
    <3> QED
      BY <3>3 DEF InADir
  <2>6. next.says = "dir" => AnswerAt(tree, next.path) = "dir"
    <3> SUFFICES ASSUME next.says = "dir", next = r PROVE AnswerAt(tree, next.path) = "dir"
      BY <2>5
    <3>1. i - 1 # 0
      <4> SUFFICES ASSUME i - 1 = 0 PROVE FALSE
        OBVIOUS
      <4>1. r = AtRoot
        BY <1>10, <2>1
      <4>2. r.at = 0
        BY <4>1 DEF AtRoot
      <4> QED
        BY <2>5, <4>2
    <3> QED
      BY <2>3, <3>1
  <2>7. Known(i)
    BY <2>4, <2>5, <2>6
  <2>8. UpTo(g, i) \in {UpTo(f, i), Unknown}
    <3>1. CASE UpTo(g, i - 1) = r
      <4>1. UpTo(g, i) = NextName(enc, other, r)
        BY <1>11, <3>1
      <4>2. r.says = "dir" => r.at \in Nat
        BY <2>3
      <4>3. NextName(enc, other, r) \in {NextName(enc, tree, r), Unknown}
        BY <1>5, <4>2, NextNameHears
      <4> QED
        BY <2>2, <2>4, <4>1, <4>3
    <3>2. CASE UpTo(g, i - 1) = Unknown
      <4>1. UpTo(g, i) = NextName(enc, other, Unknown)
        BY <1>11, <3>2
      <4>2. NextName(enc, other, Unknown) = Unknown
        BY NextNameIs DEF Unknown
      <4> QED
        BY <4>1, <4>2
    <3> QED
      BY <1>14, <2>1, <3>1, <3>2
  <2> QED
    BY <2>7, <2>8
<1>15. Good(n)
  <2> DEFINE Bad == {i \in 0..n : ~Good(i)}
  <2>a. n \in 0..n
    OBVIOUS
  <2> HIDE DEF Good
  <2> SUFFICES ASSUME Bad # {} PROVE FALSE
    BY <2>a
  <2>0. Bad \in SUBSET Nat
    OBVIOUS
  <2>1. PICK i \in Bad : \A l \in Bad : i <= l
    <3> HIDE DEF Bad
    <3> QED
      BY <2>0, LeastNatural
  <2>2. i \in 1..n /\ i - 1 \in 0..n /\ i - 1 \notin Bad
    BY <1>13, <2>1
  <2>3. Good(i - 1)
    BY <2>2
  <2> QED
    BY <1>14, <2>1, <2>2, <2>3
<1>16. PICK told : told = Decode(enc, tree)
  OBVIOUS
<1>17. told.says = "dir" => AnswerAt(tree, told.path) = "dir" /\ Encode(told.path) = enc
  <2> SUFFICES ASSUME told.says = "dir" PROVE AnswerAt(tree, told.path) = "dir" /\ Encode(told.path) = enc
    OBVIOUS
  <2>1. /\ told.at \in n..n /\ Encode(told.path) = SubSeq(enc, 1, told.at)
        /\ AnswerAt(tree, told.path) = "dir"
    BY <1>8, <1>15, <1>16
  <2>2. told.at = n /\ SubSeq(enc, 1, n) = enc
    BY <2>1
  <2> QED
    BY <2>1, <2>2
<1>18. told.says = "dir" => AnswerAt(tree, told.path) = "dir" /\ enc \in ClaudeProjectDirs(told.path, {})
  BY <1>17 DEF ClaudeProjectDirs
<1>19. OnlyWhatAllWouldSay(Decode(enc, other), told)
  BY <1>8, <1>9, <1>15, <1>16 DEF OnlyWhatAllWouldSay
<1> QED
  BY <1>4, <1>16, <1>18, <1>19, Zenon DEF DecodesAreFacts

LEMMA DecodesAre ==
  ASSUME NEW d, IsName(d)
  PROVE  DecodesAreFacts(d.enc, d.tree, d.deaf)
<1>1. PICK enc : enc = d.enc
  OBVIOUS
<1>2. PICK tree : tree = d.tree
  OBVIOUS
<1>3. /\ enc \in Seq(Range(enc)) /\ enc # <<>> /\ Range(enc) \intersect Mark = {}
      /\ \A path \in DOMAIN tree : tree[path] \in Told
  BY <1>1, <1>2 DEF IsName
<1>4. Len(enc) \in Nat /\ DOMAIN enc = 1..Len(enc) /\ Len(enc) # 0
  BY <1>3
<1>5. DecodesAreFacts(enc, tree, d.deaf)
  BY <1>3, <1>4, NamesAreHeard
<1> QED
  BY <1>1, <1>2, <1>5

(* WalksConcludeFromAnswers, for climbs of any length and names of any     *)
(* number of words.                                                        *)
THEOREM WalksConclude == AnswersSpec => []WalksConcludeFromAnswers
<1>1. AskedInv => WalksConcludeFromAnswers
  BY AnswersAssumption, ClimbsAre, DecodesAre DEF AskedInv, WalksConcludeFromAnswers
<1> QED
  BY <1>1, InitAsks, NextAsks, PTL DEF AnswersSpec

-----------------------------------------------------------------------------
(* Directories.                                                            *)
Names == Seq(DOMAIN Lower)
LowerAll(names) == [i \in DOMAIN names |-> Lower[names[i]]]

(* The drive path that a table leads to, if it does.                       *)
Mapped(names, t) == MntToWindows(Bare(names), t)

LEMMA PrefixIs ==
  ASSUME NEW S, NEW p \in Seq(S), NEW s \in Seq(S)
  PROVE  IsPrefix(p, s) <=> Len(p) <= Len(s) /\ \A k \in 1..Len(p) : p[k] = s[k]
<1>1. ASSUME Len(p) <= Len(s)
      PROVE  SubSeq(p, 1, Len(p)) = SubSeq(s, 1, Len(p)) <=> \A k \in 1..Len(p) : p[k] = s[k]
  <2>1. PICK q : q = SubSeq(p, 1, Len(p))
    OBVIOUS
  <2>2. PICK r : r = SubSeq(s, 1, Len(p))
    OBVIOUS
  <2>3. q \in Seq(S) /\ Len(q) = Len(p) /\ \A k \in 1..Len(p) : q[k] = p[k]
    BY <2>1
  <2>4. r \in Seq(S) /\ Len(r) = Len(p) /\ \A k \in 1..Len(p) : r[k] = s[k]
    BY <1>1, <2>2
  <2>5. q = r <=> \A k \in 1..Len(p) : p[k] = s[k]
    BY <2>3, <2>4
  <2> QED
    BY <2>1, <2>2, <2>5
<1> QED
  BY <1>1 DEF IsPrefix

LEMMA PrefixesAgree ==
  ASSUME NEW S, NEW p \in Seq(S), NEW q \in Seq(S), NEW s \in Seq(S),
         IsPrefix(p, s), IsPrefix(q, s)
  PROVE  IsPrefix(p, q) \/ IsPrefix(q, p)
<1>1. Len(p) <= Len(s) /\ \A k \in 1..Len(p) : p[k] = s[k]
  BY PrefixIs
<1>2. Len(q) <= Len(s) /\ \A k \in 1..Len(q) : q[k] = s[k]
  BY PrefixIs
<1>3. CASE Len(p) <= Len(q)
  <2>1. \A k \in 1..Len(p) : p[k] = q[k]
    BY <1>1, <1>2, <1>3
  <2> QED
    BY <1>3, <2>1, PrefixIs
<1>4. CASE Len(q) <= Len(p)
  <2>1. \A k \in 1..Len(q) : q[k] = p[k]
    BY <1>1, <1>2, <1>4
  <2> QED
    BY <1>4, <2>1, PrefixIs
<1> QED
  BY <1>3, <1>4

(* The first mount point above a path leads to its place on a drive.       *)
LEMMA MappedIs ==
  ASSUME NEW t, IsTable(t), NEW names \in Names, Nothing \notin ASpelling
  PROVE  /\ (\A i \in DOMAIN t : ~IsPrefix(t[i].at, names)) => Mapped(names, t) = Nothing
         /\ (\E i \in DOMAIN t : IsPrefix(t[i].at, names)) =>
              \E i \in DOMAIN t :
                /\ IsPrefix(t[i].at, names) /\ \A k \in DOMAIN t : k < i => ~IsPrefix(t[k].at, names)
                /\ Mapped(names, t) =
                     OnDrive(t[i].drive, SubSeq(names, Len(t[i].at) + 1, Len(names)))
<1>1. t \in Seq(AMount)
  BY DEF IsTable
<1>2. DOMAIN t = 1..Len(t) /\ Len(t) \in Nat
  BY <1>1
<1>3. PICK I : I = {i \in 1..Len(t) : IsPrefix(t[i].at, names)}
  OBVIOUS
<1>4. PICK at : at = IF I # {} THEN Min(I) ELSE 0
  OBVIOUS
<1>5. Mapped(names, t) =
        IF at = 0 THEN Nothing ELSE OnDrive(t[at].drive, SubSeq(names, Len(t[at].at) + 1, Len(names)))
  <2>1. Bare(names).ns = "bare" /\ Bare(names).names = names
    BY DEF Bare, Spelling
  <2> QED
    BY <1>3, <1>4, <2>1, Zenon DEF Mapped, MntToWindows, SelectInSeq
<1>6. I \in SUBSET Nat
  BY <1>3
<1>7. I # {} => at \in I /\ \A k \in I : at <= k
  BY <1>4, <1>6, MinIs
<1>8. ASSUME \A i \in DOMAIN t : ~IsPrefix(t[i].at, names) PROVE Mapped(names, t) = Nothing
  <2>1. I = {}
    BY <1>2, <1>3, <1>8
  <2> QED
    BY <1>4, <1>5, <2>1
<1>9. ASSUME NEW j \in DOMAIN t, IsPrefix(t[j].at, names)
      PROVE  \E i \in DOMAIN t :
                /\ IsPrefix(t[i].at, names) /\ \A k \in DOMAIN t : k < i => ~IsPrefix(t[k].at, names)
                /\ Mapped(names, t) =
                     OnDrive(t[i].drive, SubSeq(names, Len(t[i].at) + 1, Len(names)))
  <2>1. j \in I
    BY <1>2, <1>3, <1>9
  <2>2. at \in I /\ \A k \in I : at <= k
    BY <1>7, <2>1
  <2>3. at \in DOMAIN t /\ at # 0 /\ at \in Nat /\ IsPrefix(t[at].at, names)
    BY <1>2, <1>3, <2>2
  <2>4. ASSUME NEW k \in DOMAIN t, k < at, IsPrefix(t[k].at, names) PROVE FALSE
    <3>1. k \in I /\ k \in Nat
      BY <1>2, <1>3, <2>4
    <3> QED
      BY <2>2, <2>3, <2>4, <3>1
  <2>5. Mapped(names, t) = OnDrive(t[at].drive, SubSeq(names, Len(t[at].at) + 1, Len(names)))
    BY <1>5, <2>3
  <2> QED
    BY <2>3, <2>4, <2>5
<1> QED
  BY <1>8, <1>9

LEMMA MappedIsOnADrive ==
  ASSUME NEW t, IsTable(t), NEW names \in Names, Nothing \notin ASpelling
  PROVE  /\ Mapped(names, t) # Nothing <=> \E i \in DOMAIN t : IsPrefix(t[i].at, names)
         /\ Mapped(names, t) # Nothing => \E i \in DOMAIN t :
              /\ IsPrefix(t[i].at, names) /\ \A k \in DOMAIN t : k < i => ~IsPrefix(t[k].at, names)
              /\ Mapped(names, t) = OnDrive(t[i].drive, SubSeq(names, Len(t[i].at) + 1, Len(names)))
              /\ t[i].drive \in Drive /\ t[i].at \in Names /\ t[i].at # <<>>
              /\ SubSeq(names, Len(t[i].at) + 1, Len(names)) \in Names
<1>1. t \in Seq(AMount)
  BY DEF IsTable
<1>2. \A i \in DOMAIN t : t[i].drive \in Drive /\ t[i].at \in Names /\ t[i].at # <<>>
  <2> TAKE i \in DOMAIN t
  <2>1. t[i] \in AMount
    BY <1>1
  <2>2. PICK S : S = Names \ {<<>>}
    OBVIOUS
  <2>3. t[i] \in [at : S, drive : Drive]
    BY <2>1, <2>2 DEF AMount, Names
  <2> QED
    BY <2>2, <2>3
<1>3. \A i \in DOMAIN t : IsPrefix(t[i].at, names) =>
        SubSeq(names, Len(t[i].at) + 1, Len(names)) \in Names
  <2> TAKE i \in DOMAIN t
  <2>1. PICK a \in Nat : a = Len(t[i].at)
    BY <1>2 DEF Names
  <2>2. SubSeq(names, a + 1, Len(names)) \in Names
    BY DEF Names
  <2> QED
    BY <2>1, <2>2
<1>4. \A d \in Drive, rest \in Names : OnDrive(d, rest) # Nothing
  BY DEF OnDrive, Spelling, ASpelling, Names
<1>5. ASSUME NEW j \in DOMAIN t, IsPrefix(t[j].at, names)
      PROVE  /\ Mapped(names, t) # Nothing
             /\ \E i \in DOMAIN t :
              /\ IsPrefix(t[i].at, names) /\ \A k \in DOMAIN t : k < i => ~IsPrefix(t[k].at, names)
              /\ Mapped(names, t) = OnDrive(t[i].drive, SubSeq(names, Len(t[i].at) + 1, Len(names)))
              /\ t[i].drive \in Drive /\ t[i].at \in Names /\ t[i].at # <<>>
              /\ SubSeq(names, Len(t[i].at) + 1, Len(names)) \in Names
  <2>1. PICK i \in DOMAIN t :
          /\ IsPrefix(t[i].at, names) /\ \A k \in DOMAIN t : k < i => ~IsPrefix(t[k].at, names)
          /\ Mapped(names, t) = OnDrive(t[i].drive, SubSeq(names, Len(t[i].at) + 1, Len(names)))
    BY <1>5, MappedIs
  <2> QED
    BY <1>2, <1>3, <1>4, <2>1
<1>6. (\A i \in DOMAIN t : ~IsPrefix(t[i].at, names)) => Mapped(names, t) = Nothing
  BY MappedIs
<1> QED
  BY <1>5, <1>6

TablesOf(w) == {w.table} \union {w.auto[d] : d \in Distro}

LEMMA TablesAre ==
  ASSUME NEW w, IsWorld(w), NEW t \in TablesOf(w), NEW u \in TablesOf(w)
  PROVE  IsTable(t) /\ (t = u \/ t = <<>> \/ u = <<>> \/ Apart(t, u))
<1>1. IsTable(<<>>)
  BY DEF IsTable
<1>2. t = <<>> \/ \E d \in Distro : t = w.auto[d]
  BY DEF IsWorld, TablesOf
<1>3. u = <<>> \/ \E d \in Distro : u = w.auto[d]
  BY DEF IsWorld, TablesOf
<1>4. \A d, e \in Distro : IsTable(w.auto[d]) /\ (w.auto[d] = w.auto[e] \/ Apart(w.auto[d], w.auto[e]))
  BY DEF IsWorld
<1> QED
  BY <1>1, <1>2, <1>3, <1>4

(* Two tables never lead from one path to two places.                      *)
LEMMA TablesAgree ==
  ASSUME NEW w, IsWorld(w), NEW t \in TablesOf(w), NEW u \in TablesOf(w), NEW names \in Names,
         Nothing \notin ASpelling, Mapped(names, t) # Nothing, Mapped(names, u) # Nothing
  PROVE  Mapped(names, t) = Mapped(names, u)
<1>1. IsTable(t) /\ IsTable(u) /\ (t = u \/ t = <<>> \/ u = <<>> \/ Apart(t, u))
  BY TablesAre
<1>2. PICK i \in DOMAIN t :
        /\ IsPrefix(t[i].at, names) /\ t[i].at \in Names
        /\ Mapped(names, t) = OnDrive(t[i].drive, SubSeq(names, Len(t[i].at) + 1, Len(names)))
  BY <1>1, MappedIsOnADrive
<1>3. PICK j \in DOMAIN u :
        /\ IsPrefix(u[j].at, names) /\ u[j].at \in Names
        /\ Mapped(names, u) = OnDrive(u[j].drive, SubSeq(names, Len(u[j].at) + 1, Len(names)))
  BY <1>1, MappedIsOnADrive
<1>4. t # <<>> /\ u # <<>>
  BY <1>2, <1>3
<1>5. CASE Apart(t, u)
  <2>1. IsPrefix(t[i].at, u[j].at) \/ IsPrefix(u[j].at, t[i].at)
    BY <1>2, <1>3, PrefixesAgree DEF Names
  <2>2. t[i] = u[j]
    BY <1>5, <2>1 DEF Apart
  <2> QED
    BY <1>2, <1>3, <2>2
<1> QED
  BY <1>1, <1>4, <1>5

LEMMA LowerIs ==
  ASSUME AnswersAssumption, NEW names \in Names
  PROVE  /\ LowerAll(names) \in Names /\ Len(LowerAll(names)) = Len(names)
         /\ \A k \in 1..Len(names) : LowerAll(names)[k] = Lower[names[k]]
<1>1. PICK S : S = DOMAIN Lower
  OBVIOUS
<1>2. Lower \in [S -> S] /\ names \in Seq(S)
  BY <1>1 DEF AnswersAssumption, Names
<1>3. PICK n \in Nat : n = Len(names) /\ DOMAIN names = 1..n
  BY <1>2
<1>4. \A k \in 1..n : Lower[names[k]] \in S
  BY <1>2, <1>3
<1>5. LowerAll(names) = [k \in 1..n |-> Lower[names[k]]]
  BY <1>3 DEF LowerAll
<1>6. LowerAll(names) \in Seq(S) /\ Len(LowerAll(names)) = n
  BY <1>3, <1>4, <1>5
<1> QED
  BY <1>1, <1>3, <1>5, <1>6 DEF Names

(* Paths that differ in the case of their names only, below /mnt.          *)
Alike(n, m) ==
  n \in Names /\ m \in Names /\ MountShaped(n) /\ MountShaped(m) /\ LowerAll(n) = LowerAll(m)

LEMMA AlikeBelowOnePoint ==
  ASSUME AnswersAssumption, NEW n, NEW m, Alike(n, m), NEW at \in Names,
         MountShaped(at) => Len(at) = 2, IsPrefix(at, n)
  PROVE  IsPrefix(at, m)
<1>1. /\ n \in Names /\ m \in Names /\ Len(n) = Len(m) /\ Len(n) >= 2
      /\ \A k \in 1..Len(n) : Lower[n[k]] = Lower[m[k]]
      /\ n[1] = "mnt" /\ m[1] = "mnt" /\ n[2] \in Drive /\ m[2] \in Drive
  <2>1. Len(n) = Len(m)
    BY LowerIs DEF Alike
  <2>2. \A k \in 1..Len(n) : Lower[n[k]] = Lower[m[k]]
    BY <2>1, LowerIs DEF Alike
  <2> QED
    BY <2>1, <2>2 DEF Alike, MountShaped
<1>2. n[2] = m[2]
  BY <1>1 DEF AnswersAssumption
<1>3. Len(at) <= Len(n) /\ \A k \in 1..Len(at) : at[k] = n[k]
  BY <1>1, PrefixIs DEF Names
<1>4. Len(at) <= 2
  <2> SUFFICES ASSUME ~(Len(at) <= 2) PROVE FALSE
    OBVIOUS
  <2>1. Len(at) \in Nat
    BY DEF Names
  <2>2. at[1] = "mnt" /\ at[2] \in Drive
    BY <1>1, <1>3, <2>1
  <2>3. Len(at) >= 2
    BY <2>1
  <2>4. MountShaped(at)
    BY <2>2, <2>3 DEF MountShaped
  <2>5. Len(at) = 2
    BY <2>4, Zenon
  <2> QED
    BY <2>5
<1>5. \A k \in 1..Len(at) : at[k] = m[k]
  <2>1. Len(at) \in Nat
    BY DEF Names
  <2> QED
    BY <1>1, <1>2, <1>3, <1>4, <2>1
<1> QED
  BY <1>1, <1>3, <1>5, PrefixIs DEF Names

LEMMA AlikeOnOneDrive ==
  ASSUME AnswersAssumption, NEW n, NEW m, Alike(n, m), NEW t, IsTable(t), Mapped(n, t) # Nothing
  PROVE  Mapped(m, t) # Nothing /\ Folded(Mapped(n, t)) = Folded(Mapped(m, t))
<1>0. Nothing \notin ASpelling
  BY DEF AnswersAssumption
<1>1. n \in Names /\ m \in Names /\ Alike(m, n)
  BY DEF Alike
<1>2. \A i \in DOMAIN t : t[i].at \in Names /\ (MountShaped(t[i].at) => Len(t[i].at) = 2)
  <2>1. \A i \in DOMAIN t : t[i] \in AMount
    BY DEF IsTable
  <2>2. PICK S : S = Names \ {<<>>}
    OBVIOUS
  <2>3. \A i \in DOMAIN t : t[i] \in [at : S, drive : Drive]
    BY <2>1, <2>2 DEF AMount, Names
  <2> QED
    BY <2>2, <2>3 DEF IsTable
<1>3. \A i \in DOMAIN t : IsPrefix(t[i].at, n) <=> IsPrefix(t[i].at, m)
  BY <1>1, <1>2, AlikeBelowOnePoint
<1>4. PICK i \in DOMAIN t :
        /\ IsPrefix(t[i].at, n) /\ \A k \in DOMAIN t : k < i => ~IsPrefix(t[k].at, n)
        /\ Mapped(n, t) = OnDrive(t[i].drive, SubSeq(n, Len(t[i].at) + 1, Len(n)))
        /\ SubSeq(n, Len(t[i].at) + 1, Len(n)) \in Names
  BY <1>0, <1>1, MappedIsOnADrive
<1>5. Mapped(m, t) # Nothing
  BY <1>0, <1>1, <1>3, <1>4, MappedIsOnADrive
<1>6. PICK j \in DOMAIN t :
        /\ IsPrefix(t[j].at, m) /\ \A k \in DOMAIN t : k < j => ~IsPrefix(t[k].at, m)
        /\ Mapped(m, t) = OnDrive(t[j].drive, SubSeq(m, Len(t[j].at) + 1, Len(m)))
        /\ SubSeq(m, Len(t[j].at) + 1, Len(m)) \in Names
  BY <1>0, <1>1, <1>5, MappedIsOnADrive
<1>7. i = j
  <2>1. i \in Nat /\ j \in Nat
    BY DEF IsTable
  <2> QED
    BY <1>3, <1>4, <1>6, <2>1
<1>8. PICK a \in Nat : a = Len(t[i].at)
  BY <1>2 DEF Names
<1>9. LowerAll(SubSeq(n, a + 1, Len(n))) = LowerAll(SubSeq(m, a + 1, Len(m)))
  <2>1. Len(n) = Len(m) /\ Len(n) \in Nat /\ \A k \in 1..Len(n) : Lower[n[k]] = Lower[m[k]]
    <3>1. Len(n) = Len(m)
      BY <1>1, LowerIs DEF Alike
    <3>2. \A k \in 1..Len(n) : Lower[n[k]] = Lower[m[k]]
      BY <1>1, <3>1, LowerIs DEF Alike
    <3> QED
      BY <1>1, <3>1, <3>2 DEF Names
  <2>2. PICK p : p = SubSeq(n, a + 1, Len(n))
    OBVIOUS
  <2>3. PICK q : q = SubSeq(m, a + 1, Len(m))
    OBVIOUS
  <2>4. DOMAIN p = 1..(Len(n) - a) /\ \A k \in 1..(Len(n) - a) : p[k] = n[a + k]
    BY <1>1, <2>2 DEF Names
  <2>5. DOMAIN q = 1..(Len(n) - a) /\ \A k \in 1..(Len(n) - a) : q[k] = m[a + k]
    BY <1>1, <2>1, <2>3 DEF Names
  <2>6. \A k \in 1..(Len(n) - a) : Lower[p[k]] = Lower[q[k]]
    BY <2>1, <2>4, <2>5
  <2>7. LowerAll(p) = LowerAll(q)
    BY <2>4, <2>5, <2>6 DEF LowerAll
  <2> QED
    BY <2>2, <2>3, <2>7
<1>10. \A d, r : Folded(OnDrive(d, r)) = OnDrive(d, LowerAll(r))
  BY DEF Folded, OnDrive, Spelling, LowerAll
<1> QED
  BY <1>4, <1>5, <1>6, <1>7, <1>8, <1>9, <1>10

LEMMA NothingLeadsAway ==
  ASSUME NEW s, NEW t, s.ns # "bare"
  PROVE  MntToWindows(s, t) = Nothing
<1>1. PICK I : I = {i \in 1..Len(t) : s.ns = "bare" /\ IsPrefix(t[i].at, s.names)}
  OBVIOUS
<1>2. PICK at : at = IF I # {} THEN Min(I) ELSE 0
  OBVIOUS
<1>3. MntToWindows(s, t) =
        IF at = 0 THEN Nothing ELSE OnDrive(t[at].drive, SubSeq(s.names, Len(t[at].at) + 1, Len(s.names)))
  BY <1>1, <1>2, Zenon DEF MntToWindows, SelectInSeq
<1> QED
  BY <1>1, <1>2, <1>3

-----------------------------------------------------------------------------
(* The key of a spelling and its place.                                    *)
HomeOfPath(s, home) == IF s.ns = "bare" THEN home ELSE s.of

LEMMA SpellingIs ==
  ASSUME NEW s, IsSpelling(s)
  PROVE  /\ s.names \in Names
         /\ s = [ns |-> s.ns, of |-> s.of, names |-> s.names]
         /\ s.ns \in {"bare", "drive", "wsl", "unc"}
BY DEF IsSpelling, ASpelling, Names

LEMMA BareAgain ==
  ASSUME NEW s, IsSpelling(s)
  PROVE  [s EXCEPT !.ns = "bare", !.of = Nothing] = Bare(s.names)
<1>1. PICK N, O, M : N = {"bare", "drive", "wsl", "unc"} /\ O = Drive \union Distro \union {Nothing} /\ M = Names
  OBVIOUS
<1>2. s \in [ns : N, of : O, names : M]
  BY <1>1 DEF IsSpelling, ASpelling, Names
<1>3. PICK r : r = [s EXCEPT !.ns = "bare", !.of = Nothing]
  OBVIOUS
<1>4. DOMAIN r = {"ns", "of", "names"} /\ r = [f \in {"ns", "of", "names"} |-> r[f]]
  BY <1>2, <1>3
<1>5. r.ns = "bare" /\ r.of = Nothing /\ r.names = s.names
  BY <1>2, <1>3
<1>6. PICK b : b = [ns |-> "bare", of |-> Nothing, names |-> s.names]
  OBVIOUS
<1>7. DOMAIN b = {"ns", "of", "names"} /\ b = [f \in {"ns", "of", "names"} |-> b[f]]
  BY <1>6
<1>8. b.ns = "bare" /\ b.of = Nothing /\ b.names = s.names
  BY <1>6
<1>9. r = b
  BY <1>4, <1>5, <1>7, <1>8
<1> QED
  BY <1>3, <1>6, <1>9 DEF Bare, Spelling

LEMMA CanonicalIs ==
  ASSUME NEW s, IsSpelling(s)
  PROVE  Canonical(s) = IF s.ns = "unc" THEN Within(s.of, s.names) ELSE s
BY SpellingIs DEF IsSpelling, Canonical, Within, Spelling

LEMMA KeyIs ==
  ASSUME NEW s, IsSpelling(s), NEW t
  PROVE  RegistryKey(s, t) =
           IF s.ns = "drive" THEN Folded(s)
           ELSE IF s.ns = "bare" \/ MountShaped(s.names)
                THEN IF Mapped(s.names, t) # Nothing THEN Folded(Mapped(s.names, t))
                     ELSE Folded(Bare(s.names))
                ELSE Within(s.of, s.names)
<1>1. PICK canonical : canonical = Canonical(s)
  OBVIOUS
<1>2. PICK p : p = IF canonical.ns = "wsl" /\ MountShaped(canonical.names) THEN Bare(canonical.names)
                   ELSE canonical
  OBVIOUS
<1>3. RegistryKey(s, t) = Folded(IF MntToWindows(p, t) = Nothing THEN p ELSE MntToWindows(p, t))
  BY <1>1, <1>2, Zenon DEF RegistryKey
<1>4. CASE s.ns = "drive"
  <2>1. p = s
    BY <1>1, <1>2, <1>4, CanonicalIs
  <2>2. MntToWindows(p, t) = Nothing
    BY <1>4, <2>1, NothingLeadsAway
  <2> QED
    BY <1>3, <1>4, <2>1, <2>2
<1>5. CASE s.ns = "bare"
  <2>1. p = Bare(s.names)
    BY <1>1, <1>2, <1>5, CanonicalIs, SpellingIs DEF IsSpelling, Bare, Spelling
  <2> QED
    BY <1>3, <1>5, <2>1 DEF Mapped
<1>6. CASE s.ns \in {"wsl", "unc"}
  <2>1. canonical = Within(s.of, s.names)
    BY <1>1, <1>6, CanonicalIs, SpellingIs DEF Within, Spelling
  <2>2. canonical.ns = "wsl" /\ canonical.names = s.names
    BY <2>1 DEF Within, Spelling
  <2>3. CASE MountShaped(s.names)
    <3>1. p = Bare(s.names)
      BY <1>2, <2>2, <2>3
    <3> QED
      BY <1>3, <1>6, <2>3, <3>1 DEF Mapped
  <2>4. CASE ~MountShaped(s.names)
    <3>1. p = Within(s.of, s.names)
      BY <1>2, <2>1, <2>2, <2>4
    <3>2. MntToWindows(p, t) = Nothing
      BY <2>1, <2>2, <3>1, NothingLeadsAway
    <3>3. Folded(p) = p
      BY <2>1, <2>2, <2>4, <3>1 DEF Folded
    <3> QED
      BY <1>3, <1>6, <2>4, <3>1, <3>2, <3>3
  <2> QED
    BY <2>3, <2>4
<1> QED
  BY <1>4, <1>5, <1>6, SpellingIs

LEMMA PlaceIs ==
  ASSUME NEW s, IsSpelling(s), NEW w, NEW home
  PROVE  Place(s, w, home) =
           IF s.ns = "drive" THEN Folded(s)
           ELSE IF Mapped(s.names, w.auto[HomeOfPath(s, home)]) # Nothing
                THEN Folded(Mapped(s.names, w.auto[HomeOfPath(s, home)]))
                ELSE Within(HomeOfPath(s, home), s.names)
<1>1. PICK d : d = HomeOfPath(s, home)
  OBVIOUS
<1>2. d = IF s.ns = "bare" THEN home ELSE s.of
  BY <1>1 DEF HomeOfPath
<1>3. PICK b : b = [s EXCEPT !.ns = "bare", !.of = Nothing]
  OBVIOUS
<1>4. Place(s, w, home) =
        IF s.ns = "drive" THEN Folded(s)
        ELSE IF MntToWindows(b, w.auto[d]) # Nothing THEN Folded(MntToWindows(b, w.auto[d]))
        ELSE Within(d, s.names)
  BY <1>2, <1>3, Zenon DEF Place
<1>5. b = Bare(s.names)
  BY <1>3, BareAgain
<1> QED
  BY <1>1, <1>4, <1>5, Zenon DEF Mapped

LEMMA LowerKeepsShape ==
  ASSUME AnswersAssumption, NEW n \in Names, MountShaped(n)
  PROVE  MountShaped(LowerAll(n))
<1>1. Len(n) >= 2 /\ n[1] = "mnt" /\ n[2] \in Drive /\ Len(n) \in Nat
  BY DEF MountShaped, Names
<1>2. 1 \in 1..Len(n) /\ 2 \in 1..Len(n)
  BY <1>1
<1>3. LowerAll(n)[1] = Lower[n[1]] /\ LowerAll(n)[2] = Lower[n[2]] /\ Len(LowerAll(n)) = Len(n)
  BY <1>2, LowerIs
<1>4. Lower["mnt"] = "mnt" /\ Lower[n[2]] = n[2]
  BY <1>1 DEF AnswersAssumption
<1> QED
  BY <1>1, <1>3, <1>4 DEF MountShaped

LEMMA LooksLikeIt ==
  ASSUME NEW s, NEW w, NEW home, IsSpelling(s), ~LooksMounted(s, w, home), s.ns # "drive", MountShaped(s.names),
         NEW u, u = w.auto[HomeOfPath(s, home)]
  PROVE  Place(s, w, home) = Folded(Mapped(s.names, u)) /\ Mapped(s.names, u) # Nothing
<1>1. Place(s, w, home).ns # "wsl"
  BY DEF LooksMounted
<1>2. Within(HomeOfPath(s, home), s.names).ns = "wsl"
  BY DEF Within, Spelling
<1>3. Place(s, w, home) = IF Mapped(s.names, u) # Nothing THEN Folded(Mapped(s.names, u))
                          ELSE Within(HomeOfPath(s, home), s.names)
  BY PlaceIs
<1> QED
  BY <1>1, <1>2, <1>3

-----------------------------------------------------------------------------
(* A spelling in a world, that does not only look mounted.                 *)
Clear(s, w, home) ==
  IsSpelling(s) /\ IsWorld(w) /\ home \in Distro /\ ~LooksMounted(s, w, home)

LEMMA HomeTable ==
  ASSUME NEW s, NEW w, NEW home, Clear(s, w, home), s.ns # "drive"
  PROVE  HomeOfPath(s, home) \in Distro /\ w.auto[HomeOfPath(s, home)] \in TablesOf(w)
BY SpellingIs DEF Clear, IsSpelling, HomeOfPath, TablesOf

LEMMA DrivesAreFolded ==
  ASSUME AnswersAssumption, NEW t, IsTable(t), NEW names \in Names, Mapped(names, t) # Nothing
  PROVE  Folded(Mapped(names, t)).ns = "drive" /\ IsSpelling(Mapped(names, t)) /\ Mapped(names, t).ns = "drive"
<1>0. Nothing \notin ASpelling
  BY DEF AnswersAssumption
<1>1. PICK d \in Drive, rest \in Names : Mapped(names, t) = OnDrive(d, rest)
  BY <1>0, MappedIsOnADrive
<1>2. OnDrive(d, rest).ns = "drive" /\ Folded(OnDrive(d, rest)).ns = "drive"
  BY DEF OnDrive, Spelling, Folded
<1>3. IsSpelling(OnDrive(d, rest))
  BY DEF OnDrive, Spelling, IsSpelling, ASpelling, Names
<1> QED
  BY <1>1, <1>2, <1>3

(* What the table leads to is where it is.                                 *)
LEMMA MappedIsThePlace ==
  ASSUME AnswersAssumption, NEW s, NEW w, NEW home, Clear(s, w, home), s.ns # "drive",
         NEW t \in TablesOf(w), t = w.table, Mapped(s.names, t) # Nothing
  PROVE  Place(s, w, home) = Folded(Mapped(s.names, t))
<1>0. Nothing \notin ASpelling
  BY DEF AnswersAssumption
<1>1. IsSpelling(s) /\ IsWorld(w) /\ s.names \in Names
  BY SpellingIs DEF Clear
<1>2. PICK u \in TablesOf(w) : u = w.auto[HomeOfPath(s, home)]
  BY HomeTable
<1>3. Place(s, w, home).ns # "wsl"
  BY <1>1 DEF Clear, LooksMounted, Mapped
<1>4. Within(HomeOfPath(s, home), s.names).ns = "wsl"
  BY DEF Within, Spelling
<1>5. Place(s, w, home) = IF Mapped(s.names, u) # Nothing THEN Folded(Mapped(s.names, u))
                          ELSE Within(HomeOfPath(s, home), s.names)
  BY <1>1, <1>2, PlaceIs
<1>6. Mapped(s.names, u) # Nothing
  BY <1>3, <1>4, <1>5
<1>7. Mapped(s.names, u) = Mapped(s.names, t)
  BY <1>0, <1>1, <1>2, <1>6, TablesAgree
<1> QED
  BY <1>5, <1>6, <1>7

LEMMA TheTable ==
  ASSUME NEW w, IsWorld(w)
  PROVE  w.table \in TablesOf(w) /\ IsTable(w.table)
BY TablesAre DEF TablesOf

(* The three kinds of keys, and what they say of the place.                *)
LEMMA KeyKinds ==
  ASSUME AnswersAssumption, NEW s, NEW w, NEW home, Clear(s, w, home), NEW key,
         key = RegistryKey(s, w.table)
  PROVE  \/ key.ns = "drive" /\ key = Place(s, w, home)
         \/ key = Within(s.of, s.names) /\ s.ns \in {"wsl", "unc"} /\ ~MountShaped(s.names)
         \/ key = Bare(s.names) /\ s.ns = "bare" /\ ~MountShaped(s.names) /\ Mapped(s.names, w.table) = Nothing
         \/ key = Bare(LowerAll(s.names)) /\ s.ns # "drive" /\ MountShaped(s.names) /\ Mapped(s.names, w.table) = Nothing
<1>1. IsSpelling(s) /\ IsWorld(w) /\ s.names \in Names
  BY SpellingIs DEF Clear
<1>2. PICK t \in TablesOf(w) : t = w.table /\ IsTable(t)
  BY <1>1, TheTable
<1>3. key = IF s.ns = "drive" THEN Folded(s)
            ELSE IF s.ns = "bare" \/ MountShaped(s.names)
                 THEN IF Mapped(s.names, t) # Nothing THEN Folded(Mapped(s.names, t))
                      ELSE Folded(Bare(s.names))
                 ELSE Within(s.of, s.names)
  BY <1>1, <1>2, KeyIs
<1>4. CASE s.ns = "drive"
  <2>1. Place(s, w, home) = Folded(s)
    BY <1>1, <1>4, PlaceIs
  <2>2. Folded(s).ns = "drive"
    BY <1>1, <1>4, SpellingIs DEF Folded
  <2> QED
    BY <1>3, <1>4, <2>1, <2>2
<1>5. CASE s.ns # "drive" /\ (s.ns = "bare" \/ MountShaped(s.names)) /\ Mapped(s.names, t) # Nothing
  <2>1. key = Folded(Mapped(s.names, t))
    BY <1>3, <1>5
  <2>2. Place(s, w, home) = Folded(Mapped(s.names, t))
    BY <1>2, <1>5, MappedIsThePlace
  <2>3. Folded(Mapped(s.names, t)).ns = "drive"
    BY <1>1, <1>2, <1>5, DrivesAreFolded
  <2> QED
    BY <2>1, <2>2, <2>3
<1>6. CASE s.ns # "drive" /\ (s.ns = "bare" \/ MountShaped(s.names)) /\ Mapped(s.names, t) = Nothing
  <2>1. key = Folded(Bare(s.names))
    BY <1>3, <1>6
  <2>2. Folded(Bare(s.names)) = IF MountShaped(s.names) THEN Bare(LowerAll(s.names)) ELSE Bare(s.names)
    BY DEF Folded, Bare, Spelling, LowerAll
  <2> QED
    BY <1>2, <1>6, <2>1, <2>2
<1>7. CASE s.ns # "drive" /\ ~(s.ns = "bare" \/ MountShaped(s.names))
  BY <1>1, <1>3, <1>7, SpellingIs
<1> QED
  BY <1>4, <1>5, <1>6, <1>7

(* One key is one place.                                                   *)
LEMMA OneKeyIsOnePlace ==
  ASSUME AnswersAssumption, NEW w, NEW home, NEW s, NEW t, Clear(s, w, home), Clear(t, w, home),
         RegistryKey(s, w.table) = RegistryKey(t, w.table)
  PROVE  Place(s, w, home) = Place(t, w, home)
<1>0. Nothing \notin ASpelling
  BY DEF AnswersAssumption
<1>1. /\ IsSpelling(s) /\ IsSpelling(t) /\ IsWorld(w) /\ s.names \in Names /\ t.names \in Names
  BY SpellingIs DEF Clear
<1>2. PICK key : key = RegistryKey(s, w.table)
  OBVIOUS
<1>3. \/ key.ns = "drive" /\ key = Place(s, w, home)
      \/ key = Within(s.of, s.names) /\ s.ns \in {"wsl", "unc"}
      \/ key = Bare(s.names) /\ s.ns = "bare" /\ ~MountShaped(s.names)
      \/ key = Bare(LowerAll(s.names)) /\ s.ns # "drive" /\ MountShaped(s.names)
  BY <1>2, KeyKinds
<1>4. \/ key.ns = "drive" /\ key = Place(t, w, home)
      \/ key = Within(t.of, t.names) /\ t.ns \in {"wsl", "unc"}
      \/ key = Bare(t.names) /\ t.ns = "bare" /\ ~MountShaped(t.names)
      \/ key = Bare(LowerAll(t.names)) /\ t.ns # "drive" /\ MountShaped(t.names)
  BY <1>2, KeyKinds
<1>5. \A d, n : Within(d, n).ns = "wsl" /\ Bare(n).ns = "bare" /\ Within(d, n).of = d
                /\ Within(d, n).names = n /\ Bare(n).names = n
  BY DEF Within, Bare, Spelling
<1>6. ~LooksMounted(s, w, home) /\ ~LooksMounted(t, w, home)
  BY DEF Clear
<1>7. CASE key.ns = "drive"
  BY <1>3, <1>4, <1>5, <1>7
<1>8. CASE key.ns = "wsl"
  <2>1. s.of = t.of /\ s.names = t.names /\ s.ns \in {"wsl", "unc"} /\ t.ns \in {"wsl", "unc"}
    BY <1>3, <1>4, <1>5, <1>8
  <2>2. HomeOfPath(s, home) = HomeOfPath(t, home)
    BY <2>1 DEF HomeOfPath
  <2> QED
    BY <1>1, <2>1, <2>2, PlaceIs
<1>9. CASE key.ns = "bare"
  <2>1. CASE ~MountShaped(s.names) /\ ~MountShaped(t.names)
    <3>1. s.names = t.names /\ s.ns = "bare" /\ t.ns = "bare"
      BY <1>3, <1>4, <1>5, <1>9, <2>1
    <3>2. HomeOfPath(s, home) = HomeOfPath(t, home)
      BY <3>1 DEF HomeOfPath
    <3> QED
      BY <1>1, <3>1, <3>2, PlaceIs
  <2>2. CASE MountShaped(s.names) /\ MountShaped(t.names)
    <3>1. Alike(s.names, t.names) /\ s.ns # "drive" /\ t.ns # "drive"
      BY <1>1, <1>3, <1>4, <1>5, <1>9, <2>2 DEF Alike
    <3>2. PICK u \in TablesOf(w) : u = w.auto[HomeOfPath(s, home)]
      BY <3>1, HomeTable
    <3>3. PICK v \in TablesOf(w) : v = w.auto[HomeOfPath(t, home)]
      BY <3>1, HomeTable
    <3>4. Place(s, w, home) = Folded(Mapped(s.names, u)) /\ Mapped(s.names, u) # Nothing
      BY <1>1, <1>6, <2>2, <3>1, <3>2, LooksLikeIt
    <3>5. Place(t, w, home) = Folded(Mapped(t.names, v)) /\ Mapped(t.names, v) # Nothing
      BY <1>1, <1>6, <2>2, <3>1, <3>3, LooksLikeIt
    <3>6. IsTable(u)
      BY <1>1, <3>2, TablesAre
    <3>7. Mapped(t.names, u) # Nothing /\ Folded(Mapped(s.names, u)) = Folded(Mapped(t.names, u))
      BY <3>1, <3>4, <3>6, AlikeOnOneDrive
    <3>8. Mapped(t.names, u) = Mapped(t.names, v)
      BY <1>0, <1>1, <3>2, <3>3, <3>5, <3>7, TablesAgree
    <3> QED
      BY <3>4, <3>5, <3>7, <3>8
  <2>3. CASE MountShaped(s.names) /\ ~MountShaped(t.names)
    <3>1. key.names = LowerAll(s.names) /\ key.names = t.names
      BY <1>3, <1>4, <1>5, <1>9, <2>3
    <3> QED
      BY <1>1, <2>3, <3>1, LowerKeepsShape
  <2>4. CASE ~MountShaped(s.names) /\ MountShaped(t.names)
    <3>1. key.names = LowerAll(t.names) /\ key.names = s.names
      BY <1>3, <1>4, <1>5, <1>9, <2>4
    <3> QED
      BY <1>1, <2>4, <3>1, LowerKeepsShape
  <2> QED
    BY <2>1, <2>2, <2>3, <2>4
<1> QED
  BY <1>3, <1>5, <1>7, <1>8, <1>9

-----------------------------------------------------------------------------
(* Usual mount points are seen in a path.                                  *)
LEMMA UsualIsShaped ==
  ASSUME NEW w, IsWorld(w), Usual(w), NEW t \in TablesOf(w), NEW names \in Names,
         Nothing \notin ASpelling, Mapped(names, t) # Nothing
  PROVE  MountShaped(names)
<1>1. IsTable(t)
  BY TablesAre
<1>2. PICK i \in DOMAIN t : IsPrefix(t[i].at, names) /\ t[i].at \in Names
  BY <1>1, MappedIsOnADrive
<1>3. MountShaped(t[i].at)
  <2>1. t = <<>> \/ \E d \in Distro : t = w.auto[d]
    BY DEF IsWorld, TablesOf
  <2>2. t # <<>>
    BY <1>2
  <2>3. PICK d \in Distro : t = w.auto[d]
    BY <2>1, <2>2
  <2> QED
    BY <1>2, <2>3 DEF IsWorld, Usual
<1>4. Len(t[i].at) <= Len(names) /\ \A k \in 1..Len(t[i].at) : t[i].at[k] = names[k]
  BY <1>2, PrefixIs DEF Names
<1>5. Len(t[i].at) >= 2 /\ t[i].at[1] = "mnt" /\ t[i].at[2] \in Drive
  BY <1>3 DEF MountShaped
<1>6. Len(t[i].at) \in Nat /\ Len(names) \in Nat
  BY <1>2 DEF Names
<1>7. 1 \in 1..Len(t[i].at) /\ 2 \in 1..Len(t[i].at)
  BY <1>5, <1>6
<1>8. names[1] = "mnt" /\ names[2] \in Drive /\ Len(names) >= 2
  BY <1>4, <1>5, <1>6, <1>7
<1> QED
  BY <1>8 DEF MountShaped

(* A spelling that says where it is has its place for a key.               *)
LEMMA TellingKey ==
  ASSUME AnswersAssumption, NEW s, NEW w, NEW home, Clear(s, w, home), Telling(s, w), Usual(w)
  PROVE  RegistryKey(s, w.table) = Place(s, w, home)
<1>0. Nothing \notin ASpelling
  BY DEF AnswersAssumption
<1>1. IsSpelling(s) /\ IsWorld(w) /\ s.names \in Names
  BY SpellingIs DEF Clear
<1>2. PICK t \in TablesOf(w) : t = w.table /\ IsTable(t)
  BY <1>1, TheTable
<1>3. RegistryKey(s, t) =
           IF s.ns = "drive" THEN Folded(s)
           ELSE IF s.ns = "bare" \/ MountShaped(s.names)
                THEN IF Mapped(s.names, t) # Nothing THEN Folded(Mapped(s.names, t))
                     ELSE Folded(Bare(s.names))
                ELSE Within(s.of, s.names)
  BY <1>1, KeyIs
<1>4. CASE s.ns = "drive"
  <2>1. Place(s, w, home) = Folded(s)
    BY <1>1, <1>4, PlaceIs
  <2> QED
    BY <1>2, <1>3, <1>4, <2>1
<1>5. CASE s.ns # "drive" /\ Mapped(s.names, t) # Nothing
  <2>1. MountShaped(s.names)
    BY <1>0, <1>1, <1>5, UsualIsShaped
  <2>2. Place(s, w, home) = Folded(Mapped(s.names, t))
    BY <1>2, <1>5, MappedIsThePlace
  <2> QED
    BY <1>2, <1>3, <1>5, <2>1, <2>2
<1>6. CASE s.ns # "drive" /\ Mapped(s.names, t) = Nothing
  <2>1. s.ns # "bare" /\ ~MountShaped(s.names)
    BY <1>2, <1>6 DEF Telling, Mapped
  <2>2. HomeOfPath(s, home) = s.of
    BY <2>1 DEF HomeOfPath
  <2>3. PICK u \in TablesOf(w) : u = w.auto[HomeOfPath(s, home)]
    BY <1>6, HomeTable
  <2>4. Mapped(s.names, u) = Nothing
    BY <1>0, <1>1, <2>1, UsualIsShaped
  <2>5. Place(s, w, home) = Within(s.of, s.names)
    BY <1>1, <1>6, <2>2, <2>3, <2>4, PlaceIs
  <2> QED
    BY <1>2, <1>3, <1>6, <2>1, <2>5
<1> QED
  BY <1>4, <1>5, <1>6

LEMMA KeysArePlaces ==
  ASSUME AnswersAssumption, NEW S, NEW w, NEW home, \A s \in S : Clear(s, w, home)
  PROVE  OneKeyOnePlace(S, w, home)
<1>1. \A s, t \in S : RegistryKey(s, w.table) = RegistryKey(t, w.table) => Place(s, w, home) = Place(t, w, home)
  BY OneKeyIsOnePlace
<1>2. \A s \in S : Telling(s, w) /\ Usual(w) => RegistryKey(s, w.table) = Place(s, w, home)
  BY TellingKey
<1> QED
  BY <1>1, <1>2 DEF OneKeyOnePlace

-----------------------------------------------------------------------------
(* Who is asked, and what a memory file belongs to.                        *)
LEMMA PlaceOfADrive ==
  ASSUME AnswersAssumption, NEW t, IsTable(t), NEW names \in Names, Mapped(names, t) # Nothing, NEW w, NEW home
  PROVE  /\ Place(Mapped(names, t), w, home) = Folded(Mapped(names, t))
         /\ RegistryKey(Mapped(names, t), w.table) = Folded(Mapped(names, t))
<1>1. IsSpelling(Mapped(names, t)) /\ Mapped(names, t).ns = "drive"
  BY DrivesAreFolded
<1> QED
  BY <1>1, PlaceIs, KeyIs

LEMMA PlaceWithin ==
  ASSUME NEW s, IsSpelling(s), s.ns # "drive", NEW home \in Distro, NEW w
  PROVE  /\ HomeOfPath(s, home) \in Distro
         /\ Place(Within(HomeOfPath(s, home), s.names), w, home) = Place(s, w, home)
         /\ Place(Bare(s.names), w, HomeOfPath(s, home)) = Place(s, w, home)
<1>1. HomeOfPath(s, home) \in Distro /\ s.names \in Names
  BY SpellingIs DEF IsSpelling, HomeOfPath
<1>2. PICK d \in Distro : d = HomeOfPath(s, home)
  BY <1>1
<1>3. PICK p : p = Within(d, s.names)
  OBVIOUS
<1>4. PICK b : b = Bare(s.names)
  OBVIOUS
<1>5. p.ns = "wsl" /\ p.of = d /\ p.names = s.names /\ b.ns = "bare" /\ b.of = Nothing /\ b.names = s.names
  BY <1>3, <1>4 DEF Within, Bare, Spelling
<1>6. IsSpelling(p) /\ IsSpelling(b)
  <2>1. p \in ASpelling /\ b \in ASpelling
    BY <1>1, <1>3, <1>4 DEF Within, Bare, Spelling, ASpelling, Names
  <2> QED
    BY <1>5, <2>1 DEF IsSpelling
<1>7. HomeOfPath(p, home) = d /\ HomeOfPath(b, d) = d
  BY <1>5 DEF HomeOfPath
<1>8. Place(s, w, home) = IF Mapped(s.names, w.auto[d]) # Nothing
                          THEN Folded(Mapped(s.names, w.auto[d])) ELSE Within(d, s.names)
  BY <1>2, PlaceIs
<1>9. Place(p, w, home) = Place(s, w, home)
  BY <1>5, <1>6, <1>7, <1>8, PlaceIs
<1>10. Place(b, w, d) = Place(s, w, home)
  BY <1>5, <1>6, <1>7, <1>8, PlaceIs
<1> QED
  BY <1>1, <1>2, <1>3, <1>4, <1>9, <1>10

LEMMA AsksThePlace ==
  ASSUME AnswersAssumption, NEW s, NEW w, NEW home, Clear(s, w, home)
  PROVE  AskedWhereItIs(s, w, home)
<1>1. IsSpelling(s) /\ IsWorld(w) /\ home \in Distro
  BY DEF Clear
<1>2. PICK n : n = NormalizeCwd(s, "windows", home)
  OBVIOUS
<1>3. PICK reach : reach = ReachOf(n, "windows", home, w.table)
  OBVIOUS
<1>4. SUFFICES ASSUME reach.ask # "nobody" PROVE Place(reach.path, w, home) = Place(s, w, home)
  BY <1>2, <1>3 DEF AskedWhereItIs
<1>5. reach = IF Canonical(n).ns = "wsl" THEN [ask |-> "distro", path |-> Within(Canonical(n).of, n.names)]
              ELSE IF IsBareLinux(n)
                   THEN IF home = Nothing THEN [ask |-> "nobody"]
                        ELSE [ask |-> "distro", path |-> Within(home, n.names)]
              ELSE IF IsDriveMount(n)
                   THEN IF MntToWindows(n, w.table) = Nothing THEN [ask |-> "nobody"]
                        ELSE [ask |-> "host", path |-> MntToWindows(n, w.table)]
              ELSE [ask |-> "host", path |-> n]
  BY <1>3 DEF ReachOf
<1>6. n = IF s.ns = "unc" THEN Within(s.of, s.names)
          ELSE IF IsBareLinux(s) /\ home # Nothing THEN Within(home, s.names) ELSE s
  <2>1. Canonical(s) = IF s.ns = "unc" THEN Within(s.of, s.names) ELSE s
    BY <1>1, CanonicalIs
  <2>2. Within(s.of, s.names).ns = "wsl"
    BY DEF Within, Spelling
  <2> QED
    BY <1>2, <2>1, <2>2 DEF NormalizeCwd
<1>7. \A d, names : Within(d, names).ns = "wsl" /\ Within(d, names).of = d /\ Within(d, names).names = names
                    /\ Canonical(Within(d, names)) = Within(d, names)
  BY DEF Within, Spelling, Canonical
<1>8. CASE s.ns # "drive" /\ n = Within(HomeOfPath(s, home), s.names)
  <2>1. reach.path = Within(HomeOfPath(s, home), s.names)
    BY <1>5, <1>7, <1>8
  <2> QED
    BY <1>1, <1>8, <2>1, PlaceWithin
<1>9. CASE s.ns = "unc"
  BY <1>6, <1>8, <1>9 DEF HomeOfPath
<1>10. CASE s.ns = "wsl"
  <2>1. n = s
    BY <1>6, <1>10 DEF IsBareLinux
  <2>2. s = Within(s.of, s.names)
    BY <1>1, <1>10, SpellingIs DEF Within, Spelling
  <2> QED
    BY <1>8, <1>10, <2>1, <2>2 DEF HomeOfPath
<1>11. CASE s.ns = "drive"
  <2>1. n = s
    BY <1>6, <1>11 DEF IsBareLinux
  <2>2. Canonical(s) = s
    BY <1>1, <1>11, CanonicalIs
  <2>3. reach.path = s
    BY <1>5, <1>11, <2>1, <2>2 DEF IsBareLinux, IsDriveMount
  <2> QED
    BY <2>3
<1>12. CASE s.ns = "bare" /\ ~MountShaped(s.names)
  <2>1. IsBareLinux(s)
    BY <1>12 DEF IsBareLinux
  <2>2. CASE home # Nothing
    <3>1. n = Within(HomeOfPath(s, home), s.names)
      BY <1>6, <1>12, <2>1, <2>2 DEF HomeOfPath
    <3> QED
      BY <1>8, <1>12, <3>1
  <2>3. CASE home = Nothing
    <3>1. n = s /\ Canonical(s) = s
      BY <1>1, <1>6, <1>12, <2>3, CanonicalIs
    <3>2. reach = [ask |-> "nobody"]
      BY <1>5, <1>12, <2>1, <2>3, <3>1
    <3> QED
      BY <1>4, <3>2
  <2> QED
    BY <2>2, <2>3
<1>13. CASE s.ns = "bare" /\ MountShaped(s.names)
  <2>1. ~IsBareLinux(s) /\ IsDriveMount(s)
    BY <1>13 DEF IsBareLinux, IsDriveMount
  <2>2. n = s /\ Canonical(s) = s
    BY <1>1, <1>6, <1>13, <2>1, CanonicalIs
  <2>3. MntToWindows(s, w.table) = Mapped(s.names, w.table)
    <3>1. s = Bare(s.names)
      BY <1>1, <1>13, SpellingIs DEF IsSpelling, Bare, Spelling
    <3> QED
      BY <3>1 DEF Mapped
  <2>4. Mapped(s.names, w.table) # Nothing /\ reach.path = Mapped(s.names, w.table)
    BY <1>4, <1>5, <1>13, <2>1, <2>2, <2>3
  <2>5. Place(reach.path, w, home) = Folded(Mapped(s.names, w.table))
    BY <1>1, <2>4, TheTable, SpellingIs, PlaceOfADrive
  <2>6. Place(s, w, home) = Folded(Mapped(s.names, w.table))
    BY <1>1, <1>13, <2>4, TheTable, MappedIsThePlace
  <2> QED
    BY <2>5, <2>6
<1> QED
  BY <1>1, <1>9, <1>10, <1>11, <1>12, <1>13, SpellingIs

LEMMA MemoryIsOfItsPlace ==
  ASSUME AnswersAssumption, NEW s, NEW w, NEW home, Clear(s, w, home)
  PROVE  BelongsToItsProject(s, w, home)
<1>0. Nothing \notin ASpelling
  BY DEF AnswersAssumption
<1>1. IsSpelling(s) /\ IsWorld(w) /\ home \in Distro /\ s.names \in Names
  BY SpellingIs DEF Clear
<1>2. PICK t \in TablesOf(w) : t = w.table /\ IsTable(t)
  BY <1>1, TheTable
<1>3. PICK physical : physical = DecodedIn(s.of, s.names, t)
  OBVIOUS
<1>4. PICK project : project = SnapshotProject(physical, t)
  OBVIOUS
<1>5. SUFFICES ASSUME s.ns = "unc"
               PROVE  /\ Place(project, w, s.of) = Place(s, w, s.of)
                      /\ Place(ReadPath(physical), w, s.of) = Place(s, w, s.of)
                      /\ Usual(w) => RegistryKey(project, t) = RegistryKey(s, t)
  BY <1>2, <1>3, <1>4 DEF BelongsToItsProject
<1>6. s.of \in Distro /\ HomeOfPath(s, home) = s.of /\ HomeOfPath(s, s.of) = s.of
  BY <1>1, <1>5 DEF IsSpelling, HomeOfPath
<1>7. s = Spelling("unc", s.of, s.names)
  BY <1>1, <1>5, SpellingIs DEF Spelling
<1>8. physical = IF Mapped(s.names, t) # Nothing THEN Bare(s.names) ELSE s
  BY <1>3, <1>7 DEF DecodedIn, Mapped
<1>9. Bare(s.names).ns = "bare" /\ Bare(s.names).names = s.names
  BY DEF Bare, Spelling
<1>10. ReadPath(physical) = Bare(s.names)
  BY <1>5, <1>8, <1>9 DEF ReadPath
<1>11. Place(Bare(s.names), w, s.of) = Place(s, w, s.of)
  BY <1>1, <1>5, <1>6, PlaceWithin
<1>12. CASE Mapped(s.names, t) # Nothing
  <2>1. project = Mapped(s.names, t)
    BY <1>4, <1>8, <1>12 DEF SnapshotProject, Mapped
  <2>2. Place(project, w, s.of) = Folded(Mapped(s.names, t)) /\ RegistryKey(project, t) = Folded(Mapped(s.names, t))
    BY <1>1, <1>2, <1>12, <2>1, PlaceOfADrive
  <2>3. Place(s, w, home) = Place(s, w, s.of)
    BY <1>1, <1>5, <1>6, PlaceIs
  <2>4. Place(s, w, home) = Folded(Mapped(s.names, t))
    BY <1>2, <1>5, <1>12, MappedIsThePlace
  <2>5. Usual(w) => RegistryKey(s, t) = Folded(Mapped(s.names, t))
    <3>1. Usual(w) => MountShaped(s.names)
      BY <1>0, <1>1, <1>2, <1>12, UsualIsShaped
    <3> QED
      BY <1>1, <1>5, <1>12, <3>1, KeyIs
  <2> QED
    BY <1>10, <1>11, <2>2, <2>3, <2>4, <2>5
<1>13. CASE Mapped(s.names, t) = Nothing
  <2>1. MntToWindows(s, t) = Nothing
    BY <1>5, NothingLeadsAway
  <2>2. project = s
    BY <1>4, <1>8, <1>13, <2>1 DEF SnapshotProject
  <2> QED
    BY <1>10, <1>11, <2>2
<1> QED
  BY <1>12, <1>13

-----------------------------------------------------------------------------
(* Which keys there are.                                                   *)
LEMMA PlaceIsThere ==
  ASSUME AnswersAssumption, NEW s, NEW w, NEW home, Clear(s, w, home)
  PROVE  Place(s, w, home) \in ASpelling /\ Place(s, w, home).ns \in {"drive", "wsl"}
<1>0. Nothing \notin ASpelling
  BY DEF AnswersAssumption
<1>1. IsSpelling(s) /\ IsWorld(w) /\ home \in Distro /\ s.names \in Names
  BY SpellingIs DEF Clear
<1>2. \A d \in Drive, rest \in Names :
        Folded(OnDrive(d, rest)) \in ASpelling /\ Folded(OnDrive(d, rest)).ns = "drive"
  <2> TAKE d \in Drive, rest \in Names
  <2>1. Folded(OnDrive(d, rest)) = OnDrive(d, LowerAll(rest))
    BY DEF Folded, OnDrive, Spelling, LowerAll
  <2>2. LowerAll(rest) \in Names
    BY LowerIs
  <2> QED
    BY <2>1, <2>2 DEF OnDrive, Spelling, ASpelling, Names
<1>3. CASE s.ns = "drive"
  <2>1. s = OnDrive(s.of, s.names) /\ s.of \in Drive
    BY <1>1, <1>3, SpellingIs DEF IsSpelling, OnDrive, Spelling
  <2> QED
    BY <1>1, <1>2, <1>3, <2>1, PlaceIs
<1>4. CASE s.ns # "drive"
  <2>1. PICK u \in TablesOf(w) : u = w.auto[HomeOfPath(s, home)]
    BY <1>4, HomeTable
  <2>2. PICK d \in Distro : d = HomeOfPath(s, home)
    BY <1>4, HomeTable
  <2>3. IsTable(u)
    BY <1>1, TablesAre
  <2>4. CASE Mapped(s.names, u) # Nothing
    <3>1. PICK i \in DOMAIN u :
            /\ Mapped(s.names, u) = OnDrive(u[i].drive, SubSeq(s.names, Len(u[i].at) + 1, Len(s.names)))
            /\ u[i].drive \in Drive /\ SubSeq(s.names, Len(u[i].at) + 1, Len(s.names)) \in Names
      BY <1>0, <1>1, <2>3, <2>4, MappedIsOnADrive
    <3>2. Place(s, w, home) = Folded(Mapped(s.names, u))
      BY <1>1, <1>4, <2>1, <2>4, PlaceIs
    <3> QED
      BY <1>2, <3>1, <3>2
  <2>5. CASE Mapped(s.names, u) = Nothing
    <3>1. Place(s, w, home) = Within(d, s.names)
      BY <1>1, <1>4, <2>1, <2>2, <2>5, PlaceIs
    <3>2. Within(d, s.names) \in ASpelling /\ Within(d, s.names).ns = "wsl"
      BY <1>1 DEF Within, Spelling, ASpelling, Names
    <3> QED
      BY <3>1, <3>2
  <2> QED
    BY <2>4, <2>5
<1> QED
  BY <1>3, <1>4

LEMMA KeyIsNoUnc ==
  ASSUME AnswersAssumption, NEW s, IsSpelling(s), NEW t, IsTable(t)
  PROVE  RegistryKey(s, t).ns # "unc"
<1>1. s.names \in Names
  BY SpellingIs
<1>2. CASE s.ns = "drive"
  <2>1. Folded(s).ns = "drive"
    BY <1>2, SpellingIs DEF Folded
  <2> QED
    BY <1>2, <2>1, KeyIs
<1>3. CASE s.ns # "drive"
  <2>1. Mapped(s.names, t) # Nothing => Folded(Mapped(s.names, t)).ns = "drive"
    BY <1>1, DrivesAreFolded
  <2>2. Folded(Bare(s.names)).ns = "bare"
    BY DEF Folded, Bare, Spelling
  <2>3. Within(s.of, s.names).ns = "wsl"
    BY DEF Within, Spelling
  <2> QED
    BY <1>3, <2>1, <2>2, <2>3, KeyIs
<1> QED
  BY <1>2, <1>3

LEMMA KeyOfCanonical ==
  ASSUME NEW s, NEW a, Canonical(s) = Canonical(a), NEW t
  PROVE  RegistryKey(s, t) = RegistryKey(a, t)
<1>1. PICK canonical : canonical = Canonical(s)
  OBVIOUS
<1>2. PICK p : p = IF canonical.ns = "wsl" /\ MountShaped(canonical.names) THEN Bare(canonical.names)
                   ELSE canonical
  OBVIOUS
<1>3. canonical = Canonical(a)
  BY <1>1
<1>4. RegistryKey(s, t) = Folded(IF MntToWindows(p, t) = Nothing THEN p ELSE MntToWindows(p, t))
  BY <1>1, <1>2, Zenon DEF RegistryKey
<1>5. RegistryKey(a, t) = Folded(IF MntToWindows(p, t) = Nothing THEN p ELSE MntToWindows(p, t))
  BY <1>2, <1>3, Zenon DEF RegistryKey
<1> QED
  BY <1>4, <1>5

(* An alias has the same key, but for the prefix of a distribution alone.  *)
LEMMA KeysAre ==
  ASSUME NEW s, IsSpelling(s), NEW t, NEW a \in {s} \union AliasForms(s)
  PROVE  \/ RegistryKey(a, t) = RegistryKey(s, t)
         \/ s = Within(s.of, <<>>) /\ RegistryKey(a, t) = Spelling("unc", s.of, <<>>)
<1>1. s.names \in Names /\ s.ns \in {"bare", "drive", "wsl", "unc"}
      /\ s = [ns |-> s.ns, of |-> s.of, names |-> s.names]
  BY SpellingIs
<1>2. Canonical(s) = IF s.ns = "unc" THEN Within(s.of, s.names) ELSE s
  BY CanonicalIs
<1>3. CASE a = s
  BY <1>3
<1>4. CASE a = Canonical(s)
  <2>1. Canonical(Within(s.of, s.names)) = Within(s.of, s.names)
    BY DEF Canonical, Within, Spelling
  <2>2. Canonical(a) = Canonical(s)
    BY <1>2, <1>4, <2>1
  <2> QED
    BY <2>2, KeyOfCanonical
<1>5. CASE s.ns = "wsl" /\ a = [s EXCEPT !.ns = "unc"]
  <2>1. a = Spelling("unc", s.of, s.names) /\ s = Within(s.of, s.names)
    BY <1>1, <1>5 DEF Within, Spelling
  <2>2. a.ns = "unc" /\ a.names = s.names /\ a.of = s.of
    BY <2>1 DEF Spelling
  <2>3. CASE s.names # <<>>
    <3>1. Canonical(a) = s
      BY <2>1, <2>3 DEF Canonical, Spelling, Within
    <3>2. Canonical(a) = Canonical(s)
      BY <1>2, <1>5, <3>1
    <3> QED
      BY <3>2, KeyOfCanonical
  <2>4. CASE s.names = <<>>
    <3>1. Canonical(a) = a
      BY <2>2, <2>4 DEF Canonical
    <3>2. MntToWindows(a, t) = Nothing
      BY <2>2, NothingLeadsAway
    <3>3. Folded(a) = a
      BY <2>2 DEF Folded
    <3>4. RegistryKey(a, t) = a
      BY <2>2, <3>1, <3>2, <3>3 DEF RegistryKey
    <3> QED
      BY <2>1, <2>4, <3>4
  <2> QED
    BY <2>3, <2>4
<1> QED
  BY <1>3, <1>4, <1>5 DEF AliasForms

LEMMA SharedKeyIsOneKey ==
  ASSUME AnswersAssumption, NEW s, IsSpelling(s), NEW r, IsSpelling(r), NEW t, IsTable(t),
         NEW k, k \in Keys(s, t), k \in Keys(r, t)
  PROVE  RegistryKey(s, t) = RegistryKey(r, t)
<1>1. PICK a \in {s} \union AliasForms(s) : k = RegistryKey(a, t)
  BY DEF Keys
<1>2. PICK b \in {r} \union AliasForms(r) : k = RegistryKey(b, t)
  BY DEF Keys
<1>3. \/ k = RegistryKey(s, t)
      \/ s = Within(s.of, <<>>) /\ k = Spelling("unc", s.of, <<>>)
  BY <1>1, KeysAre
<1>4. \/ k = RegistryKey(r, t)
      \/ r = Within(r.of, <<>>) /\ k = Spelling("unc", r.of, <<>>)
  BY <1>2, KeysAre
<1>5. RegistryKey(s, t).ns # "unc" /\ RegistryKey(r, t).ns # "unc"
  BY KeyIsNoUnc
<1>6. \A d : Spelling("unc", d, <<>>).ns = "unc" /\ Spelling("unc", d, <<>>).of = d
  BY DEF Spelling
<1>7. CASE k.ns # "unc"
  BY <1>3, <1>4, <1>6, <1>7
<1>8. CASE k.ns = "unc"
  <2>1. s = Within(s.of, <<>>) /\ k = Spelling("unc", s.of, <<>>)
    BY <1>3, <1>5, <1>8
  <2>2. r = Within(r.of, <<>>) /\ k = Spelling("unc", r.of, <<>>)
    BY <1>4, <1>5, <1>8
  <2>3. s.of = k.of /\ r.of = k.of
    BY <1>6, <2>1, <2>2
  <2>4. s = Within(k.of, <<>>) /\ r = Within(k.of, <<>>)
    BY <2>1, <2>2, <2>3
  <2> QED
    BY <2>4
<1> QED
  BY <1>7, <1>8

-----------------------------------------------------------------------------
(* What covers a key in a world as usual.                                  *)
Seen(s, w, home) == Clear(s, w, home) /\ Telling(s, w)

LEMMA SeenKeys ==
  ASSUME AnswersAssumption, NEW w, Usual(w), NEW home, NEW s, Seen(s, w, home)
  PROVE  /\ RegistryKey(s, w.table) = Place(s, w, home) /\ RegistryKey(s, w.table) \in ASpelling
         /\ RegistryKey(s, w.table).ns \in {"drive", "wsl"}
<1>1. Clear(s, w, home) /\ Telling(s, w)
  BY DEF Seen
<1> QED
  BY <1>1, TellingKey, PlaceIsThere

(* The other forms of a path lead nowhere else.                            *)
LEMMA FormsAre ==
  ASSUME AnswersAssumption, NEW w, Usual(w), NEW home, NEW q, Seen(q, w, home), NEW distros,
         NEW f \in PathForms(q, distros)
  PROVE  RegistryKey(f, w.table) = RegistryKey(q, w.table) \/ RegistryKey(f, w.table).ns = "bare"
<1>0. Nothing \notin ASpelling
  BY DEF AnswersAssumption
<1>1. IsSpelling(q) /\ IsWorld(w) /\ q.names \in Names /\ Telling(q, w)
  BY SpellingIs DEF Seen, Clear
<1>2. PICK t \in TablesOf(w) : t = w.table /\ IsTable(t)
  BY <1>1, TheTable
<1>3. Canonical(q) = IF q.ns = "unc" THEN Within(q.of, q.names) ELSE q
  BY <1>1, CanonicalIs
<1>4. Within(q.of, q.names).ns = "wsl" /\ Within(q.of, q.names).names = q.names
  BY DEF Within, Spelling
<1>5. CASE f = q \/ f = Canonical(q)
  <2>1. Canonical(Within(q.of, q.names)) = Within(q.of, q.names)
    BY DEF Canonical, Within, Spelling
  <2>2. Canonical(f) = Canonical(q)
    BY <1>3, <1>5, <2>1
  <2> QED
    BY <2>2, KeyOfCanonical
<1>6. CASE Canonical(q).ns = "wsl" /\ f = Bare(q.names)
  <2>1. q.ns \in {"wsl", "unc"}
    BY <1>3, <1>6
  <2>2. f.ns = "bare" /\ f.names = q.names
    BY <1>6 DEF Bare, Spelling
  <2>3. IsSpelling(f)
    BY <1>1, <1>6 DEF IsSpelling, ASpelling, Bare, Spelling, Names
  <2>4. CASE Mapped(q.names, t) # Nothing
    <3>1. MountShaped(q.names)
      BY <1>0, <1>1, <2>4, UsualIsShaped
    <3>2. RegistryKey(f, t) = Folded(Mapped(q.names, t)) /\ RegistryKey(q, t) = Folded(Mapped(q.names, t))
      BY <1>1, <2>1, <2>2, <2>3, <2>4, <3>1, KeyIs
    <3> QED
      BY <1>2, <3>2
  <2>5. CASE Mapped(q.names, t) = Nothing
    <3>1. RegistryKey(f, t) = Folded(Bare(q.names))
      BY <2>2, <2>3, <2>5, KeyIs
    <3>2. Folded(Bare(q.names)).ns = "bare"
      BY DEF Folded, Bare, Spelling
    <3> QED
      BY <1>2, <3>1, <3>2
  <2> QED
    BY <2>4, <2>5
<1>7. CASE IsBareLinux(q)
  <2>1. q.ns = "bare" /\ ~MountShaped(q.names)
    BY <1>7 DEF IsBareLinux
  <2>2. Mapped(q.names, t) # Nothing
    BY <1>1, <1>2, <2>1 DEF Telling, Mapped
  <2> QED
    BY <1>0, <1>1, <2>1, <2>2, UsualIsShaped
<1>8. \/ f = q \/ f = Canonical(q)
      \/ Canonical(q).ns = "wsl" /\ f = Bare(Canonical(q).names)
      \/ IsBareLinux(q)
  BY Zenon DEF PathForms
<1> QED
  BY <1>3, <1>4, <1>5, <1>6, <1>7, <1>8

LEMMA RowsOverAre ==
  ASSUME AnswersAssumption, NEW w, Usual(w), NEW home, NEW q, Seen(q, w, home), NEW distros,
         NEW listed, NEW row \in listed, Seen(row.root, w, home)
  PROVE  row \in RowsOver(q, distros, listed, w.table)
           <=> KeyCovers(RegistryKey(row.root, w.table), RegistryKey(q, w.table))
<1>1. PICK t : t = w.table
  OBVIOUS
<1>2. PICK K : K = RegistryKey(row.root, t)
  OBVIOUS
<1>3. K.ns \in {"drive", "wsl"}
  BY <1>1, <1>2, SeenKeys
<1>4. RegistryKey(q, t).ns \in {"drive", "wsl"}
  BY <1>1, SeenKeys
<1>5. row \in RowsOver(q, distros, listed, t)
        <=> \E f \in PathForms(q, distros), s \in {row.root} \union AliasForms(row.root) :
              KeyCovers(RegistryKey(s, t), RegistryKey(f, t))
  BY DEF RowsOver
<1>6. ASSUME KeyCovers(K, RegistryKey(q, t)) PROVE row \in RowsOver(q, distros, listed, t)
  <2>1. q \in PathForms(q, distros) /\ row.root \in {row.root} \union AliasForms(row.root)
    BY DEF PathForms
  <2> QED
    BY <1>2, <1>5, <1>6, <2>1
<1>7. ASSUME NEW f \in PathForms(q, distros), NEW s \in {row.root} \union AliasForms(row.root),
             KeyCovers(RegistryKey(s, t), RegistryKey(f, t))
      PROVE  KeyCovers(K, RegistryKey(q, t))
  <2>1. RegistryKey(f, t) = RegistryKey(q, t) \/ RegistryKey(f, t).ns = "bare"
    BY <1>1, FormsAre
  <2>2. IsSpelling(row.root)
    BY DEF Seen, Clear
  <2>3. RegistryKey(s, t) = K \/ \E d : RegistryKey(s, t) = Spelling("unc", d, <<>>)
    BY <1>2, <2>2, KeysAre
  <2>4. \A d : Spelling("unc", d, <<>>).ns = "unc"
    BY DEF Spelling
  <2>5. RegistryKey(s, t).ns = RegistryKey(f, t).ns
    BY <1>7 DEF KeyCovers
  <2>6. RegistryKey(s, t) = K /\ RegistryKey(f, t) = RegistryKey(q, t)
    BY <1>3, <1>4, <2>1, <2>3, <2>4, <2>5
  <2> QED
    BY <1>7, <2>6
<1> QED
  BY <1>1, <1>2, <1>5, <1>6, <1>7

-----------------------------------------------------------------------------
(* One spelling stands for a key.                                          *)
LEMMA PreferredIs ==
  ASSUME NEW S, S # {}, NEW host
  PROVE  Preferred(S, host) \in S
<1> DEFINE Rank(s) == SpellingClass(s) + IF HostOpenable(s, host) THEN 0 ELSE 5
<1>1. \A s : SpellingClass(s) \in 0..4
  BY DEF SpellingClass
<1>2. \A s : Rank(s) \in Nat
  BY <1>1
<1>3. \A s, r : Before(s, r, host) => Rank(s) < Rank(r)
  <2> TAKE s, r
  <2>1. PICK a \in 0..4 : a = SpellingClass(s)
    BY <1>1
  <2>2. PICK b \in 0..4 : b = SpellingClass(r)
    BY <1>1
  <2>3. HostOpenable(s, host) \in BOOLEAN /\ HostOpenable(r, host) \in BOOLEAN
    BY DEF HostOpenable
  <2> QED
    BY <2>1, <2>2, <2>3 DEF Before
<1> HIDE DEF Rank
<1>4. PICK R : R = {Rank(s) : s \in S}
  OBVIOUS
<1>5. R \in SUBSET Nat /\ R # {}
  BY <1>2, <1>4
<1>6. PICK m \in R : \A k \in R : m <= k
  BY <1>5, LeastNatural
<1>7. PICK s \in S : m = Rank(s)
  BY <1>4, <1>6
<1>8. \A r \in S : ~Before(r, s, host)
  <2> TAKE r \in S
  <2>1. Rank(r) \in R /\ Rank(s) <= Rank(r)
    BY <1>4, <1>6, <1>7
  <2> QED
    BY <1>2, <1>3, <2>1
<1> QED
  BY <1>7, <1>8 DEF Preferred

LEMMA RegistryIs ==
  ASSUME NEW S, NEW t, NEW host
  PROVE  /\ Registry(S, t, host) \subseteq S
         /\ \A s \in S : \E r \in Registry(S, t, host) : RegistryKey(r, t) = RegistryKey(s, t)
<1> DEFINE Of(key) == {r \in S : RegistryKey(r, t) = key}
<1>1. Registry(S, t, host) = {Preferred(Of(key), host) : key \in {RegistryKey(r, t) : r \in S}}
  BY DEF Registry
<1>2. \A s \in S : Of(RegistryKey(s, t)) # {}
  OBVIOUS
<1>3. \A s \in S : Preferred(Of(RegistryKey(s, t)), host) \in Of(RegistryKey(s, t))
  <2> HIDE DEF Of
  <2> QED
    BY <1>2, PreferredIs
<1>4. \A s \in S : /\ Preferred(Of(RegistryKey(s, t)), host) \in Registry(S, t, host)
                   /\ Preferred(Of(RegistryKey(s, t)), host) \in S
                   /\ RegistryKey(Preferred(Of(RegistryKey(s, t)), host), t) = RegistryKey(s, t)
  BY <1>1, <1>3
<1>5. \A r \in Registry(S, t, host) : \E s \in S : r = Preferred(Of(RegistryKey(s, t)), host)
  BY <1>1
<1> QED
  BY <1>4, <1>5

(* What covers one key lies on one line: the length tells which it is.     *)
LEMMA OnOneLine ==
  ASSUME NEW K \in ASpelling, NEW L \in ASpelling, NEW key \in ASpelling,
         KeyCovers(K, key), KeyCovers(L, key)
  PROVE  /\ K.ns = key.ns /\ Len(K.names) \in Nat /\ Len(key.names) \in Nat
         /\ Len(K.names) <= Len(key.names)
         /\ Len(K.names) = Len(L.names) => K = L
<1>1. /\ K = [ns |-> K.ns, of |-> K.of, names |-> K.names]
      /\ L = [ns |-> L.ns, of |-> L.of, names |-> L.names]
      /\ K.names \in Names /\ L.names \in Names /\ key.names \in Names
  BY DEF ASpelling, Names
<1>2. IsPrefix(key.names, key.names)
  BY <1>1, PrefixIs DEF Names
<1>3. K.ns = key.ns /\ K.of = key.of /\ IsPrefix(K.names, key.names)
  BY <1>2 DEF KeyCovers
<1>4. L.ns = key.ns /\ L.of = key.of /\ IsPrefix(L.names, key.names)
  BY <1>2 DEF KeyCovers
<1>5. Len(K.names) <= Len(key.names) /\ \A k \in 1..Len(K.names) : K.names[k] = key.names[k]
  BY <1>1, <1>3, PrefixIs DEF Names
<1>6. Len(L.names) <= Len(key.names) /\ \A k \in 1..Len(L.names) : L.names[k] = key.names[k]
  BY <1>1, <1>4, PrefixIs DEF Names
<1>7. Len(K.names) = Len(L.names) => K.names = L.names
  BY <1>1, <1>5, <1>6 DEF Names
<1> QED
  BY <1>1, <1>3, <1>4, <1>5, <1>7 DEF Names

(* The root of a path has the longest of the keys that cover it.           *)
LEMMA RootIs ==
  ASSUME AnswersAssumption, NEW w, Usual(w), NEW home, NEW q, Seen(q, w, home), NEW S,
         \A s \in S : Seen(s, w, home), NEW t, t = w.table, NEW key, key = RegistryKey(q, t),
         NEW root, root = RootOfPath(q, Registry(S, t, "windows"), t)
  PROVE  /\ root = Nothing => \A s \in S : ~KeyCovers(RegistryKey(s, t), key)
         /\ root # Nothing =>
              /\ root \in S /\ KeyCovers(RegistryKey(root, t), key)
              /\ \A s \in S : KeyCovers(RegistryKey(s, t), key) =>
                    Len(RegistryKey(s, t).names) <= Len(RegistryKey(root, t).names)
<1>0. Nothing \notin ASpelling
  BY DEF AnswersAssumption
<1>1. \A s \in S : RegistryKey(s, t) \in ASpelling
  BY SeenKeys
<1>2. key \in ASpelling
  BY SeenKeys
<1>3. PICK registry : registry = Registry(S, t, "windows")
  OBVIOUS
<1>4. registry \subseteq S /\ \A s \in S : \E r \in registry : RegistryKey(r, t) = RegistryKey(s, t)
  BY <1>3, RegistryIs
<1>5. PICK over : over = {r \in registry : KeyCovers(RegistryKey(r, t), key)}
  OBVIOUS
<1>6. root = IF over = {} THEN Nothing
             ELSE CHOOSE r \in over : \A u \in over :
                    Len(RegistryKey(u, t).names) <= Len(RegistryKey(r, t).names)
  BY <1>3, <1>5 DEF RootOfPath
<1>7. CASE over = {}
  <2>1. \A s \in S : ~KeyCovers(RegistryKey(s, t), key)
    BY <1>4, <1>5, <1>7
  <2> QED
    BY <1>6, <1>7, <2>1
<1>8. CASE over # {}
  <2>1. PICK R : R = {Len(RegistryKey(r, t).names) : r \in over}
    OBVIOUS
  <2>2. \A r \in over : Len(RegistryKey(r, t).names) \in Nat /\ Len(key.names) \in Nat
                        /\ Len(RegistryKey(r, t).names) <= Len(key.names)
    BY <1>1, <1>2, <1>4, <1>5, OnOneLine
  <2>3. PICK b \in Nat : b = Len(key.names)
    BY <1>8, <2>2
  <2>4. R \in SUBSET Nat /\ R # {} /\ \A k \in R : k <= b
    BY <1>8, <2>1, <2>2, <2>3
  <2>5. PICK m \in R : \A k \in R : k <= m
    BY <2>4, GreatestNatural
  <2>6. PICK r \in over : m = Len(RegistryKey(r, t).names)
    BY <2>1, <2>5
  <2>7. \A u \in over : Len(RegistryKey(u, t).names) <= Len(RegistryKey(r, t).names)
    BY <2>1, <2>5, <2>6
  <2>8. root \in over /\ \A u \in over :
           Len(RegistryKey(u, t).names) <= Len(RegistryKey(root, t).names)
    BY <1>6, <1>8, <2>7
  <2>9. root # Nothing
    <3>1. IsSpelling(root)
      BY <1>4, <1>5, <2>8 DEF Seen, Clear
    <3> QED
      BY <1>0, <3>1 DEF IsSpelling
  <2>10. \A s \in S : KeyCovers(RegistryKey(s, t), key) =>
           Len(RegistryKey(s, t).names) <= Len(RegistryKey(root, t).names)
    <3> SUFFICES ASSUME NEW s \in S, KeyCovers(RegistryKey(s, t), key)
                 PROVE  Len(RegistryKey(s, t).names) <= Len(RegistryKey(root, t).names)
      OBVIOUS
    <3>1. PICK u \in registry : RegistryKey(u, t) = RegistryKey(s, t)
      BY <1>4
    <3>2. u \in over
      BY <1>5, <3>1
    <3> QED
      BY <2>8, <3>1, <3>2
  <2> QED
    BY <1>4, <1>5, <2>8, <2>9, <2>10
<1> QED
  BY <1>7, <1>8

-----------------------------------------------------------------------------
(* A path is identified as the project that a scan attributes it to, where *)
(* rows of one directory say the same.                                     *)
RowsAgree(listed, w, home) ==
  \A row, other \in listed :
    Place(row.root, w, home) = Place(other.root, w, home) =>
      row.id = other.id /\ row.verdict = other.verdict

LEMMA ExitsSayTheSame ==
  ASSUME AnswersAssumption, NEW w, Usual(w), NEW home, NEW q, Seen(q, w, home), NEW listed,
         \A row \in listed : Seen(row.root, w, home), RowsAgree(listed, w, home)
  PROVE  ExitsAgree(q, listed, w)
<1>1. PICK t : t = w.table
  OBVIOUS
<1>2. PICK key : key = RegistryKey(q, t)
  OBVIOUS
<1>3. PICK S : S = {row.root : row \in listed}
  OBVIOUS
<1>4. PICK root : root = RootOfPath(q, Registry(S, t, "windows"), t)
  OBVIOUS
<1>5. \A s \in S : Seen(s, w, home)
  BY <1>3
<1>6. /\ root = Nothing => \A s \in S : ~KeyCovers(RegistryKey(s, t), key)
      /\ root # Nothing =>
              /\ root \in S /\ KeyCovers(RegistryKey(root, t), key)
              /\ \A s \in S : KeyCovers(RegistryKey(s, t), key) =>
                    Len(RegistryKey(s, t).names) <= Len(RegistryKey(root, t).names)
  BY <1>1, <1>2, <1>4, <1>5, RootIs
<1>7. PICK D : D = DistrosOf(S)
  OBVIOUS
<1> DEFINE over == RowsOver(q, D, listed, t)
           top == {row \in over : \A other \in over :
                     Depth(RegistryKey(other.root, t)) <= Depth(RegistryKey(row.root, t))}
           ids == {row.id : row \in top}
<1>8. PICK said : said = IdentifyPath(q, D, listed, t)
  OBVIOUS
<1>9. \A row \in listed : row \in over <=> KeyCovers(RegistryKey(row.root, t), key)
  BY <1>1, <1>2, RowsOverAre
<1>10. over \subseteq listed
  BY DEF RowsOver
<1>11. said =
         IF over = {}
         THEN [says |-> "unknown", needs |-> t = <<>> /\ \E f \in PathForms(q, {}) : IsDriveMount(f)]
         ELSE IF \E id, other \in ids : id # other THEN [says |-> "ambiguous"]
         ELSE IF Nothing \notin ids THEN [says |-> "resolved", id |-> CHOOSE id \in ids : TRUE]
         ELSE [says |-> IF (CHOOSE row \in top : TRUE).verdict = "no_identity"
                        THEN "no_identity" ELSE "identity_unavailable"]
  BY <1>8, Zenon DEF IdentifyPath
<1> HIDE DEF over, top, ids
<1>12. SUFFICES SaidOf(said, root, listed)
  BY <1>1, <1>3, <1>4, <1>7, <1>8 DEF ExitsAgree, RunAttribute
<1>13. CASE root = Nothing
  <2>1. over = {}
    BY <1>3, <1>6, <1>9, <1>10, <1>13
  <2>2. said.says = "unknown"
    BY <1>11, <2>1
  <2> QED
    BY <1>13, <2>2 DEF SaidOf
<1>14. CASE root # Nothing
  <2>1. PICK first \in listed : first.root = root
    BY <1>3, <1>6, <1>14
  <2>2. first \in over
    BY <1>6, <1>9, <1>14, <2>1
  <2>3. key \in ASpelling /\ \A row \in listed : RegistryKey(row.root, t) \in ASpelling
    BY <1>1, <1>2, SeenKeys
  <2>4. PICK c \in Nat : c = IF key.ns = "drive" THEN 1 ELSE 0
    OBVIOUS
  <2>5. \A row \in over : /\ Len(RegistryKey(row.root, t).names) \in Nat
                          /\ Depth(RegistryKey(row.root, t)) = Len(RegistryKey(row.root, t).names) + c
    <3> TAKE row \in over
    <3>1. KeyCovers(RegistryKey(row.root, t), key)
      BY <1>9, <1>10
    <3>2. /\ RegistryKey(row.root, t).ns = key.ns
          /\ Len(RegistryKey(row.root, t).names) \in Nat
      BY <1>10, <2>3, <3>1, OnOneLine
    <3> QED
      BY <2>4, <3>2 DEF Depth
  <2>6. \A row \in over : Len(RegistryKey(row.root, t).names) <= Len(RegistryKey(first.root, t).names)
    BY <1>3, <1>6, <1>9, <1>10, <1>14, <2>1
  <2>7. first \in top
    BY <2>2, <2>5, <2>6 DEF top
  <2>8. \A row \in top : row.id = first.id /\ row.verdict = first.verdict
    <3> TAKE row \in top
    <3>1. row \in over /\ Depth(RegistryKey(first.root, t)) <= Depth(RegistryKey(row.root, t))
      BY <2>2 DEF top
    <3>2. Len(RegistryKey(row.root, t).names) = Len(RegistryKey(first.root, t).names)
      BY <2>2, <2>5, <2>6, <3>1
    <3>3. KeyCovers(RegistryKey(row.root, t), key) /\ KeyCovers(RegistryKey(first.root, t), key)
      BY <1>9, <1>10, <2>2, <3>1
    <3>4. RegistryKey(row.root, t) = RegistryKey(first.root, t)
      BY <1>10, <2>3, <3>1, <3>2, <3>3, OnOneLine
    <3>5. Place(row.root, w, home) = Place(first.root, w, home)
      BY <1>1, <1>10, <3>1, <3>4, SeenKeys
    <3> QED
      BY <1>10, <3>1, <3>5 DEF RowsAgree
  <2>9. ids = {first.id}
    BY <2>7, <2>8 DEF ids
  <2>10. said = IF first.id # Nothing THEN [says |-> "resolved", id |-> first.id]
                ELSE [says |-> IF first.verdict = "no_identity"
                               THEN "no_identity" ELSE "identity_unavailable"]
    <3>1. ~\E id, other \in ids : id # other
      BY <2>9
    <3>2. (CHOOSE id \in ids : TRUE) = first.id
      BY <2>9
    <3>3. (CHOOSE row \in top : TRUE).verdict = first.verdict
      BY <2>7, <2>8
    <3>4. over # {}
      BY <2>2
    <3>5. Nothing \notin ids <=> first.id # Nothing
      BY <2>9
    <3> QED
      BY <1>11, <3>1, <3>2, <3>3, <3>4, <3>5
  <2>11. said.says # "unknown"
    BY <2>10
  <2>12. /\ said.says = IF first.id # Nothing THEN "resolved"
                        ELSE IF first.verdict = "no_identity" THEN "no_identity"
                        ELSE "identity_unavailable"
         /\ first.id # Nothing => said.id = first.id
    BY <2>10
  <2> QED
    BY <1>14, <2>1, <2>11, <2>12 DEF SaidOf
<1> QED
  BY <1>13, <1>14

-----------------------------------------------------------------------------
(* Rows of one directory: those that were observed to be share a key.      *)
GroupsOf(distros, mounts) == [fold |-> "groups", distros |-> distros, mounts |-> mounts]

LEMMA GroupsFold ==
  ASSUME NEW listed, NEW n \in Nat, DOMAIN listed = 1..n, NEW distros, NEW mounts,
         NEW what, what = GroupsOf(distros, mounts), NEW acc, acc = <<>>
  PROVE  \E f : IsFold(f, n, what, acc, listed) /\ SameDirectoryGroups(listed, distros, mounts) = UpTo(f, n)
<1>1. PICK g : IsFold(g, n, what, acc, listed)
  BY FoldExists
<1> DEFINE Goes(h) == h = [S \in SUBSET (1..n) |->
                             IF S = {} THEN acc
                             ELSE IF listed[Max(S)].id = Nothing THEN h[S \ {Max(S)}]
                                ELSE Joined(h[S \ {Max(S)}], listed[Max(S)], distros, mounts)]
<1>2. \A h : Goes(h) <=> IsFold(h, n, what, acc, listed)
  BY DEF IsFold, Takes, GroupsOf
<1>3. PICK f : f = CHOOSE h : Goes(h)
  OBVIOUS
<1>4. Goes(f)
  <2> HIDE DEF Goes
  <2> QED
    BY <1>1, <1>2, <1>3
<1>5. SameDirectoryGroups(listed, distros, mounts) = UpTo(f, n)
  BY <1>3, Zenon DEF SameDirectoryGroups, FoldLeft, MapThenFoldSet, UpTo
<1> QED
  BY <1>2, <1>4, <1>5

Bucket(Ids, S, Known, Guesses) ==
  [id : Ids, roots : SUBSET S, basis : {"observed", "guess"}, observed : SUBSET Known,
   guessed : SUBSET Guesses]

(* The roots of a bucket that nothing was guessed about share a key.       *)
OneKeyIn(b, t) ==
  b.basis = "observed" =>
    /\ b.roots # {} /\ \A r, u \in b.roots : RegistryKey(r, t) = RegistryKey(u, t)
    /\ \A k \in b.observed : \E r \in b.roots : k \in Keys(r, t)

Alone(row, distros, t) ==
  [id |-> row.id, roots |-> {row.root}, basis |-> "observed",
   observed |-> Keys(row.root, t), guessed |-> GuessedKeys(row.root, distros, t)]
With(b, row, basis, distros, t) ==
  [id |-> row.id, roots |-> b.roots \union {row.root}, basis |-> basis,
   observed |-> b.observed \union Keys(row.root, t),
   guessed |-> b.guessed \union GuessedKeys(row.root, distros, t)]

JoinsAt(joined, buckets, at, basis, row, distros, t) ==
  /\ at \in 1..Len(buckets)
  /\ joined = [buckets EXCEPT ![at] = With(buckets[at], row, basis, distros, t)]
  /\ \/ basis = "guess"
     \/ basis = buckets[at].basis /\ buckets[at].observed \intersect Keys(row.root, t) # {}

LEMMA JoinedIs ==
  ASSUME NEW T, NEW buckets \in Seq(T), NEW row, NEW distros, NEW t
  PROVE  \/ Joined(buckets, row, distros, t) = Append(buckets, Alone(row, distros, t))
         \/ \E at, basis : JoinsAt(Joined(buckets, row, distros, t), buckets, at, basis, row, distros, t)
<1>1. PICK F : F = {i \in 1..Len(buckets) :
                      buckets[i].id = row.id /\ buckets[i].observed \intersect Keys(row.root, t) # {}}
  OBVIOUS
<1>2. PICK G : G = {i \in 1..Len(buckets) :
                      buckets[i].id = row.id
                        /\ buckets[i].guessed \intersect GuessedKeys(row.root, distros, t) # {}}
  OBVIOUS
<1>3. PICK fact : fact = IF F # {} THEN Min(F) ELSE 0
  OBVIOUS
<1>4. PICK guess : guess = IF G # {} THEN Min(G) ELSE 0
  OBVIOUS
<1>5. PICK at : at = IF fact # 0 THEN fact ELSE guess
  OBVIOUS
<1>6. PICK joined : joined = Joined(buckets, row, distros, t)
  OBVIOUS
<1>7. joined =
        IF at = 0 THEN Append(buckets, Alone(row, distros, t))
        ELSE [buckets EXCEPT ![at] =
                With(@, row, IF fact = 0 THEN "guess" ELSE @.basis, distros, t)]
  BY <1>1, <1>2, <1>3, <1>4, <1>5, <1>6, Zenon DEF Joined, SelectInSeq, Alone, With
<1>8. F \in SUBSET Nat /\ G \in SUBSET Nat
  BY <1>1, <1>2
<1>9. fact # 0 => fact \in F
  BY <1>3, <1>8, MinIs
<1>10. guess # 0 => guess \in G
  BY <1>4, <1>8, MinIs
<1>11. CASE at = 0
  BY <1>6, <1>7, <1>11
<1>12. CASE at # 0
  <2>1. at \in 1..Len(buckets)
    BY <1>1, <1>2, <1>5, <1>9, <1>10, <1>12
  <2>2. PICK basis : basis = IF fact = 0 THEN "guess" ELSE buckets[at].basis
    OBVIOUS
  <2>3. at \in DOMAIN buckets
    BY <2>1
  <2>4. joined = [buckets EXCEPT ![at] = With(buckets[at], row, basis, distros, t)]
    BY <1>7, <1>12, <2>2, <2>3
  <2>5. fact # 0 => buckets[at].observed \intersect Keys(row.root, t) # {}
    BY <1>1, <1>5, <1>9
  <2> QED
    BY <1>6, <2>1, <2>2, <2>4, <2>5 DEF JoinsAt
<1> QED
  BY <1>11, <1>12

BucketsOK(bs, B, t) == bs \in Seq(B) /\ \A i \in 1..Len(bs) : OneKeyIn(bs[i], t)

LEMMA JoinedKeeps ==
  ASSUME AnswersAssumption, NEW Ids, NEW S, \A s \in S : IsSpelling(s), NEW t, IsTable(t), NEW distros,
         NEW Known, Known = UNION {Keys(s, t) : s \in S},
         NEW Guesses, Guesses = UNION {GuessedKeys(s, distros, t) : s \in S},
         NEW B, B = Bucket(Ids, S, Known, Guesses),
         NEW row, row.id \in Ids, row.root \in S, NEW buckets, BucketsOK(buckets, B, t)
  PROVE  BucketsOK(Joined(buckets, row, distros, t), B, t)
<1>1. buckets \in Seq(B) /\ \A i \in 1..Len(buckets) : OneKeyIn(buckets[i], t)
  BY DEF BucketsOK
<1>2. PICK joined : joined = Joined(buckets, row, distros, t)
  OBVIOUS
<1>3. PICK keys : keys = Keys(row.root, t)
  OBVIOUS
<1>4. PICK guesses : guesses = GuessedKeys(row.root, distros, t)
  OBVIOUS
<1>5. keys \subseteq Known /\ guesses \subseteq Guesses
  BY <1>3, <1>4
<1>6. CASE joined = Append(buckets, Alone(row, distros, t))
  <2>1. PICK b : b = Alone(row, distros, t)
    OBVIOUS
  <2>2. b = [id |-> row.id, roots |-> {row.root}, basis |-> "observed", observed |-> keys, guessed |-> guesses]
    BY <1>3, <1>4, <2>1 DEF Alone
  <2>3. b \in B
    BY <1>5, <2>2 DEF Bucket
  <2>4. OneKeyIn(b, t)
    BY <1>3, <2>2 DEF OneKeyIn
  <2>5. joined = Append(buckets, b)
    BY <1>6, <2>1
  <2>6. joined \in Seq(B) /\ \A i \in 1..Len(joined) : OneKeyIn(joined[i], t)
    BY <1>1, <2>3, <2>4, <2>5
  <2> QED
    BY <1>2, <2>6 DEF BucketsOK
<1>7. ASSUME NEW at \in 1..Len(buckets), NEW basis,
             joined = [buckets EXCEPT ![at] = With(buckets[at], row, basis, distros, t)],
             \/ basis = "guess"
             \/ basis = buckets[at].basis /\ buckets[at].observed \intersect keys # {}
      PROVE  BucketsOK(joined, B, t)
  <2>1. PICK old : old = buckets[at]
    OBVIOUS
  <2>2. old \in B /\ OneKeyIn(old, t)
    BY <1>1, <1>7, <2>1
  <2>3. PICK b : b = With(old, row, basis, distros, t)
    OBVIOUS
  <2>4. b = [id |-> row.id, roots |-> old.roots \union {row.root}, basis |-> basis,
             observed |-> old.observed \union keys, guessed |-> old.guessed \union guesses]
    BY <1>3, <1>4, <2>3 DEF With
  <2>5. /\ old.roots \subseteq S /\ old.basis \in {"observed", "guess"} /\ old.observed \subseteq Known
        /\ old.guessed \subseteq Guesses
    BY <2>2 DEF Bucket
  <2>6. b \in B
    BY <1>5, <1>7, <2>1, <2>4, <2>5 DEF Bucket
  <2>7. OneKeyIn(b, t)
    <3> SUFFICES ASSUME basis = "observed"
                 PROVE  /\ \A r, u \in old.roots \union {row.root} : RegistryKey(r, t) = RegistryKey(u, t)
                        /\ \A k \in old.observed \union keys : \E r \in old.roots \union {row.root} : k \in Keys(r, t)
      BY <2>4 DEF OneKeyIn
    <3>1. old.basis = "observed" /\ old.observed \intersect keys # {}
      BY <1>7, <2>1
    <3>2. /\ \A r, u \in old.roots : RegistryKey(r, t) = RegistryKey(u, t)
          /\ \A k \in old.observed : \E r \in old.roots : k \in Keys(r, t)
      BY <2>2, <3>1 DEF OneKeyIn
    <3>3. PICK k : k \in old.observed /\ k \in keys
      BY <3>1
    <3>4. PICK first \in old.roots : k \in Keys(first, t)
      BY <3>2, <3>3
    <3>5. RegistryKey(first, t) = RegistryKey(row.root, t)
      BY <1>3, <2>5, <3>3, <3>4, SharedKeyIsOneKey
    <3>6. \A r, u \in old.roots \union {row.root} : RegistryKey(r, t) = RegistryKey(u, t)
      BY <3>2, <3>4, <3>5
    <3>7. \A l \in old.observed \union keys : \E r \in old.roots \union {row.root} : l \in Keys(r, t)
      BY <1>3, <3>2
    <3> QED
      BY <3>6, <3>7
  <2>8. joined = [buckets EXCEPT ![at] = b]
    BY <1>7, <2>1, <2>3
  <2>9. joined \in Seq(B) /\ Len(joined) = Len(buckets)
    BY <1>1, <2>6, <2>8
  <2>10. \A i \in 1..Len(joined) : OneKeyIn(joined[i], t)
    BY <1>1, <2>7, <2>8, <2>9
  <2> QED
    BY <2>9, <2>10 DEF BucketsOK
<1>8. \/ joined = Append(buckets, Alone(row, distros, t))
      \/ \E at, basis : JoinsAt(joined, buckets, at, basis, row, distros, t)
  BY <1>1, <1>2, JoinedIs
<1>9. ASSUME NEW at, NEW basis, JoinsAt(joined, buckets, at, basis, row, distros, t)
      PROVE  BucketsOK(joined, B, t)
  BY <1>3, <1>7, <1>9 DEF JoinsAt
<1> QED
  BY <1>2, <1>6, <1>8, <1>9

LEMMA GroupsAreOnePlace ==
  ASSUME AnswersAssumption, NEW w, NEW home, NEW listed, NEW n \in Nat, DOMAIN listed = 1..n,
         \A i \in 1..n : Clear(listed[i].root, w, home), NEW t, t = w.table, IsTable(t)
  PROVE  ObservedIsOnePlace(listed, w, home)
<1>1. PICK S : S = {listed[i].root : i \in 1..n}
  OBVIOUS
<1>2. PICK Ids : Ids = {listed[i].id : i \in 1..n}
  OBVIOUS
<1>3. PICK distros : distros = DistrosOf({row.root : row \in Range(listed)})
  OBVIOUS
<1>4. PICK Known : Known = UNION {Keys(s, t) : s \in S}
  OBVIOUS
<1>5. PICK Guesses : Guesses = UNION {GuessedKeys(s, distros, t) : s \in S}
  OBVIOUS
<1>6. PICK B : B = Bucket(Ids, S, Known, Guesses)
  OBVIOUS
<1>7. \A s \in S : IsSpelling(s) /\ Clear(s, w, home)
  BY <1>1 DEF Clear
<1>8. PICK what : what = GroupsOf(distros, t)
  OBVIOUS
<1>9. PICK acc : acc = <<>>
  OBVIOUS
<1>10. PICK f : IsFold(f, n, what, acc, listed) /\ SameDirectoryGroups(listed, distros, t) = UpTo(f, n)
  BY <1>8, <1>9, GroupsFold
<1>11. BucketsOK(UpTo(f, 0), B, t)
  <2>1. UpTo(f, 0) = <<>>
    BY <1>9, <1>10, FoldBase
  <2>2. <<>> \in Seq(B) /\ 1..Len(<<>>) = {}
    OBVIOUS
  <2>3. BucketsOK(<<>>, B, t)
    BY <2>2 DEF BucketsOK
  <2> QED
    BY <2>1, <2>3
<1>12. ASSUME NEW i \in 1..n, NEW h \in Nat, h = i - 1, i = h + 1, BucketsOK(UpTo(f, h), B, t)
       PROVE  BucketsOK(UpTo(f, i), B, t)
  <2>1. UpTo(f, i) = Takes(what, UpTo(f, h), listed[i])
    BY <1>10, <1>12, FoldStep
  <2>2. Takes(what, UpTo(f, h), listed[i]) =
          IF listed[i].id = Nothing THEN UpTo(f, h) ELSE Joined(UpTo(f, h), listed[i], distros, t)
    BY <1>8 DEF Takes, GroupsOf
  <2>3. listed[i].id \in Ids /\ listed[i].root \in S
    BY <1>1, <1>2
  <2>4. PICK row, buckets : row = listed[i] /\ buckets = UpTo(f, h)
    OBVIOUS
  <2>5. row.id \in Ids /\ row.root \in S /\ BucketsOK(buckets, B, t)
    BY <1>12, <2>3, <2>4
  <2>6. \A s \in S : IsSpelling(s)
    BY <1>7
  <2>7. BucketsOK(Joined(buckets, row, distros, t), B, t)
    BY <1>4, <1>5, <1>6, <2>5, <2>6, JoinedKeeps
  <2> QED
    BY <1>12, <2>1, <2>2, <2>4, <2>7
<1>13. BucketsOK(UpTo(f, n), B, t)
  <2> DEFINE Bad == {i \in 0..n : ~BucketsOK(UpTo(f, i), B, t)}
  <2> SUFFICES ASSUME Bad # {} PROVE FALSE
    OBVIOUS
  <2>1. Bad \in SUBSET Nat
    OBVIOUS
  <2>2. PICK i \in Bad : \A l \in Bad : i <= l
    <3> HIDE DEF Bad
    <3> QED
      BY <2>1, LeastNatural
  <2>3. i # 0
    BY <1>11, <2>2
  <2>4. PICK h \in Nat : h = i - 1 /\ i = h + 1
    BY <2>2, <2>3
  <2>5. i \in 1..n /\ h \in 0..n /\ h \notin Bad
    BY <2>2, <2>3, <2>4
  <2> QED
    BY <1>12, <2>2, <2>4, <2>5
<1>14. SUFFICES ASSUME NEW group \in Range(UpTo(f, n)), group.basis = "observed"
                PROVE  group.roots # {} /\ \A r, u \in group.roots : Place(r, w, home) = Place(u, w, home)
  BY <1>3, <1>10 DEF ObservedIsOnePlace
<1>15. group \in B /\ OneKeyIn(group, t)
  BY <1>13, <1>14 DEF BucketsOK, Range
<1>16. group.roots \subseteq S
  BY <1>6, <1>15 DEF Bucket
<1>17. group.roots # {} /\ \A r, u \in group.roots : RegistryKey(r, t) = RegistryKey(u, t)
  BY <1>14, <1>15 DEF OneKeyIn
<1>18. \A r, u \in group.roots : Place(r, w, home) = Place(u, w, home)
  BY <1>7, <1>16, <1>17, OneKeyIsOnePlace
<1> QED
  BY <1>17, <1>18

-----------------------------------------------------------------------------
LEMMA RowsAre ==
  ASSUME AnswersAssumption, NEW asked, IsRegistry(asked)
  PROVE  /\ RowsAgree(Range(RowsOf(asked)), asked.world, asked.home)
         /\ DOMAIN RowsOf(asked) = 1..Len(asked.roots) /\ Len(asked.roots) \in Nat
         /\ \A i \in 1..Len(asked.roots) : RowsOf(asked)[i].root = asked.roots[i] /\ IsSpelling(asked.roots[i])
<1>1. DOMAIN asked.roots = 1..Len(asked.roots) /\ Len(asked.roots) \in Nat
  BY DEF IsRegistry
<1>2. PICK V : V = [i \in DOMAIN asked.roots |-> IF asked.ids = "none" THEN "no_identity" ELSE "resolved"]
  OBVIOUS
<1>3. \A i \in DOMAIN asked.roots :
        /\ RowsOf(asked)[i].root = asked.roots[i]
        /\ RowsOf(asked)[i].verdict = IF asked.ids = "none" THEN "no_identity" ELSE "resolved"
        /\ RowsOf(asked)[i].id =
             (CASE asked.ids = "each" -> Place(asked.roots[i], asked.world, asked.home)
                [] asked.ids = "one" -> "same" [] OTHER -> Nothing)
  BY DEF RowsOf
<1>4. DOMAIN RowsOf(asked) = DOMAIN asked.roots
  BY DEF RowsOf
<1>5. \A i, j \in DOMAIN asked.roots :
        Place(asked.roots[i], asked.world, asked.home) = Place(asked.roots[j], asked.world, asked.home) =>
          RowsOf(asked)[i].id = RowsOf(asked)[j].id /\ RowsOf(asked)[i].verdict = RowsOf(asked)[j].verdict
  <2> TAKE i, j \in DOMAIN asked.roots
  <2>1. CASE asked.ids = "each"
    BY <1>3, <2>1
  <2>2. CASE asked.ids # "each"
    BY <1>3, <2>2
  <2> QED
    BY <2>1, <2>2
<1>6. RowsAgree(Range(RowsOf(asked)), asked.world, asked.home)
  BY <1>3, <1>4, <1>5 DEF RowsAgree, Range
<1> QED
  BY <1>1, <1>3, <1>4, <1>6 DEF IsRegistry

LEMMA RegistriesAreTold ==
  ASSUME AnswersAssumption, NEW asked, IsRegistry(asked), NEW q, IsSpelling(q)
  PROVE  OneDirectoryOneProject(RowsOf(asked), q, asked.world, asked.home)
<1>1. PICK w : w = asked.world
  OBVIOUS
<1>2. PICK home : home = asked.home
  OBVIOUS
<1>3. PICK listed : listed = RowsOf(asked)
  OBVIOUS
<1>4. PICK roots : roots = {row.root : row \in Range(listed)}
  OBVIOUS
<1>5. PICK n \in Nat : n = Len(asked.roots)
  BY RowsAre
<1>6. /\ DOMAIN listed = 1..n /\ RowsAgree(Range(listed), w, home)
      /\ \A i \in 1..n : IsSpelling(listed[i].root)
  BY <1>1, <1>2, <1>3, <1>5, RowsAre
<1>7. IsWorld(w) /\ home \in Distro
  BY <1>1, <1>2 DEF IsRegistry
<1>8. \A i \in 1..n : listed[i].root \in roots
  BY <1>4, <1>6 DEF Range
<1>9. \A row \in Range(listed) : row.root \in roots
  BY <1>4
<1>10. \A s \in roots \union {q} : IsSpelling(s)
  BY <1>4, <1>6 DEF Range
<1>11. SUFFICES ASSUME \A s \in roots \union {q} : ~LooksMounted(s, w, home)
                PROVE  /\ OneKeyOnePlace(roots \union {q}, w, home)
                       /\ Usual(w) /\ (\A s \in roots \union {q} : Telling(s, w)) =>
                            ExitsAgree(q, Range(listed), w)
                       /\ ObservedIsOnePlace(listed, w, home)
                       /\ AskedWhereItIs(q, w, home)
                       /\ BelongsToItsProject(q, w, home)
  BY <1>1, <1>2, <1>3, <1>4, Zenon DEF OneDirectoryOneProject
<1>12. \A s \in roots \union {q} : Clear(s, w, home)
  BY <1>7, <1>10, <1>11 DEF Clear
<1>13. OneKeyOnePlace(roots \union {q}, w, home)
  BY <1>12, KeysArePlaces
<1>14. ASSUME Usual(w), \A s \in roots \union {q} : Telling(s, w)
       PROVE  ExitsAgree(q, Range(listed), w)
  <2>1. Seen(q, w, home) /\ \A row \in Range(listed) : Seen(row.root, w, home)
    BY <1>9, <1>12, <1>14 DEF Seen
  <2> QED
    BY <1>6, <1>14, <2>1, ExitsSayTheSame
<1>15. ObservedIsOnePlace(listed, w, home)
  <2>1. \A i \in 1..n : Clear(listed[i].root, w, home)
    BY <1>8, <1>12
  <2>2. IsTable(w.table)
    BY <1>7, TheTable
  <2> QED
    BY <1>6, <2>1, <2>2, GroupsAreOnePlace
<1>16. AskedWhereItIs(q, w, home) /\ BelongsToItsProject(q, w, home)
  BY <1>12, AsksThePlace, MemoryIsOfItsPlace
<1> QED
  BY <1>13, <1>14, <1>15, <1>16

-----------------------------------------------------------------------------
(* However the roots and the path are spelled, in any world in which no    *)
(* two distributions have different drives below one point: spellings with *)
(* one key are one directory, and those of one directory have one key when *)
(* they say where they are; `svault attribute` identifies a path as the    *)
(* project that a scan gives it; rows that are grouped without a guess are *)
(* one directory; the directory that is asked about is the one that was    *)
(* meant, and a memory file belongs to the project of its directory        *)
(* (attribution.rs, pathnorm.rs, class_b.rs).  Directories that only look  *)
(* mounted are the exception, as in OneDirectoryOneProject.                *)
THEOREM OneDirectoryIsOneProject == AnswersSpec => []DirectoriesAreTold
<1>1. AskedInv => DirectoriesAreTold
  <2> SUFFICES ASSUME AskedInv, About("paths"), NEW q \in Spellings
               PROVE  OneDirectoryOneProject(RowsOf(question.asked), q, question.asked.world, question.asked.home)
    BY DEF DirectoriesAreTold
  <2>1. question.asked \in Registries
    BY DEF AskedInv
  <2>2. IsRegistry(question.asked) /\ IsSpelling(q)
    BY <2>1, AnswersAssumption DEF AnswersAssumption
  <2> QED
    BY <2>2, AnswersAssumption, RegistriesAreTold
<1> QED
  BY <1>1, InitAsks, NextAsks, PTL DEF AnswersSpec

-----------------------------------------------------------------------------
(* Snapshots.                                                              *)

(* What was erased is not stored, and a round that is under way brings     *)
(* none of it back.                                                        *)
ErasedIsNotStored == \A r \in rows : ~Erased(r)

(* A version is what was in a file once: a file that is gone or could not  *)
(* be read makes none.                                                     *)
VersionsWereWritten == \A r \in rows : r.content \in 1..edits

(* A version is of the project its file belongs to, or, where a round could *)
(* not resolve that and the file is not one of the project's own, of none. *)
RootFits(file, root) == root = ProjectOf[file] \/ (root = None /\ file \notin Inside)
RootsAreTrue == \A r \in rows : RootFits(r.file, r.root)

-----------------------------------------------------------------------------
(* The inductive invariant, in parts.                                      *)
WorldOK ==
  /\ edits \in 1..MaxEdits
  /\ disk \in [File -> 0..edits] /\ dir \subseteq Project
  /\ view \subseteq File /\ faults \in 0..MaxFaults

RowsOK ==
  /\ rows \subseteq Row
  /\ \A r, q \in rows : r.off = q.off \/ (r.file = q.file /\ r.seq = q.seq) => r = q
  /\ \E n \in Nat : \A r \in rows : r.off <= n

StoreOK ==
  RowsOK /\ tombs \subseteq Tombstone /\ ErasedIsNotStored /\ VersionsWereWritten /\ RootsAreTrue

RoundShape ==
  [step : {"idle", "latest", "batch", "files", "append"},
   todo : SUBSET [file : File, root : Project \union {None}],
   latest : [File -> Row \union {NoRow}], batch : [File -> Nat \union {None}],
   event : Row \union {NoRow}]

(* What a round has read was written, what it is to append is a version,   *)
(* and it has the project of a file right or, outside projects, not at all. *)
RoundOK(x) ==
  /\ x \in RoundShape
  /\ \A y \in x.todo : RootFits(y.file, y.root)
  /\ \A f \in File : x.batch[f] = None \/ x.batch[f] \in 0..edits
  /\ x.step = "append" =>
       x.event \in Row /\ x.event.content \in 1..edits /\ RootFits(x.event.file, x.event.root)

RoundsOK == sync = [s \in Syncer |-> sync[s]] /\ \A s \in Syncer : RoundOK(sync[s])

SnapshotsInv == WorldOK /\ StoreOK /\ RoundsOK

-----------------------------------------------------------------------------
(* There is a greatest offset, and so a next one.                          *)
LEMMA NextOffsetIs ==
  ASSUME RowsOK
  PROVE  NextOffset \in Nat /\ \A r \in rows : r.off < NextOffset
<1>1. PICK n \in Nat : \A r \in rows : r.off <= n
  BY DEF RowsOK
<1>2. Offsets \in SUBSET Nat /\ Offsets # {} /\ \A k \in Offsets : k <= n
  BY <1>1 DEF RowsOK, Offsets, Row
<1>3. \E m \in Offsets : \A k \in Offsets : k <= m
  BY <1>2, GreatestNatural
<1>4. PICK m : m = CHOOSE l \in Offsets : \A k \in Offsets : k <= l
  OBVIOUS
<1>5. m \in Offsets /\ \A k \in Offsets : k <= m
  BY <1>3, <1>4
<1>6. NextOffset = 1 + m
  BY <1>4 DEF NextOffset
<1>7. m \in Nat
  BY <1>2, <1>5
<1>8. ASSUME NEW r \in rows PROVE r.off < NextOffset
  <2>1. PICK k : k = r.off
    OBVIOUS
  <2>2. k \in Offsets
    BY <2>1 DEF Offsets
  <2>3. k \in Nat /\ k <= m
    BY <1>2, <1>5, <2>2
  <2> QED
    BY <1>6, <1>7, <2>1, <2>3
<1> QED
  BY <1>6, <1>7, <1>8

(* The newest version of a file is one of its own.                         *)
LEMMA LatestIs ==
  ASSUME RowsOK, NEW f
  PROVE  Latest(f) = NoRow \/ (Latest(f) \in rows /\ Latest(f).file = f)
<1>1. CASE Versions(f) = {}
  BY <1>1 DEF Latest
<1>2. CASE Versions(f) # {}
  <2>1. PICK n \in Nat : \A r \in rows : r.off <= n
    BY DEF RowsOK
  <2>2. PICK S : S = {r.off : r \in Versions(f)}
    OBVIOUS
  <2>3. S \in SUBSET Nat /\ S # {} /\ \A k \in S : k <= n
    BY <1>2, <2>1, <2>2 DEF Versions, RowsOK, Row
  <2>4. PICK m \in S : \A k \in S : k <= m
    BY <2>3, GreatestNatural
  <2>5. \E r \in Versions(f) : \A q \in Versions(f) : q.off <= r.off
    BY <2>2, <2>4
  <2>6. Latest(f) \in Versions(f)
    BY <1>2, <2>5 DEF Latest
  <2> QED
    BY <2>6 DEF Versions
<1> QED
  BY <1>1, <1>2

LEMMA NoRowIs ==
  NoRow = [off |-> 0, file |-> 0, seq |-> 0, content |-> 0, root |-> None, dated |-> FALSE]
BY DEF NoRow

LEMMA IdleIsOK == RoundOK(Idle)
BY DEF RoundOK, RoundShape, Idle

(* A step of one round that leaves files and store alone.                  *)
LEMMA RoundGoesOn ==
  ASSUME SnapshotsInv, NEW s \in Syncer, NEW x, RoundOK(x), sync' = [sync EXCEPT ![s] = x],
         UNCHANGED <<world, store, view>>, faults' \in 0..MaxFaults
  PROVE  SnapshotsInv'
<1>1. WorldOK'
  BY DEF SnapshotsInv, WorldOK, world
<1>2. StoreOK'
  BY DEF SnapshotsInv, StoreOK, RowsOK, ErasedIsNotStored, VersionsWereWritten, RootsAreTrue, Erased, world, store
<1>3. edits' = edits
  BY DEF world
<1>4. sync' = [t \in Syncer |-> IF t = s THEN x ELSE sync[t]]
  BY DEF SnapshotsInv, RoundsOK
<1>5. ASSUME NEW t \in Syncer PROVE RoundOK(sync[t])'
  BY <1>3, <1>4 DEF SnapshotsInv, RoundsOK, RoundOK
<1>6. RoundsOK'
  BY <1>4, <1>5 DEF RoundsOK
<1> QED
  BY <1>1, <1>2, <1>6 DEF SnapshotsInv

LEMMA FaultsCount ==
  ASSUME SnapshotsInv, Answers \/ Fails
  PROVE  faults' \in 0..MaxFaults
BY SnapshotsAssumption DEF SnapshotsInv, WorldOK, Answers, Fails

LEMMA EnumerateKeeps ==
  ASSUME SnapshotsInv, NEW s \in Syncer, Enumerate(s)
  PROVE  SnapshotsInv'
<1>1. PICK hidden \in SUBSET File, blind \in SUBSET Project :
        /\ IF hidden = {} /\ blind = {} THEN Answers ELSE Fails
        /\ sync' = [sync EXCEPT ![s].step = "latest",
             ![s].todo = {[file |-> f, root |-> RootSeen(f, blind)] :
                            f \in {g \in File : Found(g, hidden, blind)}}]
  BY DEF Enumerate
<1>2. PICK todo : todo = {[file |-> f, root |-> RootSeen(f, blind)] :
                            f \in {g \in File : Found(g, hidden, blind)}}
  OBVIOUS
<1>3. todo \subseteq [file : File, root : Project \union {None}]
  <2>1. \A f \in File : RootSeen(f, blind) \in Project \union {None}
    BY SnapshotsAssumption DEF RootSeen
  <2> QED
    BY <1>2, <2>1
<1>9. ASSUME NEW y \in todo PROVE RootFits(y.file, y.root)
  <2>1. PICK f \in File : Found(f, hidden, blind) /\ y = [file |-> f, root |-> RootSeen(f, blind)]
    BY <1>2
  <2> QED
    BY <2>1 DEF RootFits, Found, RootSeen
<1>4. PICK x : x = [sync[s] EXCEPT !.step = "latest", !.todo = todo]
  OBVIOUS
<1>5. RoundOK(sync[s])
  BY DEF SnapshotsInv, RoundsOK
<1>6. RoundOK(x)
  BY <1>3, <1>4, <1>5, <1>9 DEF RoundOK, RoundShape
<1>7. sync' = [sync EXCEPT ![s] = x]
  BY <1>1, <1>2, <1>4 DEF SnapshotsInv, RoundsOK
<1>8. faults' \in 0..MaxFaults
  BY <1>1, FaultsCount
<1> QED
  BY <1>6, <1>7, <1>8, RoundGoesOn DEF Enumerate

LEMMA ReadLatestKeeps ==
  ASSUME SnapshotsInv, NEW s \in Syncer, ReadLatest(s)
  PROVE  SnapshotsInv'
<1>1. PICK latest : latest = [f \in File |-> [Latest(f) EXCEPT !.off = 0]]
  OBVIOUS
<1>2. latest \in [File -> Row \union {NoRow}]
  <2>1. ASSUME NEW f \in File PROVE [Latest(f) EXCEPT !.off = 0] \in Row \union {NoRow}
    <3>1. PICK l : l = Latest(f)
      OBVIOUS
    <3>2. CASE l = NoRow
      <4>1. [l EXCEPT !.off = 0] = [x \in {"off", "file", "seq", "content", "root", "dated"} |->
              IF x = "off" THEN 0 ELSE l[x]]
        BY <3>2 DEF NoRow
      <4>2. l = [x \in {"off", "file", "seq", "content", "root", "dated"} |-> l[x]]
        BY <3>2 DEF NoRow
      <4>3. l.off = 0
        BY <3>2 DEF NoRow
      <4>4. [l EXCEPT !.off = 0] = l
        BY <4>1, <4>2, <4>3
      <4> QED
        BY <3>1, <3>2, <4>4
    <3>3. CASE l \in rows
      <4>1. l \in Row
        BY <3>3 DEF SnapshotsInv, StoreOK, RowsOK
      <4>2. [l EXCEPT !.off = 0] \in Row
        BY <4>1 DEF Row
      <4> QED
        BY <3>1, <4>2
    <3> QED
      BY <3>1, <3>2, <3>3, LatestIs DEF SnapshotsInv, StoreOK
  <2> QED
    BY <1>1, <2>1
<1>3. PICK x : x = [sync[s] EXCEPT !.step = "batch", !.latest = latest]
  OBVIOUS
<1>4. RoundOK(sync[s])
  BY DEF SnapshotsInv, RoundsOK
<1>5. RoundOK(x)
  BY <1>2, <1>3, <1>4 DEF RoundOK, RoundShape
<1>6. sync' = [sync EXCEPT ![s] = x]
  BY <1>1, <1>3 DEF ReadLatest, SnapshotsInv, RoundsOK
<1>7. faults' \in 0..MaxFaults
  BY DEF ReadLatest, SnapshotsInv, WorldOK
<1> QED
  BY <1>5, <1>6, <1>7, RoundGoesOn DEF ReadLatest

LEMMA PrefetchKeeps ==
  ASSUME SnapshotsInv, NEW s \in Syncer, Prefetch(s)
  PROVE  SnapshotsInv'
<1>1. RoundOK(sync[s]) /\ disk \in [File -> 0..edits] /\ edits \in Nat
  BY SnapshotsAssumption DEF SnapshotsInv, RoundsOK, WorldOK
<1>2. CASE Answers /\ sync' = [sync EXCEPT ![s].step = "files",
                        ![s].batch = [f \in File |-> IF f \in Bridged THEN disk[f] ELSE None]]
  <2>1. PICK batch : batch = [f \in File |-> IF f \in Bridged THEN disk[f] ELSE None]
    OBVIOUS
  <2>2. batch \in [File -> Nat \union {None}] /\ \A f \in File : batch[f] = None \/ batch[f] \in 0..edits
    BY <1>1, <2>1
  <2>3. PICK x : x = [sync[s] EXCEPT !.step = "files", !.batch = batch]
    OBVIOUS
  <2>4. RoundOK(x)
    BY <1>1, <2>2, <2>3 DEF RoundOK, RoundShape
  <2>5. sync' = [sync EXCEPT ![s] = x]
    BY <1>2, <2>1, <2>3 DEF SnapshotsInv, RoundsOK
  <2>6. faults' \in 0..MaxFaults
    BY <1>2, FaultsCount
  <2> QED
    BY <2>4, <2>5, <2>6, RoundGoesOn DEF Prefetch
<1>3. CASE Fails /\ sync' = [sync EXCEPT ![s].step = "files"]
  <2>1. PICK x : x = [sync[s] EXCEPT !.step = "files"]
    OBVIOUS
  <2>2. RoundOK(x)
    BY <1>1, <2>1 DEF RoundOK, RoundShape
  <2>3. sync' = [sync EXCEPT ![s] = x]
    BY <1>3, <2>1 DEF SnapshotsInv, RoundsOK
  <2>4. faults' \in 0..MaxFaults
    BY <1>3, FaultsCount
  <2> QED
    BY <2>2, <2>3, <2>4, RoundGoesOn DEF Prefetch
<1> QED
  BY <1>2, <1>3 DEF Prefetch

(* Sources are taken in order: there is a next one as long as one is left. *)
LEMMA NextSourceIs ==
  ASSUME NEW s, sync[s].todo \subseteq [file : File, root : Project \union {None}], sync[s].todo # {}
  PROVE  NextSource(s) \in sync[s].todo
<1>1. PICK S : S = {x.file : x \in sync[s].todo}
  OBVIOUS
<1>2. S \in SUBSET Nat /\ S # {}
  <2>1. \A x \in sync[s].todo : x.file \in File
    OBVIOUS
  <2>2. File \subseteq Nat
    BY SnapshotsAssumption
  <2> QED
    BY <1>1, <2>1, <2>2
<1>3. PICK m \in S : \A k \in S : m <= k
  BY <1>2, LeastNatural
<1>4. \E x \in sync[s].todo : \A y \in sync[s].todo : x.file <= y.file
  BY <1>1, <1>3
<1> QED
  BY <1>4 DEF NextSource

LEMMA ScanFileKeeps ==
  ASSUME SnapshotsInv, NEW s \in Syncer, ScanFile(s)
  PROVE  SnapshotsInv'
<1>1. RoundOK(sync[s]) /\ disk \in [File -> 0..edits] /\ edits \in Nat
  BY SnapshotsAssumption DEF SnapshotsInv, RoundsOK, WorldOK
<1>2. PICK x, old, content, left :
        /\ x = NextSource(s) /\ old = Cursor(s, x.file) /\ content = Content(s, x.file)
        /\ left = [sync[s] EXCEPT !.todo = @ \ {x}]
  OBVIOUS
<1>3. x \in sync[s].todo /\ x \in [file : File, root : Project \union {None}]
  <2>1. sync[s].todo \subseteq [file : File, root : Project \union {None}]
    BY <1>1 DEF RoundOK, RoundShape
  <2> QED
    BY <1>2, <2>1, NextSourceIs DEF ScanFile
<1>4. PICK f \in File : f = x.file
  BY <1>3
<1>5. content \in 0..edits
  BY <1>1, <1>2, <1>4 DEF Content, RoundOK
<1>6. NextSeq(old) \in Nat
  <2>1. old \in Row \union {NoRow}
    BY <1>1, <1>2, <1>4 DEF Cursor, RoundOK, RoundShape
  <2>2. old.seq \in Nat
    BY <2>1 DEF Row, NoRow
  <2> QED
    BY <2>2 DEF NextSeq
<1>7. PICK read \in BOOLEAN, askable \in BOOLEAN, dated \in BOOLEAN :
        /\ IF read /\ askable /\ dated THEN Answers ELSE Fails
        /\ sync' = [sync EXCEPT ![s] =
             IF ~read \/ content = 0 \/ Unchanged(x, old, content, askable) THEN left
             ELSE [left EXCEPT !.step = "append",
                     !.event = [off |-> 0, file |-> x.file, seq |-> NextSeq(old), content |-> content,
                                root |-> x.root, dated |-> dated]]]
  BY <1>2 DEF ScanFile
<1>8. PICK event, next :
        /\ event = [off |-> 0, file |-> x.file, seq |-> NextSeq(old), content |-> content,
                    root |-> x.root, dated |-> dated]
        /\ next = IF ~read \/ content = 0 \/ Unchanged(x, old, content, askable) THEN left
                  ELSE [left EXCEPT !.step = "append", !.event = event]
  OBVIOUS
<1>9. RoundOK(left)
  BY <1>1, <1>2 DEF RoundOK, RoundShape
<1>10. event \in Row
  BY <1>1, <1>3, <1>5, <1>6, <1>8 DEF Row
<1>11. ASSUME content # 0 PROVE RoundOK([left EXCEPT !.step = "append", !.event = event])
  <2>1. event.content \in 1..edits
    BY <1>1, <1>5, <1>8, <1>11
  <2>2. RootFits(event.file, event.root)
    BY <1>1, <1>3, <1>8 DEF RoundOK
  <2> QED
    BY <1>9, <1>10, <2>1, <2>2 DEF RoundOK, RoundShape
<1>12. RoundOK(next)
  BY <1>8, <1>9, <1>11
<1>13. sync' = [sync EXCEPT ![s] = next]
  BY <1>7, <1>8
<1>14. faults' \in 0..MaxFaults
  BY <1>7, FaultsCount
<1> QED
  BY <1>12, <1>13, <1>14, RoundGoesOn DEF ScanFile

(* What a round appends was not erased by then, has a place of its own and *)
(* was read from a file.                                                   *)
LEMMA AppendVersionKeeps ==
  ASSUME SnapshotsInv, NEW s \in Syncer, AppendVersion(s)
  PROVE  SnapshotsInv'
<1>1. PICK r : r = sync[s].event
  OBVIOUS
<1>2. RoundOK(sync[s]) /\ r \in Row /\ r.content \in 1..edits /\ RootFits(r.file, r.root)
  BY <1>1 DEF AppendVersion, SnapshotsInv, RoundsOK, RoundOK
<1>3. WorldOK' /\ edits' = edits /\ tombs' = tombs
  BY DEF AppendVersion, SnapshotsInv, WorldOK, world
<1>4. RoundsOK'
  <2>1. PICK x : x = [sync[s] EXCEPT !.step = "files", !.event = NoRow]
    OBVIOUS
  <2>2. RoundOK(x)
    BY <1>2, <2>1 DEF RoundOK, RoundShape
  <2>3. sync' = [t \in Syncer |-> IF t = s THEN x ELSE sync[t]]
    BY <2>1 DEF AppendVersion, SnapshotsInv, RoundsOK
  <2>4. ASSUME NEW t \in Syncer PROVE RoundOK(sync[t])'
    BY <1>3, <2>2, <2>3 DEF SnapshotsInv, RoundsOK, RoundOK
  <2> QED
    BY <2>3, <2>4 DEF RoundsOK
<1>5. CASE rows' = rows
  BY <1>3, <1>4, <1>5 DEF SnapshotsInv, StoreOK, RowsOK, ErasedIsNotStored, VersionsWereWritten, RootsAreTrue, Erased
<1>6. CASE ~Erased(r) /\ ~Stored(r) /\ rows' = rows \union {[r EXCEPT !.off = NextOffset]}
  <2>1. PICK q : q = [r EXCEPT !.off = NextOffset]
    OBVIOUS
  <2>2. NextOffset \in Nat /\ \A p \in rows : p.off < NextOffset
    BY NextOffsetIs DEF SnapshotsInv, StoreOK
  <2>3. /\ q \in Row /\ q.off = NextOffset /\ q.file = r.file /\ q.seq = r.seq
        /\ q.content = r.content /\ q.root = r.root
    BY <1>2, <2>1, <2>2 DEF Row
  <2>4. rows' = rows \union {q}
    BY <1>6, <2>1
  <2>5. \A p \in rows : p.off # q.off /\ ~(p.file = q.file /\ p.seq = q.seq)
    <3>1. \A p \in rows : p.off \in Nat
      BY DEF SnapshotsInv, StoreOK, RowsOK, Row
    <3> QED
      BY <1>6, <2>2, <2>3, <3>1 DEF Stored, Versions
  <2>6. \E n \in Nat : \A p \in rows' : p.off <= n
    <3>1. \A p \in rows : p.off \in Nat
      BY DEF SnapshotsInv, StoreOK, RowsOK, Row
    <3>2. \A p \in rows' : p.off <= NextOffset
      BY <2>2, <2>3, <2>4, <3>1
    <3> QED
      BY <2>2, <3>2
  <2>7. RowsOK'
    <3>1. rows' \subseteq Row
      BY <2>3, <2>4 DEF SnapshotsInv, StoreOK, RowsOK
    <3>2. \A a, b \in rows' : a.off = b.off \/ (a.file = b.file /\ a.seq = b.seq) => a = b
      BY <2>4, <2>5 DEF SnapshotsInv, StoreOK, RowsOK
    <3> QED
      BY <2>6, <3>1, <3>2 DEF RowsOK
  <2>8. ErasedIsNotStored'
    <3>1. \A t \in tombs : ~Matches(t, q)
      BY <1>6, <2>3 DEF Erased, Matches
    <3> QED
      BY <1>3, <2>4, <3>1 DEF SnapshotsInv, StoreOK, ErasedIsNotStored, Erased
  <2>9. VersionsWereWritten'
    BY <1>2, <1>3, <2>3, <2>4 DEF SnapshotsInv, StoreOK, VersionsWereWritten
  <2>10. RootsAreTrue'
    BY <1>2, <2>3, <2>4 DEF SnapshotsInv, StoreOK, RootsAreTrue
  <2> QED
    BY <1>3, <1>4, <2>7, <2>8, <2>9, <2>10 DEF SnapshotsInv, StoreOK
<1> QED
  BY <1>1, <1>5, <1>6 DEF AppendVersion, Refused

LEMMA EndsKeep ==
  ASSUME SnapshotsInv, NEW s \in Syncer, EndRound(s) \/ Die(s)
  PROVE  SnapshotsInv'
<1>1. faults' \in 0..MaxFaults
  BY FaultsCount DEF EndRound, Die, Answers
<1> QED
  BY <1>1, IdleIsOK, RoundGoesOn DEF EndRound, Die

LEMMA LookKeeps ==
  ASSUME SnapshotsInv, Look
  PROVE  SnapshotsInv'
<1>1. PICK unknown : /\ Answers \/ Fails
                     /\ view' = LeftOut(unknown)
  BY DEF Look
<1>2. faults' \in 0..MaxFaults
  BY <1>1, FaultsCount
<1>3. WorldOK'
  BY <1>1, <1>2 DEF Look, SnapshotsInv, WorldOK, LeftOut, world
<1>4. StoreOK'
  BY DEF Look, SnapshotsInv, StoreOK, RowsOK, ErasedIsNotStored, VersionsWereWritten, RootsAreTrue, Erased, world, store
<1>5. RoundsOK'
  BY DEF Look, SnapshotsInv, RoundsOK, RoundOK, world
<1> QED
  BY <1>3, <1>4, <1>5 DEF SnapshotsInv

LEMMA EraseKeeps ==
  ASSUME SnapshotsInv, NEW t \in Erasable, Erase(t)
  PROVE  SnapshotsInv'
<1>1. rows' = {r \in rows : ~Matches(t, r)} /\ tombs' = tombs \union {t} /\ edits' = edits
  BY DEF Erase, world
<1>2. RowsOK'
  BY <1>1 DEF SnapshotsInv, StoreOK, RowsOK
<1>3. ErasedIsNotStored' /\ VersionsWereWritten' /\ RootsAreTrue'
  BY <1>1 DEF SnapshotsInv, StoreOK, ErasedIsNotStored, VersionsWereWritten, RootsAreTrue, Erased
<1>4. tombs' \subseteq Tombstone
  BY <1>1, SnapshotsAssumption DEF SnapshotsInv, StoreOK
<1>5. WorldOK' /\ RoundsOK'
  BY DEF Erase, SnapshotsInv, WorldOK, RoundsOK, RoundOK, world
<1> QED
  BY <1>2, <1>3, <1>4, <1>5 DEF SnapshotsInv, StoreOK

(* What users and agents do to the files: an edit has a number of its own. *)
LEMMA WorldKeeps ==
  ASSUME SnapshotsInv, edits < MaxEdits, edits' = edits + 1,
         disk' \in [File -> 0..(edits + 1)], dir' \subseteq Project,
         UNCHANGED <<store, sync, view, faults>>
  PROVE  SnapshotsInv'
<1>1. WorldOK' /\ edits \in Nat /\ edits' \in Nat
  BY SnapshotsAssumption DEF SnapshotsInv, WorldOK
<1>2. StoreOK'
  BY <1>1 DEF SnapshotsInv, StoreOK, RowsOK, ErasedIsNotStored, VersionsWereWritten, RootsAreTrue, Erased, store
<1>3. ASSUME NEW s \in Syncer PROVE RoundOK(sync[s])'
  <2>1. RoundOK(sync[s])
    BY DEF SnapshotsInv, RoundsOK
  <2> QED
    BY <1>1, <2>1 DEF RoundOK
<1>4. RoundsOK'
  BY <1>3 DEF SnapshotsInv, RoundsOK
<1> QED
  BY <1>1, <1>2, <1>4 DEF SnapshotsInv

LEMMA AgentsKeep ==
  ASSUME SnapshotsInv, (\E f \in File : Edit(f) \/ Delete(f)) \/ (\E p \in Project : RemoveProject(p))
  PROVE  SnapshotsInv'
<1>1. disk \in [File -> 0..edits] /\ dir \subseteq Project /\ edits \in Nat
  BY SnapshotsAssumption DEF SnapshotsInv, WorldOK
<1>2. /\ edits < MaxEdits /\ edits' = edits + 1 /\ dir' \subseteq Project
      /\ UNCHANGED <<store, sync, view, faults>>
  BY <1>1 DEF Edit, Delete, RemoveProject
<1>3. disk' \in [File -> 0..(edits + 1)]
  BY <1>1 DEF Edit, Delete, RemoveProject
<1> QED
  BY <1>2, <1>3, WorldKeeps

LEMMA InitInv == Init => SnapshotsInv
<1> SUFFICES ASSUME Init PROVE SnapshotsInv
  OBVIOUS
<1>1. WorldOK /\ StoreOK
  BY SnapshotsAssumption
  DEF Init, WorldOK, StoreOK, RowsOK, ErasedIsNotStored, VersionsWereWritten, RootsAreTrue
<1>2. RoundsOK
  BY IdleIsOK DEF Init, RoundsOK
<1> QED
  BY <1>1, <1>2 DEF SnapshotsInv

LEMMA NextKeeps == SnapshotsInv /\ [Next]_vars => SnapshotsInv'
<1> SUFFICES ASSUME SnapshotsInv, [Next]_vars PROVE SnapshotsInv'
  OBVIOUS
<1>1. ASSUME NEW s \in Syncer, Round(s) \/ Die(s) PROVE SnapshotsInv'
  BY <1>1, EnumerateKeeps, ReadLatestKeeps, PrefetchKeeps, ScanFileKeeps, AppendVersionKeeps, EndsKeep
  DEF Round
<1>2. CASE Look
  BY <1>2, LookKeeps
<1>3. ASSUME NEW t \in Erasable, Erase(t) PROVE SnapshotsInv'
  BY <1>3, EraseKeeps
<1>4. CASE (\E f \in File : Edit(f) \/ Delete(f)) \/ (\E p \in Project : RemoveProject(p))
  BY <1>4, AgentsKeep
<1>5. CASE UNCHANGED vars
  BY <1>5 DEF vars, world, store, SnapshotsInv, WorldOK, StoreOK, RowsOK, ErasedIsNotStored,
              VersionsWereWritten, RootsAreTrue, Erased, RoundsOK, RoundOK
<1> QED
  BY <1>1, <1>2, <1>3, <1>4, <1>5 DEF Next

-----------------------------------------------------------------------------
(* Versions, rounds and views stay well typed, and no offset and no number *)
(* of a version of a file is there twice, however many rounds overlap.     *)
THEOREM SnapshotsTypeCorrect == Spec => []TypeOK
<1>1. SnapshotsInv => TypeOK
  <2> SUFFICES ASSUME SnapshotsInv PROVE TypeOK
    OBVIOUS
  <2>1. ASSUME NEW s \in Syncer
        PROVE  /\ sync[s].step \in {"idle", "latest", "batch", "files", "append"}
               /\ sync[s].todo \subseteq [file : File, root : Project \union {None}]
               /\ sync[s].latest \in [File -> Row \union {NoRow}]
               /\ sync[s].event \in Row \union {NoRow}
    <3>1. sync[s] \in RoundShape
      BY DEF SnapshotsInv, RoundsOK, RoundOK
    <3> QED
      BY <3>1 DEF RoundShape
  <2>2. disk \in [File -> Nat] /\ dir \subseteq Project /\ edits \in 1..MaxEdits
    BY SnapshotsAssumption DEF SnapshotsInv, WorldOK
  <2> QED
    BY <2>1, <2>2 DEF TypeOK, SnapshotsInv, WorldOK, StoreOK, RowsOK
<1> QED
  BY <1>1, InitInv, NextKeeps, PTL DEF Spec

(* append_events, class_b::enumerate: what was erased is not stored again,  *)
(* although rounds found, read and took for a new version before the       *)
(* erasure what they append after it.  Of an erased project only memory    *)
(* files are left whose version names no project.                          *)
THEOREM ErasedStaysOut == Spec => []ErasedUnlessUnresolved
<1>1. SnapshotsInv => ErasedUnlessUnresolved
  <2> SUFFICES ASSUME SnapshotsInv, NEW r \in rows, NEW t \in tombs
               PROVE  IF t.scope = "source_path" THEN r.file # t.key
                      ELSE ProjectOf[r.file] = t.key => r.root = None /\ r.file \notin Inside
    BY DEF ErasedUnlessUnresolved
  <2>1. ~Matches(t, r) /\ RootFits(r.file, r.root)
    BY DEF SnapshotsInv, StoreOK, ErasedIsNotStored, RootsAreTrue, Erased
  <2> QED
    BY <2>1 DEF Matches, RootFits
<1> QED
  BY <1>1, InitInv, NextKeeps, PTL DEF Spec

(* scan_snapshot_file: no absence and no failed read becomes a version.    *)
THEOREM EveryVersionWasWritten == Spec => []VersionsWereWritten
<1>1. SnapshotsInv => VersionsWereWritten
  BY DEF SnapshotsInv, StoreOK
<1> QED
  BY <1>1, InitInv, NextKeeps, PTL DEF Spec
=============================================================================
