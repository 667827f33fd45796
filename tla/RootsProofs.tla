----------------------------- MODULE RootsProofs -----------------------------
(* What holds of Roots for every set of hosts, directories, candidates and *)
(* remotes, whatever fails and changes, and without any bound but events.  *)
EXTENDS Roots, FiniteSetTheorems, WellFoundedInduction, TLAPS

-----------------------------------------------------------------------------
(* The invariant of the tables: the last identity of a path is one that it *)
(* had, and what was found is a remote.                                    *)
LastWasSeen == \A r \in DOMAIN identity : identity[r].last \in identity[r].ever

FoundIsRemote == \A p \in Proc : proc[p].step = "identified" => proc[p].answer.id \in Remote

RootsInv ==
  /\ TypeOK
  /\ LastWasSeen
  /\ FoundIsRemote

-----------------------------------------------------------------------------
(* Layers of a path.                                                       *)
LEMMA LeastNatural ==
  ASSUME NEW S \in SUBSET Nat, S # {}
  PROVE  \E m \in S : \A k \in S : m <= k
<1>1. PICK m \in S : \A k \in S : ~(<<k, m>> \in OpToRel(<, Nat))
  BY NatLessThanWellFounded, WFMin
<1>2. \A k \in S : ~(k < m)
  BY <1>1 DEF OpToRel
<1> QED
  BY <1>2

LEMMA LayersOfAPath ==
  ASSUME NEW c \in Dir
  PROVE  /\ c \in Up(c)
         /\ \A a \in Up(c) : a \in Dir /\ Len(a) \in Nat /\ Len(a) <= Len(c)
         /\ \A a, b \in Up(c) : Len(a) = Len(b) => a = b
<1>1. c \in Seq(STRING) /\ Len(c) \in Nat
  BY RootsAssumption
<1>2. ASSUME NEW a \in Up(c)
      PROVE  a \in Dir /\ a \in Seq(STRING) /\ Len(a) \in Nat /\ Len(a) <= Len(c)
             /\ a = SubSeq(c, 1, Len(a))
  <2>1. a \in Dir /\ IsPrefix(a, c)
    BY <1>2 DEF Up
  <2>2. a \in Seq(STRING) /\ Len(a) \in Nat
    BY <2>1, RootsAssumption
  <2>3. Len(a) <= Len(c) /\ SubSeq(a, 1, Len(a)) = SubSeq(c, 1, Len(a))
    BY <2>1 DEF IsPrefix
  <2>4. SubSeq(a, 1, Len(a)) = a
    BY <2>2
  <2> QED
    BY <2>1, <2>2, <2>3, <2>4
<1>3. c \in Up(c)
  BY <1>1 DEF Up, IsPrefix
<1> QED
  BY <1>2, <1>3

(* Of some layers one is the lowest, and only one.                         *)
LEMMA LowestLayer ==
  ASSUME NEW c \in Dir, NEW S \in SUBSET Up(c), S # {}
  PROVE  /\ Lowest(S) \in S
         /\ \A e \in S : Len(e) <= Len(Lowest(S))
         /\ \A d \in S : (\A e \in S : Len(e) <= Len(d)) => d = Lowest(S)
<1>1. \A a \in S : a \in Up(c) /\ Len(a) \in Nat /\ Len(a) <= Len(c)
  BY LayersOfAPath
<1>2. Len(c) \in Nat
  BY RootsAssumption
<1> DEFINE above == {Len(c) - Len(a) : a \in S}
<1>3. above \in SUBSET Nat /\ above # {}
  BY <1>1, <1>2
<1>4. PICK m \in above : \A k \in above : m <= k
  BY <1>3, LeastNatural
<1>5. PICK d \in S : Len(c) - Len(d) = m
  BY <1>4
<1>6. \A e \in S : Len(e) <= Len(d)
  <2> TAKE e \in S
  <2>1. m <= Len(c) - Len(e)
    BY <1>4
  <2> QED
    BY <1>1, <1>2, <1>5, <2>1
<1>7. Lowest(S) \in S /\ \A e \in S : Len(e) <= Len(Lowest(S))
  BY <1>5, <1>6 DEF Lowest
<1>8. \A d2 \in S : (\A e \in S : Len(e) <= Len(d2)) => Len(d2) = Len(Lowest(S))
  BY <1>1, <1>7
<1> QED
  BY <1>1, <1>7, <1>8, LayersOfAPath

(* A layer that is answered is the lowest of the good ones; where none is, *)
(* no layer is good.                                                       *)
LEMMA NearestIsLowest ==
  ASSUME NEW c \in Dir, NEW layers \in SUBSET Up(c), NEW good, NEW unread,
         NEW at, at = Nearest(layers, good, unread), at # Unknown
  PROVE  /\ at \in Dir => /\ at \in layers /\ at \in good /\ at \notin unread
                          /\ at = Lowest(layers \intersect good)
         /\ at \notin Dir => layers \intersect good = {}
<1> DEFINE stop == layers \intersect (good \union unread)
<1>1. CASE stop = {}
  <2>1. at = NoDir
    BY <1>1 DEF Nearest
  <2>2. at \notin Dir
    BY <2>1, RootsAssumption DEF NoDir
  <2> QED
    BY <1>1, <2>2
<1>2. CASE stop # {}
  <2>1. stop \in SUBSET Up(c)
    OBVIOUS
  <2>2. at = Lowest(stop) /\ at \notin unread
    BY <1>2 DEF Nearest
  <2>3. at \in stop /\ \A e \in stop : Len(e) <= Len(at)
    BY <1>2, <2>1, <2>2, LowestLayer
  <2>4. at \in Dir /\ at \in layers /\ at \in good
    BY <2>1, <2>2, <2>3, LayersOfAPath
  <2>5. at = Lowest(layers \intersect good)
    <3>1. layers \intersect good \in SUBSET Up(c) /\ at \in layers \intersect good
      BY <2>4
    <3>2. \A e \in layers \intersect good : Len(e) <= Len(at)
      BY <2>3
    <3> QED
      BY <3>1, <3>2, LowestLayer
  <2> QED
    BY <2>2, <2>4, <2>5
<1> QED
  BY <1>1, <1>2

-----------------------------------------------------------------------------
(* What a probe answers.                                                   *)
LEMMA IdentifiedIsNearest ==
  ASSUME NEW r \in Path, NEW mounts, NEW unread,
         NEW answer, answer = Identified(r, mounts, unread), repo \in [Dir -> Holds]
  PROVE  /\ answer \in Answer
         /\ answer.id # None => answer.id = repo[Lowest(GitAbove(r.dir))]
<1> DEFINE layers == IF r.dir \in InDistro THEN {r.dir} ELSE Up(r.dir)
           at == Nearest(layers, Git, unread)
<1>1. r.dir \in Dir
  BY DEF Path
<1>2. \/ answer.id = None /\ answer.verdict \in Verdict /\ answer = [verdict |-> answer.verdict, id |-> None]
      \/ /\ answer = [verdict |-> "resolved", id |-> repo[at]]
         /\ at \in Dir /\ at # Unknown /\ repo[at] \in Remote
  BY DEF Identified, Verdict
<1>3. CASE answer = [verdict |-> "resolved", id |-> repo[at]] /\ at \in Dir /\ at # Unknown /\ repo[at] \in Remote
  <2>1. layers \in SUBSET Up(r.dir)
    BY <1>1, LayersOfAPath
  <2>2. at = Lowest(layers \intersect Git) /\ at \in layers /\ at \in Git
    BY <1>1, <1>3, <2>1, NearestIsLowest
  <2>3. at = Lowest(GitAbove(r.dir))
    <3>1. CASE r.dir \in InDistro
      <4>1. at = r.dir /\ r.dir \in GitAbove(r.dir) /\ GitAbove(r.dir) \in SUBSET Up(r.dir)
        BY <1>1, <2>2, <3>1, LayersOfAPath DEF GitAbove
      <4>2. \A e \in GitAbove(r.dir) : Len(e) <= Len(r.dir)
        BY <1>1, LayersOfAPath DEF GitAbove
      <4> QED
        BY <1>1, <4>1, <4>2, LowestLayer
    <3>2. CASE r.dir \notin InDistro
      BY <2>2, <3>2 DEF GitAbove
    <3> QED
      BY <3>1, <3>2
  <2> QED
    BY <1>3, <2>3 DEF Answer, Verdict
<1> QED
  BY <1>2, <1>3 DEF Answer

Nearby(root, source, c) ==
  IF GitAbove(c.dir) \subseteq Home
  THEN source = "marker" /\ root.dir = Lowest((Up(c.dir) \intersect Marker) \ Home)
  ELSE source = "git" /\ root.dir = Lowest(GitAbove(c.dir) \ Home)

LEMMA DiscoveredIsNearest ==
  ASSUME NEW c \in Candidate, NEW mounts, NEW unread,
         NEW found, found = Discovered(c, mounts, unread), found.path # None
  PROVE  /\ found.path \in Path /\ found.source \in {"git", "marker"}
         /\ found.path.dir \in InDistro \/ Nearby(found.path, found.source, c)
<1> DEFINE layers == Up(c.dir) \ Home
           blind == IF c.dir \in InDistro THEN {} ELSE unread
           good == IF c.dir \in InDistro THEN Dir \ unread ELSE Dir
           git == Nearest(layers, Git \intersect good, blind)
           marked == Nearest(layers, Marker \intersect good, blind)
           at(d, source) == [path |-> [form |-> "own", dir |-> d], source |-> source]
<1>1. c.dir \in Dir /\ layers \in SUBSET Up(c.dir)
  BY RootsAssumption DEF Path
<1>2. git # Unknown
  BY DEF Discovered
<1> DEFINE goodGit == Git \intersect good
           goodMarker == Marker \intersect good
<1>3. /\ git \in Dir => git \in layers /\ git \in goodGit /\ git = Lowest(layers \intersect goodGit)
      /\ git \notin Dir => layers \intersect goodGit = {}
  <2>1. PICK l, gs, us, g : l = layers /\ gs = goodGit /\ us = blind /\ g = git
    OBVIOUS
  <2>2. PICK e \in Dir : e = c.dir
    BY <1>1
  <2>3. l \in SUBSET Up(e) /\ g = Nearest(l, gs, us) /\ g # Unknown
    BY <1>1, <1>2, <2>1, <2>2
  <2>4. /\ g \in Dir => g \in l /\ g \in gs /\ g = Lowest(l \intersect gs)
        /\ g \notin Dir => l \intersect gs = {}
    BY <2>3, NearestIsLowest
  <2> QED
    BY <2>1, <2>4
<1>4. marked # Unknown /\ marked \in Dir =>
        marked \in layers /\ marked = Lowest(layers \intersect goodMarker)
  <2> SUFFICES ASSUME marked # Unknown, marked \in Dir
               PROVE  marked \in layers /\ marked = Lowest(layers \intersect goodMarker)
    OBVIOUS
  <2>1. PICK l, gs, us, g : l = layers /\ gs = goodMarker /\ us = blind /\ g = marked
    OBVIOUS
  <2>2. PICK e \in Dir : e = c.dir
    BY <1>1
  <2>3. l \in SUBSET Up(e) /\ g = Nearest(l, gs, us) /\ g # Unknown /\ g \in Dir
    BY <1>1, <2>1, <2>2
  <2>4. g \in l /\ g = Lowest(l \intersect gs)
    BY <2>3, NearestIsLowest
  <2> QED
    BY <2>1, <2>4
<1>5. PICK d \in layers, source \in {"git", "marker"} :
        /\ found = at(d, source)
        /\ source = "git" => d = git /\ git \in Dir
        /\ source = "marker" => d = marked /\ marked \in Dir /\ marked # Unknown /\ git \notin Dir
  <2>1. CASE git \in Dir
    <3>1. found = at(git, "git")
      BY <1>2, <2>1 DEF Discovered
    <3>2. git \in layers
      BY <1>3, <2>1
    <3> QED
      BY <2>1, <3>1, <3>2
  <2>2. CASE git \notin Dir
    <3>1. marked # Unknown /\ marked \in Dir /\ found = at(marked, "marker")
      BY <1>2, <2>2 DEF Discovered
    <3>2. marked \in layers
      BY <1>4, <3>1
    <3> QED
      BY <2>2, <3>1, <3>2
  <2> QED
    BY <2>1, <2>2
<1>6. found.path \in Path /\ found.source = source /\ found.path.dir = d
  BY <1>1, <1>5, LayersOfAPath DEF Path
<1>7. CASE c.dir \in InDistro
  <2>1. d \in Dir /\ d # <<>> /\ d \in Seq(STRING) /\ c.dir \in Seq(STRING) /\ IsPrefix(d, c.dir)
    BY <1>1, <1>5, RootsAssumption DEF Up
  <2>2. d[1] = c.dir[1]
    <3>1. Len(d) >= 1 /\ Len(d) <= Len(c.dir) /\ SubSeq(d, 1, Len(d)) = SubSeq(c.dir, 1, Len(d))
      BY <2>1 DEF IsPrefix
    <3>2. SubSeq(d, 1, Len(d))[1] = d[1] /\ SubSeq(c.dir, 1, Len(d))[1] = c.dir[1]
      BY <2>1, <3>1
    <3> QED
      BY <3>1, <3>2
  <2> QED
    BY <1>6, <1>7, <2>1, <2>2, RootsAssumption
<1>8. CASE c.dir \notin InDistro
  <2>1. Git \intersect good = Git /\ Marker \intersect good = Marker
    BY <1>8 DEF Git, Marker
  <2>2. CASE source = "git"
    <3>1. d \in layers \intersect Git /\ d = Lowest(layers \intersect Git)
      BY <1>5, <1>3, <2>1, <2>2
    <3>2. layers \intersect Git = GitAbove(c.dir) \ Home
      BY DEF GitAbove
    <3> QED
      BY <1>6, <2>2, <3>1, <3>2 DEF Nearby
  <2>3. CASE source = "marker"
    <3>1. layers \intersect Git = {}
      BY <1>5, <1>3, <2>1, <2>3
    <3>2. GitAbove(c.dir) \subseteq Home
      BY <3>1 DEF GitAbove
    <3>3. d = Lowest(layers \intersect Marker)
      BY <1>5, <1>4, <2>1, <2>3
    <3>4. layers \intersect Marker = (Up(c.dir) \intersect Marker) \ Home
      OBVIOUS
    <3> QED
      BY <1>6, <2>3, <3>2, <3>3, <3>4 DEF Nearby
  <2> QED
    BY <1>5, <2>2, <2>3
<1> QED
  BY <1>6, <1>7, <1>8

-----------------------------------------------------------------------------
(* The invariant is kept, action by action.                                *)
LEMMA RootsInvInit == Init => RootsInv
<1> SUFFICES ASSUME Init PROVE RootsInv
  OBVIOUS
<1>1. repo \in [Dir -> Holds]
  BY RootsAssumption DEF Init
<1>2. IsTable(registry, {"git", "marker"}) /\ revision \in Nat
  BY RootsAssumption, FS_CardinalityType DEF Init
<1>3. /\ IsTable(identity, Record) /\ IsTable(verdict, Verdict)
      /\ IsTable(report.ids, Record) /\ IsTable(report.verdicts, Verdict)
      /\ DOMAIN identity = {} /\ DOMAIN report.ids = {}
  BY DEF Init, IsTable, NoReport
<1>4. report \in Reports(report.ids, report.verdicts)
  BY DEF Init, Reports, NoReport
<1>5. /\ seen \in [Proc -> SUBSET Path] /\ proc \in [Proc -> Scanning \union ToSweep \union Asked]
      /\ \A p \in Proc : proc[p].step = "idle"
  BY DEF Init, Idle, Scanning
<1> QED
  BY <1>1, <1>2, <1>3, <1>4, <1>5
  DEF RootsInv, TypeOK, LastWasSeen, FoundIsRemote

(* What concerns only a host and what it has seen.                         *)
LEMMA HostStep ==
  ASSUME RootsInv, UNCHANGED <<repo, tables, report>>,
         NEW p \in Proc, NEW w \in Scanning \union ToSweep \union Asked, NEW s \in SUBSET Path,
         w.step = "identified" => w.answer.id \in Remote,
         proc' = [proc EXCEPT ![p] = w], seen' = [seen EXCEPT ![p] = s]
  PROVE  RootsInv'
<1>1. /\ proc' \in [Proc -> Scanning \union ToSweep \union Asked]
      /\ seen' \in [Proc -> SUBSET Path]
  BY DEF RootsInv, TypeOK
<1>2. FoundIsRemote'
  BY DEF RootsInv, TypeOK, FoundIsRemote
<1> QED
  BY <1>1, <1>2 DEF RootsInv, TypeOK, tables, LastWasSeen

LEMMA SweepingTyped ==
  ASSUME NEW todo \in SUBSET Path, NEW mounts \in BOOLEAN
  PROVE  Sweeping(todo, mounts) \in Scanning \union ToSweep /\ Sweeping(todo, mounts).step # "identified"
BY DEF Sweeping, Idle, Scanning, ToSweep

LEMMA StepTells ==
  ASSUME RootsInv, NEW p \in Proc
  PROVE  /\ proc[p].step = "sweep" => proc[p] \in ToSweep
         /\ proc[p].step \in {"identified", "noting"} => proc[p] \in Asked
BY DEF RootsInv, TypeOK, Scanning, ToSweep, Asked

LEMMA DiscoverInv ==
  ASSUME RootsInv, NEW p \in Proc, Discover(p)
  PROVE  RootsInv'
<1>1. PICK c \in Candidate, mounts \in BOOLEAN, unread \in Unread :
        IF Discovered(c, mounts, unread).path = None
        THEN /\ UNCHANGED registry
             /\ proc' = [proc EXCEPT ![p] = [step |-> "registered"]]
        ELSE /\ registry' = Put(registry, Discovered(c, mounts, unread).path,
                                Discovered(c, mounts, unread).source)
             /\ proc' = [proc EXCEPT ![p] =
                  [step |-> IF Counted(Discovered(c, mounts, unread).path)
                            THEN "registered" ELSE "inserted"]]
  BY DEF Discover
<1>2. PICK found : found = Discovered(c, mounts, unread)
  OBVIOUS
<1>3. UNCHANGED <<repo, revision, identity, verdict, seen, report>>
  BY DEF Discover
<1>4. IsTable(registry', {"git", "marker"})
  <2>1. CASE found.path = None
    BY <1>1, <1>2, <2>1 DEF RootsInv, TypeOK
  <2>2. CASE found.path # None
    <3>1. found.path \in Path /\ found.source \in {"git", "marker"}
      BY <1>2, <2>2, DiscoveredIsNearest
    <3>2. PICK r \in Path, v \in {"git", "marker"} : r = found.path /\ v = found.source
      BY <3>1
    <3>3. registry' = Put(registry, r, v)
      BY <1>1, <1>2, <2>2, <3>2
    <3>4. IsTable(registry, {"git", "marker"})
      BY DEF RootsInv, TypeOK
    <3>5. PICK old, new : old = registry /\ new = registry'
      OBVIOUS
    <3>6. IsTable(new, {"git", "marker"})
      BY <3>2, <3>3, <3>4, <3>5 DEF IsTable, Put
    <3> QED
      BY <3>5, <3>6
  <2> QED
    BY <2>1, <2>2
<1>5. \E x \in {"registered", "inserted"} : proc' = [proc EXCEPT ![p] = [step |-> x]]
  BY <1>1
<1>6. proc' \in [Proc -> Scanning \union ToSweep \union Asked] /\ FoundIsRemote'
  BY <1>5 DEF RootsInv, TypeOK, FoundIsRemote, Scanning
<1> QED
  BY <1>3, <1>4, <1>6 DEF RootsInv, TypeOK, LastWasSeen

LEMMA CountRootInv ==
  ASSUME RootsInv, NEW p \in Proc, CountRoot(p)
  PROVE  RootsInv'
<1>1. /\ revision' \in Nat /\ proc' = [proc EXCEPT ![p] = [step |-> "registered"]]
      /\ UNCHANGED <<repo, registry, identity, verdict, seen, report>>
  BY DEF CountRoot, RootsInv, TypeOK
<1>2. proc' \in [Proc -> Scanning \union ToSweep \union Asked] /\ FoundIsRemote'
  BY <1>1 DEF RootsInv, TypeOK, FoundIsRemote, Scanning
<1> QED
  BY <1>1, <1>2 DEF RootsInv, TypeOK, LastWasSeen

LEMMA BeginSweepInv ==
  ASSUME RootsInv, NEW p \in Proc, BeginSweep(p)
  PROVE  RootsInv'
<1>1. PICK mounts \in BOOLEAN : proc' = [proc EXCEPT ![p] = Sweeping(DOMAIN registry \ seen[p], mounts)]
  BY DEF BeginSweep
<1>2. UNCHANGED <<repo, tables, seen, report>>
  BY DEF BeginSweep
<1>3. PICK todo \in SUBSET Path : todo = DOMAIN registry \ seen[p]
  BY DEF RootsInv, TypeOK, IsTable
<1>4. PICK w \in Scanning \union ToSweep : w = Sweeping(todo, mounts) /\ w.step # "identified"
  BY SweepingTyped
<1>5. proc' = [proc EXCEPT ![p] = w] /\ seen' = [seen EXCEPT ![p] = seen[p]] /\ seen[p] \in SUBSET Path
  BY <1>1, <1>2, <1>3, <1>4 DEF RootsInv, TypeOK
<1> QED
  BY <1>2, <1>4, <1>5, HostStep

LEMMA StopInv ==
  ASSUME RootsInv, NEW p \in Proc, OutOfTime(p) \/ Restart(p)
  PROVE  RootsInv'
<1>1. UNCHANGED <<repo, tables, report>> /\ proc' = [proc EXCEPT ![p] = Idle]
  BY DEF OutOfTime, Restart
<1>2. PICK s \in SUBSET Path : seen' = [seen EXCEPT ![p] = s]
  <2>1. seen' = [seen EXCEPT ![p] = seen[p]] \/ seen' = [seen EXCEPT ![p] = {}]
    BY DEF OutOfTime, Restart, RootsInv, TypeOK
  <2>2. seen[p] \in SUBSET Path /\ {} \in SUBSET Path
    BY DEF RootsInv, TypeOK
  <2> QED
    BY <2>1, <2>2
<1>3. Idle \in Scanning /\ Idle.step # "identified"
  BY DEF Idle, Scanning
<1>4. PICK w \in Scanning : w = Idle
  BY <1>3
<1> QED
  BY <1>1, <1>2, <1>3, <1>4, HostStep

LEMMA AskInv ==
  ASSUME RootsInv, NEW p \in Proc, Ask(p)
  PROVE  RootsInv'
<1>1. proc[p] \in ToSweep
  BY StepTells DEF Ask
<1>2. PICK r \in proc[p].todo, unread \in Unread :
        /\ proc' = [proc EXCEPT ![p] =
             [step |-> IF Identified(r, proc[p].mounts, unread).id = None THEN "noting" ELSE "identified",
              root |-> r, answer |-> Identified(r, proc[p].mounts, unread),
              todo |-> proc[p].todo \ {r}, mounts |-> proc[p].mounts]]
        /\ seen' = [seen EXCEPT ![p] =
             IF Identified(r, proc[p].mounts, unread).verdict = "unresolved" THEN Forget(p, r)
             ELSE @ \union {r}]
  BY DEF Ask
<1>3. PICK mounts \in BOOLEAN, todo \in SUBSET Path : mounts = proc[p].mounts /\ todo = proc[p].todo \ {r}
  BY <1>1 DEF ToSweep
<1>4. r \in Path
  BY <1>1 DEF ToSweep
<1>5. PICK answer : answer = Identified(r, mounts, unread)
  OBVIOUS
<1>6. answer \in Answer
  BY <1>4, <1>5, IdentifiedIsNearest DEF RootsInv, TypeOK
<1>7. PICK step \in {"noting", "identified"} :
        step = IF answer.id = None THEN "noting" ELSE "identified"
  OBVIOUS
<1>8. PICK w : w = [step |-> step, root |-> r, answer |-> answer, todo |-> todo, mounts |-> mounts]
  OBVIOUS
<1>9. w \in Asked /\ (w.step = "identified" => w.answer.id \in Remote)
  BY <1>4, <1>6, <1>7, <1>8 DEF Asked, Answer
<1>10. proc' = [proc EXCEPT ![p] = w]
  BY <1>2, <1>3, <1>5, <1>7, <1>8
<1>11. PICK s \in SUBSET Path : seen' = [seen EXCEPT ![p] = s]
  <2>1. seen' = [seen EXCEPT ![p] = Forget(p, r)] \/ seen' = [seen EXCEPT ![p] = seen[p] \union {r}]
    BY <1>2
  <2>2. Forget(p, r) \in SUBSET Path /\ seen[p] \union {r} \in SUBSET Path
    BY <1>4 DEF RootsInv, TypeOK, Forget
  <2> QED
    BY <2>1, <2>2
<1>12. UNCHANGED <<repo, tables, report>>
  BY DEF Ask
<1> QED
  BY <1>9, <1>10, <1>11, <1>12, HostStep

LEMMA RecordIdentityInv ==
  ASSUME RootsInv, NEW p \in Proc, RecordIdentity(p)
  PROVE  RootsInv'
<1>1. proc[p] \in Asked /\ proc[p].step = "identified"
  BY StepTells DEF RecordIdentity
<1>2. PICK r \in Path : r = proc[p].root
  BY <1>1 DEF Asked
<1>3. UNCHANGED <<repo, registry, revision, verdict, report>>
  BY DEF RecordIdentity
<1>4. CASE /\ identity' = Put(identity, r, Recorded(IdsOf(r), proc[p].answer.id))
           /\ proc' = [proc EXCEPT ![p].step = "noting"]
           /\ UNCHANGED seen
  <2>1. PICK id \in Remote : id = proc[p].answer.id
    BY <1>1 DEF RootsInv, FoundIsRemote
  <2>2. PICK row : row = Recorded(IdsOf(r), id)
    OBVIOUS
  <2>3. row \in Record /\ row.last \in row.ever /\ IdsOf(r) \subseteq row.ever
    <3>1. IdsOf(r) \subseteq Remote
      BY DEF IdsOf, RootsInv, TypeOK, IsTable, Record
    <3> QED
      BY <2>2, <3>1 DEF Recorded, Record
  <2>4. PICK old, new : old = identity /\ new = identity'
    OBVIOUS
  <2>5. IsTable(old, Record) /\ new = Put(old, r, row)
    BY <1>4, <2>1, <2>2, <2>4 DEF RootsInv, TypeOK
  <2>6. /\ IsTable(new, Record) /\ DOMAIN new = DOMAIN old \union {r} /\ new[r] = row
        /\ \A q \in DOMAIN old : q # r => new[q] = old[q]
    BY <2>3, <2>5 DEF IsTable, Put
  <2>7. LastWasSeen'
    BY <2>3, <2>4, <2>6 DEF RootsInv, LastWasSeen
  <2>8. proc' \in [Proc -> Scanning \union ToSweep \union Asked] /\ FoundIsRemote'
    <3>1. PICK w : w = [proc[p] EXCEPT !.step = "noting"]
      OBVIOUS
    <3>2. w \in Asked /\ w.step = "noting"
      BY <1>1, <3>1 DEF Asked
    <3>3. proc' = [proc EXCEPT ![p] = w]
      BY <1>4, <3>1 DEF RootsInv, TypeOK
    <3> QED
      BY <3>2, <3>3 DEF RootsInv, TypeOK, FoundIsRemote
  <2> QED
    BY <1>3, <1>4, <2>4, <2>6, <2>7, <2>8 DEF RootsInv, TypeOK
<1>5. CASE /\ seen' = [seen EXCEPT ![p] = Forget(p, r)]
           /\ proc' = [proc EXCEPT ![p].step = "noting",
                                   ![p].answer = Unrecorded(@)]
           /\ UNCHANGED identity
  <2>1. PICK w : w = [proc[p] EXCEPT !.step = "noting",
                                     !.answer = Unrecorded(@)]
    OBVIOUS
  <2>2. w \in Asked /\ w.step = "noting"
    BY <1>1, <2>1 DEF Asked, Answer, Verdict, Unrecorded
  <2>3. proc' = [proc EXCEPT ![p] = w]
    BY <1>5, <2>1 DEF RootsInv, TypeOK
  <2>4. PICK s \in SUBSET Path : s = Forget(p, r)
    BY DEF RootsInv, TypeOK, Forget
  <2> QED
    BY <1>3, <1>5, <2>2, <2>3, <2>4, HostStep DEF tables
<1> QED
  BY <1>2, <1>4, <1>5 DEF RecordIdentity

LEMMA NoteVerdictInv ==
  ASSUME RootsInv, NEW p \in Proc, NoteVerdict(p)
  PROVE  RootsInv'
<1>1. proc[p] \in Asked
  BY StepTells DEF NoteVerdict
<1>2. PICK r \in Path, v \in Verdict : r = proc[p].root /\ v = proc[p].answer.verdict
  BY <1>1 DEF Asked, Answer
<1>3. UNCHANGED <<repo, registry, revision, identity, report>>
  BY DEF NoteVerdict
<1>4. proc' \in [Proc -> Scanning \union ToSweep \union Asked] /\ FoundIsRemote'
  <2>1. PICK todo \in SUBSET Path, mounts \in BOOLEAN : todo = proc[p].todo /\ mounts = proc[p].mounts
    BY <1>1 DEF Asked
  <2>2. PICK w \in Scanning \union ToSweep : w = Sweeping(todo, mounts) /\ w.step # "identified"
    BY SweepingTyped
  <2>3. proc' = [proc EXCEPT ![p] = w]
    BY <2>1, <2>2 DEF NoteVerdict
  <2> QED
    BY <2>2, <2>3 DEF RootsInv, TypeOK, FoundIsRemote
<1>5. IsTable(verdict', Verdict)
  <2>1. PICK old, new : old = verdict /\ new = verdict'
    OBVIOUS
  <2>2. IsTable(old, Verdict) /\ (new = old \/ new = Put(old, r, v))
    BY <1>2, <2>1 DEF NoteVerdict, RootsInv, TypeOK
  <2> QED
    BY <2>1, <2>2 DEF IsTable, Put
<1>6. seen' \in [Proc -> SUBSET Path]
  BY DEF NoteVerdict, RootsInv, TypeOK, Forget
<1> QED
  BY <1>3, <1>4, <1>5, <1>6 DEF RootsInv, TypeOK, LastWasSeen

LEMMA ReportInv ==
  ASSUME RootsInv, Report
  PROVE  RootsInv'
<1>1. UNCHANGED <<repo, tables, seen, proc>>
  BY DEF Report, BeginReport, ReadVerdicts, ReadRoots, ReadRevision
<1>2. /\ report \in Reports(report.ids, report.verdicts)
      /\ IsTable(report.ids, Record) /\ IsTable(report.verdicts, Verdict)
  BY DEF RootsInv, TypeOK
<1>3. TypeOK'
  <2>1. CASE BeginReport
    <3>1. PICK mounts \in BOOLEAN :
            report' = [NoReport EXCEPT !.step = "identities", !.mounts = mounts, !.ids = identity]
      BY <2>1 DEF BeginReport
    <3>2. /\ report'.step = "identities" /\ report'.mounts = mounts /\ report'.ids = identity
          /\ report'.verdicts = <<>> /\ report'.paths = {} /\ report'.revision = 0
          /\ report' = [step |-> "identities", mounts |-> mounts, ids |-> identity, verdicts |-> <<>>,
                        paths |-> {}, revision |-> 0]
      BY <3>1 DEF NoReport
    <3>3. report' \in Reports(report'.ids, report'.verdicts)
      BY <3>2 DEF Reports
    <3>4. IsTable(report'.ids, Record) /\ IsTable(report'.verdicts, Verdict)
      BY <3>2 DEF RootsInv, TypeOK, IsTable
    <3> QED
      BY <1>1, <3>2, <3>3, <3>4 DEF RootsInv, TypeOK, tables
  <2>2. CASE ReadVerdicts
    <3>1. report' = [report EXCEPT !.step = "verdicts", !.verdicts = verdict]
      BY <2>2 DEF ReadVerdicts
    <3>2. /\ report' \in Reports(report'.ids, report'.verdicts)
          /\ report'.ids = report.ids /\ report'.verdicts = verdict /\ report'.paths = report.paths
      BY <1>2, <3>1 DEF Reports
    <3>3. IsTable(report'.ids, Record) /\ IsTable(report'.verdicts, Verdict)
      BY <1>2, <3>2 DEF RootsInv, TypeOK
    <3> QED
      BY <1>1, <1>2, <3>2, <3>3 DEF RootsInv, TypeOK, tables
  <2>3. CASE ReadRoots
    <3>1. report' = [report EXCEPT !.step = "roots", !.paths = DOMAIN registry]
      BY <2>3 DEF ReadRoots
    <3>2. DOMAIN registry \in SUBSET Path
      BY DEF RootsInv, TypeOK, IsTable
    <3>3. /\ report' \in Reports(report'.ids, report'.verdicts) /\ report'.ids = report.ids
          /\ report'.verdicts = report.verdicts /\ report'.paths = DOMAIN registry
      BY <1>2, <3>1, <3>2 DEF Reports
    <3> QED
      BY <1>1, <1>2, <3>2, <3>3 DEF RootsInv, TypeOK, tables
  <2>4. CASE ReadRevision
    <3>1. report' = [report EXCEPT !.step = "done", !.revision = revision] /\ revision \in Nat
      BY <2>4 DEF ReadRevision, RootsInv, TypeOK
    <3>2. /\ report' \in Reports(report'.ids, report'.verdicts) /\ report'.ids = report.ids
          /\ report'.verdicts = report.verdicts /\ report'.paths = report.paths
      BY <1>2, <3>1 DEF Reports
    <3> QED
      BY <1>1, <1>2, <3>2 DEF RootsInv, TypeOK, tables
  <2> QED
    BY <2>1, <2>2, <2>3, <2>4 DEF Report
<1>4. UNCHANGED <<registry, identity, proc>>
  BY <1>1 DEF tables
<1> QED
  BY <1>3, <1>4 DEF RootsInv, LastWasSeen, FoundIsRemote

LEMMA ChangeInv ==
  ASSUME RootsInv, NEW c \in Changes, Change(c[1], c[2])
  PROVE  RootsInv'
<1>1. PICK d \in Dir, v \in Holds : d = c[1] /\ v = c[2]
  BY RootsAssumption
<1>2. /\ repo' = [e \in Dir |-> IF e = d \/ (v = "gone" /\ IsPrefix(d, e)) THEN v ELSE repo[e]]
      /\ UNCHANGED <<tables, seen, proc, report>>
  BY <1>1 DEF Change
<1>3. repo' \in [Dir -> Holds]
  BY <1>2 DEF RootsInv, TypeOK
<1> QED
  BY <1>2, <1>3 DEF RootsInv, TypeOK, tables, LastWasSeen, FoundIsRemote

LEMMA RootsInvNext ==
  ASSUME RootsInv, [Next]_vars
  PROVE  RootsInv'
<1>1. CASE \E p \in Proc : Round(p) \/ OutOfTime(p) \/ Restart(p)
  BY <1>1, DiscoverInv, CountRootInv, BeginSweepInv, AskInv, RecordIdentityInv, NoteVerdictInv,
     StopInv DEF Round
<1>2. CASE Report
  BY <1>2, ReportInv
<1>3. CASE \E c \in Changes : Change(c[1], c[2])
  BY <1>3, ChangeInv
<1>4. CASE UNCHANGED vars
  BY <1>4 DEF vars, tables, RootsInv, TypeOK, LastWasSeen, FoundIsRemote
<1> QED
  BY <1>1, <1>2, <1>3, <1>4 DEF Next

LEMMA AlwaysRootsInv == Spec => []RootsInv
<1>1. Init => RootsInv
  BY RootsInvInit
<1>2. RootsInv /\ [Next]_vars => RootsInv'
  BY RootsInvNext
<1> QED
  BY <1>1, <1>2, PTL DEF Spec

(* Registry, records, hosts and reports stay within their types: one row   *)
(* per registered path, one last identity and one verdict per path.        *)
THEOREM RootsTypeCorrect == Spec => []TypeOK
BY AlwaysRootsInv, PTL DEF RootsInv

-----------------------------------------------------------------------------
(* What is answered.  A host is about to record what it was told of a root,*)
(* or will ask for it.                                                     *)
Busy(p, r) == proc[p].step \in {"identified", "noting"} /\ proc[p].root = r
WillAsk(p, r) == r \notin seen[p] \/ Busy(p, r)

(* A host notes no root as resolved whose identity is not recorded, counts *)
(* none as asked that it notes as unresolved, and has a verdict, or is     *)
(* about to have one, for those it counts.                                 *)
HostOwes(p) ==
  /\ proc[p].step = "identified" => proc[p].answer.verdict = "resolved"
  /\ proc[p].step = "noting" /\ proc[p].answer.verdict = "resolved" => proc[p].root \in DOMAIN identity
  /\ proc[p].step = "noting" /\ proc[p].answer.verdict = "unresolved" => proc[p].root \notin seen[p]
  /\ \A r \in seen[p] : r \in DOMAIN verdict \/ Busy(p, r)

VerdictHolds(r) ==
  /\ verdict[r] = "resolved" => r \in DOMAIN identity
  /\ verdict[r] = "unresolved" => \E p \in Proc : WillAsk(p, r)

ReportHolds ==
  \A r \in DOMAIN report.verdicts : report.verdicts[r] = "resolved" => r \in DOMAIN identity

AnsweredInv ==
  /\ \A p \in Proc : HostOwes(p)
  /\ \A r \in DOMAIN verdict : VerdictHolds(r)
  /\ ReportHolds

(* A step of one host: it owes what a host owes, and a verdict that it did *)
(* not write is one it would still ask about if it would before.           *)
LEMMA HostAnswers ==
  ASSUME RootsInv, AnsweredInv, NEW q \in Proc, NEW w, NEW s,
         proc' = [proc EXCEPT ![q] = w], seen' = [seen EXCEPT ![q] = s], UNCHANGED report,
         DOMAIN identity \subseteq DOMAIN identity', DOMAIN verdict \subseteq DOMAIN verdict',
         HostOwes(q)',
         \A r \in DOMAIN verdict' :
           \/ r \in DOMAIN verdict /\ verdict'[r] = verdict[r] /\ (WillAsk(q, r) => WillAsk(q, r)')
           \/ VerdictHolds(r)'
  PROVE  AnsweredInv'
<1>1. /\ DOMAIN proc = Proc /\ DOMAIN seen = Proc
      /\ \A p \in Proc : p # q => proc'[p] = proc[p] /\ seen'[p] = seen[p]
  BY DEF RootsInv, TypeOK
<1>2. ASSUME NEW p \in Proc, p # q PROVE HostOwes(p)'
  <2>1. HostOwes(p) /\ proc'[p] = proc[p] /\ seen'[p] = seen[p]
    BY <1>1, <1>2 DEF AnsweredInv
  <2> QED
    BY <2>1 DEF HostOwes, Busy
<1>3. ASSUME NEW r \in DOMAIN verdict', r \in DOMAIN verdict, verdict'[r] = verdict[r],
             WillAsk(q, r) => WillAsk(q, r)'
      PROVE  VerdictHolds(r)'
  <2>1. VerdictHolds(r)
    BY <1>3 DEF AnsweredInv
  <2>2. ASSUME NEW p \in Proc, WillAsk(p, r) PROVE WillAsk(p, r)'
    BY <1>1, <1>3, <2>2 DEF WillAsk, Busy
  <2> QED
    BY <1>3, <2>1, <2>2 DEF VerdictHolds
<1>4. ReportHolds'
  BY DEF AnsweredInv, ReportHolds
<1> QED
  BY <1>2, <1>3, <1>4 DEF AnsweredInv

(* A host that is not about to record anything, before or after.           *)
LEMMA QuietHostAnswers ==
  ASSUME RootsInv, AnsweredInv, NEW q \in Proc, NEW w, NEW s,
         proc' = [proc EXCEPT ![q] = w], seen' = [seen EXCEPT ![q] = s],
         UNCHANGED <<identity, verdict, report>>,
         w.step \notin {"identified", "noting"},
         s = {} \/ (s = seen[q] /\ proc[q].step \notin {"identified", "noting"})
  PROVE  AnsweredInv'
<1>1. proc'[q] = w /\ seen'[q] = s /\ HostOwes(q)
  BY DEF RootsInv, TypeOK, AnsweredInv
<1>2. HostOwes(q)'
  BY <1>1 DEF HostOwes, Busy
<1>3. \A r : WillAsk(q, r) => WillAsk(q, r)'
  BY <1>1 DEF WillAsk, Busy
<1> QED
  BY <1>2, <1>3, HostAnswers

LEMMA IdentifiedTells ==
  ASSUME NEW r, NEW mounts, NEW unread
  PROVE  Identified(r, mounts, unread).verdict = "resolved" <=> Identified(r, mounts, unread).id # None
BY RootsAssumption DEF Identified

LEMMA AskAnswers ==
  ASSUME RootsInv, AnsweredInv, NEW q \in Proc, Ask(q)
  PROVE  AnsweredInv'
<1>1. PICK r, answer, w, s :
        /\ answer.verdict = "resolved" <=> answer.id # None
        /\ w.step = (IF answer.id = None THEN "noting" ELSE "identified")
        /\ w.root = r /\ w.answer = answer
        /\ s = (IF answer.verdict = "unresolved" THEN seen[q] \ {r} ELSE seen[q] \union {r})
        /\ proc' = [proc EXCEPT ![q] = w] /\ seen' = [seen EXCEPT ![q] = s]
  <2>1. PICK r \in proc[q].todo, unread \in Unread :
          /\ proc' = [proc EXCEPT ![q] =
               [step |-> IF Identified(r, proc[q].mounts, unread).id = None THEN "noting" ELSE "identified",
                root |-> r, answer |-> Identified(r, proc[q].mounts, unread),
                todo |-> proc[q].todo \ {r}, mounts |-> proc[q].mounts]]
          /\ seen' = [seen EXCEPT ![q] =
               IF Identified(r, proc[q].mounts, unread).verdict = "unresolved" THEN Forget(q, r)
               ELSE @ \union {r}]
    BY DEF Ask
  <2>2. PICK answer : answer = Identified(r, proc[q].mounts, unread)
    OBVIOUS
  <2>3. answer.verdict = "resolved" <=> answer.id # None
    BY <2>2, IdentifiedTells
  <2>4. PICK w : w = [step |-> IF answer.id = None THEN "noting" ELSE "identified",
                      root |-> r, answer |-> answer,
                      todo |-> proc[q].todo \ {r}, mounts |-> proc[q].mounts]
    OBVIOUS
  <2>5. proc' = [proc EXCEPT ![q] = w]
    BY <2>1, <2>2, <2>4
  <2>6. PICK s : s = IF answer.verdict = "unresolved" THEN seen[q] \ {r} ELSE seen[q] \union {r}
    OBVIOUS
  <2>7. seen' = [seen EXCEPT ![q] = s]
    BY <2>1, <2>2, <2>6 DEF Forget
  <2>8. /\ w.step = (IF answer.id = None THEN "noting" ELSE "identified")
        /\ w.root = r /\ w.answer = answer
    BY <2>4
  <2> QED
    BY <2>3, <2>5, <2>6, <2>7, <2>8
<1>2. proc'[q] = w /\ seen'[q] = s /\ HostOwes(q) /\ proc[q].step = "sweep"
  BY <1>1 DEF RootsInv, TypeOK, AnsweredInv, Ask
<1>3. UNCHANGED <<identity, verdict, report>>
  BY DEF Ask, tables
<1>4. HostOwes(q)'
  BY <1>1, <1>2, <1>3 DEF HostOwes, Busy
<1>5. \A x : WillAsk(q, x) => WillAsk(q, x)'
  BY <1>1, <1>2 DEF WillAsk, Busy
<1> QED
  BY <1>1, <1>3, <1>4, <1>5, HostAnswers

LEMMA RecordIdentityAnswers ==
  ASSUME RootsInv, AnsweredInv, NEW q \in Proc, RecordIdentity(q)
  PROVE  AnsweredInv'
<1>1. proc[q] \in Asked /\ proc[q].step = "identified" /\ HostOwes(q)
  BY StepTells DEF RecordIdentity, AnsweredInv
<1>2. PICK r : r = proc[q].root
  OBVIOUS
<1>3. UNCHANGED <<verdict, report>>
  BY DEF RecordIdentity
<1>4. PICK w, s :
        /\ proc' = [proc EXCEPT ![q] = w] /\ seen' = [seen EXCEPT ![q] = s]
        /\ w.step = "noting" /\ w.root = r
        /\ \/ w.answer.verdict = "resolved" /\ r \in DOMAIN identity' /\ s = seen[q]
           \/ w.answer.verdict = "unresolved" /\ s = seen[q] \ {r}
        /\ DOMAIN identity \subseteq DOMAIN identity'
  <2>1. CASE /\ identity' = Put(identity, r, Recorded(IdsOf(r), proc[q].answer.id))
             /\ proc' = [proc EXCEPT ![q].step = "noting"]
             /\ UNCHANGED seen
    <3>1. PICK w : w = [proc[q] EXCEPT !.step = "noting"]
      OBVIOUS
    <3>2. w.step = "noting" /\ w.root = r /\ w.answer.verdict = "resolved"
      BY <1>1, <1>2, <3>1 DEF Asked, HostOwes
    <3>3. proc' = [proc EXCEPT ![q] = w] /\ seen' = [seen EXCEPT ![q] = seen[q]]
      BY <2>1, <3>1 DEF RootsInv, TypeOK
    <3>4. r \in DOMAIN identity' /\ DOMAIN identity \subseteq DOMAIN identity'
      BY <2>1 DEF Put
    <3> QED
      BY <3>2, <3>3, <3>4
  <2>2. CASE /\ seen' = [seen EXCEPT ![q] = Forget(q, r)]
             /\ proc' = [proc EXCEPT ![q].step = "noting", ![q].answer = Unrecorded(@)]
             /\ UNCHANGED identity
    <3>1. PICK w : w = [proc[q] EXCEPT !.step = "noting", !.answer = Unrecorded(@)]
      OBVIOUS
    <3>2. w.step = "noting" /\ w.root = r /\ w.answer.verdict = "unresolved"
      BY <1>1, <1>2, <3>1 DEF Asked, Unrecorded
    <3>3. proc' = [proc EXCEPT ![q] = w] /\ seen' = [seen EXCEPT ![q] = seen[q] \ {r}]
      BY <2>2, <3>1 DEF RootsInv, TypeOK, Forget
    <3> QED
      BY <2>2, <3>2, <3>3
  <2> QED
    BY <1>2, <2>1, <2>2 DEF RecordIdentity
<1>5. proc'[q] = w /\ seen'[q] = s
  BY <1>4 DEF RootsInv, TypeOK
<1>6. HostOwes(q)'
  BY <1>1, <1>2, <1>3, <1>4, <1>5 DEF HostOwes, Busy
<1>7. \A x : WillAsk(q, x) => WillAsk(q, x)'
  BY <1>1, <1>2, <1>4, <1>5 DEF WillAsk, Busy
<1> QED
  BY <1>3, <1>4, <1>6, <1>7, HostAnswers

LEMMA NoteVerdictAnswers ==
  ASSUME RootsInv, AnsweredInv, NEW q \in Proc, NoteVerdict(q)
  PROVE  AnsweredInv'
<1>1. proc[q].step = "noting" /\ HostOwes(q)
  BY DEF NoteVerdict, AnsweredInv
<1>2. PICK r, v : r = proc[q].root /\ v = proc[q].answer.verdict
  OBVIOUS
<1>3. UNCHANGED <<identity, report>>
  BY DEF NoteVerdict
<1>4. PICK w : proc' = [proc EXCEPT ![q] = w] /\ w.step \notin {"identified", "noting"}
  <2>1. PICK w : w = Sweeping(proc[q].todo, proc[q].mounts)
    OBVIOUS
  <2>2. proc' = [proc EXCEPT ![q] = w]
    BY <2>1 DEF NoteVerdict
  <2>3. w.step \notin {"identified", "noting"}
    BY <2>1 DEF Sweeping, Idle
  <2> QED
    BY <2>2, <2>3
<1>5. proc'[q] = w
  BY <1>4 DEF RootsInv, TypeOK
<1>6. CASE verdict' = Put(verdict, r, v) /\ UNCHANGED seen
  <2>1. PICK old, new : old = verdict /\ new = verdict'
    OBVIOUS
  <2>2. /\ DOMAIN new = DOMAIN old \union {r} /\ new[r] = v
        /\ \A x \in DOMAIN old : x # r => new[x] = old[x]
    BY <1>6, <2>1 DEF Put
  <2>3. HostOwes(q)'
    <3>1. seen'[q] = seen[q] /\ \A x \in seen[q] : x = r \/ x \in DOMAIN old
      BY <1>1, <1>2, <1>6, <2>1 DEF HostOwes, Busy
    <3> QED
      BY <1>4, <1>5, <2>1, <2>2, <3>1 DEF HostOwes
  <2>4. ASSUME NEW x \in DOMAIN new
        PROVE  \/ x \in DOMAIN old /\ new[x] = old[x] /\ (WillAsk(q, x) => WillAsk(q, x)')
               \/ VerdictHolds(x)'
    <3>1. CASE x # r
      BY <1>1, <1>2, <1>6, <2>2, <3>1 DEF WillAsk, Busy
    <3>2. CASE x = r
      <4>1. verdict'[x] = v
        BY <2>1, <2>2, <3>2
      <4>2. v = "resolved" => x \in DOMAIN identity'
        BY <1>1, <1>2, <1>3, <3>2 DEF HostOwes
      <4>3. v = "unresolved" => WillAsk(q, x)'
        BY <1>1, <1>2, <1>6, <3>2 DEF HostOwes, WillAsk
      <4> QED
        BY <4>1, <4>2, <4>3 DEF VerdictHolds
    <3> QED
      BY <3>1, <3>2
  <2>5. seen' = [seen EXCEPT ![q] = seen[q]]
    BY <1>6 DEF RootsInv, TypeOK
  <2>6. DOMAIN verdict \subseteq DOMAIN verdict'
    BY <2>1, <2>2
  <2>7. \A x \in DOMAIN verdict' :
          \/ x \in DOMAIN verdict /\ verdict'[x] = verdict[x] /\ (WillAsk(q, x) => WillAsk(q, x)')
          \/ VerdictHolds(x)'
    BY <2>1, <2>4
  <2> QED
    BY <1>3, <1>4, <2>3, <2>5, <2>6, <2>7, HostAnswers
<1>7. CASE seen' = [seen EXCEPT ![q] = Forget(q, r)] /\ UNCHANGED verdict
  <2>1. seen'[q] = seen[q] \ {r}
    BY <1>7 DEF RootsInv, TypeOK, Forget
  <2>2. HostOwes(q)'
    BY <1>1, <1>2, <1>5, <1>7, <1>4, <2>1 DEF HostOwes, Busy
  <2>3. \A x : WillAsk(q, x) => WillAsk(q, x)'
    BY <1>1, <1>2, <2>1 DEF WillAsk, Busy
  <2> QED
    BY <1>3, <1>4, <1>7, <2>2, <2>3, HostAnswers
<1> QED
  BY <1>2, <1>6, <1>7 DEF NoteVerdict

(* Verdicts are read after the identities, of which none is forgotten.     *)
LEMMA ReportAnswers ==
  ASSUME RootsInv, AnsweredInv, Report
  PROVE  AnsweredInv'
<1>1. UNCHANGED <<tables, seen, proc>>
  BY DEF Report, BeginReport, ReadVerdicts, ReadRoots, ReadRevision
<1>2. report'.verdicts \in {<<>>, verdict, report.verdicts}
  <2>1. report \in Reports(report.ids, report.verdicts)
    BY DEF RootsInv, TypeOK
  <2> QED
    BY <2>1 DEF Report, BeginReport, ReadVerdicts, ReadRoots, ReadRevision, NoReport, Reports
<1>3. ReportHolds'
  BY <1>1, <1>2 DEF AnsweredInv, ReportHolds, VerdictHolds, tables
<1>4. (\A p \in Proc : HostOwes(p)') /\ (\A r \in DOMAIN verdict' : VerdictHolds(r)')
  BY <1>1 DEF AnsweredInv, HostOwes, VerdictHolds, WillAsk, Busy, tables
<1> QED
  BY <1>3, <1>4 DEF AnsweredInv

LEMMA AnsweredInvNext ==
  ASSUME RootsInv, AnsweredInv, [Next]_vars
  PROVE  AnsweredInv'
<1>1. ASSUME NEW q \in Proc, Discover(q) \/ CountRoot(q) \/ BeginSweep(q) \/ OutOfTime(q)
      PROVE  AnsweredInv'
  <2>1. PICK w : proc' = [proc EXCEPT ![q] = w] /\ w.step \notin {"identified", "noting"}
    BY <1>1 DEF Discover, CountRoot, BeginSweep, OutOfTime, Sweeping, Idle
  <2>2. /\ UNCHANGED <<seen, identity, verdict, report>>
        /\ proc[q].step \notin {"identified", "noting"}
    BY <1>1 DEF Discover, CountRoot, BeginSweep, OutOfTime, tables
  <2>3. seen' = [seen EXCEPT ![q] = seen[q]]
    BY <2>2 DEF RootsInv, TypeOK
  <2> QED
    BY <2>1, <2>2, <2>3, QuietHostAnswers
<1>2. ASSUME NEW q \in Proc, Restart(q) PROVE AnsweredInv'
  <2>1. /\ proc' = [proc EXCEPT ![q] = Idle] /\ seen' = [seen EXCEPT ![q] = {}]
        /\ UNCHANGED <<identity, verdict, report>> /\ Idle.step = "idle"
    BY <1>2 DEF Restart, tables, Idle
  <2> QED
    BY <2>1, QuietHostAnswers
<1>3. CASE Report
  BY <1>3, ReportAnswers
<1>4. CASE (\E c \in Changes : Change(c[1], c[2])) \/ UNCHANGED vars
  <2>1. UNCHANGED <<identity, verdict, seen, proc, report>>
    BY <1>4 DEF Change, vars, tables
  <2> QED
    BY <2>1 DEF AnsweredInv, HostOwes, VerdictHolds, ReportHolds, WillAsk, Busy
<1> QED
  BY <1>1, <1>2, <1>3, <1>4, AskAnswers, RecordIdentityAnswers, NoteVerdictAnswers DEF Next, Round

LEMMA AlwaysAnsweredInv == Spec => []AnsweredInv
<1>1. Init => AnsweredInv
  BY DEF Init, AnsweredInv, HostOwes, ReportHolds, NoReport, Idle
<1>2. RootsInv /\ AnsweredInv /\ [Next]_vars => AnsweredInv'
  BY AnsweredInvNext
<1> QED
  BY <1>1, <1>2, AlwaysRootsInv, PTL DEF Spec

(* A host never counts a root as asked whose verdict is not on record and  *)
(* is not about to be (forget_identity_probe).                             *)
THEOREM AskedIsRecorded == Spec => []SeenIsRecorded
<1>1. AnsweredInv => SeenIsRecorded
  BY DEF AnsweredInv, HostOwes, Busy, SeenIsRecorded
<1> QED
  BY <1>1, AlwaysAnsweredInv, PTL

(* The rows of a report are those of paths that were read.                 *)
LEMMA RowOfAPath ==
  ASSUME NEW row \in Rows
  PROVE  /\ row.verdict = VerdictOf(report.verdicts, row.path)
         /\ row.id = LastId(report.ids, row.path)
<1>1. PICK r \in report.paths :
        row \in Merged({q \in report.paths : Key(q, report.mounts) = Key(r, report.mounts)})
  BY DEF Rows
<1>2. PICK q, also : row = Row(q, also)
  BY <1>1 DEF Merged
<1> QED
  BY <1>2 DEF Row

(* However many hosts sweep, fail and are started again while it is read,  *)
(* a report names no root resolved whose identity was not recorded, and    *)
(* shows none without an answer that no host would ask for again           *)
(* (project_roots_report, forget_identity_probe, note_identity_verdict).   *)
THEOREM ReportedIsRecordedOrAsked == Spec => []RowsAreRecordedOrAsked
<1>1. RootsInv /\ AnsweredInv => RowsAreRecordedOrAsked
  <2> SUFFICES ASSUME RootsInv, AnsweredInv, NEW row \in Rows
               PROVE  /\ row.verdict = "resolved" => row.id # None \/ IdsOf(row.path) # {}
                      /\ WillBeAnswered(row.path)
    BY DEF RowsAreRecordedOrAsked
  <2>1. PICK r : r = row.path
    OBVIOUS
  <2>2. row.verdict = "resolved" => IdsOf(r) # {}
    <3>1. row.verdict = "resolved" => r \in DOMAIN identity
      BY <2>1, RowOfAPath DEF VerdictOf, AnsweredInv, ReportHolds
    <3>2. r \in DOMAIN identity => identity[r].last \in IdsOf(r)
      BY DEF IdsOf, RootsInv, LastWasSeen
    <3> QED
      BY <3>1, <3>2
  <2>3. WillBeAnswered(r)
    <3>1. CASE r \in DOMAIN verdict
      <4>1. VerdictOf(verdict, r) = verdict[r] /\ verdict[r] \in Verdict /\ VerdictHolds(r)
        BY <3>1 DEF VerdictOf, RootsInv, TypeOK, IsTable, AnsweredInv
      <4> QED
        BY <4>1 DEF VerdictHolds, WillAsk, Busy, WillBeAnswered
    <3>2. CASE r \notin DOMAIN verdict
      <4>1. PICK p \in Proc : TRUE
        BY RootsAssumption
      <4>2. r \notin seen[p] \/ Busy(p, r)
        BY <3>2 DEF AnsweredInv, HostOwes
      <4> QED
        BY <4>2 DEF Busy, WillBeAnswered
    <3> QED
      BY <3>1, <3>2
  <2> QED
    BY <2>1, <2>2, <2>3
<1> QED
  BY <1>1, AlwaysRootsInv, AlwaysAnsweredInv, PTL

-----------------------------------------------------------------------------
(* Answers for the layers there are, as a step.                            *)
NewRootIsNearest ==
  \A r \in DOMAIN registry' \ DOMAIN registry : r.dir \in InDistro \/ \E c \in Candidate :
    IF GitAbove(c.dir) \subseteq Home
    THEN registry'[r] = "marker" /\ r.dir = Lowest((Up(c.dir) \intersect Marker) \ Home)
    ELSE registry'[r] = "git" /\ r.dir = Lowest(GitAbove(c.dir) \ Home)

NewIdentityIsNearest ==
  \A p \in Proc : proc'[p].step = "identified" /\ proc[p].step = "sweep" =>
    proc'[p].answer.id = repo[Lowest(GitAbove(proc'[p].root.dir))]

LEMMA RegistryStep ==
  ASSUME RootsInv, [Next]_vars
  PROVE  NewRootIsNearest
<1>1. CASE UNCHANGED registry
  BY <1>1 DEF NewRootIsNearest
<1>2. ASSUME NEW p \in Proc, Discover(p), NEW r \in DOMAIN registry' \ DOMAIN registry
      PROVE  r.dir \in InDistro \/ \E c \in Candidate :
               IF GitAbove(c.dir) \subseteq Home
               THEN registry'[r] = "marker" /\ r.dir = Lowest((Up(c.dir) \intersect Marker) \ Home)
               ELSE registry'[r] = "git" /\ r.dir = Lowest(GitAbove(c.dir) \ Home)
  <2>1. PICK c \in Candidate, mounts \in BOOLEAN, unread \in Unread :
          /\ Discovered(c, mounts, unread).path = None => UNCHANGED registry
          /\ Discovered(c, mounts, unread).path # None =>
               registry' = Put(registry, Discovered(c, mounts, unread).path,
                               Discovered(c, mounts, unread).source)
    BY <1>2 DEF Discover
  <2> DEFINE found == Discovered(c, mounts, unread)
  <2>2. found.path # None /\ registry' = Put(registry, found.path, found.source)
    BY <1>2, <2>1
  <2>3. r = found.path /\ registry'[r] = found.source
    BY <1>2, <2>2 DEF Put
  <2>4. found.path.dir \in InDistro \/ Nearby(found.path, found.source, c)
    BY <2>1, <2>2, DiscoveredIsNearest
  <2> QED
    BY <2>3, <2>4 DEF Nearby
<1>3. \/ UNCHANGED registry
      \/ \E p \in Proc : Discover(p)
  BY DEF Next, Round, CountRoot, BeginSweep, Ask, RecordIdentity, NoteVerdict, OutOfTime,
         Restart, Report, BeginReport, ReadVerdicts, ReadRoots, ReadRevision, Change, vars, tables
<1> QED
  BY <1>1, <1>2, <1>3 DEF NewRootIsNearest

LEMMA IdentityStep ==
  ASSUME RootsInv, [Next]_vars
  PROVE  NewIdentityIsNearest
<1> SUFFICES ASSUME NEW p \in Proc, proc'[p].step = "identified", proc[p].step = "sweep"
             PROVE  proc'[p].answer.id = repo[Lowest(GitAbove(proc'[p].root.dir))]
  BY DEF NewIdentityIsNearest
<1>1. proc \in [Proc -> Scanning \union ToSweep \union Asked] /\ proc' # proc
  BY DEF RootsInv, TypeOK
<1>2. Ask(p)
  <2>1. PICK q \in Proc : Round(q) \/ OutOfTime(q) \/ Restart(q)
    BY <1>1 DEF Next, Report, BeginReport, ReadVerdicts, ReadRoots, ReadRevision, Change, vars
  <2>2. p = q
    BY <1>1, <2>1 DEF Round, Discover, CountRoot, BeginSweep, Ask, RecordIdentity, NoteVerdict,
                      OutOfTime, Restart
  <2> QED
    BY <1>1, <2>1, <2>2 DEF Round, Discover, CountRoot, BeginSweep, RecordIdentity, NoteVerdict,
                      OutOfTime, Restart, Idle
<1>3. proc[p] \in ToSweep
  BY StepTells
<1>4. PICK r \in proc[p].todo, unread \in Unread :
        /\ proc'[p].step = IF Identified(r, proc[p].mounts, unread).id = None
                           THEN "noting" ELSE "identified"
        /\ proc'[p].root = r /\ proc'[p].answer = Identified(r, proc[p].mounts, unread)
  BY <1>1, <1>2 DEF Ask
<1> DEFINE answer == Identified(r, proc[p].mounts, unread)
<1>5. r \in Path /\ answer.id # None
  BY <1>3, <1>4 DEF ToSweep
<1>6. answer.id = repo[Lowest(GitAbove(r.dir))]
  BY <1>4, <1>5, IdentifiedIsNearest DEF RootsInv, TypeOK
<1> QED
  BY <1>4, <1>6

(* On the host, a root that is discovered is the nearest repository of a   *)
(* candidate, or its nearest marker where there is none; everywhere, an    *)
(* identity is that of the nearest repository: a layer that cannot be read *)
(* is not passed by.                                                       *)
THEOREM NearestIsRecorded == Spec => AnswersAreNearest
<1>1. RootsInv /\ [Next]_vars => NewRootIsNearest /\ NewIdentityIsNearest
  BY RegistryStep, IdentityStep
<1> QED
  BY <1>1, AlwaysRootsInv, PTL DEF Spec, AnswersAreNearest, NewRootIsNearest, NewIdentityIsNearest
=============================================================================
