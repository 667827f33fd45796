------------------------------- MODULE Answers -------------------------------
(* The modules of pure answers (Probes, Walks, Frames, Paths, Discovery)   *)
(* are asked questions: one at a time, put and taken back.                 *)
EXTENDS Probes, Frames, Discovery

CONSTANTS
  Situations,               \* Probes: the situations of a path
  Climbs, Decodes,          \* Walks: layers to climb, names to decode
  Streams,                  \* Frames: files
  Distro,                   \* Paths: distributions,
  Registries, Spellings,    \* registered roots, and what is looked up
  Machines, Sessions,       \* Discovery
  NoQuestion

-----------------------------------------------------------------------------
(* What may be asked.                                                      *)
Situation ==
  [node : Kind \union {"nothing"}, reach : {"open", "failing", "offline", "detached", "link"},
   anchor : {"reachable", "missing", "failing", "none"}, form : {"below", "root", "relative"},
   distro : {"up", "down", "layer", "file"}, inside : BOOLEAN, text : BOOLEAN, time : BOOLEAN,
   long : BOOLEAN]

(* What there is at a layer: everything answers before some are deaf.      *)
Told == Present \union {"absent"}
Layer ==
  [git : Told, gitText : {"gitdir", "other", "absent"}, common : Told, commonText : {"dir"},
   config : [{"own", "gitdir", "common"} -> [probe : Told, text : {"url", "bad", "absent"}]],
   marker : Told]

(* A start that is not there holds nothing.                                *)
IsClimb(c) ==
  /\ c.start \in Told /\ c.layers \in Seq(Layer) /\ c.layers # <<>>
  /\ DOMAIN c.deaf = DOMAIN c.layers
  /\ c.start = "absent" => c.layers[1].git = "absent"

IsName(d) ==
  /\ d.enc \in Seq(Range(d.enc)) /\ d.enc # <<>> /\ Range(d.enc) \intersect Mark = {}
  /\ \A path \in DOMAIN d.tree : d.tree[path] \in Told

AFrame ==
  [kind : FrameKind, blocks : Seq(Nat), says : Nat \union {NoSize},
   sum : {"none", "right", "wrong"}, cut : Cut, there : Nat]
IsStream(s) == s \in Seq(AFrame) /\ \A i \in DOMAIN s : s[i].there <= Len(s[i].blocks)

ASpelling ==
  [ns : {"bare", "drive", "wsl", "unc"}, of : Drive \union Distro \union {Nothing},
   names : Seq(DOMAIN Lower)]
IsSpelling(s) ==
  /\ s \in ASpelling
  /\ s.ns = "bare" => s.of = Nothing
  /\ s.ns = "drive" => s.of \in Drive
  /\ s.ns \in {"wsl", "unc"} => s.of \in Distro
  /\ s.ns = "unc" => s.names # <<>>

(* A drive is mounted at /mnt/<letter> or at a path of another shape.  Of  *)
(* two distributions with different mounts none has a mount point at or    *)
(* below one of the other, unless it is the same drive at the same point:  *)
(* a drive is the same one in all of them (registry_key).                  *)
AMount == [at : Seq(DOMAIN Lower) \ {<<>>}, drive : Drive]
IsTable(t) == t \in Seq(AMount) /\ \A i \in DOMAIN t : MountShaped(t[i].at) => Len(t[i].at) = 2
Apart(t, u) ==
  \A i \in DOMAIN t, j \in DOMAIN u :
    IsPrefix(t[i].at, u[j].at) \/ IsPrefix(u[j].at, t[i].at) => t[i] = u[j]
IsWorld(w) ==
  /\ DOMAIN w.auto = Distro
  /\ \A d \in Distro : IsTable(w.auto[d])
  /\ \A d, e \in Distro : w.auto[d] = w.auto[e] \/ Apart(w.auto[d], w.auto[e])
  /\ w.table = <<>> \/ \E d \in Distro : w.table = w.auto[d]

IsRegistry(r) ==
  /\ r.roots \in Seq(ASpelling) /\ \A i \in DOMAIN r.roots : IsSpelling(r.roots[i])
  /\ IsWorld(r.world) /\ r.home \in Distro /\ r.ids \in {"each", "one", "none"}

ASSUME AnswersAssumption ==
  /\ Situations \subseteq Situation
  /\ \A c \in Climbs : IsClimb(c)
  /\ \A d \in Decodes : IsName(d)
  /\ \A s \in Streams : IsStream(s)
  /\ NoSize \notin Nat /\ Word \in Nat \ {0}
  /\ Lower \in [DOMAIN Lower -> DOMAIN Lower] /\ "mnt" \in DOMAIN Lower /\ Lower["mnt"] = "mnt"
  /\ \A d \in Drive : d \in DOMAIN Lower /\ Lower[d] = d
  /\ Nothing \notin ASpelling \union {"same"}
  /\ \A r \in Registries : IsRegistry(r)
  /\ \A s \in Spellings : IsSpelling(s)

-----------------------------------------------------------------------------
VARIABLE question

(* An identity for each directory, one for all, or none.                   *)
RowsOf(asked) ==
  [i \in DOMAIN asked.roots |->
     LET root == asked.roots[i] IN
     [root |-> root, verdict |-> IF asked.ids = "none" THEN "no_identity" ELSE "resolved",
      id |-> CASE asked.ids = "each" -> Place(root, asked.world, asked.home)
               [] asked.ids = "one" -> "same" [] OTHER -> Nothing]]

(* A repository and another marker at some depths of a path.               *)
ALayer(git, gitText, common, at, text) ==
  [git |-> git, gitText |-> gitText, common |-> common, commonText |-> "dir", marker |-> "absent",
   config |-> [c \in {"own", "gitdir", "common"} |->
                 IF c = at THEN [probe |-> "file", text |-> text]
                 ELSE [probe |-> "absent", text |-> "absent"]]]
BareLayer == ALayer("absent", "absent", "absent", "none", "absent")
LayersOf(path, git, marker) ==
  LET n == Len(path.names)
      there(k, S) == IF k \in S THEN "dir" ELSE "absent"
  IN [i \in 1..n |-> [BareLayer EXCEPT !.git = there(n - i + 1, git), !.marker = there(n - i + 1, marker)]]

-----------------------------------------------------------------------------
AnswersInit == question = NoQuestion

AskProbe == \E w \in Situations : question' = [about |-> "probe", w |-> w]
AskClimb == \E c \in Climbs : question' = [about |-> "climb", c |-> c]
AskDecode == \E d \in Decodes : question' = [about |-> "decode", d |-> d]
AskFrames == \E s \in Streams : question' = [about |-> "frames", stream |-> s]
AskPaths == \E r \in Registries : question' = [about |-> "paths", asked |-> r]
AskMachine == \E m \in Machines : question' = [about |-> "machine", m |-> m]
AskSession == \E s \in Sessions : question' = [about |-> "session", session |-> s]
TakeBack == question # NoQuestion /\ question' = NoQuestion

AnswersNext ==
  \/ question = NoQuestion /\ (AskProbe \/ AskClimb \/ AskDecode \/ AskFrames \/ AskPaths
                              \/ AskMachine \/ AskSession)
  \/ TakeBack

AnswersSpec == AnswersInit /\ [][AnswersNext]_question

About(what) == question # NoQuestion /\ question.about = what

-----------------------------------------------------------------------------
(* No answer about a path is wrong, whoever gives it: probe.rs, wsl.rs,    *)
(* compressed.rs, session_origin.rs.                                       *)
NoProbeLies == About("probe") => AnswersAreTrue(question.w)

(* A walk that misses an answer says that it does not know, or what it     *)
(* would say with all of them: identity.rs, discovery.rs, project_dir.rs.  *)
WalksConcludeFromAnswers ==
  /\ About("climb") => LET c == question.c IN
       ClimbsAreFacts(c.start, c.layers, c.home, c.deafStart, c.deaf)
  /\ About("decode") => LET d == question.d IN DecodesAreFacts(d.enc, d.tree, d.deaf)

(* The length of a compressed log is that of the bytes a scan then reads:  *)
(* compressed.rs.                                                          *)
LengthOfTheBytes == About("frames") => LengthIsOfTheBytes(question.stream)

(* One directory is one project and two are two, however they are spelled  *)
(* and whichever of the programs asks: attribution.rs, pathnorm.rs,        *)
(* class_b.rs.                                                             *)
DirectoriesAreTold ==
  About("paths") => LET asked == question.asked IN
    \A q \in Spellings : OneDirectoryOneProject(RowsOf(asked), q, asked.world, asked.home)

(* So they are, the root that is found for a session is the one that it    *)
(* then has, and no place of the machine that could not be asked is left   *)
(* out: discovery.rs, parser.rs, discover.rs, memory_roots.rs.             *)
OneProjectForADirectory ==
  /\ DirectoriesAreTold
  /\ About("machine") => NoPlaceIsLost(question.m)
  /\ About("session") => LET s == question.session IN
       FoundRootIsRecognised(s.cwd, s.location, s.default, s.table, s.answering, s.others,
                             LAMBDA path : LayersOf(path, s.git, s.marker))
=============================================================================
