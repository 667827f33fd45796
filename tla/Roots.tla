-------------------------------- MODULE Roots --------------------------------
(***************************************************************************)
(* Projects: which directories are project roots, and which repository     *)
(* each of them is a checkout of.  Host programs walk up from directories  *)
(* they saw agents work in and register the roots they find; once a scan   *)
(* they sweep the registry and record the identity (the origin remote) of  *)
(* every root, and the verdict of every probe.  `svault roots` and         *)
(* `attribute` report what was recorded to consumers, which keep the list  *)
(* for as long as its revision stays the same.                             *)
(*                                                                         *)
(* Probing may fail to answer at any layer of a path, writing may fail,    *)
(* and repositories are cloned, moved and removed meanwhile.  A directory  *)
(* is the sequence of its names, the drive or distribution first.  A path  *)
(* spells a directory: "own" is C:\u\p or wsl:Ubuntu:/u/p, "mnt" is        *)
(* /mnt/c/u/p, which the table of drive mounts maps to its own spelling.   *)
(***************************************************************************)
EXTENDS Integers, Sequences, SequencesExt, FiniteSets, TLC

CONSTANTS
  Proc,                 \* host programs, each with a TotalStore open
  Dir, Home, InDistro,  \* directories; users' homes; those inside a distribution
  Candidate,            \* paths a host looks for roots from
  Registered0,          \* roots registered before, and what they were
  Repo0, Changes,       \* what the directories may hold at first, and later
  Unread,               \* the layers that one probe may find unreadable
  Remote,               \* normalized origin remotes
  None,
  MaxEvents             \* bound of the model: changes, failures and reports

Path == [form : {"own", "mnt"}, dir : Dir]
Holds == {"gone", "plain", "marker", "local"} \union Remote

(* A table with one row for each of some paths.                            *)
IsTable(t, values) == DOMAIN t \subseteq Path /\ t \in [DOMAIN t -> values]
Put(t, r, v) == [q \in DOMAIN t \union {r} |-> IF q = r THEN v ELSE t[q]]

ASSUME RootsAssumption ==
  /\ Proc # {}
  /\ Home \subseteq Dir /\ InDistro \subseteq Dir /\ Candidate \subseteq Path
  /\ Dir \subseteq Seq(STRING)
  /\ \A d \in Dir : d # <<>> /\ (Len(d) > 1 => Front(d) \in Dir)
  /\ \A d \in InDistro, e \in Dir : d[1] = e[1] => e \in InDistro
  /\ Repo0 \subseteq [Dir -> Holds] /\ Changes \subseteq Dir \X Holds
  /\ IsTable(Registered0, {"git", "marker"}) /\ IsFiniteSet(DOMAIN Registered0)
  /\ {} \in Unread /\ Unread \subseteq SUBSET Dir /\ None \notin Remote \union Path

VARIABLES
  repo,       \* repo[d]: nothing, a directory, one with a build marker, a
              \*   repository without an origin, or one with that remote
  registry,   \* project_root_registry: registered paths and their source
  revision,   \* store_meta, attribution_revision
  identity,   \* project_identity: of a path the identities ever seen, and the last
  verdict,    \* project_identity_probe: what the last probe of a path said
  seen,       \* seen[p]: identity_seen, in memory
  proc,       \* proc[p]: what p is doing
  report,     \* `svault roots`, while it reads and when it is done
  events      \* changes, failures and reports so far (bound)

tables == <<registry, revision, identity, verdict>>
vars == <<repo, tables, seen, proc, report, events>>

-----------------------------------------------------------------------------
Verdict == {"resolved", "no_identity", "checkout_missing", "unresolved"}
Idle == [step |-> "idle"]
NoReport == [step |-> "none", mounts |-> FALSE, ids |-> <<>>, verdicts |-> <<>>, paths |-> {},
             revision |-> 0]

IdsOf(r) == IF r \in DOMAIN identity THEN identity[r].ever ELSE {}
LastId(ids, r) == IF r \in DOMAIN ids THEN ids[r].last ELSE None
VerdictOf(vs, r) == IF r \in DOMAIN vs THEN vs[r] ELSE "not_probed"

(* registry_key: with the table of mounts both spellings have one key.     *)
Key(r, mounts) == IF mounts THEN [r EXCEPT !.form = "own"] ELSE r
Covers(k, l) == k.form = l.form /\ IsPrefix(k.dir, l.dir)
Deepest(S) == CHOOSE r \in S : \A q \in S : Len(q.dir) <= Len(r.dir)

(* pathnorm::reach_of: /mnt paths can only be asked about with the table.  *)
Reachable(r, mounts) == r.form = "own" \/ mounts

(* What may fail, change or be asked for does so at most MaxEvents times.  *)
Answers == UNCHANGED events
Happens == events < MaxEvents /\ events' = events + 1
Fails == Happens

-----------------------------------------------------------------------------
(* Walks.  unread is the set of layers whose files cannot be told.         *)
Git == {d \in Dir : repo[d] \in {"local"} \union Remote}
Marker == {d \in Dir : repo[d] = "marker"}
Up(d) == {a \in Dir : IsPrefix(a, d)}
Lowest(S) == CHOOSE d \in S : \A e \in S : Len(e) <= Len(d)
NoDir == <<>>
Unknown == <<"?">>

Nearest_PastUnread(layers, good, unread) ==
  LET stop == (layers \intersect good) \ unread IN
  IF stop = {} THEN NoDir ELSE Lowest(stop)

(* The nearest layer that is good; a layer that cannot be told ends it.    *)
Nearest(layers, good, unread) ==
  LET stop == layers \intersect (good \union unread) IN
  CASE stop = {}             -> NoDir
    [] stop # {} /\ Lowest(stop) \in unread -> Unknown
    [] OTHER                 -> Lowest(stop)

(* discovery::probe_path: the nearest .git below or beside the home, else  *)
(* the nearest build marker.  Inside a distribution a script asks          *)
(* [ -e P/.git ], to which a layer it may not search is one without.       *)
Discovered(c, mounts, unread) ==
  LET layers == Up(c.dir) \ Home
      blind == IF c.dir \in InDistro THEN {} ELSE unread
      good == IF c.dir \in InDistro THEN Dir \ unread ELSE Dir
      git == Nearest(layers, Git \intersect good, blind)
      marked == Nearest(layers, Marker \intersect good, blind)
      at(d, source) == [path |-> [form |-> "own", dir |-> d], source |-> source]
      nothing(why) == [path |-> None, source |-> why]
  IN
  IF ~Reachable(c, mounts) \/ git = Unknown THEN nothing("failed")
  ELSE IF git \in Dir THEN at(git, "git")
  ELSE IF marked = Unknown THEN nothing("failed")
  ELSE IF marked \in Dir THEN at(marked, "marker")
  ELSE nothing("none")

(* repo_id_for_root: the origin of the nearest repository, the home not    *)
(* excepted; inside a distribution only of the root itself.                *)
Identified(r, mounts, unread) ==
  LET layers == IF r.dir \in InDistro THEN {r.dir} ELSE Up(r.dir)
      at == Nearest(layers, Git, unread)
      says(v, id) == [verdict |-> v, id |-> id]
  IN
  IF ~Reachable(r, mounts) \/ r.dir \in unread THEN says("unresolved", None)
  ELSE IF repo[r.dir] = "gone" THEN says("checkout_missing", None)
  ELSE IF at = Unknown THEN says("unresolved", None)
  ELSE IF at \in Dir /\ repo[at] \in Remote THEN says("resolved", repo[at])
  ELSE says("no_identity", None)

-----------------------------------------------------------------------------
Init ==
  /\ repo \in Repo0
  /\ registry = Registered0
  /\ revision = Cardinality(DOMAIN Registered0)
  /\ identity = <<>> /\ verdict = <<>>
  /\ seen = [p \in Proc |-> {}]
  /\ proc = [p \in Proc |-> Idle]
  /\ report = NoReport
  /\ events = 0

(* Users clone, move and remove directories, and change their remotes.     *)
Change(d, v) ==
  /\ Happens
  /\ v # repo[d]
  /\ Len(d) > 1 => repo[Front(d)] # "gone"
  /\ repo' = [e \in Dir |-> IF e = d \/ (v = "gone" /\ IsPrefix(d, e)) THEN v ELSE repo[e]]
  /\ UNCHANGED <<tables, seen, proc, report>>

(* A probe in which the layers in unread cannot be told.                   *)
Asking(unread) == IF unread = {} THEN Answers ELSE Fails

(* A round of a host begins with discovery from the candidates, here one,  *)
(* and registers what it found: an insert, or an update of a root that is  *)
(* known, and a statement of its own that counts the roots that were new.  *)
Counted(r) == r \in DOMAIN registry

Discover(p) ==
  /\ proc[p].step = "idle"
  /\ \E c \in Candidate, mounts \in BOOLEAN, unread \in Unread :
       LET found == Discovered(c, mounts, unread) IN
       /\ mounts \/ c.form = "mnt"
       /\ unread \subseteq Up(c.dir)
       /\ IF mounts THEN Asking(unread) ELSE unread = {} /\ Fails
       /\ IF found.path = None
          THEN /\ UNCHANGED registry
               /\ proc' = [proc EXCEPT ![p] = [step |-> "registered"]]
          ELSE /\ registry' = Put(registry, found.path, found.source)
               /\ proc' = [proc EXCEPT ![p] =
                    [step |-> IF Counted(found.path) THEN "registered" ELSE "inserted"]]
  /\ UNCHANGED <<repo, revision, identity, verdict, seen, report>>

CountRoot(p) ==
  /\ proc[p].step = "inserted"
  /\ revision' = revision + 1
  /\ proc' = [proc EXCEPT ![p] = [step |-> "registered"]]
  /\ UNCHANGED <<repo, registry, identity, verdict, seen, report, events>>

-----------------------------------------------------------------------------
(* sweep_registered_root_identities: once a scan, over the roots that were *)
(* registered when it began, until its time is up.                         *)
Sweeping(todo, mounts) ==
  IF todo = {} THEN Idle ELSE [step |-> "sweep", todo |-> todo, mounts |-> mounts]

BeginSweep(p) ==
  /\ proc[p].step = "registered"
  /\ \E mounts \in BOOLEAN :
       /\ IF mounts THEN Answers ELSE Fails
       /\ proc' = [proc EXCEPT ![p] = Sweeping(DOMAIN registry \ seen[p], mounts)]
  /\ UNCHANGED <<repo, tables, seen, report>>

OutOfTime(p) ==
  /\ proc[p].step = "sweep"
  /\ Fails
  /\ proc' = [proc EXCEPT ![p] = Idle]
  /\ UNCHANGED <<repo, tables, seen, report>>

Forget_Never(p, r) == seen[p]
(* forget_identity_probe: only what was recorded counts as asked.          *)
Forget(p, r) == seen[p] \ {r}

(* probe_identity_for_root, its outcome not yet recorded.                  *)
Ask(p) ==
  /\ proc[p].step = "sweep"
  /\ \E r \in proc[p].todo, unread \in Unread :
       LET answer == Identified(r, proc[p].mounts, unread) IN
       /\ unread \subseteq Up(r.dir)
       /\ Asking(unread)
       /\ proc' = [proc EXCEPT ![p] =
            [step |-> IF answer.id = None THEN "noting" ELSE "identified", root |-> r,
             answer |-> answer, todo |-> proc[p].todo \ {r}, mounts |-> proc[p].mounts]]
       /\ seen' = [seen EXCEPT ![p] =
            IF answer.verdict = "unresolved" THEN Forget(p, r) ELSE @ \union {r}]
  /\ UNCHANGED <<repo, tables, report>>

Recorded(ids, id) == [ever |-> ids \union {id}, last |-> id]

Unrecorded_AsAsked(answer) == [answer EXCEPT !.id = None]

(* An identity that could not be written is one that was not told.         *)
Unrecorded(answer) == [verdict |-> "unresolved", id |-> None]

RecordIdentity(p) ==
  LET r == proc[p].root IN
  /\ proc[p].step = "identified"
  /\ \/ /\ Answers
        /\ identity' = Put(identity, r, Recorded(IdsOf(r), proc[p].answer.id))
        /\ proc' = [proc EXCEPT ![p].step = "noting"]
        /\ UNCHANGED seen
     \/ /\ Fails
        /\ seen' = [seen EXCEPT ![p] = Forget(p, r)]
        /\ proc' = [proc EXCEPT ![p].step = "noting",
                                ![p].answer = Unrecorded(@)]
        /\ UNCHANGED identity
  /\ UNCHANGED <<repo, registry, revision, verdict, report>>

(* note_identity_verdict; the sweep goes on with the roots it has left.    *)
NoteVerdict(p) ==
  LET r == proc[p].root IN
  /\ proc[p].step = "noting"
  /\ \/ /\ Answers
        /\ verdict' = Put(verdict, r, proc[p].answer.verdict)
        /\ UNCHANGED seen
     \/ /\ Fails
        /\ seen' = [seen EXCEPT ![p] = Forget(p, r)]
        /\ UNCHANGED verdict
  /\ proc' = [proc EXCEPT ![p] = Sweeping(proc[p].todo, proc[p].mounts)]
  /\ UNCHANGED <<repo, registry, revision, identity, report>>

(* A host stops at any point and is started again.                         *)
Restart(p) ==
  /\ proc[p] # Idle \/ seen[p] # {}
  /\ Fails
  /\ proc' = [proc EXCEPT ![p] = Idle]
  /\ seen' = [seen EXCEPT ![p] = {}]
  /\ UNCHANGED <<repo, tables, report>>

-----------------------------------------------------------------------------
(* project_roots_report reads four tables, each in a statement of its own. *)
BeginReport ==
  /\ report.step \in {"none", "done"}
  /\ Happens
  /\ \E mounts \in BOOLEAN :
       report' = [NoReport EXCEPT !.step = "identities", !.mounts = mounts, !.ids = identity]
  /\ UNCHANGED <<repo, tables, seen, proc>>

ReadVerdicts ==
  /\ report.step = "identities"
  /\ report' = [report EXCEPT !.step = "verdicts", !.verdicts = verdict]
  /\ UNCHANGED <<repo, tables, seen, proc, events>>

ReadRoots ==
  /\ report.step = "verdicts"
  /\ report' = [report EXCEPT !.step = "roots", !.paths = DOMAIN registry]
  /\ UNCHANGED <<repo, tables, seen, proc, events>>

ReadRevision ==
  /\ report.step = "roots"
  /\ report' = [report EXCEPT !.step = "done", !.revision = revision]
  /\ UNCHANGED <<repo, tables, seen, proc, events>>

Round(p) == Discover(p) \/ CountRoot(p) \/ BeginSweep(p) \/ Ask(p) \/ RecordIdentity(p) \/ NoteVerdict(p)
Report == BeginReport \/ ReadVerdicts \/ ReadRoots \/ ReadRevision

Next ==
  \/ \E p \in Proc : Round(p) \/ OutOfTime(p) \/ Restart(p)
  \/ Report
  \/ \E c \in Changes : Change(c[1], c[2])

Spec == Init /\ [][Next]_vars

(* Hosts scan again and again, each round to its end (external: the hosts' *)
(* timer), unless they are stopped.                                        *)
FairSpec == Spec /\ \A p \in Proc : WF_vars(Round(p))

-----------------------------------------------------------------------------
(* What is reported.  converge_mnt_roots: with the table the spellings of  *)
(* a directory become one row, unless they have different identities; it   *)
(* keeps the identity of the spelling that stands for it, or none.         *)
Row(r, also) == [path |-> r, aliases |-> also, id |-> LastId(report.ids, r),
                 verdict |-> VerdictOf(report.verdicts, r)]
IdsIn(G) == {LastId(report.ids, r) : r \in G} \ {None}

(* spelling_order: what the host itself can open comes first.              *)
First(G) == CHOOSE r \in G : (\E q \in G : q.form = "own") => r.form = "own"

Merged(G) ==
  IF Cardinality(IdsIn(G)) > 1 THEN {Row(r, {}) : r \in G}
  ELSE {Row(First(G), G \ {First(G)})}

Rows ==
  UNION {Merged({q \in report.paths : Key(q, report.mounts) = Key(r, report.mounts)}) :
           r \in report.paths}

-----------------------------------------------------------------------------
Answer == [verdict : Verdict, id : Remote \union {None}]
Record == [ever : SUBSET Remote, last : Remote]

Scanning == [step : {"idle", "inserted", "registered"}]
ToSweep == [step : {"sweep"}, todo : SUBSET Path, mounts : BOOLEAN]
Asked == [step : {"identified", "noting"}, root : Path, answer : Answer, todo : SUBSET Path,
          mounts : BOOLEAN]
Reports(ids, verdicts) ==
  [step : {"none", "identities", "verdicts", "roots", "done"}, mounts : BOOLEAN, ids : {ids},
   verdicts : {verdicts}, paths : SUBSET Path, revision : Nat]

(* The registry, the records of the probes and what every host is doing    *)
(* stay within their tables (store.rs, migrate): one row per registered    *)
(* path, one last identity and one verdict per path.                       *)
TypeOK ==
  /\ repo \in [Dir -> Holds]
  /\ IsTable(registry, {"git", "marker"})
  /\ revision \in Nat
  /\ IsTable(identity, Record) /\ IsTable(verdict, Verdict)
  /\ seen \in [Proc -> SUBSET Path]
  /\ proc \in [Proc -> Scanning \union ToSweep \union Asked]
  /\ report \in Reports(report.ids, report.verdicts)
  /\ IsTable(report.ids, Record) /\ IsTable(report.verdicts, Verdict)

(* A host that counts a root as asked has recorded a verdict for it,       *)
(* whatever failed on the way (store.rs, forget_identity_probe: "only the  *)
(* end of a question deserves to be remembered").                          *)
SeenIsRecorded ==
  \A p \in Proc : \A r \in seen[p] :
    \/ r \in DOMAIN verdict
    \/ proc[p].step \in {"identified", "noting"} /\ proc[p].root = r

GitAbove(d) == Up(d) \intersect Git

(* What is recorded holds for the layers there are: a root that discovery  *)
(* adds is the nearest repository of a candidate, or a candidate's nearest *)
(* marker where there is none, and an identity is that of the nearest      *)
(* repository.  A layer that could not be read is not passed by, which     *)
(* would give a sub-project to the one around it (discovery.rs,            *)
(* probe_local_with; identity.rs, find_git_root); the script that looks    *)
(* for roots inside a distribution does pass by such layers.               *)
AnswersAreNearest ==
  [][/\ \A r \in DOMAIN registry' \ DOMAIN registry : r.dir \in InDistro \/ \E c \in Candidate :
          IF GitAbove(c.dir) \subseteq Home
          THEN registry'[r] = "marker" /\ r.dir = Lowest((Up(c.dir) \intersect Marker) \ Home)
          ELSE registry'[r] = "git" /\ r.dir = Lowest(GitAbove(c.dir) \ Home)
     /\ \A p \in Proc : proc'[p].step = "identified" /\ proc[p].step = "sweep" =>
          proc'[p].answer.id = repo[Lowest(GitAbove(proc'[p].root.dir))]]_vars

(* A root has its answer, or some host will ask it again: it does not      *)
(* count the root as asked, or is about to record what it was told.        *)
WillBeAnswered(r) ==
  \/ VerdictOf(verdict, r) \in Verdict \ {"unresolved"}
  \/ \E p \in Proc :
       r \notin seen[p] \/ (proc[p].step \in {"identified", "noting"} /\ proc[p].root = r)

(* What a report says of a root was recorded before, or will be asked.  A  *)
(* row that is resolved has its identity (store.rs:2815: "new verdict and  *)
(* old identity" is a combination that never existed), except for one that *)
(* a host recorded between the reads of the report; and a row without an   *)
(* answer has none yet, it is never given up, although hosts count in      *)
(* memory what they asked before they know, and fail between the probe,    *)
(* the identity and the verdict (store.rs, forget_identity_probe).         *)
RowsAreRecordedOrAsked ==
  report.step = "done" =>
    \A row \in Rows :
      /\ row.verdict = "resolved" => row.id # None \/ IdsOf(row.path) # {}
      /\ row.verdict \in {"not_probed", "unresolved"} => WillBeAnswered(row.path)

(* Every registered root gets a verdict that is an answer, whatever failed *)
(* before: no failed probe or write, and no host that was stopped, leaves  *)
(* it unresolved for good (store.rs, record_identity_for_root).            *)
EveryRootSettles ==
  <>[](\A r \in DOMAIN registry : VerdictOf(verdict, r) \in Verdict \ {"unresolved"})
=============================================================================
