------------------------------- MODULE Probes -------------------------------
(* What a program learns about one path (probe.rs, wsl.rs, discover.rs).   *)
(* Every answer is "absent" or a kind, both facts on which files and       *)
(* sessions are dropped, or "unknown".  A path is asked of the host, of    *)
(* the distribution it belongs to over wsl.exe, or of the first and then   *)
(* the other.                                                              *)
(*                                                                         *)
(* A situation w is all that the answers depend on:                        *)
(*   node    what is there: a file, a directory, something else, nothing   *)
(*   reach   how the host gets there: it can ("open"), it is refused or    *)
(*           the device fails ("failing"), the drive or server is gone     *)
(*           ("offline"), a volume is gone and its mount point is not      *)
(*           ("detached"), or a link inside a distribution leads where     *)
(*           the host cannot follow ("link")                               *)
(*   anchor  the source root that a caller names: reachable, missing,      *)
(*           failing, or "none"                                            *)
(*   form    the path is below a root, a root, or relative                 *)
(*   distro  it answers ("up"), it does not ("down"), it cannot search     *)
(*           the directory ("layer"), or cannot open the file ("file")     *)
(*   inside  the path is below the prefix of the distribution              *)
(*   text    the content is valid UTF-8                                    *)
(*   time    the round has time left                                       *)
(*   long    the file has the bytes that are asked for                     *)
EXTENDS Naturals, Sequences, SequencesExt

Kind == {"file", "dir", "other"}

-----------------------------------------------------------------------------
(* The host.  What its calls say: a kind, "notfound" or "failed".          *)
HostSays(w) ==
  CASE w.reach = "failing" -> "failed"
    [] w.reach \in {"offline", "detached"} -> "notfound"
    [] w.reach = "link" /\ w.node # "nothing" -> "other"
    [] OTHER -> IF w.node = "nothing" THEN "notfound" ELSE w.node

(* Opening and reading it whole: directories and what is not followed fail.*)
HostReads(w) == IF HostSays(w) \in {"dir", "other"} THEN "failed" ELSE HostSays(w)

(* namespace_confirms_absence: an anchor that fails, and a root of the     *)
(* path that does not answer, leave it open; an anchor that is missing     *)
(* does not.                                                               *)
Confirmed_AnyNotFound(w) == "absent"
Confirmed(w) ==
  IF w.anchor = "failing" THEN "unknown"
  ELSE IF w.form = "relative" THEN "absent"
  ELSE IF w.form = "root" \/ w.reach = "offline" THEN "unknown" ELSE "absent"

(* classify, and the match that every reading function repeats.            *)
Classified(says, w) ==
  CASE says = "notfound" -> Confirmed(w) [] says = "failed" -> "unknown" [] OTHER -> says

(* LocalBackend: probe, stat (size and time of what is there), read_text.  *)
LocalProbe(w) == IF w.time THEN Classified(HostSays(w), w) ELSE "unknown"
LocalStat(w) == IF LocalProbe(w) \in Kind THEN "found" ELSE LocalProbe(w)
LocalRead(w) ==
  IF w.time THEN Classified(IF HostReads(w) = "file" /\ ~w.text THEN "failed" ELSE HostReads(w), w)
  ELSE "unknown"

(* read_bytes and read_dir_entries, which take no deadline.                *)
ReadBytes(w) == Classified(HostReads(w), w)
ReadDirEntries(w) ==
  Classified(IF HostSays(w) \in {"file", "other"} THEN "failed" ELSE HostSays(w), w)

(* read_range and with_reader: "not found" is the answer, unconfirmed.     *)
WithReader(w, succeeds) ==
  CASE HostReads(w) = "notfound" -> "absent"
    [] HostReads(w) = "file" /\ succeeds -> "file"
    [] OTHER -> "unknown"
ReadRange(w) == WithReader(w, w.long)

-----------------------------------------------------------------------------
(* The distribution.  A script ends with code 7 for "no"; a test on a path *)
(* whose directory it may not search says no as well.                      *)
Asked(w) == w.time /\ w.distro # "down"
Tests(w) == IF w.distro = "layer" THEN "nothing" ELSE w.node

StatKind(w) ==
  IF ~Asked(w) THEN "unknown" ELSE IF Tests(w) = "nothing" THEN "absent" ELSE Tests(w)

(* stat: of files only; its answer needs no right to open them.            *)
Stat(w) == IF ~Asked(w) THEN "unknown" ELSE IF Tests(w) = "file" THEN "file" ELSE "absent"

(* read_file_at: [ -f ] or 7, then cat, and the text has to be UTF-8.      *)
ReadFileAt(w) ==
  IF Stat(w) = "file" /\ (w.distro = "file" \/ ~w.text) THEN "unknown" ELSE Stat(w)

(* wsl::read_range fails on whatever it does not get in full.              *)
BridgeRange(w) == IF Asked(w) /\ Tests(w) = "file" /\ w.distro = "up" /\ w.long THEN "file" ELSE "unknown"

(* WslBackend (to_linux, probe, read_text): a path that is not below the   *)
(* prefix is not this backend's to answer.                                 *)
BridgeProbe(w) == IF w.inside THEN StatKind(w) ELSE "unknown"
BridgeRead(w) == IF w.inside THEN ReadFileAt(w) ELSE "unknown"

(* WslUncBackend: the host first, without an anchor; the distribution is   *)
(* asked for what the host cannot follow, and what it could not answer.    *)
Unanchored(w) == [w EXCEPT !.anchor = "none"]
UncProbe(w) ==
  LET host == LocalProbe(Unanchored(w)) IN
  IF host \in {"other", "unknown"} THEN BridgeProbe(w) ELSE host
UncRead(w) ==
  LET host == LocalRead(Unanchored(w)) IN IF host = "unknown" THEN BridgeRead(w) ELSE host

(* HostProbe::for_root: who is asked about the files of a project, by the  *)
(* prefix of its root; probe_host_file: is the file there.                 *)
ForRoot(prefix) == IF prefix = "distribution" THEN "host, then bridge" ELSE "host"
HostFile(w, prefix) ==
  LET says == IF ForRoot(prefix) = "host" THEN LocalProbe(w) ELSE UncProbe(w) IN
  CASE says = "file" -> "present" [] says = "unknown" -> "failed" [] OTHER -> "absent"

-----------------------------------------------------------------------------
(* A call for many paths at once (stat_many, identify_many, read_many).    *)
(* A path is a record: the situation it is in, whether the file goes away  *)
(* between the test and the call behind it, and whether it is too large.   *)
(* The output is a sequence of records, of which a call that was cut off   *)
(* leaves the first `kept`; a path without a record has no answer.         *)
Record(p, how) ==
  IF Tests(p.w) # "file" THEN "missing"
  ELSE IF p.gone THEN "none"
  ELSE IF how # "read" THEN "answer"
  ELSE IF p.large THEN "large" ELSE IF p.w.distro = "file" THEN "broken" ELSE "answer"

(* stat_many and identify_many name the missing ones first and ask for the *)
(* others behind them; read_many goes path by path.                        *)
OutputOf(paths, how) ==
  LET some(S) == SelectSeq([i \in DOMAIN paths |-> i], LAMBDA i : Record(paths[i], how) \in S) IN
  IF how # "read" THEN some({"missing"}) \o some({"answer"})
  ELSE some({"missing", "large", "broken", "answer"})

ManyAnswers(paths, how, kept) ==
  LET output == OutputOf(paths, how)
      said == {output[k] : k \in (1..kept) \intersect DOMAIN output}
  IN
  [i \in DOMAIN paths |->
     IF i \notin said \/ Record(paths[i], how) \in {"large", "broken"} THEN "unknown"
     ELSE IF Record(paths[i], how) = "missing" THEN "absent" ELSE "file"]

(* existing_files names what is there and fails as a whole.                *)
ExistingFiles(w) == Stat(w)

(* read_whole: what the call for many leaves open is asked again singly.   *)
ReadWhole(p, kept) ==
  LET first == ManyAnswers(<<p>>, "read", kept)[1] IN
  IF ~Asked(p.w) THEN "unknown"
  ELSE IF first # "unknown" THEN first
  ELSE IF p.gone THEN "absent"
  ELSE IF Stat(p.w) = "file" THEN BridgeRange(p.w) ELSE Stat(p.w)

-----------------------------------------------------------------------------
(* The transcript of a session, plain or compressed in its place           *)
(* (compressed.rs, read_local and read_wsl): the second is looked for when *)
(* the first is known not to be there.                                     *)
ReadLocal(plain, packed, decodes) ==
  IF ReadBytes(plain) = "absent" THEN WithReader(packed, decodes) ELSE ReadBytes(plain)
ReadWsl(plain, packed, decodes) ==
  LET whole == ReadWhole([w |-> packed, large |-> FALSE, gone |-> FALSE], 1) IN
  IF ReadFileAt(plain) # "absent" THEN ReadFileAt(plain)
  ELSE IF whole = "file" /\ ~decodes THEN "unknown" ELSE whole

(* session_origin.rs: a transcript may hold several sessions, each with a  *)
(* line that may name the remote of its repository.                        *)
CodexOrigin(lines, id) ==
  LET at == SelectInSeq(lines, LAMBDA line : line.id = id) IN
  IF at = 0 \/ lines[at].remote \notin {"one", "two"} THEN "not recorded" ELSE lines[at].remote
ReadCodexOrigin(read, utf8, lines, id) ==
  IF read = "absent" THEN "missing"
  ELSE IF read = "unknown" \/ ~utf8 THEN "unreadable" ELSE CodexOrigin(lines, id)

(* run_session_origin: only Codex records it.                              *)
RunSessionOrigin(source, read, utf8, lines, id) ==
  IF source = "codex" THEN ReadCodexOrigin(read, utf8, lines, id) ELSE "not recorded"

-----------------------------------------------------------------------------
(* No answer is wrong, whoever gives it: what is said to be absent is not  *)
(* there, what is said to be a file is one, and when nothing stands in the *)
(* way there is an answer (probe.rs: "NotFound is a fact, every other      *)
(* error is not having been able to ask").  The code names what it cannot  *)
(* tell: a volume that is detached while its mount point stays, and a      *)
(* relative path.  It does not name that a distribution says no about a    *)
(* directory it may not search, nor that read_range and with_reader take   *)
(* an unplugged drive for the absence of a file.  A session whose form is  *)
(* one of two is missing only if neither is there, and where it came from  *)
(* is what its own line says.                                              *)
Truthful(says, w) ==
  /\ says = "absent" => w.node = "nothing"
  /\ says \in {"file", "dir"} => w.node = says
  /\ says = "other" => w.node # "nothing"

NoFileThere(says, w) == (says = "absent" => w.node # "file") /\ (says = "file" => w.node = "file")

HostIsBelieved(w) == w.reach # "detached" /\ ~(w.reach = "offline" /\ w.form = "relative")

OriginIsItsOwn(w) ==
  \A packed \in {[w EXCEPT !.node = n] : n \in {"file", "nothing"}}, decodes \in BOOLEAN,
     lines \in {<<>>, <<[id |-> 2, remote |-> "two"], [id |-> 1, remote |-> "one"]>>,
               <<[id |-> 2, remote |-> "two"], [id |-> 1, remote |-> "bad"]>>} :
    LET answers == (IF HostIsBelieved(w)
                    THEN {ReadLocal(w, packed, decodes)} ELSE {})
                   \union (IF w.distro # "layer" THEN {ReadWsl(w, packed, decodes)} ELSE {})
    IN
    \A read \in answers, source \in {"codex", "claude"} :
      LET origin == RunSessionOrigin(source, read, w.text, lines, 1) IN
      /\ origin = "missing" => w.node # "file" /\ packed.node = "nothing"
      /\ origin \notin {"missing", "unreadable", "not recorded"} =>
           \E i \in DOMAIN lines : source = "codex" /\ lines[i] = [id |-> 1, remote |-> origin]

AnswersAreTrue(w) ==
  LET path(large, gone) == [w |-> w, large |-> large, gone |-> gone]
      clear == w.reach = "open" /\ w.anchor # "failing" /\ w.form = "below" /\ w.time /\ w.text
  IN
  /\ HostIsBelieved(w) =>
       /\ Truthful(LocalProbe(w), w) /\ Truthful(LocalRead(w), w)
       /\ LocalStat(w) = "found" => w.node # "nothing"
       /\ LocalStat(w) = "absent" => w.node = "nothing"
       /\ Truthful(ReadBytes(w), w) /\ Truthful(ReadDirEntries(w), w)
       /\ w.reach # "offline" => Truthful(ReadRange(w), w)
       /\ w.reach # "link" => \A prefix \in {"none", "share"} :
            HostFile(w, prefix) = "absent" => w.node # "file"
  /\ w.distro # "layer" =>
       /\ Truthful(BridgeProbe(w), w) /\ NoFileThere(BridgeRead(w), w)
       /\ HostIsBelieved(w) => /\ Truthful(UncProbe(w), w) /\ NoFileThere(UncRead(w), w)
                               /\ HostFile(w, "distribution") = "absent" => w.node # "file"
       /\ NoFileThere(ExistingFiles(w), w)
       /\ Asked(w) => \A large, gone \in BOOLEAN, kept \in 0..2 :
            /\ \A how \in {"stat", "identify", "read"} :
                 NoFileThere(ManyAnswers(<<path(FALSE, gone), path(large, FALSE)>>, how, kept)[2], w)
            /\ NoFileThere(ReadWhole(path(large, FALSE), kept), w)
  /\ OriginIsItsOwn(w)
  /\ clear => /\ LocalProbe(w) = (IF w.node = "nothing" THEN "absent" ELSE w.node)
              /\ w.node = "file" => LocalRead(w) = "file" /\ HostFile(w, "none") = "present"
  /\ w.distro = "up" /\ w.inside /\ w.time => BridgeProbe(w) # "unknown"
  /\ w.reach = "link" /\ w.distro = "up" /\ w.inside /\ w.time /\ w.anchor # "failing"
       /\ w.form = "below" => UncProbe(w) = (IF w.node = "nothing" THEN "absent" ELSE w.node)
=============================================================================
