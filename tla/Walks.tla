-------------------------------- MODULE Walks --------------------------------
(* Walks that ask about many paths before they conclude: the root and the  *)
(* identity of a repository (identity.rs), the root of a project           *)
(* (discovery.rs, wsl.rs), and the directory that the name of a Claude     *)
(* project stands for (project_dir.rs).  Each has to end in "unknown" when *)
(* an answer it depends on is missing: a repository that is found further  *)
(* up would be taken for the one that could not be read.                   *)
(*                                                                         *)
(* An answer is a kind, "absent" or "unknown".  What a walk asks about is  *)
(* a record of answers, and for one that climbs a sequence of layers, the  *)
(* nearest first.                                                          *)
EXTENDS Naturals, Sequences, SequencesExt

Present == {"file", "dir", "other"}

(* The first layer that has it, or where the climb ended: 0 at the top,    *)
(* and "unknown" at the first layer that could not answer.                 *)
Climb_PassingBy(answers) ==
  LET at == SelectInSeq(answers, LAMBDA a : a \in Present) IN
  IF at # 0 \/ ~Contains(answers, "unknown") THEN [layer |-> at, known |-> TRUE]
  ELSE [layer |-> 0, known |-> FALSE]
Climb(answers) ==
  LET at == SelectInSeq(answers, LAMBDA a : a # "absent") IN
  [layer |-> at, known |-> at = 0 \/ answers[at] # "unknown"]

Unknown == [says |-> "unknown"]

(* find_git_root_with.                                                     *)
FindGitRoot(start, layers) ==
  LET up == Climb([i \in DOMAIN layers |-> layers[i].git]) IN
  IF start = "absent" THEN [says |-> "missing"]
  ELSE IF start = "unknown" \/ ~up.known THEN Unknown
  ELSE IF up.layer = 0 THEN [says |-> "absent"] ELSE [says |-> "found", layer |-> up.layer]

(* git_config_path: where the configuration of a layer is.  Its .git is a  *)
(* directory, or a file that names one: that of a worktree names the       *)
(* common directory in turn, that of a submodule does not.  Asking for a   *)
(* text and reading it are two calls.                                      *)
ConfigPath(layer) ==
  IF layer.git \in {"absent", "unknown"} THEN layer.git
  ELSE IF layer.git = "dir" THEN "own"
  ELSE IF layer.gitText # "gitdir" THEN IF layer.gitText = "unknown" THEN "unknown" ELSE "absent"
  ELSE IF layer.common = "absent" THEN "gitdir"
  ELSE IF layer.common = "unknown" \/ layer.commonText = "unknown" THEN "unknown" ELSE "common"

(* read_origin_from_config: what was found has to be readable after.       *)
OriginAt(config) ==
  IF config.probe \in {"absent", "unknown"} THEN config.probe
  ELSE IF config.text = "absent" THEN "unknown" ELSE config.text

(* read_origin_url_with and canonical_repo_id_with: an address that cannot *)
(* be normalised, and none, leave the path of the root for an identity.    *)
IdentityOf(origin) == IF origin = "url" THEN "git" ELSE "path"
OriginUrl(layer) ==
  LET path == ConfigPath(layer) IN
  IF path \in {"absent", "unknown"} THEN path ELSE OriginAt(layer.config[path])
CanonicalId(layer) ==
  IF OriginUrl(layer) = "unknown" THEN Unknown ELSE [says |-> IdentityOf(OriginUrl(layer))]

(* repo_id_for_root: on the host the whole chain is climbed, in a          *)
(* distribution the root itself is the only layer (wsl_repo_id_with).      *)
LocalRepoId(start, layers) ==
  LET root == FindGitRoot(start, layers)
      id == CanonicalId(layers[root.layer])
  IN
  CASE root.says = "unknown" -> Unknown
    [] root.says = "found" ->
         IF id = Unknown THEN Unknown ELSE [says |-> id.says, layer |-> root.layer]
    [] OTHER -> [says |-> "path", layer |-> 0, missing |-> root.says = "missing"]

WslRepoId(start, layers) ==
  LET config == ConfigPath(layers[1])
      origin == OriginUrl(layers[1])
  IN
  IF config = "unknown" THEN Unknown
  ELSE IF config = "absent"
       THEN IF start = "unknown" THEN Unknown
            ELSE [says |-> "path", layer |-> 0, missing |-> start = "absent"]
  ELSE IF origin = "unknown" THEN Unknown ELSE [says |-> IdentityOf(origin), layer |-> 1]

(* probe_local_with: the nearest .git, or else the nearest other marker;   *)
(* the home directory, a layer of its own, is not asked about.             *)
ProjectRoot(git, marker) ==
  IF ~git.known THEN Unknown
  ELSE IF git.layer # 0 THEN [says |-> "git", layer |-> git.layer]
  ELSE IF ~marker.known THEN Unknown
  ELSE IF marker.layer # 0 THEN [says |-> "marker", layer |-> marker.layer]
  ELSE [says |-> "absent"]

AwayFromHome(layers, home) ==
  [i \in DOMAIN layers |->
     IF i = home THEN [layers[i] EXCEPT !.git = "absent", !.marker = "absent"] ELSE layers[i]]

ProbeLocal(layers, home) ==
  LET away == AwayFromHome(layers, home) IN
  ProjectRoot(Climb([i \in DOMAIN away |-> away[i].git]), Climb([i \in DOMAIN away |-> away[i].marker]))

(* probe_wsl, find_project_root: one call climbs the chain, in a shell in  *)
(* which a test that may not look says no.                                 *)
Shell(answer) == IF answer = "unknown" THEN "absent" ELSE answer
ProbeWsl(reached, layers, home) ==
  IF ~reached THEN Unknown
  ELSE ProbeLocal([i \in DOMAIN layers |-> [layers[i] EXCEPT !.git = Shell(@), !.marker = Shell(@)]], home)

-----------------------------------------------------------------------------
(* encode_project_dir: separators and "_" become "-"; a name is a sequence *)
(* of words and of marks between them.  claude_project_dirs: one for each  *)
(* spelling of the root, within a distribution for one that is in it.      *)
Dash == "-"
Mark == {Dash, "_"}
WordsOf(name) ==
  FoldLeft(LAMBDA words, c : IF c \in Mark THEN words ELSE Append(words, c), <<>>, name)
Encode(names) == FoldLeft(LAMBDA words, name : words \o WordsOf(name), <<>>, names)
ClaudeProjectDirs(root, aliases) ==
  {Encode(names) : names \in {root} \union aliases}

(* decode_project_dir_with: words are joined to the longest name that is a *)
(* directory, and so on below it, without going back; a shorter name is    *)
(* not taken when a longer one could not be asked about.  A tree is the    *)
(* answers about paths; of one that it does not name there is nothing.     *)
NameOf(words) == [k \in 1..(2 * Len(words) - 1) |-> IF k % 2 = 1 THEN words[(k + 1) \div 2] ELSE Dash]

AnswerAt(tree, path) == IF path \in DOMAIN tree THEN tree[path] ELSE "absent"

NextName(enc, tree, run) ==
  LET name(j) == Append(run.path, NameOf(SubSeq(enc, run.at + 1, j)))
      answer(j) == AnswerAt(tree, name(j))
      rest == (run.at + 1)..Len(enc)
      dirs == {j \in rest : answer(j) = "dir"}
      longest == CHOOSE j \in dirs : \A k \in dirs : k <= j
  IN
  IF run.says # "dir" \/ run.at = Len(enc) THEN run
  ELSE IF \E j \in rest : answer(j) = "unknown" /\ \A k \in dirs : k < j THEN Unknown
  ELSE IF dirs = {} THEN [says |-> "absent"]
  ELSE [says |-> "dir", at |-> longest, path |-> name(longest)]

(* A name takes a word at least: there are not more names than words.      *)
Decode(enc, tree) ==
  FoldLeft(LAMBDA run, word : NextName(enc, tree, run), [says |-> "dir", at |-> 0, path |-> <<>>], enc)

-----------------------------------------------------------------------------
(* The same question with some points that do not answer.                  *)
Heard(answer, point, deaf) == IF point \in deaf THEN "unknown" ELSE answer

HeardLayer(layer, deaf) ==
  [p \in DOMAIN layer |->
     IF p = "config"
     THEN [c \in DOMAIN layer.config |-> [probe |-> Heard(layer.config[c].probe, "probe", deaf),
                                          text |-> Heard(layer.config[c].text, "text", deaf)]]
     ELSE Heard(layer[p], p, deaf)]

(* Whatever does not answer, a walk says either that it does not know, or  *)
(* what it would say if everything answered (identity.rs, discovery.rs: "a *)
(* layer that could not be asked stops it").  The shell in a distribution  *)
(* is the exception that the code does not name: a layer it may not search *)
(* is passed by.  Where a repository is asked about in its own directory,  *)
(* the host and the distribution name it alike.                            *)
OnlyWhatAllWouldSay(heard, told) == heard = Unknown \/ heard = told

ClimbsAreFacts(start, layers, home, deafStart, deaf) ==
  LET heard == [i \in DOMAIN layers |-> HeardLayer(layers[i], deaf[i])]
      from == Heard(start, "start", deafStart)
  IN
  /\ OnlyWhatAllWouldSay(LocalRepoId(from, heard), LocalRepoId(start, layers))
  /\ OnlyWhatAllWouldSay(WslRepoId(from, heard), WslRepoId(start, layers))
  /\ OnlyWhatAllWouldSay(ProbeLocal(heard, home), ProbeLocal(layers, home))
  /\ OnlyWhatAllWouldSay(ProbeWsl(deafStart = {}, layers, home), ProbeLocal(layers, home))
  /\ layers[1].git # "absent" => LocalRepoId(start, layers).says = WslRepoId(start, layers).says

(* What a name is decoded to is a directory that has this name.            *)
DecodesAreFacts(enc, tree, deaf) ==
  LET told == Decode(enc, tree)
      heard == Decode(enc, [path \in DOMAIN tree |-> Heard(tree[path], path, deaf)])
  IN
  /\ OnlyWhatAllWouldSay(heard, told)
  /\ told.says = "dir" => AnswerAt(tree, told.path) = "dir" /\ enc \in ClaudeProjectDirs(told.path, {})
=============================================================================
