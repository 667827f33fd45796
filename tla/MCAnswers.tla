------------------------------ MODULE MCAnswers ------------------------------
(* Instances of Answers for TLC: every question of bounded size.           *)
EXTENDS Answers

CONSTANTS Ubuntu, Debian

-----------------------------------------------------------------------------
(* Probes: at most one of the lesser circumstances is unusual, and a path  *)
(* that is a root or relative has no anchor.                               *)
MCSituations ==
  {[node |-> n, reach |-> r, anchor |-> f[1], form |-> f[2], distro |-> d, inside |-> o # "inside",
    text |-> o # "text", time |-> o # "time", long |-> o # "long"] :
     n \in Kind \union {"nothing"}, r \in {"open", "failing", "offline", "detached", "link"},
     f \in ({"reachable", "missing", "failing", "none"} \X {"below"}) \union ({"none"} \X {"root", "relative"}),
     d \in {"up", "down", "layer", "file"}, o \in {"text", "time", "long", "inside", "nothing"}}

-----------------------------------------------------------------------------
(* Walks: two layers that hold nothing, another marker, a repository of    *)
(* one's own, a worktree, a submodule or a file that names no directory;   *)
(* any of what they are asked does not answer.                             *)
Layers ==
  {BareLayer, [BareLayer EXCEPT !.marker = "file"], ALayer("file", "other", "absent", "none", "absent"),
   ALayer("dir", "absent", "absent", "none", "absent")}
  \union {ALayer("dir", "absent", "absent", "own", t) : t \in {"url", "bad", "absent"}}
  \union {ALayer("file", "gitdir", "file", "common", "url"), ALayer("file", "gitdir", "absent", "gitdir", "url")}
Points == {"git", "gitText", "common", "commonText", "probe", "text", "marker"}
MCClimbs ==
  {[start |-> s, layers |-> <<a, b>>, home |-> h, deafStart |-> ds, deaf |-> <<d, e>>] :
     s \in {"dir"}, a \in Layers, b \in Layers, h \in 0..2, ds \in {{}, {"start"}},
     d \in {{}} \union {{p} : p \in Points}, e \in {{}, {"git"}, {"text"}, {"marker"}}}
  \union {[start |-> "absent", layers |-> <<BareLayer, b>>, home |-> 0, deafStart |-> ds, deaf |-> <<d, {}>>] :
            b \in Layers, ds \in {{}, {"start"}}, d \in {{}, {"git"}}}

(* The name of a project of three words, and the directories that may be   *)
(* below the root of a disk; one or two of them do not answer.             *)
Enc == <<"a", "b", "c">>
Trees ==
  LET one(j, k) == NameOf(SubSeq(Enc, j, k))
      top == {one(1, 1), one(1, 2), one(1, 3)}
      below(n) == CASE n = one(1, 1) -> {<<n, one(2, 2)>>, <<n, one(2, 3)>>}
                    [] n = one(1, 2) -> {<<n, one(3, 3)>>} [] OTHER -> {}
      low == <<one(1, 1), one(2, 2), one(3, 3)>>
      all == {<<n>> : n \in top} \union UNION {below(n) : n \in top} \union {low}
  IN {[path \in all |-> IF path \in there THEN "dir" ELSE IF path = <<one(1, 3)>> THEN "file" ELSE "absent"] :
        there \in {S \in SUBSET all : \A path \in S : Len(path) = 1 \/ Front(path) \in S}}
MCDecodes ==
  UNION {{[enc |-> Enc, tree |-> t, deaf |-> d] : d \in {S \in SUBSET DOMAIN t : Cardinality(S) <= 2}} : t \in Trees}

-----------------------------------------------------------------------------
(* Frames: up to two frames, each whole and right but for one thing; the   *)
(* last may be cut off.                                                    *)
Whole ==
  {Frame("data", b, s, sum, "whole", 0) :
     b \in {<<>>, <<2>>, <<1, 2>>}, s \in {NoSize, 1, 2, 3}, sum \in {"none", "right", "wrong"}}
  \union {Frame("skippable", <<>>, NoSize, "none", "whole", 0), Frame("reserved", <<>>, NoSize, "none", "whole", 0)}
Short ==
  {Frame("data", <<1, 2>>, s, "right", c, t) : s \in {NoSize, 3}, c \in Cut \ {"whole"}, t \in {0, 1}}
  \union {Frame("skippable", <<>>, NoSize, "none", c, 0) : c \in {"magic", "body"}}
MCStreams ==
  {<<>>} \union {<<f>> : f \in Whole \union Short} \union {<<f, g>> : f \in Whole, g \in Whole \union Short}

-----------------------------------------------------------------------------
(* Paths: two distributions, one drive; its mount points where they are by *)
(* default, moved, in one of the two only, and a table that was not had.   *)
PathNames == {"p", "P", "q", "mnt", "c", "d", "drv", "h"}
LowerCase == [n \in PathNames |-> IF n = "P" THEN "p" ELSE n]
MountAt(at) == <<[at |-> at, drive |-> "c"]>>
Default == MountAt(<<"mnt", "c">>)
Worlds ==
  LET of(u, d, table) == [auto |-> (Ubuntu :> u @@ Debian :> d), table |-> table]
      moved == MountAt(<<"drv", "c">>)
  IN {of(Default, Default, Default), of(Default, Default, <<>>), of(moved, moved, moved),
      of(Default, <<>>, Default), of(<<>>, <<>>, <<>>)}

MCDistro == {Ubuntu, Debian}
MCSpellings ==
  {OnDrive("c", <<"p">>), OnDrive("c", <<"P", "q">>), Bare(<<"mnt", "c", "p">>),
   Spelling("unc", Debian, <<"mnt", "c", "p">>), Bare(<<"h">>), Within(Ubuntu, <<"h">>),
   Spelling("unc", Ubuntu, <<"h", "q">>), Within(Debian, <<"h">>), Within(Ubuntu, <<"drv", "c", "p">>)}
Registered ==
  {<<s>> : s \in MCSpellings} \union {r \in [1..2 -> MCSpellings] : IsInjective(r)}
    \union {r \in [1..3 -> MCSpellings] : IsInjective(r) /\ r[1].ns = "bare"}

MCRegistries ==
  {[roots |-> r, world |-> w, home |-> h, ids |-> i] :
     r \in Registered, w \in Worlds, h \in {Ubuntu, Debian}, i \in {"each", "one", "none"}}

-----------------------------------------------------------------------------
(* Discovery: a machine lists its distributions, one of them twice or that *)
(* of Docker between them; any of them answers; a second drive is mounted  *)
(* below the first one.                                                    *)
MCMachines ==
  {[wsl |-> w, listed |-> l, answers |-> a, profile |-> p, lines |-> (Ubuntu :> t @@ Debian :> <<>>)] :
     w \in {"up", "down"}, p \in BOOLEAN, a \in SUBSET {Ubuntu, Debian},
     l \in {<<>>, <<Ubuntu>>, <<"docker", Ubuntu, Ubuntu>>, <<Ubuntu, Debian>>, <<"docker">>},
     t \in {<<>>, <<[device |-> "none", at |-> <<>>], [device |-> "c", at |-> <<"mnt", "c">>]>>,
            <<[device |-> "c", at |-> <<"mnt", "c">>], [device |-> "none", at |-> <<"mnt", "c", "p">>],
              [device |-> "d", at |-> <<"mnt", "c", "h">>]>>}}

(* The directory of a session that ran on the host or in a distribution;   *)
(* a repository, or another marker, is at any depth of its path.           *)
MCSessions ==
  {[cwd |-> s, location |-> l, table |-> t, default |-> d, git |-> g, marker |-> k, others |-> o,
    answering |-> {Ubuntu, Debian}] :
     s \in MCSpellings, l \in {Nothing, Ubuntu, Debian}, t \in {w.table : w \in Worlds},
     d \in {Nothing, Ubuntu}, g \in {{}, {1}, {2}, {3}, {1, 3}}, k \in {{}, {1}, {2}},
     o \in {{}, {Bare(<<"h">>)}, {Spelling("unc", Debian, <<"mnt", "c">>)}}}
=============================================================================
