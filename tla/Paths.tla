-------------------------------- MODULE Paths --------------------------------
(* How a directory is spelled and what a spelling says (pathnorm.rs,       *)
(* attribution.rs, class_b.rs).  On a Windows host one directory has       *)
(* several: C:\p, /mnt/c/p of a session that runs inside a distribution,   *)
(* wsl:Ubuntu:/mnt/c/p and \\wsl.localhost\Ubuntu\mnt\c\p.  The registry   *)
(* keeps roots by a key, and three programs ask it: the scan attributes a  *)
(* session, `svault attribute` identifies a path, and the snapshots of     *)
(* memory files carry the project they belong to.                          *)
(*                                                                         *)
(* A spelling is its namespace, the drive or distribution in it, and its   *)
(* names.  Separators and trailing slashes, which every comparison evens   *)
(* out, are left away; the case of names is not.                           *)
EXTENDS Naturals, Sequences, SequencesExt

CONSTANTS
  Drive,      \* letters of drives
  Lower,      \* Lower[n]: the name n in lower case
  Nothing     \* no spelling, no root, no identity, no distribution

Spelling(ns, of, names) == [ns |-> ns, of |-> of, names |-> names]
Bare(names) == Spelling("bare", Nothing, names)
OnDrive(d, names) == Spelling("drive", d, names)
Within(distro, names) == Spelling("wsl", distro, names)

(* is_windows_drive_mount, is_bare_linux_path: the shape of a path says it.*)
MountShaped(names) == Len(names) >= 2 /\ names[1] = "mnt" /\ names[2] \in Drive
IsDriveMount(s) == s.ns = "bare" /\ MountShaped(s.names)
IsBareLinux(s) == s.ns = "bare" /\ ~MountShaped(s.names)

(* canonical_wsl_unc (a UNC prefix alone is no path), canonical_wsl_to_unc *)
(* and alias_forms, the spellings that need no table of mounts.            *)
Canonical(s) == IF s.ns = "unc" /\ s.names # <<>> THEN [s EXCEPT !.ns = "wsl"] ELSE s
AliasForms(s) == (IF s.ns = "wsl" THEN {[s EXCEPT !.ns = "unc"]} ELSE {}) \union ({Canonical(s)} \ {s})

(* mnt_to_windows, with a table of the mount points of drives: a sequence  *)
(* of records, the longest mount point first.                              *)
MntToWindows(s, mounts) ==
  LET at == SelectInSeq(mounts, LAMBDA m : s.ns = "bare" /\ IsPrefix(m.at, s.names)) IN
  IF at = 0 THEN Nothing
  ELSE OnDrive(mounts[at].drive, SubSeq(s.names, Len(mounts[at].at) + 1, Len(s.names)))

(* normalize, folds_case.                                                  *)
Folded(s) ==
  IF s.ns = "drive" \/ (s.ns \in {"bare", "wsl"} /\ MountShaped(s.names))
  THEN [s EXCEPT !.names = [i \in DOMAIN s.names |-> Lower[s.names[i]]]] ELSE s

(* registry_key: a drive that is mounted in a distribution is the same     *)
(* drive in every one of them.                                             *)
RegistryKey_PerDistro(s, mounts) == Folded(Canonical(s))
RegistryKey(s, mounts) ==
  LET canonical == Canonical(s)
      p == IF canonical.ns = "wsl" /\ MountShaped(canonical.names) THEN Bare(canonical.names)
           ELSE canonical
      host == MntToWindows(p, mounts)
  IN Folded(IF host = Nothing THEN p ELSE host)

(* covers: by whole names; nothing is below a bare "/".                    *)
KeyCovers(root, key) ==
  \/ root = key
  \/ /\ root.ns = key.ns /\ root.of = key.of /\ IsPrefix(root.names, key.names)
     /\ root # Bare(<<>>)

-----------------------------------------------------------------------------
(* host_openable_form and spelling_order: which of several spellings of    *)
(* one directory stands for it; among equals the least in the alphabet,    *)
(* which is left open.                                                     *)
Usable(s, host) == s.ns \in {"drive", "unc"} \/ (s.ns = "bare" /\ host = "unix")
HostOpenable(s, host) == \E t \in {s} \union AliasForms(s) : Usable(t, host)

SpellingClass(s) ==
  IF s.ns = "drive" THEN 0 ELSE IF s.ns = "wsl" THEN 1 ELSE IF s.ns = "bare" THEN 2
  ELSE IF Canonical(s) # s THEN 3 ELSE 4

Before(s, t, host) ==
  \/ HostOpenable(s, host) /\ ~HostOpenable(t, host)
  \/ HostOpenable(s, host) = HostOpenable(t, host) /\ SpellingClass(s) < SpellingClass(t)

Preferred(S, host) == CHOOSE s \in S : \A t \in S : ~Before(t, s, host)

(* RootRegistry (with_mounts, from_roots, insert): one spelling for each   *)
(* key.  attribute: the root of a path is the one with the longest key     *)
(* that covers it.                                                         *)
Registry(roots, mounts, host) ==
  {Preferred({r \in roots : RegistryKey(r, mounts) = key}, host) :
     key \in {RegistryKey(r, mounts) : r \in roots}}

RootOfPath(q, registry, mounts) ==
  LET key(r) == RegistryKey(r, mounts)
      over == {r \in registry : KeyCovers(key(r), RegistryKey(q, mounts))}
  IN IF over = {} THEN Nothing
     ELSE CHOOSE r \in over : \A t \in over : Len(key(t).names) <= Len(key(r).names)

(* path_forms: a path of a distribution may have been registered without   *)
(* it, and one without may belong to any of them.                          *)
PathForms(s, distros) ==
  LET canonical == Canonical(s)
  IN {s, canonical}
       \union (IF canonical.ns = "wsl" THEN {Bare(canonical.names)} ELSE {})
       \union (IF IsBareLinux(s) THEN {Within(d, s.names) : d \in distros} ELSE {})

(* infer_distros: of the registered roots and their aliases.               *)
DistrosOf(roots) == {Canonical(r).of : r \in {r \in roots : Canonical(r).ns = "wsl"}}

(* namespace_free_depth: the names of a key, "c:" being one of them.       *)
Depth(key) == Len(key.names) + (IF key.ns = "drive" THEN 1 ELSE 0)

(* identify_path.  A row is a root with what is known of its repository:   *)
(* [root, id, verdict].                                                    *)
RowsOver(q, distros, rows, mounts) ==
  LET forms == PathForms(q, distros) IN
  {row \in rows : \E f \in forms, s \in {row.root} \union AliasForms(row.root) :
     KeyCovers(RegistryKey(s, mounts), RegistryKey(f, mounts))}

IdentifyPath(q, distros, rows, mounts) ==
  LET over == RowsOver(q, distros, rows, mounts)
      depth(row) == Depth(RegistryKey(row.root, mounts))
      top == {row \in over : \A other \in over : depth(other) <= depth(row)}
      ids == {row.id : row \in top}
  IN
  IF over = {}
  THEN [says |-> "unknown", needs |-> mounts = <<>> /\ \E f \in PathForms(q, {}) : IsDriveMount(f)]
  ELSE IF \E id, other \in ids : id # other THEN [says |-> "ambiguous"]
  ELSE IF Nothing \notin ids THEN [says |-> "resolved", id |-> CHOOSE id \in ids : TRUE]
  ELSE [says |-> IF (CHOOSE row \in top : TRUE).verdict = "no_identity"
                 THEN "no_identity" ELSE "identity_unavailable"]

(* run_attribute: with the distributions that are given, or else known.    *)
RunAttribute(q, given, rows, mounts) ==
  IdentifyPath(q, IF given = {} THEN DistrosOf({row.root : row \in rows}) ELSE given, rows, mounts)

(* same_directory_groups: rows of one identity that share a key, by what   *)
(* was observed, or else by guessing the distribution of a bare path.      *)
Keys(s, mounts) == {RegistryKey(t, mounts) : t \in {s} \union AliasForms(s)}
GuessedKeys(s, distros, mounts) ==
  UNION {{RegistryKey(f, mounts) : f \in PathForms(t, distros)} : t \in {s} \union AliasForms(s)}

Joined(buckets, row, distros, mounts) ==
  LET observed == Keys(row.root, mounts)
      guessed == GuessedKeys(row.root, distros, mounts)
      same(b) == b.id = row.id
      fact == SelectInSeq(buckets, LAMBDA b : same(b) /\ b.observed \intersect observed # {})
      guess == SelectInSeq(buckets, LAMBDA b : same(b) /\ b.guessed \intersect guessed # {})
      at == IF fact # 0 THEN fact ELSE guess
  IN
  IF at = 0 THEN Append(buckets, [id |-> row.id, roots |-> {row.root}, basis |-> "observed",
                                  observed |-> observed, guessed |-> guessed])
  ELSE [buckets EXCEPT ![at] =
          [id |-> row.id, roots |-> @.roots \union {row.root},
           basis |-> IF fact = 0 THEN "guess" ELSE @.basis,
           observed |-> @.observed \union observed, guessed |-> @.guessed \union guessed]]

SameDirectoryGroups(rows, distros, mounts) ==
  FoldLeft(LAMBDA buckets, row : IF row.id = Nothing THEN buckets
                                 ELSE Joined(buckets, row, distros, mounts), <<>>, rows)

-----------------------------------------------------------------------------
(* normalize_cwd: what a session says of its directory, with the           *)
(* distribution it ran in when the host has only that one.                 *)
NormalizeCwd(s, host, default) ==
  IF Canonical(s) # s THEN Canonical(s)
  ELSE IF host = "windows" /\ IsBareLinux(s) /\ default # Nothing
       THEN Within(default, s.names)
  ELSE s

(* reach_of: who can be asked about a path, and how it is called there.    *)
ReachOf(s, host, default, mounts) ==
  LET local(p) == [ask |-> "host", path |-> p]
      bridge(d, names) == [ask |-> "distro", path |-> Within(d, names)]
      nobody == [ask |-> "nobody"]
  IN
  IF Canonical(s).ns = "wsl" THEN bridge(Canonical(s).of, s.names)
  ELSE IF host = "windows" /\ IsBareLinux(s)
       THEN IF default = Nothing THEN nobody ELSE bridge(default, s.names)
  ELSE IF host = "windows" /\ IsDriveMount(s)
       THEN IF MntToWindows(s, mounts) = Nothing THEN nobody ELSE local(MntToWindows(s, mounts))
  ELSE local(s)

(* drive_mount_identity and snapshot_project: a directory found below the  *)
(* prefix of a distribution is read under its own path there, and its      *)
(* files belong to the project of snapshot_project_identity.               *)
DecodedIn(distro, names, mounts) ==
  IF MntToWindows(Bare(names), mounts) # Nothing THEN Bare(names)
  ELSE Spelling("unc", distro, names)

ReadPath(physical) == IF physical.ns = "unc" THEN Bare(physical.names) ELSE physical

SnapshotProject(physical, mounts) ==
  LET host == MntToWindows(physical, mounts) IN IF host = Nothing THEN physical ELSE host

-----------------------------------------------------------------------------
(* What there is: world.auto[d] are the drives mounted in distribution d,  *)
(* world.table is the table the programs have, which is that of the        *)
(* default distribution or empty (host_drive_mounts).  A bare path is one  *)
(* of the distribution `home`.                                             *)
Place(s, world, home) ==
  LET within == [s EXCEPT !.ns = "bare", !.of = Nothing]
      drive == MntToWindows(within, world.auto[IF s.ns = "bare" THEN home ELSE s.of])
  IN
  IF s.ns = "drive" THEN Folded(s)
  ELSE IF drive # Nothing THEN Folded(drive)
  ELSE Within(IF s.ns = "bare" THEN home ELSE s.of, s.names)

(* A path that looks like one of a mounted drive and is not: the mount     *)
(* points were moved (automount.root), or are those of another             *)
(* distribution, and the directory is an ordinary one.                     *)
LooksMounted(s, world, home) ==
  /\ s.ns # "drive" /\ Place(s, world, home).ns = "wsl"
  /\ MountShaped(s.names) \/ MntToWindows(Bare(s.names), world.table) # Nothing

(* A spelling that says where it is, with the table there is.              *)
Telling(s, world) ==
  \/ s.ns = "drive" \/ MntToWindows(Bare(s.names), world.table) # Nothing
  \/ s.ns # "bare" /\ ~MountShaped(s.names)

(* Mount points are where the code looks for them.                         *)
Usual(world) ==
  \A d \in DOMAIN world.auto : \A i \in DOMAIN world.auto[d] : MountShaped(world.auto[d][i].at)

(* Whatever is registered, and however it is spelled: two spellings with   *)
(* one key are one directory, and two of one directory have one key when   *)
(* both say where they are; a path is identified as the project that a     *)
(* scan attributes it to; rows are only merged without a guess when they   *)
(* are one directory; a probe asks about the directory that was meant; and *)
(* a memory file belongs to the project of its directory.  Directories     *)
(* that only look mounted are the exception, and mount points that were    *)
(* moved for what has to converge (attribution.rs, class_b.rs).            *)
OneKeyOnePlace(S, world, home) ==
  \A s, t \in S :
    LET one == RegistryKey(s, world.table) = RegistryKey(t, world.table)
        same == Place(s, world, home) = Place(t, world, home)
    IN /\ one => same
       /\ same /\ Telling(s, world) /\ Telling(t, world) /\ Usual(world) => one

SaidOf(said, root, rows) ==
  /\ root = Nothing <=> said.says = "unknown"
  /\ root # Nothing => \E row \in rows :
       /\ row.root = root
       /\ said.says = IF row.id # Nothing THEN "resolved"
                      ELSE IF row.verdict = "no_identity" THEN "no_identity"
                      ELSE "identity_unavailable"
       /\ row.id # Nothing => said.id = row.id

ExitsAgree(q, rows, world) ==
  SaidOf(RunAttribute(q, {}, rows, world.table),
         RootOfPath(q, Registry({row.root : row \in rows}, world.table, "windows"), world.table),
         rows)

ObservedIsOnePlace(rows, world, home) ==
  \A group \in Range(SameDirectoryGroups(rows, DistrosOf({row.root : row \in Range(rows)}), world.table)) :
    group.basis = "observed" =>
      group.roots # {} /\ \A r, t \in group.roots : Place(r, world, home) = Place(t, world, home)

AskedWhereItIs(s, world, home) ==
  LET reach == ReachOf(NormalizeCwd(s, "windows", home), "windows", home, world.table)
  IN reach.ask # "nobody" => Place(reach.path, world, home) = Place(s, world, home)

BelongsToItsProject(s, world, home) ==
  LET physical == DecodedIn(s.of, s.names, world.table)
      project == SnapshotProject(physical, world.table)
  IN
  s.ns = "unc" =>
    /\ Place(project, world, s.of) = Place(s, world, s.of)
    /\ Place(ReadPath(physical), world, s.of) = Place(s, world, s.of)
    /\ Usual(world) => RegistryKey(project, world.table) = RegistryKey(s, world.table)

OneDirectoryOneProject(rows, q, world, home) ==
  LET roots == {row.root : row \in Range(rows)}
      clear == \A s \in roots \union {q} : ~LooksMounted(s, world, home)
  IN
  clear =>
    /\ OneKeyOnePlace(roots \union {q}, world, home)
    /\ Usual(world) /\ (\A s \in roots \union {q} : Telling(s, world)) =>
         ExitsAgree(q, Range(rows), world)
    /\ ObservedIsOnePlace(rows, world, home)
    /\ AskedWhereItIs(q, world, home)
    /\ BelongsToItsProject(q, world, home)
=============================================================================
