------------------------------ MODULE Discovery ------------------------------
(* What a machine has and what is found on it: its distributions, their    *)
(* mounted drives and homes (wsl.rs, lib.rs, memory_roots.rs), the root of *)
(* the project that a session worked in (discovery.rs), and what is noted  *)
(* of it at the events of the session (parser.rs).                         *)
(*                                                                         *)
(* A machine m is what its own commands would say:                         *)
(*   wsl      wsl.exe answers ("up") or does not ("down")                  *)
(*   listed   the lines of its list of distributions                       *)
(*   answers  the distributions that answer                                *)
(*   lines    for each distribution the lines of `mount`: a device, which  *)
(*            is a drive or not, and the point where it is mounted         *)
(*   profile  the home directory of the user of the host is known          *)
EXTENDS Paths, Walks, TLC

CONSTANT Docker     \* the distributions of Docker Desktop

(* is_user_distro, parse_distros, list_distros.                            *)
IsUserDistro(d) == d \notin Docker
ParseDistros(listed) ==
  FoldLeft(LAMBDA seen, d : IF Contains(seen, d) THEN seen ELSE Append(seen, d), <<>>, listed)
ListDistros(m) ==
  IF m.wsl = "up" THEN [says |-> "list", distros |-> ParseDistros(m.listed)] ELSE Unknown

(* default_distro: of several nobody can say which one a path is in.       *)
DefaultDistro(distros) ==
  LET users == SelectSeq(distros, IsUserDistro) IN IF Len(users) = 1 THEN users[1] ELSE Nothing

(* drive_mounts: drives only (is_windows_drive_device), the longest mount  *)
(* point first.                                                            *)
IsDriveDevice(device) == device \in Drive
DriveMounts(m, d) ==
  IF m.wsl = "down" \/ d \notin m.answers THEN Unknown
  ELSE [says |-> "table",
        table |-> SortSeq(SelectSeq([i \in DOMAIN m.lines[d] |->
                                       [at |-> m.lines[d][i].at, drive |-> m.lines[d][i].device]],
                                    LAMBDA l : IsDriveDevice(l.drive)),
                          LAMBDA k, l : Len(k.at) > Len(l.at))]

(* host_drive_mounts: the table of the default distribution; whatever goes *)
(* wrong, an empty one.                                                    *)
HostDriveMounts(m) ==
  LET listed == ListDistros(m)
      default == IF listed = Unknown THEN Nothing ELSE DefaultDistro(listed.distros)
      mounts == DriveMounts(m, default)
  IN IF default = Nothing \/ mounts = Unknown THEN <<>> ELSE mounts.table

(* home_of, local_root, wsl_root and enumerate: the homes in which agents  *)
(* keep their memory, and the places that could not be asked.              *)
HomeOf(m, d) == m.wsl = "up" /\ d \in m.answers
EnumerateRoots(m) ==
  LET listed == ListDistros(m)
      users == IF listed = Unknown THEN {}
               ELSE {d \in Range(listed.distros) : IsUserDistro(d)}
  IN [roots |-> (IF m.profile THEN {"local"} ELSE {}) \union {d \in users : HomeOf(m, d)},
      unreachable |-> IF listed = Unknown THEN {"wsl"} ELSE {d \in users : ~HomeOf(m, d)}]

-----------------------------------------------------------------------------
(* A directory and the way up from it: layers are the answers about its    *)
(* layers, the nearest first; UpFrom is the path at one of them.           *)
UpFrom(path, layer) == [path EXCEPT !.names = SubSeq(path.names, 1, Len(path.names) - layer + 1)]
IsRoot(up) == up.says \in {"git", "marker"}

(* probe_wsl: a root is called the way the path that led to it was, the    *)
(* distribution left away or named.                                        *)
RootWithin(path, layer, canonical) ==
  LET bare == Bare(UpFrom(path, layer).names) IN
  IF canonical THEN NormalizeCwd(bare, "windows", path.of) ELSE bare

(* probe_path: a path that nobody can be asked about is not known to have  *)
(* no root.                                                                *)
ProbePath(s, default, mounts, answering, layers) ==
  LET reach == ReachOf(s, "windows", default, mounts)
      up == CASE reach.ask = "nobody" -> Unknown
              [] reach.ask = "host" -> ProbeLocal(layers, 0)
              [] OTHER -> ProbeWsl(reach.path.of \in answering, layers, 0)
  IN IF ~IsRoot(up) THEN up
     ELSE [says |-> up.says,
           root |-> IF reach.ask = "host" THEN UpFrom(reach.path, up.layer)
                    ELSE RootWithin(reach.path, up.layer, ~IsBareLinux(s))]

-----------------------------------------------------------------------------
(* scan_default_distro, attribution_from_cwd, project_root_of: an event    *)
(* has the root of its directory, or the directory and a mark that none is *)
(* known; workspace_location: where that is.  A session that ran on the    *)
(* host has the location Nothing.                                          *)
ScanDefaultDistro(location) == location

WorkspaceLocation(root, location) ==
  CASE root.ns = "wsl" -> root.of
    [] IsBareLinux(root) -> IF location = Nothing THEN "some distribution" ELSE location
    [] OTHER -> "local"

(* project_root_registry, and project_roots, for which a store that is not *)
(* there and one that cannot be opened have no roots.                      *)
ProjectRootRegistry(readable, roots, mounts) ==
  IF readable THEN Registry(roots, mounts, "windows") ELSE {}
ProjectRoots(says, opens, roots, mounts) ==
  IF says = "file" THEN ProjectRootRegistry(opens, roots, mounts) ELSE {}

Attribution(root, path, location) ==
  IF root = Nothing
  THEN [root |-> path, known |-> FALSE, at |-> WorkspaceLocation(path, location)]
  ELSE [root |-> root, known |-> TRUE, at |-> WorkspaceLocation(root, location)]

AttributionFromCwd(cwd, location, registry, mounts) ==
  LET path == NormalizeCwd(cwd, "windows", ScanDefaultDistro(location))
  IN Attribution(RootOfPath(path, registry, mounts), path, location)

-----------------------------------------------------------------------------
(* No place is lost: every home is among the roots or among those that     *)
(* could not be asked, and a table leads to the drive that is mounted      *)
(* nearest, or says nothing (memory_roots.rs: "a stuck WSL and a machine   *)
(* without it" must not look alike; wsl.rs: no guess).                     *)
NoPlaceIsLost(m) ==
  LET found == EnumerateRoots(m)
      users == {d \in Range(m.listed) : IsUserDistro(d)}
      table == HostDriveMounts(m)
  IN
  /\ m.profile <=> "local" \in found.roots
  /\ \A d \in users : d \in found.roots \/ found.unreachable \intersect {d, "wsl"} # {}
  /\ found.roots \intersect found.unreachable = {}
  /\ \A d \in users, p \in {<<"mnt", "c", "p">>, <<"mnt", "c", "h", "p">>, <<"h", "p">>} :
       LET over == {l \in Range(m.lines[d]) : IsDriveDevice(l.device) /\ IsPrefix(l.at, p)}
           nearest == CHOOSE l \in over : \A k \in over : Len(k.at) <= Len(l.at)
       IN table # <<>> => MntToWindows(Bare(p), table) =
            IF over = {} THEN Nothing
            ELSE OnDrive(nearest.device, SubSeq(p, Len(nearest.at) + 1, Len(p)))

(* A root that was found for the directory of a session is the root that   *)
(* its events have after (discovery.rs: "the form that is registered is    *)
(* the form that is recognised"), whatever the way it was spelled, and     *)
(* they stay where they are; a root above the point where a drive is       *)
(* mounted is the exception, and that a drive which a session reached      *)
(* through the share of a distribution is said to be in it until its root  *)
(* is known.                                                               *)
Recognised(before, found, after, mounts) ==
  LET mounted == MountShaped(before.root.names) \/ MntToWindows(Bare(before.root.names), mounts) # Nothing
      above == mounted /\ before.root.ns # "drive" /\ found.root.ns # "drive" /\ Len(found.root.names) < 2
  IN
  IsRoot(found) /\ ~above =>
    /\ after.known /\ RegistryKey(after.root, mounts) = RegistryKey(found.root, mounts)
    /\ after.at = before.at \/ mounted

FoundRootIsRecognised(cwd, location, default, mounts, answering, others, LayersOf(_)) ==
  LET attributed(says, roots) ==
        AttributionFromCwd(cwd, location, ProjectRoots(says, TRUE, roots, mounts), mounts)
      before == attributed("absent", {})
      found == ProbePath(before.root, default, mounts, answering,
                         LayersOf(ReachOf(before.root, "windows", default, mounts).path))
  IN Recognised(before, found, attributed("file", others \union {found.root}), mounts)
=============================================================================
