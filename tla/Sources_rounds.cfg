\* One source on the host and one in a distribution, one call that fails.
CONSTANTS
  host = host
  distro = distro
  Source = {host, distro}
  Bridged = {distro}
  Scripts <- MCScripts
  Born = 1
  None = None
  MaxFaults = 1
SPECIFICATION FairSpec
INVARIANTS
  BatchesAreOneParse
  UsageAddsUp
PROPERTIES
  PruneHasReason
  IndexSettles
