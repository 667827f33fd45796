\* Files that only grow, with crashes, failures, a lost state file and an upgrade,
\* files that are replaced by older ones, with two upgrades and failures, and files
\* that rounds without --write-store read too.
SPECIFICATION FairSpec
CONSTANTS
  Scanner = {p1}
  o = o
  cl = cl
  hi = hi
  lo = lo
  q = q
  nl = nl
  Byte <- Bytes
  NL = nl
  Lead <- Leads
  Text <- Lines
  Good <- Parses
  Life <- Lives
  Word = 64
  MaxFaults = 2
INVARIANTS
  StoreIsPrefixOfFile
  ConsumedIsStored
  NoFalseRollback
PROPERTIES
  ReparsedByNewest
  CatchesUp
