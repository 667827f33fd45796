SPECIFICATION ReplicasFairSpec
CONSTANTS
  unc = unc  mnt = mnt  win = win  other = other  file = file
  Machine <- MCMachine
  Reader = {2}
  Event <- MCEvent
  LoggedOn <- MCLoggedOn
  SessionId <- MCSession
  SessionOf <- MCSessionOf
  Path = {file}
  PathOf <- MCPathOf
  Root = {unc, mnt, win, other}
  RootOf <- MCRootOf
  Dir = {mnt, win, other}
  DirOf <- MCDirOf
  HostDirOf <- MCHostDirOf
  Erasable <- MCErasable
  Budget = 1
  MaxAsked = 1
  MaxFaults = 1
INVARIANTS MergedReadShowsNoErased
PROPERTIES ErasuresReachEveryStore
