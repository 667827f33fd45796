SPECIFICATION FairSpec
CONSTANTS
  p = p
  None = None
  Syncer = {s1, s2}
  File <- MCFile
  Bridged = {1}
  Inside = {1}
  Project = {p}
  ProjectOf <- MCProjectOf
  Erasable <- MCErasable
  MaxEdits = 2
  MaxFaults = 1
INVARIANT ErasedUnlessUnresolved
PROPERTIES FollowsFile
