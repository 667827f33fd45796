SPECIFICATION FairSpec
CONSTANTS
  a1 = a1  b = b  g1 = g1  g2 = g2  w1 = w1  w2 = w2
  None = None  Torn = Torn
  Key = {a1, b}
  Shared = {b}
  Group = {g1, g2}
  Writer = {w1, w2}
  Media = {"file", "keychain"}
  MaxGoals = 2
  MaxCrashes = 1
INVARIANTS NothingUnopenable BackupHeals
PROPERTIES RerunSettlesOrStray
