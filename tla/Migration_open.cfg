\* Two programs open a store of an earlier era, or what an interrupted rewrite left of it.
SPECIFICATION FairSpec
CONSTANTS
  f1 = f1
  p1 = p1
  p2 = p2
  Program = {p1, p2}
  File = {f1}
  Stores <- Found
  None = None
  MaxWrites = 2
  MaxCrashes = 1
INVARIANTS
  NothingLost
  RowsStayBound
  ReadersSeeTheNewest
PROPERTIES
  Settles
