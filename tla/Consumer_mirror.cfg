SPECIFICATION FairSpec
CONSTANTS
  f = f
  Source = {f}
  Session <- MCSession
  OfSource <- MCOfSource
  PullLimit = {2}
  Batch = 1
  MaxEvents = 1
  ChangeLimit = 1
  MaxOffset = 3
  MaxMoves = 2
  MaxBad = 1
  MaxErased = 1
  MaxFailures = 1
INVARIANT MirrorMissesNothing
PROPERTY Converges
