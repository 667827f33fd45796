\* Two processes on one store: what holds in every interleaving.
SPECIFICATION Spec
CONSTANTS
  Handle = {h1, h2}
  f1 = f1
  a = a
  r1 = r1
  r2 = r2
  d1 = d1
  x = x
  y = y
  Source = {f1}
  Path = {p1}
  Session = {a}
  SeqNo = {0, 1}
  Data = {x}
  Root = {r1}
  NoRoot = NoRoot
  Dir = {d1}
  Op = {op1}
  NoOp = NoOp
  PathOf <- MCPathOf
  DirOf <- MCDirOf
  Batch <- PairBatch
  Erasable <- EraseAny
  MaxSourceRevision = 1
  MaxProjectionRevision = 1
  MaxLog = 2
INVARIANTS
  NoErasedRow
  RowsDecodable
  LedgerCoversRows
  TokenNamesOpenedGeneration
PROPERTIES
  RewriteLosesNothing
SYMMETRY Handles
