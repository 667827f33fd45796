\* One process: the guarantees that need the head read and the transaction
\* not to be separated by another writer.
SPECIFICATION Spec
CONSTANTS
  Handle = {h1}
  f1 = f1
  a = a
  r1 = r1
  r2 = r2
  d1 = d1
  x = x
  y = y
  Source = {f1}
  Path = {p1}
  Session = {a}
  SeqNo = {0, 1}
  Data = {x, y}
  Root = {r1, r2}
  NoRoot = NoRoot
  Dir = {d1}
  Op = {op1}
  NoOp = NoOp
  PathOf <- MCPathOf
  DirOf <- MCDirOf
  Batch <- EmptyToo
  Erasable <- EraseRoot
  MaxSourceRevision = 1
  MaxProjectionRevision = 1
  MaxLog = 3
PROPERTIES
  ErasureCoversDirectory
  OnlyCopyKept
  ImplementsSourceView
