\* A player comes and goes, while two blocks of a chunk change.
SPECIFICATION Spec
CONSTANTS
  a = a
  b = b
  p = p
  q = q
  x1 = x1
  x2 = x2
  y1 = y1
  Chunks = {a}
  Blocks = {x1, x2}
  Ids = {i0, i1}
  ChunkOf <- MCChunkOf
  Places = {p, q}
  NoPlace = NoPlace
  Eager <- MCEager
  Lazy <- MCLazy
  Keep <- KeepNear
  Paces = {0}
  MaxBatch = 2
  BroadcastSize = 1
  WireSize = 1
SYMMETRY Symmetry
INVARIANTS
  IInv
  NeverComplains
  StaleOnlyIfMissed
