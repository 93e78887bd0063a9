\* The comment on known chunks in maybe_send_full_chunk.
SPECIFICATION Spec
CONSTANTS
  a = a
  b = b
  p = p
  q = q
  x1 = x1
  x2 = x2
  y1 = y1
  Chunks = {a}
  Blocks = {x1, x2}
  Ids = {i0, i1}
  ChunkOf <- MCChunkOf
  Places = {p}
  NoPlace = NoPlace
  Eager <- MCEager
  Lazy <- MCLazy
  Keep <- KeepBoth
  Paces = {0}
  MaxBatch = 2
  BroadcastSize = 2
  WireSize = 1
SYMMETRY Symmetry
INVARIANT
  KnownIsUpToDate
