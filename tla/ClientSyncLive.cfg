\* Moves, lags and full channels, and in the end the player stays.
SPECIFICATION FairSpec
CONSTANTS
  a = a
  b = b
  p = p
  q = q
  x1 = x1
  x2 = x2
  y1 = y1
  Chunks = {a, b}
  Blocks = {y1}
  Ids = {i0}
  ChunkOf <- MCChunkOf
  Places = {p, q}
  NoPlace = NoPlace
  Eager <- MCEager
  Lazy <- MCLazy
  Keep <- KeepNear
  Paces = {0}
  MaxBatch = 2
  BroadcastSize = 1
  WireSize = 1
PROPERTY
  NearChunksArrive
