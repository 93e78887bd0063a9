\* Two callers on one chunk, with database calls that fail and kills of the process.
SPECIFICATION Spec
CONSTANTS
  Chunks = {c1}
  Users = {u1, u2}
  Shards = {}
  v0 = v0
  Vals = {v0, v1}
  NoVal = NoVal
  Gen <- MCGen
  Kinds = {"mutate"}
  QueueSize = 1
  KeepRecent = 0
  EvictAtOnce = 1
  MayCrash = TRUE
  Drained = FALSE
  Faults = {"put", "load"}
SYMMETRY Symmetry
CHECK_DEADLOCK FALSE
INVARIANTS
  MapOK
  CleanMatchesDb
  WriterSeesNoEmpty
  FillsEmptyHolder
  LoadIsNotStale
  StallOnlyOnFullQueue
PROPERTY
  ImplementsStore
