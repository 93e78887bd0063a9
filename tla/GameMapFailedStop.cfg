\* One caller, a database write that fails, then a shutdown.
SPECIFICATION Spec
CONSTANTS
  Chunks = {c1}
  Users = {u1}
  Shards = {}
  v0 = v0
  Vals = {v0, v1}
  NoVal = NoVal
  Gen <- MCGen
  Kinds = {"set"}
  QueueSize = 1
  KeepRecent = 0
  EvictAtOnce = 1
  MayCrash = FALSE
  Drained = TRUE
  Faults = {"put"}
CHECK_DEADLOCK FALSE
INVARIANT
  ShutdownSaves
