\* A caller and a timer shard on one chunk, with room for one writeback request.
SPECIFICATION Spec
CONSTANTS
  Chunks = {c1}
  Users = {u1}
  Shards = {s1}
  v0 = v0
  Vals = {v0, v1}
  NoVal = NoVal
  Gen <- MCGen
  Kinds = {"set"}
  QueueSize = 1
  KeepRecent = 0
  EvictAtOnce = 1
  MayCrash = FALSE
  Drained = TRUE
  Faults = {}
CHECK_DEADLOCK FALSE
INVARIANT
  NeverStuck
