\* A caller and a timer shard on one chunk, with shutdown and crashes.
SPECIFICATION Spec
CONSTANTS
  Chunks = {c1}
  Users = {u1}
  Shards = {s1}
  v0 = v0
  Vals = {v0, v1}
  NoVal = NoVal
  Gen <- MCGen
  Kinds = {"read", "set", "cas", "mutate"}
  QueueSize = 1
  KeepRecent = 0
  EvictAtOnce = 1
  MayCrash = TRUE
  Drained = TRUE
  Faults = {}
SYMMETRY Symmetry
CHECK_DEADLOCK FALSE
INVARIANTS
  AnnouncedIsCurrent
  DownMeansSaved
