\* Four calls, ticks or cleanup passes on a chunk, and a shutdown.
SPECIFICATION LiveSpec
CONSTANTS
  Chunks = {c1}
  Users = {u1, u2}
  Shards = {s1}
  v0 = v0
  Vals = {v0}
  NoVal = NoVal
  Gen <- MCGen
  Kinds = {"set"}
  QueueSize = 8
  KeepRecent = 0
  EvictAtOnce = 1
  MayCrash = FALSE
  Drained = TRUE
  Faults = {}
  Budget = 4
CHECK_DEADLOCK FALSE
PROPERTIES
  CallsReturn
  ChangeIsSaved
  ShutdownEnds
