\* One part at a time, of those in which processes meet: one name that two streams log in
\* under, with two calls that fail or kills; two messages of room each way and four numbered
\* messages; two slots and one item. Of
\* the server's locks and of the client's: three threads, of which one cleans up the map (the
\* server) or meshes (the client), two players, and one chunk without neighbours.
SPECIFICATION Spec
CONSTANTS
  amy = amy
  bob = bob
  Names = {amy}
  Streams = {s1, s2}
  Nobody = Nobody
  NoRecord = NoRecord
  NoPlayer = NoPlayer
  MaxPosition = 2
  MaxTroubles = 2
  Capacity = 2
  MaxSequence = 5
  Nothing = Nothing
  Slots = 2
  Items = {coal}
  NoItem = NoItem
  Threads = {"window", "inbound", "worker"}
  Keepers = {"worker"}
  PlayerStates = {amy, bob}
  Chunks = {here}
  here = here
  yonder = yonder
  ClientChunks = {here}
  Absent = Absent
  Near <- Alone
  MaxChanges = 1
  ann = ann
  dirt = dirt
  chest = chest
SYMMETRY Symmetry
CHECK_DEADLOCK FALSE
INVARIANTS
  PartsOK
  OneSession
  RecordIsLatest
  ItemsReturn
  ShutdownGoesOn
  AnswersFit
  NothingIsLeft
  NoLockCycle
  NoTaskCycle
  MeshIsCurrent
  HotbarFits
PROPERTIES
  RecordGoesForward
