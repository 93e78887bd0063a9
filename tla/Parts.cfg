\* One part at a time, of those that do one thing after another: a furnace, two raw items and
\* two coals, mid is an item that does not stack and a fuel besides; three block types in
\* two variants, room for three, three runs;
\* coordinates from -16 to 15, two chunks along each axis, both ends of the range.
SPECIFICATION Spec
CONSTANTS
  stone = stone
  sand = sand
  Plugins = {stone, sand, dirt}
  NoName = NoName
  NoAssignments = NoAssignments
  NoId = NoId
  NoChunk = NoChunk
  Failed = Failed
  Variants = 2
  MaxTypes = 3
  MaxRuns = 3
  raw = raw
  mid = mid
  cooked = cooked
  coal = coal
  NoItem = NoItem
  Items = {raw, mid, cooked, coal}
  Stackable = {raw, cooked, coal}
  MaxStack <- SmallStacks
  Fuels = {mid, coal}
  FuelTicks = 2
  Longest = 2
  Smelts <- TwoSmelts
  Supply <- TwoOfEach
  Reach = 1
  Cells = {1, 2}
  Kinds = {stone, sand}
  NoBlock = 0
  Rays <- TwoRays
  Holdables <- HandPickWand
  Hand = NoItem
  Rules <- DigRules
  Work = 2
  Loaded <- Chamber
  Worlds <- WallOrFurniture
  Spawns <- TwoCorners
  Strides <- SomeStrides
  MaxSteps = 45
  MaxFrames = 2
VIEW PartsView
CHECK_DEADLOCK FALSE
INVARIANTS
  PartsOK
  IdKeepsItsName
  DataHasType
  Conserved
  HeatPaid
  EvictionUndoesLittle
  AddressesFit
PROPERTIES
  ActionsFit
  StaysOut
