CONSTANTS
  ann = ann
  bob = bob
  dirt = dirt
  chest = chest
  NoItem = NoItem
  NoPlayer = NoPlayer
  Items <- MCItems
  MaxStack <- MCMaxStack
  Stackable <- MCItems
  ChestItem = chest
  Players <- Ann
  Crafters <- Ann
  MainSlots = 1
  GridSlots = 1
  ChestSlots = 1
  InitMain <- AnnsChest
  Recipes <- ChestOfDirt
  Creative = {dirt}
  Counts = {1}
  MaxFaults = 0
  MaxItems = 1
SPECIFICATION Spec
INVARIANTS CleanBlockIsSaved
