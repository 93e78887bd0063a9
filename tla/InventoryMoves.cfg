CONSTANTS
  ann = ann
  bob = bob
  dirt = dirt
  chest = chest
  NoItem = NoItem
  NoPlayer = NoPlayer
  Items <- MCItems
  MaxStack <- MCMaxStack
  Stackable <- MCItems
  ChestItem = chest
  Players <- Both
  Crafters = {}
  MainSlots = 1
  GridSlots = 0
  ChestSlots = 1
  InitMain <- EachOne
  Recipes <- NoRecipes
  Creative = {}
  Counts = {1}
  MaxFaults = 0
  MaxItems = 2
SPECIFICATION MovesSpec
INVARIANTS CleanHoldsSaved
PROPERTIES NoLostUpdate ItemsAccounted
