\* The reducer under hard mode, bags of holding and torches under a threshold; or the
\* rows of the persistor, bags and torches or wands (HardModeSpec).
SPECIFICATION HardModeSpec
CONSTANTS
  bag = bag
  torch = torch
  wand = wand
  scroll = scroll
  Defs = {bag, torch, wand}
  Containers = {bag}
  Attunable = {wand}
  MaxCharges <- AllMaxCharges
  SingleUse = {}
  Weight <- AllWeight
  FlatWeight = {bag}
  Inventories = {alice}
  Storages = {vault}
  PartyStash = party
  RecoveredLoot = loot
  UserNotes = {}
  MaxAttunement = 1
  EnforceEncumbrance = TRUE
  HeavyThreshold = 2
  Overrides = {FALSE}
  MaxRows = 3
  MaxUnits = 4
  MaxCoins = 1
CHECK_DEADLOCK FALSE
INVARIANTS RowsAddUp FlagsOnlyWornInRows
PROPERTY OverloadOnlyByLosingABagInStore
