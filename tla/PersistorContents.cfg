\* The rows of the persistor, against what the documentation says of containers.
SPECIFICATION RowsSpec
CONSTANTS
  bag = bag
  torch = torch
  wand = wand
  scroll = scroll
  Defs = {bag, torch, wand}
  Containers = {bag}
  Attunable = {wand}
  MaxCharges <- AllMaxCharges
  SingleUse = {}
  Weight <- AllWeight
  FlatWeight = {bag}
  Inventories = {alice}
  Storages = {vault}
  PartyStash = party
  RecoveredLoot = loot
  UserNotes = {}
  MaxAttunement = 1
  EnforceEncumbrance = TRUE
  HeavyThreshold = 2
  Overrides = {FALSE}
  MaxRows = 3
  MaxUnits = 4
  MaxCoins = 1
CHECK_DEADLOCK FALSE
PROPERTY ContentsTravel
CONSTRAINT Packed
