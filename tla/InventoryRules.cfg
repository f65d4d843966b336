\* Bags and torches, wands that are worn and given away, scrolls and coins: one kind
\* of thing at a time (RulesSpec).
SPECIFICATION RulesSpec
CONSTANTS
  bag = bag
  torch = torch
  wand = wand
  scroll = scroll
  Defs = {bag, torch, wand, scroll}
  Containers = {bag}
  Attunable = {wand}
  MaxCharges <- AllMaxCharges
  SingleUse = {scroll}
  Weight <- AllWeight
  FlatWeight = {bag}
  Inventories = {alice}
  Storages = {vault}
  PartyStash = party
  RecoveredLoot = loot
  UserNotes = {0}
  MaxAttunement = 1
  EnforceEncumbrance = FALSE
  HeavyThreshold = 2
  Overrides = {FALSE, TRUE}
  MaxRows = 3
  MaxUnits = 3
  MaxCoins = 2
CHECK_DEADLOCK FALSE
INVARIANT LogAccountsForItems
INVARIANT EveryRowIsShownByScreens
INVARIANT ControlsWorkInBounds
PROPERTY ContentsTravel
PROPERTY NoParentLeftBehind
PROPERTY FlagsStayBehind
