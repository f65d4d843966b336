------------------------------ MODULE ItemsMC ------------------------------
(***************************************************************************)
(* Inventory, ItemControls and Persistor for TLC, one of them in a         *)
(* behaviour: the store evolves by whatever requests, or by way of the     *)
(* screens, or the rows of the database by the persistor.  The catalog has *)
(* a bag (of holding, under hard mode), a torch, a wand and a scroll.      *)
(***************************************************************************)
EXTENDS ItemControls, Persistor

CONSTANTS bag, torch, wand, scroll

VARIABLE by  \* "requests", "screens" or "rows"

AllMaxCharges == [d \in Defs |-> IF d \in {wand, scroll} THEN 1 ELSE 0]
AllWeight == [d \in Defs |-> IF d = bag THEN 1 ELSE 2]

InitBy == Init /\ by \in {"requests", "screens", "rows"}

NextBy ==
  \/ by = "requests" /\ Next /\ UNCHANGED by
  \/ by = "screens" /\ ScreensNext /\ UNCHANGED by
  \/ by = "rows" /\ applyDelta /\ UNCHANGED by

SpecBy == InitBy /\ [][NextBy]_<<vars, by>>

-----------------------------------------------------------------------------
(* What the runs explore of it: the items and the coins meet only in the   *)
(* stashes, so that a run explores one kind of thing at a time, each under *)
(* bounds of its own.                                                      *)

Only(defs) == \A i \in DOMAIN items : items[i].def \in defs
AtMost(rows, units) == nextId <= rows + 1 /\ Units(DOMAIN items) <= units
NoCoins == \A s \in stashes : coins[s] = 0 /\ coinLog[s] = 0

(* Bags and torches between a storage, the party stash and the loot.       *)
Travel ==
  /\ Only({bag, torch}) /\ AtMost(3, 3) /\ NoCoins
  /\ \A i \in DOMAIN items : items[i].stash \notin Inventories

(* Wands that are equipped, attuned, used and given away.                  *)
Gear == Only({wand}) /\ AtMost(3, 2) /\ NoCoins

(* Single-use scrolls, and coins.                                          *)
Ledger == Only({scroll}) /\ AtMost(2, 2)

RulesSpec ==
  InitBy /\ by # "rows" /\ [][NextBy /\ (Travel \/ Gear \/ Ledger)']_<<vars, by>>

(* Bags and torches that are carried.                                      *)
Carried ==
  /\ Only({bag, torch}) /\ NoCoins /\ minted = {}
  /\ \A i \in DOMAIN items : items[i].stash # RecoveredLoot

Rows ==
  /\ Units(DOMAIN items) <= 3
  /\ \/ Only({bag, torch}) /\ NoCoins /\ Cardinality(DOMAIN items) <= 3
     \/ Only({wand}) /\ NoCoins
     \/ items = <<>>

HardMode == nextId <= 4 /\ IF by = "rows" THEN Rows ELSE Carried

HardModeSpec == InitBy /\ by # "screens" /\ [][NextBy /\ HardMode']_<<vars, by>>

RowsSpec == InitBy /\ by = "rows" /\ [][NextBy]_<<vars, by>>

\* Only torches are packed, and only in bags: the plainest case.
Packed ==
  \A i \in DOMAIN items : items[i].parent \in DOMAIN items =>
    items[i].def = torch /\ items[items[i].parent].def = bag

-----------------------------------------------------------------------------
(* Properties                                                              *)

(* By way of the screens, no row of a stash is left out of its table.      *)
EveryRowIsShownByScreens == by = "screens" => EveryRowIsShown

(* With room for one more unit and one more row, every control does what   *)
(* it says.                                                                *)
ControlsWorkInBounds ==
  by # "rows" /\ Units(DOMAIN items) < MaxUnits /\ nextId \in RowIds => ControlsWork

\* Under hard mode an inventory gets too heavy only by losing a bag of holding.
OverloadOnlyByLosingABagInStore == [][by # "rows" => OverloadNeedsALostBag]_vars

\* A flag is in an inventory.
FlagsOnlyWornInRows == by = "rows" => FlagsOnlyWorn
=============================================================================
