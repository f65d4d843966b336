----------------------------- MODULE Persistor -----------------------------
(***************************************************************************)
(* The rows of the database as the persistor writes them: what             *)
(* apps/server/src/sync/persistor.ts makes of the item and coin actions.   *)
(* The server loads the rows, has the shared reducer accept the action and *)
(* give its log entries, and then writes the rows with code of its own: an *)
(* action here has the conditions and the log of the action of the same    *)
(* name in Inventory, and the effect that the persistor gives it.  The     *)
(* batches are of one action.  No notes are null here; the empty text that *)
(* the database keeps apart from it is not among the notes explored.       *)
(***************************************************************************)
EXTENDS Inventory

-----------------------------------------------------------------------------
(* What the database refuses                                               *)

(* The trigger on containerInstanceId: the parent has no parent itself.    *)
TooDeep(row) ==
  /\ row.parent \in DOMAIN items
  /\ items[row.parent].parent # NoParent

(* Inserting a copy of a row, with other values for what changes.          *)
Insert(row) ==
  /\ ~TooDeep(row)
  /\ nextId \in RowIds  \* bound
  /\ nextId' = nextId + 1

-----------------------------------------------------------------------------
(* Items                                                                   *)

(* findFirst by stash, definition and notes, whatever flags it has and     *)
(* wherever it is packed; a new row gets neither charges nor a number.     *)
persistAcquire(s, d, q, given) ==
  LET n == IF given = Undefined THEN NoNotes ELSE given
      found == SameKey(items, s, d, n)
      row == [def |-> d, stash |-> s, parent |-> NoParent, quantity |-> q,
              equipped |-> FALSE, attuned |-> FALSE,
              charges |-> NoCharges, notes |-> n]
  IN  /\ Units(DOMAIN items) + q <= MaxUnits  \* bound
      /\ s \in stashes
      /\ \E post \in Acquired(items, s, d, q, given, nextId) : CanCarry(post, s)
      /\ \/ \E t \in found : items' = Grow(items, t, q) /\ UNCHANGED nextId
         \/ found = {} /\ items' = Put(items, nextId, row) /\ Insert(row)
      /\ LogItems(d, q)
      /\ UNCHANGED purse

persistConsume(i, q) == Consume(i, q)

persistEditItemInstance(i, n) == EditNotes(i, n)

(* Mutant: a row that is moved whole keeps its flags.                      *)
MovedRowKeepingFlags(i, to, parent) ==
  [items[i] EXCEPT !.stash = to, !.parent = IF parent = Undefined THEN @ ELSE parent]

(* The row alone moves: its contents stay, and so does its parent unless   *)
(* the payload names one.                                                  *)
MovedRow(i, to, parent) ==
  [items[i] EXCEPT !.stash = to, !.equipped = FALSE, !.attuned = FALSE,
                   !.parent = IF parent = Undefined THEN @ ELSE parent]

(* Mutant: the row that is merged is not deleted.                          *)
MergedKeeping(i, t) == Grow(items, t, items[i].quantity)

Merged(i, t) == Grow(Drop(items, i), t, items[i].quantity)

(* A row like it in the destination, in the same stash too, takes it over. *)
TransferWhole(i, to, parent) ==
  LET found == SameKey(items, to, items[i].def, items[i].notes) \ {i}
  IN  /\ items' \in IF found # {} THEN {Merged(i, t) : t \in found}
                    ELSE {Put(items, i, MovedRow(i, to, parent))}
      /\ UNCHANGED nextId

(* The part that moves is a row of its own, next to any that are like it.  *)
TransferPart(i, q, to, parent) ==
  LET row == [items[i] EXCEPT
                !.stash = to, !.quantity = q, !.equipped = FALSE, !.attuned = FALSE,
                !.parent = IF parent = Undefined THEN NoParent ELSE parent]
  IN  items' = Put(Take(items, i, q), nextId, row) /\ Insert(row)

persistTransfer(i, q, to, parent) ==
  /\ to \in stashes
  /\ CanTransfer(items, i, q, to, parent)
  /\ \E post \in Transferred(items, i, q, to, parent, nextId) : CanCarry(post, to)
  /\ \/ q = items[i].quantity /\ TransferWhole(i, to, parent)
     \/ q < items[i].quantity /\ TransferPart(i, q, to, parent)
  /\ UNCHANGED <<itemLog, purse>>

persistSplit(i, q) ==
  LET row == [items[i] EXCEPT !.quantity = q, !.equipped = FALSE, !.attuned = FALSE]
  IN  /\ q \in 1 .. items[i].quantity - 1
      /\ items' = Put(Take(items, i, q), nextId, row)
      /\ Insert(row)
      /\ UNCHANGED <<itemLog, purse>>

-----------------------------------------------------------------------------
(* Equipment and charges                                                   *)

(* Equip and attune: the row itself if it is one unit, else one unit of it *)
(* becomes a row with the flag.                                            *)
FlagUnit(i, flagged) ==
  \/ items[i].quantity = 1 /\ items' = Put(items, i, flagged) /\ UNCHANGED nextId
  \/ items[i].quantity > 1 /\ items' = Put(Take(items, i, 1), nextId, flagged)
                           /\ Insert(flagged)

persistEquip(i) ==
  /\ items[i].stash \in Inventories
  /\ ~items[i].equipped
  /\ FlagUnit(i, [items[i] EXCEPT !.quantity = 1, !.equipped = TRUE,
                                  !.attuned = @ /\ items[i].quantity = 1])
  /\ UNCHANGED <<itemLog, purse>>

persistAttune(i, override) ==
  /\ items[i].stash \in Inventories
  /\ CanAttune(items, i, override)
  /\ FlagUnit(i, [items[i] EXCEPT !.quantity = 1, !.attuned = TRUE,
                                  !.equipped = @ /\ items[i].quantity = 1])
  /\ UNCHANGED <<itemLog, purse>>

(* restackOrPatch: the stacking of the reducer.                            *)
restackOrPatch(i, row) ==
  /\ items' \in Restacked(items, i, row)
  /\ UNCHANGED <<nextId, itemLog, purse>>

persistUnequip(i) ==
  /\ items[i].stash \in Inventories
  /\ items[i].equipped
  /\ restackOrPatch(i, [items[i] EXCEPT !.equipped = FALSE])

persistUnattune(i) ==
  /\ items[i].stash \in Inventories
  /\ items[i].attuned
  /\ restackOrPatch(i, [items[i] EXCEPT !.attuned = FALSE])

(* The log consumes a single-use item with its last charge; the row stays. *)
persistUseCharge(i, amount) ==
  LET row == items[i]
  IN  /\ row.stash \in Inventories
      /\ CanUseCharge(row, amount)
      /\ items' = Put(items, i, WithCharges(row, row.charges - amount))
      /\ LogItems(row.def, IF UsesUp(row, amount) THEN -1 ELSE 0)
      /\ UNCHANGED <<nextId, purse>>

(* A row without charges, which the reducer fills, is an error here.       *)
persistRechargeOne(i, amount) == items[i].charges # NoCharges /\ RechargeOne(i, amount)

(* In a rest it is passed over.                                            *)
persistRechargeAll(s, amounts) ==
  /\ items' = [i \in DOMAIN items |->
       IF i \in Lying(items, s) /\ MaxCharges[items[i].def] > 0
            /\ items[i].def \notin SingleUse /\ items[i].charges # NoCharges
       THEN WithCharges(items[i], RechargedTo(items[i], amounts[i]))
       ELSE items[i]]
  /\ UNCHANGED <<nextId, itemLog, purse>>

-----------------------------------------------------------------------------
(* Stashes and coins                                                       *)

persistCreateStash(s) == CreateStash(s)

(* A row that is put down in the loot.                                     *)
Bare(row) == [row EXCEPT !.equipped = FALSE, !.attuned = FALSE, !.parent = NoParent]

persistDeleteStash(s) ==
  /\ s \in stashes \intersect Storages
  /\ stashes' = stashes \ {s}
  /\ items' = [i \in DOMAIN items |->
       IF items[i].stash = s THEN Bare(Into(items[i], RecoveredLoot)) ELSE items[i]]
  /\ coins' = [coins EXCEPT ![RecoveredLoot] = @ + coins[s], ![s] = 0]
  /\ coinLog' = [coinLog EXCEPT ![RecoveredLoot] = @ + coins[s]]
  /\ UNCHANGED <<minted, nextId, itemLog>>

(* Increments and decrements of the holdings.                              *)
persistCurrencyChange(s, delta) == CurrencyChange(s, delta)

persistCurrencyTransfer(from, to, delta) == CurrencyTransfer(from, to, delta)

-----------------------------------------------------------------------------
(* applyDelta                                                              *)

PersistItem(i) ==
  \/ \E q \in Quantities : persistConsume(i, q) \/ persistSplit(i, q)
  \/ \E n \in UserNotes : persistEditItemInstance(i, n)
  \/ \E q \in Quantities, to \in stashes,
        parent \in DOMAIN items \union {NoParent, Undefined} :
          persistTransfer(i, q, to, parent)

PersistCharacter(i) ==
  \/ persistEquip(i) \/ persistUnequip(i)
  \/ (\E override \in Overrides : persistAttune(i, override)) \/ persistUnattune(i)
  \/ \E amount \in Amounts : persistUseCharge(i, amount)
  \/ \E amount \in Amounts \union {Undefined} : persistRechargeOne(i, amount)

PersistPurse ==
  \/ \E s \in Storages : persistCreateStash(s) \/ persistDeleteStash(s)
  \/ \E s \in stashes, delta \in -MaxCoins .. MaxCoins : persistCurrencyChange(s, delta)
  \/ \E s, t \in stashes, delta \in 1 .. MaxCoins : persistCurrencyTransfer(s, t, delta)

applyDelta ==
  \/ \E s \in stashes, d \in Defs, q \in Quantities,
        given \in UserNotes \union {Undefined} : persistAcquire(s, d, q, given)
  \/ \E i \in DOMAIN items : PersistItem(i) \/ PersistCharacter(i)
  \/ \E s \in Inventories :
       \E amounts \in [DOMAIN items -> Amounts \union {Undefined}] :
         persistRechargeAll(s, amounts)
  \/ PersistPurse

PersistorSpec == Init /\ [][applyDelta]_vars

-----------------------------------------------------------------------------
(* Safety                                                                  *)

(***************************************************************************)
(* The rows of the database add up to the log although the reducer, which  *)
(* writes the log, and the persistor, which writes the rows, stack, split  *)
(* and merge by rules of their own: no unit of an item is lost or made but *)
(* by an entry.  Single-use items are excepted, see persistUseCharge.      *)
(***************************************************************************)
RowsAddUp ==
  \A d \in Defs \ SingleUse :
    Units({i \in DOMAIN items : items[i].def = d}) = itemLog[d]

(***************************************************************************)
(* The trigger on the flags never has to refuse a write: a row with a flag *)
(* lies in an inventory, whatever moves, merges and deletions it has been  *)
(* through.                                                                *)
(***************************************************************************)
FlagsOnlyWorn == \A i \in DOMAIN items : ~Mundane(items[i]) => items[i].stash \in Inventories
=============================================================================
