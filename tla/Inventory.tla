----------------------------- MODULE Inventory -----------------------------
(***************************************************************************)
(* The items and coins of a party as the reducer evolves them: one action  *)
(* per action type of packages/rules/src/reducer/index.ts that touches     *)
(* rows, stashes or holdings.  An action the reducer refuses leaves the    *)
(* state alone and is not a step.  Who may send an action is the guards'   *)
(* business (packages/shared/src/guards/map.ts): any sequence of actions   *)
(* that the rules accept is explored.                                      *)
(*                                                                         *)
(* The transaction log is kept as what its entries add up to: itemLog is   *)
(* the units of a definition by its acquire and consume entries, coinLog   *)
(* the coins of a stash by its currency entries.  (Not the units of a      *)
(* stash: contents that follow their container have no entry of their      *)
(* own.)  The five denominations of a holding never mix in these actions,  *)
(* so that one stands for each of them.                                    *)
(***************************************************************************)
EXTENDS ItemRules

CONSTANTS
  Overrides,    \* the values of overrideCap that are explored
  MaxRows,      \* bound: rows ever minted
  MaxUnits,     \* bound: units of all items at a time
  MaxCoins      \* bound: coins in circulation

ASSUME OverridesAssumption == Overrides \subseteq BOOLEAN
ASSUME BoundsAssumption ==
         MaxRows \in Nat /\ MaxUnits \in Nat /\ MaxCoins \in Nat

VARIABLES
  items,    \* the rows, by id
  stashes,  \* the stashes there are
  minted,   \* the storage ids that were ever used
  coins,    \* the coins of each stash, 0 where there is none
  nextId,   \* the next row id that a client mints
  itemLog,  \* the units of each definition by the log
  coinLog   \* the coins of each stash by the log

vars == <<items, stashes, minted, coins, nextId, itemLog, coinLog>>

purse == <<stashes, minted, coins, coinLog>>

RowIds == 1 .. MaxRows

Units(S) == MapThenSumSet(LAMBDA i : items[i].quantity, S)

-----------------------------------------------------------------------------
(* The log                                                                 *)

LogItems(d, q) == itemLog' = [itemLog EXCEPT ![d] = @ + q]

(* The id in a payload is used up when it becomes a row.                   *)
Mint ==
  /\ DOMAIN items' \subseteq RowIds  \* bound
  /\ nextId' = IF nextId \in DOMAIN items' THEN nextId + 1 ELSE nextId

-----------------------------------------------------------------------------
TypeOK ==
  /\ items \in [DOMAIN items -> Row]
  /\ DOMAIN items \subseteq RowIds
  /\ stashes \subseteq Stashes
  /\ minted \subseteq Storages
  /\ coins \in [Stashes -> Nat]
  /\ nextId \in 1 .. MaxRows + 1
  /\ itemLog \in [Defs -> Int]
  /\ coinLog \in [Stashes -> Int]

(* create-character: an inventory each, the party stash and the loot.      *)
Init ==
  /\ items = [i \in {} |-> 0]
  /\ stashes = Inventories \union {PartyStash, RecoveredLoot}
  /\ minted = {}
  /\ coins = [s \in Stashes |-> 0]
  /\ nextId = 1
  /\ itemLog = [d \in Defs |-> 0]
  /\ coinLog = [s \in Stashes |-> 0]

-----------------------------------------------------------------------------
(* Items                                                                   *)

Acquire(s, d, q, given) ==
  /\ Units(DOMAIN items) + q <= MaxUnits  \* bound
  /\ s \in stashes
  /\ items' \in Acquired(items, s, d, q, given, nextId)
  /\ CanCarry(items', s)
  /\ LogItems(d, q)
  /\ Mint
  /\ UNCHANGED purse

Consume(i, q) ==
  /\ q \in 1 .. items[i].quantity
  /\ items' = Take(items, i, q)
  /\ LogItems(items[i].def, -q)
  /\ UNCHANGED <<nextId, purse>>

(* edit-item-instance, of which only the notes matter here.                *)
EditNotes(i, n) ==
  /\ n # items[i].notes
  /\ items' = Put(items, i, [items[i] EXCEPT !.notes = n])
  /\ UNCHANGED <<nextId, itemLog, purse>>

Transfer(i, q, to, parent) ==
  /\ to \in stashes
  /\ CanTransfer(items, i, q, to, parent)
  /\ items' \in Transferred(items, i, q, to, parent, nextId)
  /\ CanCarry(items', to)
  /\ Mint
  /\ UNCHANGED <<itemLog, purse>>

Split(i, q) ==
  /\ q \in 1 .. items[i].quantity - 1
  /\ items' = SplitOff(items, i, q, nextId)
  /\ Mint
  /\ UNCHANGED <<itemLog, purse>>

-----------------------------------------------------------------------------
(* Equipment and charges: only in the inventory of the character           *)

Equip(i) ==
  /\ items[i].stash \in Inventories
  /\ ~items[i].equipped
  /\ items' \in Equipped(items, i, nextId)
  /\ Mint
  /\ UNCHANGED <<itemLog, purse>>

Unequip(i) ==
  /\ items[i].stash \in Inventories
  /\ items[i].equipped
  /\ items' \in Unequipped(items, i)
  /\ UNCHANGED <<nextId, itemLog, purse>>

Attune(i, override) ==
  /\ items[i].stash \in Inventories
  /\ CanAttune(items, i, override)
  /\ items' \in Attuned(items, i, nextId)
  /\ Mint
  /\ UNCHANGED <<itemLog, purse>>

Unattune(i) ==
  /\ items[i].stash \in Inventories
  /\ items[i].attuned
  /\ items' \in Unattuned(items, i)
  /\ UNCHANGED <<nextId, itemLog, purse>>

UseCharge(i, amount) ==
  LET row == items[i]
  IN  /\ row.stash \in Inventories
      /\ CanUseCharge(row, amount)
      /\ items' = ChargeUsed(items, i, amount)
      /\ LogItems(row.def, IF UsesUp(row, amount) THEN -1 ELSE 0)
      /\ UNCHANGED <<nextId, purse>>

RechargeOne(i, amount) ==
  /\ items[i].stash \in Inventories
  /\ MaxCharges[items[i].def] > 0
  /\ ChargesLeft(items[i]) # RechargedTo(items[i], amount)
  /\ items' = Put(items, i,
       WithCharges(items[i], RechargedTo(items[i], amount)))
  /\ UNCHANGED <<nextId, itemLog, purse>>

(* A rest of the character who carries inventory s, one trigger standing   *)
(* for the four: every item with charges comes back, the single-use ones   *)
(* excepted.  amounts may give the roll of a row.                          *)
RechargeAll(s, amounts) ==
  /\ items' = [i \in DOMAIN items |->
       IF i \in Lying(items, s) /\ MaxCharges[items[i].def] > 0
                                /\ items[i].def \notin SingleUse
       THEN WithCharges(items[i], RechargedTo(items[i], amounts[i]))
       ELSE items[i]]
  /\ UNCHANGED <<nextId, itemLog, purse>>

-----------------------------------------------------------------------------
(* Stashes and coins                                                       *)

CreateStash(s) ==
  /\ s \in Storages \ minted
  /\ stashes' = stashes \union {s}
  /\ minted' = minted \union {s}
  /\ UNCHANGED <<items, coins, nextId, itemLog, coinLog>>

(* Mutant: packed rows are taken to go with their container.               *)
DeleteStashTopLevel(s) ==
  /\ s \in stashes \intersect Storages
  /\ stashes' = stashes \ {s}
  /\ items' = [i \in DOMAIN items |->
       IF items[i].stash = s /\ items[i].parent = NoParent
       THEN Into(items[i], RecoveredLoot) ELSE items[i]]
  /\ coins' = [coins EXCEPT ![RecoveredLoot] = @ + coins[s], ![s] = 0]
  /\ coinLog' = [coinLog EXCEPT ![RecoveredLoot] = @ + coins[s]]
  /\ UNCHANGED <<minted, nextId, itemLog>>

(* Mutant: the coins of the stash are written over those in the loot.      *)
DeleteStashOverwriting(s) ==
  /\ s \in stashes \intersect Storages
  /\ stashes' = stashes \ {s}
  /\ items' = [i \in DOMAIN items |->
       IF items[i].stash = s THEN Into(items[i], RecoveredLoot) ELSE items[i]]
  /\ coins' = [coins EXCEPT ![RecoveredLoot] = coins[s], ![s] = 0]
  /\ coinLog' = [coinLog EXCEPT ![RecoveredLoot] = @ + coins[s]]
  /\ UNCHANGED <<minted, nextId, itemLog>>

(* Its rows go to the recovered loot as they are, one transfer entry each, *)
(* its coins with a currency-change entry.                                 *)
DeleteStash(s) ==
  /\ s \in stashes \intersect Storages
  /\ stashes' = stashes \ {s}
  /\ items' = [i \in DOMAIN items |->
       IF items[i].stash = s THEN Into(items[i], RecoveredLoot) ELSE items[i]]
  /\ coins' = [coins EXCEPT ![RecoveredLoot] = @ + coins[s], ![s] = 0]
  /\ coinLog' = [coinLog EXCEPT ![RecoveredLoot] = @ + coins[s]]
  /\ UNCHANGED <<minted, nextId, itemLog>>

CurrencyChange(s, delta) ==
  /\ MapThenSumSet(LAMBDA t : coins[t], Stashes) + delta <= MaxCoins  \* bound
  /\ s \in stashes
  /\ delta # 0
  /\ coins[s] + delta >= 0
  /\ coins' = [coins EXCEPT ![s] = @ + delta]
  /\ coinLog' = [coinLog EXCEPT ![s] = @ + delta]
  /\ UNCHANGED <<items, stashes, minted, nextId, itemLog>>

CurrencyTransfer(from, to, delta) ==
  /\ from # to
  /\ delta > 0
  /\ from \in stashes /\ to \in stashes
  /\ coins[from] >= delta
  /\ coins' = [coins EXCEPT ![from] = @ - delta, ![to] = @ + delta]
  /\ coinLog' = [coinLog EXCEPT ![from] = @ - delta, ![to] = @ + delta]
  /\ UNCHANGED <<items, stashes, minted, nextId, itemLog>>

-----------------------------------------------------------------------------
Quantities == 1 .. MaxUnits
Amounts == 1 .. Max({MaxCharges[d] : d \in Defs} \union {0})

ItemStep(i) ==
  \/ \E q \in Quantities : Consume(i, q) \/ Split(i, q)
  \/ \E n \in UserNotes : EditNotes(i, n)
  \/ \E q \in Quantities, to \in stashes,
        parent \in DOMAIN items \union {NoParent, Undefined} :
          Transfer(i, q, to, parent)

CharacterStep(i) ==
  \/ Equip(i) \/ Unequip(i)
  \/ (\E override \in Overrides : Attune(i, override)) \/ Unattune(i)
  \/ \E amount \in Amounts : UseCharge(i, amount)
  \/ \E amount \in Amounts \union {Undefined} : RechargeOne(i, amount)

PurseStep ==
  \/ \E s \in Storages : CreateStash(s) \/ DeleteStash(s)
  \/ \E s \in stashes, delta \in -MaxCoins .. MaxCoins : CurrencyChange(s, delta)
  \/ \E s, t \in stashes, delta \in 1 .. MaxCoins : CurrencyTransfer(s, t, delta)

Next ==
  \/ \E s \in stashes, d \in Defs, q \in Quantities,
        given \in UserNotes \union {Undefined} : Acquire(s, d, q, given)
  \/ \E i \in DOMAIN items : ItemStep(i) \/ CharacterStep(i)
  \/ \E s \in Inventories :
       \E amounts \in [DOMAIN items -> Amounts \union {Undefined}] :
         RechargeAll(s, amounts)
  \/ PurseStep

Spec == Init /\ [][Next]_vars

-----------------------------------------------------------------------------
(* Safety                                                                  *)

(***************************************************************************)
(* Every row lies in a stash there is: deleting a stash leaves no item     *)
(* behind, packed or not, and nothing arrives in one that is gone.         *)
(***************************************************************************)
RowsHaveAStash == \A i \in DOMAIN items : items[i].stash \in stashes

(***************************************************************************)
(* No unit is lost or made but by an entry of the log: stacking, splitting *)
(* off, restacking, packing and the deletion of a stash only rearrange     *)
(* them, and each acquire, consume and used-up charge is logged in full.   *)
(***************************************************************************)
LogAccountsForItems ==
  \A d \in Defs : Units({i \in DOMAIN items : items[i].def = d}) = itemLog[d]

(***************************************************************************)
(* The coins of a stash are what its currency entries add up to, also for  *)
(* the loot that takes over the coins of a deleted stash.                  *)
(***************************************************************************)
LogAccountsForCoins == \A s \in stashes : coins[s] = coinLog[s]

(***************************************************************************)
(* A container that survives a move has its contents about it: whatever    *)
(* moves a row that is not itself packed moves the rows packed in it.      *)
(***************************************************************************)
ContentsTravel ==
  [][\A i \in DOMAIN items \intersect DOMAIN items' :
       items[i].parent = NoParent /\ items'[i].stash # items[i].stash =>
         \A k \in Contents(items, i) \ {i} : k \in Contents(items', i)]_vars

(***************************************************************************)
(* A row that changes its stash does not point back at a container it left *)
(* behind in the old one.                                                  *)
(***************************************************************************)
NoParentLeftBehind ==
  [][\A i \in DOMAIN items \intersect DOMAIN items' :
       items'[i].stash # items[i].stash =>
         \A p \in Lying(items, items[i].stash) :
           i # p /\ p \in Lying(items', items[i].stash)
             => items'[i].parent # p]_vars

(***************************************************************************)
(* A row that leaves an inventory takes no flag along, unless it leaves    *)
(* inside a container that leaves with it.                                 *)
(***************************************************************************)
FlagsStayBehind ==
  [][\A i \in DOMAIN items \intersect DOMAIN items' :
       items'[i].stash # items[i].stash
         /\ items[i].stash \in Inventories /\ ~Mundane(items'[i])
       => \E p \in Lying(items, items[i].stash) \ {i} :
            /\ items[i].parent = p
            /\ items'[p].stash = items'[i].stash]_vars

(***************************************************************************)
(* Under hard mode the load of an inventory passes the threshold only when *)
(* a container of the flatWeight kind goes and leaves its contents behind: *)
(* no way of stacking, packing, splitting or flagging gets around the      *)
(* check of acquire and transfer.                                          *)
(***************************************************************************)
OverloadNeedsALostBag ==
  \A s \in Inventories :
    EnforceEncumbrance /\ CarriedWeight(items', s) > HeavyThreshold
      /\ CarriedWeight(items', s) > CarriedWeight(items, s)
    => \E f \in Lying(items, s) \ Lying(items', s) : items[f].def \in FlatWeight

OverloadOnlyByLosingABag == [][OverloadNeedsALostBag]_vars

(***************************************************************************)
(* A row never has more charges than its definition allows, nor any when   *)
(* the definition has none: through uses, partial and full recharges,      *)
(* stacking onto spent rows and units split off to be equipped.            *)
(***************************************************************************)
ChargesWithinMax ==
  \A i \in DOMAIN items :
    items[i].charges # NoCharges =>
      MaxCharges[items[i].def] > 0 /\ items[i].charges <= MaxCharges[items[i].def]

=============================================================================
