---------------------------- MODULE ItemControls ----------------------------
(***************************************************************************)
(* What the web app shows of the rows of a stash, and which actions it     *)
(* offers on them: the table of a stash, the page of an item, the dialogs  *)
(* that move, split, pack and add, and the rest of a character.  A control *)
(* is a set of the requests it may dispatch; dispatch hands one to the     *)
(* reducer of Inventory.  Conditions on the user are in Screens.           *)
(***************************************************************************)
EXTENDS Inventory

-----------------------------------------------------------------------------
(* Requests                                                                *)

acquire(s, d, q, given) ==
  [type |-> "acquire", stash |-> s, def |-> d, quantity |-> q, notes |-> given]
consume(i, q) == [type |-> "consume", item |-> i, quantity |-> q]
edit(i, n) == [type |-> "edit-item-instance", item |-> i, notes |-> n]
split(i, q) == [type |-> "split", item |-> i, quantity |-> q]
transfer(i, q, to, parent) ==
  [type |-> "transfer", item |-> i, quantity |-> q, to |-> to, parent |-> parent]
toggle(type, i) == [type |-> type, item |-> i]
attune(i, override) == [type |-> "attune", item |-> i, override |-> override]
useCharge(i, amount) == [type |-> "use-charge", item |-> i, amount |-> amount]
recharge(i, amount) == [type |-> "recharge", item |-> i, amount |-> amount]

dispatch(r) ==
  \/ r.type = "acquire" /\ Acquire(r.stash, r.def, r.quantity, r.notes)
  \/ r.type = "consume" /\ Consume(r.item, r.quantity)
  \/ r.type = "edit-item-instance" /\ EditNotes(r.item, r.notes)
  \/ r.type = "split" /\ Split(r.item, r.quantity)
  \/ r.type = "transfer" /\ Transfer(r.item, r.quantity, r.to, r.parent)
  \/ r.type = "equip" /\ Equip(r.item)
  \/ r.type = "unequip" /\ Unequip(r.item)
  \/ r.type = "attune" /\ Attune(r.item, r.override)
  \/ r.type = "unattune" /\ Unattune(r.item)
  \/ r.type = "use-charge" /\ UseCharge(r.item, r.amount)
  \/ r.type = "recharge" /\ RechargeOne(r.item, r.amount)

-----------------------------------------------------------------------------
(* The table of a stash.  listed are the rows that the category and state  *)
(* filters leave, matches those of them that the search finds.             *)

children(listed, p) == {k \in listed : items[k].parent = p}

tops(listed) == {i \in listed : items[i].parent \notin listed}

(* Mutant: the contents of a container that does not match are not shown.  *)
displayRowsUnhoisted(listed, matches) ==
  LET parents == tops(listed) \intersect matches
  IN  parents \union (matches \intersect UNION {children(listed, p) : p \in parents})

(* A row at the top, and one level of contents, also of a row that does    *)
(* not match.                                                              *)
displayRows(listed, matches) ==
  matches \intersect
    (tops(listed) \union UNION {children(listed, p) : p \in tops(listed)})

canSplit(i) == items[i].quantity >= 2
isContainer(i) == items[i].def \in Containers

\* Of the rows that are listed: a filter may leave out the container.
isContained(i, listed) == items[i].parent \in listed
hasTopLevelContainer(listed) ==
  \E p \in listed : isContainer(p) /\ items[p].parent = NoParent

(* Mutant: a container may be packed as well.                              *)
canPackAny(i, listed) == hasTopLevelContainer(listed) /\ ~isContained(i, listed)

canPack(i, listed) ==
  hasTopLevelContainer(listed) /\ ~isContainer(i) /\ ~isContained(i, listed)

\* A note that was never given is left out of the request.
PlusMinus(i) ==
  {consume(i, 1)} \union
  {acquire(items[i].stash, items[i].def, 1, n) :
     n \in {items[i].notes} \union (IF items[i].notes = NoNotes THEN {Undefined} ELSE {})}

SplitModal(i) == {split(i, q) : q \in 1 .. items[i].quantity - 1}

moveTargets(i) == stashes \ {items[i].stash}
MoveItemModal(i) ==
  {transfer(i, q, to, Undefined) : q \in 1 .. items[i].quantity, to \in moveTargets(i)}

packTargets(i) ==
  {p \in Lying(items, items[i].stash) \ {i} :
     items[p].parent = NoParent /\ isContainer(p)}
PackItemModal(i) ==
  {transfer(i, items[i].quantity, items[i].stash, p) : p \in packTargets(i)}

TakeOut(i) == {transfer(i, items[i].quantity, items[i].stash, NoParent)}

Remove(i) == {consume(i, items[i].quantity)}

rowControls(i, listed) ==
  PlusMinus(i) \union MoveItemModal(i) \union Remove(i)
    \union (IF canSplit(i) THEN SplitModal(i) ELSE {})
    \union (IF canPack(i, listed) THEN PackItemModal(i) ELSE {})
    \union (IF isContained(i, listed) THEN TakeOut(i) ELSE {})

-----------------------------------------------------------------------------
(* Flags, in an inventory                                                  *)

attunedCount(s) == Cardinality(AttunedRows(items, s))
hasFreeSlot(s) == attunedCount(s) < MaxAttunement

onToggleEquipped(i) == {toggle(IF items[i].equipped THEN "unequip" ELSE "equip", i)}

(* Mutant: the button looks at the cap for nobody.                         *)
onToggleAttunedAnyway(i, userIsDmOrSolo) ==
  IF items[i].attuned THEN {toggle("unattune", i)} ELSE {attune(i, FALSE)}

\* With all slots taken a DM, or who is alone, confirms an override, and the
\* others find the button disabled.
onToggleAttuned(i, userIsDmOrSolo) ==
  IF items[i].attuned THEN {toggle("unattune", i)}
  ELSE IF hasFreeSlot(items[i].stash) THEN {attune(i, FALSE)}
  ELSE IF userIsDmOrSolo THEN {attune(i, TRUE)}
  ELSE {}

\* In the table an attuned row keeps its button whatever its definition says.
characterControls(i, userIsDmOrSolo) ==
  IF items[i].stash \notin Inventories THEN {}
  ELSE onToggleEquipped(i) \union
       (IF items[i].def \in Attunable \/ items[i].attuned
        THEN onToggleAttuned(i, userIsDmOrSolo) ELSE {})

-----------------------------------------------------------------------------
(* The page of an item, identified: the charges and the notes              *)

showCharges(i) == MaxCharges[items[i].def] > 0 /\ items[i].stash \in Inventories
canUseCharge(i) == showCharges(i) /\ items[i].charges # NoCharges /\ items[i].charges > 0
canRecharge(i) ==
  showCharges(i) /\ items[i].charges # NoCharges /\ items[i].charges < MaxCharges[items[i].def]

onUseCharge(i) == {useCharge(i, 1)}

\* At once to the maximum, or by a roll when the definition has a formula.
onRecharge(i) == {recharge(i, Undefined)}
deficit(i) == MaxCharges[items[i].def] - ChargesLeft(items[i])
onRollSubmit(i) == {recharge(i, n) : n \in 1 .. deficit(i)}

onSubmit(i) == {edit(i, n) : n \in UserNotes \ {items[i].notes}}

pageControls(i) ==
  onSubmit(i)
    \union (IF canUseCharge(i) THEN onUseCharge(i) ELSE {})
    \union (IF canRecharge(i) THEN onRecharge(i) \union onRollSubmit(i) ELSE {})

-----------------------------------------------------------------------------
(* A rest: the rows with a formula get what is rolled, no more than they   *)
(* lack; the others all.                                                   *)

eligible(s) ==
  {i \in Lying(items, s) :
     /\ MaxCharges[items[i].def] > 0 /\ items[i].def \notin SingleUse
     /\ ChargesLeft(items[i]) < MaxCharges[items[i].def]}

onRest(s) == RechargeAll(s, [i \in DOMAIN items |-> Undefined])

onApply(s) ==
  \E formulaRows \in SUBSET eligible(s) :
    \E rolls \in [formulaRows -> Amounts] :
      /\ \A i \in formulaRows : rolls[i] <= deficit(i)
      /\ RechargeAll(s, [i \in DOMAIN items |->
                           IF i \in formulaRows THEN rolls[i] ELSE Undefined])

-----------------------------------------------------------------------------
Offered(i, listed, userIsDmOrSolo) ==
  rowControls(i, listed) \union characterControls(i, userIsDmOrSolo) \union pageControls(i)

\* What is done by way of these controls only.
ScreensNext ==
  \/ \E s \in stashes, userIsDmOrSolo \in BOOLEAN :
       \E listed \in SUBSET Lying(items, s) : \E i \in listed :
         \E r \in Offered(i, listed, userIsDmOrSolo) : dispatch(r)
  \/ \E s \in stashes, d \in Defs, q \in Quantities : dispatch(acquire(s, d, q, Undefined))
  \/ \E s \in Inventories : onRest(s) \/ onApply(s)
  \/ PurseStep

\* The store, by these controls or by any request.
StoreNext == Next \/ ScreensNext

StoreSpec == Init /\ [][StoreNext]_vars

(* Every row of a stash is shown, whatever the filters leave and the       *)
(* search finds: nothing that the screens do puts a row below the one      *)
(* level of contents that the table draws.                                 *)
EveryRowIsShown ==
  \A s \in stashes : \A listed \in SUBSET Lying(items, s) :
    \A matches \in SUBSET listed : displayRows(listed, matches) = matches

(* A control of a row that is not disabled dispatches what the reducer     *)
(* takes: the two sides count slots, charges, units and containers alike,  *)
(* whatever stacking, packing and splitting off have made of the rows.     *)
(* That is when no filter is set: one that leaves out the container of a   *)
(* row has the row offered to be packed into that same container.          *)
ControlsWork ==
  \A i \in DOMAIN items, userIsDmOrSolo \in BOOLEAN :
    \A r \in Offered(i, Lying(items, items[i].stash), userIsDmOrSolo) :
      ENABLED dispatch(r)
=============================================================================
