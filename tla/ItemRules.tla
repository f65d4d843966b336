----------------------------- MODULE ItemRules -----------------------------
(***************************************************************************)
(* The row arithmetic of the shared reducer (packages/rules): what each    *)
(* item action makes of the rows of the stashes.  The rows are a function  *)
(* from row ids to records; an operator that the reducer may refuse is     *)
(* split into its conditions (Can...) and its effect.  Where the reducer   *)
(* takes the first matching row the effect is a set with one outcome per   *)
(* matching row: the order of the array is the order of a findMany without *)
(* orderBy after every load.  The web app applies these rules to its store *)
(* and the server to the rows it loads before every batch.                 *)
(***************************************************************************)
EXTENDS Integers, FiniteSets, FiniteSetsExt

CONSTANTS
  Defs,                \* the item definitions of the catalog
  Containers,          \* those of category "container"
  Attunable,           \* those with requiresAttunement
  MaxCharges,          \* charges.max of a definition, 0 without charges
  SingleUse,           \* those whose rechargeRule is "none"
  Weight,              \* the weight of one unit
  FlatWeight,          \* those whose contents weigh nothing (flatWeight)
  Inventories,         \* the carried stashes, one per character
  Storages,            \* the ids create-stash may mint
  PartyStash,          \* the party stash
  RecoveredLoot,       \* the recovered-loot stash
  UserNotes,           \* the notes the users write
  MaxAttunement,       \* the attunement slots of a character
  EnforceEncumbrance,  \* enforceEncumbrance, with a rule other than "off"
  HeavyThreshold       \* the weight that hard mode does not let pass

Stashes == Inventories \union Storages \union {PartyStash, RecoveredLoot}

(***************************************************************************)
(* Notes are numbers: 0 is no notes (undefined and "" are the same key),   *)
(* n > 0 is the synthetic "#n", and FreeText is any other text.  Undefined *)
(* is an optional field that the payload leaves out.                       *)
(***************************************************************************)
NoNotes   == 0
FreeText  == -2
Undefined == -1
Notes     == Nat \union {FreeText}

NoParent  == 0
NoCharges == -1

ASSUME StashAssumption ==
         /\ PartyStash # RecoveredLoot
         /\ {PartyStash, RecoveredLoot} \intersect (Inventories \union Storages) = {}
         /\ Inventories \intersect Storages = {}
ASSUME DefsAssumption ==
         /\ Containers \subseteq Defs /\ Attunable \subseteq Defs
         /\ SingleUse \subseteq Defs /\ FlatWeight \subseteq Defs
         /\ MaxCharges \in [Defs -> Nat] /\ Weight \in [Defs -> Nat]
ASSUME NotesAssumption == UserNotes \subseteq Notes
ASSUME CapAssumption == /\ MaxAttunement \in Nat
                        /\ EnforceEncumbrance \in BOOLEAN
                        /\ HeavyThreshold \in Nat

Row == [def : Defs, stash : Stashes, parent : Nat, quantity : Nat \ {0},
        equipped : BOOLEAN, attuned : BOOLEAN,
        charges : Nat \union {NoCharges}, notes : Notes]

Mundane(row) == ~row.equipped /\ ~row.attuned

-----------------------------------------------------------------------------
(* Rows as a partial function                                              *)

Put(items, i, row) ==
  [j \in DOMAIN items \union {i} |-> IF j = i THEN row ELSE items[j]]

Drop(items, i) == [j \in DOMAIN items \ {i} |-> items[j]]

WithQuantity(row, q) == [row EXCEPT !.quantity = q]
WithCharges(row, c)  == [row EXCEPT !.charges = c]
Into(row, s)         == [row EXCEPT !.stash = s]

Grow(items, i, q) ==
  Put(items, i, WithQuantity(items[i], items[i].quantity + q))

(* Mutant: a row whose last unit is taken stays as an empty one.           *)
TakeLeavingNone(items, i, q) ==
  Put(items, i, WithQuantity(items[i], items[i].quantity - q))

(* Taking units out of a row; the row goes with its last unit.             *)
Take(items, i, q) ==
  IF q = items[i].quantity THEN Drop(items, i)
  ELSE Put(items, i, WithQuantity(items[i], items[i].quantity - q))

Lying(items, s) == {i \in DOMAIN items : items[i].stash = s}

Contents(items, i) ==
  {k \in DOMAIN items : items[k].parent = i /\ items[k].stash = items[i].stash}

-----------------------------------------------------------------------------
(* Hard mode                                                               *)

(* Rows whose parent lies beside them and has flatWeight weigh nothing.    *)
Weightless(items, s) ==
  {i \in Lying(items, s) : \E f \in Lying(items, s) :
      items[i].parent = f /\ items[f].def \in FlatWeight}

CarriedWeight(items, s) ==
  MapThenSumSet(LAMBDA i : Weight[items[i].def] * items[i].quantity,
                Lying(items, s) \ Weightless(items, s))

(* Mutant: what is packed, in whatever row, weighs nothing.                *)
CanCarryTopLevel(items, s) ==
  EnforceEncumbrance /\ s \in Inventories
    => MapThenSumSet(LAMBDA i : Weight[items[i].def] * items[i].quantity,
                     {i \in Lying(items, s) : items[i].parent = NoParent})
         <= HeavyThreshold

CanCarry(items, s) ==
  EnforceEncumbrance /\ s \in Inventories
    => CarriedWeight(items, s) <= HeavyThreshold

-----------------------------------------------------------------------------
(* acquire                                                                 *)

NextContainerNotes(items, d, s) ==
  1 + Max({NoNotes} \union
          {items[i].notes : i \in {j \in Lying(items, s) :
                                     items[j].def = d /\ items[j].notes > 0}})

AcquireNotes(items, s, d, given) ==
  IF given # Undefined THEN given
  ELSE IF d \in Containers THEN NextContainerNotes(items, d, s) ELSE NoNotes

InitialCharges(s, d) ==
  IF s \in Inventories /\ MaxCharges[d] > 0 THEN MaxCharges[d] ELSE NoCharges

SameKey(items, s, d, n) ==
  {i \in Lying(items, s) : items[i].def = d /\ items[i].notes = n}

AcquireTargets(items, s, d, n) ==
  {i \in SameKey(items, s, d, n) : Mundane(items[i])}

Acquired(items, s, d, q, given, new) ==
  LET n == AcquireNotes(items, s, d, given)
      targets == AcquireTargets(items, s, d, n)
  IN  IF targets # {} THEN {Grow(items, t, q) : t \in targets}
      ELSE {Put(items, new,
              [def |-> d, stash |-> s, parent |-> NoParent, quantity |-> q,
               equipped |-> FALSE, attuned |-> FALSE,
               charges |-> InitialCharges(s, d), notes |-> n])}

-----------------------------------------------------------------------------
(* split                                                                   *)

SplitOff(items, i, q, new) ==
  Put(Take(items, i, q), new,
      [items[i] EXCEPT !.quantity = q, !.equipped = FALSE, !.attuned = FALSE])

-----------------------------------------------------------------------------
(* transfer                                                                *)

(* The parent named in the payload, if any, is a top-level row of the      *)
(* destination other than the row that moves.                              *)
CanPack(items, i, to, parent) ==
  parent \notin {Undefined, NoParent} =>
    /\ parent # i
    /\ parent \in DOMAIN items
    /\ items[parent].parent = NoParent
    /\ items[parent].stash = to

CanTransfer(items, i, q, to, parent) ==
  /\ items[i].stash = to => parent \notin {Undefined, items[i].parent}
  /\ CanPack(items, i, to, parent)
  /\ q \in 1 .. items[i].quantity

(* findAutoStackTarget; a move within a stash never stacks.                *)
StackTargets(items, i, to) ==
  IF items[i].stash = to THEN {}
  ELSE SameKey(items, to, items[i].def, items[i].notes)

(* Mutant: only the equipped flag is looked at.                            *)
FlagsClearedIfEquipped(source, to) ==
  source.stash # to /\ source.stash \in Inventories /\ source.equipped

(* Leaving an inventory clears the flags, if one is set.                   *)
FlagsCleared(source, to) ==
  source.stash # to /\ source.stash \in Inventories /\ ~Mundane(source)

(* Entering one fills a row that never had charges.                        *)
ChargesFilled(source, to) ==
  /\ source.stash # to /\ to \in Inventories
  /\ MaxCharges[source.def] > 0 /\ source.charges = NoCharges

(* Mutant: the reference to the parent that stays behind is kept.          *)
NewParentKeeping(source, to, parent, row) ==
  IF parent # Undefined THEN parent ELSE row.parent

(* The parent of the payload, or none after leaving the old one behind.    *)
NewParent(source, to, parent, row) ==
  IF parent # Undefined THEN parent
  ELSE IF source.stash # to /\ source.parent # NoParent THEN NoParent
  ELSE row.parent

(***************************************************************************)
(* applyMovedRowMutations: what arriving in "to" does to the row that      *)
(* survives there, be it the moved row, its copy or the row it is stacked  *)
(* on.  The conditions are those of the source.                            *)
(***************************************************************************)
Arriving(source, to, parent, row) ==
  [row EXCEPT
     !.equipped = @ /\ ~FlagsCleared(source, to),
     !.attuned  = @ /\ ~FlagsCleared(source, to),
     !.charges  = IF ChargesFilled(source, to) THEN MaxCharges[source.def] ELSE @,
     !.parent   = NewParent(source, to, parent, row)]

(* Mutant: the contents stay where they are.                               *)
MovedAlone(items, i, to, parent) ==
  [items EXCEPT ![i] = Arriving(items[i], to, parent, Into(@, to))]

(* A full move: the contents follow.                                       *)
MovedWhole(items, i, to, parent) ==
  [k \in DOMAIN items |->
     IF k = i THEN Arriving(items[i], to, parent, Into(items[i], to))
     ELSE IF k \in Contents(items, i) THEN Into(items[k], to)
     ELSE items[k]]

(* Mutant: a stack that moves in part keeps its whole quantity.            *)
MovedPartKeepingAll(items, i, q, to, parent, new) ==
  Put(items, new, Arriving(items[i], to, parent,
                           WithQuantity(Into(items[i], to), q)))

(* A partial move: the units that move become a row of their own.          *)
MovedPart(items, i, q, to, parent, new) ==
  Put(Take(items, i, q), new,
      Arriving(items[i], to, parent, WithQuantity(Into(items[i], to), q)))

Transferred(items, i, q, to, parent, new) ==
  LET targets == StackTargets(items, i, to)
      Stacked(t) == Arriving(items[i], to, parent,
                      WithQuantity(items[t], items[t].quantity + q))
  IN  IF targets # {} THEN {Put(Take(items, i, q), t, Stacked(t)) : t \in targets}
      ELSE IF q = items[i].quantity THEN {MovedWhole(items, i, to, parent)}
      ELSE {MovedPart(items, i, q, to, parent, new)}

-----------------------------------------------------------------------------
(* equip, unequip, attune, unattune                                        *)

(* A row without flags and charges is merged into one like it that lies in *)
(* the same place: applyFlagFlipWithRestack.                               *)
Restacked(items, i, row) ==
  LET targets == {t \in SameKey(items, row.stash, row.def, row.notes) \ {i} :
                    /\ items[t].parent = row.parent
                    /\ Mundane(items[t])
                    /\ items[t].charges = NoCharges}
  IN  IF Mundane(row) /\ row.charges = NoCharges /\ targets # {}
      THEN {Grow(Drop(items, i), t, row.quantity) : t \in targets}
      ELSE {Put(items, i, row)}

(* One unit of a stack is split off and takes the flag.                    *)
FlaggedUnit(items, i, equipped, attuned, new) ==
  Put(Take(items, i, 1), new,
      [items[i] EXCEPT !.quantity = 1, !.equipped = equipped,
                       !.attuned = attuned])

Equipped(items, i, new) ==
  IF items[i].quantity > 1 THEN {FlaggedUnit(items, i, TRUE, FALSE, new)}
  ELSE Restacked(items, i, [items[i] EXCEPT !.equipped = TRUE])

Unequipped(items, i) ==
  Restacked(items, i, [items[i] EXCEPT !.equipped = FALSE])

AttunedRows(items, s) == {i \in Lying(items, s) : items[i].attuned}

CanAttune(items, i, override) ==
  /\ ~items[i].attuned
  /\ items[i].def \in Attunable
  /\ override \/ Cardinality(AttunedRows(items, items[i].stash)) < MaxAttunement

Attuned(items, i, new) ==
  IF items[i].quantity > 1 THEN {FlaggedUnit(items, i, FALSE, TRUE, new)}
  ELSE Restacked(items, i, [items[i] EXCEPT !.attuned = TRUE])

Unattuned(items, i) ==
  Restacked(items, i, [items[i] EXCEPT !.attuned = FALSE])

-----------------------------------------------------------------------------
(* use-charge, recharge                                                    *)

CanUseCharge(row, amount) ==
  /\ MaxCharges[row.def] > 0
  /\ row.charges # NoCharges
  /\ amount \in 1 .. row.charges

(* The last charge of a single-use item uses up one unit of the stack.     *)
UsesUp(row, amount) == row.def \in SingleUse /\ row.charges = amount

(* Mutant: a stack gets its charges back and keeps the unit.               *)
ChargeUsedKeeping(items, i, amount) ==
  LET row == items[i]
  IN  IF UsesUp(row, amount) /\ row.quantity = 1 THEN Drop(items, i)
      ELSE Put(items, i, WithCharges(row, IF UsesUp(row, amount)
                                          THEN MaxCharges[row.def]
                                          ELSE row.charges - amount))

ChargeUsed(items, i, amount) ==
  LET row == items[i]
  IN  IF ~UsesUp(row, amount)
      THEN Put(items, i, WithCharges(row, row.charges - amount))
      ELSE IF row.quantity = 1 THEN Drop(items, i)
      ELSE Put(items, i, WithCharges(WithQuantity(row, row.quantity - 1),
                                     MaxCharges[row.def]))

ChargesLeft(row) == IF row.charges = NoCharges THEN 0 ELSE row.charges

(* Mutant: the amount rolled is added without regard for the maximum.      *)
RechargedToSum(row, amount) ==
  IF amount = Undefined THEN MaxCharges[row.def] ELSE ChargesLeft(row) + amount

(* What a recharge brings a row to; without an amount it is the maximum.   *)
RechargedTo(row, amount) ==
  LET full == MaxCharges[row.def]
  IN  IF amount = Undefined \/ ChargesLeft(row) + amount > full THEN full
      ELSE ChargesLeft(row) + amount
=============================================================================
