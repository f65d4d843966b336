------------------------------- MODULE Guards -------------------------------
(***************************************************************************)
(* Who may do what: packages/shared/src/guards.  The server asks           *)
(* checkGuard before every reducer, the web app before every dispatch, on  *)
(* the AppState of one party: the membership rows, the banker, the         *)
(* characters, the stashes and where the items lie.                        *)
(*                                                                         *)
(* A guard is an operator of its own, with the fields of the payload it    *)
(* looks at.  The message of a refusal and its code are left out.  The     *)
(* shape and the clock of minted ids (checkMintedIds) are left out too:    *)
(* every id is new and well-formed.                                        *)
(***************************************************************************)
EXTENDS Naturals, FiniteSets

CONSTANTS
  Users,       \* the accounts that meet in the party
  NoUser,      \* a null userId
  Characters,  \* the ids of the characters
  NoCharacter, \* a null characterId
  Items,       \* the ids of the items
  Nowhere      \* an id without a row

Status == {"none", "active", "left"}

Inventory(c) == [scope |-> "character", of |-> c, carried |-> TRUE]
Storage(c) == [scope |-> "character", of |-> c, carried |-> FALSE]
PartyStash == [scope |-> "party", of |-> NoCharacter, carried |-> FALSE]
RecoveredLoot == [scope |-> "recovered-loot", of |-> NoCharacter, carried |-> FALSE]

OwnStashes(c) == {Inventory(c), Storage(c)}
Stashes == {PartyStash, RecoveredLoot} \union UNION {OwnStashes(c) : c \in Characters}

VARIABLES
  owner,       \* Party.ownerUserId
  banker,      \* Party.bankerUserId
  dmRow,       \* user -> status of the row (user, party, 'dm')
  playerRow,   \* user -> status of the row (user, party, 'player')
  playerChar,  \* user -> characterId of the player row
  charOwner,   \* character -> ownerUserId, NoUser without a row
  stashes,     \* the stashes there are
  at           \* item -> the stash it lies in, Nowhere without a row

Dms == {u \in Users : dmRow[u] = "active"}
Players == {u \in Users : playerRow[u] = "active"}
Members == Dms \union Players

isMember(u) == dmRow[u] = "active" \/ playerRow[u] = "active"
isSolo == Cardinality(Members) = 1

Living == {c \in Characters : charOwner[c] # NoUser}

(* Mutant: the banker's column is not looked at.                           *)
roleOfRow(u) == IF dmRow[u] = "active" THEN "dm" ELSE "player"

\* deriveActorRole, over the row resolveActor prefers.
deriveActorRole(u) ==
  IF banker = u THEN "banker" ELSE IF dmRow[u] = "active" THEN "dm" ELSE "player"

IsDm(u) == deriveActorRole(u) = "dm"

-----------------------------------------------------------------------------
(* What the guards ask.                                                    *)

isCharacterInventoryStash(s, c) == s \in stashes /\ s = Inventory(c)

ownsCharacter(u, c) == c \in Living /\ (IsDm(u) \/ charOwner[c] = u)

ownsOrShares(u, s) ==
  /\ s \in stashes
  /\ s.scope = "character" => ownsCharacter(u, s.of)

isSharedPoolStash(s) == s \in stashes /\ s.scope \in {"party", "recovered-loot"}

\* Once there is a banker, only the banker takes out of a shared pool.
checkBankerGate(u, s) ==
  banker # NoUser /\ isSharedPoolStash(s) => deriveActorRole(u) = "banker"

\* equip and its like: an item of the character's own inventory.
WornBy(u, i, c) == ownsCharacter(u, c) /\ isCharacterInventoryStash(at[i], c)

ActivePlayer(u) == playerRow[u] = "active"

-----------------------------------------------------------------------------
(* Items, stashes and coins.                                               *)

acquireGuard(u, s) == ownsOrShares(u, s)
consumeGuard(u, i) == at[i] # Nowhere /\ ownsOrShares(u, at[i])
editItemInstanceGuard(u, i) == at[i] # Nowhere /\ ownsOrShares(u, at[i])
splitGuard(u, i) == at[i] # Nowhere /\ ownsOrShares(u, at[i])
transferGuard(u, i) ==
  at[i] # Nowhere /\ ownsOrShares(u, at[i]) /\ checkBankerGate(u, at[i])

createStashGuard(u, c) == ownsCharacter(u, c)
renameStashGuard(u, s) == ownsOrShares(u, s)
deleteStashGuard(u, s) == ownsOrShares(u, s)

currencyChangeGuard(u, s, reason) ==
  /\ ownsOrShares(u, s)
  /\ reason = "gameplay-drain" => IsDm(u)
  /\ reason \in {"withdraw", "convert"} => checkBankerGate(u, s)

currencyTransferGuard(u, from) == ownsOrShares(u, from) /\ checkBankerGate(u, from)

splitEvenlyGuard(u, from, recipients) ==
  /\ deriveActorRole(u) = "banker"
  /\ from = PartyStash
  /\ recipients \subseteq {playerChar[v] : v \in Players} \ {NoCharacter}

equipGuard(u, i, c) == WornBy(u, i, c)
unequipGuard(u, i, c) == WornBy(u, i, c)
attuneGuard(u, i, c, override) == (override => IsDm(u)) /\ WornBy(u, i, c)
unattuneGuard(u, i, c) == WornBy(u, i, c)
useChargeGuard(u, i, c) == WornBy(u, i, c)
rechargeGuard(u, i, c, batch) ==
  ownsCharacter(u, c) /\ (batch \/ isCharacterInventoryStash(at[i], c))

-----------------------------------------------------------------------------
(* What is the DM's.                                                       *)

seedCatalogGuard(u) == IsDm(u)
identifyGuard(u) == IsDm(u)
identifyBatchGuard(u) == IsDm(u)
createHomebrewGuard(u) == IsDm(u)
editHomebrewGuard(u) == IsDm(u)
deleteHomebrewGuard(u) == IsDm(u)
renamePartyGuard(u) == IsDm(u)
setEncumbranceGuard(u) == IsDm(u)
updatePartyEconomyGuard(u) == IsDm(u)
createShopGuard(u) == IsDm(u)
editShopGuard(u) == IsDm(u)
deleteShopGuard(u) == IsDm(u)
setShopOpenGuard(u) == IsDm(u)
editShopStockGuard(u) == IsDm(u)
startGameSessionGuard(u) == IsDm(u)
endGameSessionGuard(u) == IsDm(u)
editGameSessionNotesGuard(u) == IsDm(u)

\* The shop exists; a closed one serves the DM alone.
purchaseGuard(u, open) == open \/ IsDm(u)
saleGuard(u, open) == open \/ IsDm(u)

-----------------------------------------------------------------------------
(* Characters and members.                                                 *)

createCharacterGuard(u) == isMember(u) /\ ~(ActivePlayer(u) /\ playerChar[u] # NoCharacter)
renameCharacterGuard(u, c) == ownsCharacter(u, c)
editCharacterGuard(u, c, slots) ==
  (slots => IsDm(u)) /\ (IsDm(u) \/ ownsCharacter(u, c))
deleteCharacterGuard(u, c) == c \in Living /\ (IsDm(u) \/ charOwner[c] = u)
wishlistAddGuard(u, c) == c \in Living /\ (IsDm(u) \/ charOwner[c] = u)
wishlistRemoveGuard(u, c) == c \in Living /\ (IsDm(u) \/ charOwner[c] = u)

leavePartyGuard(u) == isMember(u)
kickPlayerGuard(u, t) == IsDm(u) /\ isMember(t)
joinPartyGuard(u) == ~ActivePlayer(u)
appointBankerGuard(u, t) ==
  /\ IsDm(u) /\ t # owner /\ banker = NoUser
  /\ ActivePlayer(t) /\ Cardinality(Members) >= 2
revokeBankerGuard(u) == IsDm(u) /\ banker # NoUser
dmTransferGuard(u, t) == IsDm(u) /\ t # u /\ ActivePlayer(t)

-----------------------------------------------------------------------------
(* checkGuard.                                                             *)

\* Only members act, and one who is alone may do everything.
checkGuard(u, guard) == isMember(u) /\ (isSolo \/ guard)

-----------------------------------------------------------------------------
(* The log.                                                                *)

playerOrBanker(u) == IF banker = u THEN "banker" ELSE "player"

\* The hat the log shows for an action, whatever the guard judged by.
deriveActorRoleForSlice(u, type) ==
  CASE type \in {"seed-catalog", "identify", "kick-player", "appoint-banker",
                 "revoke-banker", "dm-transfer"} -> "dm"
    [] type = "split-evenly"                     -> "banker"
    [] OTHER                                     -> playerOrBanker(u)

\* The entries that name an item: an item that is gone is the DM's to see,
\* one in a pool everybody's, and any other the DM's and its owner's.
canSeeLogEntry(u, role, i) ==
  \/ isSolo
  \/ role = "banker"
  \/ dmRow[u] = "active"
  \/ /\ at[i] # Nowhere
     /\ at[i] \in stashes
     /\ at[i].scope = "character" => at[i].of \in Living /\ charOwner[at[i].of] = u
=============================================================================
