------------------------------ MODULE Screens ------------------------------
(***************************************************************************)
(* What the screens of the web app offer to the member who looks at them,  *)
(* and what becomes of it: a control that is shown dispatches an action,   *)
(* which checkGuard judges on the same state.  The screens ask questions   *)
(* of their own (is there a DM row, is the party solo, which character is  *)
(* mine, is there a Banker); the guards ask others.                        *)
(*                                                                         *)
(* Modelled are the conditions on the user and the party.  Those on an     *)
(* item (may it be equipped, has it charges left), the forms and their     *)
(* validation are not.  The list of members that the party settings fetch  *)
(* is taken as fresh.                                                      *)
(***************************************************************************)
EXTENDS Membership

(* Mutant: a DM row that was left counts.                                   *)
onceDmOrSolo(u) == isSolo \/ dmRow[u] # "none"

isCurrentUserDmOrSolo(u) == isSolo \/ dmRow[u] = "active"

userIsDm(u) == dmRow[u] = "active"

\* By the player row, or by the owner: the character that is mine.
getOwnCharacter(u) == {c \in Living : ActivePlayer(u) /\ playerChar[u] = c}
myCharacter(u) == {c \in Living : charOwner[c] = u}

\* DmOnlyRoute.
DmTools(u) == isCurrentUserDmOrSolo(u)

\* The sheets that the navigation leads to: the dashboard links them all.
Sheets(u) == IF DmTools(u) THEN Living ELSE getOwnCharacter(u)

Verdict(u, guard) == checkGuard(u, guard)

-----------------------------------------------------------------------------
(* The rows of a stash, and an item.                                       *)

Rows(s) == {i \in Items : at[i] = s}

\* More, fewer, split, pack, take out, and move: no condition on the user.
ItemRow(u, i) ==
  /\ Verdict(u, acquireGuard(u, at[i])) /\ Verdict(u, consumeGuard(u, i))
  /\ Verdict(u, splitGuard(u, i))
  /\ Verdict(u, editItemInstanceGuard(u, i))

MoveItem(u, i) == Verdict(u, transferGuard(u, i))

\* An item of an inventory.  Only a DM, or who is alone, gets the dialog that
\* overrides the cap.
EquipControls(u, i, c) ==
  /\ Verdict(u, equipGuard(u, i, c)) /\ Verdict(u, unequipGuard(u, i, c))
  /\ Verdict(u, unattuneGuard(u, i, c))
  /\ Verdict(u, attuneGuard(u, i, c, isCurrentUserDmOrSolo(u)))

\* The item's page takes the character from the stash, or the user's own.
ItemCharacter(u, i) == IF at[i].scope = "character" THEN {at[i].of} ELSE getOwnCharacter(u)

ChargeControls(u, i) ==
  \A c \in ItemCharacter(u, i) :
    at[i] = Inventory(c) => /\ Verdict(u, useChargeGuard(u, i, c))
                            /\ Verdict(u, rechargeGuard(u, i, c, FALSE))

AddItem(u, s) == Verdict(u, acquireGuard(u, s))

-----------------------------------------------------------------------------
(* The coins of a stash.                                                   *)

\* Only the shared pools have a Banker's context.
bankerContext(u, s) ==
  [pool |-> s.scope # "character",
   userIsBanker |-> banker = u,
   userIsDmWithBankerActive |-> banker # NoUser /\ userIsDm(u) /\ banker # u,
   userIsGatedFromPool |-> banker # NoUser /\ banker # u /\ ~userIsDm(u),
   isPartyStash |-> s = PartyStash]

showTransferConvert(x) == x.pool => ~x.userIsGatedFromPool /\ ~x.userIsDmWithBankerActive
showWithdrawInline(x) == x.pool => ~x.userIsGatedFromPool /\ ~x.userIsDmWithBankerActive
showDepositInline(x) == x.pool => ~x.userIsGatedFromPool
showSplitButton(x) == x.pool /\ x.userIsBanker /\ x.isPartyStash
showDrainButton(x) == x.pool /\ x.userIsDmWithBankerActive

WithdrawInline(u, s) == Verdict(u, currencyChangeGuard(u, s, "withdraw"))
DepositInline(u, s) == Verdict(u, currencyChangeGuard(u, s, "deposit"))
ConvertCurrency(u, s) == Verdict(u, currencyChangeGuard(u, s, "convert"))
CurrencyTransferModal(u, s) == Verdict(u, currencyTransferGuard(u, s))
DrainCurrency(u, s) == Verdict(u, currencyChangeGuard(u, s, "gameplay-drain"))

\* Those who have a character, whichever of them are ticked.
Recipients == {c \in Living : \E v \in Players : playerChar[v] = c}
SplitEvenlyModal(u, s) ==
  \A chosen \in SUBSET Recipients : Verdict(u, splitEvenlyGuard(u, s, chosen))

CurrencyRow(u, s) ==
  LET x == bankerContext(u, s) IN
  /\ showTransferConvert(x) => ConvertCurrency(u, s) /\ CurrencyTransferModal(u, s)
  /\ showWithdrawInline(x) => WithdrawInline(u, s)
  /\ showDepositInline(x) => DepositInline(u, s)
  /\ showSplitButton(x) => SplitEvenlyModal(u, s)
  /\ showDrainButton(x) => DrainCurrency(u, s)

\* The pools.  Their items are offered to be moved whoever the Banker is.
SharedPool(u, s) == CurrencyRow(u, s) /\ AddItem(u, s) /\ \A i \in Rows(s) : ItemRow(u, i)

-----------------------------------------------------------------------------
(* A character.                                                            *)

canEditCharacter(u, c) == userIsDm(u) \/ charOwner[c] = u \/ isSolo

canEditOwnerFields(u, c) == charOwner[c] = u \/ isCurrentUserDmOrSolo(u)

EditCharacter(u, c) ==
  /\ isCurrentUserDmOrSolo(u) => Verdict(u, editCharacterGuard(u, c, TRUE))
  /\ canEditOwnerFields(u, c) => Verdict(u, editCharacterGuard(u, c, FALSE))

DeleteCharacterDialog(u, c) == Verdict(u, deleteCharacterGuard(u, c))

WishlistDialog(u, c) ==
  Verdict(u, wishlistAddGuard(u, c)) /\ Verdict(u, wishlistRemoveGuard(u, c))

RestMenu(u, c) == Verdict(u, rechargeGuard(u, Nowhere, c, TRUE))

CharacterSheet(u, c) ==
  /\ canEditCharacter(u, c) =>
       EditCharacter(u, c) /\ DeleteCharacterDialog(u, c) /\ WishlistDialog(u, c)
  /\ CurrencyRow(u, Inventory(c)) /\ AddItem(u, Inventory(c)) /\ RestMenu(u, c)
  /\ \A i \in Rows(Inventory(c)) :
       ItemRow(u, i) /\ MoveItem(u, i) /\ EquipControls(u, i, c) /\ ChargeControls(u, i)

StorageOverview(u, c) == Verdict(u, createStashGuard(u, c))

StorageDetail(u, s) ==
  /\ CurrencyRow(u, s) /\ AddItem(u, s)
  /\ Verdict(u, renameStashGuard(u, s)) /\ Verdict(u, deleteStashGuard(u, s))
  /\ \A i \in Rows(s) : ItemRow(u, i) /\ MoveItem(u, i)

-----------------------------------------------------------------------------
(* Shops.                                                                  *)

ShopShown(u, open) == open \/ isCurrentUserDmOrSolo(u)

ShopsList(u) == Verdict(u, createShopGuard(u))

ShopSettings(u) == Verdict(u, editShopGuard(u)) /\ Verdict(u, setShopOpenGuard(u))
StockTable(u) == Verdict(u, editShopStockGuard(u))
ShopManage(u) == ShopSettings(u) /\ StockTable(u) /\ Verdict(u, deleteShopGuard(u))

\* The purse and the pack are those of the character the user owns.
StockCard(u, c, open) == Verdict(u, purchaseGuard(u, open)) /\ c \in getOwnCharacter(u)
SellModal(u, c, open) == \A i \in Rows(Inventory(c)) : Verdict(u, saleGuard(u, open))
Storefront(u, open) ==
  \A c \in myCharacter(u) : StockCard(u, c, open) /\ SellModal(u, c, open)

-----------------------------------------------------------------------------
(* The party.                                                              *)

\* A row of the list: a member, as DM or as player.
MemberRows == {m \in Users \X {"dm", "player"} :
                 IF m[2] = "dm" THEN dmRow[m[1]] = "active" ELSE ActivePlayer(m[1])}

isKickable(u, m) == userIsDm(u) /\ m[1] # u /\ m[2] # "dm"
canBeAppointed(u, m) ==
  userIsDm(u) /\ ~isSolo /\ m[1] # u /\ m[2] = "player" /\ banker = NoUser
canBeRevoked(u, m) == userIsDm(u) /\ ~isSolo /\ m[1] # u /\ banker = m[1]
canBeTransferredTo(u, m) == userIsDm(u) /\ ~isSolo /\ m[1] # u /\ m[2] = "player"

handleKick(u, t) == Verdict(u, kickPlayerGuard(u, t))
handleAppointBanker(u, t) == Verdict(u, appointBankerGuard(u, t))
handleRevokeBanker(u) == Verdict(u, revokeBankerGuard(u))
handleTransferDm(u, t) == Verdict(u, dmTransferGuard(u, t))
handleCreateCharacter(u) == Verdict(u, createCharacterGuard(u))

HouseRules(u) ==
  Verdict(u, setEncumbranceGuard(u)) /\ Verdict(u, updatePartyEconomyGuard(u))

PartySettings(u) ==
  /\ \A m \in MemberRows :
       /\ isKickable(u, m) => handleKick(u, m[1])
       /\ canBeAppointed(u, m) => handleAppointBanker(u, m[1])
       /\ canBeRevoked(u, m) => handleRevokeBanker(u)
       /\ canBeTransferredTo(u, m) => handleTransferDm(u, m[1])
  /\ userIsDm(u) => HouseRules(u)
  /\ getOwnCharacter(u) = {} => handleCreateCharacter(u)
  /\ \A c \in getOwnCharacter(u) : Verdict(u, renameCharacterGuard(u, c))

-----------------------------------------------------------------------------
(* The DM's tools.                                                         *)

handleLevelUpParty(u) == \A c \in Living : Verdict(u, editCharacterGuard(u, c, FALSE))

SessionRow(u) == Verdict(u, editGameSessionNotesGuard(u))
SessionsSection(u) ==
  /\ Verdict(u, startGameSessionGuard(u)) /\ Verdict(u, endGameSessionGuard(u))
  /\ SessionRow(u)

GroupCard(u) == Verdict(u, identifyGuard(u))
BatchIdentifyDialog(u) == Verdict(u, identifyBatchGuard(u))
IdentificationPanel(u) == GroupCard(u) /\ BatchIdentifyDialog(u)

\* The loot goes to the party's stash or to somebody's inventory.
LootTargets == {PartyStash} \union {Inventory(c) : c \in Living}
distribute(u) ==
  \A s \in LootTargets :
    Verdict(u, currencyChangeGuard(u, s, "deposit")) /\ Verdict(u, acquireGuard(u, s))

-----------------------------------------------------------------------------

\* A control that a screen shows is not refused: what the screens derive the
\* role of their user from and what the guards derive it from agree, through
\* any joining, leaving, banking, handing over and giving up of characters.
\* Not so, and left out: moving an item out of a pool, the name of the party,
\* identification on an item's page, homebrew, and a last DM's leaving.
OfferedIsAllowed ==
  \A u \in Members :
    /\ \A s \in stashes : isSharedPoolStash(s) => SharedPool(u, s)
    /\ \A c \in Sheets(u) :
         /\ CharacterSheet(u, c) /\ StorageOverview(u, c)
         /\ Storage(c) \in stashes => StorageDetail(u, Storage(c))
    /\ \A open \in BOOLEAN : ShopShown(u, open) => Storefront(u, open)
    /\ PartySettings(u)
    /\ DmTools(u) => /\ ShopsList(u) /\ ShopManage(u) /\ SessionsSection(u)
                     /\ handleLevelUpParty(u) /\ IdentificationPanel(u)
                     /\ distribute(u)

\* Whoever is there, somebody is offered to pay out of the pool, and to take
\* what lies in it: no history of Bankers and DMs shuts it for good.
PoolIsServed ==
  isMember(owner) => \A s \in {PartyStash, RecoveredLoot} :
    \E u \in Members :
      /\ showWithdrawInline(bankerContext(u, s)) /\ WithdrawInline(u, s)
      /\ \A i \in Rows(s) : MoveItem(u, i)
=============================================================================
