----------------------------- MODULE Membership -----------------------------
(***************************************************************************)
(* One party as the reducer evolves it, in the web store and on the state  *)
(* the server loads: who is a member, who plays which character, where the *)
(* items and coins of those who go end up.  One action per action type;    *)
(* each is judged by checkGuard and by the reducer, on the same state (the *)
(* races between verdict and write are Party's).                           *)
(*                                                                         *)
(* The coins are of one denomination.  The log is kept as what its         *)
(* currency entries add up to, by stash.                                   *)
(***************************************************************************)
EXTENDS Guards, FiniteSetsExt

CONSTANT MaxCoins  \* bound: coins in circulation

VARIABLES
  coins,    \* the holdings, by stash
  coinLog,  \* what the currency entries add up to, by stash
  world,    \* the coins that came in, less those that went out
  minted,   \* the character ids that were ever used
  used      \* the item ids that were ever used

rows == <<owner, banker, dmRow, playerRow, playerChar>>
goods == <<stashes, at, coins, coinLog, world, used>>
vars == <<rows, charOwner, goods, minted>>

CoinsIn(S) == MapThenSumSet(LAMBDA s : coins[s], S)

TypeOK ==
  /\ owner \in Users /\ banker \in Users \union {NoUser}
  /\ dmRow \in [Users -> Status] /\ playerRow \in [Users -> Status]
  /\ playerChar \in [Users -> Characters \union {NoCharacter}]
  /\ charOwner \in [Characters -> Users \union {NoUser}]
  /\ stashes \subseteq Stashes
  /\ at \in [Items -> Stashes \union {Nowhere}]
  /\ coins \in [stashes -> Nat] /\ coinLog \in [stashes -> Int]
  /\ world \in 0..MaxCoins
  /\ minted \subseteq Characters /\ used \subseteq Items

-----------------------------------------------------------------------------
(* Characters.                                                             *)

OnStashes(f, S) == [s \in S |-> IF s \in DOMAIN f THEN f[s] ELSE 0]

\* A character with an empty inventory.
Mint(u, c) ==
  /\ c \notin minted
  /\ minted' = minted \union {c}
  /\ charOwner' = [charOwner EXCEPT ![c] = u]
  /\ playerRow' = [playerRow EXCEPT ![u] = "active"]
  /\ playerChar' = [playerChar EXCEPT ![u] = c]
  /\ stashes' = stashes \union {Inventory(c)}
  /\ coins' = OnStashes(coins, stashes')
  /\ coinLog' = OnStashes(coinLog, stashes')

\* A joiner, a DM who did not play, or somebody whose character is gone.
CreateCharacter(u, c) ==
  /\ checkGuard(u, createCharacterGuard(u))
  /\ ~(ActivePlayer(u) /\ playerChar[u] # NoCharacter)
  /\ Mint(u, c)
  /\ UNCHANGED <<owner, banker, dmRow, at, world, used>>

(* Mutant: only what is carried goes to the loot.                          *)
CascadeInventory(c) ==
  LET own == {Inventory(c)} IN
  /\ at' = [i \in Items |-> IF at[i] \in own THEN RecoveredLoot ELSE at[i]]
  /\ stashes' = stashes \ OwnStashes(c)
  /\ coins' = [s \in stashes' |-> coins[s] + IF s = RecoveredLoot THEN CoinsIn(own) ELSE 0]
  /\ coinLog' = [s \in stashes' |-> coinLog[s] + IF s = RecoveredLoot THEN CoinsIn(own) ELSE 0]
  /\ charOwner' = [charOwner EXCEPT ![c] = NoUser]
  /\ playerChar' = [u \in Users |-> IF playerChar[u] = c THEN NoCharacter ELSE playerChar[u]]

\* cascadeCharacterToRecoveredLoot: the items and the coins of the stashes
\* of a character go to the loot, one currency entry for all the coins; the
\* stashes and the character go.
Cascade(c) ==
  LET own == stashes \intersect OwnStashes(c) IN
  /\ at' = [i \in Items |-> IF at[i] \in own THEN RecoveredLoot ELSE at[i]]
  /\ stashes' = stashes \ own
  /\ coins' = [s \in stashes' |-> coins[s] + IF s = RecoveredLoot THEN CoinsIn(own) ELSE 0]
  /\ coinLog' = [s \in stashes' |-> coinLog[s] + IF s = RecoveredLoot THEN CoinsIn(own) ELSE 0]
  /\ charOwner' = [charOwner EXCEPT ![c] = NoUser]
  /\ playerChar' = [u \in Users |-> IF playerChar[u] = c THEN NoCharacter ELSE playerChar[u]]

DeleteCharacter(u, c) ==
  /\ checkGuard(u, deleteCharacterGuard(u, c))
  /\ c \in Living
  /\ Cascade(c)
  /\ UNCHANGED <<owner, banker, dmRow, playerRow, world, minted, used>>

-----------------------------------------------------------------------------
(* Coming and going.                                                       *)

SoftDelete(row, u) == [row EXCEPT ![u] = IF @ = "active" THEN "left" ELSE @]

\* The character of whoever goes is the one the active player row names.
GoesWith(u) ==
  IF ActivePlayer(u) /\ playerChar[u] # NoCharacter THEN {playerChar[u]} ELSE {}

(* Mutant: who goes stays the Banker.                                      *)
DepartAsBanker(u) ==
  /\ \/ \E c \in GoesWith(u) : Cascade(c)
     \/ GoesWith(u) = {} /\ UNCHANGED <<playerChar, charOwner, stashes, at, coins, coinLog>>
  /\ dmRow' = SoftDelete(dmRow, u)
  /\ playerRow' = SoftDelete(playerRow, u)
  /\ UNCHANGED <<owner, banker, world, minted, used>>

Depart(u) ==
  /\ \/ \E c \in GoesWith(u) : Cascade(c)
     \/ GoesWith(u) = {} /\ UNCHANGED <<playerChar, charOwner, stashes, at, coins, coinLog>>
  /\ dmRow' = SoftDelete(dmRow, u)
  /\ playerRow' = SoftDelete(playerRow, u)
  /\ banker' = IF banker = u THEN NoUser ELSE banker
  /\ UNCHANGED <<owner, world, minted, used>>

\* Not the last one, and not the only DM.
Leave(u) ==
  /\ checkGuard(u, leavePartyGuard(u))
  /\ isMember(u) /\ Members \ {u} # {}
  /\ dmRow[u] = "active" => Dms \ {u} # {}
  /\ Depart(u)

Kick(u, t) ==
  /\ checkGuard(u, kickPlayerGuard(u, t))
  /\ t # u /\ isMember(t) /\ dmRow[t] # "active"
  /\ Depart(t)

\* POST /parties/join lets nobody in twice; a row that was soft-deleted is
\* reactivated without a character.
Join(u) ==
  /\ ~isMember(u)
  /\ isSolo \/ joinPartyGuard(u)
  /\ ~ActivePlayer(u)
  /\ playerRow' = [playerRow EXCEPT ![u] = "active"]
  /\ playerChar' = [playerChar EXCEPT ![u] = NoCharacter]
  /\ UNCHANGED <<owner, banker, dmRow, charOwner, goods, minted>>

AppointBanker(u, t) ==
  /\ checkGuard(u, appointBankerGuard(u, t))
  /\ dmRow[u] = "active" /\ t # owner /\ banker = NoUser
  /\ ActivePlayer(t) /\ Cardinality(Members) >= 2
  /\ banker' = t
  /\ UNCHANGED <<owner, dmRow, playerRow, playerChar, charOwner, goods, minted>>

RevokeBanker(u) ==
  /\ checkGuard(u, revokeBankerGuard(u))
  /\ dmRow[u] = "active" /\ banker # NoUser
  /\ banker' = NoUser
  /\ UNCHANGED <<owner, dmRow, playerRow, playerChar, charOwner, goods, minted>>

(* Mutant: the new DM keeps the bank.                                      *)
DmTransferToBanker(u, t) ==
  /\ checkGuard(u, dmTransferGuard(u, t))
  /\ dmRow[u] = "active" /\ t # u /\ ActivePlayer(t)
  /\ dmRow' = [dmRow EXCEPT ![u] = "left", ![t] = "active"]
  /\ playerRow' = [playerRow EXCEPT ![u] = "active"]
  /\ owner' = t
  /\ UNCHANGED <<banker, playerChar, charOwner, goods, minted>>

\* A DM who did not play gets a player row without a character.
DmTransfer(u, t) ==
  /\ checkGuard(u, dmTransferGuard(u, t))
  /\ dmRow[u] = "active" /\ t # u /\ ActivePlayer(t)
  /\ dmRow' = [dmRow EXCEPT ![u] = "left", ![t] = "active"]
  /\ playerRow' = [playerRow EXCEPT ![u] = "active"]
  /\ owner' = t
  /\ banker' = IF banker = t THEN NoUser ELSE banker
  /\ UNCHANGED <<playerChar, charOwner, goods, minted>>

-----------------------------------------------------------------------------
(* Stashes, items and coins.                                               *)

CreateStash(u, c) ==
  /\ checkGuard(u, createStashGuard(u, c))
  /\ c \in Living
  /\ Storage(c) \notin stashes  \* bound: one storage a character
  /\ stashes' = stashes \union {Storage(c)}
  /\ coins' = OnStashes(coins, stashes')
  /\ coinLog' = OnStashes(coinLog, stashes')
  /\ UNCHANGED <<rows, charOwner, at, world, minted, used>>

\* Only storages are deleted; what is in them goes to the loot.
DeleteStash(u, s) ==
  /\ checkGuard(u, deleteStashGuard(u, s))
  /\ s \in stashes /\ s.scope = "character" /\ ~s.carried
  /\ stashes' = stashes \ {s}
  /\ at' = [i \in Items |-> IF at[i] = s THEN RecoveredLoot ELSE at[i]]
  /\ coins' = [t \in stashes' |-> coins[t] + IF t = RecoveredLoot THEN coins[s] ELSE 0]
  /\ coinLog' = [t \in stashes' |-> coinLog[t] + IF t = RecoveredLoot THEN coins[s] ELSE 0]
  /\ UNCHANGED <<rows, charOwner, world, minted, used>>

Put(i, s) ==
  /\ at' = [at EXCEPT ![i] = s]
  /\ UNCHANGED <<rows, charOwner, stashes, coins, coinLog, world, minted>>

Acquire(u, i, s) ==
  /\ i \notin used
  /\ checkGuard(u, acquireGuard(u, s))
  /\ s \in stashes
  /\ used' = used \union {i}
  /\ Put(i, s)

Consume(u, i) ==
  /\ at[i] # Nowhere
  /\ checkGuard(u, consumeGuard(u, i))
  /\ Put(i, Nowhere) /\ UNCHANGED used

Transfer(u, i, to) ==
  /\ at[i] # Nowhere
  /\ checkGuard(u, transferGuard(u, i))
  /\ to \in stashes /\ to # at[i]
  /\ Put(i, to) /\ UNCHANGED used

Moved(f, from, to, n) == [f EXCEPT ![from] = @ - n, ![to] = @ + n]

CurrencyChange(u, s, delta, reason) ==
  /\ checkGuard(u, currencyChangeGuard(u, s, reason))
  /\ s \in stashes
  /\ coins[s] + delta >= 0 /\ world + delta <= MaxCoins
  /\ coins' = [coins EXCEPT ![s] = @ + delta]
  /\ coinLog' = [coinLog EXCEPT ![s] = @ + delta]
  /\ world' = world + delta
  /\ UNCHANGED <<rows, charOwner, stashes, at, minted, used>>

CurrencyTransfer(u, from, to, n) ==
  /\ checkGuard(u, currencyTransferGuard(u, from))
  /\ {from, to} \subseteq stashes /\ from # to
  /\ coins[from] >= n
  /\ coins' = Moved(coins, from, to, n)
  /\ coinLog' = Moved(coinLog, from, to, n)
  /\ UNCHANGED <<rows, charOwner, stashes, at, world, minted, used>>

\* Each recipient's inventory gets a share, the rest stays in the pool.
SplitEvenly(u, recipients) ==
  LET n == Cardinality(recipients)
      share == coins[PartyStash] \div n
      Shared(f) == [s \in stashes |->
        CASE s = PartyStash -> f[s] - n * share
          [] \E c \in recipients : s = Inventory(c) -> f[s] + share
          [] OTHER -> f[s]] IN
  /\ recipients # {} /\ recipients \subseteq Living
  /\ checkGuard(u, splitEvenlyGuard(u, PartyStash, recipients))
  /\ coins' = Shared(coins)
  /\ coinLog' = Shared(coinLog)
  /\ UNCHANGED <<rows, charOwner, stashes, at, world, minted, used>>

-----------------------------------------------------------------------------
\* The bootstrap create-character: the creator is the DM, and plays unless
\* the payload says dmOnly.
Init ==
  \E u \in Users, c \in Characters \union {NoCharacter} :
    LET plays == c # NoCharacter IN
    /\ owner = u
    /\ banker = NoUser
    /\ dmRow = [v \in Users |-> IF v = u THEN "active" ELSE "none"]
    /\ playerRow = [v \in Users |-> IF v = u /\ plays THEN "active" ELSE "none"]
    /\ playerChar = [v \in Users |-> IF v = u THEN c ELSE NoCharacter]
    /\ charOwner = [d \in Characters |-> IF d = c THEN u ELSE NoUser]
    /\ stashes = {PartyStash, RecoveredLoot} \union {Inventory(d) : d \in {c} \ {NoCharacter}}
    /\ at = [i \in Items |-> Nowhere]
    /\ coins = [s \in stashes |-> 0]
    /\ coinLog = coins
    /\ world = 0
    /\ minted = {c} \ {NoCharacter}
    /\ used = {}

MemberStep(u) ==
  \/ Join(u) \/ Leave(u) \/ RevokeBanker(u)
  \/ \E t \in Users : Kick(u, t) \/ AppointBanker(u, t) \/ DmTransfer(u, t)
  \/ \E c \in Characters : CreateCharacter(u, c) \/ DeleteCharacter(u, c) \/ CreateStash(u, c)

StashStep(u) ==
  \/ \E s \in stashes :
       \/ DeleteStash(u, s)
       \/ CurrencyChange(u, s, 1, "deposit")
       \/ \E reason \in {"withdraw", "gameplay-drain"} : CurrencyChange(u, s, -1, reason)
       \/ \E to \in stashes, n \in 1..MaxCoins : CurrencyTransfer(u, s, to, n)
  \/ \E i \in Items, s \in stashes : Acquire(u, i, s) \/ Transfer(u, i, s)
  \/ \E i \in Items : Consume(u, i)
  \/ \E recipients \in SUBSET Living : SplitEvenly(u, recipients)

Next == \E u \in Users : MemberStep(u) \/ StashStep(u)

Spec == Init /\ [][Next]_vars

-----------------------------------------------------------------------------
(* Properties.                                                             *)

\* No row of a stash, a character or an item points at something that is
\* gone, and no coin is lost or made: whoever leaves, is kicked or gives up a
\* character leaves the things in the loot, the storages included.
NothingIsOrphaned ==
  /\ \A i \in Items : at[i] # Nowhere => at[i] \in stashes
  /\ \A s \in stashes : s.scope = "character" => s.of \in Living
  /\ \A c \in Characters : c \in Living <=>
       \E u \in Players : playerChar[u] = c /\ charOwner[c] = u
  /\ \A c \in Living : Inventory(c) \in stashes
  /\ CoinsIn(stashes) = world
  /\ coins = coinLog

SomeMember(Guard(_)) == \E u \in Members : checkGuard(u, Guard(u))

\* Nothing in a party is locked for good: whatever the history of joining,
\* leaving, banking and handing over, somebody may put into and take out of
\* every stash, somebody may use every item where it lies, each character has
\* its owner or the DM, what is reserved to the DM has its DM, and every log
\* entry has a reader.
NothingIsLocked ==
  /\ \A s \in stashes :
       /\ \A reason \in {"deposit", "withdraw", "convert", "gameplay-drain"} :
            SomeMember(LAMBDA u : currencyChangeGuard(u, s, reason))
       /\ SomeMember(LAMBDA u : currencyTransferGuard(u, s))
       /\ SomeMember(LAMBDA u : acquireGuard(u, s))
       /\ SomeMember(LAMBDA u : renameStashGuard(u, s))
  /\ \A i \in Items : at[i] # Nowhere =>
       /\ SomeMember(LAMBDA u : transferGuard(u, i) /\ consumeGuard(u, i))
       /\ SomeMember(LAMBDA u : splitGuard(u, i) /\ editItemInstanceGuard(u, i))
       /\ \A c \in Living : at[i] = Inventory(c) =>
            /\ SomeMember(LAMBDA u :
                 /\ equipGuard(u, i, c) /\ unequipGuard(u, i, c)
                 /\ attuneGuard(u, i, c, FALSE) /\ unattuneGuard(u, i, c)
                 /\ useChargeGuard(u, i, c) /\ rechargeGuard(u, i, c, FALSE))
            /\ SomeMember(LAMBDA u : attuneGuard(u, i, c, TRUE))
  /\ \A c \in Living :
       /\ SomeMember(LAMBDA u :
            /\ renameCharacterGuard(u, c) /\ editCharacterGuard(u, c, FALSE)
            /\ wishlistAddGuard(u, c) /\ wishlistRemoveGuard(u, c)
            /\ \A i \in Items : rechargeGuard(u, i, c, TRUE))
       /\ SomeMember(LAMBDA u : editCharacterGuard(u, c, TRUE))
  /\ SomeMember(LAMBDA u :
       /\ seedCatalogGuard(u) /\ identifyGuard(u) /\ identifyBatchGuard(u)
       /\ createHomebrewGuard(u) /\ editHomebrewGuard(u) /\ deleteHomebrewGuard(u)
       /\ renamePartyGuard(u) /\ setEncumbranceGuard(u) /\ updatePartyEconomyGuard(u)
       /\ createShopGuard(u) /\ editShopGuard(u) /\ deleteShopGuard(u)
       /\ setShopOpenGuard(u) /\ editShopStockGuard(u)
       /\ purchaseGuard(u, FALSE) /\ saleGuard(u, FALSE)
       /\ startGameSessionGuard(u) /\ endGameSessionGuard(u) /\ editGameSessionNotesGuard(u))
  /\ banker # NoUser =>
       SomeMember(LAMBDA u : splitEvenlyGuard(u, PartyStash, {}))
  /\ \A i \in Items, author \in Users, type \in {"acquire", "transfer", "identify"} :
       \E u \in Members : canSeeLogEntry(u, deriveActorRoleForSlice(author, type), i)

\* The reducer's party is a roster too: each step of the members is one of
\* Roster, and nothing else changes who is DM, banker or member.
R == INSTANCE Roster WITH dm <- owner, members <- Members, open <- TRUE

ReducerIsRoster == [][R!RosterNext]_<<owner, banker, Members>>
=============================================================================
