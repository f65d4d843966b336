------------------------------ MODULE TableMC ------------------------------
(***************************************************************************)
(* Membership, with its Screens, and Campaign for TLC: one run, in which   *)
(* either the reducers evolve the members of a party, or requests about    *)
(* its homebrew, shop, sheets and sessions overlap.                        *)
(***************************************************************************)
EXTENDS Campaign, TLC

CONSTANTS Users, NoUser, Characters, NoCharacter, Goods, Nowhere, MaxCoins

VARIABLES
  side,  \* which of the two goes on
  owner, banker, dmRow, playerRow, playerChar, charOwner,
  stashes, at, coins, coinLog, world, minted, used

M == INSTANCE Screens WITH Items <- Goods

\* The ids of accounts and of characters are finitely many, and no null is one.
ASSUME UsersAssumption == IsFiniteSet(Users) /\ NoUser \notin Users
ASSUME CharactersAssumption == IsFiniteSet(Characters) /\ NoCharacter \notin Characters
ASSUME NowhereAssumption == Nowhere \notin M!Stashes
ASSUME CoinsAssumption == MaxCoins \in Nat

memberVars == <<owner, banker, dmRow, playerRow, playerChar, charOwner,
                stashes, at, coins, coinLog, world, minted, used>>

\* The kinds of request that have rows in common.
MCDesks == {
  {"create-homebrew", "edit-homebrew", "delete-homebrew", "acquire", "consume",
   "identify", "identify-batch", "stock-add", "stock-update", "stock-remove"},
  {"create-shop", "edit-shop", "set-shop-open", "delete-shop",
   "stock-add", "stock-update", "stock-remove"},
  {"rename-character", "edit-character", "wishlist-add", "wishlist-remove"},
  {"rename-party", "set-encumbrance", "update-party-economy"},
  {"start-game-session", "end-game-session", "edit-game-session-notes"}}

Symmetric == Permutations(Users) \union Permutations(Characters) \union Permutations(Items)

\* The one that does not go on.
NoMembers ==
  /\ owner = NoUser /\ banker = NoUser
  /\ dmRow = [u \in Users |-> "none"] /\ playerRow = dmRow
  /\ playerChar = [u \in Users |-> NoCharacter]
  /\ charOwner = [c \in Characters |-> NoUser]
  /\ stashes = {} /\ at = [i \in Goods |-> Nowhere]
  /\ coins = <<>> /\ coinLog = <<>> /\ world = 0
  /\ minted = {} /\ used = {}

NoRequests ==
  /\ db = [r \in Rows |-> NoRow] /\ book = db
  /\ writes = [s \in Slots |-> <<>>]
  /\ job = [s \in Slots |-> Idle] /\ pc = [s \in Slots |-> 0]
  /\ found = [s \in Slots |-> {}] /\ exact = [s \in Slots |-> TRUE]
  /\ stale = {} /\ gone = {} /\ taken = 0 /\ desk = {}

InitEither ==
  \/ side = "members" /\ M!Init /\ NoRequests
  \/ side = "requests" /\ Init /\ NoMembers

NextEither ==
  \/ /\ side = "members"
     /\ M!Next
     /\ world' = 0 \/ used' = {}  \* bound: coins or an item, not both
     /\ UNCHANGED <<side, vars>>
  \/ side = "requests" /\ Next /\ UNCHANGED <<side, memberVars>>

SpecEither == InitEither /\ [][NextEither]_<<side, vars, memberVars>>

\* Whoever leaves, is kicked or gives up a character leaves everything in the
\* loot, and no coin is lost or made.
NothingIsOrphaned == M!NothingIsOrphaned

\* No control that a screen shows is refused by the guards, but those that
\* Screens leaves out: moving an item out of a pool, the name of the party,
\* the identification on an item's page, homebrew, the last DM's leaving.
OfferedIsAllowed == side = "members" => M!OfferedIsAllowed

\* Somebody is offered what lies in the pools.
PoolIsServed == side = "members" => M!PoolIsServed

\* Somebody can work with everything there is.
NothingIsLocked == side = "members" => M!NothingIsLocked

\* The reducer's party is a roster.
ReducerIsRoster == [][side = "members" => M!R!RosterNext]_<<owner, banker, M!Members>>
=============================================================================
