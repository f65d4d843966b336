# dnd-inventory: specifications, model checking and proofs

This directory holds the TLA+ development that is kept beside the inventory
manager: what the parts of the system promise, models of the code that is
supposed to keep the promises, the TLC runs that check them on small instances,
and proofs by TLAPS that hold for every value of the constants.

Paths are relative to the repository (`apps/...`, `packages/...`, `docs/...`).

## 1. The system

A React client and a Fastify server share one reducer. In *local mode* the
client is alone and keeps its state in IndexedDB. In *server mode* every action
is applied to the store at once (optimistically), pushed to the server in
batches, checked and applied there in a transaction, written to an append-only
log, and broadcast to the other members of the party.

| Component | Code | State | Operations | What makes it correct |
|---|---|---|---|---|
| Sync queue | `apps/web/src/sync/queue.ts`, `lib/backoff.ts` | `queue`, `timer`, `inflight`, `preBatchSnapshot`, `pending` | enqueue, flush, retry, replay | every dispatch settles, once, with what the server said; order per party; nothing parked is lost |
| Outbox | `sync/outbox.ts`, `db/schema.ts` | rows in IndexedDB | add, list, remove | a row leaves only when it was answered |
| Reconnect drain | `sync/reconnect.ts`, `sync/socket.ts` | the run of `drainOutbox` | pull, hydrate, list, replay | safe against the live retries and other tabs |
| Store | `store/index.ts`, `lib/useDispatch.ts` | `appState`, `log`, `online` | dispatch, hydrate, restore, append | the log is the server's; no write to a shared party while offline |
| Party scope, session | `components/PartyScopeSync.tsx`, `store/session.ts`, `components/auth/ProtectedRoute.tsx` | URL, session status | navigate, pull, sign in, sign out | the store holds the party of the URL before anything is dispatched |
| Broadcasts | `sync/applyBroadcast.ts`, `apps/server/src/realtime/io.ts` | rooms, sockets | join, emit, reconcile | every member converges to the server's state |
| Shop, catalog, sessions | `packages/rules/src/pricing.ts`, reducer, `apps/server/src/sync/persistor.ts` | stock, prices, homebrew, sheets, sessions | buy, sell, define, edit, identify, start, end | money and goods are conserved; what is referred to exists; one session is current |
| Sync endpoint | `apps/server/src/sync/routes.ts`, `state-loader.ts`, `actor.ts`, `log-builder.ts` | the database | `POST /sync/actions`, `GET /sync/state` | a batch is all or nothing; no lost update; the log explains the state |
| Reducer | `packages/rules/src/reducer/index.ts` and the rules modules | `AppState` | ~50 actions | items and coins are conserved; containers do not nest; slots and owners are consistent |
| Persistor | `apps/server/src/sync/persistor.ts` | the database | one writer per action | does to the rows what the reducer does to the state |
| Guards, screens | `packages/shared/src/guards/`, `apps/web/src/screens/`, `components/` | none | `checkGuard`; what is shown to whom | only who may act acts; what is offered is allowed; nothing is locked for good |
| Party membership | reducer, `apps/server/src/parties/`, `users/routes.ts` | memberships, roles, archive | join, leave, kick, DM transfer, Banker | an active party has a DM and members |
| Sign-in | `apps/server/src/auth/` | OTP rows, attempts, sessions, links | request, verify, link, sweep | one account per credential; attempts are bounded |
| Snapshots | `apps/server/src/snapshots/`, `cli/restore.ts` | files | write, sweep, restore | the newest snapshots survive; a restore is all or nothing |
| Local store | `apps/web/src/db/`, `io/` | IndexedDB blobs | debounced save, load, wipe, import | the last state saved is the last state dispatched |
| Money, charges, initiative, pricing | `packages/rules/src/*.ts` | none | pure functions | copper is conserved; turns rotate |

How they interact. `store.dispatch` calls the reducer and then the queue; the
queue calls the endpoint through `fetch`, and the store back through the three
functions of `configureQueue` (snapshot, restore, append). The outbox and the
Web Lock `sync-queue-flush` are shared by the tabs of a browser; everything else
of the client is per tab. The socket's `connect` event starts a drain, its
`applied` event a reconciliation; both write the store without looking at the
queue. The endpoint calls the guards, the reducer and the persistor inside one
transaction and emits the broadcasts after it. The persistor does not write the
state that the reducer computed: it has code of its own for every action, which
reads rows afresh and writes them, while the log is the reducer's. Most of what
can go wrong on the server is a difference between the two, or two transactions
that overlap.

The hard behaviours: network failures after the server committed, the drain
that runs beside the live retries, rollback while later dispatches are already
shown, tabs that close between two steps, sessions that end during a flight,
state pulled before an `await` and used after it, broadcasts that overtake answers
and pulls, verdicts of guards that are out of date when their rows are written,
and transactions at READ COMMITTED that write back what they read. `PROJECT.json` lists each one at its line ("hazards").

## 2. Modules

| Part | Modules | Purpose |
|---|---|---|
| Client queue | `SyncQueue` | the client's queue, outbox, drain, navigation and session, against an abstract server |
| | `DispatchPromise` | abstract: what `useDispatch` and the outbox promise |
| | `SyncQueueMC`, `SyncQueueTabsMC` | instances for TLC |
| Live party | `Realtime`, `RealtimeMC` | stages of the endpoint, rooms, broadcasts, echoes, pulls, answers that roll a tab back and answers that do not |
| Items | `ItemRules` | the reducer's arithmetic on item rows: what acquire, transfer, split, equip, ... make of them |
| | `Inventory` | items, stashes and coins; one action per reducer action |
| | `ItemControls` | which requests the table and the page of an item offer |
| | `Persistor` | the rows as the persistor writes them, by rules of its own |
| | `ItemsMC` | the three for TLC: by requests, by way of the screens, or as rows |
| Roster | `Roster` | abstract: one list of members, one DM, a Banker |
| | `Party`, `PartyMC` | membership and roles under requests that read, judge and write statement by statement |
| | `Guards` | every guard of the guard map, and the roles it derives |
| | `Membership` | the same members as the reducer evolves them, with their characters, stashes and coins |
| | `Screens` | what is offered to whom |
| Market | `Currency` | the money and price functions |
| | `Market`, `MarketMC` | coins, stacks, shop and stock, statement by statement |
| Campaign | `Campaign`, `TableMC` | homebrew, shop, identification, sheets, sessions, statement by statement |
| Accounts | `Account`, `AccountMC` | codes, address changes and the Discord sign-in and link query by query; display name, sessions and deletion |
| Proofs | `SyncQueue_proofs`, `Realtime_proofs`, `Items_proofs`, `Party_proofs`, `Table_proofs`, `Market_proofs`, `Account_proofs`, `SumTheorems` | section 3 |

How they fit together. `SyncQueue` treats what an action does to the state as
one opaque effect per dispatch; `Realtime` treats the state as the sequence of
actions it results from and looks at their order across members; the modules
below treat the order in which accepted actions arrive as arbitrary, and look at
what they do. `Inventory` and `Membership` are the reducer; `Persistor`, `Party`,
`Market` and `Campaign` are the persistor, `Persistor` one action at a time
(what it writes), the others under transactions that overlap (when it writes).
`ItemRules` is apart from `Inventory` because the persistor shares parts of the
arithmetic. Modules that describe the same rows are composed where they must
agree: `Party` implements `Roster`, `Membership` implements it too, `Persistor`
keeps the log of `Inventory` and the rows of its own, `Screens` asks the guards
of `Guards` on the states of `Membership`, `ItemControls` the rules of
`Inventory`.

### SyncQueue: state and code

| Variable | Code |
|---|---|
| `session` | `useSession.status` (without `loading`) |
| `online` | `store.online`, from `navigator.onLine` |
| `url`, `pulled` | the route's `partyId`; the state `PartyScopeSync.reconcile` has pulled and not hydrated yet |
| `view` | `appState` and `log`: the party, the dispatches whose effect is shown, the dispatches with a server entry |
| `queue`, `timer`, `preBatchSnapshot`, `inflight` | the module variables of `queue.ts`; `inflight` carries the parameters of `flushBatchWithRetry` and where it stands |
| `drain` | a run of `drainOutbox` |
| `lock`, `outbox`, `nextRow` | the Web Lock, the rows, Dexie's `++id` |
| `origin`, `outcome` | the `QueueItem` and the settlement of its `pending` entry |
| `applied`, `refused` | what the server did: how often it applied a dispatch, which it answered 422 |
| `late`, `lost` | requests whose connection broke before the server read them; dispatches whose batch met a network error |

Actions are dispatched as numbers in dispatch order, so the queue is a set and
its order is the numbers': `splice(0, MAX_BATCH)` takes the smallest,
`unshift(...otherParty)` puts back what is smaller than everything that stayed.
(The order of the queue is the dispatch order because `enqueue` is the only
`push`.) A party's state is the set of dispatches applied to it; the reducer's
effect on items is the business of other modules. A dispatch *mints* when a
second application violates a primary key (acquire, create-stash, ...).

Between two steps of the model lie the `await`s of the code at which something
else can run: the lock, the POST, the IndexedDB removal after a rollback (there
the store is already rolled back while `inflight` is still held), sign-out, the
backoff, and in the drain the pull, the list and each POST. Between other
`await`s of the same function nothing the properties tell apart can happen: the
`removeOutbox` of a 200 is one step with the append that follows it, and
`enqueueToOutbox` one step with the decision to retry.

The server is `Process`: a batch is applied whole or not at all, and a batch
with a minting action that is already applied cannot be answered 200. Which
other answer it gets is open. A connection can break before the server read the
request (it stays in `late` and may be served much later), after it answered, or
not at all.

A tab that closes loses its memory and its lock; its requests may still arrive.
The dispatches it carried settle as `closed`: nobody waits for them.

### Inventory: state and code

| Variable | Code |
|---|---|
| `items` | `AppState.items`, a function from row ids to `ItemInstance` records |
| `stashes`, `minted` | the ids of `AppState.stashes`; the storage ids that were ever in use |
| `coins` | the `CurrencyHolding` of each stash |
| `nextId` | the id a client puts into `newItemInstanceId` next |
| `itemLog`, `coinLog` | what the entries of the transaction log add up to: units per definition by acquire, consume and used-up charges; coins per stash by currency changes and transfers |

What is abstracted, and why it is sound for the properties:

- Rows are looked up with `find`, so the code takes the first match. The order
  of the array is the order in which the database returned the rows, and
  `state-loader.ts` asks for none. An effect is therefore the *set* of outcomes
  with one member per matching row, and an action takes any of them.
- Notes are numbers: none, the synthetic `#n` of containers, and one value for
  other text; `undefined` in a payload is a value of its own, because `acquire`
  treats it differently from an empty note.
- A holding has five denominations that these actions never mix (conversion is
  in `Currency` and `Market`), so one number stands for each of them.
- `EditNotes` is `edit-item-instance`; custom name, description and value take
  no part in any rule here.
- A client mints a fresh id per payload. It is taken in order, and used up only
  when a row takes it.
- `RechargeAll` is a rest with one trigger; the code filters by the trigger of
  the definition first, which only makes fewer rows come back.
- The guards decide who may send an action, never what it does. The model
  explores every sequence of accepted actions of anybody; `ItemControls` those
  that the screens offer.

### Persistor: state and code

The variables of `Inventory`, read as the rows of the database. An action has the
conditions and the log of the reducer's action of the same name (the server has
the reducer accept the action and write its entries), and the effect that its
case of `applyDelta` gives it: `persistAcquire`, `persistTransfer`
(`TransferWhole`, `TransferPart`), `restackOrPatch`, `persistRechargeAll`, and so
on. `TooDeep` is the depth trigger on `containerInstanceId`. Batches have one
action: the state is loaded once per batch, and the second action of a batch
meets rows the reducer did not see, which is what `Market` and `Campaign` explore.

### Party, Roster: state and code

| Variable | Code |
|---|---|
| `owner`, `banker`, `archived` | the columns of `Party` |
| `dmRow`, `playerRow`, `playerChar` | the rows of `PartyMembership`, by role; their status, their `characterId` |
| `charOwner`, `minted` | the rows of `Character`; a departure keeps none |
| `deleted` | the accounts that were anonymised |
| `request` | the requests under way: what they ask, the stage they reached, the role they resolved, what their statements found |
| `stale` | the kinds of request that committed on a verdict that no longer held |
| `outrun` | what the statements of a transaction had found otherwise than it was at its commit |

A request goes through the reads of its handler (`Count`, `Load`) and then, at
READ COMMITTED, through the statements of its transaction: `FindCharacter`,
`DropCharacter`, `EndRows`, `CountRemaining` of a departure or a kick, `FindRow`
of a creation, `SwapRows` and `FindBanker` of a hand-over, `FindRows` of the
sole member's leaving, and the commit. Any other request may commit between two
of them, and each of them may fail (`RollBack`). The writes become visible
together, at the commit, and are what the statements found, not what is there:
a departure whose `updateMany` on the Banker matched no row leaves the Banker
appointed meanwhile; a creation writes the row it found by its key, though it may
have ended. What a transaction has written is locked (`Locked`): who wants to
write it waits, and a second look at a row it waited for sees the new one. A
statement that only locks and writes is part of the step that follows it, as
nobody can tell when it ran.

`stale` and `outrun` are no state of the program: they are what the properties
need to say which overlap breaks what. Each property names the kinds of request
whose outdated verdict, and the findings whose going out of date, can break it,
and the theorems show that nothing else can. The reads of the reducer and the
statements of the persistor are two things: `stale` is about the first, `outrun`
about the second.

### Membership, Guards, Screens: state and code

`Membership` has the same rows, the stashes with their holdings, one item and the
coins that came in from outside (`world`). Each action asks `checkGuard` and the
reducer on one state: this is the web store, or the server without overlaps. The
guards are one operator per entry of the guard map, over `deriveActorRole` and
`isSolo`. `Screens` has one operator per control or screen, named after it: what
it is shown under, and that the guard accepts what it dispatches (`Verdict`).

### Market and Campaign: state and code

| `Market` | `Campaign` | Code |
|---|---|---|
| `db` | `db` | the committed rows: purses, stacks, stock, economy; homebrew, items, shop, stock, sessions, sheets |
| `draft`, `lock` | `writes` | the rows written by a transaction under way, and their row locks |
| `job`, `pc` | `job`, `pc` | the request, with what its log entries will say; the next statement |
| `seen`, `target` | `found` | what its reads returned |
| `exact` | `exact` | nothing it relied on has changed since |
| `coinsLogged`, `goodsLogged`, `stockLogged` | `book` | the rows as the committed log makes them |
| `stale` | `stale` | kinds of request that committed although not exact |
| | `gone` | ids a late retry may insert again after the deletion of their row |

A request is the load of the state and the verdict of the reducer (`Accept...`),
then the statements of its persistor one by one (`Script`, or the `persist...`
actions), then the commit, or an abort anywhere. READ COMMITTED is modelled as
PostgreSQL does it: a read sees what is committed and its own writes, a write
waits for the row's lock and re-evaluates its `where` on the new row, and what
waits in a circle is aborted. `increment` and `decrement` are writes relative to
the row; everything else writes what was computed from a read.

An edit of the campaign carries the patch its form sends. The form of a homebrew
definition sends every field that has a value, changed or not, and
`persistEditHomebrew` writes them all, while the entry names the fields that
differ from the state loaded (`Differs`); an update of a stock entry may give either
field, and its log entry has both values, one not given as it was loaded. `Merge` is
the row as it is written, `Retold` the row as the entry tells it: logged values
are taken from the entry, fields that are only named from the row that was
written, all others unchanged. A write whose row is not what its entry retells is
not `exact`, and `Overwriting` lists the kinds of request that can be so.

### Realtime: state and code

| Variable | Code |
|---|---|
| `server` | the actions committed, in order |
| `request` | the POST of a tab: sent, its transaction open, committed, answered; or `rejected` (422, 401, 409), or `failed` (400, 403, 404, 410, 500) |
| `queue`, `before`, `view` | the queue, `preBatchSnapshot`, the store with its log |
| `live`, `room`, `wire` | sockets, the party's room, broadcasts on their way (in order per socket) |
| `pull` | a `GET /sync/state` under way, with its answer |
| `steady` | tabs that nothing has made miss an action (a property's variable) |

Only a `rejected` request rolls the store back (`RolledBack`); after a `failed`
one the optimistic change stays on the screen (`Kept`), and the tab is steady
no more. A request of somebody who is no member any more is answered 403
(`Open`); for any other the server may refuse with a 422 or a 409 (`Refuse`) or
with the rest (`Fail`). The reducer may throw on a broadcast, because it
needs the time or because the tab's state is not the server's (`MayThrow`), and
the broadcast is dropped. What a tab shows is compared with the server as a set:
two tabs may have reduced the same actions in another order.

### Account: state and code

`users`, `accounts`, `session`, `codes`, `pending`, `links`, `attempts` and
`requests` are the rows of the tables of `auth/`; `flow` is the handler's local
state between two queries, among it the address that a change took from the
session before its first await (`from`), which is where its first code goes. The
handlers of a code, of an address change and of a Discord sign-in or link callback
have one action per query. Setting the display name, starting a link, signing
out, revoking a session and what lapses are one step each: one query, or a read
and a write that nothing here tells apart.

`past` keeps what the properties speak of: which address was proved for whom
(`proved`); per user and address, the codes that came back from it for a change
less the changes made on them (`credit`); the accounts whose address was set
while a change of theirs was under way (`moved`); and those that were deleted
while a request of theirs was (`raced`). Time is "lapses": a code, a lock or a
counter may expire at any moment. `menu` chooses which operations are tried
together, with how many requests, handlers, codes and accounts, so that TLC can
go deep on few at a time; the theorems are for any menu.

### Runs

Deadlock is not checked: the system may stop when the dispatches, requests,
rows or units of the bounds are used up. `tabs` and `table` explore one of two halves
in a behaviour (`side`), two sets of bounds over one model. `rules`, `hard_mode`
and `contents` are behaviours of `SpecBy` of `ItemsMC`, where `by` says what makes
the steps: any request, the screens, or the persistor. `RulesSpec`, `HardModeSpec`
and `RowsSpec` keep to the kinds of things named below; the theorems are about
`SpecBy`, which has all of them together.

| Run | Instance | What it asks |
|---|---|---|
| `drain` | 1 tab, 1 party, 2 dispatches (plain or void), answers 200, 422 and errors, batches of 2, 2 attempts, 1 connect, 1 close | the log is the server's; twice only after a loss; the refinement of `DispatchPromise`, with the drain beside the live retry |
| `tabs` | 2 tabs (symmetric), 2 minting dispatches, 1 attempt, 1 connect, 1 close; or 1 tab, a solo and a shared party, 3 dispatches, batches of 2 | is a parked batch ever dropped unanswered; do outcomes say what the server said; order and awaiters of mixed batches |
| `settles` | 2 tabs, fairness, answers 200, 401 and 409 | does every dispatch settle? |
| `rejection` | 1 tab, a 422 and a dispatch during the flight | finding 1 below |
| `rules` | bags and torches in a storage, the party stash and the loot; wands in an inventory; single-use scrolls and coins; 3 rows, 3 units, 2 coins; by requests, or by way of the screens | do the log, the contents, the parents and the flags survive every order of actions; is every row shown, and does every control work? |
| `hard_mode` | the reducer: bags and torches of weight 1 and 2, threshold 2, 4 units; or the rows of the persistor: bags and torches, or wands, 3 units | can hard mode be got around; do the persistor's rows add up to the reducer's log? |
| `contents` | the persistor, one torch in one bag | finding 2 below |
| `party` | 3 users, 2 requests at once, 1 character, 3 requests | which overlaps break the roster, and which do not |
| `market` | 3 stashes with 12 copper each, 1 stack of 1 or 2, an entry of 1 or unlimited, 2 requests at once, 1 edit of the prices | which overlaps lose coins, goods or stock |
| `realtime` | 2 tabs of one user or two, 2 actions, 1 turn (a lost connection, or a member who comes or goes) | is anything applied or logged twice; who follows the server? |
| `account` | 2 users, 3 addresses, 1 Discord identity, 2 browsers, 2 handlers, 12 menus of up to 7 requests and 5 codes | codes, addresses, changes and deletion, query by query |
| `table` | 3 users, 2 characters, 2 coins or 1 item; or 3 requests, 2 at once, over 1 definition, 2 items, 3 sessions, 1 stock entry, 2 wishes, 2 texts, 1 price | what is left behind, locked, offered; rows and log of the campaign |

Why the bounds are enough for the questions. A batch goes wrong in pairs (a retry
and a drain, two tabs, a batch and its leftovers, two parties in one cut), so
two of each actor, two attempts and a batch size below the number of dispatches
make every such pair meet. The rules of the items relate at most three rows (a
container, one row in it, and the row that one of them meets in the destination)
and two stashes, with the loot as a third that receives what is deleted. A lost
update, a stale verdict or a double insert takes two overlapping requests, and a
third in `party`, `account` and `table` to set the scene (a Banker, a second
code, a session to overtake). What the bounds could hide is what the theorems
are for: they hold for every value of the constants.

The bounds stand in the guards (`MaxDispatches`, `MaxConnects`, `MaxCloses`,
`MaxRows`, `MaxUnits`, `MaxCoins`, `MaxRequests`, `MaxEdits`, `MaxCharacters`,
`MaxActions`, `MaxTurns`, and `calls`, `hands`, `codes` and `accounts` of a menu) and, where a run explores
less than a module allows, in its MC module, named: a fault of
the environment comes early (`FewFaults`, `SyncQueueTabsMC`), one kind of thing
at a time (`RulesSpec` and `HardModeSpec` of `ItemsMC`, `TableMC`), the catalog's prices until the DM edits them
(`ListPrices`), one action that needs the time (`OneClock`). `MAX_BATCH` (100),
`MAX_ATTEMPTS` (5), `MAX_FAILED_ATTEMPTS` (5) and `OTP_REQUEST_MAX` (10) are the
code's own constants, made small.

### Fairness

`FairSpec` (run `settles` only) assumes of each tab that
- the debounce and backoff timers fire (`WF` of `TimerFires`, `Retry`),
- a `fetch` gets an answer or fails (`WF` of `ServeFlush \/ LoseFlush`; which of
  the two is open, so a network that always fails is allowed),
- the code that receives it runs (`WF` of `Receive`), and
- the Web Lock is granted to a tab that keeps asking (`SF` of `LockGranted`):
  the lock manager queues the requests of one name first come, first served,
  which `docs/roadmap.md` (RH2.3 notes) relies on too. Strong fairness is that
  queue without its order.

Nothing is assumed of the user, of the socket, or of tabs being closed.

### Properties

| Property | Kind | Run | Theorem |
|---|---|---|---|
| `PendingIsCarried` | invariant | `tabs` | `PendingCarried` |
| `PartyOrderKept` | invariant | `tabs` | `PartyOrder` |
| `OutcomeIsServers` | invariant | `tabs` | `OutcomeTrue` |
| `ParkedIsKept` | invariant | `tabs` | `ParkedKept` |
| `LogIsServers` | invariant | `drain` | `LogTrue` |
| `TwiceOnlyAfterLoss` | invariant | `drain` | `TwiceAfterLoss` |
| `KeepsPromise` | refinement | `drain` | `Implements` |
| `EveryDispatchSettles` | liveness | `settles` | out of the prover's reach |
| `LogAccountsForItems` | invariant | `rules` | `ItemsAreAccountedFor` |
| `ContentsTravel` | action property | `rules` | `ContentsAlwaysTravel` |
| `NoParentLeftBehind` | action property | `rules` | `ParentsAreNeverLeftBehind` |
| `FlagsStayBehind` | action property | `rules` | `FlagsAlwaysStayBehind` |
| `EveryRowIsShownByScreens` | invariant | `rules` | `EveryRowIsAlwaysShown` |
| `ControlsWorkInBounds` | invariant | `rules` | no: about what is enabled |
| `RowsAddUp` | invariant | `hard_mode` | `RowsAlwaysAddUp` |
| `FlagsOnlyWornInRows` | invariant | `hard_mode` | `FlagsAreOnlyWornInRows` |
| `OverloadOnlyByLosingABagInStore` | action property | `hard_mode` | `OverloadOnlyByALostBag` |
| `OneDm` | invariant | `party` | `PartyHasOneDm` |
| `BankerPlays` | invariant | `party` | `BankerIsAPlayer` |
| `CharactersHaveRows` | invariant | `party` | `PartyCharactersHaveRows` |
| `ArchivedIsEmpty` | invariant | `party` | `ArchivedPartyIsEmpty` |
| `DeletedHasLeft` | invariant | `party` | `DeletedAccountHasLeft` |
| `RosterSteps` | refinement | `party` | `PartyIsARoster` |
| `CoinsAsLogged` | invariant | `market` | `CoinsStayLogged` |
| `WaresAsLogged` | invariant | `market` | `WaresStayLogged` |
| `NothingTwice` | invariant | `realtime` | `NothingIsTwice` |
| `SteadyTabsFollow` | invariant | `realtime` | `SteadyFollow` |
| `CodeWorksOnce` | invariant | `account` | `CodesWorkOnce` |
| `EmailIsProved` | invariant | `account` | `EmailsAreProved` |
| `ChangesAreFunded` | invariant | `account` | `ChangesStayFunded` |
| `DeletedStaysEmpty` | invariant | `account` | `DeletedAccountsStayEmpty` |
| `RowsAsLogged` | invariant | `table` | `LogGivesRows` |
| `SessionsInOrder` | invariant | `table` | `SessionsStayInOrder` |
| `CatalogHolds` | invariant | `table` | `CatalogStays` |
| `NothingIsOrphaned` | invariant | `table` | `NothingIsEverOrphaned` |
| `NothingIsLocked` | invariant | `table` | `NothingIsEverLocked` |
| `ReducerIsRoster` | refinement | `table` | `ReducerIsARoster` |
| `OfferedIsAllowed` | invariant | `table` | `OffersAreAllowed` |
| `PoolIsServed` | invariant | `table` | `PoolsAreServed` |

Type correctness is proved, not run: `TypeCorrect` of the queue, of the items and
of the live party, `PartyTypes`, `MembersTypes`, `AccountTypes`, `CampaignTypes`,
`MarketTypes`.

`ContentsTravel`, `NoParentLeftBehind` and `FlagsStayBehind` say what is true
where the documents promise more: their hypotheses ("a container that survives",
"unless it leaves inside a container") are the gaps that section 4 lists. The
hypotheses about `stale`, `outrun`, `moved`, `raced`, `gone` and `steady` are gaps of
the same kind: each is an overlap of requests, or an answer, after which the
conclusion is false, and TLC shows it when the hypothesis is taken away: in the
run's bounds, but for the DM row of `ArchivedIsEmpty` and for `gone`, which take more
requests than the run has. One is there for the proof alone: for `create` in `DeletedHasLeft` TLC found
no such overlap.

## 3. Proofs

Theorems are about `Spec` of their module, or about the specification that its
runs restrict: `StoreSpec` (what the reducer accepts, from whoever and by
whatever screen), `PersistorSpec` and `SpecBy` for the items, `SpecEither` for
members and campaign. They hold for every value of the constants, from the named
assumptions next to the constants and nothing else. The assumptions say what
kinds of things the names are (no id is in two tables, no null is an id), that
the initial tables, a party's request handlers, the users, the characters and the
sessions are finite, and that bounds are numbers. TLC evaluates them on every
run.

Each inductive invariant was first an invariant of a TLC run, and each
preservation proof has one step per action.

- `SyncQueue_proofs`. `QueueInv` strengthens `PendingIsCarried`: queue and flight of
  a tab are disjoint, hold dispatches of that tab that were issued, and are
  exactly the pending ones; a batch in flight has one party and precedes what its
  queue holds of that party. `AnswerInv` ties the stage of a flight to what the
  server did; `RowsInv` ties rows, flights and drains: a row is never changed, and
  a flight that has a row is about that row's dispatches; `DrainInv` says the same
  of the rows a drain has listed. Together they show that whoever removes a row
  removes one that was answered, which gives `ParkedIsKept`. `LogInv` carries the log
  through every copy of it (snapshots, pulled states, the state of a drain);
  `OnceInv` carries "sent again only after a loss" through flights, the outbox,
  drains and late requests. For the refinement, `buffered` of `DispatchPromise` is
  the union of the rows' dispatches; every action maps to a step of it or to a
  stutter, and the invariants discharge the side conditions.
- `Realtime_proofs`. Of an action there are many copies: in a queue, a request, a
  view, a snapshot, on the server, on a wire, in the answer to a pull. `Books` says
  that the server has each at most once; `InHand` that a tab holds its own actions
  once, in the queue or in the request, and that they are on the server exactly
  from the commit on, which the stage of the request tells; `States` that every
  state a tab shows or may return to has nothing twice, a log that is the server's,
  and without a log entry only what the same user did. `SteadyTabsFollow` relates a
  view to the server alone; what makes it inductive is `Follows`, by which anything
  that a steady tab lacks is another tab's and is on its wire or in a request that
  has committed and not emitted yet.
- `Items_proofs`. Every operator of `ItemRules` first gets a lemma that what it
  makes of legal rows is legal. `Inv` (types, legal rows, and `coins[s] = coinLog[s]`
  with nothing in a stash that is not there) is then inductive. It is proved for
  `AnyNext`, the reducer's actions with whatever amounts and notes, which covers the
  requests of `Next` and those that the controls make of a row's own quantity and
  notes (`StoreIsAny`). The action properties need `Fresh` besides (no row has an id
  from `nextId` on), without which a new row could overwrite another, and a case
  analysis of how an action may change rows (`Evolves`). Of the rows that survive a
  step only a `transfer` and the deletion of a stash change the stash.
  `ItemsAreAccountedFor` adds, for every action, how many units of each definition
  come and go (`Counted`) and that its log entries say so.

  The persistor: an action that does what the reducer's does is covered by that;
  for the others `Written` says what the writer does to counts, flags and legality.
  `RowsInv` is `Inv` with `Fresh`, flags only in inventories (`AllWorn`) and the sum
  of the log (`AddsUp`). Single-use items are outside the sum, because there the
  code differs (section 4).

  The screens: `EveryRowIsShown` is not inductive. A row is missing from its table
  when its container is packed itself, or is no container, so `Nested` says that
  containers are at the top, that what a row is packed in is a container, and that
  parents are ids below `nextId` (else a later row could be minted into one).
  Requests do not keep `Nested`: it is where the menus matter, which pack nothing
  that is a container (`Politely`). A lemma per rule then says where the parents of
  the rows it makes come from (`Bequeaths`).

  Hard mode: the load of an inventory is a sum over rows that the rows'
  containers select, so a row may count after a step that did not count before.
  With no flat-weight row gone from the inventory, none does (`CarriedBefore`). What
  a rule leaves there is then the rows of before, or lighter ones
  (`DwindlingLight`), but for two that share the units they had, when one is split
  off or restacked (`PairLight`); and what a rule brings in `CanCarry` has weighed.
- `SumTheorems`. Sums are the community modules' `MapThenSumSet`, a recursion over
  subsets. Without induction schemas the provers get induction as a minimal
  counterexample: the subsets of a finite set are well-founded under strict
  inclusion, so a set of bad subsets has a minimal one (`WFMin`), and without one of
  its elements that one is good. From it: the recursion defines a function, its
  value does not depend on the order in which elements are picked, and a sum
  changes with one of its terms, or a new term, by that much. It splits with its
  set (`TotalSplit`), changes by `k` per element when every term changes by `k`
  (`TotalShift`), and is at most another when its terms are (`TotalAtMost`).
- `Party_proofs`. A step is either quiet (a read, or a statement that nobody sees
  yet) or a commit, and a commit compares what its statements found with the rows
  (`FoundIsPresent`), so nothing need be known of the steps in between. `OneDm` and
  `BankerPlays` are inductive next to the types; `CharactersHaveRows` needs `Pointers`
  (a row points only at its own user's character); `DeletedHasLeft` is strengthened by
  the deletions that have ended their membership and go on (`NobodyGoneStays`). The
  refinement shows each commit whose verdict still holds, on what it found still, to
  be a step of `Roster`.
- `Market_proofs`. `MarketInv` is `Types`, `Clean` (the draft of a row that nobody has
  locked is the committed row), `IdsOK` (the ids that requests have still to use
  have no row), `Locked` (a request has the locks of exactly the rows that it has
  written, by its statement counter), `Requests`, and the two properties. `Requests`
  says of each request that what it has written differs from the committed rows
  by what its log entries will say (`Drafted`), as long as `exact` holds: this is
  the property relative to a transaction under way, and at the commit it becomes
  the property itself. A statement is one of a plain read, a read that picks a
  row, or a write to a purse, a stack or the stock, and a commit adds the drafts of
  one owner to the totals: five lemmas carry the twenty actions.
- `Table_proofs`. For the campaign, `CampaignInv` is `Shapes`, `Progress` (what a
  request has written, by its kind and statement), `OneWriter` (no two requests have
  written the same row),
  that what is `exact` is what the log entry tells (`Exactness`, `Told`), what the
  locks of the shop, of items and of prices keep others from doing
  (`ShopHeld`, `ItemsHeld`, `PricesHold`), `OneCurrent` and `Numbered` for the sessions, and
  `RowsAsLogged`. `PricesHold` is why `CatalogHolds` speaks of `gone`: an id that is
  inserted again after the deletion of its row leaves a stock entry that nothing
  prices, which the invariant could not exclude and TLC then showed, with more requests than the run has.

  For the members, `MemInv` is the types with `Roles` (one DM, who is the owner; the
  Banker is another player), `Playing` (a player row names a character of its own
  user, every character there is has its row, ids are not used again), `Placed` (the
  pools are there, with the stashes of the living and no others, and what has a place
  has it there) and `Counted` (the coins of the stashes are those that came in, and
  those of the log). None of the first three is inductive alone: a departure finds
  the stashes it has to empty by the row that names the character, a hand-over
  finds the rows it swaps by the roles. An even split gives to a set of stashes at
  once; its sum is taken apart with `TotalSplit` and `TotalShift`. `NothingIsLocked`,
  `OfferedIsAllowed` and `PoolIsServed` are consequences of `MemInv` in one state: they
  compare what the screens show, what the guards ask and what the reducer checks.
  For `ReducerIsRoster` every action is a step of `Roster` or changes no row of it.
- `Account_proofs`. Handlers interleave at every query, so `FlowsOK` says of every
  stage of every request what its reads still entitle it to; `RefsOK` and `Unshared`
  say whose rows refer to whom; `UsedOnce` splits a code's uses into those done and
  the one handler that is past the update that consumed it; `Funded` says of a user
  whose address nothing but changes has moved that every change under way started
  from the address the account has, that its codes went there, and that a change
  that is stamped, or a handler about to stamp or to use it, has a credit of that
  address; `LeftAlone` says that the rows of a deleted account stay as the deletion left
  them. `EmailIsProved` and `DeletedStaysEmpty` are inductive with these.

What is only model-checked, and why. `EveryDispatchSettles` is liveness: it needs
fairness and `ENABLED`. `ControlsWorkInBounds` speaks of what is enabled as well.

## 4. Findings

Places where a comment or document promises what the code does not keep. Two have
a run that TLC refutes:

1. `RejectedIsRolledBack` (`queue.ts:238`). "restores the pre-batch snapshot
   (rolls back optimistic state)". What is dispatched during a flight gets its
   snapshot in the `finally`, after it is already in the store: its rejection
   rolls back to a state that shows it.
2. `ContentsTravel` under the persistor (`persistor.ts:602`). `docs/OUTLINE.md:103`:
   contents move with their container. The reducer moves them, `persistTransfer`
   does not: after the next pull they are in the old stash, packed in a container
   that is not there.

Also met while modelling, without a run of their own; the models behave this way
because the code does:

Queue and store

- `queue.ts:311`: "outbox row is KEPT so a re-auth drain can replay it". On a
  first attempt there is no row.
- `outbox.ts:4`: the outbox is said to store batches that met "server 5xx"; that
  branch (`queue.ts:325`) writes no row.
- `queue.ts:343`: offline sessions depend on optimistic state persisting. The
  drain (`reconnect.ts:53`) hydrates over a parked action, replays it and
  appends its log entry; the state does not show it until the next pull.
- The doc of `replayOutboxRow` says the row remains in the outbox on any failure,
  and a 422 removes it (`queue.ts:384`, `:414`); `PartyScopeSync` says only a
  change of the route's party triggers a pull, and its effect also depends on
  the party of the store (`PartyScopeSync.tsx:49`, `:115`).
- `queue.ts:325`: after a 400, 403, 404, 410 or 500 the store is not rolled back
  and the actions are dropped: a member who was kicked meanwhile, or whose party was
  archived, goes on seeing what the server refused, until the next pull.
- `applyBroadcast.ts:19` calls reducers deterministic; those that call `ctx.now()`
  throw on a peer, which drops the broadcast (`:28`).
- A field that is cleared with `undefined` is dropped by `JSON.stringify`
  (`apps/web/src/lib/api.ts:192`): the server refuses the edit as empty.
- Ids are picked by the client (`store/index.ts:487-549`) and checked against the
  rows there are: a retry of a creation after the row was deleted creates it anew.
- Importing wipes the boot pointer too (`ReplaceAllConfirmDialog.tsx:40`), and a wipe
  does not cancel a pending save, which may follow it.

Items

- `docs/OUTLINE.md:103`: a container cannot be packed. Only the destination is
  looked at (`reducer/index.ts:1517`, and the depth trigger): a container, also a
  filled one, can be, and its contents are then two levels deep. The table of a
  stash does not show them; its own menus do not lead there
  (`EveryRowIsShownByScreens`).
- `docs/roadmap.md:984`: a row cannot contain itself. A row stacked on the very
  container it is to be packed into makes it do so (`reducer/index.ts:1630`).
- `reducer/index.ts:3048`: equipped rows have quantity 1. A transfer stacks
  units on one (`inventory.ts:35`).
- `docs/OUTLINE.md:102`: moving does not refill charges, and clears equipped and
  attuned. An uninitialised wand stacked on a spent one refills it
  (`reducer/index.ts:1627`); the contents of a container that moves keep their
  flags (`:1696`).
- `docs/OUTLINE.md:103`: a container that is stacked on arrival leaves its contents
  pointing at a row that is gone (`reducer/index.ts:1659`).
- `reducer/index.ts:226`: a transfer out of an inventory always lowers its weight.
  Not when a flat-weight bag goes by stacking and its contents stay.
- Reducer and persistor differ: containers get no `#n` and new wands no charges
  from `persistAcquire`; the last charge of a single-use item leaves its row, which
  the log consumes; packing within a stash merges like rows; a packed row that
  moves out keeps its parent; deleting a stash unpacks; a recharge of charges that
  are null answers 500; splitting or equipping a row two levels deep is refused.
- `persistIdentifyBatch` (`persistor.ts:1375`) looks for stashes by party, which the
  stashes of characters do not have: items are logged as identified and are not.

Parties, sessions, money

- A leave that overlaps the hand-over of the role to the leaver leaves a party
  without a DM (`parties/leave.ts:51`); two last members who leave together leave
  a party without members that is not archived; an account that joins while it is
  deleted stays a member (`users/routes.ts:203`).
- A departure or a kick looks for the Banker and for the character once
  (`persistor.ts:1637`, `:1655`, `:1698`, `:1714`). An appointment (`:1778`) that commits
  between that and the end of the departure leaves a Banker who is no member; a
  creation (`:457-483`) that overlaps it leaves a character on a row that ended.
- The form of a homebrew definition sends every field (`HomebrewForm.tsx:241`) and
  `persistor.ts:745` writes them all: of two edits of different fields at once the
  second takes the first back, and its entry, which names only what differed
  (`reducer/index.ts:2069`), does not say so.
- Two sessions started at once may get one number (`persistStartGameSession`): the
  unique index is on the current one only; its violation is answered as a
  duplicate id.
- A wishlist is one column that is written back whole: of two additions at once
  one is lost. Its entries, and those of the stock, may name a deleted definition.
- A purchase, a sale and an even split write back what they read
  (`persistor.ts:964`, `:1946`): what another request puts into the purse meanwhile is
  lost, though the log has it. Recipients listed twice are paid once by the
  reducer and twice by the persistor.
- `auth/`: an address that is verified while its account is deleted ends on the
  emptied account; `docs/OUTLINE.md:67` against `discord-link.ts:359`.
- `auth/routes.ts:749`: a change of the address "proves possession of BOTH". The first
  code goes to the address of the session as it was read before the awaits (`:787`,
  `:850`), also when it is the account's no more; and `link/verify-otp` (`:691`)
  replaces an address with no code from it.
- A Discord identity that was linked in the settings has no `Account` row
  (`discord-link.ts`): a sign-in with it finds no account and fails to create
  one, because the identity is taken.

Screens

- Shown to every member although the guard is the DM's: the field that renames the
  party, "Identified" and the DM's hint, homebrew. Offered to members who are not
  the Banker: moving an item out of a pool. The last DM's "Leave" is refused.
- With a filter, a row whose container is filtered out is offered "Pack" into that
  container (`StashItemsTable.tsx:381`), which the reducer refuses.
- `RestRollModal` says that its items are a snapshot from when it opened; they
  follow the store.
- `docs/OUTLINE.md:184`: purchase and sale are not in an item's history, and not
  among the types that `HistoryScreen.tsx:74` calls exhaustive; the log shows the
  names of unidentified items (`docs/OUTLINE.md:447`).

## 5. Not modelled, and why

- Snapshots, retention and restore; the saver of local mode, wipe and import; the
  configuration, health and seeds: files and IndexedDB of one process, or pure I/O.
  What was noticed of them is in section 4 and in the hazards.
- Local mode of the store, the Hub's own pull and hydrate, a sign-out from the
  menu, `resetQueue` (a test seam).
- Two drains of one tab at once: `Connect` waits for the previous drain of its
  tab. Two drains at once are explored with two tabs.
- Names, descriptions and other texts of rows; the checks of `validation.ts` on
  hands and armour; the generation of hoards; catalog search; the turns of an
  encounter, which lives in one tab; the rotation of invite codes. An action the
  reducer refuses changes nothing and is no step.
- Parsing and schemas of requests: data declarations.
- Wall-clock time: delays and jitter are "eventually", lapses may happen any time.
- Layout and forms of the screens.

## 6. Plan

Done: the queue and its refinement; items by the reducer, the screens and the
persistor; the roster in both; market, campaign and accounts under overlapping
transactions; the live party; theorems for all properties of the passing runs
but the two that speak of what is enabled (section 3).

Next, in this order:

1. The saver of local mode, wipe and import: one process, but with a debounce
   between two stores, and a crash between two steps (see the hazards).
2. Two actions of a batch for the rows of `Persistor`, as in `Market`.
3. Initiative, once its turns are shared between tabs.
