------------------------------- MODULE Market -------------------------------
(***************************************************************************)
(* The coins, the stacks and the shop of one party in the server's         *)
(* database, under requests of POST /sync/actions that overlap.            *)
(*                                                                         *)
(* A request runs in one READ COMMITTED transaction: the state is loaded   *)
(* and the reducer computes what the log will say (the Accept actions),    *)
(* then the persistor issues its statements one by one (Script): a read    *)
(* sees what is committed, a write locks its row and stays a draft until   *)
(* the commit, a second writer waits for the lock.  Some persistors add to *)
(* a purse with `increment', others set it to a value computed from an     *)
(* earlier read, and so it is with stacks and stock.                       *)
(*                                                                         *)
(* One shop sells one kind of item.  The rows of the database are one      *)
(* function: the purse of each stash, the stacks of the item, the entries  *)
(* of the stock, and the economy (the shop and the price modifiers).       *)
(* Who may do what is left to the guards; overridden prices and the        *)
(* charges of an item are left out.                                        *)
(***************************************************************************)
EXTENDS Currency, Sequences, FiniteSets, FiniteSetsExt

CONSTANTS
  Stashes,      \* the stashes of the party, one purse each
  Pool,         \* the Party Stash among them
  Stacks,       \* the item rows that exist at first
  Entries,      \* the stock entries that exist at first
  NewStacks,    \* the id a request gives the stack it creates, one per request
  NewEntries,   \* and the entry
  Economy,      \* the id of the economy's row
  Slots,        \* the requests the server handles at the same time
  Free,         \* no lock
  NoRow,        \* no such row
  Purses,       \* what a purse holds at first
  Deltas,       \* inputs: the deltas of currency-change
  Sums,         \* inputs: the deltas of currency-transfer
  Markups,      \* inputs: price modifiers, in percent
  Splits,       \* inputs: the recipients of split-evenly
  BaseCost,     \* the item's cost in copper
  SellRate,     \* Shop.sellToMerchantRate, in percent
  MaxRequests,  \* bound: requests ever received
  MaxEdits      \* bound: edits of the shop by the DM

Inventories == Stashes \ {Pool}

ASSUME PoolAssumption == Pool \in Stashes
ASSUME LockAssumption == Free \notin Slots
ASSUME MoneyAssumption ==
  /\ Purses \subseteq Coins /\ Sums \subseteq Coins
  /\ Deltas \subseteq [Denoms -> Int]
  /\ Markups \subseteq Nat
  /\ BaseCost \in Nat /\ SellRate \in Nat
ASSUME SplitsAssumption ==
  \A p \in Splits : /\ p \in Seq(Inventories) /\ p # <<>>
                    /\ \A i, k \in 1..Len(p) : p[i] = p[k] => i = k
ASSUME BoundAssumption == MaxRequests \in Nat /\ MaxEdits \in Nat

ItemRows == Stacks \union {NewStacks[n] : n \in 1..MaxRequests}
StockRows == Entries \union {NewEntries[n] : n \in 1..MaxRequests}
Rows == Stashes \union ItemRows \union StockRows \union {Economy}

Unlimited == -1

\* The tables hold finitely many rows, and the ids are UUIDs: a row has one of its
\* own, in whichever table, and what a request creates has a new one.
ASSUME TablesAssumption == IsFiniteSet(Stacks) /\ IsFiniteSet(Entries)
ASSUME IdsAssumption ==
  /\ Economy \notin Stashes \union ItemRows \union StockRows
  /\ Stashes \intersect (ItemRows \union StockRows) = {}
  /\ ItemRows \intersect StockRows = {}
  /\ NoRow \notin Rows
  /\ \A n \in 1..MaxRequests :
       /\ NewStacks[n] \notin Stacks /\ NewEntries[n] \notin Entries
       /\ \A m \in 1..MaxRequests :
            n # m => NewStacks[n] # NewStacks[m] /\ NewEntries[n] # NewEntries[m]
ASSUME NoRowAssumption == NoRow \notin Int \union [at : Stashes, qty : Nat]

VARIABLES
  db,      \* the committed rows
  draft,   \* the rows with the writes of their lock holders
  lock,    \* row -> the request that wrote it and has not committed
  job,     \* slot -> the action it handles, with what the log will say
  pc,      \* slot -> the statement it is about to issue
  seen,    \* slot -> the rows it read last
  target,  \* slot -> the stack or entry it found
  exact,   \* slot -> nothing that it relied on has changed
  coinsLogged,  \* stash -> its coins in copper, by the log
  goodsLogged,  \* stash -> how many items it has, by the log
  stockLogged,  \* what is in stock, by the log
  stale,   \* kinds of action that committed although not exact
  taken,   \* requests received
  edits    \* edits of the shop

request == <<job, pc, seen, target, exact>>
logged == <<coinsLogged, goodsLogged, stockLogged>>
vars == <<db, draft, lock, request, logged, stale, taken, edits>>

Idle == [kind |-> "idle"]
Busy(s) == job[s] # Idle

StacksAt(h) == {r \in ItemRows : db[r] # NoRow /\ db[r].at = h}
Listed == {e \in StockRows : db[e] # NoRow}
Finite == {e \in Listed : db[e] # Unlimited}
ShopExists == db[Economy].shop

GoodsAt(h) == MapThenSumSet(LAMBDA r : db[r].qty, StacksAt(h))
InStock == MapThenSumSet(LAMBDA e : db[e], Finite)

-----------------------------------------------------------------------------
(* The state is loaded and the reducer has its say.                        *)

UnitCost(economy) == buyPrice(BaseCost, economy.markup)
UnitCredit(economy) == sellPrice(BaseCost, economy.markup, SellRate)

Job(kind, purse, to, delta, payees, stack, entry, cost) ==
  [kind |-> kind, purse |-> purse, to |-> to, delta |-> delta, payees |-> payees,
   stack |-> stack, entry |-> entry, cost |-> cost, id |-> taken + 1]

Accept(s, j) ==
  /\ taken < MaxRequests /\ ~Busy(s)
  /\ taken' = taken + 1
  /\ job' = [job EXCEPT ![s] = j]
  /\ pc' = [pc EXCEPT ![s] = 1]
  /\ seen' = [seen EXCEPT ![s] = [r \in {j.purse, j.stack, j.entry, Economy} \intersect Rows |-> db[r]]]
  /\ target' = [target EXCEPT ![s] = NoRow]
  /\ exact' = [exact EXCEPT ![s] = TRUE]
  /\ UNCHANGED <<db, draft, lock, logged, stale, edits>>

\* No denomination may go below zero.
AcceptChange(s) ==
  \E h \in Stashes, d \in Deltas :
    /\ IsHolding(add(db[h], d))
    /\ Accept(s, Job("currency-change", h, h, d, <<>>, NoRow, NoRow, 0))

AcceptTransfer(s) ==
  \E h, to \in Stashes, d \in Sums :
    /\ h # to /\ d # NoCoins
    /\ IsHolding(subtract(db[h], d))
    /\ Accept(s, Job("currency-transfer", h, to, d, <<>>, NoRow, NoRow, 0))

AcceptSplit(s) ==
  \E p \in Splits :
    Accept(s, Job("split-evenly", Pool, Pool, splitEvenly(db[Pool], Len(p)).share, p,
                  NoRow, NoRow, 0))

\* One item is bought for the purse of a stash, or sold out of a stack.
AcceptPurchase(s) ==
  \E h \in Stashes, e \in Listed :
    LET cost == UnitCost(db[Economy]) IN
    /\ ShopExists
    /\ db[e] # 0
    /\ toCopper(db[h]) >= cost
    /\ Accept(s, Job("purchase", h, h, NoCoins, <<>>, NoRow, e, cost))

AcceptSale(s) ==
  \E h \in Stashes : \E r \in StacksAt(h) :
    /\ ShopExists
    /\ Accept(s, Job("sale", h, h, NoCoins, <<>>, r, NoRow, UnitCredit(db[Economy])))

AcceptAcquire(s) ==
  \E h \in Stashes : Accept(s, Job("acquire", h, h, NoCoins, <<>>, NoRow, NoRow, 0))

AcceptConsume(s) ==
  \E h \in Stashes : \E r \in StacksAt(h) :
    Accept(s, Job("consume", h, h, NoCoins, <<>>, r, NoRow, 0))

-----------------------------------------------------------------------------
(* The statements of the persistors.                                       *)

Script(j) ==
  CASE j.kind = "currency-change"   -> <<"add">>
    [] j.kind = "currency-transfer" -> <<"subtract", "add">>
    [] j.kind = "split-evenly"      -> <<"read-pool", "keep">> \o [i \in 1..Len(j.payees) |-> "share"]
    [] j.kind = "purchase"          -> <<"read-economy", "read-offer", "read-purse", "pay",
                                         "find-stack", "stack", "deliver">>
    [] j.kind = "sale"              -> <<"read-economy", "read-stack", "read-purse", "earn",
                                         "unstack", "find-entry", "restock">>
    [] j.kind = "acquire"           -> <<"find-stack", "stack">>
    [] j.kind = "consume"           -> <<"read-stack", "unstack">>

AtEnd(s) == pc[s] = Len(Script(job[s])) + 1
Issues(s, statement) ==
  /\ Busy(s) /\ ~AtEnd(s) /\ Script(job[s])[pc[s]] = statement
  /\ pc' = [pc EXCEPT ![s] = @ + 1]
  /\ UNCHANGED <<job, logged, stale, taken, edits>>

\* What must not change between two looks at it for the log to be right.
RelyOn(s, fact) == exact' = [exact EXCEPT ![s] = @ /\ fact]

Read(s, r) ==
  /\ db[r] # NoRow
  /\ seen' = [seen EXCEPT ![s] = [x \in DOMAIN @ \union {r} |-> IF x = r THEN db[r] ELSE @[x]]]
  /\ UNCHANGED <<db, draft, lock>>

\* A write waits for the lock and holds it until the commit.
Write(s, r, row) ==
  /\ lock[r] \in {Free, s}
  /\ lock' = [lock EXCEPT ![r] = s]
  /\ draft' = [draft EXCEPT ![r] = row]
  /\ UNCHANGED <<db, seen, target>>

Skip(s) == UNCHANGED <<db, draft, lock, seen, target, exact>>

\* update with increment or decrement: relative to the row as it is now.
Increment(s) ==
  LET j == job[s] IN
  /\ Issues(s, "add")
  /\ IsHolding(add(draft[j.to], j.delta))
  /\ Write(s, j.to, add(draft[j.to], j.delta))
  /\ UNCHANGED exact

(* Mutant: the balance the reducer saw, less the sum, is written.          *)
DecrementOfLoaded(s) ==
  LET j == job[s] IN
  /\ Issues(s, "subtract")
  /\ Write(s, j.purse, subtract(seen[s][j.purse], j.delta))
  /\ UNCHANGED exact

Decrement(s) ==
  LET j == job[s] IN
  /\ Issues(s, "subtract")
  /\ IsHolding(subtract(draft[j.purse], j.delta))
  /\ Write(s, j.purse, subtract(draft[j.purse], j.delta))
  /\ UNCHANGED exact

ReadPool(s) ==
  /\ Issues(s, "read-pool")
  /\ Read(s, Pool)
  /\ RelyOn(s, db[Pool] = seen[s][Pool])
  /\ UNCHANGED target

\* The pool is set to the remainder of what was read.
Keep(s) ==
  /\ Issues(s, "keep")
  /\ Write(s, Pool, splitEvenly(seen[s][Pool], Len(job[s].payees)).remainder)
  /\ RelyOn(s, db[Pool] = seen[s][Pool])

Share(s) ==
  LET n == Len(job[s].payees)
      h == job[s].payees[pc[s] - 2] IN
  /\ Issues(s, "share")
  /\ Write(s, h, add(draft[h], splitEvenly(seen[s][Pool], n).share))
  /\ UNCHANGED exact

ReadEconomy(s) ==
  /\ Issues(s, "read-economy")
  /\ ShopExists
  /\ Read(s, Economy)
  /\ RelyOn(s, db[Economy] = seen[s][Economy])
  /\ UNCHANGED target

ReadOffer(s) ==
  /\ Issues(s, "read-offer")
  /\ Read(s, job[s].entry)
  /\ UNCHANGED <<exact, target>>

ReadPurse(s) ==
  /\ Issues(s, "read-purse")
  /\ Read(s, job[s].purse)
  /\ UNCHANGED <<exact, target>>

\* The purse is set to what was read less the price, re-minted.
Pay(s) ==
  LET h == job[s].purse
      left == toCopper(seen[s][h]) - UnitCost(seen[s][Economy]) IN
  /\ Issues(s, "pay")
  /\ left >= 0
  /\ Write(s, h, fromCopper(left))
  /\ RelyOn(s, db[h] = seen[s][h])

Earn(s) ==
  LET h == job[s].purse IN
  /\ Issues(s, "earn")
  /\ Write(s, h, fromCopper(toCopper(seen[s][h]) + UnitCredit(seen[s][Economy])))
  /\ RelyOn(s, db[h] = seen[s][h])

\* findFirst: any stack of the item in the stash, if there is one.
FindStack(s) ==
  LET found == StacksAt(job[s].purse) IN
  /\ Issues(s, "find-stack")
  /\ \/ \E r \in found : Read(s, r) /\ target' = [target EXCEPT ![s] = r]
     \/ found = {} /\ target' = [target EXCEPT ![s] = NoRow] /\ UNCHANGED <<db, draft, lock, seen>>
  /\ UNCHANGED exact

\* One more on the stack that was found, or a new stack.
Stack(s) ==
  LET r == target[s]
      h == job[s].purse IN
  /\ Issues(s, "stack")
  /\ \/ /\ r = NoRow
        /\ Write(s, NewStacks[job[s].id], [at |-> h, qty |-> 1])
        /\ UNCHANGED exact
     \/ /\ r # NoRow /\ db[r] # NoRow
        /\ Write(s, r, [at |-> h, qty |-> seen[s][r].qty + 1])
        /\ RelyOn(s, db[r] = seen[s][r])

ReadStack(s) ==
  LET r == job[s].stack IN
  /\ Issues(s, "read-stack")
  /\ Read(s, r)
  /\ UNCHANGED <<exact, target>>

(* Mutant: the last one leaves an empty stack.                             *)
UnstackKeepingRow(s) ==
  LET r == job[s].stack IN
  /\ Issues(s, "unstack")
  /\ db[r] # NoRow
  /\ Write(s, r, [at |-> job[s].purse, qty |-> seen[s][r].qty - 1])
  /\ RelyOn(s, db[r] = seen[s][r])

Unstack(s) ==
  LET r == job[s].stack
      left == seen[s][r].qty - 1 IN
  /\ Issues(s, "unstack")
  /\ db[r] # NoRow
  /\ Write(s, r, IF left = 0 THEN NoRow ELSE [at |-> job[s].purse, qty |-> left])
  /\ RelyOn(s, db[r] = seen[s][r])

(* Mutant: the quantity that was read, less one, is written.               *)
DeliverOfRead(s) ==
  LET e == job[s].entry IN
  /\ Issues(s, "deliver")
  /\ \/ seen[s][e] = Unlimited /\ Skip(s)
     \/ /\ seen[s][e] # Unlimited /\ seen[s][e] >= 1
        /\ Write(s, e, seen[s][e] - 1)
        /\ UNCHANGED exact

\* updateMany where quantity >= 1: judged on the row as it is now.
Deliver(s) ==
  LET e == job[s].entry IN
  /\ Issues(s, "deliver")
  /\ \/ seen[s][e] = Unlimited /\ Skip(s)
     \/ /\ seen[s][e] # Unlimited
        /\ draft[e] # NoRow /\ draft[e] >= 1
        /\ Write(s, e, draft[e] - 1)
        /\ UNCHANGED exact

FindEntry(s) ==
  /\ Issues(s, "find-entry")
  /\ \/ \E e \in Listed : Read(s, e) /\ target' = [target EXCEPT ![s] = e]
     \/ /\ Listed = {} /\ target' = [target EXCEPT ![s] = NoRow]
        /\ UNCHANGED <<db, draft, lock, seen>>
  /\ UNCHANGED exact

\* One more on the entry that was found, or a new entry of the shop.
Restock(s) ==
  LET e == target[s] IN
  /\ Issues(s, "restock")
  /\ \/ e = NoRow /\ ShopExists /\ Write(s, NewEntries[job[s].id], 1) /\ UNCHANGED exact
     \/ e # NoRow /\ seen[s][e] = Unlimited /\ Skip(s)
     \/ /\ e # NoRow /\ seen[s][e] # Unlimited /\ db[e] # NoRow
        /\ Write(s, e, seen[s][e] + 1)
        /\ RelyOn(s, db[e] = seen[s][e])

-----------------------------------------------------------------------------
(* The end of a transaction.                                               *)

Release(s) ==
  /\ lock' = [r \in Rows |-> IF lock[r] = s THEN Free ELSE lock[r]]
  /\ job' = [job EXCEPT ![s] = Idle]
  /\ pc' = [pc EXCEPT ![s] = 0]
  /\ seen' = [seen EXCEPT ![s] = <<>>]
  /\ target' = [target EXCEPT ![s] = NoRow]
  /\ exact' = [exact EXCEPT ![s] = TRUE]
  /\ UNCHANGED <<taken, edits>>

\* What the log entries of an action say of a purse and of a stash.
CoinsOf(j, h) ==
  CASE j.kind = "currency-change" /\ h = j.purse   -> toCopper(j.delta)
    [] j.kind = "currency-transfer" /\ h = j.purse -> -toCopper(j.delta)
    [] j.kind = "currency-transfer" /\ h = j.to    -> toCopper(j.delta)
    [] j.kind = "split-evenly" /\ h = Pool         -> -Len(j.payees) * toCopper(j.delta)
    [] j.kind = "split-evenly" /\ (\E i \in 1..Len(j.payees) : j.payees[i] = h) -> toCopper(j.delta)
    [] j.kind = "purchase" /\ h = j.purse          -> -j.cost
    [] j.kind = "sale" /\ h = j.purse              -> j.cost
    [] OTHER                                       -> 0

GoodsOf(j, h) ==
  CASE h = j.purse /\ j.kind \in {"purchase", "acquire"} -> 1
    [] h = j.purse /\ j.kind \in {"sale", "consume"}     -> -1
    [] OTHER                                             -> 0

\* And of the stock: an entry without a count stays without one.
StockOf(s) ==
  CASE job[s].kind = "purchase" /\ seen[s][job[s].entry] # Unlimited -> -1
    [] job[s].kind = "sale" /\ (target[s] # NoRow => seen[s][target[s]] # Unlimited) -> 1
    [] OTHER -> 0

Commit(s) ==
  LET j == job[s] IN
  /\ Busy(s) /\ AtEnd(s)
  /\ db' = [r \in Rows |-> IF lock[r] = s THEN draft[r] ELSE db[r]]
  /\ coinsLogged' = [h \in Stashes |-> coinsLogged[h] + CoinsOf(j, h)]
  /\ goodsLogged' = [h \in Stashes |-> goodsLogged[h] + GoodsOf(j, h)]
  /\ stockLogged' = stockLogged + StockOf(s)
  /\ stale' = IF exact[s] THEN stale ELSE stale \union {j.kind}
  /\ Release(s)
  /\ UNCHANGED draft

(* Mutant: the statements before the failure stay.                         *)
AbortHalfway(s) ==
  /\ Busy(s)
  /\ db' = [r \in Rows |-> IF lock[r] = s THEN draft[r] ELSE db[r]]
  /\ Release(s)
  /\ UNCHANGED <<draft, logged, stale>>

\* A statement fails (a row is gone, a CHECK or the funds do not allow it, the
\* victim of a deadlock), the transaction times out or the server stops.
Abort(s) ==
  /\ Busy(s)
  /\ draft' = [r \in Rows |-> IF lock[r] = s THEN db[r] ELSE draft[r]]
  /\ Release(s)
  /\ UNCHANGED <<db, logged, stale>>

-----------------------------------------------------------------------------
(* Edits of the shop by the DM: one statement each.                        *)

Edit(r, row) ==
  /\ edits < MaxEdits
  /\ edits' = edits + 1
  /\ lock[r] = Free
  /\ db' = [db EXCEPT ![r] = row]
  /\ draft' = [draft EXCEPT ![r] = row]
  /\ UNCHANGED <<lock, request, coinsLogged, goodsLogged, stale, taken>>

\* update-party-economy and edit-shop.
EditPrices ==
  \E m \in Markups :
    /\ ShopExists /\ m # db[Economy].markup
    /\ Edit(Economy, [shop |-> TRUE, markup |-> m])
    /\ UNCHANGED stockLogged

\* edit-shop-stock: an entry is counted anew, removed, or listed again.
EditStock ==
  \E e \in Entries :
    /\ ShopExists
    /\ \/ /\ db[e] \notin {NoRow, Unlimited}
          /\ \E n \in {NoRow, 1} : n # db[e] /\ Edit(e, n)
                              /\ stockLogged' = stockLogged - db[e] + IF n = NoRow THEN 0 ELSE n
       \/ db[e] = NoRow /\ Edit(e, 1) /\ stockLogged' = stockLogged + 1

\* delete-shop: the entries go with the shop.
DeleteShop ==
  /\ ShopExists
  /\ edits < MaxEdits
  /\ edits' = edits + 1
  /\ \A e \in StockRows : lock[e] = Free
  /\ db' = [r \in Rows |-> CASE r = Economy -> [db[r] EXCEPT !.shop = FALSE]
                             [] r \in StockRows -> NoRow
                             [] OTHER -> db[r]]
  /\ draft' = [r \in Rows |-> IF r \in StockRows \union {Economy} THEN db'[r] ELSE draft[r]]
  /\ stockLogged' = 0
  /\ UNCHANGED <<lock, request, coinsLogged, goodsLogged, stale, taken>>

-----------------------------------------------------------------------------
Init ==
  /\ \E p \in [Stashes -> Purses], at \in [Stacks -> Stashes], q \in [Stacks -> 1..2],
        n \in [Entries -> {Unlimited, 1}], m \in Markups :
       db = [r \in Rows |->
               CASE r \in Stashes -> p[r]
                 [] r \in Stacks  -> [at |-> at[r], qty |-> q[r]]
                 [] r \in Entries -> n[r]
                 [] r = Economy   -> [shop |-> TRUE, markup |-> m]
                 [] OTHER         -> NoRow]
  /\ draft = db
  /\ lock = [r \in Rows |-> Free]
  /\ job = [s \in Slots |-> Idle]
  /\ pc = [s \in Slots |-> 0]
  /\ seen = [s \in Slots |-> <<>>]
  /\ target = [s \in Slots |-> NoRow]
  /\ exact = [s \in Slots |-> TRUE]
  /\ coinsLogged = [h \in Stashes |-> toCopper(db[h])]
  /\ goodsLogged = [h \in Stashes |-> GoodsAt(h)]
  /\ stockLogged = InStock
  /\ stale = {}
  /\ taken = 0
  /\ edits = 0

Begin(s) ==
  \/ AcceptChange(s) \/ AcceptTransfer(s) \/ AcceptSplit(s)
  \/ AcceptPurchase(s) \/ AcceptSale(s) \/ AcceptAcquire(s) \/ AcceptConsume(s)

Statement(s) ==
  \/ Increment(s) \/ Decrement(s)
  \/ ReadPool(s) \/ Keep(s) \/ Share(s)
  \/ ReadEconomy(s) \/ ReadOffer(s) \/ ReadPurse(s) \/ Pay(s) \/ Earn(s)
  \/ FindStack(s) \/ Stack(s) \/ ReadStack(s) \/ Unstack(s)
  \/ Deliver(s) \/ FindEntry(s) \/ Restock(s)

Next ==
  \/ \E s \in Slots : Begin(s) \/ Statement(s) \/ Commit(s) \/ Abort(s)
  \/ EditPrices \/ EditStock \/ DeleteShop

Spec == Init /\ [][Next]_vars

-----------------------------------------------------------------------------
(* Properties.                                                             *)

TypeOK ==
  /\ \A h \in Stashes : db[h] \in Coins /\ draft[h] \in Coins
  /\ \A r \in ItemRows : db[r] = NoRow \/ (db[r].at \in Stashes /\ db[r].qty \in Nat \ {0})
  /\ \A e \in StockRows : db[e] = NoRow \/ db[e] \in Nat \union {Unlimited}
  /\ lock \in [Rows -> Slots \union {Free}]
  /\ exact \in [Slots -> BOOLEAN]

Fresh(kinds) == stale \intersect kinds = {}

\* The purses hold what the log adds up to, whatever overlaps and whatever
\* fails, as long as no purchase, sale or split found the purse or the prices
\* changed under it: changes and transfers are increments and never lose one.
CoinsAsLogged ==
  Fresh({"purchase", "sale", "split-evenly"}) =>
    \A h \in Stashes : toCopper(db[h]) = coinsLogged[h]

\* The wares add up to what the log says, on both sides of the counter.  The
\* stacks of every stash: two buyers, or a buyer and a seller, of one stash
\* lose none, unless one of them wrote a stack that had changed since it was
\* read.  And the stock: nothing is sold twice, because buyers who overlap are
\* judged on the entry as it is when they take from it, and only a sale can
\* lose a count.
WaresAsLogged ==
  /\ Fresh({"purchase", "sale", "acquire", "consume"}) =>
       \A h \in Stashes : GoodsAt(h) = goodsLogged[h]
  /\ Fresh({"sale"}) => InStock = stockLogged
=============================================================================
