--------------------------- MODULE Market_proofs ---------------------------
(***************************************************************************)
(* Proofs about Market: coins and wares add up to the log, whatever        *)
(* overlaps and whatever fails.                                            *)
(*                                                                         *)
(* A request holds the locks of the rows it has written (Wrote), nobody    *)
(* else can change them until it ends, and what its drafts make of them is *)
(* what its log entries will say (Drafted), unless it relied on something  *)
(* that had changed.                                                       *)
(***************************************************************************)
EXTENDS Market, SumTheorems, SequenceTheorems

(***************************************************************************)
(* What a row of each table can be.                                        *)
(***************************************************************************)
StackRow == [at : Stashes, qty : Nat \ {0}]

Legal(r, v) ==
  /\ r \in Stashes => v \in Coins
  /\ r \in ItemRows => v \in StackRow \union {NoRow}
  /\ r \in StockRows => v \in Nat \union {Unlimited, NoRow}
  /\ r = Economy => v \in [shop : BOOLEAN, markup : Nat]

(***************************************************************************)
(* What a request can be, and how many statements it has.                  *)
(***************************************************************************)
Kinds == {"currency-change", "currency-transfer", "split-evenly",
          "purchase", "sale", "acquire", "consume"}

Jobs == [kind : Kinds, purse : Stashes, to : Stashes, delta : [Denoms -> Int],
         payees : Splits \union {<<>>}, stack : ItemRows \union {NoRow},
         entry : StockRows \union {NoRow}, cost : Nat, id : 1..MaxRequests]

JobShape(j) ==
  /\ j \in Jobs
  /\ j.kind = "currency-change" => j.to = j.purse
  /\ j.kind = "currency-transfer" => j.to # j.purse
  /\ j.kind = "split-evenly" => j.purse = Pool /\ j.payees \in Splits
  /\ j.kind = "purchase" <=> j.entry # NoRow
  /\ j.kind \in {"sale", "consume"} <=> j.stack # NoRow

Steps(j) ==
  CASE j.kind \in {"purchase", "sale"} -> 7
    [] j.kind \in {"currency-transfer", "acquire", "consume"} -> 2
    [] j.kind = "currency-change" -> 1
    [] j.kind = "split-evenly" -> 2 + Len(j.payees)

(***************************************************************************)
(* What a request has read: rows of their tables, among them those that its *)
(* statements use, and nothing that is not there.                          *)
(***************************************************************************)
Picks(s) == {job[s].stack, job[s].entry, target[s]} \ {NoRow}

Request(s) ==
  LET j == job[s] IN
  /\ JobShape(j) /\ pc[s] \in 1..(Steps(j) + 1)
  /\ \A r \in DOMAIN seen[s] : r \in Rows /\ Legal(r, seen[s][r])
  /\ {j.purse, Economy} \union Picks(s) \subseteq DOMAIN seen[s]
  /\ \A r \in Picks(s) : seen[s][r] # NoRow
  /\ target[s] # NoRow =>
       \/ j.kind = "purchase" /\ pc[s] > 5 /\ target[s] \in ItemRows
       \/ j.kind = "acquire" /\ pc[s] > 1 /\ target[s] \in ItemRows
       \/ j.kind = "sale" /\ pc[s] > 6 /\ target[s] \in StockRows
  /\ exact[s] =>
       /\ j.kind = "purchase" => UnitCost(seen[s][Economy]) = j.cost
       /\ j.kind = "sale" => UnitCredit(seen[s][Economy]) = j.cost
       /\ j.kind = "split-evenly" => splitEvenly(seen[s][Pool], Len(j.payees)).share = j.delta

(***************************************************************************)
(* The rows that a request has written, which are those it has locked.     *)
(***************************************************************************)
Paid(s, h) ==
  LET j == job[s] IN
  \/ j.kind = "currency-change" /\ pc[s] = 2 /\ h = j.purse
  \/ j.kind = "currency-transfer" /\ (\/ pc[s] >= 2 /\ h = j.purse
                                      \/ pc[s] = 3 /\ h = j.to)
  \/ j.kind = "split-evenly" /\ (\/ pc[s] >= 3 /\ h = Pool
                                 \/ \E i \in 1..Len(j.payees) : i < pc[s] - 2 /\ j.payees[i] = h)
  \/ j.kind \in {"purchase", "sale"} /\ pc[s] >= 5 /\ h = j.purse

Stacked(s, r) ==
  LET j == job[s] IN
  \/ /\ \/ j.kind = "purchase" /\ pc[s] >= 7
        \/ j.kind = "acquire" /\ pc[s] = 3
     /\ r = IF target[s] = NoRow THEN NewStacks[j.id] ELSE target[s]
  \/ /\ \/ j.kind = "sale" /\ pc[s] >= 6
        \/ j.kind = "consume" /\ pc[s] = 3
     /\ r = j.stack

Shelved(s, e) ==
  LET j == job[s] IN
  /\ pc[s] = 8
  /\ \/ j.kind = "purchase" /\ e = j.entry /\ seen[s][e] # Unlimited
     \/ j.kind = "sale" /\ target[s] = NoRow /\ e = NewEntries[j.id]
     \/ j.kind = "sale" /\ target[s] = e /\ seen[s][e] # Unlimited

Wrote(s, r) ==
  \/ r \in Stashes /\ Paid(s, r)
  \/ r \in ItemRows /\ Stacked(s, r)
  \/ r \in StockRows /\ Shelved(s, r)

(***************************************************************************)
(* The drafts of a request that found what it relied on are the committed  *)
(* rows with what its log entries say.                                     *)
(***************************************************************************)
QtyAt(v, h) == IF v # NoRow /\ v.at = h THEN v.qty ELSE 0
Count(v) == IF v \in {NoRow, Unlimited} THEN 0 ELSE v

Told(s, kinds) == job[s].kind \in kinds => exact[s]

CoinsDrafted(s) ==
  Told(s, {"purchase", "sale", "split-evenly"}) =>
    \A h \in Stashes : Paid(s, h) =>
      toCopper(draft[h]) = toCopper(db[h]) + CoinsOf(job[s], h)

GoodsDrafted(s) ==
  Told(s, {"purchase", "sale", "acquire", "consume"}) =>
    \A r \in ItemRows, h \in Stashes : Stacked(s, r) =>
      QtyAt(draft[r], h) = QtyAt(db[r], h) + GoodsOf(job[s], h)

StockDrafted(s) ==
  Told(s, {"sale"}) =>
    \A e \in StockRows : Shelved(s, e) => Count(draft[e]) = Count(db[e]) + StockOf(s)

Drafted(s) == CoinsDrafted(s) /\ GoodsDrafted(s) /\ StockDrafted(s)

(***************************************************************************)
(* The ids that are still to be used: of requests to come, and under way.  *)
(***************************************************************************)
Ahead(n) == n > taken \/ \E s \in Slots : Busy(s) /\ job[s].id = n
Unborn == UNION {{NewStacks[n], NewEntries[n]} : n \in {m \in 1..MaxRequests : Ahead(m)}}

\* A stack stays in its stash as long as it is there.
At(v, h) == v = NoRow \/ v.at = h

Homed(s) ==
  \A r \in Picks(s) :
    /\ r \notin Unborn
    /\ r \in ItemRows => At(db[r], job[s].purse) /\ At(draft[r], job[s].purse)

Types ==
  /\ DOMAIN db = Rows /\ DOMAIN draft = Rows /\ DOMAIN seen = Slots
  /\ \A r \in Rows : Legal(r, db[r]) /\ Legal(r, draft[r])
  /\ lock \in [Rows -> Slots \union {Free}]
  /\ job \in [Slots -> Jobs \union {Idle}] /\ pc \in [Slots -> Nat]
  /\ target \in [Slots -> ItemRows \union StockRows \union {NoRow}]
  /\ exact \in [Slots -> BOOLEAN]
  /\ coinsLogged \in [Stashes -> Int] /\ goodsLogged \in [Stashes -> Int]
  /\ stockLogged \in Int /\ taken \in 0..MaxRequests

Clean == \A r \in Rows : lock[r] = Free => draft[r] = db[r]

IdsOK ==
  /\ \A s \in Slots : Busy(s) => job[s].id <= taken
  /\ \A s, t \in Slots : s # t /\ Busy(s) /\ Busy(t) => job[s].id # job[t].id
  /\ \A r \in Unborn : db[r] = NoRow

Locked == \A s \in Slots : \A r \in Rows : lock[r] = s <=> Busy(s) /\ Wrote(s, r)

Requests == \A s \in Slots : Busy(s) => Request(s) /\ Homed(s) /\ Drafted(s)

(***************************************************************************)
(* The inductive invariant.                                                *)
(***************************************************************************)
MarketInv ==
  /\ Types /\ Clean /\ IdsOK /\ Locked /\ Requests
  /\ CoinsAsLogged /\ WaresAsLogged

-----------------------------------------------------------------------------
(* Coins and prices.                                                       *)

(***************************************************************************)
(* A purse has an amount of copper.                                        *)
(***************************************************************************)
LEMMA CopperOfPurse ==
  ASSUME NEW c \in [Denoms -> Int] PROVE toCopper(c) \in Int
BY DEF toCopper, Denoms

LEMMA CoinsAreInts == \A c \in Coins : c \in [Denoms -> Int] /\ toCopper(c) \in Nat
BY DEF Coins, Denoms, toCopper

(***************************************************************************)
(* Adding and subtracting coins adds and subtracts their copper.           *)
(***************************************************************************)
LEMMA CopperAdds ==
  ASSUME NEW a \in [Denoms -> Int], NEW b \in [Denoms -> Int]
  PROVE  /\ add(a, b) \in [Denoms -> Int] /\ subtract(a, b) \in [Denoms -> Int]
         /\ toCopper(add(a, b)) = toCopper(a) + toCopper(b)
         /\ toCopper(subtract(a, b)) = toCopper(a) - toCopper(b)
BY DEF add, subtract, toCopper, Denoms

LEMMA HoldingIsCoins ==
  ASSUME NEW c \in [Denoms -> Int], IsHolding(c) PROVE c \in Coins
BY DEF IsHolding, Coins

LEMMA AddCoins ==
  ASSUME NEW a \in Coins, NEW b \in Coins PROVE add(a, b) \in Coins
BY DEF add, Coins

LEMMA PurseIsCoins ==
  ASSUME NEW pp \in Nat, NEW gp \in Nat, NEW ep \in Nat, NEW sp \in Nat, NEW cp \in Nat
  PROVE  /\ Purse(pp, gp, ep, sp, cp) \in Coins
         /\ toCopper(Purse(pp, gp, ep, sp, cp)) = 1000 * pp + 100 * gp + 50 * ep + 10 * sp + cp
<1>1. /\ Purse(pp, gp, ep, sp, cp)["pp"] = pp /\ Purse(pp, gp, ep, sp, cp)["gp"] = gp
      /\ Purse(pp, gp, ep, sp, cp)["ep"] = ep /\ Purse(pp, gp, ep, sp, cp)["sp"] = sp
      /\ Purse(pp, gp, ep, sp, cp)["cp"] = cp
  BY DEF Purse, Denoms
<1>2. Purse(pp, gp, ep, sp, cp) \in Coins
  BY DEF Purse, Denoms, Coins
<1>3. QED
  BY <1>1, <1>2 DEF toCopper

(***************************************************************************)
(* Changing copper into the largest coins and back loses none.             *)
(***************************************************************************)
LEMMA CopperRoundTrip ==
  ASSUME NEW v \in Nat PROVE fromCopper(v) \in Coins /\ toCopper(fromCopper(v)) = v
<1> DEFINE pp == v \div 1000
           gp == (v % 1000) \div 100
           ep == (v % 100) \div 50
           sp == (v % 50) \div 10
           cp == v % 10
<1>1. pp \in Nat /\ gp \in Nat /\ ep \in Nat /\ sp \in Nat /\ cp \in Nat
  OBVIOUS
<1>2. 1000 * pp + 100 * gp + 50 * ep + 10 * sp + cp = v
  OBVIOUS
<1>3. fromCopper(v) = Purse(pp, gp, ep, sp, cp)
  BY DEF fromCopper
<1>4. QED
  <2> HIDE DEF pp, gp, ep, sp, cp
  <2>1. /\ Purse(pp, gp, ep, sp, cp) \in Coins
        /\ toCopper(Purse(pp, gp, ep, sp, cp)) = 1000 * pp + 100 * gp + 50 * ep + 10 * sp + cp
    BY <1>1, PurseIsCoins
  <2>2. QED BY <1>2, <1>3, <2>1

(***************************************************************************)
(* A division by a variable, for the provers: quotient and remainder.      *)
(***************************************************************************)
LEMMA Divides ==
  ASSUME NEW x \in Nat, NEW n \in Nat \ {0}
  PROVE  x \div n \in Nat /\ x % n \in Nat /\ x = n * (x \div n) + (x % n)
OBVIOUS

LEMMA Rests == \A x \in Nat, n \in Nat \ {0} : x \div n \in Nat /\ x % n \in Nat
BY Divides

(***************************************************************************)
(* What is left over of the large coins goes down as smaller ones.         *)
(***************************************************************************)
LEMMA CoinsGoDown ==
  ASSUME NEW p1 \in Nat, NEW p2 \in Nat, NEW p3 \in Nat, NEW p4 \in Nat, NEW p5 \in Nat,
         NEW b1 \in Nat, NEW b2 \in Nat, NEW b3 \in Nat, NEW b4 \in Nat, NEW b5 \in Nat,
         NEW c1 \in Nat, NEW c2 \in Nat, NEW c3 \in Nat, NEW c4 \in Nat, NEW c5 \in Nat,
         p1 = c1 + b1, p2 + 10 * b1 = c2 + b2, p3 + 2 * b2 = c3 + b3,
         p4 + 5 * b3 = c4 + b4, p5 + 10 * b4 = c5 + b5
  PROVE  1000 * p1 + 100 * p2 + 50 * p3 + 10 * p4 + p5
         = 1000 * c1 + 100 * c2 + 50 * c3 + 10 * c4 + c5 + b5
OBVIOUS

(***************************************************************************)
(* Splitting the pool evenly: the shares and what stays are the pool.      *)
(***************************************************************************)
LEMMA SplitConserves ==
  ASSUME NEW pool \in Coins, NEW n \in Nat \ {0}
  PROVE  /\ splitEvenly(pool, n).share \in Coins /\ splitEvenly(pool, n).remainder \in Coins
         /\ n * toCopper(splitEvenly(pool, n).share) + toCopper(splitEvenly(pool, n).remainder)
            = toCopper(pool)
<1> DEFINE pp == pool["pp"]
           gp == pool["gp"] + 10 * (pp % n)
           ep == pool["ep"] + 2 * (gp % n)
           sp == pool["sp"] + 5 * (ep % n)
           cp == pool["cp"] + 10 * (sp % n)
           share == Purse(pp \div n, gp \div n, ep \div n, sp \div n, cp \div n)
           remainder == Purse(0, 0, 0, 0, cp % n)
<1>0. splitEvenly(pool, n).share = share /\ splitEvenly(pool, n).remainder = remainder
  BY DEF splitEvenly
<1>1. /\ pool["pp"] \in Nat /\ pool["gp"] \in Nat /\ pool["ep"] \in Nat
      /\ pool["sp"] \in Nat /\ pool["cp"] \in Nat
      /\ toCopper(pool) = 1000 * pool["pp"] + 100 * pool["gp"] + 50 * pool["ep"]
                          + 10 * pool["sp"] + pool["cp"]
  BY DEF Coins, Denoms, toCopper
<1>2. /\ pp = pool["pp"] /\ gp = pool["gp"] + 10 * (pp % n) /\ ep = pool["ep"] + 2 * (gp % n)
      /\ sp = pool["sp"] + 5 * (ep % n) /\ cp = pool["cp"] + 10 * (sp % n)
      /\ share = Purse(pp \div n, gp \div n, ep \div n, sp \div n, cp \div n)
      /\ remainder = Purse(0, 0, 0, 0, cp % n)
  OBVIOUS
<1> HIDE DEF pp, gp, ep, sp, cp, share, remainder
<1>3. pp \in Nat BY <1>1, <1>2
<1>4. gp \in Nat
  <2>1. PICK m \in Nat : m = pp % n BY <1>3, Rests
  <2>2. gp = pool["gp"] + 10 * m BY <1>2, <2>1
  <2>3. QED BY <1>1, <2>2
<1>5. ep \in Nat
  <2>1. PICK m \in Nat : m = gp % n BY <1>4, Rests
  <2>2. ep = pool["ep"] + 2 * m BY <1>2, <2>1
  <2>3. QED BY <1>1, <2>2
<1>6. sp \in Nat
  <2>1. PICK m \in Nat : m = ep % n BY <1>5, Rests
  <2>2. sp = pool["sp"] + 5 * m BY <1>2, <2>1
  <2>3. QED BY <1>1, <2>2
<1>7. cp \in Nat
  <2>1. PICK m \in Nat : m = sp % n BY <1>6, Rests
  <2>2. cp = pool["cp"] + 10 * m BY <1>2, <2>1
  <2>3. QED BY <1>1, <2>2
<1>8. PICK a1 \in Nat, a2 \in Nat, a3 \in Nat, a4 \in Nat, a5 \in Nat,
           b1 \in Nat, b2 \in Nat, b3 \in Nat, b4 \in Nat, b5 \in Nat :
        /\ a1 = pp \div n /\ a2 = gp \div n /\ a3 = ep \div n /\ a4 = sp \div n /\ a5 = cp \div n
        /\ b1 = pp % n /\ b2 = gp % n /\ b3 = ep % n /\ b4 = sp % n /\ b5 = cp % n
  BY <1>3, <1>4, <1>5, <1>6, <1>7, Rests
<1>9. pp = n * a1 + b1 /\ gp = n * a2 + b2 /\ ep = n * a3 + b3 /\ sp = n * a4 + b4 /\ cp = n * a5 + b5
  BY <1>3, <1>4, <1>5, <1>6, <1>7, <1>8, Divides
<1>10. share \in Coins /\ toCopper(share) = 1000 * a1 + 100 * a2 + 50 * a3 + 10 * a4 + a5
  <2>1. share = Purse(a1, a2, a3, a4, a5)
    BY <1>2, <1>8
  <2>2. /\ Purse(a1, a2, a3, a4, a5) \in Coins
        /\ toCopper(Purse(a1, a2, a3, a4, a5)) = 1000 * a1 + 100 * a2 + 50 * a3 + 10 * a4 + a5
    BY PurseIsCoins
  <2>3. QED BY <2>1, <2>2
<1>11. remainder \in Coins /\ toCopper(remainder) = b5
  <2>1. remainder = Purse(0, 0, 0, 0, b5)
    BY <1>2, <1>8
  <2>2. toCopper(remainder) = 1000 * 0 + 100 * 0 + 50 * 0 + 10 * 0 + b5 /\ remainder \in Coins
    BY <2>1, PurseIsCoins
  <2>3. QED BY <2>2
<1>12. n * toCopper(share) + b5 = toCopper(pool)
  <2>1. n * toCopper(share) = 1000 * (n * a1) + 100 * (n * a2) + 50 * (n * a3) + 10 * (n * a4) + n * a5
    BY <1>10
  <2>2. \A x \in Nat : n * x \in Nat
    OBVIOUS
  <2>3. PICK c1 \in Nat, c2 \in Nat, c3 \in Nat, c4 \in Nat, c5 \in Nat :
          c1 = n * a1 /\ c2 = n * a2 /\ c3 = n * a3 /\ c4 = n * a4 /\ c5 = n * a5
    BY <2>2
  <2>4. PICK p1 \in Nat, p2 \in Nat, p3 \in Nat, p4 \in Nat, p5 \in Nat :
          p1 = pool["pp"] /\ p2 = pool["gp"] /\ p3 = pool["ep"] /\ p4 = pool["sp"] /\ p5 = pool["cp"]
    BY <1>1
  <2>5. /\ p1 = c1 + b1 /\ p2 + 10 * b1 = c2 + b2 /\ p3 + 2 * b2 = c3 + b3
        /\ p4 + 5 * b3 = c4 + b4 /\ p5 + 10 * b4 = c5 + b5
    <3>1. pp = c1 + b1 /\ gp = c2 + b2 /\ ep = c3 + b3 /\ sp = c4 + b4 /\ cp = c5 + b5
      BY <1>9, <2>3
    <3>2. pp = p1 /\ gp = p2 + 10 * b1 /\ ep = p3 + 2 * b2 /\ sp = p4 + 5 * b3 /\ cp = p5 + 10 * b4
      BY <1>2, <1>8, <2>4
    <3>3. QED BY <3>1, <3>2
  <2>6. toCopper(pool) = 1000 * c1 + 100 * c2 + 50 * c3 + 10 * c4 + c5 + b5
    <3>1. toCopper(pool) = 1000 * p1 + 100 * p2 + 50 * p3 + 10 * p4 + p5
      BY <1>1, <2>4
    <3>2. QED BY <2>5, <3>1, CoinsGoDown
  <2>7. n * toCopper(share) = 1000 * c1 + 100 * c2 + 50 * c3 + 10 * c4 + c5
    BY <2>1, <2>3
  <2>8. QED BY <2>6, <2>7
<1>13. QED BY <1>0, <1>10, <1>11, <1>12

(***************************************************************************)
(* A price is never negative.                                              *)
(***************************************************************************)
LEMMA PricesAreNat ==
  ASSUME NEW economy \in [shop : BOOLEAN, markup : Nat]
  PROVE  UnitCost(economy) \in Nat /\ UnitCredit(economy) \in Nat
<1>1. \A v, p \in Nat : Percent(v, p) \in Nat
  BY DEF Percent
<1>2. QED
  BY <1>1, MoneyAssumption DEF UnitCost, UnitCredit, buyPrice, sellPrice

-----------------------------------------------------------------------------
(* What a step of one request leaves alone of another.                     *)

(***************************************************************************)
(* The request of t is where it was.                                       *)
(***************************************************************************)
Same(t) == /\ job'[t] = job[t] /\ pc'[t] = pc[t] /\ seen'[t] = seen[t]
           /\ target'[t] = target[t] /\ exact'[t] = exact[t]

(***************************************************************************)
(* So are its locks, and the rows under them.                              *)
(***************************************************************************)
Kept(t) == \A r \in Rows : /\ lock'[r] = t <=> lock[r] = t
                           /\ lock[r] = t => db'[r] = db[r] /\ draft'[r] = draft[r]

(***************************************************************************)
(* No stack that somebody can know goes to another stash.                  *)
(***************************************************************************)
HomesKept == \A r \in ItemRows \ Unborn, h \in Stashes :
               At(db[r], h) /\ At(draft[r], h) => At(db'[r], h) /\ At(draft'[r], h)

LEMMA RowsAre ==
  /\ \A h \in Stashes : h \in Rows /\ h \notin ItemRows /\ h \notin StockRows /\ h # Economy
  /\ \A r \in ItemRows : r \in Rows /\ r \notin Stashes /\ r \notin StockRows /\ r # Economy
  /\ \A e \in StockRows : e \in Rows /\ e \notin Stashes /\ e \notin ItemRows /\ e # Economy
  /\ Economy \in Rows /\ Economy \notin Stashes /\ Economy \notin ItemRows /\ Economy \notin StockRows
  /\ NoRow \notin Rows /\ Pool \in Stashes /\ Stacks \subseteq ItemRows /\ Entries \subseteq StockRows
  /\ \A n \in 1..MaxRequests : NewStacks[n] \in ItemRows /\ NewEntries[n] \in StockRows
BY IdsAssumption, PoolAssumption DEF Rows, ItemRows, StockRows

LEMMA SameWrites ==
  ASSUME NEW t, Same(t), NEW r
  PROVE  /\ Paid(t, r)' <=> Paid(t, r)
         /\ Stacked(t, r)' <=> Stacked(t, r)
         /\ Shelved(t, r)' <=> Shelved(t, r)
         /\ Wrote(t, r)' <=> Wrote(t, r)
<1>1. Paid(t, r)' <=> Paid(t, r)
  BY DEF Same, Paid
<1>2. Stacked(t, r)' <=> Stacked(t, r)
  BY DEF Same, Stacked
<1>3. Shelved(t, r)' <=> Shelved(t, r)
  BY DEF Same, Shelved
<1>4. QED
  BY <1>1, <1>2, <1>3 DEF Wrote

LEMMA SameRequest ==
  ASSUME NEW t, Same(t), Request(t) PROVE Request(t)'
BY DEF Same, Request, Picks

LEMMA SameHomed ==
  ASSUME NEW t \in Slots, Same(t), Request(t), Homed(t), HomesKept, Unborn' \subseteq Unborn
  PROVE  Homed(t)'
<1>1. Picks(t)' = Picks(t) /\ job'[t] = job[t]
  BY DEF Same, Picks
<1>2. job[t].purse \in Stashes
  BY DEF Request, JobShape, Jobs
<1>3. QED
  BY <1>1, <1>2 DEF Homed, HomesKept

LEMMA SameDrafted ==
  ASSUME NEW t \in Slots, Same(t), Kept(t), Drafted(t),
         \A r \in Rows : Wrote(t, r) => lock[r] = t
  PROVE  Drafted(t)'
<1>1. /\ Told(t, {"purchase", "sale", "split-evenly"})' <=> Told(t, {"purchase", "sale", "split-evenly"})
      /\ Told(t, {"purchase", "sale", "acquire", "consume"})'
           <=> Told(t, {"purchase", "sale", "acquire", "consume"})
      /\ Told(t, {"sale"})' <=> Told(t, {"sale"})
      /\ job'[t] = job[t] /\ StockOf(t)' = StockOf(t)
  BY DEF Same, Told, StockOf
<1>2. \A h \in Stashes : Paid(t, h) => db'[h] = db[h] /\ draft'[h] = draft[h]
  BY RowsAre DEF Kept, Wrote
<1>3. \A r \in ItemRows : Stacked(t, r) => db'[r] = db[r] /\ draft'[r] = draft[r]
  BY RowsAre DEF Kept, Wrote
<1>4. \A e \in StockRows : Shelved(t, e) => db'[e] = db[e] /\ draft'[e] = draft[e]
  BY RowsAre DEF Kept, Wrote
<1>5. /\ \A h \in Stashes : Paid(t, h)' <=> Paid(t, h)
      /\ \A r \in ItemRows : Stacked(t, r)' <=> Stacked(t, r)
      /\ \A e \in StockRows : Shelved(t, e)' <=> Shelved(t, e)
  BY SameWrites
<1>6. Told(t, {"purchase", "sale", "split-evenly"})' =>
        \A h \in Stashes : Paid(t, h)' =>
          toCopper(draft'[h]) = toCopper(db'[h]) + CoinsOf(job'[t], h)
  BY <1>1, <1>2, <1>5 DEF Drafted, CoinsDrafted, GoodsDrafted, StockDrafted
<1>7. Told(t, {"purchase", "sale", "acquire", "consume"})' =>
        \A r \in ItemRows, h \in Stashes : Stacked(t, r)' =>
          QtyAt(draft'[r], h) = QtyAt(db'[r], h) + GoodsOf(job'[t], h)
  BY <1>1, <1>3, <1>5 DEF Drafted, CoinsDrafted, GoodsDrafted, StockDrafted
<1>8. Told(t, {"sale"})' =>
        \A e \in StockRows : Shelved(t, e)' => Count(draft'[e]) = Count(db'[e]) + StockOf(t)'
  BY <1>1, <1>4, <1>5 DEF Drafted, CoinsDrafted, GoodsDrafted, StockDrafted
<1>9. QED
  BY <1>6, <1>7, <1>8 DEF Drafted, CoinsDrafted, GoodsDrafted, StockDrafted

(***************************************************************************)
(* What a request that makes no step keeps of the invariant.               *)
(***************************************************************************)
LEMMA OthersKeep ==
  ASSUME MarketInv, NEW t \in Slots, Same(t), Kept(t), HomesKept, Unborn' \subseteq Unborn
  PROVE  /\ \A r \in Rows : lock'[r] = t <=> (Busy(t) /\ Wrote(t, r))'
         /\ Busy(t)' => (Request(t) /\ Homed(t) /\ Drafted(t))'
<1>1. Busy(t)' <=> Busy(t)
  BY DEF Busy, Same, Idle
<1>2. \A r \in Rows : lock[r] = t <=> Busy(t) /\ Wrote(t, r)
  BY DEF MarketInv, Locked
<1>3. \A r \in Rows : lock'[r] = t <=> (Busy(t) /\ Wrote(t, r))'
  BY <1>1, <1>2, SameWrites DEF Kept
<1>4. ASSUME Busy(t) PROVE (Request(t) /\ Homed(t) /\ Drafted(t))'
  <2>1. Request(t) /\ Homed(t) /\ Drafted(t)
    BY <1>4 DEF MarketInv, Requests
  <2>2. \A r \in Rows : Wrote(t, r) => lock[r] = t
    BY <1>2, <1>4
  <2>3. QED
    BY <2>1, <2>2, SameRequest, SameHomed, SameDrafted
<1>5. QED
  BY <1>1, <1>3, <1>4


-----------------------------------------------------------------------------
(* Which statement stands where.                                           *)

(***************************************************************************)
(* The script of each kind of action.                                      *)
(***************************************************************************)
LEMMA ScriptOfSplit ==
  ASSUME NEW j, JobShape(j), j.kind = "split-evenly"
  PROVE  /\ Len(j.payees) \in Nat \ {0}
         /\ \A i \in 1..Len(j.payees) : j.payees[i] \in Inventories
         /\ \A i, k \in 1..Len(j.payees) : j.payees[i] = j.payees[k] => i = k
         /\ Len(Script(j)) = 2 + Len(j.payees)
         /\ Script(j)[1] = "read-pool" /\ Script(j)[2] = "keep"
         /\ \A i \in 3..(2 + Len(j.payees)) : Script(j)[i] = "share"
<1> DEFINE n == Len(j.payees)
           first == <<"read-pool", "keep">>
           rest == [i \in 1..n |-> "share"]
<1>1. j.payees \in Seq(Inventories) /\ j.payees # <<>>
      /\ \A i, k \in 1..n : j.payees[i] = j.payees[k] => i = k
  BY SplitsAssumption DEF JobShape
<1>2. n \in Nat \ {0} /\ \A i \in 1..n : j.payees[i] \in Inventories
  BY <1>1
<1>3. Script(j) = first \o rest
  BY DEF Script
<1>4. rest \in Seq({"read-pool", "keep", "share"}) /\ Len(rest) = n /\ \A i \in 1..n : rest[i] = "share"
  <2> HIDE DEF n
  <2>1. rest \in [1..n -> {"read-pool", "keep", "share"}] /\ n \in Nat
    BY <1>2
  <2>2. QED BY <2>1, IsASeq, LenProperties
<1>5. /\ first \in Seq({"read-pool", "keep", "share"}) /\ Len(first) = 2
      /\ first[1] = "read-pool" /\ first[2] = "keep"
  OBVIOUS
<1> HIDE DEF n, first, rest
<1>6. /\ Len(first \o rest) = Len(first) + Len(rest)
      /\ \A i \in 1..(Len(first) + Len(rest)) :
           (first \o rest)[i] = IF i <= Len(first) THEN first[i] ELSE rest[i - Len(first)]
  BY <1>4, <1>5, ConcatProperties
<1>7. /\ Len(Script(j)) = 2 + n
      /\ \A i \in 1..(2 + n) : Script(j)[i] = IF i <= 2 THEN first[i] ELSE rest[i - 2]
  BY <1>3, <1>4, <1>5, <1>6
<1>8. /\ Script(j)[1] = "read-pool" /\ Script(j)[2] = "keep"
      /\ \A i \in 3..(2 + n) : Script(j)[i] = "share"
  <2>1. \A i \in 3..(2 + n) : i - 2 \in 1..n /\ i \in 1..(2 + n) /\ ~(i <= 2)
    BY <1>2
  <2>2. 1 \in 1..(2 + n) /\ 2 \in 1..(2 + n)
    BY <1>2
  <2>3. Script(j)[1] = first[1] /\ Script(j)[2] = first[2]
    BY <1>7, <2>2
  <2>4. \A i \in 3..(2 + n) : Script(j)[i] = rest[i - 2]
    BY <1>7, <2>1
  <2>5. QED BY <1>4, <1>5, <2>1, <2>3, <2>4
<1>9. QED
  BY <1>1, <1>2, <1>7, <1>8 DEF n

LEMMA StepsAre ==
  ASSUME NEW j, JobShape(j)
  PROVE  /\ j.kind = "currency-change" => Steps(j) = 1
         /\ j.kind \in {"currency-transfer", "acquire", "consume"} => Steps(j) = 2
         /\ j.kind = "split-evenly" => Steps(j) = 2 + Len(j.payees)
         /\ j.kind \in {"purchase", "sale"} => Steps(j) = 7
         /\ Steps(j) \in Nat
<1>1. /\ j.kind = "currency-change" => Steps(j) = 1
      /\ j.kind \in {"currency-transfer", "acquire", "consume"} => Steps(j) = 2
      /\ j.kind = "split-evenly" => Steps(j) = 2 + Len(j.payees)
      /\ j.kind \in {"purchase", "sale"} => Steps(j) = 7
  BY DEF Steps
<1>2. j.kind \in Kinds
  BY DEF JobShape, Jobs
<1>3. j.kind = "split-evenly" => Len(j.payees) \in Nat
  BY ScriptOfSplit
<1>4. QED BY <1>1, <1>2, <1>3 DEF Kinds

LEMMA ScriptLength ==
  ASSUME NEW j, JobShape(j) PROVE Len(Script(j)) = Steps(j)
<1>0. j.kind \in Kinds
  BY DEF JobShape, Jobs
<1>1. CASE j.kind = "currency-change"
  <2>1. Script(j) = <<"add">>
    BY <1>1 DEF Script
  <2>2. QED BY <1>1, <2>1, StepsAre
<1>2. CASE j.kind = "currency-transfer"
  <2>1. Script(j) = <<"subtract", "add">>
    BY <1>2 DEF Script
  <2>2. QED BY <1>2, <2>1, StepsAre
<1>3. CASE j.kind = "purchase"
  <2>1. Script(j) = <<"read-economy", "read-offer", "read-purse", "pay",
                     "find-stack", "stack", "deliver">>
    BY <1>3 DEF Script
  <2>2. QED BY <1>3, <2>1, StepsAre
<1>4. CASE j.kind = "sale"
  <2>1. Script(j) = <<"read-economy", "read-stack", "read-purse", "earn",
                     "unstack", "find-entry", "restock">>
    BY <1>4 DEF Script
  <2>2. QED BY <1>4, <2>1, StepsAre
<1>5. CASE j.kind = "acquire"
  <2>1. Script(j) = <<"find-stack", "stack">>
    BY <1>5 DEF Script
  <2>2. QED BY <1>5, <2>1, StepsAre
<1>6. CASE j.kind = "consume"
  <2>1. Script(j) = <<"read-stack", "unstack">>
    BY <1>6 DEF Script
  <2>2. QED BY <1>6, <2>1, StepsAre
<1>7. CASE j.kind = "split-evenly"
  BY <1>7, ScriptOfSplit, StepsAre
<1>8. QED
  BY <1>0, <1>1, <1>2, <1>3, <1>4, <1>5, <1>6, <1>7 DEF Kinds

(***************************************************************************)
(* Where a request stands when it issues a statement.                      *)
(***************************************************************************)
Stands(k, n, x) ==
  \/ x = "add" /\ ((k = "currency-change" /\ n = 1) \/ (k = "currency-transfer" /\ n = 2))
  \/ x = "subtract" /\ k = "currency-transfer" /\ n = 1
  \/ x = "read-pool" /\ k = "split-evenly" /\ n = 1
  \/ x = "keep" /\ k = "split-evenly" /\ n = 2
  \/ x = "share" /\ k = "split-evenly" /\ n >= 3
  \/ x = "read-economy" /\ k \in {"purchase", "sale"} /\ n = 1
  \/ x = "read-offer" /\ k = "purchase" /\ n = 2
  \/ x = "read-purse" /\ k \in {"purchase", "sale"} /\ n = 3
  \/ x = "pay" /\ k = "purchase" /\ n = 4
  \/ x = "find-stack" /\ ((k = "purchase" /\ n = 5) \/ (k = "acquire" /\ n = 1))
  \/ x = "stack" /\ ((k = "purchase" /\ n = 6) \/ (k = "acquire" /\ n = 2))
  \/ x = "deliver" /\ k = "purchase" /\ n = 7
  \/ x = "read-stack" /\ ((k = "sale" /\ n = 2) \/ (k = "consume" /\ n = 1))
  \/ x = "earn" /\ k = "sale" /\ n = 4
  \/ x = "unstack" /\ ((k = "sale" /\ n = 5) \/ (k = "consume" /\ n = 2))
  \/ x = "find-entry" /\ k = "sale" /\ n = 6
  \/ x = "restock" /\ k = "sale" /\ n = 7

LEMMA StatementsStand ==
  ASSUME NEW j, JobShape(j), NEW n \in 1..Steps(j), NEW x, Script(j)[n] = x
  PROVE  Stands(j.kind, n, x)
<1>0. j.kind \in Kinds
  BY DEF JobShape, Jobs
<1>1. CASE j.kind = "currency-change"
  <2>1. Script(j) = <<"add">>
    BY <1>1 DEF Script
  <2>2. Steps(j) = 1
    BY <1>1, StepsAre
  <2>3. n \in {1}
    BY <2>2
  <2>4. QED BY <1>1, <2>1, <2>3 DEF Stands
<1>2. CASE j.kind = "currency-transfer"
  <2>1. Script(j) = <<"subtract", "add">>
    BY <1>2 DEF Script
  <2>2. Steps(j) = 2
    BY <1>2, StepsAre
  <2>3. n \in {1, 2}
    BY <2>2
  <2>4. \/ n = 1 /\ x = "subtract"
        \/ n = 2 /\ x = "add"
    BY <2>1, <2>3
  <2>5. QED BY <1>2, <2>4 DEF Stands
<1>3. CASE j.kind = "purchase"
  <2>1. Script(j) = <<"read-economy", "read-offer", "read-purse", "pay",
                     "find-stack", "stack", "deliver">>
    BY <1>3 DEF Script
  <2>2. Steps(j) = 7
    BY <1>3, StepsAre
  <2>3. n \in {1, 2, 3, 4, 5, 6, 7}
    BY <2>2
  <2>4. \/ n = 1 /\ x = "read-economy"
        \/ n = 2 /\ x = "read-offer"
        \/ n = 3 /\ x = "read-purse"
        \/ n = 4 /\ x = "pay"
        \/ n = 5 /\ x = "find-stack"
        \/ n = 6 /\ x = "stack"
        \/ n = 7 /\ x = "deliver"
    BY <2>1, <2>3
  <2>5. QED BY <1>3, <2>4 DEF Stands
<1>4. CASE j.kind = "sale"
  <2>1. Script(j) = <<"read-economy", "read-stack", "read-purse", "earn",
                     "unstack", "find-entry", "restock">>
    BY <1>4 DEF Script
  <2>2. Steps(j) = 7
    BY <1>4, StepsAre
  <2>3. n \in {1, 2, 3, 4, 5, 6, 7}
    BY <2>2
  <2>4. \/ n = 1 /\ x = "read-economy"
        \/ n = 2 /\ x = "read-stack"
        \/ n = 3 /\ x = "read-purse"
        \/ n = 4 /\ x = "earn"
        \/ n = 5 /\ x = "unstack"
        \/ n = 6 /\ x = "find-entry"
        \/ n = 7 /\ x = "restock"
    BY <2>1, <2>3
  <2>5. QED BY <1>4, <2>4 DEF Stands
<1>5. CASE j.kind = "acquire"
  <2>1. Script(j) = <<"find-stack", "stack">>
    BY <1>5 DEF Script
  <2>2. Steps(j) = 2
    BY <1>5, StepsAre
  <2>3. n \in {1, 2}
    BY <2>2
  <2>4. \/ n = 1 /\ x = "find-stack"
        \/ n = 2 /\ x = "stack"
    BY <2>1, <2>3
  <2>5. QED BY <1>5, <2>4 DEF Stands
<1>6. CASE j.kind = "consume"
  <2>1. Script(j) = <<"read-stack", "unstack">>
    BY <1>6 DEF Script
  <2>2. Steps(j) = 2
    BY <1>6, StepsAre
  <2>3. n \in {1, 2}
    BY <2>2
  <2>4. \/ n = 1 /\ x = "read-stack"
        \/ n = 2 /\ x = "unstack"
    BY <2>1, <2>3
  <2>5. QED BY <1>6, <2>4 DEF Stands
<1>7. CASE j.kind = "split-evenly"
  <2>1. Steps(j) = 2 + Len(j.payees) /\ Len(j.payees) \in Nat
    BY <1>7, StepsAre, ScriptOfSplit
  <2>2. n = 1 \/ n = 2 \/ (n \in 3..(2 + Len(j.payees)) /\ n >= 3)
    BY <2>1
  <2>3. \/ x = "read-pool" /\ n = 1
        \/ x = "keep" /\ n = 2
        \/ x = "share" /\ n >= 3
    BY <1>7, <2>2, ScriptOfSplit
  <2>4. QED BY <1>7, <2>3 DEF Stands
<1>8. QED
  BY <1>0, <1>1, <1>2, <1>3, <1>4, <1>5, <1>6, <1>7 DEF Kinds

LEMMA IssuedWhere ==
  ASSUME MarketInv, NEW s \in Slots, NEW x, Issues(s, x)
  PROVE  /\ Busy(s) /\ Request(s) /\ Homed(s) /\ Drafted(s) /\ JobShape(job[s])
         /\ pc[s] \in 1..Steps(job[s]) /\ pc'[s] = pc[s] + 1 /\ Steps(job[s]) \in Nat
         /\ Stands(job[s].kind, pc[s], x)
         /\ UNCHANGED <<job, logged, stale, taken, edits>>
         /\ pc' \in [Slots -> Nat] /\ \A t \in Slots \ {s} : pc'[t] = pc[t]
<1>1. Busy(s) /\ ~AtEnd(s) /\ Script(job[s])[pc[s]] = x /\ pc' = [pc EXCEPT ![s] = pc[s] + 1]
      /\ UNCHANGED <<job, logged, stale, taken, edits>>
  BY DEF Issues
<1>2. Request(s) /\ Homed(s) /\ Drafted(s) /\ JobShape(job[s])
  BY <1>1 DEF MarketInv, Requests, Request
<1>3. Len(Script(job[s])) = Steps(job[s]) /\ Steps(job[s]) \in Nat
  BY <1>2, ScriptLength, StepsAre
<1>4. pc[s] \in 1..(Steps(job[s]) + 1) /\ pc[s] # Steps(job[s]) + 1
  BY <1>1, <1>2, <1>3 DEF Request, AtEnd
<1>5. pc[s] \in 1..Steps(job[s])
  BY <1>3, <1>4
<1>6. pc \in [Slots -> Nat]
  BY DEF MarketInv, Types
<1>7. pc' \in [Slots -> Nat] /\ pc'[s] = pc[s] + 1 /\ \A t \in Slots \ {s} : pc'[t] = pc[t]
  BY <1>1, <1>6
<1>8. Stands(job[s].kind, pc[s], x)
  BY <1>1, <1>2, <1>5, StatementsStand
<1>9. QED
  BY <1>1, <1>2, <1>3, <1>5, <1>7, <1>8


-----------------------------------------------------------------------------
(* The sums over the stacks of a stash and over the stock are sums over all *)
(* rows of their tables, where the other rows count nothing.               *)

Qtys(f, h) == [r \in ItemRows |-> QtyAt(f[r], h)]
Counts(f) == [e \in StockRows |-> Count(f[e])]

RowsOK == \A r \in Rows : Legal(r, db[r])

LEMMA TablesAreFinite == IsFiniteSet(ItemRows) /\ IsFiniteSet(StockRows)
<1> DEFINE I == 1..MaxRequests
           NS == {NewStacks[n] : n \in I}
           NE == {NewEntries[n] : n \in I}
<1>1. IsFiniteSet(I)
  BY BoundAssumption, FS_Interval
<1>2. IsFiniteSet(NS)
  <2>1. [n \in I |-> NewStacks[n]] \in Surjection(I, NS)
    BY DEF Surjection
  <2> HIDE DEF I, NS
  <2>2. QED BY <1>1, <2>1, FS_Surjection
<1>3. IsFiniteSet(NE)
  <2>1. [n \in I |-> NewEntries[n]] \in Surjection(I, NE)
    BY DEF Surjection
  <2> HIDE DEF I, NE
  <2>2. QED BY <1>1, <2>1, FS_Surjection
<1>4. ItemRows = Stacks \union NS /\ StockRows = Entries \union NE
  BY DEF ItemRows, StockRows
<1> HIDE DEF NS, NE
<1>5. QED
  BY <1>2, <1>3, <1>4, TablesAssumption, FS_Union

LEMMA QtyInt ==
  ASSUME NEW r \in ItemRows, NEW v, Legal(r, v), NEW h PROVE QtyAt(v, h) \in Int
BY DEF Legal, QtyAt, StackRow

LEMMA CountInt ==
  ASSUME NEW e \in StockRows, NEW v, Legal(e, v) PROVE Count(v) \in Int
BY DEF Legal, Count, Unlimited

LEMMA GoodsFold ==
  ASSUME NEW h, IsFiniteSet(StacksAt(h))
  PROVE  GoodsAt(h) = Total([r \in StacksAt(h) |-> db[r].qty], StacksAt(h))
<1> DEFINE S == StacksAt(h)
           q == [r \in S |-> db[r].qty]
           sum[T \in SUBSET S] == IF T = {} THEN 0 ELSE
             LET x == CHOOSE x \in T : TRUE IN db[x].qty + sum[T \ {x}]
<1>1. GoodsAt(h) = sum[S]
  BY DEF GoodsAt, MapThenSumSet, MapThenFoldSet
<1>2. PICK g : IsSum(g, q, S)
  BY SumExists
<1>3. \A T \in SUBSET S : T # {} => q[Pick(T)] = db[Pick(T)].qty
  BY PickIn
<1> HIDE DEF q
<1>4. g = [T \in SUBSET S |-> IF T = {} THEN 0 ELSE
             db[Pick(T)].qty + g[T \ {Pick(T)}]]
  BY <1>2, <1>3 DEF IsSum
<1>5. sum = [T \in SUBSET S |-> IF T = {} THEN 0 ELSE
               LET x == CHOOSE x \in T : TRUE IN db[x].qty + sum[T \ {x}]]
  <2>1. g = [T \in SUBSET S |-> IF T = {} THEN 0 ELSE
               LET x == CHOOSE x \in T : TRUE IN db[x].qty + g[T \ {x}]]
    BY <1>4 DEF Pick
  <2> QED
    BY <2>1
<1> HIDE DEF sum
<1>6. sum = [T \in SUBSET S |-> IF T = {} THEN 0 ELSE
               db[Pick(T)].qty + sum[T \ {Pick(T)}]]
  BY <1>5 DEF Pick
<1>7. IsSum(sum, q, S)
  BY <1>3, <1>6 DEF IsSum
<1>8. Total(q, S) = sum[S]
  BY <1>7, TotalIsSum
<1> QED
  BY <1>1, <1>8 DEF q

Counted ==
  RowsOK => /\ \A h \in Stashes : GoodsAt(h) = Total(Qtys(db, h), ItemRows)
            /\ InStock = Total(Counts(db), StockRows)

LEMMA AreCounted == Counted
<1> SUFFICES ASSUME RowsOK
             PROVE  /\ \A h \in Stashes : GoodsAt(h) = Total(Qtys(db, h), ItemRows)
                    /\ InStock = Total(Counts(db), StockRows)
  BY DEF Counted
<1>1. \A r \in ItemRows : Legal(r, db[r])
  BY RowsAre DEF RowsOK
<1>2. \A e \in StockRows : Legal(e, db[e])
  BY RowsAre DEF RowsOK
<1>3. ASSUME NEW h \in Stashes PROVE GoodsAt(h) = Total(Qtys(db, h), ItemRows)
  <2> DEFINE U == StacksAt(h)
             q == [r \in U |-> db[r].qty]
             f == Qtys(db, h)
  <2>1. U \in SUBSET ItemRows /\ IsFiniteSet(U)
    BY TablesAreFinite, FS_Subset DEF StacksAt
  <2>2. (\A r \in ItemRows : f[r] \in Int) /\ \A r \in ItemRows \ U : f[r] = 0
    BY <1>1, QtyInt DEF Qtys, StacksAt, QtyAt
  <2>3. \A r \in U : q[r] = f[r]
    BY DEF Qtys, StacksAt, QtyAt
  <2>4. GoodsAt(h) = Total(q, U)
    BY <2>1, GoodsFold
  <2> HIDE DEF U, q, f
  <2>5. Total(q, U) = Total(f, U)
    BY <2>1, <2>3, TotalAgrees
  <2>6. Total(f, ItemRows) = Total(f, U)
    BY <2>1, <2>2, TablesAreFinite, TotalSupport
  <2>7. QED BY <2>4, <2>5, <2>6 DEF f
<1>4. InStock = Total(Counts(db), StockRows)
  <2> DEFINE U == Finite
             f == Counts(db)
  <2>1. U \in SUBSET StockRows /\ IsFiniteSet(U)
    BY TablesAreFinite, FS_Subset DEF Finite, Listed
  <2>2. (\A e \in StockRows : f[e] \in Int) /\ \A e \in StockRows \ U : f[e] = 0
    BY <1>2, CountInt DEF Counts, Count, Finite, Listed
  <2>3. \A e \in U : db[e] = f[e]
    BY DEF Counts, Count, Finite, Listed
  <2>4. InStock = Total(db, U)
    BY DEF InStock, Total
  <2> HIDE DEF U, f
  <2>5. Total(db, U) = Total(f, U)
    BY <2>1, <2>3, TotalAgrees
  <2>6. Total(f, StockRows) = Total(f, U)
    BY <2>1, <2>2, TablesAreFinite, TotalSupport
  <2>7. QED BY <2>4, <2>5, <2>6 DEF f
<1>5. QED BY <1>3, <1>4

LEMMA AreCountedNext == Counted'
BY AreCounted, PTL

(***************************************************************************)
(* As long as the committed rows stay, so do the sums, and the log.        *)
(***************************************************************************)
LEMMA LogStays ==
  ASSUME MarketInv, db' = db, UNCHANGED <<logged, stale>>
  PROVE  CoinsAsLogged' /\ WaresAsLogged'
<1>1. RowsOK /\ RowsOK'
  BY DEF MarketInv, Types, RowsOK
<1>2. (\A h \in Stashes : GoodsAt(h)' = GoodsAt(h)) /\ InStock' = InStock
  BY <1>1, AreCounted, AreCountedNext DEF Counted
<1>3. CoinsAsLogged'
  BY DEF MarketInv, CoinsAsLogged, Fresh, logged
<1>4. WaresAsLogged'
  BY <1>2 DEF MarketInv, WaresAsLogged, Fresh, logged
<1>5. QED BY <1>3, <1>4

-----------------------------------------------------------------------------
(* Statements: what one has to show of a read and of a write.              *)

(***************************************************************************)
(* It is the turn of s, and nobody else's.                                 *)
(***************************************************************************)
Turn(s) ==
  /\ UNCHANGED <<job, logged, stale, taken, edits>>
  /\ pc' \in [Slots -> Nat]
  /\ target' \in [Slots -> ItemRows \union StockRows \union {NoRow}]
  /\ exact' \in [Slots -> BOOLEAN]
  /\ DOMAIN seen' = Slots
  /\ \A t \in Slots \ {s} : Same(t)

(***************************************************************************)
(* The same rows are drafts of s as before, and it relies on no less.      *)
(***************************************************************************)
WritesAsBefore(s) ==
  /\ exact'[s] => exact[s]
  /\ \A r \in Rows : /\ Paid(s, r)' <=> Paid(s, r)
                     /\ Stacked(s, r)' <=> Stacked(s, r)
                     /\ Shelved(s, r)' <=> Shelved(s, r)
                     /\ Shelved(s, r)' => StockOf(s)' = StockOf(s)

LEMMA UnbornSame ==
  ASSUME job' = job, taken' = taken
  PROVE  Unborn' = Unborn /\ \A s : Busy(s)' <=> Busy(s)
BY DEF Unborn, Ahead, Busy, Idle

LEMMA ReadKeeps ==
  ASSUME MarketInv, NEW s \in Slots, Busy(s), Turn(s), UNCHANGED <<db, draft, lock>>,
         Request(s)', Homed(s)', WritesAsBefore(s)
  PROVE  MarketInv'
<1>1. Unborn' = Unborn /\ \A t : Busy(t)' <=> Busy(t)
  BY UnbornSame DEF Turn
<1>2. /\ \A t \in Slots \ {s} : Same(t) /\ Kept(t)
      /\ HomesKept
  BY DEF Turn, Kept, HomesKept
<1>3. \A t \in Slots \ {s} :
         /\ \A r \in Rows : lock'[r] = t <=> (Busy(t) /\ Wrote(t, r))'
         /\ Busy(t)' => (Request(t) /\ Homed(t) /\ Drafted(t))'
  BY <1>1, <1>2, OthersKeep
<1>4. \A r \in Rows : Wrote(s, r)' <=> Wrote(s, r)
  BY DEF WritesAsBefore, Wrote
<1>5. \A r \in Rows : lock'[r] = s <=> (Busy(s) /\ Wrote(s, r))'
  BY <1>1, <1>4 DEF MarketInv, Locked
<1>6. Drafted(s)'
  <2>1. Drafted(s) /\ job'[s] = job[s]
    BY DEF MarketInv, Requests, Turn
  <2>2. exact'[s] => exact[s]
    BY DEF WritesAsBefore
  <2>3. \A h \in Stashes : Paid(s, h)' => Paid(s, h)
    BY RowsAre DEF WritesAsBefore
  <2>4. \A r \in ItemRows : Stacked(s, r)' => Stacked(s, r)
    BY RowsAre DEF WritesAsBefore
  <2>5. \A e \in StockRows : Shelved(s, e)' => Shelved(s, e) /\ StockOf(s)' = StockOf(s)
    BY RowsAre DEF WritesAsBefore
  <2>6. QED
    BY <2>1, <2>2, <2>3, <2>4, <2>5 DEF Drafted, CoinsDrafted, GoodsDrafted, StockDrafted, Told
<1>7. Locked' /\ Requests'
  BY <1>3, <1>5, <1>6 DEF Locked, Requests
<1>8. Types' /\ Clean'
  BY DEF MarketInv, Types, Clean, Turn, logged
<1>9. IdsOK'
  BY <1>1 DEF MarketInv, IdsOK, Turn
<1>10. CoinsAsLogged' /\ WaresAsLogged'
  BY LogStays DEF Turn
<1>11. QED
  BY <1>7, <1>8, <1>9, <1>10 DEF MarketInv

(***************************************************************************)
(* A write of the row w.                                                   *)
(***************************************************************************)
Writes(s, w, v) ==
  /\ w \in Rows /\ lock[w] \in {Free, s} /\ Legal(w, v) /\ db' = db
  /\ lock' = [lock EXCEPT ![w] = s] /\ draft' = [draft EXCEPT ![w] = v]
  /\ w \in ItemRows \ Unborn => \A h \in Stashes : At(db[w], h) /\ At(draft[w], h) => At(v, h)

LEMMA WriteKeeps ==
  ASSUME MarketInv, NEW s \in Slots, Busy(s), Turn(s), NEW w, NEW v, Writes(s, w, v),
         Request(s)', Homed(s)', Drafted(s)',
         \A r \in Rows : Wrote(s, r)' <=> Wrote(s, r) \/ r = w
  PROVE  MarketInv'
<1>0. /\ lock \in [Rows -> Slots \union {Free}] /\ DOMAIN draft = Rows
      /\ w \in Rows /\ s # Free
  BY LockAssumption DEF MarketInv, Types, Writes
<1>1. Unborn' = Unborn /\ \A t : Busy(t)' <=> Busy(t)
  BY UnbornSame DEF Turn
<1>2. /\ \A r \in Rows : lock'[r] = (IF r = w THEN s ELSE lock[r])
      /\ \A r \in Rows : draft'[r] = (IF r = w THEN v ELSE draft[r])
      /\ db' = db /\ lock[w] \in {Free, s}
      /\ lock' \in [Rows -> Slots \union {Free}] /\ DOMAIN draft' = Rows
  BY <1>0 DEF Writes
<1>3. /\ \A t \in Slots \ {s} : Same(t) /\ Kept(t)
      /\ HomesKept
  <2>1. \A t \in Slots \ {s} : Same(t) /\ Kept(t)
    BY <1>0, <1>2, LockAssumption DEF Turn, Kept
  <2>2. HomesKept
    BY <1>2, RowsAre DEF HomesKept, Writes
  <2>3. QED BY <2>1, <2>2
<1>4. \A t \in Slots \ {s} :
         /\ \A r \in Rows : lock'[r] = t <=> (Busy(t) /\ Wrote(t, r))'
         /\ Busy(t)' => (Request(t) /\ Homed(t) /\ Drafted(t))'
  BY <1>1, <1>3, OthersKeep
<1>5. \A r \in Rows : lock'[r] = s <=> (Busy(s) /\ Wrote(s, r))'
  BY <1>1, <1>2 DEF MarketInv, Locked
<1>6. Locked' /\ Requests'
  BY <1>4, <1>5 DEF Locked, Requests
<1>7. Types' /\ Clean'
  <2>1. \A r \in Rows : Legal(r, db'[r]) /\ Legal(r, draft'[r])
    BY <1>2 DEF MarketInv, Types, Writes
  <2>2. Types'
    BY <1>2, <2>1 DEF MarketInv, Types, Turn, logged
  <2>3. Clean'
    BY <1>0, <1>2 DEF MarketInv, Clean
  <2>4. QED BY <2>2, <2>3
<1>8. IdsOK'
  BY <1>1, <1>2 DEF MarketInv, IdsOK, Turn
<1>9. CoinsAsLogged' /\ WaresAsLogged'
  BY <1>2, LogStays DEF Turn
<1>10. QED
  BY <1>6, <1>7, <1>8, <1>9 DEF MarketInv


-----------------------------------------------------------------------------
(* The reads.                                                              *)

(***************************************************************************)
(* What a read leaves behind.                                              *)
(***************************************************************************)
LEMMA WhatIsRead ==
  ASSUME MarketInv, NEW s \in Slots, NEW r \in Rows, Read(s, r)
  PROVE  /\ db[r] # NoRow /\ Legal(r, db[r]) /\ UNCHANGED <<db, draft, lock>>
         /\ DOMAIN seen' = Slots /\ \A t \in Slots \ {s} : seen'[t] = seen[t]
         /\ DOMAIN seen'[s] = DOMAIN seen[s] \union {r}
         /\ seen'[s][r] = db[r]
         /\ \A x \in DOMAIN seen[s] : x # r => seen'[s][x] = seen[s][x]
<1>1. DOMAIN seen = Slots /\ Legal(r, db[r])
  BY DEF MarketInv, Types
<1>2. /\ db[r] # NoRow /\ UNCHANGED <<db, draft, lock>>
      /\ seen' = [seen EXCEPT ![s] = [x \in DOMAIN seen[s] \union {r} |->
                                        IF x = r THEN db[r] ELSE seen[s][x]]]
  BY DEF Read
<1>3. seen'[s] = [x \in DOMAIN seen[s] \union {r} |-> IF x = r THEN db[r] ELSE seen[s][x]]
  BY <1>1, <1>2
<1>4. QED
  BY <1>1, <1>2, <1>3

Reading == {"read-pool", "read-economy", "read-offer", "read-purse", "read-stack",
            "find-stack", "find-entry"}

(***************************************************************************)
(* A read is no write.                                                     *)
(***************************************************************************)
LEMMA ReadsWriteNothing ==
  ASSUME MarketInv, NEW s \in Slots, NEW x \in Reading, Issues(s, x), exact'[s] => exact[s]
  PROVE  WritesAsBefore(s)
<1>1. /\ Stands(job[s].kind, pc[s], x) /\ pc'[s] = pc[s] + 1 /\ job'[s] = job[s]
      /\ pc[s] \in Nat /\ JobShape(job[s])
  BY IssuedWhere
<1>2. job[s].kind = "split-evenly" =>
        pc[s] = 1 /\ pc'[s] = 2 /\ \A i \in 1..Len(job[s].payees) : ~(i < 0) /\ ~(i < -1)
  BY <1>1, ScriptOfSplit DEF Stands, Reading
<1>3. \A r \in Rows : Paid(s, r)' <=> Paid(s, r)
  BY <1>1, <1>2 DEF Stands, Reading, Paid
<1>4. \A r \in Rows : Stacked(s, r)' <=> Stacked(s, r)
  BY <1>1 DEF Stands, Reading, Stacked
<1>5. \A r \in Rows : ~Shelved(s, r)' /\ ~Shelved(s, r)
  BY <1>1 DEF Stands, Reading, Shelved
<1>6. QED
  BY <1>3, <1>4, <1>5 DEF WritesAsBefore

(***************************************************************************)
(* What it picked stays in its stash.                                      *)
(***************************************************************************)
LEMMA HomedStays ==
  ASSUME NEW t \in Slots, job'[t] = job[t], Picks(t)' \subseteq Picks(t), Request(t), Homed(t),
         HomesKept, Unborn' \subseteq Unborn
  PROVE  Homed(t)'
<1>1. job[t].purse \in Stashes
  BY DEF Request, JobShape, Jobs
<1>2. QED
  BY <1>1 DEF Homed, HomesKept

(***************************************************************************)
(* A read that picks nothing, of a row that the request may rely on.       *)
(***************************************************************************)
LEMMA PlainRead ==
  ASSUME MarketInv, NEW s \in Slots, NEW x \in Reading, Issues(s, x),
         NEW r \in Rows, Read(s, r), target' = target, exact' \in [Slots -> BOOLEAN],
         \A t \in Slots \ {s} : exact'[t] = exact[t],
         exact'[s] => exact[s], x \notin {"find-stack", "find-entry"},
         exact'[s] /\ r = Economy => db[r] = seen[s][r],
         exact'[s] /\ r = Pool /\ job[s].kind = "split-evenly" => db[r] = seen[s][r]
  PROVE  MarketInv'
<1>1. /\ Busy(s) /\ Request(s) /\ Homed(s) /\ JobShape(job[s])
      /\ pc[s] \in 1..Steps(job[s]) /\ pc'[s] = pc[s] + 1 /\ Steps(job[s]) \in Nat
      /\ Stands(job[s].kind, pc[s], x)
      /\ UNCHANGED <<job, logged, stale, taken, edits>>
      /\ pc' \in [Slots -> Nat] /\ \A t \in Slots \ {s} : pc'[t] = pc[t]
  BY IssuedWhere
<1>2. /\ db[r] # NoRow /\ Legal(r, db[r]) /\ UNCHANGED <<db, draft, lock>>
      /\ DOMAIN seen' = Slots /\ \A t \in Slots \ {s} : seen'[t] = seen[t]
      /\ DOMAIN seen'[s] = DOMAIN seen[s] \union {r}
      /\ seen'[s][r] = db[r]
      /\ \A y \in DOMAIN seen[s] : y # r => seen'[s][y] = seen[s][y]
  BY WhatIsRead
<1>3. Turn(s)
  BY <1>1, <1>2 DEF Turn, Same, MarketInv, Types
<1>4. Picks(s)' = Picks(s) /\ job'[s] = job[s] /\ target'[s] = target[s]
  BY <1>1 DEF Picks
<1>5. Request(s)'
  <2>1. pc'[s] \in 1..(Steps(job'[s]) + 1)
    BY <1>1
  <2>2. \A y \in DOMAIN seen'[s] : y \in Rows /\ Legal(y, seen'[s][y])
    BY <1>1, <1>2 DEF Request
  <2>3. /\ {job'[s].purse, Economy} \union Picks(s)' \subseteq DOMAIN seen'[s]
        /\ \A y \in Picks(s)' : seen'[s][y] # NoRow
    BY <1>1, <1>2, <1>4 DEF Request
  <2>4. target'[s] # NoRow =>
          \/ job'[s].kind = "purchase" /\ pc'[s] > 5 /\ target'[s] \in ItemRows
          \/ job'[s].kind = "acquire" /\ pc'[s] > 1 /\ target'[s] \in ItemRows
          \/ job'[s].kind = "sale" /\ pc'[s] > 6 /\ target'[s] \in StockRows
    BY <1>1, <1>4 DEF Request
  <2>5. exact'[s] => seen'[s][Economy] = seen[s][Economy]
    BY <1>1, <1>2 DEF Request
  <2>6. exact'[s] /\ job[s].kind = "split-evenly" => seen'[s][Pool] = seen[s][Pool]
    BY <1>1, <1>2 DEF Request, JobShape
  <2>7. exact'[s] =>
          /\ job'[s].kind = "purchase" => UnitCost(seen'[s][Economy]) = job'[s].cost
          /\ job'[s].kind = "sale" => UnitCredit(seen'[s][Economy]) = job'[s].cost
          /\ job'[s].kind = "split-evenly" =>
               splitEvenly(seen'[s][Pool], Len(job'[s].payees)).share = job'[s].delta
    BY <1>1, <1>4, <2>5, <2>6 DEF Request
  <2>8. QED
    BY <1>1, <1>4, <2>1, <2>2, <2>3, <2>4, <2>7 DEF Request
<1>6. Homed(s)'
  <2>1. HomesKept /\ Unborn' = Unborn
    BY <1>1, <1>2, UnbornSame DEF HomesKept
  <2>2. QED BY <1>1, <1>4, <2>1, HomedStays
<1>7. QED
  BY <1>1, <1>2, <1>3, <1>5, <1>6, ReadsWriteNothing, ReadKeeps

(***************************************************************************)
(* A committed stack is in the stash it was in, for whoever has a draft.   *)
(***************************************************************************)
LEMMA AtHome ==
  ASSUME MarketInv, NEW r \in ItemRows, db[r] # NoRow
  PROVE  r \notin Unborn /\ At(draft[r], db[r].at)
<1>1. r \notin Unborn /\ r \in Rows
  BY RowsAre DEF MarketInv, IdsOK
<1>2. CASE lock[r] = Free
  BY <1>1, <1>2 DEF MarketInv, Clean, At
<1>3. CASE lock[r] # Free
  <2>1. PICK t \in Slots : lock[r] = t
    BY <1>1, <1>3 DEF MarketInv, Types
  <2>2. Busy(t) /\ Wrote(t, r) /\ Homed(t) /\ Request(t)
    BY <1>1, <2>1 DEF MarketInv, Locked, Requests
  <2>3. Stacked(t, r)
    BY <2>2, RowsAre DEF Wrote
  <2>4. r # NewStacks[job[t].id]
    <3>1. job[t].id \in 1..MaxRequests /\ Ahead(job[t].id)
      BY <2>2 DEF Request, JobShape, Jobs, Ahead
    <3>2. QED BY <1>1, <3>1 DEF Unborn
  <2>5. r \in Picks(t)
    BY <2>3, <2>4, RowsAre DEF Stacked, Picks
  <2>6. At(db[r], job[t].purse) /\ At(draft[r], job[t].purse)
    BY <2>2, <2>5 DEF Homed
  <2>7. QED BY <1>1, <2>6 DEF At
<1>4. QED BY <1>1, <1>2, <1>3


(***************************************************************************)
(* A look for a row of one kind that the request will write: it picks one  *)
(* that is there, or none.                                                 *)
(***************************************************************************)
Finds(s, r) ==
  IF r = NoRow THEN UNCHANGED <<db, draft, lock, seen>> ELSE Read(s, r)

LEMMA PickRead ==
  ASSUME MarketInv, NEW s \in Slots, NEW x \in {"find-stack", "find-entry"}, Issues(s, x),
         exact' = exact, NEW r, Finds(s, r), target' = [target EXCEPT ![s] = r],
         r # NoRow => IF x = "find-stack" THEN r \in StacksAt(job[s].purse) ELSE r \in Listed
  PROVE  MarketInv'
<1>1. /\ Busy(s) /\ Request(s) /\ Homed(s) /\ JobShape(job[s])
      /\ pc[s] \in 1..Steps(job[s]) /\ pc'[s] = pc[s] + 1 /\ Steps(job[s]) \in Nat
      /\ Stands(job[s].kind, pc[s], x)
      /\ UNCHANGED <<job, logged, stale, taken, edits>>
      /\ pc' \in [Slots -> Nat] /\ \A t \in Slots \ {s} : pc'[t] = pc[t]
  BY IssuedWhere
<1>2. /\ r # NoRow /\ x = "find-stack" => r \in ItemRows /\ db[r].at = job[s].purse
      /\ r # NoRow /\ x = "find-entry" => r \in StockRows /\ r \notin ItemRows
      /\ r # NoRow => r \in Rows /\ db[r] # NoRow /\ r # Economy /\ r \notin Stashes
      /\ r \in ItemRows \union StockRows \union {NoRow}
  BY RowsAre DEF StacksAt, Listed
<1>3. /\ UNCHANGED <<db, draft, lock>> /\ DOMAIN seen' = Slots
      /\ \A t \in Slots \ {s} : seen'[t] = seen[t]
      /\ DOMAIN seen'[s] = DOMAIN seen[s] \union ({r} \ {NoRow})
      /\ r # NoRow => seen'[s][r] = db[r] /\ Legal(r, db[r])
      /\ \A y \in DOMAIN seen[s] : y # r => seen'[s][y] = seen[s][y]
  <2>1. CASE r = NoRow
    BY <2>1 DEF Finds, MarketInv, Types
  <2>2. CASE r # NoRow
    <3>1. Read(s, r) /\ r \in Rows
      BY <1>2, <2>2 DEF Finds
    <3>2. QED BY <2>2, <3>1, WhatIsRead
  <2>3. QED BY <2>1, <2>2
<1>4. /\ target' \in [Slots -> ItemRows \union StockRows \union {NoRow}] /\ target'[s] = r
      /\ \A t \in Slots \ {s} : target'[t] = target[t]
  BY <1>2 DEF MarketInv, Types
<1>5. Turn(s)
  BY <1>1, <1>3, <1>4 DEF Turn, Same, MarketInv, Types
<1>6. /\ Picks(s)' = ({job[s].stack, job[s].entry} \ {NoRow}) \union ({r} \ {NoRow})
      /\ {job[s].stack, job[s].entry} \ {NoRow} \subseteq Picks(s)
  BY <1>1, <1>4 DEF Picks
<1>7. Request(s)'
  <2>1. pc'[s] \in 1..(Steps(job'[s]) + 1)
    BY <1>1
  <2>2. \A y \in DOMAIN seen'[s] : y \in Rows /\ Legal(y, seen'[s][y])
    <3>1. \A y \in DOMAIN seen[s] : y \in Rows /\ Legal(y, seen[s][y])
      BY <1>1 DEF Request
    <3>2. \A y \in DOMAIN seen[s] : y # r => seen'[s][y] = seen[s][y]
      BY <1>3
    <3>3. r # NoRow => r \in Rows /\ Legal(r, seen'[s][r])
      BY <1>2, <1>3
    <3>4. \A y \in DOMAIN seen'[s] : (y = r /\ r # NoRow) \/ (y # r /\ y \in DOMAIN seen[s])
      <4>1. NoRow \notin DOMAIN seen[s]
        BY <3>1, RowsAre
      <4>2. QED BY <1>3, <4>1
    <3>5. QED BY <3>1, <3>2, <3>3, <3>4
  <2>3. /\ {job'[s].purse, Economy} \union Picks(s)' \subseteq DOMAIN seen'[s]
        /\ \A y \in Picks(s)' : seen'[s][y] # NoRow
    <3>1. /\ {job[s].purse, Economy} \union Picks(s) \subseteq DOMAIN seen[s]
          /\ \A y \in Picks(s) : seen[s][y] # NoRow
      BY <1>1 DEF Request
    <3>2. \A y \in Picks(s)' : y \in DOMAIN seen'[s] /\ seen'[s][y] # NoRow
      BY <1>2, <1>3, <1>6, <3>1
    <3>3. QED BY <1>1, <1>3, <3>1, <3>2
  <2>4. target'[s] # NoRow =>
          \/ job'[s].kind = "purchase" /\ pc'[s] > 5 /\ target'[s] \in ItemRows
          \/ job'[s].kind = "acquire" /\ pc'[s] > 1 /\ target'[s] \in ItemRows
          \/ job'[s].kind = "sale" /\ pc'[s] > 6 /\ target'[s] \in StockRows
    BY <1>1, <1>2, <1>4 DEF Stands
  <2>5. seen'[s][Economy] = seen[s][Economy] /\ job[s].kind # "split-evenly"
    <3>1. Economy \in DOMAIN seen[s] /\ Economy # r
      BY <1>1, <1>2, RowsAre DEF Request
    <3>2. QED BY <1>1, <1>3, <3>1 DEF Stands
  <2>6. exact'[s] =>
          /\ job'[s].kind = "purchase" => UnitCost(seen'[s][Economy]) = job'[s].cost
          /\ job'[s].kind = "sale" => UnitCredit(seen'[s][Economy]) = job'[s].cost
          /\ job'[s].kind = "split-evenly" =>
               splitEvenly(seen'[s][Pool], Len(job'[s].payees)).share = job'[s].delta
    BY <1>1, <2>5 DEF Request
  <2>7. QED
    BY <1>1, <2>1, <2>2, <2>3, <2>4, <2>6 DEF Request
<1>8. Homed(s)'
  <2>1. HomesKept /\ Unborn' = Unborn /\ job'[s] = job[s]
    BY <1>1, <1>3, UnbornSame DEF HomesKept
  <2>2. r # NoRow => r \notin Unborn
    BY <1>2 DEF MarketInv, IdsOK
  <2>3. r \in ItemRows => At(db[r], job[s].purse) /\ At(draft[r], job[s].purse)
    <3>1. ASSUME r \in ItemRows
          PROVE  At(db[r], job[s].purse) /\ At(draft[r], job[s].purse)
      <4>1. r # NoRow
        BY <3>1, RowsAre
      <4>2. db[r] # NoRow /\ db[r].at = job[s].purse
        BY <1>2, <3>1, <4>1
      <4>3. QED BY <3>1, <4>2, AtHome DEF At
    <3>2. QED BY <3>1
  <2>4. \A y \in Picks(s)' \ {r} : /\ y \notin Unborn
                                   /\ y \in ItemRows => At(db[y], job[s].purse) /\ At(draft[y], job[s].purse)
    BY <1>1, <1>6 DEF Homed
  <2>5. QED
    BY <1>3, <1>6, <2>1, <2>2, <2>3, <2>4 DEF Homed
<1>9. QED
  BY <1>1, <1>3, <1>5, <1>7, <1>8, ReadsWriteNothing, ReadKeeps DEF Reading

(***************************************************************************)
(* The reads of the persistors keep the invariant.                         *)
(***************************************************************************)
LEMMA ReadsKeep ==
  ASSUME MarketInv, NEW s \in Slots,
         \/ ReadPool(s) \/ ReadEconomy(s) \/ ReadOffer(s) \/ ReadPurse(s) \/ ReadStack(s)
  PROVE  MarketInv'
<1>0. exact \in [Slots -> BOOLEAN]
  BY DEF MarketInv, Types
<1>1. CASE ReadPool(s)
  <2>1. /\ Issues(s, "read-pool") /\ Read(s, Pool) /\ target' = target
        /\ exact' = [exact EXCEPT ![s] = exact[s] /\ db[Pool] = seen[s][Pool]]
    BY <1>1 DEF ReadPool, RelyOn
  <2>2. /\ exact' \in [Slots -> BOOLEAN] /\ \A t \in Slots \ {s} : exact'[t] = exact[t]
        /\ exact'[s] => exact[s] /\ db[Pool] = seen[s][Pool]
    BY <1>0, <2>1
  <2>3. Pool \in Rows /\ Pool # Economy
    BY RowsAre
  <2>4. QED BY <2>1, <2>2, <2>3, PlainRead DEF Reading
<1>2. CASE ReadEconomy(s)
  <2>1. /\ Issues(s, "read-economy") /\ Read(s, Economy) /\ target' = target
        /\ exact' = [exact EXCEPT ![s] = exact[s] /\ db[Economy] = seen[s][Economy]]
    BY <1>2 DEF ReadEconomy, RelyOn
  <2>2. /\ exact' \in [Slots -> BOOLEAN] /\ \A t \in Slots \ {s} : exact'[t] = exact[t]
        /\ exact'[s] => exact[s] /\ db[Economy] = seen[s][Economy]
    BY <1>0, <2>1
  <2>3. Pool # Economy /\ Economy \in Rows
    BY RowsAre
  <2>4. QED BY <2>1, <2>2, <2>3, PlainRead DEF Reading
<1>3. CASE ReadOffer(s)
  <2>1. /\ Issues(s, "read-offer") /\ Read(s, job[s].entry) /\ target' = target /\ exact' = exact
    BY <1>3 DEF ReadOffer
  <2>2. Stands(job[s].kind, pc[s], "read-offer") /\ JobShape(job[s])
    BY <2>1, IssuedWhere
  <2>3. job[s].entry \in Rows /\ job[s].entry # Economy /\ job[s].entry # Pool
    BY <2>2, RowsAre DEF Stands, JobShape, Jobs
  <2>4. QED BY <1>0, <2>1, <2>3, PlainRead DEF Reading
<1>4. CASE ReadPurse(s)
  <2>1. /\ Issues(s, "read-purse") /\ Read(s, job[s].purse) /\ target' = target /\ exact' = exact
    BY <1>4 DEF ReadPurse
  <2>2. Stands(job[s].kind, pc[s], "read-purse") /\ JobShape(job[s])
    BY <2>1, IssuedWhere
  <2>3. job[s].purse \in Rows /\ job[s].purse # Economy /\ job[s].kind # "split-evenly"
    BY <2>2, RowsAre DEF Stands, JobShape, Jobs
  <2>4. QED BY <1>0, <2>1, <2>3, PlainRead DEF Reading
<1>5. CASE ReadStack(s)
  <2>1. /\ Issues(s, "read-stack") /\ Read(s, job[s].stack) /\ target' = target /\ exact' = exact
    BY <1>5 DEF ReadStack
  <2>2. Stands(job[s].kind, pc[s], "read-stack") /\ JobShape(job[s])
    BY <2>1, IssuedWhere
  <2>3. job[s].stack \in Rows /\ job[s].stack # Economy /\ job[s].stack # Pool
    BY <2>2, RowsAre DEF Stands, JobShape, Jobs
  <2>4. QED BY <1>0, <2>1, <2>3, PlainRead DEF Reading
<1>6. QED
  BY <1>1, <1>2, <1>3, <1>4, <1>5

LEMMA FindsKeep ==
  ASSUME MarketInv, NEW s \in Slots, FindStack(s) \/ FindEntry(s) PROVE MarketInv'
<1>1. CASE FindStack(s)
  <2>1. Issues(s, "find-stack") /\ exact' = exact
    BY <1>1 DEF FindStack
  <2>2. PICK r : /\ Finds(s, r) /\ target' = [target EXCEPT ![s] = r]
                 /\ r # NoRow => r \in StacksAt(job[s].purse)
    <3>1. CASE \E r \in StacksAt(job[s].purse) : Read(s, r) /\ target' = [target EXCEPT ![s] = r]
      <4>1. PICK r \in StacksAt(job[s].purse) : Read(s, r) /\ target' = [target EXCEPT ![s] = r]
        BY <3>1
      <4>2. r # NoRow
        BY RowsAre DEF StacksAt
      <4>3. QED BY <4>1, <4>2 DEF Finds
    <3>2. CASE target' = [target EXCEPT ![s] = NoRow] /\ UNCHANGED <<db, draft, lock, seen>>
      BY <3>2 DEF Finds
    <3>3. QED BY <1>1, <3>1, <3>2 DEF FindStack
  <2>3. QED BY <2>1, <2>2, PickRead
<1>2. CASE FindEntry(s)
  <2>1. Issues(s, "find-entry") /\ exact' = exact
    BY <1>2 DEF FindEntry
  <2>2. PICK r : /\ Finds(s, r) /\ target' = [target EXCEPT ![s] = r]
                 /\ r # NoRow => r \in Listed
    <3>1. CASE \E r \in Listed : Read(s, r) /\ target' = [target EXCEPT ![s] = r]
      <4>1. PICK r \in Listed : Read(s, r) /\ target' = [target EXCEPT ![s] = r]
        BY <3>1
      <4>2. r # NoRow
        BY RowsAre DEF Listed
      <4>3. QED BY <4>1, <4>2 DEF Finds
    <3>2. CASE target' = [target EXCEPT ![s] = NoRow] /\ UNCHANGED <<db, draft, lock, seen>>
      BY <3>2 DEF Finds
    <3>3. QED BY <1>2, <3>1, <3>2 DEF FindEntry
  <2>3. QED BY <2>1, <2>2, PickRead
<1>3. QED BY <1>1, <1>2


-----------------------------------------------------------------------------
(* The writes.                                                             *)

(***************************************************************************)
(* A statement that reads nothing and picks nothing.                       *)
(***************************************************************************)
Blind(s) ==
  /\ seen' = seen /\ target' = target /\ exact' \in [Slots -> BOOLEAN]
  /\ \A t \in Slots \ {s} : exact'[t] = exact[t]
  /\ exact'[s] => exact[s]

LEMMA BlindTurn ==
  ASSUME MarketInv, NEW s \in Slots, NEW x, Issues(s, x), Blind(s)
  PROVE  /\ Turn(s) /\ Request(s)' /\ Busy(s) /\ Unborn' = Unborn
         /\ job' = job /\ pc'[s] = pc[s] + 1 /\ Picks(s)' = Picks(s)
<1>1. /\ Busy(s) /\ Request(s) /\ JobShape(job[s])
      /\ pc[s] \in 1..Steps(job[s]) /\ pc'[s] = pc[s] + 1 /\ Steps(job[s]) \in Nat
      /\ UNCHANGED <<job, logged, stale, taken, edits>>
      /\ pc' \in [Slots -> Nat] /\ \A t \in Slots \ {s} : pc'[t] = pc[t]
  BY IssuedWhere
<1>2. Turn(s)
  BY <1>1 DEF Turn, Same, Blind, MarketInv, Types
<1>3. Picks(s)' = Picks(s)
  BY <1>1 DEF Picks, Blind
<1>4. Request(s)'
  <2>1. /\ pc'[s] \in 1..(Steps(job'[s]) + 1)
        /\ pc[s] > 5 => pc'[s] > 5
        /\ pc[s] > 1 => pc'[s] > 1
        /\ pc[s] > 6 => pc'[s] > 6
    BY <1>1
  <2>2. QED BY <1>1, <1>3, <2>1 DEF Request, Blind
<1>5. Unborn' = Unborn
  BY <1>1, UnbornSame
<1>6. QED BY <1>1, <1>2, <1>3, <1>4, <1>5

LEMMA WriteDone ==
  ASSUME MarketInv, NEW s \in Slots, NEW w, NEW v, Writes(s, w, v)
  PROVE  /\ \A r \in Rows : draft'[r] = (IF r = w THEN v ELSE draft[r])
         /\ w \in Rows /\ draft'[w] = v /\ db' = db /\ HomesKept
         /\ lock[w] # s => draft[w] = db[w]
<1>1. DOMAIN draft = Rows /\ w \in Rows /\ draft' = [draft EXCEPT ![w] = v] /\ db' = db
  BY DEF MarketInv, Types, Writes
<1>2. \A r \in Rows : draft'[r] = (IF r = w THEN v ELSE draft[r])
  BY <1>1
<1>3. HomesKept
  BY <1>1, <1>2, RowsAre DEF HomesKept, Writes
<1>4. lock[w] # s => draft[w] = db[w]
  BY <1>1 DEF MarketInv, Clean, Writes
<1>5. QED BY <1>1, <1>2, <1>3, <1>4

(***************************************************************************)
(* A write of a purse, of a stack, of a stock entry.                       *)
(***************************************************************************)
LEMMA CoinWrite ==
  ASSUME MarketInv, NEW s \in Slots,
         NEW x \in {"add", "subtract", "keep", "share", "pay", "earn"}, Issues(s, x), Blind(s),
         NEW w \in Stashes, NEW v, Writes(s, w, v),
         \A h \in Stashes : Paid(s, h)' <=> Paid(s, h) \/ h = w,
         Told(s, {"purchase", "sale", "split-evenly"})' =>
           toCopper(v) = toCopper(db[w]) + CoinsOf(job[s], w)
  PROVE  MarketInv'
<1>1. /\ Turn(s) /\ Request(s)' /\ Busy(s) /\ Unborn' = Unborn
      /\ job' = job /\ pc'[s] = pc[s] + 1 /\ Picks(s)' = Picks(s)
  BY BlindTurn
<1>2. Request(s) /\ Homed(s) /\ Drafted(s) /\ Stands(job[s].kind, pc[s], x) /\ pc[s] \in Nat
  BY IssuedWhere
<1>3. /\ \A r \in Rows : draft'[r] = (IF r = w THEN v ELSE draft[r])
      /\ w \in Rows /\ draft'[w] = v /\ db' = db /\ HomesKept
  BY WriteDone
<1>4. /\ \A r : Stacked(s, r)' <=> Stacked(s, r)
      /\ \A e : ~Shelved(s, e) /\ ~Shelved(s, e)'
  <2>1. target'[s] = target[s] /\ job'[s] = job[s]
    BY <1>1 DEF Blind
  <2>2. \A r : Stacked(s, r)' <=> Stacked(s, r)
    BY <1>1, <1>2, <2>1 DEF Stands, Stacked
  <2>3. \A e : ~Shelved(s, e) /\ ~Shelved(s, e)'
    BY <1>1, <1>2 DEF Stands, Shelved
  <2>4. QED BY <2>2, <2>3
<1>5. \A r \in Rows : Wrote(s, r)' <=> Wrote(s, r) \/ r = w
  BY <1>4, RowsAre DEF Wrote
<1>6. Homed(s)'
  BY <1>1, <1>2, <1>3, HomedStays
<1>7. exact'[s] => exact[s]
  BY DEF Blind
<1>8. CoinsDrafted(s)'
  <2>1. \A h \in Stashes : h \in Rows
    BY RowsAre
  <2>2. CoinsDrafted(s)
    BY <1>2 DEF Drafted
  <2>3. Told(s, {"purchase", "sale", "split-evenly"})' => Told(s, {"purchase", "sale", "split-evenly"})
    BY <1>1, <1>7 DEF Told
  <2>4. QED
    BY <1>1, <1>3, <2>1, <2>2, <2>3 DEF CoinsDrafted
<1>9. GoodsDrafted(s)' /\ StockDrafted(s)'
  <2>1. \A r \in ItemRows : r \in Rows /\ r # w
    BY RowsAre
  <2>2. GoodsDrafted(s)
    BY <1>2 DEF Drafted
  <2>3. Told(s, {"purchase", "sale", "acquire", "consume"})'
          => Told(s, {"purchase", "sale", "acquire", "consume"})
    BY <1>1, <1>7 DEF Told
  <2>4. GoodsDrafted(s)'
    BY <1>1, <1>3, <1>4, <2>1, <2>2, <2>3 DEF GoodsDrafted
  <2>5. QED BY <1>4, <2>4 DEF StockDrafted
<1>10. QED
  BY <1>1, <1>5, <1>6, <1>8, <1>9, WriteKeeps DEF Drafted

LEMMA GoodsWrite ==
  ASSUME MarketInv, NEW s \in Slots, NEW x \in {"stack", "unstack"}, Issues(s, x), Blind(s),
         NEW w \in ItemRows, NEW v, Writes(s, w, v),
         \A r \in ItemRows : Stacked(s, r)' <=> r = w,
         Told(s, {"purchase", "sale", "acquire", "consume"})' =>
           \A h \in Stashes : QtyAt(v, h) = QtyAt(db[w], h) + GoodsOf(job[s], h)
  PROVE  MarketInv'
<1>1. /\ Turn(s) /\ Request(s)' /\ Busy(s) /\ Unborn' = Unborn
      /\ job' = job /\ pc'[s] = pc[s] + 1 /\ Picks(s)' = Picks(s)
  BY BlindTurn
<1>2. Request(s) /\ Homed(s) /\ Drafted(s) /\ Stands(job[s].kind, pc[s], x) /\ pc[s] \in Nat
  BY IssuedWhere
<1>3. /\ \A r \in Rows : draft'[r] = (IF r = w THEN v ELSE draft[r])
      /\ w \in Rows /\ draft'[w] = v /\ db' = db /\ HomesKept
  BY WriteDone
<1>4. /\ \A h : Paid(s, h)' <=> Paid(s, h)
      /\ \A r : ~Stacked(s, r)
      /\ \A e : ~Shelved(s, e) /\ ~Shelved(s, e)'
  <2>1. target'[s] = target[s] /\ job'[s] = job[s]
    BY <1>1 DEF Blind
  <2>2. \A h : Paid(s, h)' <=> Paid(s, h)
    BY <1>1, <1>2, <2>1 DEF Stands, Paid
  <2>3. \A r : ~Stacked(s, r)
    BY <1>2 DEF Stands, Stacked
  <2>4. \A e : ~Shelved(s, e) /\ ~Shelved(s, e)'
    BY <1>1, <1>2 DEF Stands, Shelved
  <2>5. QED BY <2>2, <2>3, <2>4
<1>5. \A r \in Rows : Wrote(s, r)' <=> Wrote(s, r) \/ r = w
  BY <1>4, RowsAre DEF Wrote
<1>6. Homed(s)'
  BY <1>1, <1>2, <1>3, HomedStays
<1>7. exact'[s] => exact[s]
  BY DEF Blind
<1>8. CoinsDrafted(s)' /\ StockDrafted(s)'
  <2>1. \A h \in Stashes : h \in Rows /\ h # w
    BY RowsAre
  <2>2. CoinsDrafted(s)
    BY <1>2 DEF Drafted
  <2>3. Told(s, {"purchase", "sale", "split-evenly"})' => Told(s, {"purchase", "sale", "split-evenly"})
    BY <1>1, <1>7 DEF Told
  <2>4. CoinsDrafted(s)'
    BY <1>1, <1>3, <1>4, <2>1, <2>2, <2>3 DEF CoinsDrafted
  <2>5. QED BY <1>4, <2>4 DEF StockDrafted
<1>9. GoodsDrafted(s)'
  BY <1>1, <1>3 DEF GoodsDrafted
<1>10. QED
  BY <1>1, <1>5, <1>6, <1>8, <1>9, WriteKeeps DEF Drafted

LEMMA StockWrite ==
  ASSUME MarketInv, NEW s \in Slots, NEW x \in {"deliver", "restock"}, Issues(s, x), Blind(s),
         NEW w \in StockRows, NEW v, Writes(s, w, v),
         \A e \in StockRows : Shelved(s, e)' <=> e = w,
         Told(s, {"sale"})' => Count(v) = Count(db[w]) + StockOf(s)
  PROVE  MarketInv'
<1>1. /\ Turn(s) /\ Request(s)' /\ Busy(s) /\ Unborn' = Unborn
      /\ job' = job /\ pc'[s] = pc[s] + 1 /\ Picks(s)' = Picks(s)
  BY BlindTurn
<1>2. Request(s) /\ Homed(s) /\ Drafted(s) /\ Stands(job[s].kind, pc[s], x) /\ pc[s] \in Nat
  BY IssuedWhere
<1>3. /\ \A r \in Rows : draft'[r] = (IF r = w THEN v ELSE draft[r])
      /\ w \in Rows /\ draft'[w] = v /\ db' = db /\ HomesKept
  BY WriteDone
<1>4. /\ \A h : Paid(s, h)' <=> Paid(s, h)
      /\ \A r : Stacked(s, r)' <=> Stacked(s, r)
      /\ \A e : ~Shelved(s, e)
      /\ StockOf(s)' = StockOf(s)
  <2>1. target'[s] = target[s] /\ job'[s] = job[s] /\ seen'[s] = seen[s]
    BY <1>1 DEF Blind
  <2>2. \A h : Paid(s, h)' <=> Paid(s, h)
    BY <1>1, <1>2, <2>1 DEF Stands, Paid
  <2>3. \A r : Stacked(s, r)' <=> Stacked(s, r)
    BY <1>1, <1>2, <2>1 DEF Stands, Stacked
  <2>4. \A e : ~Shelved(s, e)
    BY <1>2 DEF Stands, Shelved
  <2>5. StockOf(s)' = StockOf(s)
    BY <2>1 DEF StockOf
  <2>6. QED BY <2>2, <2>3, <2>4, <2>5
<1>5. \A r \in Rows : Wrote(s, r)' <=> Wrote(s, r) \/ r = w
  BY <1>4, RowsAre DEF Wrote
<1>6. Homed(s)'
  BY <1>1, <1>2, <1>3, HomedStays
<1>7. exact'[s] => exact[s]
  BY DEF Blind
<1>8. CoinsDrafted(s)'
  <2>1. \A h \in Stashes : h \in Rows /\ h # w
    BY RowsAre
  <2>2. CoinsDrafted(s)
    BY <1>2 DEF Drafted
  <2>3. Told(s, {"purchase", "sale", "split-evenly"})' => Told(s, {"purchase", "sale", "split-evenly"})
    BY <1>1, <1>7 DEF Told
  <2>4. QED
    BY <1>1, <1>3, <1>4, <2>1, <2>2, <2>3 DEF CoinsDrafted
<1>9. GoodsDrafted(s)'
  <2>1. \A r \in ItemRows : r \in Rows /\ r # w
    BY RowsAre
  <2>2. GoodsDrafted(s)
    BY <1>2 DEF Drafted
  <2>3. Told(s, {"purchase", "sale", "acquire", "consume"})'
          => Told(s, {"purchase", "sale", "acquire", "consume"})
    BY <1>1, <1>7 DEF Told
  <2>4. QED
    BY <1>1, <1>3, <1>4, <2>1, <2>2, <2>3 DEF GoodsDrafted
<1>10. StockDrafted(s)'
  BY <1>1, <1>3, <1>4 DEF StockDrafted
<1>11. QED
  BY <1>1, <1>5, <1>6, <1>8, <1>9, <1>10, WriteKeeps DEF Drafted


(***************************************************************************)
(* What the log entries of each action say of a purse.                     *)
(***************************************************************************)
LEMMA CoinsOfAre ==
  ASSUME NEW j, JobShape(j), NEW h \in Stashes
  PROVE  /\ j.kind = "currency-change" => CoinsOf(j, h) = IF h = j.purse THEN toCopper(j.delta) ELSE 0
         /\ j.kind = "currency-transfer" =>
              CoinsOf(j, h) = IF h = j.purse THEN -toCopper(j.delta)
                              ELSE IF h = j.to THEN toCopper(j.delta) ELSE 0
         /\ j.kind = "split-evenly" =>
              CoinsOf(j, h) = IF h = Pool THEN -(Len(j.payees) * toCopper(j.delta))
                              ELSE IF \E i \in 1..Len(j.payees) : j.payees[i] = h
                                   THEN toCopper(j.delta) ELSE 0
         /\ j.kind = "purchase" => CoinsOf(j, h) = IF h = j.purse THEN -j.cost ELSE 0
         /\ j.kind = "sale" => CoinsOf(j, h) = IF h = j.purse THEN j.cost ELSE 0
         /\ j.kind \in {"acquire", "consume"} => CoinsOf(j, h) = 0
         /\ CoinsOf(j, h) \in Int
<1>0. j.kind \in Kinds /\ j.cost \in Int /\ toCopper(j.delta) \in Int
  BY CopperOfPurse DEF JobShape, Jobs
<1>1. CASE j.kind = "currency-change"
  BY <1>0, <1>1 DEF CoinsOf
<1>2. CASE j.kind = "currency-transfer"
  BY <1>0, <1>2 DEF CoinsOf, JobShape
<1>3. CASE j.kind = "split-evenly"
  <2>1. /\ Len(j.payees) \in Nat
        /\ h = Pool => ~\E i \in 1..Len(j.payees) : j.payees[i] = h
    BY <1>3, ScriptOfSplit DEF Inventories
  <2>2. CoinsOf(j, h) = IF h = Pool THEN -(Len(j.payees) * toCopper(j.delta))
                        ELSE IF \E i \in 1..Len(j.payees) : j.payees[i] = h
                             THEN toCopper(j.delta) ELSE 0
    BY <1>3, <2>1 DEF CoinsOf
  <2>3. QED BY <1>0, <1>3, <2>1, <2>2
<1>4. CASE j.kind = "purchase"
  BY <1>0, <1>4 DEF CoinsOf
<1>5. CASE j.kind = "sale"
  BY <1>0, <1>5 DEF CoinsOf
<1>6. CASE j.kind \in {"acquire", "consume"}
  BY <1>6 DEF CoinsOf
<1>7. QED
  BY <1>0, <1>1, <1>2, <1>3, <1>4, <1>5, <1>6 DEF Kinds

(***************************************************************************)
(* The purse a request is about to write.                                  *)
(***************************************************************************)
LEMMA PurseToWrite ==
  ASSUME MarketInv, NEW s \in Slots, Busy(s), NEW h \in Stashes, ~Paid(s, h), lock[h] \in {Free, s}
  PROVE  h \in Rows /\ draft[h] = db[h] /\ db[h] \in Coins
<1>1. h \in Rows /\ h \notin ItemRows /\ h \notin StockRows
  BY RowsAre
<1>2. lock[h] # s
  BY <1>1 DEF MarketInv, Locked, Wrote
<1>3. QED
  BY <1>1, <1>2 DEF MarketInv, Clean, Types, Legal

LEMMA LegalPurse == ASSUME NEW h \in Stashes, NEW v \in Coins PROVE Legal(h, v)
BY RowsAre DEF Legal

LEMMA PurseWritten ==
  ASSUME NEW s, NEW h \in Stashes, NEW v \in Coins, Write(s, h, v)
  PROVE  Writes(s, h, v) /\ seen' = seen /\ target' = target /\ lock[h] \in {Free, s}
BY RowsAre, LegalPurse DEF Write, Writes

LEMMA ChangeKeeps ==
  ASSUME MarketInv, NEW s \in Slots, Increment(s) \/ Decrement(s) PROVE MarketInv'
<1> DEFINE j == job[s]
<1>0. exact \in [Slots -> BOOLEAN]
  BY DEF MarketInv, Types
<1>1. CASE Increment(s)
  <2>1. /\ Issues(s, "add") /\ exact' = exact
        /\ IsHolding(add(draft[j.to], j.delta))
        /\ Write(s, j.to, add(draft[j.to], j.delta))
    BY <1>1 DEF Increment
  <2>2. /\ Busy(s) /\ JobShape(j) /\ pc'[s] = pc[s] + 1 /\ pc[s] \in Nat /\ job' = job
        /\ Stands(j.kind, pc[s], "add")
    BY <2>1, IssuedWhere
  <2>3. j.to \in Stashes /\ j.delta \in [Denoms -> Int]
    BY <2>2 DEF JobShape, Jobs
  <2>4. ~Paid(s, j.to)
    BY <2>2 DEF Stands, Paid, JobShape
  <2>5. draft[j.to] = db[j.to] /\ db[j.to] \in Coins /\ db[j.to] \in [Denoms -> Int]
    BY <2>1, <2>2, <2>3, <2>4, PurseToWrite, CoinsAreInts DEF Write
  <2>6. PICK v : v = add(draft[j.to], j.delta)
    OBVIOUS
  <2>7. v \in Coins /\ toCopper(v) = toCopper(db[j.to]) + toCopper(j.delta)
    BY <2>1, <2>3, <2>5, <2>6, CopperAdds, HoldingIsCoins
  <2>8. Writes(s, j.to, v) /\ Blind(s)
    BY <1>0, <2>1, <2>3, <2>6, <2>7, PurseWritten DEF Blind
  <2>9. \A h \in Stashes : Paid(s, h)' <=> Paid(s, h) \/ h = j.to
    BY <2>2 DEF Stands, Paid, JobShape
  <2>10. CoinsOf(j, j.to) = toCopper(j.delta)
    BY <2>2, <2>3, CoinsOfAre DEF Stands, JobShape
  <2>11. QED
    BY <2>1, <2>3, <2>7, <2>8, <2>9, <2>10, CoinWrite
<1>2. CASE Decrement(s)
  <2>1. /\ Issues(s, "subtract") /\ exact' = exact
        /\ IsHolding(subtract(draft[j.purse], j.delta))
        /\ Write(s, j.purse, subtract(draft[j.purse], j.delta))
    BY <1>2 DEF Decrement
  <2>2. /\ Busy(s) /\ JobShape(j) /\ pc'[s] = pc[s] + 1 /\ pc[s] \in Nat /\ job' = job
        /\ Stands(j.kind, pc[s], "subtract")
    BY <2>1, IssuedWhere
  <2>3. j.purse \in Stashes /\ j.delta \in [Denoms -> Int]
    BY <2>2 DEF JobShape, Jobs
  <2>4. ~Paid(s, j.purse)
    BY <2>2 DEF Stands, Paid, JobShape
  <2>5. draft[j.purse] = db[j.purse] /\ db[j.purse] \in Coins /\ db[j.purse] \in [Denoms -> Int]
    BY <2>1, <2>2, <2>3, <2>4, PurseToWrite, CoinsAreInts DEF Write
  <2>6. PICK v : v = subtract(draft[j.purse], j.delta)
    OBVIOUS
  <2>7. v \in Coins /\ toCopper(v) = toCopper(db[j.purse]) - toCopper(j.delta)
    BY <2>1, <2>3, <2>5, <2>6, CopperAdds, HoldingIsCoins
  <2>8. Writes(s, j.purse, v) /\ Blind(s)
    BY <1>0, <2>1, <2>3, <2>6, <2>7, PurseWritten DEF Blind
  <2>9. \A h \in Stashes : Paid(s, h)' <=> Paid(s, h) \/ h = j.purse
    BY <2>2 DEF Stands, Paid
  <2>10. CoinsOf(j, j.purse) = -toCopper(j.delta)
    BY <2>2, <2>3, CoinsOfAre DEF Stands
  <2>11. toCopper(db[j.purse]) \in Int /\ toCopper(j.delta) \in Int
    BY <2>3, <2>5, CopperOfPurse
  <2>12. toCopper(v) = toCopper(db[j.purse]) + CoinsOf(j, j.purse)
    BY <2>7, <2>10, <2>11
  <2>13. QED
    BY <2>1, <2>3, <2>8, <2>9, <2>12, CoinWrite
<1>3. QED BY <1>1, <1>2

(***************************************************************************)
(* What a split has read of the pool.                                      *)
(***************************************************************************)
LEMMA PoolRead ==
  ASSUME NEW s, Request(s), job[s].kind = "split-evenly"
  PROVE  /\ seen[s][Pool] \in Coins /\ job[s].purse = Pool
         /\ Len(job[s].payees) \in Nat \ {0}
         /\ splitEvenly(seen[s][Pool], Len(job[s].payees)).share \in Coins
         /\ splitEvenly(seen[s][Pool], Len(job[s].payees)).remainder \in Coins
<1>1. JobShape(job[s]) /\ job[s].purse = Pool
  BY DEF Request, JobShape
<1>2. Len(job[s].payees) \in Nat \ {0}
  BY <1>1, ScriptOfSplit
<1>3. seen[s][Pool] \in Coins
  BY <1>1, RowsAre DEF Request, Legal
<1>4. QED BY <1>1, <1>2, <1>3, SplitConserves

LEMMA KeepKeeps ==
  ASSUME MarketInv, NEW s \in Slots, Keep(s) PROVE MarketInv'
<1> DEFINE j == job[s]
           n == Len(job[s].payees)
           share == splitEvenly(seen[s][Pool], n).share
           left == splitEvenly(seen[s][Pool], n).remainder
<1>0. exact \in [Slots -> BOOLEAN] /\ Pool \in Stashes
  BY RowsAre DEF MarketInv, Types
<1>1. /\ Issues(s, "keep") /\ Write(s, Pool, left)
      /\ exact' = [exact EXCEPT ![s] = exact[s] /\ db[Pool] = seen[s][Pool]]
  BY DEF Keep, RelyOn
<1>2. /\ Busy(s) /\ JobShape(j) /\ pc'[s] = pc[s] + 1 /\ pc[s] \in Nat /\ job' = job /\ Request(s)
      /\ Stands(j.kind, pc[s], "keep")
  BY <1>1, IssuedWhere
<1>3. j.kind = "split-evenly" /\ pc[s] = 2
  BY <1>2 DEF Stands
<1>4. seen[s][Pool] \in Coins /\ n \in Nat \ {0} /\ share \in Coins /\ left \in Coins
  BY <1>2, <1>3, PoolRead
<1>5. /\ exact' \in [Slots -> BOOLEAN] /\ \A t \in Slots \ {s} : exact'[t] = exact[t]
      /\ exact'[s] => exact[s] /\ db[Pool] = seen[s][Pool]
  BY <1>0, <1>1
<1>6. Writes(s, Pool, left) /\ Blind(s)
  BY <1>0, <1>1, <1>4, <1>5, PurseWritten DEF Blind
<1>7. \A h \in Stashes : Paid(s, h)' <=> Paid(s, h) \/ h = Pool
  <2>1. \A i \in 1..n : ~(i < 0) /\ ~(i < 1)
    BY <1>4
  <2>2. pc'[s] = 3 /\ pc'[s] - 2 = 1 /\ pc[s] - 2 = 0 /\ job'[s] = job[s]
    BY <1>2, <1>3
  <2>3. QED BY <1>2, <1>3, <2>1, <2>2 DEF Paid
<1>8. ASSUME exact'[s] PROVE toCopper(left) = toCopper(db[Pool]) + CoinsOf(j, Pool)
  <2>1. db[Pool] = seen[s][Pool] /\ j.delta = share
    BY <1>2, <1>3, <1>5, <1>8 DEF Request
  <2>2. n * toCopper(share) + toCopper(left) = toCopper(db[Pool])
    BY <1>4, <2>1, SplitConserves
  <2>3. CoinsOf(j, Pool) = -(n * toCopper(share))
    BY <1>0, <1>2, <1>3, <2>1, CoinsOfAre
  <2>4. toCopper(share) \in Int /\ toCopper(left) \in Int /\ n \in Int
    BY <1>4, CoinsAreInts
  <2> HIDE DEF n, share, left, j
  <2>5. n * toCopper(share) \in Int
    BY <2>4
  <2>6. QED BY <2>2, <2>3, <2>4, <2>5
<1>9. Told(s, {"purchase", "sale", "split-evenly"})' => exact'[s]
  BY <1>2, <1>3 DEF Told
<1>10. QED
  <2> HIDE DEF left
  <2>1. QED BY <1>0, <1>1, <1>6, <1>7, <1>8, <1>9, CoinWrite

LEMMA ShareKeeps ==
  ASSUME MarketInv, NEW s \in Slots, Share(s) PROVE MarketInv'
<1> DEFINE j == job[s]
           n == Len(job[s].payees)
           share == splitEvenly(seen[s][Pool], n).share
           k == pc[s] - 2
           h == job[s].payees[k]
<1>0. exact \in [Slots -> BOOLEAN]
  BY DEF MarketInv, Types
<1>1. /\ Issues(s, "share") /\ Write(s, h, add(draft[h], share)) /\ exact' = exact
  BY DEF Share
<1>2. /\ Busy(s) /\ JobShape(j) /\ pc'[s] = pc[s] + 1 /\ pc[s] \in 1..Steps(j) /\ job' = job /\ Request(s)
      /\ Stands(j.kind, pc[s], "share")
  BY <1>1, IssuedWhere
<1>3. j.kind = "split-evenly" /\ pc[s] >= 3 /\ Steps(j) = 2 + n
  BY <1>2, StepsAre DEF Stands
<1>4. seen[s][Pool] \in Coins /\ n \in Nat \ {0} /\ share \in Coins
  BY <1>2, <1>3, PoolRead
<1>5. /\ k \in 1..n /\ h \in Inventories /\ h \in Stashes /\ h # Pool
      /\ \A i \in 1..n : j.payees[i] = h => i = k
  <2>1. k \in 1..n
    BY <1>2, <1>3, <1>4
  <2>2. QED BY <1>2, <1>3, <2>1, ScriptOfSplit DEF Inventories
<1>6. ~Paid(s, h)
  <2>1. \A i \in 1..n : i < k => j.payees[i] # h
    BY <1>4, <1>5
  <2>2. QED BY <1>3, <1>5, <2>1 DEF Paid
<1>7. draft[h] = db[h] /\ db[h] \in Coins /\ lock[h] \in {Free, s}
  BY <1>1, <1>2, <1>5, <1>6, PurseToWrite DEF Write
<1>8. PICK v : v = add(draft[h], share)
  OBVIOUS
<1>9. v \in Coins /\ toCopper(v) = toCopper(db[h]) + toCopper(share)
  BY <1>4, <1>7, <1>8, AddCoins, CopperAdds, CoinsAreInts
<1>10. Writes(s, h, v) /\ Blind(s)
  BY <1>0, <1>1, <1>5, <1>8, <1>9, PurseWritten DEF Blind
<1>11. \A g \in Stashes : Paid(s, g)' <=> Paid(s, g) \/ g = h
  <2>1. job'[s] = job[s] /\ pc'[s] >= 3 /\ pc'[s] - 2 = k + 1
    BY <1>2, <1>3
  <2>2. \A i \in 1..n : i < k + 1 <=> i < k \/ i = k
    BY <1>4, <1>5
  <2>3. \A g : (\E i \in 1..n : i < k + 1 /\ j.payees[i] = g)
                 <=> (\E i \in 1..n : i < k /\ j.payees[i] = g) \/ g = h
    BY <1>5, <2>2
  <2>4. \A g : Paid(s, g) <=> g = Pool \/ \E i \in 1..n : i < k /\ j.payees[i] = g
    BY <1>3 DEF Paid
  <2>5. \A g : Paid(s, g)' <=> g = Pool \/ \E i \in 1..n : i < k + 1 /\ j.payees[i] = g
    BY <1>3, <2>1 DEF Paid
  <2>6. QED BY <2>3, <2>4, <2>5
<1>12. ASSUME exact'[s] PROVE toCopper(v) = toCopper(db[h]) + CoinsOf(j, h)
  <2>1. j.delta = share
    BY <1>1, <1>2, <1>3, <1>12 DEF Request
  <2>2. CoinsOf(j, h) = toCopper(share)
    BY <1>2, <1>3, <1>5, <2>1, CoinsOfAre
  <2>3. QED BY <1>9, <2>2
<1>13. Told(s, {"purchase", "sale", "split-evenly"})' => exact'[s]
  BY <1>2, <1>3 DEF Told
<1>14. QED
  <2> HIDE DEF h
  <2>1. QED BY <1>1, <1>5, <1>10, <1>11, <1>12, <1>13, CoinWrite

LEMMA PriceKeeps ==
  ASSUME MarketInv, NEW s \in Slots, Pay(s) \/ Earn(s) PROVE MarketInv'
<1> DEFINE j == job[s]
           h == job[s].purse
           had == toCopper(seen[s][h])
<1>0. exact \in [Slots -> BOOLEAN]
  BY DEF MarketInv, Types
<1>1. PICK x, amount :
        /\ x \in {"pay", "earn"}
        /\ Issues(s, x) /\ Write(s, h, fromCopper(amount))
        /\ exact' = [exact EXCEPT ![s] = exact[s] /\ db[h] = seen[s][h]]
        /\ x = "pay" => amount = had - UnitCost(seen[s][Economy]) /\ amount >= 0
        /\ x = "earn" => amount = had + UnitCredit(seen[s][Economy])
  BY DEF Pay, Earn, RelyOn
<1>2. /\ Busy(s) /\ JobShape(j) /\ pc'[s] = pc[s] + 1 /\ pc[s] \in Nat /\ job' = job /\ Request(s)
      /\ Stands(j.kind, pc[s], x) /\ x \in {"pay", "earn"}
  BY <1>1, IssuedWhere
<1>3. pc[s] = 4 /\ (x = "pay" => j.kind = "purchase") /\ (x = "earn" => j.kind = "sale")
  BY <1>2 DEF Stands
<1>4. /\ h \in Stashes /\ seen[s][h] \in Coins /\ had \in Nat
      /\ UnitCost(seen[s][Economy]) \in Nat /\ UnitCredit(seen[s][Economy]) \in Nat
  <2>1. h \in Stashes /\ j.cost \in Nat
    BY <1>2 DEF JobShape, Jobs
  <2>2. seen[s][h] \in Coins /\ seen[s][Economy] \in [shop : BOOLEAN, markup : Nat]
    BY <1>2, <2>1, RowsAre DEF Request, Legal
  <2>3. QED BY <2>1, <2>2, CoinsAreInts, PricesAreNat
<1>5. amount \in Nat
  BY <1>1, <1>4
<1>6. PICK v : v = fromCopper(amount)
  OBVIOUS
<1>7. v \in Coins /\ toCopper(v) = amount
  BY <1>5, <1>6, CopperRoundTrip
<1>8. /\ exact' \in [Slots -> BOOLEAN] /\ \A t \in Slots \ {s} : exact'[t] = exact[t]
      /\ exact'[s] => exact[s] /\ db[h] = seen[s][h]
  BY <1>0, <1>1
<1>9. Writes(s, h, v) /\ Blind(s)
  BY <1>1, <1>4, <1>6, <1>7, <1>8, PurseWritten DEF Blind
<1>10. \A g \in Stashes : Paid(s, g)' <=> Paid(s, g) \/ g = h
  BY <1>1, <1>2, <1>3 DEF Paid
<1>11. ASSUME exact'[s] PROVE toCopper(v) = toCopper(db[h]) + CoinsOf(j, h)
  <2>1. toCopper(db[h]) = had
    BY <1>8, <1>11
  <2>2. /\ x = "pay" => UnitCost(seen[s][Economy]) = j.cost
        /\ x = "earn" => UnitCredit(seen[s][Economy]) = j.cost
    BY <1>2, <1>3, <1>8, <1>11 DEF Request
  <2>3. /\ x = "pay" => CoinsOf(j, h) = -j.cost
        /\ x = "earn" => CoinsOf(j, h) = j.cost
    BY <1>2, <1>3, <1>4, CoinsOfAre
  <2> HIDE DEF had
  <2>4. QED BY <1>1, <1>4, <1>7, <2>1, <2>2, <2>3
<1>12. Told(s, {"purchase", "sale", "split-evenly"})' => exact'[s]
  BY <1>1, <1>2, <1>3 DEF Told
<1>13. QED
  BY <1>1, <1>4, <1>9, <1>10, <1>11, <1>12, CoinWrite

(***************************************************************************)
(* What the log entries of an action say of the wares of a stash.          *)
(***************************************************************************)
LEMMA GoodsOfAre ==
  ASSUME NEW j, JobShape(j), NEW h
  PROVE  /\ j.kind \in {"purchase", "acquire"} => GoodsOf(j, h) = IF h = j.purse THEN 1 ELSE 0
         /\ j.kind \in {"sale", "consume"} => GoodsOf(j, h) = IF h = j.purse THEN -1 ELSE 0
         /\ j.kind \in {"currency-change", "currency-transfer", "split-evenly"} => GoodsOf(j, h) = 0
         /\ GoodsOf(j, h) \in Int
<1>0. j.kind \in Kinds
  BY DEF JobShape, Jobs
<1>1. CASE j.kind \in {"purchase", "acquire"}
  BY <1>1 DEF GoodsOf
<1>2. CASE j.kind \in {"sale", "consume"}
  BY <1>2 DEF GoodsOf
<1>3. CASE j.kind \in {"currency-change", "currency-transfer", "split-evenly"}
  BY <1>3 DEF GoodsOf
<1>4. QED BY <1>0, <1>1, <1>2, <1>3 DEF Kinds

LEMMA StackRowsAre ==
  ASSUME NEW h \in Stashes, NEW n \in Nat \ {0}
  PROVE  /\ [at |-> h, qty |-> n] \in StackRow /\ [at |-> h, qty |-> n] # NoRow
         /\ \A g : At([at |-> h, qty |-> n], g) <=> g = h
         /\ \A g : QtyAt([at |-> h, qty |-> n], g) = IF g = h THEN n ELSE 0
<1>1. [at |-> h, qty |-> n] \in [at : Stashes, qty : Nat]
  OBVIOUS
<1>2. [at |-> h, qty |-> n] # NoRow
  BY <1>1, NoRowAssumption
<1>3. QED BY <1>2 DEF StackRow, At, QtyAt

LEMMA LegalStack ==
  ASSUME NEW r \in ItemRows, NEW v
  PROVE  Legal(r, v) <=> v \in StackRow \union {NoRow}
BY RowsAre DEF Legal

(***************************************************************************)
(* A stack that the request read and that is still there.                  *)
(***************************************************************************)
LEMMA StackRead ==
  ASSUME MarketInv, NEW s \in Slots, Busy(s), NEW r \in ItemRows, r \in Picks(s), db[r] # NoRow
  PROVE  /\ r \notin Unborn /\ r \in Rows
         /\ seen[s][r] \in StackRow /\ seen[s][r].qty \in Nat \ {0}
         /\ db[r] \in StackRow /\ db[r].at = job[s].purse /\ db[r].qty \in Nat \ {0}
<1>1. Request(s) /\ Homed(s) /\ r \in Rows /\ Legal(r, db[r])
  BY RowsAre DEF MarketInv, Requests, Types
<1>2. Legal(r, seen[s][r]) /\ seen[s][r] # NoRow /\ r \notin Unborn /\ At(db[r], job[s].purse)
  BY <1>1 DEF Request, Homed
<1>3. seen[s][r] \in StackRow /\ db[r] \in StackRow
  BY <1>1, <1>2, LegalStack
<1>4. QED BY <1>1, <1>2, <1>3 DEF StackRow, At

LEMMA StackKeeps ==
  ASSUME MarketInv, NEW s \in Slots, Stack(s) PROVE MarketInv'
<1> DEFINE j == job[s]
           r == target[s]
           h == job[s].purse
<1>0. exact \in [Slots -> BOOLEAN]
  BY DEF MarketInv, Types
<1>1. Issues(s, "stack")
  BY DEF Stack
<1>2. /\ Busy(s) /\ JobShape(j) /\ pc'[s] = pc[s] + 1 /\ pc[s] \in Nat /\ job' = job /\ Request(s)
      /\ Stands(j.kind, pc[s], "stack")
  BY <1>1, IssuedWhere
<1>3. \/ j.kind = "purchase" /\ pc[s] = 6 /\ pc'[s] = 7
      \/ j.kind = "acquire" /\ pc[s] = 2 /\ pc'[s] = 3
  BY <1>2 DEF Stands
<1>4. h \in Stashes /\ j.id \in 1..MaxRequests
  BY <1>2 DEF JobShape, Jobs
<1>5. \A g \in Stashes : GoodsOf(j, g) = IF g = h THEN 1 ELSE 0
  BY <1>2, <1>3, GoodsOfAre
<1>6. CASE r = NoRow /\ Write(s, NewStacks[j.id], [at |-> h, qty |-> 1]) /\ exact' = exact
  <2> DEFINE w == NewStacks[j.id]
  <2>1. PICK v : v = [at |-> h, qty |-> 1]
    OBVIOUS
  <2>2. v \in StackRow /\ \A g \in Stashes : QtyAt(v, g) = IF g = h THEN 1 ELSE 0
    BY <1>4, <2>1, StackRowsAre
  <2>3. w \in ItemRows /\ w \in Rows /\ w \in Unborn /\ db[w] = NoRow
    <3>1. w \in ItemRows /\ w \in Rows
      BY <1>4, RowsAre
    <3>2. Ahead(j.id)
      BY <1>2 DEF Ahead
    <3>3. w \in Unborn
      BY <1>4, <3>2 DEF Unborn
    <3>4. QED BY <3>1, <3>3 DEF MarketInv, IdsOK
  <2>4. Writes(s, w, v) /\ Blind(s)
    BY <1>0, <1>6, <2>1, <2>2, <2>3, LegalStack DEF Write, Writes, Blind
  <2>5. \A x \in ItemRows : Stacked(s, x)' <=> x = w
    BY <1>2, <1>3, <1>6, <2>4 DEF Stacked, Blind
  <2>6. \A g \in Stashes : QtyAt(v, g) = QtyAt(db[w], g) + GoodsOf(j, g)
    BY <1>5, <2>2, <2>3 DEF QtyAt
  <2>7. QED
    <3> HIDE DEF w
    <3>1. QED BY <1>1, <2>3, <2>4, <2>5, <2>6, GoodsWrite
<1>7. CASE /\ r # NoRow /\ db[r] # NoRow
           /\ Write(s, r, [at |-> h, qty |-> seen[s][r].qty + 1])
           /\ RelyOn(s, db[r] = seen[s][r])
  <2>1. r \in ItemRows /\ r \in Picks(s)
    BY <1>2, <1>3, <1>7 DEF Request, Picks
  <2>2. /\ r \notin Unborn /\ r \in Rows
        /\ seen[s][r] \in StackRow /\ seen[s][r].qty \in Nat \ {0}
        /\ db[r] \in StackRow /\ db[r].at = h /\ db[r].qty \in Nat \ {0}
    BY <1>2, <1>7, <2>1, StackRead
  <2>3. PICK n \in Nat \ {0} : n = seen[s][r].qty + 1
    BY <2>2
  <2>4. PICK v : v = [at |-> h, qty |-> n]
    OBVIOUS
  <2>5. /\ v \in StackRow /\ \A g : At(v, g) <=> g = h
        /\ \A g \in Stashes : QtyAt(v, g) = IF g = h THEN n ELSE 0
    BY <1>4, <2>4, StackRowsAre
  <2>6. /\ exact' \in [Slots -> BOOLEAN] /\ \A t \in Slots \ {s} : exact'[t] = exact[t]
        /\ exact'[s] => exact[s] /\ db[r] = seen[s][r]
    BY <1>0, <1>7 DEF RelyOn
  <2>7. \A g \in Stashes : At(db[r], g) => At(v, g)
    BY <1>7, <2>2, <2>5 DEF At
  <2>8. Writes(s, r, v) /\ Blind(s)
    BY <1>7, <2>1, <2>2, <2>3, <2>4, <2>5, <2>6, <2>7, LegalStack DEF Write, Writes, Blind
  <2>9. \A x \in ItemRows : Stacked(s, x)' <=> x = r
    BY <1>2, <1>3, <1>7, <2>8 DEF Stacked, Blind
  <2>10. exact'[s] => \A g \in Stashes : QtyAt(v, g) = QtyAt(db[r], g) + GoodsOf(j, g)
    BY <1>5, <1>7, <2>2, <2>3, <2>5, <2>6 DEF QtyAt
  <2>11. Told(s, {"purchase", "sale", "acquire", "consume"})' => exact'[s]
    BY <1>2, <1>3 DEF Told
  <2>12. QED
    <3> HIDE DEF r
    <3>1. QED BY <1>1, <2>1, <2>8, <2>9, <2>10, <2>11, GoodsWrite
<1>8. QED
  BY <1>6, <1>7 DEF Stack

LEMMA UnstackKeeps ==
  ASSUME MarketInv, NEW s \in Slots, Unstack(s) PROVE MarketInv'
<1> DEFINE j == job[s]
           r == job[s].stack
           h == job[s].purse
<1>0. exact \in [Slots -> BOOLEAN]
  BY DEF MarketInv, Types
<1>1. /\ Issues(s, "unstack") /\ db[r] # NoRow
      /\ Write(s, r, IF seen[s][r].qty - 1 = 0 THEN NoRow ELSE [at |-> h, qty |-> seen[s][r].qty - 1])
      /\ RelyOn(s, db[r] = seen[s][r])
  BY DEF Unstack
<1>2. /\ Busy(s) /\ JobShape(j) /\ pc'[s] = pc[s] + 1 /\ pc[s] \in Nat /\ job' = job /\ Request(s)
      /\ Stands(j.kind, pc[s], "unstack")
  BY <1>1, IssuedWhere
<1>3. \/ j.kind = "sale" /\ pc[s] = 5 /\ pc'[s] = 6
      \/ j.kind = "consume" /\ pc[s] = 2 /\ pc'[s] = 3
  BY <1>2 DEF Stands
<1>4. h \in Stashes /\ r \in ItemRows /\ r # NoRow /\ r \in Picks(s)
  BY <1>2, <1>3 DEF JobShape, Jobs, Picks
<1>5. \A g \in Stashes : GoodsOf(j, g) = IF g = h THEN -1 ELSE 0
  BY <1>2, <1>3, GoodsOfAre
<1>6. /\ r \notin Unborn /\ r \in Rows
      /\ seen[s][r] \in StackRow /\ seen[s][r].qty \in Nat \ {0}
      /\ db[r] \in StackRow /\ db[r].at = h /\ db[r].qty \in Nat \ {0}
  BY <1>1, <1>2, <1>4, StackRead
<1>7. PICK n \in Nat : n = seen[s][r].qty - 1
  BY <1>6
<1>8. PICK v : v = IF n = 0 THEN NoRow ELSE [at |-> h, qty |-> n]
  OBVIOUS
<1>9. /\ v \in StackRow \union {NoRow} /\ At(v, h)
      /\ \A g \in Stashes : QtyAt(v, g) = IF g = h THEN n ELSE 0
  <2>1. CASE n = 0
    BY <1>8, <2>1 DEF At, QtyAt
  <2>2. CASE n # 0
    BY <1>4, <1>8, <2>2, StackRowsAre
  <2>3. QED BY <2>1, <2>2
<1>10. /\ exact' \in [Slots -> BOOLEAN] /\ \A t \in Slots \ {s} : exact'[t] = exact[t]
       /\ exact'[s] => exact[s] /\ db[r] = seen[s][r]
  BY <1>0, <1>1 DEF RelyOn
<1>11. \A g \in Stashes : At(db[r], g) => At(v, g)
  BY <1>1, <1>6, <1>9 DEF At
<1>12. Writes(s, r, v) /\ Blind(s)
  <2>1. Write(s, r, v)
    BY <1>1, <1>7, <1>8
  <2>2. QED
    BY <1>4, <1>6, <1>9, <1>10, <1>11, <2>1, LegalStack DEF Write, Writes, Blind
<1>13. \A x \in ItemRows : Stacked(s, x)' <=> x = r
  BY <1>2, <1>3 DEF Stacked
<1>14. exact'[s] => \A g \in Stashes : QtyAt(v, g) = QtyAt(db[r], g) + GoodsOf(j, g)
  BY <1>1, <1>5, <1>6, <1>7, <1>9, <1>10 DEF QtyAt
<1>15. Told(s, {"purchase", "sale", "acquire", "consume"})' => exact'[s]
  BY <1>2, <1>3 DEF Told
<1>16. QED
  <2> HIDE DEF r
  <2>1. QED BY <1>1, <1>4, <1>12, <1>13, <1>14, <1>15, GoodsWrite


(***************************************************************************)
(* A statement that finds nothing to write.                                *)
(***************************************************************************)
LEMMA SkipKeeps ==
  ASSUME MarketInv, NEW s \in Slots, NEW x \in {"deliver", "restock"}, Issues(s, x), Skip(s),
         \A e \in StockRows : ~Shelved(s, e)'
  PROVE  MarketInv'
<1>1. Blind(s) /\ UNCHANGED <<db, draft, lock>>
  BY DEF Skip, Blind, MarketInv, Types
<1>2. /\ Turn(s) /\ Request(s)' /\ Busy(s) /\ Unborn' = Unborn
      /\ job' = job /\ pc'[s] = pc[s] + 1 /\ Picks(s)' = Picks(s)
  BY <1>1, BlindTurn
<1>3. Request(s) /\ Homed(s) /\ Stands(job[s].kind, pc[s], x) /\ pc[s] \in Nat
  BY IssuedWhere
<1>4. target'[s] = target[s] /\ job'[s] = job[s]
  BY <1>1, <1>2 DEF Blind
<1>5. \A h : Paid(s, h)' <=> Paid(s, h)
  BY <1>2, <1>3, <1>4 DEF Stands, Paid
<1>6. \A r : Stacked(s, r)' <=> Stacked(s, r)
  BY <1>2, <1>3, <1>4 DEF Stands, Stacked
<1>7. \A e : ~Shelved(s, e)
  BY <1>3 DEF Stands, Shelved
<1>8. \A e : ~Shelved(s, e)'
  <2>1. \A e : Shelved(s, e)' => e \in StockRows
    <3>1. JobShape(job[s]) /\ (target[s] # NoRow => target[s] \in ItemRows \union StockRows)
      BY <1>3 DEF Request
    <3>2. job[s].kind = "sale" /\ target[s] # NoRow => target[s] \in StockRows
      BY <1>3 DEF Request
    <3>3. /\ NewEntries[job[s].id] \in StockRows
          /\ job[s].kind = "purchase" => job[s].entry \in StockRows
      BY <3>1, RowsAre DEF JobShape, Jobs
    <3>4. QED BY <1>4, <3>2, <3>3, RowsAre DEF Shelved
  <2>2. QED BY <2>1
<1>9. WritesAsBefore(s)
  BY <1>1, <1>5, <1>6, <1>7, <1>8 DEF WritesAsBefore, Blind
<1>10. Homed(s)'
  <2>1. HomesKept
    BY <1>1 DEF HomesKept
  <2>2. QED BY <1>2, <1>3, <1>4, <2>1, HomedStays
<1>11. QED
  BY <1>1, <1>2, <1>9, <1>10, ReadKeeps

LEMMA LegalEntry ==
  ASSUME NEW e \in StockRows, NEW v
  PROVE  Legal(e, v) <=> v \in Nat \union {Unlimited, NoRow}
BY RowsAre DEF Legal

LEMMA CountsAre ==
  /\ \A n \in Nat : n \notin {NoRow, Unlimited} /\ Count(n) = n
  /\ Count(NoRow) = 0 /\ Count(Unlimited) = 0
BY NoRowAssumption DEF Count, Unlimited

LEMMA DeliverKeeps ==
  ASSUME MarketInv, NEW s \in Slots, Deliver(s) PROVE MarketInv'
<1> DEFINE j == job[s]
           e == job[s].entry
<1>1. Issues(s, "deliver")
  BY DEF Deliver
<1>2. /\ Busy(s) /\ JobShape(j) /\ pc'[s] = pc[s] + 1 /\ pc[s] \in Nat /\ job' = job /\ Request(s)
      /\ Stands(j.kind, pc[s], "deliver")
  BY <1>1, IssuedWhere
<1>3. j.kind = "purchase" /\ pc[s] = 7 /\ pc'[s] = 8
  BY <1>2 DEF Stands
<1>4. e \in StockRows /\ e \in Rows /\ e \notin Stashes /\ e \notin ItemRows
  BY <1>2, <1>3, RowsAre DEF JobShape, Jobs
<1>5. CASE seen[s][e] = Unlimited /\ Skip(s)
  <2>1. \A x \in StockRows : ~Shelved(s, x)'
    BY <1>2, <1>3, <1>5 DEF Skip, Shelved
  <2>2. QED BY <1>1, <1>5, <2>1, SkipKeeps
<1>6. CASE /\ seen[s][e] # Unlimited
           /\ draft[e] # NoRow /\ draft[e] >= 1
           /\ Write(s, e, draft[e] - 1)
           /\ exact' = exact
  <2>1. \A x \in StockRows : ~Shelved(s, x)
    BY <1>3 DEF Shelved
  <2>2. draft[e] = db[e] /\ Legal(e, db[e])
    <3>1. lock[e] # s
      BY <1>4, <2>1 DEF MarketInv, Locked, Wrote
    <3>2. QED BY <1>4, <1>6, <3>1 DEF MarketInv, Clean, Types, Write
  <2>3. PICK n \in Nat \ {0} : n = db[e]
    BY <1>4, <1>6, <2>2, LegalEntry DEF Unlimited
  <2>4. PICK v \in Nat : v = n - 1
    BY <2>3
  <2>5. Write(s, e, v)
    BY <1>6, <2>2, <2>3, <2>4
  <2>6. Writes(s, e, v) /\ Blind(s)
    BY <1>4, <1>6, <2>4, <2>5, LegalEntry DEF Write, Writes, Blind, MarketInv, Types
  <2>7. \A x \in StockRows : Shelved(s, x)' <=> x = e
    BY <1>2, <1>3, <1>6, <2>6 DEF Shelved, Blind
  <2>8. Count(v) = Count(db[e]) + StockOf(s)
    BY <1>3, <1>6, <2>3, <2>4, CountsAre DEF StockOf
  <2>9. QED
    <3> HIDE DEF e
    <3>1. QED BY <1>1, <1>4, <2>6, <2>7, <2>8, StockWrite
<1>7. QED
  BY <1>5, <1>6 DEF Deliver

LEMMA RestockKeeps ==
  ASSUME MarketInv, NEW s \in Slots, Restock(s) PROVE MarketInv'
<1> DEFINE j == job[s]
           e == target[s]
<1>0. exact \in [Slots -> BOOLEAN]
  BY DEF MarketInv, Types
<1>1. Issues(s, "restock")
  BY DEF Restock
<1>2. /\ Busy(s) /\ JobShape(j) /\ pc'[s] = pc[s] + 1 /\ pc[s] \in Nat /\ job' = job /\ Request(s)
      /\ Stands(j.kind, pc[s], "restock")
  BY <1>1, IssuedWhere
<1>3. j.kind = "sale" /\ pc[s] = 7 /\ pc'[s] = 8
  BY <1>2 DEF Stands
<1>4. CASE e = NoRow /\ Write(s, NewEntries[j.id], 1) /\ exact' = exact
  <2> DEFINE w == NewEntries[j.id]
  <2>1. w \in StockRows /\ w \in Rows /\ w \notin ItemRows /\ db[w] = NoRow
    <3>1. j.id \in 1..MaxRequests /\ Ahead(j.id)
      BY <1>2 DEF JobShape, Jobs, Ahead
    <3>2. w \in StockRows /\ w \in Rows /\ w \notin ItemRows
      BY <3>1, RowsAre
    <3>3. w \in Unborn
      BY <3>1 DEF Unborn
    <3>4. QED BY <3>2, <3>3 DEF MarketInv, IdsOK
  <2>2. Writes(s, w, 1) /\ Blind(s)
    BY <1>0, <1>4, <2>1, LegalEntry DEF Write, Writes, Blind
  <2>3. \A x \in StockRows : Shelved(s, x)' <=> x = w
    BY <1>2, <1>3, <1>4, <2>2, RowsAre DEF Shelved, Blind
  <2>4. Count(1) = Count(db[w]) + StockOf(s)
    BY <1>3, <1>4, <2>1, CountsAre DEF StockOf
  <2>5. QED
    <3> HIDE DEF w
    <3>1. QED BY <1>1, <2>1, <2>2, <2>3, <2>4, StockWrite
<1>5. CASE e # NoRow /\ seen[s][e] = Unlimited /\ Skip(s)
  <2>1. \A x \in StockRows : ~Shelved(s, x)'
    BY <1>2, <1>3, <1>5 DEF Skip, Shelved
  <2>2. QED BY <1>1, <1>5, <2>1, SkipKeeps
<1>6. CASE /\ e # NoRow /\ seen[s][e] # Unlimited /\ db[e] # NoRow
           /\ Write(s, e, seen[s][e] + 1)
           /\ RelyOn(s, db[e] = seen[s][e])
  <2>1. e \in StockRows /\ e \in Picks(s)
    BY <1>2, <1>3, <1>6 DEF Request, Picks
  <2>2. e \in Rows /\ e \notin ItemRows /\ Legal(e, seen[s][e]) /\ seen[s][e] # NoRow
    BY <1>2, <2>1, RowsAre DEF Request
  <2>3. PICK n \in Nat : n = seen[s][e]
    BY <1>6, <2>1, <2>2, LegalEntry
  <2>4. PICK v \in Nat : v = n + 1
    BY <2>3
  <2>5. /\ exact' \in [Slots -> BOOLEAN] /\ \A t \in Slots \ {s} : exact'[t] = exact[t]
        /\ exact'[s] => exact[s] /\ db[e] = seen[s][e]
    BY <1>0, <1>6 DEF RelyOn
  <2>6. Write(s, e, v)
    BY <1>6, <2>3, <2>4
  <2>7. Writes(s, e, v) /\ Blind(s)
    BY <2>1, <2>2, <2>4, <2>5, <2>6, LegalEntry DEF Write, Writes, Blind
  <2>8. \A x \in StockRows : Shelved(s, x)' <=> x = e
    BY <1>2, <1>3, <1>6, <2>7 DEF Shelved, Blind
  <2>9. exact'[s] => Count(v) = Count(db[e]) + StockOf(s)
    BY <1>3, <1>6, <2>3, <2>4, <2>5, CountsAre DEF StockOf
  <2>10. Told(s, {"sale"})' => exact'[s]
    BY <1>2, <1>3 DEF Told
  <2>11. QED
    <3> HIDE DEF e
    <3>1. QED BY <1>1, <2>1, <2>7, <2>8, <2>9, <2>10, StockWrite
<1>7. QED
  BY <1>4, <1>5, <1>6 DEF Restock

(***************************************************************************)
(* Every statement keeps the invariant.                                    *)
(***************************************************************************)
LEMMA StatementKeeps ==
  ASSUME MarketInv, NEW s \in Slots, Statement(s) PROVE MarketInv'
BY ChangeKeeps, ReadsKeep, KeepKeeps, ShareKeeps, PriceKeeps, FindsKeep, StackKeeps,
   UnstackKeeps, DeliverKeeps, RestockKeeps DEF Statement


-----------------------------------------------------------------------------
(* How the sums follow the committed rows.                                 *)

LEMMA GoodsMove ==
  ASSUME RowsOK, RowsOK', NEW h \in Stashes, NEW w \in ItemRows,
         \A r \in ItemRows \ {w} : db'[r] = db[r]
  PROVE  GoodsAt(h)' = GoodsAt(h) - QtyAt(db[w], h) + QtyAt(db'[w], h)
<1> DEFINE f == Qtys(db, h)
           g == Qtys(db', h)
<1>1. GoodsAt(h) = Total(f, ItemRows) /\ GoodsAt(h)' = Total(g, ItemRows)
  BY AreCounted, AreCountedNext DEF Counted
<1>2. \A r \in ItemRows : f[r] \in Int /\ g[r] \in Int
  BY RowsAre, QtyInt DEF Qtys, RowsOK
<1>3. /\ \A r \in ItemRows \ {w} : g[r] = f[r]
      /\ f[w] = QtyAt(db[w], h) /\ g[w] = QtyAt(db'[w], h)
  BY DEF Qtys
<1> HIDE DEF f, g
<1>4. Total(g, ItemRows) = Total(f, ItemRows) - f[w] + g[w]
  BY <1>2, <1>3, TablesAreFinite, TotalReplace
<1>5. QED BY <1>1, <1>3, <1>4

LEMMA GoodsSame ==
  ASSUME RowsOK, RowsOK', NEW h \in Stashes, \A r \in ItemRows : db'[r] = db[r]
  PROVE  GoodsAt(h)' = GoodsAt(h)
<1> DEFINE f == Qtys(db, h)
           g == Qtys(db', h)
<1>1. GoodsAt(h) = Total(f, ItemRows) /\ GoodsAt(h)' = Total(g, ItemRows)
  BY AreCounted, AreCountedNext DEF Counted
<1>2. \A r \in ItemRows : g[r] = f[r]
  BY DEF Qtys
<1> HIDE DEF f, g
<1>3. QED BY <1>1, <1>2, TablesAreFinite, TotalAgrees

LEMMA StockMove ==
  ASSUME RowsOK, RowsOK', NEW w \in StockRows, \A e \in StockRows \ {w} : db'[e] = db[e]
  PROVE  InStock' = InStock - Count(db[w]) + Count(db'[w])
<1> DEFINE f == Counts(db)
           g == Counts(db')
<1>1. InStock = Total(f, StockRows) /\ InStock' = Total(g, StockRows)
  BY AreCounted, AreCountedNext DEF Counted
<1>2. \A e \in StockRows : f[e] \in Int /\ g[e] \in Int
  BY RowsAre, CountInt DEF Counts, RowsOK
<1>3. /\ \A e \in StockRows \ {w} : g[e] = f[e]
      /\ f[w] = Count(db[w]) /\ g[w] = Count(db'[w])
  BY DEF Counts
<1> HIDE DEF f, g
<1>4. Total(g, StockRows) = Total(f, StockRows) - f[w] + g[w]
  BY <1>2, <1>3, TablesAreFinite, TotalReplace
<1>5. QED BY <1>1, <1>3, <1>4

LEMMA StockSame ==
  ASSUME RowsOK, RowsOK', \A e \in StockRows : db'[e] = db[e]
  PROVE  InStock' = InStock
<1> DEFINE f == Counts(db)
           g == Counts(db')
<1>1. InStock = Total(f, StockRows) /\ InStock' = Total(g, StockRows)
  BY AreCounted, AreCountedNext DEF Counted
<1>2. \A e \in StockRows : g[e] = f[e]
  BY DEF Counts
<1> HIDE DEF f, g
<1>3. QED BY <1>1, <1>2, TablesAreFinite, TotalAgrees

LEMMA SumsAreInts ==
  ASSUME RowsOK
  PROVE  (\A h \in Stashes : GoodsAt(h) \in Int) /\ InStock \in Int
<1>1. ASSUME NEW h \in Stashes PROVE GoodsAt(h) \in Int
  <2> DEFINE f == Qtys(db, h)
  <2>1. GoodsAt(h) = Total(f, ItemRows) /\ \A r \in ItemRows : f[r] \in Int
    BY AreCounted, RowsAre, QtyInt DEF Counted, Qtys, RowsOK
  <2> HIDE DEF f
  <2>2. QED BY <2>1, TablesAreFinite, TotalInt
<1>2. InStock \in Int
  <2> DEFINE f == Counts(db)
  <2>1. InStock = Total(f, StockRows) /\ \A e \in StockRows : f[e] \in Int
    BY AreCounted, RowsAre, CountInt DEF Counted, Counts, RowsOK
  <2> HIDE DEF f
  <2>2. QED BY <2>1, TablesAreFinite, TotalInt
<1>3. QED BY <1>1, <1>2

-----------------------------------------------------------------------------
(* The end of a transaction.                                               *)

(***************************************************************************)
(* s ends, and its locks with it: its rows are committed, or its drafts    *)
(* dropped.                                                                *)
(***************************************************************************)
Ends(s) ==
  /\ Release(s) /\ DOMAIN db' = Rows /\ DOMAIN draft' = Rows
  /\ \A r \in Rows :
       /\ lock[r] = s => db'[r] = draft'[r] /\ db'[r] \in {db[r], draft[r]}
       /\ lock[r] # s => db'[r] = db[r] /\ draft'[r] = draft[r]

LEMMA Released ==
  ASSUME MarketInv, NEW s \in Slots, Busy(s), Release(s)
  PROVE  /\ \A t \in Slots \ {s} : Same(t) /\ (Busy(t)' <=> Busy(t))
         /\ ~Busy(s)' /\ Unborn' \subseteq Unborn
         /\ NewStacks[job[s].id] \notin Unborn' /\ NewEntries[job[s].id] \notin Unborn'
         /\ \A r \in Rows : lock'[r] = IF lock[r] = s THEN Free ELSE lock[r]
         /\ lock' \in [Rows -> Slots \union {Free}] /\ DOMAIN seen' = Slots
         /\ job' \in [Slots -> Jobs \union {Idle}] /\ pc' \in [Slots -> Nat]
         /\ target' \in [Slots -> ItemRows \union StockRows \union {NoRow}]
         /\ exact' \in [Slots -> BOOLEAN] /\ taken' = taken
<1>0. Types /\ IdsOK /\ job[s].id \in 1..MaxRequests /\ taken \in Nat
  BY DEF MarketInv, Requests, Request, JobShape, Jobs, Types
<1>1. /\ lock' = [r \in Rows |-> IF lock[r] = s THEN Free ELSE lock[r]]
      /\ job' = [job EXCEPT ![s] = Idle] /\ pc' = [pc EXCEPT ![s] = 0]
      /\ seen' = [seen EXCEPT ![s] = <<>>] /\ target' = [target EXCEPT ![s] = NoRow]
      /\ exact' = [exact EXCEPT ![s] = TRUE] /\ taken' = taken
  BY DEF Release
<1>2. /\ lock' \in [Rows -> Slots \union {Free}] /\ DOMAIN seen' = Slots
      /\ job' \in [Slots -> Jobs \union {Idle}] /\ pc' \in [Slots -> Nat]
      /\ target' \in [Slots -> ItemRows \union StockRows \union {NoRow}]
  BY <1>0, <1>1 DEF Types
<1>3. exact' \in [Slots -> BOOLEAN]
  BY <1>0, <1>1 DEF Types
<1>4. \A r \in Rows : lock'[r] = IF lock[r] = s THEN Free ELSE lock[r]
  BY <1>1
<1>5. \A t \in Slots \ {s} : Same(t) /\ (Busy(t)' <=> Busy(t))
  BY <1>0, <1>1 DEF Types, Same, Busy, Idle
<1>6. job'[s] = Idle /\ ~Busy(s)'
  BY <1>0, <1>1 DEF Types, Busy, Idle
<1>7. \A n \in 1..MaxRequests : Ahead(n)' => Ahead(n) /\ n # job[s].id
  <2>1. \A n \in 1..MaxRequests : n > taken => n # job[s].id
    BY <1>0 DEF IdsOK
  <2>2. \A t \in Slots : Busy(t)' => t # s /\ Busy(t) /\ job'[t] = job[t] /\ job[t].id # job[s].id
    BY <1>0, <1>5, <1>6 DEF IdsOK, Same
  <2>3. QED BY <1>1, <2>1, <2>2 DEF Ahead
<1>8. Unborn' \subseteq Unborn
  BY <1>7 DEF Unborn
<1>9. NewStacks[job[s].id] \notin Unborn' /\ NewEntries[job[s].id] \notin Unborn'
  <2>1. \A n \in 1..MaxRequests : n # job[s].id =>
          /\ NewStacks[job[s].id] \notin {NewStacks[n], NewEntries[n]}
          /\ NewEntries[job[s].id] \notin {NewStacks[n], NewEntries[n]}
    BY <1>0, IdsAssumption, RowsAre
  <2>2. QED BY <1>7, <2>1 DEF Unborn
<1>10. QED
  BY <1>1, <1>2, <1>3, <1>4, <1>5, <1>6, <1>8, <1>9

LEMMA EndKeeps ==
  ASSUME MarketInv, NEW s \in Slots, Busy(s), Ends(s),
         coinsLogged' \in [Stashes -> Int], goodsLogged' \in [Stashes -> Int], stockLogged' \in Int
  PROVE  Types' /\ Clean' /\ IdsOK' /\ Locked' /\ Requests'
<1>1. Release(s)
  BY DEF Ends
<1>2. /\ \A t \in Slots \ {s} : Same(t) /\ (Busy(t)' <=> Busy(t))
      /\ ~Busy(s)' /\ Unborn' \subseteq Unborn
      /\ NewStacks[job[s].id] \notin Unborn' /\ NewEntries[job[s].id] \notin Unborn'
      /\ \A r \in Rows : lock'[r] = IF lock[r] = s THEN Free ELSE lock[r]
      /\ lock' \in [Rows -> Slots \union {Free}] /\ DOMAIN seen' = Slots
      /\ job' \in [Slots -> Jobs \union {Idle}] /\ pc' \in [Slots -> Nat]
      /\ target' \in [Slots -> ItemRows \union StockRows \union {NoRow}]
      /\ exact' \in [Slots -> BOOLEAN] /\ taken' = taken
  BY <1>1, Released
<1>3. \A r \in Rows : Legal(r, db'[r]) /\ Legal(r, draft'[r])
  BY DEF MarketInv, Types, Ends
<1>4. Types'
  BY <1>2, <1>3 DEF MarketInv, Types, Ends
<1>5. Clean'
  BY <1>2 DEF MarketInv, Clean, Ends
<1>6. IdsOK'
  <2>1. \A r \in Unborn' : db'[r] = NoRow
    <3> SUFFICES ASSUME NEW r \in Unborn' PROVE db'[r] = NoRow
      OBVIOUS
    <3>1. r \in Unborn /\ db[r] = NoRow
      BY <1>2 DEF MarketInv, IdsOK
    <3>2. r \in Rows /\ r \notin Stashes
      BY <3>1, RowsAre DEF Unborn
    <3>3. CASE lock[r] # s
      BY <3>1, <3>2, <3>3 DEF Ends
    <3>4. CASE lock[r] = s
      <4>1. Wrote(s, r) /\ Homed(s)
        BY <3>2, <3>4 DEF MarketInv, Locked, Requests
      <4>2. r \notin Picks(s)
        BY <3>1, <4>1 DEF Homed
      <4>3. r # NewStacks[job[s].id] /\ r # NewEntries[job[s].id] /\ r # NoRow
        BY <1>2, <3>2, RowsAre
      <4>4. FALSE
        BY <3>2, <4>1, <4>2, <4>3 DEF Wrote, Stacked, Shelved, Picks
      <4>5. QED BY <4>4
    <3>5. QED BY <3>3, <3>4
  <2>2. \A t \in Slots : Busy(t)' => t # s /\ Busy(t) /\ job'[t] = job[t]
    BY <1>2 DEF Same
  <2>3. QED BY <1>2, <2>1, <2>2 DEF MarketInv, IdsOK
<1>7. \A t \in Slots \ {s} : Kept(t)
  <2>1. s # Free
    BY LockAssumption
  <2>2. \A t \in Slots \ {s} : t # Free
    BY LockAssumption
  <2>3. QED BY <1>2, <2>1, <2>2 DEF Kept, Ends
<1>8. HomesKept
  <2>1. \A r \in ItemRows : db'[r] \in {db[r], draft[r]} /\ draft'[r] \in {db[r], draft[r]}
    BY RowsAre DEF Ends
  <2>2. QED BY <2>1 DEF HomesKept
<1>9. \A t \in Slots \ {s} :
         /\ \A r \in Rows : lock'[r] = t <=> (Busy(t) /\ Wrote(t, r))'
         /\ Busy(t)' => (Request(t) /\ Homed(t) /\ Drafted(t))'
  BY <1>2, <1>7, <1>8, OthersKeep
<1>10. \A r \in Rows : lock'[r] # s
  BY <1>2, LockAssumption
<1>11. Locked' /\ Requests'
  BY <1>2, <1>9, <1>10 DEF Locked, Requests
<1>12. QED BY <1>4, <1>5, <1>6, <1>11

LEMMA AbortKeeps ==
  ASSUME MarketInv, NEW s \in Slots, Abort(s) PROVE MarketInv'
<1>1. /\ Busy(s) /\ Release(s) /\ db' = db /\ UNCHANGED <<logged, stale>>
      /\ draft' = [r \in Rows |-> IF lock[r] = s THEN db[r] ELSE draft[r]]
  BY DEF Abort
<1>2. Ends(s)
  BY <1>1 DEF Ends, MarketInv, Types
<1>3. Types' /\ Clean' /\ IdsOK' /\ Locked' /\ Requests'
  <2>1. /\ coinsLogged' \in [Stashes -> Int] /\ goodsLogged' \in [Stashes -> Int]
        /\ stockLogged' \in Int
    BY <1>1 DEF MarketInv, Types, logged
  <2>2. QED BY <1>1, <1>2, <2>1, EndKeeps
<1>4. CoinsAsLogged' /\ WaresAsLogged'
  BY <1>1, LogStays
<1>5. QED BY <1>3, <1>4 DEF MarketInv


(***************************************************************************)
(* When its last statement is done, a request has written whatever its log *)
(* entries speak of.                                                       *)
(***************************************************************************)
LEMMA EndCoins ==
  ASSUME MarketInv, NEW s \in Slots, Busy(s), AtEnd(s), NEW h \in Stashes, ~Paid(s, h)
  PROVE  CoinsOf(job[s], h) = 0
<1> DEFINE j == job[s]
<1>1. Request(s) /\ JobShape(j) /\ j.kind \in Kinds
  BY DEF MarketInv, Requests, Request, JobShape, Jobs
<1>2. pc[s] = Steps(j) + 1
  BY <1>1, ScriptLength DEF AtEnd
<1>3. CASE j.kind = "currency-change"
  <2>1. pc[s] = 2
    BY <1>1, <1>2, <1>3, StepsAre
  <2>2. QED BY <1>1, <1>3, <2>1, CoinsOfAre DEF Paid
<1>4. CASE j.kind = "currency-transfer"
  <2>1. pc[s] = 3
    BY <1>1, <1>2, <1>4, StepsAre
  <2>2. QED BY <1>1, <1>4, <2>1, CoinsOfAre DEF Paid
<1>5. CASE j.kind = "split-evenly"
  <2>1. pc[s] = Len(j.payees) + 3 /\ Len(j.payees) \in Nat
    BY <1>1, <1>2, <1>5, StepsAre, ScriptOfSplit
  <2>2. pc[s] >= 3 /\ \A i \in 1..Len(j.payees) : i < pc[s] - 2
    BY <2>1
  <2>3. h # Pool /\ ~\E i \in 1..Len(j.payees) : j.payees[i] = h
    BY <1>5, <2>2 DEF Paid
  <2>4. QED BY <1>1, <1>5, <2>3, CoinsOfAre
<1>6. CASE j.kind \in {"purchase", "sale"}
  <2>1. pc[s] = 8
    BY <1>1, <1>2, <1>6, StepsAre
  <2>2. QED BY <1>1, <1>6, <2>1, CoinsOfAre DEF Paid
<1>7. CASE j.kind \in {"acquire", "consume"}
  BY <1>1, <1>7, CoinsOfAre
<1>8. QED
  BY <1>1, <1>3, <1>4, <1>5, <1>6, <1>7 DEF Kinds

LEMMA EndGoods ==
  ASSUME MarketInv, NEW s \in Slots, Busy(s), AtEnd(s)
  PROVE  \/ \E w \in ItemRows : \A r \in ItemRows : Stacked(s, r) <=> r = w
         \/ (\A r \in ItemRows : ~Stacked(s, r)) /\ \A h : GoodsOf(job[s], h) = 0
<1> DEFINE j == job[s]
<1>1. Request(s) /\ JobShape(j) /\ j \in Jobs /\ j.kind \in Kinds
  BY DEF MarketInv, Requests, Request, JobShape, Jobs
<1>2. pc[s] = Steps(j) + 1
  BY <1>1, ScriptLength DEF AtEnd
<1>3. /\ j.kind \in {"acquire", "consume"} => pc[s] = 3
      /\ j.kind \in {"purchase", "sale"} => pc[s] = 8
  BY <1>1, <1>2, StepsAre
<1>4. CASE j.kind \in {"purchase", "acquire"}
  <2>1. PICK w : w = IF target[s] = NoRow THEN NewStacks[j.id] ELSE target[s]
    OBVIOUS
  <2>2. j.id \in 1..MaxRequests
    BY <1>1 DEF Jobs
  <2>3. target[s] # NoRow => target[s] \in ItemRows
    BY <1>1, <1>4 DEF Request
  <2>4. w \in ItemRows
    BY <2>1, <2>2, <2>3, RowsAre
  <2>5. \A r \in ItemRows : Stacked(s, r) <=> r = w
    BY <1>3, <1>4, <2>1 DEF Stacked
  <2>6. QED BY <2>4, <2>5
<1>5. CASE j.kind \in {"sale", "consume"}
  <2>1. j.stack \in ItemRows
    BY <1>1, <1>5 DEF JobShape, Jobs
  <2>2. \A r \in ItemRows : Stacked(s, r) <=> r = j.stack
    BY <1>3, <1>5 DEF Stacked
  <2>3. QED BY <2>1, <2>2
<1>6. CASE j.kind \in {"currency-change", "currency-transfer", "split-evenly"}
  BY <1>1, <1>6, GoodsOfAre DEF Stacked
<1>7. QED
  BY <1>1, <1>4, <1>5, <1>6 DEF Kinds

LEMMA EndStock ==
  ASSUME MarketInv, NEW s \in Slots, Busy(s), AtEnd(s)
  PROVE  /\ StockOf(s) \in Int
         /\ \/ \E w \in StockRows : \A e \in StockRows : Shelved(s, e) <=> e = w
            \/ (\A e \in StockRows : ~Shelved(s, e)) /\ StockOf(s) = 0
<1> DEFINE j == job[s]
<1>1. Request(s) /\ JobShape(j) /\ j \in Jobs /\ j.kind \in Kinds
  BY DEF MarketInv, Requests, Request, JobShape, Jobs
<1>2. pc[s] = Steps(j) + 1
  BY <1>1, ScriptLength DEF AtEnd
<1>3. j.kind \in {"purchase", "sale"} => pc[s] = 8
  BY <1>1, <1>2, StepsAre
<1>4. StockOf(s) \in Int
  BY DEF StockOf
<1>5. CASE j.kind = "purchase"
  <2>1. j.entry \in StockRows
    BY <1>1, <1>5 DEF JobShape, Jobs
  <2>2. CASE seen[s][j.entry] = Unlimited
    BY <1>5, <2>2 DEF Shelved, StockOf
  <2>3. CASE seen[s][j.entry] # Unlimited
    <3>1. \A e \in StockRows : Shelved(s, e) <=> e = j.entry
      BY <1>3, <1>5, <2>3 DEF Shelved
    <3>2. QED BY <1>4, <2>1, <3>1
  <2>4. QED BY <1>4, <2>2, <2>3
<1>6. CASE j.kind = "sale"
  <2>1. CASE target[s] = NoRow
    <3>1. NewEntries[j.id] \in StockRows
      BY <1>1, RowsAre DEF Jobs
    <3>2. \A e \in StockRows : Shelved(s, e) <=> e = NewEntries[j.id]
      BY <1>3, <1>6, <2>1, RowsAre DEF Shelved
    <3>3. QED BY <1>4, <3>1, <3>2
  <2>2. CASE target[s] # NoRow /\ seen[s][target[s]] = Unlimited
    BY <1>6, <2>2 DEF Shelved, StockOf
  <2>3. CASE target[s] # NoRow /\ seen[s][target[s]] # Unlimited
    <3>1. target[s] \in StockRows
      BY <1>1, <1>6, <2>3 DEF Request
    <3>2. \A e \in StockRows : Shelved(s, e) <=> e = target[s]
      BY <1>3, <1>6, <2>3 DEF Shelved
    <3>3. QED BY <1>4, <3>1, <3>2
  <2>4. QED BY <1>4, <2>1, <2>2, <2>3
<1>7. CASE j.kind \notin {"purchase", "sale"}
  BY <1>7 DEF Shelved, StockOf
<1>8. QED
  BY <1>5, <1>6, <1>7

LEMMA CommitKeeps ==
  ASSUME MarketInv, NEW s \in Slots, Commit(s) PROVE MarketInv'
<1> DEFINE j == job[s]
<1>1. /\ Busy(s) /\ AtEnd(s) /\ Release(s) /\ draft' = draft
      /\ db' = [r \in Rows |-> IF lock[r] = s THEN draft[r] ELSE db[r]]
      /\ coinsLogged' = [h \in Stashes |-> coinsLogged[h] + CoinsOf(j, h)]
      /\ goodsLogged' = [h \in Stashes |-> goodsLogged[h] + GoodsOf(j, h)]
      /\ stockLogged' = stockLogged + StockOf(s)
      /\ stale' = IF exact[s] THEN stale ELSE stale \union {j.kind}
  BY DEF Commit
<1>2. JobShape(j) /\ Drafted(s) /\ Types
  BY <1>1 DEF MarketInv, Requests, Request
<1>3. /\ coinsLogged \in [Stashes -> Int] /\ goodsLogged \in [Stashes -> Int]
      /\ stockLogged \in Int
  BY <1>2 DEF Types
<1>4. /\ \A h \in Stashes : CoinsOf(j, h) \in Int
      /\ \A h \in Stashes : GoodsOf(j, h) \in Int
      /\ StockOf(s) \in Int
  BY <1>1, <1>2, CoinsOfAre, GoodsOfAre, EndStock
<1>5. /\ coinsLogged' \in [Stashes -> Int] /\ goodsLogged' \in [Stashes -> Int]
      /\ stockLogged' \in Int
  BY <1>1, <1>3, <1>4
<1>6. Ends(s)
  BY <1>1, <1>2 DEF Ends, Types
<1>7. Types' /\ Clean' /\ IdsOK' /\ Locked' /\ Requests'
  BY <1>1, <1>5, <1>6, EndKeeps
<1>8. RowsOK /\ RowsOK'
  BY <1>2, <1>7 DEF Types, RowsOK
<1>9. \A r \in Rows : db'[r] = IF Wrote(s, r) THEN draft[r] ELSE db[r]
  BY <1>1 DEF MarketInv, Locked
<1>10. \A K : Fresh(K)' => Fresh(K) /\ Told(s, K)
  BY <1>1 DEF Fresh, Told
<1>11. CoinsAsLogged'
  <2> SUFFICES ASSUME Fresh({"purchase", "sale", "split-evenly"})', NEW h \in Stashes
               PROVE  toCopper(db'[h]) = coinsLogged'[h]
    BY DEF CoinsAsLogged
  <2>1. Fresh({"purchase", "sale", "split-evenly"}) /\ Told(s, {"purchase", "sale", "split-evenly"})
    BY <1>10
  <2>2. toCopper(db[h]) = coinsLogged[h]
    BY <2>1 DEF MarketInv, CoinsAsLogged
  <2>3. db'[h] = IF Paid(s, h) THEN draft[h] ELSE db[h]
    BY <1>9, RowsAre DEF Wrote
  <2>4. Paid(s, h) => toCopper(draft[h]) = toCopper(db[h]) + CoinsOf(j, h)
    BY <1>2, <2>1 DEF Drafted, CoinsDrafted
  <2>5. ~Paid(s, h) => CoinsOf(j, h) = 0
    BY <1>1, EndCoins
  <2>6. coinsLogged'[h] = coinsLogged[h] + CoinsOf(j, h) /\ coinsLogged[h] \in Int
    BY <1>1, <1>3
  <2>7. QED BY <2>2, <2>3, <2>4, <2>5, <2>6
<1>12. ASSUME Fresh({"purchase", "sale", "acquire", "consume"})', NEW h \in Stashes
       PROVE  GoodsAt(h)' = goodsLogged'[h]
  <2>1. /\ Fresh({"purchase", "sale", "acquire", "consume"})
        /\ Told(s, {"purchase", "sale", "acquire", "consume"})
    BY <1>10, <1>12
  <2>2. GoodsAt(h) = goodsLogged[h] /\ goodsLogged[h] \in Int
    BY <1>3, <2>1 DEF MarketInv, WaresAsLogged
  <2>3. goodsLogged'[h] = goodsLogged[h] + GoodsOf(j, h) /\ GoodsOf(j, h) \in Int
    BY <1>1, <1>4
  <2>4. \A r \in ItemRows : db'[r] = IF Stacked(s, r) THEN draft[r] ELSE db[r]
    BY <1>9, RowsAre DEF Wrote
  <2>5. CASE \E w \in ItemRows : \A r \in ItemRows : Stacked(s, r) <=> r = w
    <3>1. PICK w \in ItemRows : \A r \in ItemRows : Stacked(s, r) <=> r = w
      BY <2>5
    <3>2. db'[w] = draft[w] /\ \A r \in ItemRows \ {w} : db'[r] = db[r]
      BY <2>4, <3>1
    <3>3. QtyAt(draft[w], h) = QtyAt(db[w], h) + GoodsOf(j, h)
      BY <1>2, <2>1, <3>1 DEF Drafted, GoodsDrafted
    <3>4. QtyAt(db[w], h) \in Int
      BY <1>8, RowsAre, QtyInt DEF RowsOK
    <3>5. GoodsAt(h)' = GoodsAt(h) - QtyAt(db[w], h) + QtyAt(db'[w], h)
      BY <1>8, <3>2, GoodsMove
    <3>6. QED BY <2>2, <2>3, <3>2, <3>3, <3>4, <3>5
  <2>6. CASE (\A r \in ItemRows : ~Stacked(s, r)) /\ \A g : GoodsOf(j, g) = 0
    <3>1. GoodsAt(h)' = GoodsAt(h)
      BY <1>8, <2>4, <2>6, GoodsSame
    <3>2. QED BY <2>2, <2>3, <2>6, <3>1
  <2>7. QED BY <1>1, <2>5, <2>6, EndGoods
<1>13. ASSUME Fresh({"sale"})' PROVE InStock' = stockLogged'
  <2>1. Fresh({"sale"}) /\ Told(s, {"sale"})
    BY <1>10, <1>13
  <2>2. InStock = stockLogged /\ stockLogged \in Int
    BY <1>3, <2>1 DEF MarketInv, WaresAsLogged
  <2>3. stockLogged' = stockLogged + StockOf(s) /\ StockOf(s) \in Int
    BY <1>1, <1>4
  <2>4. \A e \in StockRows : db'[e] = IF Shelved(s, e) THEN draft[e] ELSE db[e]
    BY <1>9, RowsAre DEF Wrote
  <2>5. CASE \E w \in StockRows : \A e \in StockRows : Shelved(s, e) <=> e = w
    <3>1. PICK w \in StockRows : \A e \in StockRows : Shelved(s, e) <=> e = w
      BY <2>5
    <3>2. db'[w] = draft[w] /\ \A e \in StockRows \ {w} : db'[e] = db[e]
      BY <2>4, <3>1
    <3>3. Count(draft[w]) = Count(db[w]) + StockOf(s)
      BY <1>2, <2>1, <3>1 DEF Drafted, StockDrafted
    <3>4. Count(db[w]) \in Int
      BY <1>8, RowsAre, CountInt DEF RowsOK
    <3>5. InStock' = InStock - Count(db[w]) + Count(db'[w])
      BY <1>8, <3>2, StockMove
    <3>6. QED BY <2>2, <2>3, <3>2, <3>3, <3>4, <3>5
  <2>6. CASE (\A e \in StockRows : ~Shelved(s, e)) /\ StockOf(s) = 0
    <3>1. InStock' = InStock
      BY <1>8, <2>4, <2>6, StockSame
    <3>2. QED BY <2>2, <2>3, <2>6, <3>1
  <2>7. QED BY <1>1, <2>5, <2>6, EndStock
<1>14. WaresAsLogged'
  BY <1>12, <1>13 DEF WaresAsLogged
<1>15. QED BY <1>7, <1>11, <1>14 DEF MarketInv


-----------------------------------------------------------------------------
(* A request is accepted.                                                  *)

(***************************************************************************)
(* The reducer saw the rows as they are.                                   *)
(***************************************************************************)
Asked(j) ==
  /\ JobShape(j) /\ j.id = taken + 1
  /\ j.stack # NoRow => db[j.stack] # NoRow /\ db[j.stack].at = j.purse
  /\ j.entry # NoRow => db[j.entry] # NoRow
  /\ j.kind = "purchase" => UnitCost(db[Economy]) = j.cost
  /\ j.kind = "sale" => UnitCredit(db[Economy]) = j.cost
  /\ j.kind = "split-evenly" => splitEvenly(db[Pool], Len(j.payees)).share = j.delta

LEMMA AcceptKeeps ==
  ASSUME MarketInv, NEW s \in Slots, NEW j, Asked(j), Accept(s, j) PROVE MarketInv'
<1> DEFINE looked == {j.purse, j.stack, j.entry, Economy} \intersect Rows
<1>0. Types /\ IdsOK /\ JobShape(j) /\ j \in Jobs /\ j.kind \in Kinds /\ j.id = taken + 1
  BY DEF MarketInv, Asked, JobShape, Jobs
<1>1. /\ taken \in Nat /\ MaxRequests \in Nat /\ taken < MaxRequests /\ ~Busy(s) /\ taken' = taken + 1
      /\ job' = [job EXCEPT ![s] = j] /\ pc' = [pc EXCEPT ![s] = 1]
      /\ seen' = [seen EXCEPT ![s] = [r \in looked |-> db[r]]]
      /\ target' = [target EXCEPT ![s] = NoRow] /\ exact' = [exact EXCEPT ![s] = TRUE]
      /\ UNCHANGED <<db, draft, lock, logged, stale, edits>>
  BY <1>0, BoundAssumption DEF Accept, Types
<1>2. job'[s] = j /\ pc'[s] = 1 /\ target'[s] = NoRow /\ seen'[s] = [r \in looked |-> db[r]]
  BY <1>0, <1>1 DEF Types
<1>3. Busy(s)'
  BY <1>0, <1>2 DEF Busy, Idle, Kinds
<1>4. \A t \in Slots \ {s} : Same(t) /\ (Busy(t)' <=> Busy(t))
  BY <1>0, <1>1 DEF Types, Same, Busy, Idle
<1>5. Types'
  <2>1. /\ job' \in [Slots -> Jobs \union {Idle}] /\ pc' \in [Slots -> Nat]
        /\ DOMAIN seen' = Slots /\ taken' \in 0..MaxRequests
    BY <1>0, <1>1 DEF Types
  <2>2. target' \in [Slots -> ItemRows \union StockRows \union {NoRow}]
    BY <1>0, <1>1 DEF Types
  <2>3. exact' \in [Slots -> BOOLEAN]
    BY <1>0, <1>1 DEF Types
  <2>4. QED BY <1>0, <1>1, <2>1, <2>2, <2>3 DEF Types, logged
<1>6. Clean'
  BY <1>1 DEF MarketInv, Clean
<1>7. \A n \in 1..MaxRequests : Ahead(n)' => Ahead(n)
  <2>1. \A n \in 1..MaxRequests : n > taken + 1 => n > taken
    BY <1>1
  <2>2. taken + 1 > taken
    BY <1>1
  <2>3. \A t \in Slots : Busy(t)' => t = s \/ (Busy(t) /\ job'[t] = job[t])
    BY <1>4 DEF Same
  <2>4. QED BY <1>0, <1>1, <1>2, <2>1, <2>2, <2>3 DEF Ahead
<1>8. Unborn' \subseteq Unborn
  BY <1>7 DEF Unborn
<1>9. IdsOK'
  <2>1. \A t \in Slots \ {s} : Busy(t)' =>
          Busy(t) /\ job'[t] = job[t] /\ job[t].id <= taken /\ job[t].id \in Nat
    <3>1. \A t \in Slots : Busy(t) => job[t].id <= taken /\ job[t].id \in Nat
      BY DEF MarketInv, IdsOK, Requests, Request, JobShape, Jobs
    <3>2. QED BY <1>4, <3>1 DEF Same
  <2>2. \A t \in Slots : Busy(t)' => job'[t].id <= taken'
    BY <1>0, <1>1, <1>2, <2>1
  <2>3. \A t, u \in Slots : t # u /\ Busy(t)' /\ Busy(u)' => job'[t].id # job'[u].id
    <3>1. \A t \in Slots \ {s} : Busy(t)' => job'[t].id # job'[s].id
      BY <1>0, <1>1, <1>2, <2>1
    <3>2. \A t, u \in Slots \ {s} : t # u /\ Busy(t)' /\ Busy(u)' => job'[t].id # job'[u].id
      BY <1>0, <2>1 DEF IdsOK
    <3>3. QED BY <3>1, <3>2
  <2>4. QED BY <1>0, <1>1, <1>8, <2>2, <2>3 DEF IdsOK
<1>10. /\ \A t \in Slots \ {s} : Kept(t)
       /\ HomesKept
  BY <1>1 DEF Kept, HomesKept
<1>11. \A t \in Slots \ {s} :
         /\ \A r \in Rows : lock'[r] = t <=> (Busy(t) /\ Wrote(t, r))'
         /\ Busy(t)' => (Request(t) /\ Homed(t) /\ Drafted(t))'
  BY <1>4, <1>8, <1>10, OthersKeep
<1>12. \A r : ~Paid(s, r)' /\ ~Stacked(s, r)' /\ ~Shelved(s, r)'
  <2>1. \A r : ~Paid(s, r)'
    <3>1. j.kind = "split-evenly" => \A i \in 1..Len(j.payees) : ~(i < -1)
      BY <1>0, ScriptOfSplit
    <3>2. pc'[s] - 2 = -1
      BY <1>2
    <3>3. QED BY <1>2, <3>1, <3>2 DEF Paid
  <2>2. \A r : ~Stacked(s, r)'
    BY <1>2 DEF Stacked
  <2>3. \A r : ~Shelved(s, r)'
    BY <1>2 DEF Shelved
  <2>4. QED BY <2>1, <2>2, <2>3
<1>13. \A r \in Rows : lock'[r] # s /\ ~Wrote(s, r)'
  BY <1>1, <1>12 DEF MarketInv, Locked, Wrote
<1>14. Drafted(s)'
  BY <1>12 DEF Drafted, CoinsDrafted, GoodsDrafted, StockDrafted
<1>15. Picks(s)' = {j.stack, j.entry} \ {NoRow}
  BY <1>2 DEF Picks
<1>16. /\ j.purse \in looked /\ Economy \in looked
       /\ j.stack # NoRow => j.stack \in looked /\ j.stack \in ItemRows
       /\ j.entry # NoRow => j.entry \in looked /\ j.entry \in StockRows
  BY <1>0, RowsAre DEF Jobs
<1>17. Request(s)'
  <2>1. Steps(j) \in Nat /\ 1 \in 1..(Steps(j) + 1)
    BY <1>0, StepsAre
  <2>2. \A r \in looked : r \in Rows /\ Legal(r, db[r])
    BY <1>0 DEF Types
  <2>3. {j.purse, Economy} \union Picks(s)' \subseteq looked
    BY <1>15, <1>16
  <2>4. \A r \in Picks(s)' : db[r] # NoRow
    BY <1>15 DEF Asked
  <2>5. /\ j.kind = "purchase" => UnitCost(db[Economy]) = j.cost
        /\ j.kind = "sale" => UnitCredit(db[Economy]) = j.cost
        /\ j.kind = "split-evenly" =>
             /\ splitEvenly(db[Pool], Len(j.payees)).share = j.delta
             /\ Pool \in looked
    BY <1>0, <1>16 DEF Asked, JobShape
  <2> HIDE DEF looked
  <2>6. DOMAIN seen'[s] = looked /\ \A r \in looked : seen'[s][r] = db[r]
    BY <1>2
  <2>7. \A r \in DOMAIN seen'[s] : r \in Rows /\ Legal(r, seen'[s][r])
    BY <2>2, <2>6
  <2>8. /\ {job'[s].purse, Economy} \union Picks(s)' \subseteq DOMAIN seen'[s]
        /\ \A r \in Picks(s)' : seen'[s][r] # NoRow
    BY <1>2, <2>3, <2>4, <2>6
  <2>9. /\ job'[s].kind = "purchase" => UnitCost(seen'[s][Economy]) = job'[s].cost
        /\ job'[s].kind = "sale" => UnitCredit(seen'[s][Economy]) = job'[s].cost
        /\ job'[s].kind = "split-evenly" =>
             splitEvenly(seen'[s][Pool], Len(job'[s].payees)).share = job'[s].delta
    BY <1>2, <1>16, <2>5, <2>6
  <2>10. QED
    BY <1>0, <1>2, <2>1, <2>7, <2>8, <2>9 DEF Request
<1>18. Homed(s)'
  <2>1. \A r \in Picks(s)' : db[r] # NoRow /\ r \in Rows
    BY <1>15, <1>16 DEF Asked
  <2>2. \A r \in Picks(s)' : r \notin Unborn
    BY <1>0, <2>1 DEF IdsOK
  <2>3. \A r \in Picks(s)' : r \in ItemRows => db[r].at = j.purse /\ At(draft[r], j.purse)
    <3>1. \A r \in Picks(s)' : r \in ItemRows => r = j.stack
      BY <1>15, <1>16, RowsAre
    <3>2. \A r \in Picks(s)' : r \in ItemRows => db[r].at = j.purse
      BY <1>15, <3>1 DEF Asked
    <3>3. QED BY <2>1, <3>2, AtHome
  <2>4. QED BY <1>1, <1>2, <1>8, <2>1, <2>2, <2>3 DEF Homed, At
<1>19. Locked' /\ Requests'
  BY <1>11, <1>13, <1>14, <1>17, <1>18 DEF Locked, Requests
<1>20. CoinsAsLogged' /\ WaresAsLogged'
  BY <1>1, LogStays
<1>21. QED
  BY <1>5, <1>6, <1>9, <1>19, <1>20 DEF MarketInv

(***************************************************************************)
(* The seven kinds of action.                                              *)
(***************************************************************************)
LEMMA BeginKeeps ==
  ASSUME MarketInv, NEW s \in Slots, Begin(s) PROVE MarketInv'
<1>0. /\ taken \in Nat /\ MaxRequests \in Nat
      /\ \A h \in Stashes : db[h] \in Coins
      /\ db[Economy] \in [shop : BOOLEAN, markup : Nat]
  <2>1. \A r \in Rows : Legal(r, db[r])
    BY DEF MarketInv, Types
  <2>2. QED BY <2>1, RowsAre, BoundAssumption DEF MarketInv, Types, Legal
<1>1. ASSUME taken < MaxRequests PROVE taken + 1 \in 1..MaxRequests
  BY <1>0, <1>1
<1>2. /\ Deltas \subseteq [Denoms -> Int] /\ Sums \subseteq [Denoms -> Int]
      /\ NoCoins \in [Denoms -> Int]
  <2>1. Purse(0, 0, 0, 0, 0) \in Coins
    BY PurseIsCoins
  <2>2. QED BY <2>1, MoneyAssumption, CoinsAreInts DEF NoCoins
<1>3. CASE AcceptChange(s)
  <2>1. PICK h \in Stashes, d \in Deltas :
          Accept(s, Job("currency-change", h, h, d, <<>>, NoRow, NoRow, 0))
    BY <1>3 DEF AcceptChange
  <2>2. PICK j : j = Job("currency-change", h, h, d, <<>>, NoRow, NoRow, 0)
    OBVIOUS
  <2>3. Asked(j)
    <3>1. taken + 1 \in 1..MaxRequests
      BY <1>1, <2>1 DEF Accept
    <3>2. QED BY <1>2, <2>2, <3>1 DEF Asked, JobShape, Jobs, Job, Kinds
  <2>4. QED BY <2>1, <2>2, <2>3, AcceptKeeps
<1>4. CASE AcceptTransfer(s)
  <2>1. PICK h \in Stashes, to \in Stashes, d \in Sums :
          h # to /\ Accept(s, Job("currency-transfer", h, to, d, <<>>, NoRow, NoRow, 0))
    BY <1>4 DEF AcceptTransfer
  <2>2. PICK j : j = Job("currency-transfer", h, to, d, <<>>, NoRow, NoRow, 0)
    OBVIOUS
  <2>3. Asked(j)
    <3>1. taken + 1 \in 1..MaxRequests
      BY <1>1, <2>1 DEF Accept
    <3>2. QED BY <1>2, <2>1, <2>2, <3>1 DEF Asked, JobShape, Jobs, Job, Kinds
  <2>4. QED BY <2>1, <2>2, <2>3, AcceptKeeps
<1>5. CASE AcceptSplit(s)
  <2>1. PICK p \in Splits :
          Accept(s, Job("split-evenly", Pool, Pool, splitEvenly(db[Pool], Len(p)).share, p,
                        NoRow, NoRow, 0))
    BY <1>5 DEF AcceptSplit
  <2>2. Pool \in Stashes /\ Len(p) \in Nat \ {0}
    <3>1. p \in Seq(Inventories) /\ p # <<>>
      BY SplitsAssumption
    <3>2. QED BY <3>1, PoolAssumption
  <2>3. PICK d : d = splitEvenly(db[Pool], Len(p)).share
    OBVIOUS
  <2>4. d \in [Denoms -> Int]
    BY <1>0, <2>2, <2>3, SplitConserves, CoinsAreInts
  <2>5. PICK j : j = Job("split-evenly", Pool, Pool, d, p, NoRow, NoRow, 0)
    OBVIOUS
  <2>6. Asked(j)
    <3>1. taken + 1 \in 1..MaxRequests
      BY <1>1, <2>1 DEF Accept
    <3>2. QED BY <2>2, <2>3, <2>4, <2>5, <3>1 DEF Asked, JobShape, Jobs, Job, Kinds
  <2>7. QED BY <2>1, <2>3, <2>5, <2>6, AcceptKeeps
<1>6. CASE AcceptPurchase(s)
  <2>1. PICK h \in Stashes, e \in Listed :
          Accept(s, Job("purchase", h, h, NoCoins, <<>>, NoRow, e, UnitCost(db[Economy])))
    BY <1>6 DEF AcceptPurchase
  <2>2. PICK c \in Nat : c = UnitCost(db[Economy])
    BY <1>0, PricesAreNat
  <2>3. PICK j : j = Job("purchase", h, h, NoCoins, <<>>, NoRow, e, c)
    OBVIOUS
  <2>4. Asked(j)
    <3>1. taken + 1 \in 1..MaxRequests /\ e \in StockRows /\ e # NoRow /\ db[e] # NoRow
      BY <1>1, <2>1, RowsAre DEF Accept, Listed
    <3>2. QED BY <1>2, <2>2, <2>3, <3>1 DEF Asked, JobShape, Jobs, Job, Kinds
  <2>5. QED BY <2>1, <2>2, <2>3, <2>4, AcceptKeeps
<1>7. CASE AcceptSale(s)
  <2>0. PICK h \in Stashes : \E r \in StacksAt(h) :
          Accept(s, Job("sale", h, h, NoCoins, <<>>, r, NoRow, UnitCredit(db[Economy])))
    BY <1>7 DEF AcceptSale
  <2>1. PICK r \in StacksAt(h) :
          Accept(s, Job("sale", h, h, NoCoins, <<>>, r, NoRow, UnitCredit(db[Economy])))
    BY <2>0
  <2>2. PICK c \in Nat : c = UnitCredit(db[Economy])
    BY <1>0, PricesAreNat
  <2>3. PICK j : j = Job("sale", h, h, NoCoins, <<>>, r, NoRow, c)
    OBVIOUS
  <2>4. Asked(j)
    <3>1. taken + 1 \in 1..MaxRequests /\ r \in ItemRows /\ r # NoRow
          /\ db[r] # NoRow /\ db[r].at = h
      BY <1>1, <2>1, RowsAre DEF Accept, StacksAt
    <3>2. QED BY <1>2, <2>2, <2>3, <3>1 DEF Asked, JobShape, Jobs, Job, Kinds
  <2>5. QED BY <2>1, <2>2, <2>3, <2>4, AcceptKeeps
<1>8. CASE AcceptAcquire(s)
  <2>1. PICK h \in Stashes : Accept(s, Job("acquire", h, h, NoCoins, <<>>, NoRow, NoRow, 0))
    BY <1>8 DEF AcceptAcquire
  <2>2. PICK j : j = Job("acquire", h, h, NoCoins, <<>>, NoRow, NoRow, 0)
    OBVIOUS
  <2>3. Asked(j)
    <3>1. taken + 1 \in 1..MaxRequests
      BY <1>1, <2>1 DEF Accept
    <3>2. QED BY <1>2, <2>2, <3>1 DEF Asked, JobShape, Jobs, Job, Kinds
  <2>4. QED BY <2>1, <2>2, <2>3, AcceptKeeps
<1>9. CASE AcceptConsume(s)
  <2>0. PICK h \in Stashes : \E r \in StacksAt(h) :
          Accept(s, Job("consume", h, h, NoCoins, <<>>, r, NoRow, 0))
    BY <1>9 DEF AcceptConsume
  <2>1. PICK r \in StacksAt(h) :
          Accept(s, Job("consume", h, h, NoCoins, <<>>, r, NoRow, 0))
    BY <2>0
  <2>2. PICK j : j = Job("consume", h, h, NoCoins, <<>>, r, NoRow, 0)
    OBVIOUS
  <2>3. Asked(j)
    <3>1. taken + 1 \in 1..MaxRequests /\ r \in ItemRows /\ r # NoRow
          /\ db[r] # NoRow /\ db[r].at = h
      BY <1>1, <2>1, RowsAre DEF Accept, StacksAt
    <3>2. QED BY <1>2, <2>2, <3>1 DEF Asked, JobShape, Jobs, Job, Kinds
  <2>4. QED BY <2>1, <2>2, <2>3, AcceptKeeps
<1>10. QED
  BY <1>3, <1>4, <1>5, <1>6, <1>7, <1>8, <1>9 DEF Begin


-----------------------------------------------------------------------------
(* Edits of the shop.                                                      *)

(***************************************************************************)
(* An edit changes rows that nobody has locked, and no stack and no purse. *)
(***************************************************************************)
Edits ==
  /\ UNCHANGED <<lock, request, coinsLogged, goodsLogged, stale, taken>>
  /\ DOMAIN db' = Rows /\ DOMAIN draft' = Rows /\ stockLogged' \in Int
  /\ \A r \in Rows : Legal(r, db'[r]) /\ Legal(r, draft'[r])
  /\ \A r \in Rows : \/ db'[r] = db[r] /\ draft'[r] = draft[r]
                     \/ lock[r] = Free /\ draft'[r] = db'[r]
  /\ \A r \in Stashes \union ItemRows : db'[r] = db[r] /\ draft'[r] = draft[r]
  /\ \A r \in Unborn : db'[r] = NoRow
  /\ Fresh({"sale"}) => InStock' = stockLogged'

LEMMA EditsKeep == ASSUME MarketInv, Edits PROVE MarketInv'
<1>1. /\ UNCHANGED <<lock, job, pc, seen, target, exact, coinsLogged, goodsLogged, stale, taken>>
      /\ Types
  BY DEF Edits, request, MarketInv
<1>2. \A t \in Slots : Same(t)
  BY <1>1 DEF Same
<1>3. Unborn' = Unborn /\ \A t : Busy(t)' <=> Busy(t)
  BY <1>1, UnbornSame
<1>4. \A t \in Slots : Kept(t)
  BY <1>1, LockAssumption DEF Kept, Edits
<1>5. HomesKept
  BY DEF HomesKept, Edits
<1>6. \A t \in Slots :
         /\ \A r \in Rows : lock'[r] = t <=> (Busy(t) /\ Wrote(t, r))'
         /\ Busy(t)' => (Request(t) /\ Homed(t) /\ Drafted(t))'
  BY <1>2, <1>3, <1>4, <1>5, OthersKeep
<1>7. Locked' /\ Requests'
  BY <1>6 DEF Locked, Requests
<1>8. Types'
  BY <1>1 DEF Types, Edits
<1>9. Clean'
  BY <1>1 DEF Clean, MarketInv, Edits
<1>10. IdsOK'
  BY <1>1, <1>3 DEF MarketInv, IdsOK, Edits
<1>11. CoinsAsLogged'
  BY <1>1 DEF MarketInv, CoinsAsLogged, Fresh, Edits
<1>12. WaresAsLogged'
  <2>1. RowsOK /\ RowsOK'
    BY <1>1, <1>8 DEF Types, RowsOK
  <2>2. \A h \in Stashes : GoodsAt(h)' = GoodsAt(h)
    BY <2>1, GoodsSame DEF Edits
  <2>3. QED
    BY <1>1, <2>2 DEF MarketInv, WaresAsLogged, Fresh, Edits
<1>13. QED
  BY <1>7, <1>8, <1>9, <1>10, <1>11, <1>12 DEF MarketInv

LEMMA EditDone ==
  ASSUME MarketInv, NEW r \in Rows, NEW row, Edit(r, row)
  PROVE  /\ \A x \in Rows : db'[x] = (IF x = r THEN row ELSE db[x])
         /\ \A x \in Rows : draft'[x] = (IF x = r THEN row ELSE draft[x])
         /\ DOMAIN db' = Rows /\ DOMAIN draft' = Rows /\ lock[r] = Free
         /\ UNCHANGED <<lock, request, coinsLogged, goodsLogged, stale, taken>>
<1>1. DOMAIN db = Rows /\ DOMAIN draft = Rows
  BY DEF MarketInv, Types
<1>2. db' = [db EXCEPT ![r] = row] /\ draft' = [draft EXCEPT ![r] = row] /\ lock[r] = Free
      /\ UNCHANGED <<lock, request, coinsLogged, goodsLogged, stale, taken>>
  BY DEF Edit
<1>3. QED BY <1>1, <1>2

LEMMA EditPricesKeeps ==
  ASSUME MarketInv, EditPrices PROVE MarketInv'
<1>1. PICK m \in Markups : Edit(Economy, [shop |-> TRUE, markup |-> m]) /\ stockLogged' = stockLogged
  BY DEF EditPrices
<1>2. PICK row \in [shop : BOOLEAN, markup : Nat] : row = [shop |-> TRUE, markup |-> m]
  BY MoneyAssumption
<1>3. Economy \in Rows /\ Legal(Economy, row)
  BY RowsAre DEF Legal
<1>4. /\ \A x \in Rows : db'[x] = (IF x = Economy THEN row ELSE db[x])
      /\ \A x \in Rows : draft'[x] = (IF x = Economy THEN row ELSE draft[x])
      /\ DOMAIN db' = Rows /\ DOMAIN draft' = Rows /\ lock[Economy] = Free
      /\ UNCHANGED <<lock, request, coinsLogged, goodsLogged, stale, taken>>
  <2>1. Edit(Economy, row)
    BY <1>1, <1>2
  <2>2. QED BY <1>3, <2>1, EditDone
<1>5. \A r \in Rows : Legal(r, db[r]) /\ Legal(r, draft[r])
  BY DEF MarketInv, Types
<1>6. \A r \in Rows : Legal(r, db'[r]) /\ Legal(r, draft'[r])
  BY <1>3, <1>4, <1>5
<1>7. /\ \A r \in Stashes \union ItemRows : db'[r] = db[r] /\ draft'[r] = draft[r]
      /\ \A e \in StockRows : db'[e] = db[e]
  BY <1>4, RowsAre
<1>8. \A r \in Unborn : db'[r] = NoRow
  <2>1. \A r \in Unborn : r \in ItemRows \union StockRows /\ db[r] = NoRow
    BY RowsAre DEF Unborn, MarketInv, IdsOK
  <2>2. QED BY <1>7, <2>1
<1>9. Fresh({"sale"}) => InStock' = stockLogged'
  <2>1. InStock' = InStock
    BY <1>5, <1>6, <1>7, StockSame DEF RowsOK
  <2>2. QED BY <1>1, <2>1 DEF MarketInv, WaresAsLogged
<1>10. Edits
  BY <1>1, <1>4, <1>6, <1>7, <1>8, <1>9 DEF Edits, MarketInv, Types
<1>11. QED BY <1>10, EditsKeep

LEMMA EditStockKeeps ==
  ASSUME MarketInv, EditStock PROVE MarketInv'
<1>1. PICK e \in Entries, row \in {NoRow, 1} :
        Edit(e, row) /\ stockLogged' = stockLogged - Count(db[e]) + Count(row)
  <2>1. PICK e \in Entries :
          \/ /\ db[e] \notin {NoRow, Unlimited}
             /\ \E n \in {NoRow, 1} : n # db[e] /\ Edit(e, n)
                                 /\ stockLogged' = stockLogged - db[e] + IF n = NoRow THEN 0 ELSE n
          \/ db[e] = NoRow /\ Edit(e, 1) /\ stockLogged' = stockLogged + 1
    BY DEF EditStock
  <2>2. Count(NoRow) = 0 /\ Count(1) = 1 /\ NoRow # 1 /\ stockLogged \in Int
    BY CountsAre DEF MarketInv, Types
  <2>3. CASE /\ db[e] \notin {NoRow, Unlimited}
             /\ \E n \in {NoRow, 1} : n # db[e] /\ Edit(e, n)
                                 /\ stockLogged' = stockLogged - db[e] + IF n = NoRow THEN 0 ELSE n
    <3>1. PICK n \in {NoRow, 1} : /\ Edit(e, n)
                                  /\ stockLogged' = stockLogged - db[e] + IF n = NoRow THEN 0 ELSE n
      BY <2>3
    <3>2. Count(db[e]) = db[e] /\ Count(n) = IF n = NoRow THEN 0 ELSE n
      BY <2>2, <2>3 DEF Count
    <3>3. QED BY <3>1, <3>2
  <2>4. CASE db[e] = NoRow /\ Edit(e, 1) /\ stockLogged' = stockLogged + 1
    BY <2>2, <2>4
  <2>5. QED BY <2>1, <2>3, <2>4
<1>2. e \in StockRows /\ e \in Rows /\ Legal(e, row) /\ Legal(e, db[e])
  <2>1. e \in StockRows /\ e \in Rows
    BY RowsAre
  <2>2. QED BY <2>1, LegalEntry DEF MarketInv, Types
<1>3. /\ \A x \in Rows : db'[x] = (IF x = e THEN row ELSE db[x])
      /\ \A x \in Rows : draft'[x] = (IF x = e THEN row ELSE draft[x])
      /\ DOMAIN db' = Rows /\ DOMAIN draft' = Rows /\ lock[e] = Free
      /\ UNCHANGED <<lock, request, coinsLogged, goodsLogged, stale, taken>>
  BY <1>1, <1>2, EditDone
<1>4. \A r \in Rows : Legal(r, db[r]) /\ Legal(r, draft[r])
  BY DEF MarketInv, Types
<1>5. \A r \in Rows : Legal(r, db'[r]) /\ Legal(r, draft'[r])
  BY <1>2, <1>3, <1>4
<1>6. /\ \A r \in Stashes \union ItemRows : db'[r] = db[r] /\ draft'[r] = draft[r]
      /\ \A x \in StockRows \ {e} : db'[x] = db[x]
      /\ db'[e] = row
  BY <1>2, <1>3, RowsAre
<1>7. \A r \in Unborn : db'[r] = NoRow
  <2>1. \A r \in Unborn : r \in Rows /\ db[r] = NoRow
    BY RowsAre DEF Unborn, MarketInv, IdsOK
  <2>2. e \notin Unborn
    <3>1. \A n \in 1..MaxRequests : e # NewStacks[n] /\ e # NewEntries[n]
      BY <1>2, IdsAssumption, RowsAre
    <3>2. QED BY <3>1 DEF Unborn
  <2>3. QED BY <1>3, <2>1, <2>2
<1>8. Count(db[e]) \in Int /\ Count(row) \in Int /\ stockLogged \in Int
  BY <1>2, CountInt DEF MarketInv, Types
<1>9. Fresh({"sale"}) => InStock' = stockLogged'
  <2>1. InStock' = InStock - Count(db[e]) + Count(row)
    BY <1>2, <1>4, <1>5, <1>6, StockMove DEF RowsOK
  <2>2. QED BY <1>1, <2>1 DEF MarketInv, WaresAsLogged
<1>10. stockLogged' \in Int
  BY <1>1, <1>8
<1>11. Edits
  BY <1>3, <1>5, <1>6, <1>7, <1>9, <1>10 DEF Edits
<1>12. QED BY <1>11, EditsKeep

LEMMA DeleteShopKeeps ==
  ASSUME MarketInv, DeleteShop PROVE MarketInv'
<1>1. /\ \A e \in StockRows : lock[e] = Free
      /\ db' = [r \in Rows |-> CASE r = Economy -> [db[r] EXCEPT !.shop = FALSE]
                                 [] r \in StockRows -> NoRow
                                 [] OTHER -> db[r]]
      /\ draft' = [r \in Rows |-> IF r \in StockRows \union {Economy} THEN db'[r] ELSE draft[r]]
      /\ stockLogged' = 0
      /\ UNCHANGED <<lock, request, coinsLogged, goodsLogged, stale, taken>>
  BY DEF DeleteShop
<1>2. /\ \A r \in Rows : Legal(r, db[r]) /\ Legal(r, draft[r])
      /\ lock \in [Rows -> Slots \union {Free}] /\ DOMAIN draft = Rows
  BY DEF MarketInv, Types
<1>3. /\ \A r \in Stashes \union ItemRows : db'[r] = db[r] /\ draft'[r] = draft[r]
      /\ \A e \in StockRows : db'[e] = NoRow /\ draft'[e] = NoRow
      /\ draft'[Economy] = db'[Economy]
      /\ db'[Economy] = [db[Economy] EXCEPT !.shop = FALSE]
      /\ DOMAIN db' = Rows /\ DOMAIN draft' = Rows
  BY <1>1, RowsAre
<1>4. lock[Economy] = Free
  <2>1. \A t \in Slots : ~Wrote(t, Economy)
    BY RowsAre DEF Wrote
  <2>2. \A t \in Slots : lock[Economy] # t
    BY <2>1, RowsAre DEF MarketInv, Locked
  <2>3. QED BY <1>2, <2>2, RowsAre
<1>5. \A r \in Rows : r \in Stashes \union ItemRows \/ r \in StockRows \/ r = Economy
  BY DEF Rows
<1>6. \A r \in Rows : Legal(r, db'[r]) /\ Legal(r, draft'[r])
  <2>1. Legal(Economy, db'[Economy])
    <3>1. db[Economy] \in [shop : BOOLEAN, markup : Nat]
      BY <1>2, RowsAre DEF Legal
    <3>2. db'[Economy] \in [shop : BOOLEAN, markup : Nat]
      BY <1>3, <3>1
    <3>3. QED BY <3>2, RowsAre DEF Legal
  <2>2. \A e \in StockRows : Legal(e, NoRow)
    BY LegalEntry
  <2>3. \A r \in Stashes \union ItemRows : r \in Rows
    BY RowsAre
  <2>4. QED BY <1>2, <1>3, <1>5, <2>1, <2>2, <2>3
<1>7. \A r \in Rows : \/ db'[r] = db[r] /\ draft'[r] = draft[r]
                      \/ lock[r] = Free /\ draft'[r] = db'[r]
  BY <1>1, <1>3, <1>4, <1>5
<1>8. \A r \in Unborn : db'[r] = NoRow
  <2>1. \A r \in Unborn : r \in ItemRows \union StockRows /\ db[r] = NoRow
    BY RowsAre DEF Unborn, MarketInv, IdsOK
  <2>2. QED BY <1>3, <2>1
<1>9. InStock' = 0
  <2> DEFINE g == Counts(db')
  <2>1. InStock' = Total(g, StockRows)
    BY <1>6, AreCountedNext DEF Counted, RowsOK
  <2>2. \A e \in StockRows : g[e] = 0
    BY <1>3, CountsAre DEF Counts
  <2> HIDE DEF g
  <2>3. Total(g, StockRows) = Total(g, {})
    BY <2>2, TablesAreFinite, TotalSupport
  <2>4. QED BY <2>1, <2>3, TotalEmpty
<1>10. Edits
  <2>1. stockLogged' \in Int /\ InStock' = stockLogged'
    BY <1>1, <1>9
  <2>2. UNCHANGED <<lock, request, coinsLogged, goodsLogged, stale, taken>>
    BY <1>1
  <2>3. QED BY <1>3, <1>6, <1>7, <1>8, <2>1, <2>2 DEF Edits
<1>11. QED BY <1>10, EditsKeep


-----------------------------------------------------------------------------
(* The invariant holds.                                                    *)

LEMMA InitKeeps == ASSUME Init PROVE MarketInv
<1>1. PICK p \in [Stashes -> Purses], at \in [Stacks -> Stashes], q \in [Stacks -> 1..2],
           n \in [Entries -> {Unlimited, 1}], m \in Markups :
        db = [r \in Rows |->
                CASE r \in Stashes -> p[r]
                  [] r \in Stacks  -> [at |-> at[r], qty |-> q[r]]
                  [] r \in Entries -> n[r]
                  [] r = Economy   -> [shop |-> TRUE, markup |-> m]
                  [] OTHER         -> NoRow]
  BY DEF Init
<1>2. /\ draft = db /\ lock = [r \in Rows |-> Free] /\ job = [s \in Slots |-> Idle]
      /\ pc = [s \in Slots |-> 0] /\ seen = [s \in Slots |-> <<>>]
      /\ target = [s \in Slots |-> NoRow] /\ exact = [s \in Slots |-> TRUE]
      /\ coinsLogged = [h \in Stashes |-> toCopper(db[h])]
      /\ goodsLogged = [h \in Stashes |-> GoodsAt(h)]
      /\ stockLogged = InStock /\ stale = {} /\ taken = 0
  BY DEF Init
<1>3. \A s : ~(s \in Slots /\ Busy(s))
  BY <1>2 DEF Busy
<1>4. \A r \in Rows : Legal(r, db[r])
  <2>1. \A h \in Stashes : Legal(h, db[h])
    <3>1. \A h \in Stashes : h \in Rows /\ p[h] \in Coins
      BY MoneyAssumption, RowsAre
    <3>2. \A h \in Stashes : db[h] = p[h]
      BY <1>1, <3>1, RowsAre
    <3>3. QED BY <3>1, <3>2, LegalPurse
  <2>2. \A r \in ItemRows : Legal(r, db[r])
    <3> SUFFICES ASSUME NEW r \in ItemRows PROVE Legal(r, db[r])
      OBVIOUS
    <3>1. r \in Rows /\ r \notin Stashes /\ r \notin Entries /\ r # Economy
      BY RowsAre
    <3>2. CASE r \in Stacks
      <4>1. at[r] \in Stashes /\ q[r] \in Nat \ {0}
        BY <3>2
      <4>2. db[r] = [at |-> at[r], qty |-> q[r]]
        BY <1>1, <3>1, <3>2
      <4>3. QED BY <4>1, <4>2, StackRowsAre, LegalStack
    <3>3. CASE r \notin Stacks
      <4>1. db[r] = NoRow
        BY <1>1, <3>1, <3>3
      <4>2. QED BY <4>1, LegalStack
    <3>4. QED BY <3>2, <3>3
  <2>3. \A e \in StockRows : Legal(e, db[e])
    <3> SUFFICES ASSUME NEW e \in StockRows PROVE Legal(e, db[e])
      OBVIOUS
    <3>1. e \in Rows /\ e \notin Stashes /\ e \notin Stacks /\ e # Economy
      BY RowsAre
    <3>2. db[e] = IF e \in Entries THEN n[e] ELSE NoRow
      BY <1>1, <3>1
    <3>3. e \in Entries => n[e] \in {Unlimited, 1}
      OBVIOUS
    <3>4. QED BY <3>2, <3>3, LegalEntry
  <2>4. Legal(Economy, db[Economy])
    <3>1. /\ Economy \in Rows /\ Economy \notin Stashes /\ Economy \notin Stacks
          /\ Economy \notin Entries
      BY RowsAre
    <3>2. db[Economy] = [shop |-> TRUE, markup |-> m]
      BY <1>1, <3>1
    <3>3. QED BY <3>2, MoneyAssumption, RowsAre DEF Legal
  <2>5. \A r \in Rows : r \in Stashes \/ r \in ItemRows \/ r \in StockRows \/ r = Economy
    BY DEF Rows
  <2>6. QED BY <2>1, <2>2, <2>3, <2>4, <2>5
<1>5. RowsOK
  BY <1>4 DEF RowsOK
<1>6. /\ \A h \in Stashes : toCopper(db[h]) \in Int
      /\ \A h \in Stashes : GoodsAt(h) \in Int
      /\ InStock \in Int
  <2>1. \A h \in Stashes : toCopper(db[h]) \in Int
    BY <1>4, RowsAre, CoinsAreInts DEF Legal
  <2>2. QED BY <1>5, <2>1, SumsAreInts
<1>7. Types
  <2>1. DOMAIN db = Rows
    BY <1>1
  <2>2. QED BY <1>2, <1>4, <1>6, <2>1, BoundAssumption DEF Types
<1>8. Clean
  BY <1>2 DEF Clean
<1>9. Locked
  <2>1. \A s \in Slots : \A r \in Rows : lock[r] # s
    BY <1>2, LockAssumption
  <2>2. QED BY <1>3, <2>1 DEF Locked
<1>10. Requests
  BY <1>3 DEF Requests
<1>11. IdsOK
  <2>1. \A r \in Unborn : db[r] = NoRow
    <3>1. \A k \in 1..MaxRequests :
            /\ NewStacks[k] \in Rows /\ NewStacks[k] \notin Stashes /\ NewStacks[k] \notin Stacks
            /\ NewStacks[k] \notin Entries /\ NewStacks[k] # Economy
            /\ NewEntries[k] \in Rows /\ NewEntries[k] \notin Stashes /\ NewEntries[k] \notin Stacks
            /\ NewEntries[k] \notin Entries /\ NewEntries[k] # Economy
      BY RowsAre, IdsAssumption
    <3>2. \A r \in Unborn : /\ r \in Rows /\ r \notin Stashes /\ r \notin Stacks
                            /\ r \notin Entries /\ r # Economy
      BY <3>1 DEF Unborn
    <3>3. QED BY <1>1, <3>2
  <2>2. QED BY <1>3, <2>1 DEF IdsOK
<1>12. CoinsAsLogged /\ WaresAsLogged
  BY <1>2 DEF CoinsAsLogged, WaresAsLogged
<1>13. QED
  BY <1>7, <1>8, <1>9, <1>10, <1>11, <1>12 DEF MarketInv

LEMMA StutterKeeps == ASSUME MarketInv, UNCHANGED vars PROVE MarketInv'
<1>1. /\ UNCHANGED <<db, draft, lock, job, pc, seen, target, exact, coinsLogged, goodsLogged>>
      /\ UNCHANGED <<stockLogged, stale, taken, request, logged>>
  BY DEF vars, request, logged
<1>2. \A t \in Slots : Same(t) /\ Kept(t)
  BY <1>1 DEF Same, Kept
<1>3. HomesKept /\ Unborn' = Unborn
  BY <1>1, UnbornSame DEF HomesKept
<1>4. Locked' /\ Requests'
  BY <1>2, <1>3, OthersKeep DEF Locked, Requests
<1>5. Types' /\ Clean'
  BY <1>1 DEF MarketInv, Types, Clean
<1>6. IdsOK'
  BY <1>1, <1>3, UnbornSame DEF MarketInv, IdsOK
<1>7. CoinsAsLogged' /\ WaresAsLogged'
  BY <1>1, LogStays
<1>8. QED BY <1>4, <1>5, <1>6, <1>7 DEF MarketInv

(***************************************************************************)
(* However the requests and the DM's edits interleave, and whichever of    *)
(* them fail: a request holds the locks of exactly the rows it has written *)
(* (Locked), nobody's draft or commit touches them, and its drafts differ  *)
(* from the committed rows by what its log entries will say (Requests).    *)
(***************************************************************************)
THEOREM MarketInvariant == Spec => []MarketInv
<1>1. ASSUME MarketInv, [Next]_vars PROVE MarketInv'
  <2>1. ASSUME NEW s \in Slots, Begin(s) \/ Statement(s) \/ Commit(s) \/ Abort(s)
        PROVE  MarketInv'
    BY <1>1, <2>1, BeginKeeps, StatementKeeps, CommitKeeps, AbortKeeps
  <2>2. CASE EditPrices
    BY <1>1, <2>2, EditPricesKeeps
  <2>3. CASE EditStock
    BY <1>1, <2>3, EditStockKeeps
  <2>4. CASE DeleteShop
    BY <1>1, <2>4, DeleteShopKeeps
  <2>5. CASE UNCHANGED vars
    BY <1>1, <2>5, StutterKeeps
  <2>6. QED
    BY <1>1, <2>1, <2>2, <2>3, <2>4, <2>5 DEF Next
<1>2. QED
  BY <1>1, InitKeeps, PTL DEF Spec

(***************************************************************************)
(* Purses hold coins and never a debt, a stack in the table holds at least *)
(* one item, an entry of the stock is counted or unlimited.                *)
(***************************************************************************)
THEOREM MarketTypes == Spec => []TypeOK
<1>1. MarketInv => TypeOK
  <2> SUFFICES ASSUME MarketInv PROVE TypeOK
    OBVIOUS
  <2>1. \A r \in Rows : Legal(r, db[r]) /\ Legal(r, draft[r])
    BY DEF MarketInv, Types
  <2>2. \A h \in Stashes : db[h] \in Coins /\ draft[h] \in Coins
    BY <2>1, RowsAre DEF Legal
  <2>3. \A r \in ItemRows : db[r] = NoRow \/ (db[r].at \in Stashes /\ db[r].qty \in Nat \ {0})
    BY <2>1, RowsAre, LegalStack DEF StackRow
  <2>4. \A e \in StockRows : db[e] = NoRow \/ db[e] \in Nat \union {Unlimited}
    BY <2>1, RowsAre, LegalEntry
  <2>5. QED
    BY <2>2, <2>3, <2>4 DEF TypeOK, MarketInv, Types
<1>2. QED
  BY <1>1, MarketInvariant, PTL

(***************************************************************************)
(* Coins are neither made nor lost but as the log says, in whatever order  *)
(* overlapping changes, transfers, splits, purchases and sales commit or   *)
(* fail, as long as no purchase, sale or split found the purse or the      *)
(* prices changed under it.                                                *)
(***************************************************************************)
THEOREM CoinsStayLogged == Spec => []CoinsAsLogged
BY MarketInvariant, PTL DEF MarketInv

(***************************************************************************)
(* Nor are items, in the stacks of the stashes and in the stock: an item   *)
(* sold over the counter leaves the stock once, though two buyers overlap. *)
(***************************************************************************)
THEOREM WaresStayLogged == Spec => []WaresAsLogged
BY MarketInvariant, PTL DEF MarketInv


=============================================================================
