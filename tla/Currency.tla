------------------------------ MODULE Currency ------------------------------
(***************************************************************************)
(* Coins and prices: packages/rules/src/currency.ts and pricing.ts.        *)
(* Modifiers and rates are percentages here, floats in the code.           *)
(***************************************************************************)
EXTENDS Integers

Denoms == {"pp", "gp", "ep", "sp", "cp"}
Coins == [Denoms -> Nat]

\* MULTIPLIER: what a coin is worth in copper.
Worth == [d \in Denoms |-> CASE d = "pp" -> 1000 [] d = "gp" -> 100 [] d = "ep" -> 50
                             [] d = "sp" -> 10   [] d = "cp" -> 1]

Purse(pp, gp, ep, sp, cp) ==
  [d \in Denoms |-> CASE d = "pp" -> pp [] d = "gp" -> gp [] d = "ep" -> ep
                      [] d = "sp" -> sp [] d = "cp" -> cp]
NoCoins == Purse(0, 0, 0, 0, 0)

toCopper(c) == 1000 * c["pp"] + 100 * c["gp"] + 50 * c["ep"] + 10 * c["sp"] + c["cp"]

\* The greedy walk from the largest coin down.
fromCopper(v) ==
  Purse(v \div 1000, (v % 1000) \div 100, (v % 100) \div 50, (v % 50) \div 10, v % 10)

add(a, b) == [d \in Denoms |-> a[d] + b[d]]
subtract(a, b) == [d \in Denoms |-> a[d] - b[d]]

\* subtract throws, and the CHECK of CurrencyHolding fails, below zero.
IsHolding(c) == \A d \in Denoms : c[d] >= 0

\* convert: defined when no fraction is left over.
CanConvert(source, qty, target) ==
  source # target /\ qty > 0 /\ (qty * Worth[source]) % Worth[target] = 0
convert(source, qty, target) ==
  [d \in Denoms |-> CASE d = source -> -qty
                      [] d = target -> (qty * Worth[source]) \div Worth[target]
                      [] OTHER -> 0]

\* splitEvenly: each coin is shared out, what is left over goes down as the
\* next smaller coin, and the last coppers stay in the pool.
splitEvenly(pool, n) ==
  LET pp == pool["pp"]
      gp == pool["gp"] + 10 * (pp % n)
      ep == pool["ep"] + 2 * (gp % n)
      sp == pool["sp"] + 5 * (ep % n)
      cp == pool["cp"] + 10 * (sp % n)
  IN [share |-> Purse(pp \div n, gp \div n, ep \div n, sp \div n, cp \div n),
      remainder |-> Purse(0, 0, 0, 0, cp % n)]

\* Math.floor(x + 0.5) of a percentage.
Percent(v, p) == (v * p + 50) \div 100
buyPrice(base, modifier) == Percent(base, modifier)
sellPrice(base, modifier, rate) == Percent(buyPrice(base, modifier), rate)
=============================================================================
