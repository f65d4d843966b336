------------------------------ MODULE MarketMC ------------------------------
(***************************************************************************)
(* Market for TLC: small purses, and the inputs of the requests.           *)
(***************************************************************************)
EXTENDS Market, TLC

CONSTANTS a, b, s1, s2, r2, r3, e2, e3

MCNewStacks == <<r2, r3>>
MCNewEntries == <<e2, e3>>

MCPurses == {Purse(0, 0, 0, 1, 2)}
\* A deposit, a withdrawal, and two coppers' worth of change.
MCDeltas == {Purse(0, 0, 0, 0, 5), convert("sp", 1, "cp")}
MCSums == {Purse(0, 0, 0, 1, 0)}
MCSplits == {<<a, b>>, <<b, a>>}

(* Bound: until the DM edits them, the prices are the catalog's.           *)
ListPrices == edits = 0 => db[Economy].markup = 100

Symmetric == Permutations({a, b}) \union Permutations({s1, s2})
=============================================================================
