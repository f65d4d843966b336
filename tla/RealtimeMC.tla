----------------------------- MODULE RealtimeMC -----------------------------
(***************************************************************************)
(* Realtime for TLC: two tabs, of one user or of two.                      *)
(***************************************************************************)
EXTENDS Realtime, TLC

(* Bound: the last action does not ask for the time.                       *)
OneClock == kind[MaxActions] = "plain"

Symmetric == Permutations(Tabs) \union Permutations(Users)
=============================================================================
