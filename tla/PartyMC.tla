------------------------------ MODULE PartyMC ------------------------------
(***************************************************************************)
(* Party for TLC.                                                          *)
(***************************************************************************)
EXTENDS Party, TLC

Symmetry == Permutations(Users) \union Permutations(Slots)
=============================================================================
