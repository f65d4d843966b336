----------------------------- MODULE AccountMC -----------------------------
(***************************************************************************)
(* Account for TLC: the operations that are tried together.                *)
(***************************************************************************)
EXTENDS Account, TLC

Menu(ops, made, hands, issued, here) ==
  [ops |-> ops, calls |-> made, hands |-> hands, codes |-> issued, accounts |-> here]
Together == {Menu({"otp", "delete"}, 3, 2, 2, 1),
             Menu({"otp", "link"}, 3, 2, 3, 1),
             Menu({"otp", "link"}, 4, 1, 2, 1),
             Menu({"otp", "typos"}, 3, 2, 3, 0),
             Menu({"otp", "typos", "lapses"}, 2, 2, 2, 1),
             Menu({"link"}, 4, 2, 2, 2),
             Menu({"change"}, 5, 2, 4, 1),
             Menu({"change"}, 7, 1, 5, 1),
             Menu({"change", "link"}, 3, 2, 3, 2),
             Menu({"change", "link"}, 5, 1, 3, 1),
             Menu({"change", "typos", "lapses"}, 3, 2, 3, 1),
             Menu({"discord", "delete", "sessions"}, 5, 2, 0, 1)}
Symmetric == Permutations(Users) \union Permutations(Emails) \union Permutations(Browsers)
               \union Permutations(Handlers)
=============================================================================
