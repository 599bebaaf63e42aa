----------------------------- MODULE MCAccounts -----------------------------
EXTENDS Accounts

Offer(side, price, best, quantity, tif) ==
  [side |-> side, price |-> price, best_initial |-> best, quantity |-> quantity,
   time_in_force |-> tif]

(* Version 0: a bid at the best price, and an ask one tick off that expires; *)
(* version 1: the first order, and one behind a contract, which expires.    *)
TwoOffers ==
  [v \in 0..1 |-> IF v = 0 THEN {Offer("bid", 2, 2, 1, 0), Offer("ask", 3, 2, 2, 1)}
                           ELSE {Offer("bid", 1, 0, 1, 0), Offer("ask", 2, 1, 1, 1)}]

TwoFinals == [v \in 0..1 |-> IF v = 0 THEN {2} ELSE {0, 1}]

LM(version, rate, depth, target, mngo, exp, shift) ==
  [version |-> version, rate |-> rate, max_depth |-> depth, target_period_length |-> target,
   mngo_per_period |-> mngo, exp |-> exp, lm_size_shift |-> shift]

(* Points for contracts near the best, by size or by price. *)
BySize == LM(1, 2, 8, 1, 2, 1, 0)
ByPrice == LM(0, 4, 8, 2, 2, 2, 1)
(* Only the top of the book, or with the depth in contracts but too low. *)
TopOnly == LM(0, 4, 0, 1, 1, 1, 0)
NewParams == {ByPrice, TopOnly, [TopOnly EXCEPT !.version = 1]}
=============================================================================
