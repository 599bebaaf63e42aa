------------------------------ MODULE MCMargin ------------------------------
(***************************************************************************)
(* Margin for TLC: weights, prices and the states to start from.           *)
(***************************************************************************)
EXTENDS Margin, FiniteSetsExt

CONSTANTS lender, trader, other   \* accounts

U == One

(* Weights of a market with init leverage 2 and maint leverage 4. *)
Weights == [init |-> [asset |-> U \div 2, liab |-> U + U \div 2],
            maint |-> [asset |-> U - U \div 4, liab |-> U + U \div 4],
            fee |-> U \div 16]

(* Inputs: a price to grow rich or poor by, a liquidator without a limit.  *)
TwoPrices == {U \div 2, 2 * U}
NoLimit == {100 * U}
BothWays == {1, -1, 100, -100}

SumOver(S, f(_)) == MapThenSumSet(f, S)

Account(base, quote, position, cost) ==
  [deposits |-> [t \in Tokens |-> IF t = Base THEN base * U ELSE quote * U],
   borrows |-> [t \in Tokens |-> 0],
   base_position |-> position, quote_position |-> cost,
   long_settled_funding |-> 0, short_settled_funding |-> 0,
   being_liquidated |-> FALSE, is_bankrupt |-> FALSE]

(* After deposits and trades, before any interest.  A state with used = 1  *)
(* has one move and one tick of the run's bounds behind it.                *)
StartOf(used, trading, lending, idle, price, fees, insurance, spot, perp) ==
  LET acc == [a \in Accounts |->
                CASE a = trader -> trading [] a = lender -> lending [] OTHER -> idle]
  IN  [ma |-> acc,
       bank |-> [t \in Tokens |->
                   LET total == SumOver(Accounts, LAMBDA a : acc[a].deposits[t])
                   IN  [deposits |-> total, borrows |-> 0,
                        deposit_index |-> U, borrow_index |-> U,
                        last_updated |-> used, vault |-> total \div U]],
       market |-> [open_interest |-> SumOver(Accounts, LAMBDA a : Magnitude(acc[a].base_position)),
                   fees_accrued |-> fees, long_funding |-> 0, short_funding |-> 0],
       price |-> price,
       funds |-> [wallet |-> [a \in Accounts |-> [t \in Tokens |-> 0]],
                  insurance |-> insurance, fees |-> 0],
       mode |-> [spot |-> spot, perp |-> perp],
       moves |-> used, now |-> used]

(* A lender of quote, and an account with base as collateral to borrow it. *)
Collateral(spot) ==
  StartOf(0, Account(5, 0, 0, 0), Account(0, 8, 0, 0), Account(0, 0, 0, 0),
          2 * U, 0, 1, spot, "Active")

(* The trader closed a position with a profit that is not settled yet. *)
ClosedWithProfit ==
  StartOf(0, Account(0, 0, 0, 4 * U), Account(4, 8, 0, -(4 * U)), Account(0, 0, 0, 0),
          U \div 2, 0, 0, "Active", "Active")

(* The trader is long; the fee of the trade is still in the market. *)
Long(perp) ==
  StartOf(1, Account(2, 0, 2, -(5 * U)), Account(0, 4, -2, 4 * U), Account(0, 4, 0, 0),
          2 * U, U, 1, "Active", perp)

MCStarts ==
  {Collateral("Active"), Collateral("CloseOnly"), ClosedWithProfit,
   Long("Active"), Long("ForceCloseOnly")}

=============================================================================
