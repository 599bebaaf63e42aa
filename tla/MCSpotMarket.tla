---------------------------- MODULE MCSpotMarket ----------------------------
EXTENDS SpotMarket

CONSTANTS sol, srm, usd

(* Quarters of one: init 0.5 and 1.5, maint 0.75 and 1.25. *)
QuarterWeights ==
  [init |-> [asset |-> 2, liab |-> 6], maint |-> [asset |-> 3, liab |-> 5]]

(* The trader is short in the market that is being delisted. *)
ShortSrm == [t \in {sol, srm, usd} |-> CASE t = sol -> 0 [] t = srm -> -2 [] OTHER -> 4]

LenderDeposits == [t \in {sol, srm, usd} |-> 2]

OneDelisted == [m \in {sol, srm} |-> IF m = srm THEN "CloseOnly" ELSE "Active"]

SwapOrDelist ==
  [m \in {sol, srm} |-> IF m = srm THEN {"ForceCloseOnly"} ELSE {"SwappingSpotMarket", "Active", "CloseOnly"}]
=============================================================================
