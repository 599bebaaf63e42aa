-------------------------- MODULE MCAdvancedOrders --------------------------
EXTENDS AdvancedOrders, MCPerpMarket

CONSTANTS m1, m2   \* markets

(* Buy back a short position when the price of m1 has risen. *)
StopLoss ==
  {[market |-> m1, side |-> "bid", price |-> 2, qty |-> 1, type |-> "Limit",
    reduce_only |-> TRUE, condition |-> "Above", trigger |-> 200, cid |-> 0]}
=============================================================================
