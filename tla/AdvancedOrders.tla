--------------------------- MODULE AdvancedOrders ---------------------------
(***************************************************************************)
(* Trigger orders.  An account may open an AdvancedOrders account next to  *)
(* its MangoAccount and park perp orders there, each with a condition on   *)
(* the oracle price and with a fee in lamports.  Once the condition holds  *)
(* anyone, the agent, may execute the order and earns the fee.             *)
(*                                                                         *)
(* Executing is the only way to place an order that does not fail when the *)
(* account lacks health: the order must be dropped and the fee paid all    *)
(* the same.  So the code first simulates the order on the book, decides,  *)
(* and then places it with Book::new_order and refuses if the outcome is   *)
(* not the simulated one.                                                  *)
(***************************************************************************)
EXTENDS PerpMarket

CONSTANTS
  NumAdvanced,    \* MAX_ADVANCED_ORDERS
  Rent,           \* lamports that keep the account alive
  OrderFee,       \* ADVANCED_ORDER_FEE
  Inactive,       \* an entry with is_active = false
  TriggerUsers,   \* accounts that use trigger orders
  TriggerOrders   \* the orders they may add

ASSUME AdvancedAssumption ==
  /\ NumAdvanced \in Nat /\ Rent \in Nat /\ OrderFee \in Nat
  /\ TriggerUsers \subseteq Accounts /\ Inactive \notin TriggerOrders
  /\ \A order \in TriggerOrders :
       /\ order.market \in Markets /\ order.side \in Sides /\ order.price \in Int
       /\ order.qty \in Nat /\ order.cid \in ClientIds

(* The prices and sizes of all orders, and what makes Unbounded unbounded: *)
(* no order that may be sent can cost more.  A PostOnlySlide ask may rest  *)
(* one tick above the highest price.                                       *)
OrderPrices == Prices \cup {order.price : order \in TriggerOrders}

OrderSizes == Quantities \cup {order.qty : order \in TriggerOrders}

ASSUME AmountsBounded ==
  \A qty \in OrderSizes, price \in OrderPrices : qty * (price + 1) <= Unbounded

VARIABLE
  advanced        \* [account -> its AdvancedOrders account]

advancedVars == <<vars, advanced>>

NoAccount == [open |-> FALSE, lamports |-> 0, orders |-> [i \in 1..NumAdvanced |-> Inactive]]

AdvancedInit == Init /\ advanced = [a \in Accounts |-> NoAccount]

Active(a) == {i \in 1..NumAdvanced : advanced[a].orders[i] # Inactive}

-----------------------------------------------------------------------------
(***************************************************************************)
(* Managing trigger orders                                                 *)
(***************************************************************************)

init_advanced_orders(a) ==
  /\ ~advanced[a].open
  /\ advanced' = [advanced EXCEPT ![a] = [NoAccount EXCEPT !.open = TRUE, !.lamports = Rent]]
  /\ UNCHANGED vars

(* Closing pays out all lamports, the fees of the active orders included. *)
close_advanced_orders(a) ==
  /\ advanced[a].open
  /\ ~being_liquidated[a]
  /\ advanced' = [advanced EXCEPT ![a] = NoAccount]
  /\ UNCHANGED vars

(* Like placing an order, adding one is refused while the account is being *)
(* liquidated and below initial health, and ends the liquidation if not.   *)
add_perp_trigger_order(a, order) ==
  LET free == 1..NumAdvanced \ Active(a)
  IN  /\ advanced[a].open
      /\ market[order.market].mode # "ForceCloseOnly"
      /\ CacheValid(order.market)
      /\ free # {}                                   \* OutOfSpace
      /\ being_liquidated' = [being_liquidated EXCEPT ![a] = FALSE]
      /\ advanced' = [advanced EXCEPT ![a].orders[Min(free)] = order,
                                      ![a].lamports = @ + OrderFee]
      /\ UNCHANGED <<book, queue, market, perp, slots, now>>

(* A faulty form: the fee is refunded whether or not the order is active. *)
RemovedRegardless(adv, i) ==
  [adv EXCEPT !.orders[i] = Inactive, !.lamports = @ - OrderFee]

(* The AdvancedOrders account once order i is gone and its fee paid out. *)
Removed(adv, i) ==
  IF adv.orders[i] = Inactive THEN adv
  ELSE [adv EXCEPT !.orders[i] = Inactive, !.lamports = @ - OrderFee]

(* The owner gets the fee back; an order already executed is no error.     *)
(* Anyone may remove the orders of a market in ForceCloseOnly.             *)
remove_advanced_order(a, i) ==
  /\ advanced[a].open
  /\ advanced' = [advanced EXCEPT ![a] = Removed(@, i)]
  /\ UNCHANGED vars

-----------------------------------------------------------------------------
(***************************************************************************)
(* Executing a trigger order                                               *)
(***************************************************************************)

(* The quantity that is placed.  Unlike place_perp_order, this does not    *)
(* count reduce-only orders that already rest.                             *)
TriggeredQuantity(a, order) ==
  LET pos == get_complete_base_pos(a, order.market)
  IN  IF ~order.reduce_only /\ ~is_reduce_only(market[order.market].mode) THEN order.qty
      ELSE IF (order.side = "bid" /\ pos > 0) \/ (order.side = "ask" /\ pos < 0) THEN 0
      ELSE Min({Abs(pos), order.qty})

TriggerMet(order, oracle) ==
  IF order.condition = "Above" THEN oracle >= order.trigger ELSE oracle <= order.trigger

(* The order is placed, or dropped for lack of health; either way it is    *)
(* gone and the agent has its fee.                                         *)
execute_perp_trigger_order(a, i, oracle) ==
  LET order == advanced[a].orders[i]
      m     == order.market
      qty   == TriggeredQuantity(a, order)
      sim   == SimNewOrder(m, order.side, order.price, qty, order.type, oracle)
      after == perp'[a][m]
      sign  == IF order.side = "bid" THEN 1 ELSE -1
  IN  /\ i \in Active(a)
      /\ CacheValid(m)
      /\ TriggerMet(order, oracle)
      /\ market[m].mode # "ForceCloseOnly"
      /\ being_liquidated' = [being_liquidated EXCEPT ![a] = FALSE]
      /\ advanced' = [advanced EXCEPT ![a] = Removed(@, i)]
      /\ \/ UNCHANGED <<book, queue, market, perp, slots>>
         \/ /\ qty > 0
            /\ market[m].seq_num < MaxSeq
            /\ \E rate \in {0} \cup RefSurcharges :
                 /\ new_order(a, m, order.side, order.price, qty, Unbounded, order.type,
                              NoExpiry, MaxFills, order.cid, oracle, [rate |-> rate, to |-> Nobody])
                 /\ sim_post_health(perp[a][m], order.side, sim, rate, market[m].funding, oracle)
                      = post_health(after, market[m].funding, oracle)     \* MathError
            /\ after.taker_base = perp[a][m].taker_base + sign * sim.base
            /\ after.taker_quote = perp[a][m].taker_quote - sign * sim.quote
            /\ after.on_orders[order.side] = perp[a][m].on_orders[order.side] + sim.resting
      /\ UNCHANGED now

(* Executing any order of an account that is bankrupt, or being liquidated *)
(* and still below initial health, drops all of them; the agent gets every *)
(* fee.  A bankrupt account is being liquidated too.                       *)
cancel_all_advanced_orders(a) ==
  /\ being_liquidated[a]
  /\ Active(a) # {}
  /\ advanced' = [advanced EXCEPT
                    ![a].orders = [i \in 1..NumAdvanced |-> Inactive],
                    ![a].lamports = @ - OrderFee * Cardinality(Active(a))]
  /\ UNCHANGED vars

AdvancedNext ==
  \/ Next /\ UNCHANGED advanced
  \/ \E a \in TriggerUsers :
       \/ init_advanced_orders(a)
       \/ close_advanced_orders(a)
       \/ \E order \in TriggerOrders : add_perp_trigger_order(a, order)
       \/ \E i \in 1..NumAdvanced :
            \/ remove_advanced_order(a, i)
            \/ \E oracle \in OraclePrices : execute_perp_trigger_order(a, i, oracle)
       \/ cancel_all_advanced_orders(a)

AdvancedSpec == AdvancedInit /\ [][AdvancedNext]_advancedVars

-----------------------------------------------------------------------------
(***************************************************************************)
(* Properties                                                              *)
(***************************************************************************)

(* An open AdvancedOrders account holds its rent and the fee of every      *)
(* active order, whatever mix of adding, removing, executing and           *)
(* liquidation led there: paying an agent never fails and never eats into  *)
(* the rent or into another order's fee.                                   *)
FeesEscrowed ==
  \A a \in Accounts :
    advanced[a].lamports =
      IF advanced[a].open THEN Rent + OrderFee * Cardinality(Active(a)) ELSE 0
=============================================================================
