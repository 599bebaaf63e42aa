----------------------------- MODULE SpotMarket -----------------------------
(***************************************************************************)
(* Spot trading through the Serum DEX.  For each market an account may     *)
(* have an OpenOrders account, which belongs to Serum: it holds the funds  *)
(* locked in resting orders and those that trades have freed.  Mango sends *)
(* orders to Serum, settles what is free back into its vaults, and counts  *)
(* what OpenOrders hold into the health of the account for the markets in  *)
(* its margin basket.  Serum changes OpenOrders on its own: other traders  *)
(* take resting orders, and Serum's crank applies fills and releases order *)
(* slots later, at any time between two instructions.                      *)
(*                                                                         *)
(* One account trades; another has lent to the banks.  Indexes stay at one *)
(* here (module Margin has interest), and lots are single native units.    *)
(* Instructions that need valid caches find them valid or are not taken;   *)
(* modules Margin and PerpMarket have caches that expire.                  *)
(* One action is one instruction of the program or one step of Serum.      *)
(***************************************************************************)
EXTENDS Bank, FiniteSets, FiniteSetsExt

CONSTANTS
  Markets, Quote,  \* markets are named by their base token
  trader, lender,
  MaxBasket,       \* MAX_NUM_IN_MARGIN_BASKET
  NumSlots,        \* orders an OpenOrders account can hold
  Weights,         \* SpotMarketInfo: init and maint weights
  LowPrice,        \* closing bids below this limit price (10) may rest
  None,            \* no OpenOrders account; a free order slot
  \* inputs and bounds of a run
  Prices, Quantities, CancelLimits,
  Rebates,         \* what Serum's crank may credit a taker
  ModeChanges,     \* [market -> modes the admin may switch to]
  InitNet,         \* native balances of the trader at the start
  InitMode,
  Lent,            \* native deposits of the lender in each token
  MaxOrders,       \* orders the trader places
  MaxMoves         \* orders, new prices and new modes together

VARIABLES
  ma,                    \* [account -> deposits and borrows], module Bank
  bank,
  spot_open_orders,      \* [market -> None or Serum's OpenOrders]
  in_margin_basket,      \* [market -> BOOLEAN]
  num_in_margin_basket,
  being_liquidated,
  group,                 \* [market -> [mode, serum: which Serum market it is]]
  price,                 \* [market -> oracle price in the cache]
  placed, moves          \* orders placed; new prices and modes

account == <<ma, bank, spot_open_orders, in_margin_basket, num_in_margin_basket>>
vars == <<account, being_liquidated, group, price, placed, moves>>

Tokens == Markets \cup {Quote}
Slot == 1..NumSlots

(* Serum's OpenOrders, and the orders in its slots. *)
Orders == [side : {"bid", "ask"}, price : Int, open : Int, filled : Int, took : BOOLEAN]

OpenOrders ==
  [serum : Nat, coin_total : Int, coin_free : Int, pc_total : Int, pc_free : Int,
   referrer_rebates : Int, slots : [Slot -> Orders \cup {None}]]

ASSUME SpotAssumption ==
  /\ IsFiniteSet(Markets) /\ Quote \notin Markets /\ trader # lender
  /\ MaxBasket \in Nat /\ NumSlots \in Nat
  /\ None \notin OpenOrders
  /\ InitNet \in [Tokens -> Int] /\ Lent \in [Tokens -> Nat]
  /\ Prices \subseteq Int /\ Quantities \subseteq Nat /\ Rebates \subseteq Int

allow_new_open_orders(m) == group[m].mode \notin {"ForceCloseOnly", "SwappingSpotMarket"}
is_reduce_only(m) == group[m].mode \in {"CloseOnly", "ForceCloseOnly"}

Init ==
  LET Deposit(x) == IF x > 0 THEN x * One ELSE 0
  IN  /\ ma = [a \in {trader, lender} |->
                 LET net == IF a = trader THEN InitNet ELSE Lent
                 IN  [deposits |-> [t \in Tokens |-> Deposit(net[t])],
                      borrows |-> [t \in Tokens |-> Deposit(-net[t])]]]
      /\ bank = [t \in Tokens |->
                   [deposits |-> Deposit(InitNet[t]) + Deposit(Lent[t]),
                    borrows |-> Deposit(-InitNet[t]),
                    vault |-> InitNet[t] + Lent[t]]]
      /\ spot_open_orders = [m \in Markets |-> None]
      /\ in_margin_basket = [m \in Markets |-> FALSE]
      /\ num_in_margin_basket = 0
      /\ being_liquidated = FALSE
      /\ group = [m \in Markets |-> [mode |-> InitMode[m], serum |-> 0]]
      /\ price = [m \in Markets |-> Min(Prices)]
      /\ placed = 0
      /\ moves = 0

(* What an instruction works on, and its end: all of it or nothing. *)
Work == [ma |-> ma, bank |-> bank, oo |-> spot_open_orders, basket |-> in_margin_basket,
         num |-> num_in_margin_basket, ok |-> TRUE,
         cache |-> [bank |-> [t \in Tokens |-> [deposit_index |-> One, borrow_index |-> One]]]]

Commit(w) ==
  /\ w.ok
  /\ ma' = w.ma
  /\ bank' = w.bank
  /\ spot_open_orders' = w.oo
  /\ in_margin_basket' = w.basket
  /\ num_in_margin_basket' = w.num

Require(w, condition) == [w EXCEPT !.ok = @ /\ condition]

-----------------------------------------------------------------------------
(***************************************************************************)
(* Serum, as the program sees it                                           *)
(*                                                                         *)
(* An order holds a slot until the crank has released it, even when        *)
(* nothing of it was ever posted: open lots are on Serum's book, filled    *)
(* lots were taken by others and wait for the crank, and a taken order has *)
(* a fill of its own that the crank pays a rebate for.                     *)
(***************************************************************************)

EmptyOpenOrders(serum) ==
  [serum |-> serum, coin_total |-> 0, coin_free |-> 0, pc_total |-> 0, pc_free |-> 0,
   referrer_rebates |-> 0, slots |-> [i \in Slot |-> None]]

Used(o) == {i \in Slot : o.slots[i] # None}

pc_locked(o) == o.pc_total - o.pc_free
coin_locked(o) == o.coin_total - o.coin_free

(* The OpenOrders after a new order of which taken lots trade at once, at  *)
(* its limit price; the rest is posted or, for an ImmediateOrCancel order, *)
(* dropped.  Free funds are used before the vault's.                       *)
AfterNewOrder(o, side, p, qty, taken, ioc) ==
  LET rest == IF ioc THEN 0 ELSE qty - taken
      order == [side |-> side, price |-> p, open |-> rest, filled |-> 0, took |-> taken > 0]
      held == [o EXCEPT !.slots[Min(Slot \ Used(o))] = order]
      pc == Larger(0, o.pc_free - (taken + rest) * p)
      coin == Larger(0, o.coin_free - (taken + rest))
  IN  IF side = "bid"
      THEN [held EXCEPT !.pc_free = pc, !.pc_total = pc + pc_locked(o) + rest * p,
                        !.coin_free = @ + taken, !.coin_total = @ + taken]
      ELSE [held EXCEPT !.coin_free = coin, !.coin_total = coin + coin_locked(o) + rest,
                        !.pc_free = @ + taken * p, !.pc_total = @ + taken * p]

(* invoke_new_order.  What free funds do not cover comes out of a vault. *)
NewOrder(w, m, side, p, qty, taken, ioc) ==
  LET o == w.oo[m]
      lots == IF ioc THEN taken ELSE qty
      put == [w EXCEPT !.oo[m] = AfterNewOrder(o, side, p, qty, taken, ioc)]
  IN  IF side = "bid" THEN VaultTransfer(put, Quote, -Larger(0, lots * p - o.pc_free))
      ELSE VaultTransfer(put, m, -Larger(0, lots - o.coin_free))

(* Cancelling unlocks the open lots at once. *)
Cancelled(o, i) ==
  LET order == o.slots[i]
      done == [o EXCEPT !.slots[i].open = 0]
  IN  IF order.side = "bid" THEN [done EXCEPT !.pc_free = @ + order.open * order.price]
      ELSE [done EXCEPT !.coin_free = @ + order.open]

OnBook(o) == {i \in Used(o) : o.slots[i].open > 0}

(* invoke_settle_funds: what is free goes to the vaults; the referrer's    *)
(* rebate is Mango's too.                                                  *)
SettleFunds(w, m) ==
  LET o == w.oo[m]
  IN  VaultTransfer(VaultTransfer(
        [w EXCEPT !.oo[m] = [o EXCEPT !.coin_free = 0, !.coin_total = coin_locked(o),
                                      !.pc_free = 0, !.pc_total = pc_locked(o),
                                      !.referrer_rebates = 0]],
        m, o.coin_free), Quote, o.pc_free + o.referrer_rebates)

(* Somebody else takes lots of a resting order. *)
TakenFrom(order, lots) == [order EXCEPT !.open = @ - lots, !.filled = @ + lots]

serum_match(m, i, lots) ==
  /\ spot_open_orders[m] # None
  /\ i \in OnBook(spot_open_orders[m])
  /\ lots <= spot_open_orders[m].slots[i].open
  /\ spot_open_orders' = [spot_open_orders EXCEPT ![m].slots[i] = TakenFrom(@, lots)]
  /\ UNCHANGED <<ma, bank, in_margin_basket, num_in_margin_basket, being_liquidated, group,
                 price, placed, moves>>

(* The crank applies the fills of an order. *)
serum_fill_event(m, i, rebate) ==
  LET o == spot_open_orders[m]
      order == o.slots[i]
      quote == order.filled * order.price
      base == [o EXCEPT !.slots[i].filled = 0, !.slots[i].took = FALSE,
                        !.referrer_rebates = @ + (IF order.took THEN rebate ELSE 0)]
  IN  /\ o # None
      /\ i \in Used(o)
      /\ order.filled > 0 \/ order.took
      /\ spot_open_orders' = [spot_open_orders EXCEPT ![m] =
           IF order.side = "bid"
           THEN [base EXCEPT !.coin_free = @ + order.filled, !.coin_total = @ + order.filled,
                             !.pc_total = @ - quote]
           ELSE [base EXCEPT !.pc_free = @ + quote, !.pc_total = @ + quote,
                             !.coin_total = @ - order.filled]]
      /\ UNCHANGED <<ma, bank, in_margin_basket, num_in_margin_basket, being_liquidated, group,
                     price, placed, moves>>

(* The crank releases the slot of an order that is done. *)
CanRelease(o, i) ==
  i \in Used(o) /\ o.slots[i].open = 0 /\ o.slots[i].filled = 0 /\ ~o.slots[i].took

serum_out_event(m, i) ==
  /\ spot_open_orders[m] # None
  /\ CanRelease(spot_open_orders[m], i)
  /\ spot_open_orders' = [spot_open_orders EXCEPT ![m].slots[i] = None]
  /\ UNCHANGED <<ma, bank, in_margin_basket, num_in_margin_basket, being_liquidated, group,
                 price, placed, moves>>

-----------------------------------------------------------------------------
(***************************************************************************)
(* The margin basket                                                       *)
(***************************************************************************)

IsEmpty(o) ==
  /\ o.pc_total = 0 /\ o.coin_total = 0
  /\ o.referrer_rebates = 0
  /\ Used(o) = {}

add_to_basket(w, m) ==
  IF w.num = MaxBasket THEN Require(w, w.basket[m])
  ELSE IF w.basket[m] THEN w
  ELSE [w EXCEPT !.basket[m] = TRUE, !.num = @ + 1]

(* A faulty form: looks at the funds and forgets the order slots. *)
update_basket_FundsOnly(w, m) ==
  LET o == w.oo[m]
      empty == o.pc_total = 0 /\ o.coin_total = 0
  IN  CASE w.basket[m] /\ empty -> [w EXCEPT !.basket[m] = FALSE, !.num = @ - 1]
        [] ~w.basket[m] /\ ~empty ->
             [Require(w, w.num < MaxBasket) EXCEPT !.basket[m] = TRUE, !.num = @ + 1]
        [] OTHER -> w

update_basket(w, m) ==
  CASE w.basket[m] /\ IsEmpty(w.oo[m]) -> [w EXCEPT !.basket[m] = FALSE, !.num = @ - 1]
    [] ~w.basket[m] /\ ~IsEmpty(w.oo[m]) ->
         [Require(w, w.num < MaxBasket) EXCEPT !.basket[m] = TRUE, !.num = @ + 1]
    [] OTHER -> w

(* update_basket for a set of markets, one after the other. *)
UpdateBaskets(w, markets) ==
  FoldSet(LAMBDA m, v : update_basket(v, m), w, markets)

InBasket == {m \in Markets : in_margin_basket[m]}

-----------------------------------------------------------------------------
(***************************************************************************)
(* Health                                                                  *)
(***************************************************************************)

get_net(w, t) == w.ma[trader].deposits[t] - w.ma[trader].borrows[t]

(* A faulty form: always takes all bids as executed. *)
get_spot_val_AllBids(w, m) ==
  LET p == price[m] * One
      net == get_net(w, m)
      o == w.oo[m]
  IN  IF ~w.basket[m] \/ o = None THEN [base |-> Mul(net, p), quote |-> 0]
      ELSE [base |-> Mul(net + o.coin_total * One + Div(pc_locked(o) * One, p), p),
            quote |-> (o.pc_free + o.referrer_rebates) * One]

(* Value of the base token and of the quote in OpenOrders, in the worse of *)
(* two cases: all bids, or all asks are executed at the current price.     *)
get_spot_val(w, m) ==
  LET p == price[m] * One
      net == get_net(w, m)
      o == w.oo[m]
      bids_base_net == net + o.coin_total * One + Div(pc_locked(o) * One, p)
      asks_base_net == net + o.coin_free * One
      quote_free == (o.pc_free + o.referrer_rebates) * One
  IN  IF ~w.basket[m] \/ o = None THEN [base |-> Mul(net, p), quote |-> 0]
      ELSE IF Magnitude(bids_base_net) > Magnitude(asks_base_net)
      THEN [base |-> Mul(bids_base_net, p), quote |-> quote_free]
      ELSE [base |-> Mul(asks_base_net, p),
            quote |-> Mul(coin_locked(o) * One, p) + quote_free + pc_locked(o) * One]

(* type is "init" or "maint" *)
get_health(w, type) ==
  get_net(w, Quote)
  + MapThenSumSet(LAMBDA m :
      LET v == get_spot_val(w, m)
      IN  Mul(v.base, IF v.base < 0 THEN Weights[type].liab ELSE Weights[type].asset) + v.quote,
      Markets)

-----------------------------------------------------------------------------
(***************************************************************************)
(* OpenOrders accounts                                                     *)
(***************************************************************************)

(* Serum refuses an OpenOrders account of another market. *)
Usable(m) == spot_open_orders[m] # None /\ spot_open_orders[m].serum = group[m].serum

init_spot_open_orders(m) ==
  /\ allow_new_open_orders(m)
  /\ spot_open_orders[m] = None
  /\ spot_open_orders' = [spot_open_orders EXCEPT ![m] = EmptyOpenOrders(group[m].serum)]
  /\ UNCHANGED <<ma, bank, in_margin_basket, num_in_margin_basket, being_liquidated, group,
                 price, placed, moves>>

(* The same, at an address derived from the account and the market index. *)
create_spot_open_orders(m) == init_spot_open_orders(m)

(* Anyone may close the empty OpenOrders of a market that is going away. *)
close_spot_open_orders(m) ==
  LET w == IF in_margin_basket[m] THEN update_basket(Work, m) ELSE Work
  IN  /\ Usable(m)
      /\ ~being_liquidated
      /\ ~w.basket[m]
      /\ IsEmpty(spot_open_orders[m])                \* Serum's condition
      /\ Commit([w EXCEPT !.oo[m] = None])
      /\ UNCHANGED <<being_liquidated, group, price, placed, moves>>

update_margin_basket ==
  /\ Commit(UpdateBaskets(Work, {m \in Markets : spot_open_orders[m] # None}))
  /\ UNCHANGED <<being_liquidated, group, price, placed, moves>>

-----------------------------------------------------------------------------
(***************************************************************************)
(* Orders                                                                  *)
(***************************************************************************)

(* A faulty form: a closing order may be larger than the position. *)
ClosingOrder_AnySize(w, m, side, qty) ==
  LET net_pos == get_net(w, m)
  IN  Used(w.oo[m]) = {} /\ (IF side = "bid" THEN net_pos < 0 ELSE net_pos > 0)

(* In a market that is closing an order must be the only one and may not   *)
(* exceed the position.                                                    *)
ClosingOrder(w, m, side, qty) ==
  LET o == w.oo[m]
      net_pos == get_net(w, m) + o.coin_total * One
  IN  /\ Used(o) = {}
      /\ IF side = "bid" THEN net_pos < 0 /\ qty <= Floor(-net_pos)
         ELSE net_pos > 0 /\ qty <= Floor(net_pos)

(* May the order rest on the book? *)
PostAllowed(m, side, p) ==
  CASE side = "bid" /\ is_reduce_only(m) -> p < LowPrice
    [] side = "bid" /\ ~is_reduce_only(m) -> Div(p * One, price[m] * One) <= Weights.maint.liab
    [] OTHER -> Div(p * One, price[m] * One) >= Weights.maint.asset

(* Send the order to Serum, settle, and book what the vaults gained or     *)
(* lost to the account.                                                    *)
AfterOrder(w, m, side, p, qty, taken, ioc) ==
  LET sent == SettleFunds(NewOrder(w, m, side, p, qty, taken, ioc), m)
      done == update_basket(sent, m)
      Gain(t) == (done.bank[t].vault - w.bank[t].vault) * One
  IN  checked_change_net(checked_change_net(done, trader, Quote, Gain(Quote)),
                         trader, m, Gain(m))

(* place_spot_order and place_spot_order2 *)
place_spot_order(m, side, p, qty, taken, ioc) ==
  LET w == add_to_basket(UpdateBaskets(Work, InBasket), m)
      pre_health == get_health(w, "init")
      v == AfterOrder(w, m, side, p, qty, taken, ioc)
      post_health == get_health(v, "init")
      Locked(u) == IF side = "bid" THEN pc_locked(u.oo[m]) ELSE coin_locked(u.oo[m])
  IN  /\ placed < MaxOrders
      /\ placed + moves < MaxMoves
      /\ Usable(m)
      /\ Used(spot_open_orders[m]) # Slot
      /\ w.ok
      /\ being_liquidated => pre_health >= 0
      /\ allow_new_open_orders(m)
      /\ is_reduce_only(m) => ClosingOrder(w, m, side, qty)
      /\ PostAllowed(m, side, p) \/ Locked(v) <= Locked(w)
      /\ IF pre_health < 0 THEN post_health >= pre_health ELSE post_health >= 0
      /\ Commit(v)
      /\ being_liquidated' = FALSE
      /\ placed' = placed + 1
      /\ UNCHANGED <<group, price, moves>>

(* The freed funds stay with Serum; the order slot waits for the crank. *)
cancel_spot_order(m, i) ==
  /\ Usable(m)
  /\ i \in OnBook(spot_open_orders[m])
  /\ spot_open_orders' = [spot_open_orders EXCEPT ![m] = Cancelled(@, i)]
  /\ UNCHANGED <<ma, bank, in_margin_basket, num_in_margin_basket, being_liquidated, group,
                 price, placed, moves>>

(* A faulty form: forgets that settling also pays out rebates. *)
Settled_NoRebate(w, m) ==
  LET o == w.oo[m]
      v == update_basket(SettleFunds(w, m), m)
  IN  checked_change_net(checked_change_net(v, trader, m, o.coin_free * One),
                         trader, Quote, o.pc_free * One)

(* Settle, and book what the OpenOrders have lost to the account. *)
Settled(w, m) ==
  LET o == w.oo[m]
      v == update_basket(SettleFunds(w, m), m)
  IN  checked_change_net(checked_change_net(v, trader, m, o.coin_free * One),
                         trader, Quote, (o.pc_free + o.referrer_rebates) * One)

settle_funds(m) ==
  /\ Usable(m)
  /\ Commit(Settled(Work, m))
  /\ UNCHANGED <<being_liquidated, group, price, placed, moves>>

(* A faulty form: counts the order at hand against the limit. *)
CancelUpTo_OneLess(w, m, limit) ==
  LET on == OnBook(w.oo[m])
      first == {i \in on : Cardinality({j \in on : j <= i}) < limit}
  IN  [w EXCEPT !.oo[m] = FoldSet(LAMBDA i, o : Cancelled(o, i), @, first)]

(* invoke_cancel_orders: the first orders still on the book, by slot. *)
CancelUpTo(w, m, limit) ==
  LET on == OnBook(w.oo[m])
      first == {i \in on : Cardinality({j \in on : j < i}) < limit}
  IN  [w EXCEPT !.oo[m] = FoldSet(LAMBDA i, o : Cancelled(o, i), @, first)]

(* Cancel up to limit orders and settle.  With nothing to settle only the  *)
(* basket is corrected.                                                    *)
CancelAndSettle(m, limit) ==
  LET w == CancelUpTo(Work, m, limit)
      o == w.oo[m]
  IN  IF o.coin_free = 0 /\ o.pc_free + o.referrer_rebates = 0 THEN update_basket(w, m)
      ELSE Settled(w, m)

(* The owner; anyone once the market does not allow new orders. *)
cancel_all_spot_orders(m, limit) ==
  /\ Usable(m)
  /\ Commit(CancelAndSettle(m, limit))
  /\ UNCHANGED <<being_liquidated, group, price, placed, moves>>

(* A liquidator clears the orders of an account below maintenance health   *)
(* (or still not above initial health once its liquidation has begun).     *)
force_cancel_spot_orders(m, limit) ==
  /\ Usable(m)
  /\ in_margin_basket[m]
  /\ IF being_liquidated THEN get_health(Work, "init") <= 0 ELSE get_health(Work, "maint") < 0
  /\ Commit(CancelAndSettle(m, limit))
  /\ being_liquidated' = TRUE
  /\ UNCHANGED <<group, price, placed, moves>>

(* The same instruction finding the account healthy again. *)
force_cancel_recovered(m) ==
  /\ Usable(m)
  /\ in_margin_basket[m]
  /\ being_liquidated
  /\ get_health(Work, "init") > 0
  /\ being_liquidated' = FALSE
  /\ UNCHANGED <<account, group, price, placed, moves>>

-----------------------------------------------------------------------------
(***************************************************************************)
(* Administration and oracles                                              *)
(***************************************************************************)

(* A run has one swap of a market. *)
set_market_mode(m, mode) ==
  /\ \/ mode = "Active" /\ group[m].mode = "SwappingSpotMarket"
     \/ mode = "CloseOnly" /\ group[m].mode = "Active"
     \/ mode = "ForceCloseOnly" /\ group[m].mode = "CloseOnly"
     \/ mode = "SwappingSpotMarket" /\ group[m].mode = "Active" /\ group[m].serum = 0
  /\ placed + moves < MaxMoves
  /\ group' = [group EXCEPT ![m].mode = mode]
  /\ moves' = moves + 1
  /\ UNCHANGED <<account, being_liquidated, price, placed>>

(* Another Serum market takes the place of the current one.  The code does *)
(* not look for OpenOrders of the old market.                              *)
swap_spot_market(m) ==
  /\ group[m].mode = "SwappingSpotMarket"
  /\ group[m].serum = 0
  /\ group' = [group EXCEPT ![m] = [mode |-> "Active", serum |-> 1]]
  /\ UNCHANGED <<account, being_liquidated, price, placed, moves>>

cache_prices(m, p) ==
  /\ p # price[m]
  /\ placed + moves < MaxMoves
  /\ price' = [price EXCEPT ![m] = p]
  /\ moves' = moves + 1
  /\ UNCHANGED <<account, being_liquidated, group, placed>>

Next ==
  \/ \E m \in Markets :
       \/ init_spot_open_orders(m)
       \/ create_spot_open_orders(m)
       \/ close_spot_open_orders(m)
       \/ \E side \in {"bid", "ask"}, p \in Prices, qty \in Quantities, ioc \in BOOLEAN :
            \E taken \in 0..qty : place_spot_order(m, side, p, qty, taken, ioc)
       \/ settle_funds(m)
       \/ \E limit \in CancelLimits :
            cancel_all_spot_orders(m, limit) \/ force_cancel_spot_orders(m, limit)
       \/ force_cancel_recovered(m)
       \/ \E i \in Slot :
            \/ cancel_spot_order(m, i)
            \/ \E lots \in 1 .. Max(Quantities) : serum_match(m, i, lots)
            \/ \E rebate \in Rebates : serum_fill_event(m, i, rebate)
            \/ serum_out_event(m, i)
       \/ \E mode \in ModeChanges[m] : set_market_mode(m, mode)
       \/ swap_spot_market(m)
       \/ \E p \in Prices : cache_prices(m, p)
  \/ update_margin_basket

Spec == Init /\ [][Next]_vars

(* Fairness.  Serum's crank runs, and keepers close down the OpenOrders of *)
(* markets that no longer allow new orders, which needs no signature of    *)
(* the owner.  The trader owes nobody an action.  Each conjunct is weak    *)
(* fairness of an action, with the condition under which the action can    *)
(* change something written out.                                           *)
CanFill(m, i) ==
  /\ spot_open_orders[m] # None
  /\ i \in Used(spot_open_orders[m])
  /\ spot_open_orders[m].slots[i].filled > 0 \/ spot_open_orders[m].slots[i].took

CanCancelAll(m, limit) ==
  /\ ~allow_new_open_orders(m)
  /\ Usable(m)
  /\ CancelAndSettle(m, limit).ok /\ CancelAndSettle(m, limit) # Work

CanClose(m) ==
  ~allow_new_open_orders(m) /\ Usable(m) /\ ~being_liquidated /\ IsEmpty(spot_open_orders[m])

FairSpec ==
  /\ Spec
  /\ \A m \in Markets :
       /\ \A i \in Slot :
            /\ <>[]CanFill(m, i) =>
                 []<><<\E rebate \in Rebates : serum_fill_event(m, i, rebate)>>_vars
            /\ <>[](spot_open_orders[m] # None /\ CanRelease(spot_open_orders[m], i)) =>
                 []<><<serum_out_event(m, i)>>_vars
       /\ \A limit \in CancelLimits :
            <>[]CanCancelAll(m, limit) => []<><<cancel_all_spot_orders(m, limit)>>_vars
       /\ <>[]CanClose(m) => []<><<close_spot_open_orders(m)>>_vars

-----------------------------------------------------------------------------
(***************************************************************************)
(* Properties                                                              *)
(***************************************************************************)

(* The margin basket is what health, liquidation and close_mango_account   *)
(* take it for, whatever Serum did in between: its counter counts its      *)
(* flags and respects the limit, only markets with an OpenOrders account   *)
(* are in it, and no OpenOrders account with funds, rebates or order slots *)
(* in use is left out, where nobody would count or cancel what it holds.   *)
BasketExact ==
  /\ num_in_margin_basket = Cardinality(InBasket)
  /\ num_in_margin_basket <= MaxBasket
  /\ \A m \in Markets :
       /\ in_margin_basket[m] => spot_open_orders[m] # None
       /\ spot_open_orders[m] # None /\ ~IsEmpty(spot_open_orders[m]) => in_margin_basket[m]

(* The vaults hold exactly what the accounts are owed less what they owe,  *)
(* however funds went through Serum: place_spot_order books the change of  *)
(* the vaults, the other instructions book what OpenOrders lost.           *)
VaultsBalance ==
  \A t \in Tokens :
    /\ bank[t].vault * One = bank[t].deposits - bank[t].borrows
    /\ bank[t].deposits = ma[trader].deposits[t] + ma[lender].deposits[t]
    /\ bank[t].borrows = ma[trader].borrows[t] + ma[lender].borrows[t]

(* All resting orders trade at the oracle price or better. *)
FairlyPriced ==
  \A m \in Markets : spot_open_orders[m] # None =>
    \A i \in Used(spot_open_orders[m]) :
      LET order == spot_open_orders[m].slots[i]
      IN  IF order.side = "bid" THEN order.price <= price[m] ELSE order.price >= price[m]

Health(type) == get_health(Work, type)

(* The claim get_spot_val argues for in its comment, over all             *)
(* interleavings: with the oracle price constant and orders no worse than  *)
(* it, an account that passed its health check when it placed an order     *)
(* cannot be made less healthy by fills, partial fills, the crank,         *)
(* cancelling, settling or basket updates, in whatever order.              *)
FillsNeverHurt ==
  [][FairlyPriced /\ price' = price /\ placed' = placed =>
       Health("init")' >= Health("init") /\ Health("maint")' >= Health("maint")]_vars

(* The base tokens of the trader, those with Serum included. *)
Position(m) ==
  get_net(Work, m)
    + (IF spot_open_orders[m] = None THEN 0
       ELSE spot_open_orders[m].coin_total) * One

(* In a market that closes with no orders from before, no order and no     *)
(* later fill increases or flips the position, although the position is    *)
(* split between the bank, Serum's free funds, locked funds and fills that *)
(* the crank has not applied.                                              *)
ClosingShrinks ==
  [][\A m \in Markets : InitMode[m] = "CloseOnly" =>
       IF Position(m) >= 0 THEN 0 <= Position(m)' /\ Position(m)' <= Position(m)
       ELSE Position(m) <= Position(m)' /\ Position(m)' <= 0]_vars

(* Delisting and swapping do not hang on open orders: once a market does   *)
(* not allow new ones, its OpenOrders account is closed without the owner, *)
(* unless a liquidation is in the way or the admin reopens the market.     *)
CloseDownEnds ==
  \A m \in Markets :
    ~allow_new_open_orders(m) ~>
      (spot_open_orders[m] = None \/ being_liquidated \/ allow_new_open_orders(m))

=============================================================================
