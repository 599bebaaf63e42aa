----------------------------- MODULE PerpMarket -----------------------------
(***************************************************************************)
(* The perp markets of a MangoGroup: order books, event queues and the     *)
(* perp side of the MangoAccounts.  One action is one instruction of the   *)
(* program, and instructions are atomic: when a check fails, a queue is    *)
(* full or an unwrap panics the runtime discards every effect, which is no *)
(* step here.                                                              *)
(*                                                                         *)
(* A trade is applied in two halves.  The taker's instruction changes the  *)
(* book, the taker's pending amounts and the market's fees, and pushes     *)
(* events; the makers' accounts are not part of that instruction and only  *)
(* change when a keeper cranks ConsumeEvents.  Between the two anything    *)
(* can happen to the same accounts, slots and books.                       *)
(*                                                                         *)
(* Whether health is sufficient depends on the other assets of an account: *)
(* placing an order passes its checks or fails, and force-cancelling finds *)
(* an account liquidatable or not, as the environment decides.  What an    *)
(* order changes about health is computed.  Liquidity mining rewards are   *)
(* left out: no decision of these instructions reads them.                 *)
(***************************************************************************)
EXTENDS Book

CONSTANTS
  Accounts, Markets,
  NumSlots,       \* MAX_PERP_OPEN_ORDERS: order slots of an account, all markets
  QueueCap,       \* slots of an event queue
  BookCap,        \* orders a book side can hold
  Version,        \* meta_data.version of the markets
  MaxDepth,       \* liquidity_mining_info.max_depth_bps, a size since version 1
  MaxTif,         \* 255: time_in_force is a u8
  MaxFills,       \* u8::MAX: fills of an order that comes without a limit on them
  ValidInterval,  \* valid_interval of the group
  ImpactQuantity, \* IMPACT_QUANTITY: depth a side needs to count for funding
  MakerFee, TakerFee,         \* native quote per quote lot; a maker rebate is negative
  RefShares, RefSurcharges,   \* the referral fee rates of the tiers, in the same unit
  LiabWeight, AssetWeight,    \* maintenance weights in percent
  InitLiabWeight, InitAssetWeight,  \* weights of initial health in percent
  Free,           \* FREE_ORDER_SLOT
  Nobody,         \* no referrer
  \* inputs and bounds of a run
  Prices, Quantities, MaxQuotes, OrderTypes, AbsoluteExpiries, RelativeExpiries,
  MatchLimits, CancelLimits, ConsumeLimits,
  ClientIds, ReduceOnly, OraclePrices,  \* oracle prices in hundredths
  ModeChanges,    \* modes the admin may switch to
  InitBase,       \* positions held at the start, traded in earlier
  InitMode,
  MaxSeq,         \* orders placed per market
  MaxTime

VARIABLES
  book,      \* [market -> [side -> set of resting orders]]
  queue,     \* [market -> sequence of events], module EventFifo
  market,    \* [market -> the PerpMarket account]
  perp,      \* [account -> [market -> PerpAccount]]
  slots,     \* [account -> [slot -> Free or the order it tracks]]
  being_liquidated,
  now        \* Clock::unix_timestamp

vars == <<book, queue, market, perp, slots, being_liquidated, now>>

Slot == 0 .. NumSlots - 1

is_reduce_only(mode) == mode \in {"CloseOnly", "ForceCloseOnly"}

Modes == {"Default", "Active", "CloseOnly", "ForceCloseOnly"}

(* What a slot of the order table holds when it is not free. *)
Tracked == [market : Markets, side : Sides, price : Nat \ {0}, seq : Nat, cid : ClientIds]

SumOver(S, f(_)) == SumFunctionOnSet([x \in S |-> f(x)], S)

Abs(x) == IF x < 0 THEN -x ELSE x

ASSUME PerpAssumption ==
  /\ IsFiniteSet(Accounts) /\ Nobody \notin Accounts /\ Free \notin Tracked
  /\ NumSlots \in Nat /\ QueueCap \in Nat /\ BookCap \in Nat \ {0}
  /\ MakerFee \in Int /\ TakerFee \in Int
  /\ RefShares \subseteq Int /\ RefSurcharges \subseteq Int
  /\ MaxFills \in Nat \ {0} /\ InitLiabWeight \in Int /\ InitAssetWeight \in Int
  /\ InitMode \in Modes
  /\ InitBase \in [Accounts -> Int] /\ SumOver(Accounts, LAMBDA a : InitBase[a]) = 0

ASSUME InputAssumption ==
  /\ Prices \subseteq Int /\ Quantities \subseteq Nat /\ MaxQuotes \subseteq Nat
  /\ MatchLimits \subseteq Nat /\ CancelLimits \subseteq Nat /\ ConsumeLimits \subseteq Nat
  /\ AbsoluteExpiries \subseteq Int /\ RelativeExpiries \subseteq Int /\ MaxTif \in Nat
  /\ OraclePrices \subseteq Int

Init ==
  /\ book = [m \in Markets |-> [s \in Sides |-> {}]]
  /\ queue = [m \in Markets |-> <<>>]
  /\ market = [m \in Markets |->
       [seq_num |-> 0, fees_accrued |-> 0, funding |-> 0, last_updated |-> 0, cached_at |-> 0,
        mode |-> InitMode,
        open_interest |-> SumOver(Accounts, LAMBDA a : Abs(InitBase[a]))]]
  /\ perp = [a \in Accounts |-> [m \in Markets |->
       [base |-> InitBase[a], quote |-> 0, settled |-> 0, taker_base |-> 0,
        taker_quote |-> 0, on_orders |-> [s \in Sides |-> 0]]]]
  /\ slots = [a \in Accounts |-> [s \in Slot |-> Free]]
  /\ being_liquidated = [a \in Accounts |-> FALSE]
  /\ now = 0

(* PerpMarketCache::check_valid *)
CacheValid(m) == market[m].cached_at >= now - 2 * ValidInterval

-----------------------------------------------------------------------------
(***************************************************************************)
(* Placing an order                                                        *)
(***************************************************************************)

(* get_complete_base_pos: the position once every event has been consumed. *)
MakerFills(a, m) ==
  {i \in DOMAIN queue[m] : queue[m][i].type = "fill" /\ queue[m][i].maker = a}

get_complete_base_pos(a, m) ==
  perp[a][m].base + perp[a][m].taker_base
    + SumOver(MakerFills(a, m),
              LAMBDA i : IF queue[m][i].taker_side = "bid" THEN -queue[m][i].qty
                         ELSE queue[m][i].qty)

(* A faulty form: forgets the orders that already rest. *)
ReducedQuantityAlone(a, m, side, qty) ==
  LET pos == get_complete_base_pos(a, m)
  IN  IF (side = "bid" /\ pos > 0) \/ (side = "ask" /\ pos < 0) THEN 0
      ELSE Min({IF pos < 0 THEN -pos ELSE pos, qty})

(* The quantity a reduce-only order is cut down to. *)
ReducedQuantity(a, m, side, qty) ==
  LET pos  == get_complete_base_pos(a, m)
      size == IF pos < 0 THEN -pos ELSE pos
  IN  IF (side = "bid" /\ pos > 0) \/ (side = "ask" /\ pos < 0) THEN 0
      ELSE IF is_reduce_only(market[m].mode)
      THEN Max({0, Min({size - perp[a][m].on_orders[side], qty})})
      ELSE Min({size, qty})

(* May an order at this price rest on the book?  Bids far above and asks   *)
(* far below the oracle may only match.                                    *)
WithinPriceLimit(m, side, price, oracle) ==
  IF side = "bid"
  THEN \/ price * 10000 <= LiabWeight * oracle
       \/ is_reduce_only(market[m].mode) /\ ~(oracle < 100 /\ price > 1)
  ELSE price * 10000 >= AssetWeight * oracle

(* determine_ref_vars: who gets a referral fee and at which rate.  Holders *)
(* of enough MNGO pay none; a valid referrer gets a share; otherwise the   *)
(* market takes a surcharge.                                               *)
RefVars(a) ==
  {[rate |-> r, to |-> Nobody] : r \in {0} \cup RefSurcharges}
    \cup {[rate |-> r, to |-> x] :
            r \in RefShares, x \in {y \in Accounts \ {a} : ~being_liquidated[y]}}

(* A faulty form: the order is dropped and nobody is told. *)
OutEventsLost(S, side) == <<>>

(* The OutEvents for a set of at most one order. *)
OutEvents(S, side) == [i \in 1..Cardinality(S) |-> OutEvent(CHOOSE o \in S : TRUE, side)]

(* What a new order trades against the other side, the fills it had left   *)
(* at the end, and the quantity that is left to rest on its own side.  A   *)
(* price of 0 never gets to rest: dividing by it panics.                   *)
Matching(a, m, side, price0, base, quote, type, limit, oracle) ==
  LET opp     == invert_side(side)
      price   == EffectivePrice(side, type, price0, book[m][opp], now)
      allowed == type \notin {"ImmediateOrCancel", "Market"}
                   /\ WithinPriceLimit(m, side, price, oracle)
      match   == Match(side, type, price, base, quote, limit, allowed, a, book[m][opp], now)
  IN  [price |-> price, evs |-> match.evs, rest |-> match.rest,
       base |-> base - match.base, quote |-> quote - match.quote, fills_left |-> match.limit,
       resting |-> IF match.post /\ price > 0
                   THEN Min({match.base, match.quote \div price}) ELSE 0]

(* What an order does to the perp account of its taker.  Fees are charged  *)
(* on what was taken, at the time of the trade.                            *)
AfterOrder(pa, side, taken, rate) ==
  LET sign == IF side = "bid" THEN 1 ELSE -1
  IN  [pa EXCEPT !.taker_base = @ + sign * taken.base,
                 !.taker_quote = @ - sign * taken.quote,
                 !.quote = @ - taken.quote * (TakerFee + rate),
                 !.on_orders[side] = @ + taken.resting]

(* Book::new_order: match, then post what is left. *)
new_order(a, m, side, price0, base, quote, type, expiry, limit, cid, oracle, ref) ==
  LET taken   == Matching(a, m, side, price0, base, quote, type, limit, oracle)
      price   == taken.price
      posts   == taken.resting > 0
      dropped == IF posts THEN OneExpired(side, book[m][side], now) ELSE {}
      own     == book[m][side] \ dropped
      booted  == IF posts /\ Cardinality(own) >= BookCap THEN {Worst(side, own)} ELSE {}
      evs     == taken.evs \o OutEvents(dropped, side) \o OutEvents(booted, side)
      free    == {s \in Slot : slots[a][s] = Free}
      order   == [price |-> price, seq |-> market[m].seq_num + 1, owner |-> a,
                  slot |-> Min(free), qty |-> taken.resting, expiry |-> expiry]
      paid    == [perp EXCEPT ![a][m] = AfterOrder(@, side, taken, ref.rate)]
  IN  /\ price > 0                                   \* division by zero panics
      /\ Len(queue[m]) + Len(evs) <= QueueCap        \* push_back().unwrap()
      /\ \A o \in booted : OutOfReach(side, o.price, price) \* OutOfSpace
      /\ posts => free # {}                          \* TooManyOpenOrders
      /\ queue' = [queue EXCEPT ![m] = @ \o evs]
      /\ book' = [book EXCEPT ![m][invert_side(side)] = taken.rest,
                              ![m][side] = (own \ booted) \cup (IF posts THEN {order} ELSE {})]
      /\ market' = [market EXCEPT
                      ![m].seq_num = @ + 1,
                      ![m].fees_accrued = @ + taken.quote * (TakerFee + MakerFee
                                                + (IF ref.to = Nobody THEN ref.rate ELSE 0))]
      /\ perp' = IF ref.to = Nobody THEN paid
                 ELSE [paid EXCEPT ![ref.to][m].quote = @ + taken.quote * ref.rate]
      /\ slots' = IF posts
                  THEN [slots EXCEPT ![a][order.slot] =
                          [market |-> m, side |-> side, price |-> price, seq |-> order.seq,
                           cid |-> cid]]
                  ELSE slots

(* A faulty form: trades with expired orders too. *)
SimOneExpired(acc, o, side, type, price) ==
  LET by_quote == acc.quote \div o.price
      qty      == Min({acc.base, o.qty, by_quote})
  IN  IF acc.done THEN acc
      ELSE IF OutOfReach(side, price, o.price) THEN [acc EXCEPT !.done = TRUE]
      ELSE IF post_only(type) THEN [acc EXCEPT !.done = TRUE, !.crossed = TRUE]
      ELSE [acc EXCEPT !.base = @ - qty,
                       !.quote = @ - qty * o.price,
                       !.done = qty = by_quote \/ qty = acc.base]

(* One iteration of the loops of sim_new_bid and sim_new_ask, which walk   *)
(* the valid orders of the other side.  Unlike MatchOne it counts neither  *)
(* fills nor dropped orders, and running out of quote does not forbid to   *)
(* post.                                                                   *)
SimOne(acc, o, side, type, price) ==
  LET by_quote == acc.quote \div o.price
      qty      == Min({acc.base, o.qty, by_quote})
  IN  IF acc.done \/ ~is_valid(o, now) THEN acc
      ELSE IF OutOfReach(side, price, o.price) THEN [acc EXCEPT !.done = TRUE]
      ELSE IF post_only(type) THEN [acc EXCEPT !.done = TRUE, !.crossed = TRUE]
      ELSE [acc EXCEPT !.base = @ - qty,
                       !.quote = @ - qty * o.price,
                       !.done = qty = by_quote \/ qty = acc.base]

(* sim_new_bid and sim_new_ask, called with no limit on the quote: what an *)
(* order would take and leave to rest.  A post-only order that crosses     *)
(* does neither.                                                           *)
SimNewOrder(m, side, price0, base, type, oracle) ==
  LET opp   == invert_side(side)
      price == EffectivePrice(side, type, price0, book[m][opp], now)
      end   == FoldLeft(LAMBDA acc, o : SimOne(acc, o, side, type, price),
                        [base |-> base, quote |-> Unbounded, crossed |-> FALSE, done |-> FALSE],
                        Sorted(opp, book[m][opp]))
      posts == type \notin {"ImmediateOrCancel", "Market"}
                 /\ WithinPriceLimit(m, side, price, oracle)
  IN  IF end.crossed THEN [base |-> 0, quote |-> 0, resting |-> 0]
      ELSE [base |-> base - end.base, quote |-> Unbounded - end.quote,
            resting |-> IF posts /\ price > 0
                        THEN Min({end.base, end.quote \div price}) ELSE 0]

(* The unweighted value of a perp account, as if all its bids or all its   *)
(* asks were filled, whichever gives the larger position; in hundredths.   *)
get_val(pa, funding, oracle) ==
  LET pos   == pa.base + pa.taker_base
      bids  == pos + pa.on_orders["bid"]
      asks  == pos - pa.on_orders["ask"]
      quote == pa.quote - (funding - pa.settled) * pa.base + pa.taker_quote
  IN  IF Abs(bids) > Abs(asks)
      THEN [base |-> bids * oracle, quote |-> 100 * quote - pa.on_orders["bid"] * oracle]
      ELSE [base |-> asks * oracle, quote |-> 100 * quote + pa.on_orders["ask"] * oracle]

(* The same with the amounts of a simulated order added. *)
sim_get_val(pa, side, sim, funding, oracle) ==
  LET sign == IF side = "bid" THEN 1 ELSE -1
  IN  get_val([pa EXCEPT !.taker_base = @ + sign * sim.base,
                         !.taker_quote = @ - sign * sim.quote,
                         !.on_orders[side] = @ + sim.resting], funding, oracle)

(* The part of initial health that comes from the market, in hundredths of *)
(* a percent.  No order changes the other parts.                           *)
HealthOf(val) ==
  val.base * (IF val.base < 0 THEN InitLiabWeight ELSE InitAssetWeight) + 100 * val.quote

(* update_perp_val, after the order has been placed. *)
post_health(pa, funding, oracle) == HealthOf(get_val(pa, funding, oracle))

(* get_health_after_sim_perp, before that.  The position does not pay the  *)
(* fees yet; rate is the surcharge of a taker without referrer.            *)
sim_post_health(pa, side, sim, rate, funding, oracle) ==
  HealthOf(sim_get_val(pa, side, sim, funding, oracle)) - 10000 * sim.quote * (TakerFee + rate)

(* The part place_perp_order and place_perp_order2 share.  An accepted     *)
(* order ends the liquidation of the account: it is refused while the      *)
(* account is below initial health.                                        *)
PlaceOrder(a, m, side, price, qty, quote, type, reduce_only, expiry, limit, cid) ==
  LET base == IF reduce_only THEN ReducedQuantity(a, m, side, qty) ELSE qty
  IN  /\ market[m].mode # "ForceCloseOnly"
      /\ is_reduce_only(market[m].mode) => reduce_only
      /\ CacheValid(m)
      /\ market[m].seq_num < MaxSeq
      /\ being_liquidated' = [being_liquidated EXCEPT ![a] = FALSE]
      /\ UNCHANGED now
      /\ \/ base = 0 /\ UNCHANGED <<book, queue, market, perp, slots>>
         \/ /\ base > 0
            /\ \E oracle \in OraclePrices, ref \in RefVars(a) :
                 new_order(a, m, side, price, base, quote, type, expiry, limit, cid, oracle, ref)

place_perp_order(a, m) ==
  \E side \in Sides, price \in Prices, qty \in Quantities, type \in OrderTypes,
     reduce_only \in ReduceOnly, cid \in ClientIds :
    PlaceOrder(a, m, side, price, qty, Unbounded, type, reduce_only, NoExpiry, MaxFills, cid)

(* The expiry an order gets: never, or now plus a time in force that fits  *)
(* a u8.  An empty set means the instruction places nothing.               *)
AbsoluteExpiry(ts) ==
  IF ts = 0 THEN {NoExpiry} ELSE {Min({ts, now + MaxTif})} \ (0..now)

RelativeExpiry(tif) == IF tif \in 1..MaxTif THEN {now + tif} ELSE {}

place_perp_order2(a, m) ==
  \E side \in Sides, price \in Prices, qty \in Quantities, quote \in MaxQuotes,
     type \in OrderTypes, reduce_only \in ReduceOnly, limit \in MatchLimits,
     cid \in ClientIds,
     expiry \in UNION ({AbsoluteExpiry(ts) : ts \in AbsoluteExpiries}
                         \cup {RelativeExpiry(tif) : tif \in RelativeExpiries}) :
    PlaceOrder(a, m, side, price, qty, quote, type, reduce_only, expiry, limit, cid)

-----------------------------------------------------------------------------
(***************************************************************************)
(* Cancelling.  An instruction that makes several changes in a row threads *)
(* them through a record of the state it works on; ok turns FALSE where    *)
(* the code returns an error or panics.                                    *)
(***************************************************************************)

Work(m) == [book |-> book[m], perp |-> perp, slots |-> slots,
            open_interest |-> market[m].open_interest, ok |-> TRUE]

(* A faulty form: frees the slot but keeps counting the quantity. *)
remove_order_quantity_kept(w, a, s, qty) ==
  IF w.slots[a][s] = Free THEN [w EXCEPT !.ok = FALSE] ELSE [w EXCEPT !.slots[a][s] = Free]

(* The quantity comes off the market and side the slot says the order has. *)
remove_order(w, a, s, qty) ==
  LET t == w.slots[a][s]
  IN  IF t = Free THEN [w EXCEPT !.ok = FALSE]
      ELSE [w EXCEPT !.perp[a][t.market].on_orders[t.side] = @ - qty,
                     !.slots[a][s] = Free]

(* The resting order with the key of slot content (or key) k. *)
Resting(S, k) == {o \in S : o.price = k.price /\ o.seq = k.seq}

(* Cancel one order if it is still on the book; an order that has left it  *)
(* waits for the keeper.                                                   *)
CancelOne(w, a, side, k) ==
  LET found == Resting(w.book[side], k)
      o     == CHOOSE x \in found : TRUE
  IN  IF found = {} THEN w
      ELSE [remove_order(w, a, o.slot, o.qty) EXCEPT !.book[side] = @ \ {o}]

Commit(m, w) ==
  /\ w.ok
  /\ book' = [book EXCEPT ![m] = w.book]
  /\ perp' = w.perp
  /\ slots' = w.slots
  /\ market' = [market EXCEPT ![m].open_interest = w.open_interest]

(* A set of numbers in ascending order. *)
Ascending(S) ==
  [i \in 1..Cardinality(S) |-> CHOOSE x \in S : Cardinality({y \in S : y < x}) = i - 1]

(* A faulty form: takes the slots of all markets. *)
SlotsOfAnyMarket(a, m) == Ascending({s \in Slot : slots[a][s] # Free})

(* The account's slots holding orders of market m, in slot order. *)
SlotsOf(a, m) == Ascending({s \in Slot : slots[a][s] # Free /\ slots[a][s].market = m})

(* Cancel the order in slot s.  Before version 1 the handler asks for the  *)
(* best valid price of that side first and panics if there is none.        *)
CancelSlot(a, m, s) ==
  LET k == slots[a][s]
  IN  /\ Version = 0 => Valid(book[m][k.side], now) # {}
      /\ \E o \in Resting(book[m][k.side], k) : o.owner = a
      /\ Commit(m, CancelOne(Work(m), a, k.side, k))
      /\ UNCHANGED <<queue, being_liquidated, now>>

cancel_perp_order(a, m) == \E s \in ToSet(SlotsOf(a, m)) : CancelSlot(a, m, s)

(* The first slot with that client id is the one: if its order has left    *)
(* the book the instruction fails, whatever later slots hold.              *)
cancel_perp_order_by_client_id(a, m) ==
  \E cid \in ClientIds :
    LET matching == {s \in ToSet(SlotsOf(a, m)) : slots[a][s].cid = cid}
    IN  matching # {} /\ CancelSlot(a, m, Min(matching))

(* A faulty form: stops before the slot that uses up the limit. *)
VisitedOneLess(a, m, limit) ==
  LET all == SlotsOf(a, m)
  IN  IF limit = 0 THEN all ELSE SubSeq(all, 1, Min({limit - 1, Len(all)}))

(* The slots a slot-by-slot loop visits: limit is decremented and then     *)
(* compared with 0, so a limit of 0 wraps and means no limit.              *)
Visited(a, m, limit) ==
  LET all == SlotsOf(a, m)
  IN  IF limit = 0 THEN all ELSE SubSeq(all, 1, Min({limit, Len(all)}))

(* cancel_all: a slot whose order is waiting on the queue uses up limit. *)
CancelSlots(a, m, limit) ==
  FoldLeft(LAMBDA w, s : CancelOne(w, a, slots[a][s].side, slots[a][s]),
           Work(m), Visited(a, m, limit))

(* cancel_all_with_price_incentives: the same, with the unwrap of the best *)
(* price before each slot.                                                 *)
CancelSlotsByPrice(a, m, limit) ==
  FoldLeft(LAMBDA w, s :
             IF Valid(w.book[slots[a][s].side], now) = {} THEN [w EXCEPT !.ok = FALSE]
             ELSE CancelOne(w, a, slots[a][s].side, slots[a][s]),
           Work(m), Visited(a, m, limit))

(* cancel_all_with_size_incentives on the given sides, bids first. *)
CancelSidesBySize(a, m, sides, limit) ==
  LET Keys(side) == {[side |-> side, price |-> slots[a][s].price, seq |-> slots[a][s].seq] :
                       s \in {x \in ToSet(SlotsOf(a, m)) : slots[a][x].side = side}}
      List(side) == IF side \in sides
                    THEN CancelList(side, book[m][side], Keys(side), MaxDepth, now) ELSE <<>>
      all == List("bid") \o List("ask")
  IN  FoldLeft(LAMBDA w, k : CancelOne(w, a, k.side, k),
               Work(m), SubSeq(all, 1, Min({limit, Len(all)})))

cancel_all_perp_orders(a, m) ==
  /\ SlotsOf(a, m) # <<>>
  /\ \E limit \in CancelLimits :
       Commit(m, IF Version = 0 THEN CancelSlotsByPrice(a, m, limit)
                 ELSE CancelSidesBySize(a, m, Sides, limit))
  /\ UNCHANGED <<queue, being_liquidated, now>>

cancel_perp_orders_side(a, m) ==
  /\ Version # 0
  /\ SlotsOf(a, m) # <<>>
  /\ \E limit \in CancelLimits, side \in Sides :
       Commit(m, CancelSidesBySize(a, m, {side}, limit))
  /\ UNCHANGED <<queue, being_liquidated, now>>

(* A liquidator clears the orders of an account below maintenance health   *)
(* (or still below initial health once its liquidation has begun).         *)
force_cancel_perp_orders(a, m) ==
  /\ CacheValid(m)
  /\ \E limit \in CancelLimits : Commit(m, CancelSlots(a, m, limit))
  /\ being_liquidated' = [being_liquidated EXCEPT ![a] = TRUE]
  /\ UNCHANGED <<queue, now>>

(* The same instruction finding the account above initial health again. *)
force_cancel_recovered(a, m) ==
  /\ CacheValid(m)
  /\ being_liquidated[a]
  /\ being_liquidated' = [being_liquidated EXCEPT ![a] = FALSE]
  /\ UNCHANGED <<book, queue, market, perp, slots, now>>

-----------------------------------------------------------------------------
(***************************************************************************)
(* The keeper's crank                                                      *)
(***************************************************************************)

(* A faulty form: open interest grows with every trade. *)
TradeOnlyOpens(w, a, m, base, quote) ==
  LET pa == w.perp[a][m]
      f  == market[m].funding
  IN  [w EXCEPT !.perp[a][m] =
                  [pa EXCEPT !.quote = @ - pa.base * (f - pa.settled) + quote,
                             !.settled = f,
                             !.base = @ + base],
                !.open_interest = @ + Abs(base)]

(* A faulty form: marks funding as settled without paying it. *)
TradeFundingUnpaid(w, a, m, base, quote) ==
  LET pa == w.perp[a][m]
  IN  [w EXCEPT !.perp[a][m] =
                  [pa EXCEPT !.quote = @ + quote,
                             !.settled = market[m].funding,
                             !.base = @ + base],
                !.open_interest = @ + Abs(pa.base + base) - Abs(pa.base)]

(* settle_funding, change_base_position and the quote that goes with it:   *)
(* what execute_maker and execute_taker both do to a PerpAccount.          *)
Trade(w, a, m, base, quote) ==
  LET pa == w.perp[a][m]
      f  == market[m].funding
  IN  [w EXCEPT !.perp[a][m] =
                  [pa EXCEPT !.quote = @ - pa.base * (f - pa.settled) + quote,
                             !.settled = f,
                             !.base = @ + base],
                !.open_interest = @ + Abs(pa.base + base) - Abs(pa.base)]

(* A faulty form: the pending quote of the taker is never taken back. *)
execute_taker_base_only(w, m, e) ==
  LET sign == IF e.taker_side = "bid" THEN 1 ELSE -1
  IN  Trade([w EXCEPT !.perp[e.taker][m].taker_base = @ - sign * e.qty],
            e.taker, m, sign * e.qty, -sign * e.qty * e.price)

execute_taker(w, m, e) ==
  LET sign == IF e.taker_side = "bid" THEN 1 ELSE -1
      base == sign * e.qty
      quote == -sign * e.qty * e.price
  IN  Trade([w EXCEPT !.perp[e.taker][m].taker_base = @ - base,
                      !.perp[e.taker][m].taker_quote = @ - quote],
            e.taker, m, base, quote)

(* A faulty form: the maker pays no fee. *)
execute_maker_no_fee(w, m, e) ==
  LET side == invert_side(e.taker_side)
      sign == IF side = "bid" THEN 1 ELSE -1
      w2   == Trade(w, e.maker, m, sign * e.qty, -sign * e.qty * e.price)
  IN  IF e.maker_out THEN remove_order(w2, e.maker, e.maker_slot, e.qty)
      ELSE [w2 EXCEPT !.perp[e.maker][m].on_orders[side] = @ - e.qty]

(* The maker pays its fee now; the market has booked it at trade time. *)
execute_maker(w, m, e) ==
  LET side == invert_side(e.taker_side)
      sign == IF side = "bid" THEN 1 ELSE -1
      w2   == Trade(w, e.maker, m, sign * e.qty, -sign * e.qty * e.price
                                                   - e.qty * e.price * MakerFee)
  IN  IF e.maker_out THEN remove_order(w2, e.maker, e.maker_slot, e.qty)
      ELSE [w2 EXCEPT !.perp[e.maker][m].on_orders[side] = @ - e.qty]

Process(w, m, e) ==
  IF e.type = "fill" THEN execute_taker(execute_maker(w, m, e), m, e)
  ELSE remove_order(w, e.owner, e.slot, e.qty)

Parties(e) == IF e.type = "fill" THEN {e.maker, e.taker} ELSE {e.owner}

(* A faulty form: never takes the last event. *)
ConsumedButLast(m, limit, passed) ==
  Max({0} \cup {n \in 0 .. Min({limit, Len(queue[m]) - 1}) :
                  \A i \in 1..n : Parties(queue[m][i]) \subseteq passed})

(* Events are consumed from the front until limit, the end of the queue or *)
(* an event of an account the caller did not pass in.                      *)
Consumed(m, limit, passed) ==
  Max({n \in 0 .. Min({limit, Len(queue[m])}) :
         \A i \in 1..n : Parties(queue[m][i]) \subseteq passed})

AfterEvents(m, n) ==
  FoldLeft(LAMBDA w, e : Process(w, m, e), Work(m), SubSeq(queue[m], 1, n))

consume_events(m, limit, passed) ==
  LET n == Consumed(m, limit, passed)
  IN  /\ CacheValid(m)
      /\ n > 0
      /\ Commit(m, AfterEvents(m, n))
      /\ queue' = [queue EXCEPT ![m] = SubSeq(@, n + 1, Len(@))]
      /\ UNCHANGED <<being_liquidated, now>>

(* Does the side hold enough for get_impact_price to return a price? *)
HasImpact(m, side) ==
  SumOver(Valid(book[m][side], now), LAMBDA o : o.qty) >= ImpactQuantity

(* The premium of the book over the index moves funding, for longs and     *)
(* shorts alike, and goes straight to the cache.  One unit per unit of     *)
(* time is the cap; a two-sided book can give anything within it.          *)
update_funding(m) ==
  LET dt == now - market[m].last_updated
      rates == IF HasImpact(m, "bid") /\ HasImpact(m, "ask") THEN {-1, 0, 1}
               ELSE IF HasImpact(m, "bid") THEN {1}
               ELSE IF HasImpact(m, "ask") THEN {-1} ELSE {0}
  IN  /\ \E r \in rates :
            market' = [market EXCEPT ![m].funding = @ + r * dt,
                                     ![m].last_updated = now,
                                     ![m].cached_at = now]
      /\ UNCHANGED <<book, queue, perp, slots, being_liquidated, now>>

cache_perp_markets(m) ==
  /\ market' = [market EXCEPT ![m].cached_at = now]
  /\ UNCHANGED <<book, queue, perp, slots, being_liquidated, now>>

(* The admin delists a market in two stages. *)
set_market_mode(m, mode) ==
  /\ \/ mode = "Active" /\ market[m].mode = "Default"
     \/ mode = "CloseOnly" /\ market[m].mode \in {"Default", "Active"}
     \/ mode = "ForceCloseOnly" /\ market[m].mode = "CloseOnly"
  /\ market' = [market EXCEPT ![m].mode = mode]
  /\ UNCHANGED <<book, queue, perp, slots, being_liquidated, now>>

Tick ==
  /\ now < MaxTime
  /\ now' = now + 1
  /\ UNCHANGED <<book, queue, market, perp, slots, being_liquidated>>

Next ==
  \/ \E a \in Accounts, m \in Markets :
       \/ place_perp_order(a, m)
       \/ place_perp_order2(a, m)
       \/ cancel_perp_order(a, m)
       \/ cancel_perp_order_by_client_id(a, m)
       \/ cancel_all_perp_orders(a, m)
       \/ cancel_perp_orders_side(a, m)
       \/ force_cancel_perp_orders(a, m)
       \/ force_cancel_recovered(a, m)
  \/ \E m \in Markets :
       \/ \E limit \in ConsumeLimits, passed \in SUBSET Accounts :
            consume_events(m, limit, passed)
       \/ update_funding(m)
       \/ cache_perp_markets(m)
       \/ \E mode \in ModeChanges : set_market_mode(m, mode)
  \/ Tick

Spec == Init /\ [][Next]_vars

(* Fairness.  Keepers crank the queues with all the accounts concerned and *)
(* refresh the caches; liquidators keep calling ForceCancelPerpOrders on   *)
(* an account whose liquidation has begun.  Traders owe nobody an action.  *)
(* Each conjunct is weak fairness of an action, with the condition under   *)
(* which the action can change something written out.                      *)
CanCrank(m) ==
  /\ CacheValid(m)
  /\ Consumed(m, QueueCap, Accounts) > 0
  /\ AfterEvents(m, Consumed(m, QueueCap, Accounts)).ok

CanForceCancel(a, m) ==
  /\ being_liquidated[a]
  /\ CacheValid(m)
  /\ \E limit \in CancelLimits : CancelSlots(a, m, limit).ok /\ CancelSlots(a, m, limit) # Work(m)

FairSpec ==
  /\ Spec
  /\ \A m \in Markets :
       /\ <>[]CanCrank(m) => []<><<consume_events(m, QueueCap, Accounts)>>_vars
       /\ WF_vars(cache_perp_markets(m))
       /\ \A a \in Accounts :
            <>[]CanForceCancel(a, m) => []<><<force_cancel_perp_orders(a, m)>>_vars

-----------------------------------------------------------------------------
(***************************************************************************)
(* Properties                                                              *)
(***************************************************************************)

(* The events of m that will release slot s of account a when consumed. *)
Releases(e, a, s) ==
  \/ e.type = "out" /\ e.owner = a /\ e.slot = s
  \/ e.type = "fill" /\ e.maker_out /\ e.maker = a /\ e.maker_slot = s

(* Everything that owns slot s of account a: orders on the books and       *)
(* events on the queues.                                                   *)
OrdersAt(m, side, a, s) ==
  {<<m, side, o>> : o \in {x \in book[m][side] : x.owner = a /\ x.slot = s}}

EventsAt(m, a, s) ==
  {<<m, "queue", i>> : i \in {j \in DOMAIN queue[m] : Releases(queue[m][j], a, s)}}

Owners(a, s) ==
  UNION {OrdersAt(m, "bid", a, s) \cup OrdersAt(m, "ask", a, s) \cup EventsAt(m, a, s) : m \in Markets}

(* An occupied order slot has exactly one owner, a resting order or the    *)
(* one event that will release it, and a free slot has none: a slot is     *)
(* never reused while an event for its previous order is still queued, and *)
(* never leaks.  A resting order is the one its slot describes.            *)
SlotOwnership ==
  \A a \in Accounts, s \in Slot :
    /\ Cardinality(Owners(a, s)) = IF slots[a][s] = Free THEN 0 ELSE 1
    /\ \A m \in Markets, side \in Sides : \A o \in book[m][side] :
         o.owner = a /\ o.slot = s =>
           /\ slots[a][s].market = m /\ slots[a][s].side = side
           /\ slots[a][s].price = o.price /\ slots[a][s].seq = o.seq

(* ConsumeEvents never meets an event it cannot apply: an error there      *)
(* would abort every crank and block the market for good.                  *)
NeverStuck == \A m \in Markets : AfterEvents(m, Len(queue[m])).ok

(* bids_quantity and asks_quantity, which health and has_no_open_orders    *)
(* read, count exactly the account's resting lots and the lots of its      *)
(* orders whose fill or removal is still on the queue.                     *)
OnOrdersExact ==
  \A a \in Accounts, m \in Markets, side \in Sides :
    perp[a][m].on_orders[side] =
      SumOver({o \in book[m][side] : o.owner = a}, LAMBDA o : o.qty)
      + SumOver({i \in DOMAIN queue[m] :
                   LET e == queue[m][i]
                   IN  \/ e.type = "out" /\ e.owner = a /\ e.side = side
                       \/ e.type = "fill" /\ e.maker = a /\ e.taker_side # side},
                LAMBDA i : queue[m][i].qty)

(* Once the queue is drained no taker amount is left pending, and every    *)
(* base position is what get_complete_base_pos promised beforehand, which  *)
(* is what reduce-only orders are cut down by.                             *)
DrainSettlesTakers ==
  \A a \in Accounts, m \in Markets :
    LET end == AfterEvents(m, Len(queue[m])).perp[a][m]
    IN  /\ end.taker_base = 0 /\ end.taker_quote = 0
        /\ end.base = get_complete_base_pos(a, m)

(* Longs and shorts balance, and open_interest, which socialized losses    *)
(* are divided by, is the sum of their sizes.                              *)
PositionsBalance ==
  \A m \in Markets :
    /\ SumOver(Accounts, LAMBDA a : perp[a][m].base) = 0
    /\ SumOver(Accounts, LAMBDA a : Abs(perp[a][m].base)) = market[m].open_interest

(* No quote is created or destroyed by trading, fees, referral fees and    *)
(* funding: what the accounts hold, funding not yet settled included, plus *)
(* the fees of the market is what makers still owe in fees for queued      *)
(* fills.                                                                  *)
QuoteConserved ==
  \A m \in Markets :
    SumOver(Accounts, LAMBDA a : perp[a][m].quote + perp[a][m].base * perp[a][m].settled)
      + market[m].fees_accrued
    = MakerFee * SumOver({i \in DOMAIN queue[m] : queue[m][i].type = "fill"},
                         LAMBDA i : queue[m][i].qty * queue[m][i].price)

(* Among valid orders every bid is below every ask: an order trades        *)
(* against everything it crosses before the rest of it is posted.          *)
BookNotCrossed ==
  \A m \in Markets : \A b \in Valid(book[m]["bid"], now), o \in Valid(book[m]["ask"], now) :
    b.price < o.price

(* Price-time priority: an order that is filled has not expired, fills at  *)
(* its own price, and every valid order in front of it in the book has     *)
(* been used up by the same instruction.                                   *)
NewFills(m) ==
  {queue'[m][i] : i \in {j \in Len(queue[m]) + 1 .. Len(queue'[m]) : queue'[m][j].type = "fill"}}

FilledInTurn ==
  \A m \in Markets : \A e \in NewFills(m) :
    LET side == invert_side(e.taker_side)
    IN  \E o \in Valid(book[m][side], now) :
          /\ o.owner = e.maker /\ o.slot = e.maker_slot /\ o.price = e.price
          /\ \A p \in Valid(book[m][side], now) :
               Before(side, p, o) => \A q \in book'[m][side] : q.seq # p.seq

PriceTimePriority == [][FilledInTurn]_vars

(* In a market that turned CloseOnly with no orders on its book, no        *)
(* instruction and no later crank increases or flips a position, fills     *)
(* still on the queue counted in: several resting reduce-only orders       *)
(* cannot together exceed the position they reduce.                        *)
CloseOnlyShrinks ==
  [][\A a \in Accounts, m \in Markets :
       LET pos == get_complete_base_pos(a, m)
           new == get_complete_base_pos(a, m)'
       IN  is_reduce_only(market[m].mode) =>
             IF pos >= 0 THEN 0 <= new /\ new <= pos ELSE pos <= new /\ new <= 0]_vars

AllTypes == {"Limit", "ImmediateOrCancel", "PostOnly", "Market", "PostOnlySlide"}

(* Matching stopped because the order had no fill left, although it had    *)
(* base left and there were orders to take: the limit of new_bid and       *)
(* new_ask, which sim_new_bid and sim_new_ask do not have.                 *)
LimitReached(side, qty, taken) ==
  /\ taken.fills_left = 0 /\ taken.base < qty
  /\ \E o \in Valid(taken.rest, now) : ~OutOfReach(side, taken.price, o.price)

Foreseen(sim, taken) ==
  sim.base = taken.base /\ sim.quote = taken.quote /\ sim.resting = taken.resting

HealthForeseen(m, side, sim, taken, oracle) ==
  \A a \in Accounts, rate \in {0} \cup RefSurcharges :
    sim_post_health(perp[a][m], side, sim, rate, market[m].funding, oracle)
      = post_health(AfterOrder(perp[a][m], side, taken, rate), market[m].funding, oracle)

(* The check of execute_perp_trigger_order fails for want of fills and for *)
(* nothing else.  For every type of order, whatever valid and expired      *)
(* orders are on the book and whatever the limit on fills, the simulation  *)
(* predicts what placing the order takes, what it leaves to rest and the   *)
(* health of the account afterwards, unless the order reaches the limit;   *)
(* then the simulation has taken more and MathError is certain.            *)
SimulationExact ==
  \A m \in Markets, oracle \in OraclePrices, side \in Sides, price \in Prices,
     qty \in Quantities \ {0}, type \in AllTypes :
    LET sim == SimNewOrder(m, side, price, qty, type, oracle)
    IN  \A limit \in 1..MaxFills :
          LET real == Matching(Nobody, m, side, price, qty, Unbounded, type, limit, oracle)
          IN  real.price > 0 =>
                IF LimitReached(side, qty, real) THEN sim.base > real.base /\ real.resting = 0
                ELSE Foreseen(sim, real) /\ HealthForeseen(m, side, sim, real, oracle)

(* Documented in cancel_all_with_price_incentives: an order that is not on *)
(* the book is skipped, the keeper will remove it; so cancelling all       *)
(* orders of an account does not fail.                                     *)
CancelAllSucceeds ==
  \A a \in Accounts, m \in Markets : CancelSlotsByPrice(a, m, 0).ok

(* The order of an occupied slot has left the book, so only a crank can    *)
(* free the slot.                                                          *)
OffBook(a, s) ==
  slots[a][s] # Free /\ Resting(book[slots[a][s].market][slots[a][s].side], slots[a][s]) = {}

(* Every slot that waits for a crank is freed, although the cache a crank  *)
(* needs goes stale and others keep trading on the same queue.             *)
QueuedSlotFreed == \A a \in Accounts, s \in Slot : OffBook(a, s) ~> slots[a][s] = Free

(* A liquidation does not hang on open orders: the account recovers or all *)
(* its slots of the market become free, although a call of the liquidator  *)
(* handles few slots and orders waiting for a crank use up its limit.      *)
LiquidationClears ==
  \A a \in Accounts, m \in Markets :
    being_liquidated[a] ~> (~being_liquidated[a] \/ SlotsOf(a, m) = <<>>)

(* What the order ledger sees of the order tables, a book and a queue: the *)
(* market and number of the order in a slot, the number and slot of a      *)
(* resting order, and the slots the events will free, in their order.      *)
HeldBy(sl) ==
  [p \in Accounts \X Slot |->
     LET t == sl[p[1]][p[2]]
     IN  IF t = Free THEN Free ELSE [market |-> t.market, seq |-> t.seq]]

OnBook(bk) ==
  {[seq |-> o.seq, place |-> <<o.owner, o.slot>>] : o \in bk["bid"] \cup bk["ask"]}

FreedPlace(e) == IF e.type = "out" THEN <<e.owner, e.slot>> ELSE <<e.maker, e.maker_slot>>

FreedNext(places, e) ==
  IF e.type = "out" \/ e.maker_out THEN Append(places, FreedPlace(e)) ELSE places

Freeing(q) ==
  IF q = <<>> THEN <<>> ELSE FoldLeft(LAMBDA places, e : FreedNext(places, e), <<>>, q)

(* The detailed specification implements the order ledger. *)
Ledger == INSTANCE OrderLedger WITH
  Slots <- Slot,
  MaxOrders <- MaxSeq,
  holds <- HeldBy(slots),
  resting <- [m \in Markets |-> OnBook(book[m])],
  leaving <- [m \in Markets |-> Freeing(queue[m])],
  next <- [m \in Markets |-> market[m].seq_num]

(* Whatever the instructions do to prices, sides, quantities and fees, to  *)
(* the order slots they do what the ledger allows; so what is proved of    *)
(* the ledger holds for the slots here.                                    *)
ImplementsLedger == Ledger!LedgerSpec

=============================================================================
