-------------------------------- MODULE Book --------------------------------
(***************************************************************************)
(* The pure part of the matching engine (matching.rs): which orders of a   *)
(* book side come first, what a new order matches, which of an account's   *)
(* orders a cancel-all reaches.  A book side is a set of resting orders;   *)
(* module BookSide shows that the crit-bit tree keeps such a set.          *)
(*                                                                         *)
(* An order is a record                                                    *)
(*   price, seq : its key.  gen_order_id puts the price in the upper half  *)
(*                of the key and seq_num (for bids its complement) in the  *)
(*                lower half, so that walking a side from its best end     *)
(*                visits equal prices oldest first;                        *)
(*   owner, slot : the MangoAccount and the slot of its order table;       *)
(*   qty : base lots left;  expiry : timestamp + time_in_force.            *)
(* Lot sizes are 1: prices are in native quote units per base lot.         *)
(***************************************************************************)
EXTENDS Integers, Sequences, FiniteSets, SequencesExt, FiniteSetsExt

CONSTANTS
  NoExpiry,         \* u64::MAX: later than every time of a run
  Unbounded,        \* i64::MAX: larger than every price and quote amount of a run
  DropExpiredLimit  \* DROP_EXPIRED_ORDER_LIMIT

ASSUME BookAssumption == NoExpiry \in Int /\ Unbounded \in Nat /\ DropExpiredLimit \in Nat

Sides == {"bid", "ask"}

invert_side(side) == IF side = "bid" THEN "ask" ELSE "bid"

(* Order of the iterator: bids high to low, asks low to high, then by age. *)
Before(side, o, p) ==
  \/ IF side = "bid" THEN o.price > p.price ELSE o.price < p.price
  \/ o.price = p.price /\ o.seq < p.seq

(* A faulty form: the newest order first at each price. *)
SortedNewestFirst(side, S) ==
  [i \in 1..Cardinality(S) |->
     CHOOSE o \in S : Cardinality({p \in S : IF p.price = o.price THEN p.seq > o.seq
                                            ELSE Before(side, p, o)}) = i - 1]

(* The orders of S as the iterator yields them. *)
Sorted(side, S) ==
  [i \in 1..Cardinality(S) |->
     CHOOSE o \in S : Cardinality({p \in S : Before(side, p, o)}) = i - 1]

is_valid(o, now) == now < o.expiry

Valid(S, now) == {o \in S : is_valid(o, now)}

(* The order at the bad end of a non-empty side: remove_min of the bids,   *)
(* remove_max of the asks.                                                 *)
Worst(side, S) == CHOOSE o \in S : \A p \in S \ {o} : Before(side, p, o)

(* find_earliest_expiry: ties go to the child with the smaller keys, which *)
(* is the bad end of the bids and the good end of the asks.                *)
EarliestExpiring(side, S) ==
  CHOOSE o \in S : \A p \in S \ {o} :
    \/ o.expiry < p.expiry
    \/ /\ o.expiry = p.expiry
       /\ IF side = "bid" THEN Before(side, p, o) ELSE Before(side, o, p)

(* What remove_one_expired takes out of a side: at most one order, and     *)
(* only one whose expiry is strictly past.                                 *)
OneExpired(side, S, now) ==
  IF S = {} \/ EarliestExpiring(side, S).expiry >= now
  THEN {} ELSE {EarliestExpiring(side, S)}

-----------------------------------------------------------------------------
(***************************************************************************)
(* Events                                                                  *)
(***************************************************************************)

OutEvent(o, side) ==
  [type |-> "out", side |-> side, owner |-> o.owner, slot |-> o.slot, qty |-> o.qty]

(* A faulty form: every fill releases the maker's slot. *)
FillEventAlwaysOut(o, side, taker, qty) ==
  [type |-> "fill", taker_side |-> side, maker |-> o.owner, maker_slot |-> o.slot,
   maker_out |-> TRUE, taker |-> taker, price |-> o.price, qty |-> qty]

FillEvent(o, side, taker, qty) ==
  [type |-> "fill", taker_side |-> side, maker |-> o.owner, maker_slot |-> o.slot,
   maker_out |-> qty = o.qty, taker |-> taker, price |-> o.price, qty |-> qty]

-----------------------------------------------------------------------------
(***************************************************************************)
(* Matching a new order of one side against the other (the loops of        *)
(* new_bid and new_ask).                                                   *)
(***************************************************************************)

post_only(type) == type \in {"PostOnly", "PostOnlySlide"}

(* The price the order trades at: Market orders take any price and a       *)
(* PostOnlySlide order backs off to one tick from the best valid opposite  *)
(* order.                                                                  *)
EffectivePrice(side, type, price, opposite, now) ==
  LET best == {o.price : o \in Valid(opposite, now)}
  IN  CASE type = "Market" /\ side = "bid" -> Unbounded
        [] type = "Market" /\ side = "ask" -> 1
        [] type = "PostOnlySlide" /\ best # {} ->
             IF side = "bid" THEN Min({price, Min(best) - 1}) ELSE Max({price, Max(best) + 1})
        [] OTHER -> price

(* A faulty form: equal prices do not trade. *)
OutOfReachAtPrice(side, price, p) == IF side = "bid" THEN price <= p ELSE price >= p

(* Does a resting order at price p stop the walk of an order at price? *)
OutOfReach(side, price, p) == IF side = "bid" THEN price < p ELSE price > p

(* What a fill of qty lots leaves of a resting order. *)
AfterFill(o, qty) == IF qty = o.qty THEN {} ELSE {[o EXCEPT !.qty = @ - qty]}

(* One iteration of the matching loop.  acc holds the loop's variables:    *)
(* base, quote (what remains), limit (fills still allowed), drops, post    *)
(* (post_allowed), done (break), evs (pushed events), rest (the opposite   *)
(* side with the collected changes and deletes applied).                   *)
MatchOne(acc, o, side, type, price, taker, now) ==
  LET by_quote == acc.quote \div o.price
      qty      == Min({acc.base, o.qty, by_quote})
  IN  IF acc.done THEN acc
      ELSE IF ~is_valid(o, now) THEN
        IF acc.drops = DropExpiredLimit THEN acc
        ELSE [acc EXCEPT !.drops = @ + 1,
                         !.evs = Append(@, OutEvent(o, invert_side(side))),
                         !.rest = @ \ {o}]
      ELSE IF OutOfReach(side, price, o.price) THEN [acc EXCEPT !.done = TRUE]
      ELSE IF post_only(type) \/ acc.limit = 0 \/ by_quote = 0 THEN
        [acc EXCEPT !.done = TRUE, !.post = FALSE]
      ELSE [acc EXCEPT !.base = @ - qty,
                       !.quote = @ - qty * o.price,
                       !.limit = @ - 1,
                       !.evs = Append(@, FillEvent(o, side, taker, qty)),
                       !.rest = (@ \ {o}) \cup AfterFill(o, qty),
                       !.done = qty = by_quote \/ qty = acc.base]

Match(side, type, price, base, quote, limit, post_allowed, taker, opposite, now) ==
  FoldLeft(LAMBDA acc, o : MatchOne(acc, o, side, type, price, taker, now),
           [base |-> base, quote |-> quote, limit |-> limit, drops |-> 0,
            post |-> post_allowed, done |-> FALSE, evs |-> <<>>, rest |-> opposite],
           Sorted(invert_side(side), opposite))

-----------------------------------------------------------------------------
(***************************************************************************)
(* The merge walk of cancel_all_{bids,asks}_with_size_incentives: S is the *)
(* book side, mine the keys (price and seq) of the account's orders on     *)
(* that side, some of which may have left the book already.  The result    *)
(* lists the keys to cancel, in the order they are cancelled.              *)
(***************************************************************************)

(* One turn of the loop.  acc.i is the next book order, acc.k how many of  *)
(* keys are left (the last is the best), acc.c the liquidity passed,       *)
(* acc.out what has been found, acc.deep that enough has been passed for   *)
(* all further keys to be cancelled.                                       *)
WalkOne(acc, side, book, keys, max_depth, now) ==
  LET o      == book[acc.i]
      key    == keys[acc.k]
      hit    == o.price = key.price /\ o.seq = key.seq
      passed == ~hit /\ Before(side, o, key)
      size   == IF passed /\ is_valid(o, now) THEN acc.c + o.qty ELSE acc.c
  IN  IF acc.i > Len(book) \/ acc.k = 0 \/ acc.deep THEN acc
      ELSE [i    |-> IF hit \/ passed THEN acc.i + 1 ELSE acc.i,
            k    |-> IF passed THEN acc.k ELSE acc.k - 1,
            c    |-> size,
            out  |-> IF hit THEN Append(acc.out, key) ELSE acc.out,
            deep |-> size >= max_depth]

CancelList(side, S, mine, max_depth, now) ==
  LET book  == Sorted(side, S)
      keys  == Reverse(Sorted(side, mine))
      turns == [n \in 1 .. Len(book) + Len(keys) |-> n]
      end   == FoldLeft(LAMBDA acc, n : WalkOne(acc, side, book, keys, max_depth, now),
                        [i |-> 1, k |-> Len(keys), c |-> 0, out |-> <<>>, deep |-> FALSE],
                        turns)
  IN  end.out \o (IF end.deep THEN SubSeq(keys, 1, end.k) ELSE <<>>)
=============================================================================
