----------------------------- MODULE OrderLedger -----------------------------
(***************************************************************************)
(* Who may release an order slot: the promise behind the order table of a  *)
(* MangoAccount (order_market, orders, order_side), for any number of      *)
(* accounts, markets and slots.                                            *)
(*                                                                         *)
(* An order leaves a book in two ways.  A cancel removes it and frees its  *)
(* slot at once.  A match, an expiry or being booted from a full side only *)
(* pushes an event with the owner and the slot number, and the slot is     *)
(* freed when a keeper consumes that event.  Nothing in the event ties it  *)
(* to the order but the slot number, so the table is right only if a slot  *)
(* keeps its order until that one event has been consumed.                 *)
(*                                                                         *)
(* Prices, quantities, sides and time are abstracted away: a trade may     *)
(* take any orders off the book.  PerpMarket implements this module.       *)
(***************************************************************************)
EXTENDS Naturals, Sequences

CONSTANTS
  Accounts, Markets, Slots,
  Free,       \* FREE_ORDER_SLOT
  QueueCap,   \* slots of an event queue
  MaxOrders   \* how many orders the u64 seq_num of a market can number

ASSUME FreeAssumption == Free \notin [market : Markets, seq : Nat]
ASSUME BoundAssumption == QueueCap \in Nat /\ MaxOrders \in Nat

VARIABLES
  holds,    \* [place -> Free or the market and number of its order]
  resting,  \* [market -> the orders on its book]
  leaving,  \* [market -> the place each queued event frees, for those that free one]
  next      \* [market -> seq_num, the number of the last order]

lvars == <<holds, resting, leaving, next>>

(* A place is an account and one of its slots. *)
Place == Accounts \X Slots
Order == [seq : Nat, place : Place]

LedgerInit ==
  /\ holds = [p \in Place |-> Free]
  /\ resting = [m \in Markets |-> {}]
  /\ leaving = [m \in Markets |-> <<>>]
  /\ next = [m \in Markets |-> 0]

(* What is left of a set of orders when the sequence out has been taken. *)
Remaining(S, out) == {o \in S : \A i \in DOMAIN out : out[i] # o}

Events(out) == [i \in 1..Len(out) |-> out[i].place]

(* A new order takes the orders out, all different, off the book of m. *)
Trade(m, out) ==
  /\ next[m] < MaxOrders
  /\ \A i, j \in 1..Len(out) : out[i] = out[j] => i = j
  /\ Len(leaving[m]) + Len(out) <= QueueCap
  /\ leaving' = [leaving EXCEPT ![m] = @ \o Events(out)]
  /\ next' = [next EXCEPT ![m] = @ + 1]

(* Nothing of the new order rests. *)
Take(m, out) ==
  /\ Trade(m, out)
  /\ resting' = [resting EXCEPT ![m] = Remaining(@, out)]
  /\ UNCHANGED holds

(* What is left of the new order rests in a free slot. *)
Post(p, m, out) ==
  /\ holds[p] = Free
  /\ Trade(m, out)
  /\ resting' = [resting EXCEPT
       ![m] = Remaining(@, out) \cup {[seq |-> next[m] + 1, place |-> p]}]
  /\ holds' = [holds EXCEPT ![p] = [market |-> m, seq |-> next[m] + 1]]

(* Cancel orders of one account that are still on the book. *)
Cancel(a, m, S) ==
  /\ \A o \in S : o.place[1] = a
  /\ resting' = [resting EXCEPT ![m] = @ \ S]
  /\ holds' = [p \in Place |-> IF \E o \in S : o.place = p THEN Free ELSE holds[p]]
  /\ UNCHANGED <<leaving, next>>

(* A faulty form: leaves the last consumed event on the queue. *)
ConsumeAgain(m, n) ==
  /\ holds' = [p \in Place |-> IF \E i \in 1..n : leaving[m][i] = p THEN Free ELSE holds[p]]
  /\ leaving' = [leaving EXCEPT ![m] = SubSeq(@, n, Len(@))]
  /\ UNCHANGED <<resting, next>>

(* Consume the first n events. *)
Consume(m, n) ==
  /\ holds' = [p \in Place |-> IF \E i \in 1..n : leaving[m][i] = p THEN Free ELSE holds[p]]
  /\ leaving' = [leaving EXCEPT ![m] = SubSeq(@, n + 1, Len(@))]
  /\ UNCHANGED <<resting, next>>

LedgerNext ==
  \E m \in Markets :
    \/ \E k \in 0..QueueCap : \E out \in [1..k -> resting[m]] :
         \/ Take(m, out)
         \/ \E p \in Place : Post(p, m, out)
    \/ \E a \in Accounts, S \in SUBSET resting[m] : Cancel(a, m, S)
    \/ \E n \in 1..Len(leaving[m]) : Consume(m, n)

LedgerSpec == LedgerInit /\ [][LedgerNext]_lvars

-----------------------------------------------------------------------------
(* Type invariant: every slot holds nothing or a numbered order of a       *)
(* market, and every queued event names an account and a slot.             *)
LedgerTypeOK ==
  /\ holds \in [Place -> {Free} \cup [market : Markets, seq : Nat]]
  /\ resting \in [Markets -> SUBSET Order]
  /\ leaving \in [Markets -> Seq(Place)]
  /\ next \in [Markets -> Nat]

(* A resting order is the one its slot describes, so no slot has two. *)
RestingHeld ==
  \A m \in Markets : \A o \in resting[m] : holds[o.place] = [market |-> m, seq |-> o.seq]

(* A queued event finds its slot still occupied by an order of its market, *)
(* so consuming it cannot fail, ...                                        *)
LeavingHeld ==
  \A m \in Markets : \A i \in 1..Len(leaving[m]) :
    holds[leaving[m][i]] # Free /\ holds[leaving[m][i]].market = m

(* ... is the only one queued for it, ... *)
LeavingOnce ==
  \A m \in Markets : \A i, j \in 1..Len(leaving[m]) :
    leaving[m][i] = leaving[m][j] => i = j

(* ... and the order it belongs to is no longer on a book, where it could  *)
(* be matched again.                                                       *)
LeavingLeft ==
  \A m \in Markets : \A i \in 1..Len(leaving[m]) : \A o \in resting[m] :
    leaving[m][i] # o.place

(* No slot leaks: the order of an occupied slot is on its book, or the     *)
(* event that will free the slot is queued.                                *)
NoLeak ==
  \A p \in Place : holds[p] # Free =>
    \/ \E o \in resting[holds[p].market] : o.place = p
    \/ \E i \in 1..Len(leaving[holds[p].market]) : leaving[holds[p].market][i] = p

(* Every occupied order slot has exactly one owner, a resting order or the *)
(* one event that will free it, and a free slot has none.  So a slot is    *)
(* not reused while the event of its previous order is queued, and none    *)
(* leaks.                                                                  *)
SlotDiscipline ==
  /\ RestingHeld
  /\ LeavingHeld
  /\ LeavingOnce
  /\ LeavingLeft
  /\ NoLeak
=============================================================================
