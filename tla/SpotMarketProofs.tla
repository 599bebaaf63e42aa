-------------------------- MODULE SpotMarketProofs --------------------------
(***************************************************************************)
(* Proofs for SpotMarket, for any finite set of markets, any number of     *)
(* order slots, any size of the basket, any prices, quantities and         *)
(* rebates, and whatever Serum does between two instructions.              *)
(*                                                                         *)
(* Two arguments meet in the invariant SpotInv.  Funds: Gap is what a      *)
(* vault holds beyond what its bank owes.  A deal with Serum opens a gap   *)
(* in the base and in the quote token (Deal, DealGap), and bookings to the *)
(* trader close it again (Shift, ChangeNetShift, BookBack), whether the    *)
(* amounts booked are measured on the vaults, as place_spot_order does, or *)
(* on the OpenOrders, as settle_funds does.  The basket: update_basket     *)
(* makes one market right and touches no other (UpdateBasket), so after an *)
(* instruction every market is right, and a step of Serum works on an      *)
(* order whose slot keeps its market in the basket (UsedInBasket).         *)
(*                                                                         *)
(* FoldSet applies update_basket and Cancelled over a set; the recursion   *)
(* of such a fold is derived from its definition first (FoldExists), and   *)
(* what it does by induction over the subsets (SubsetInduction of Sums).   *)
(***************************************************************************)
EXTENDS SpotMarket, BankProofs

Users == {trader, lender}

(* One step of the two folds of the model, and the recursion of such a fold. *)
FoldStep(kind, x, y) == IF kind = "basket" THEN update_basket(y, x) ELSE Cancelled(y, x)

FoldEq(g, kind, base, S) ==
  g = [s \in SUBSET S |->
         IF s = {} THEN base ELSE FoldStep(kind, Pick(s), g[s \ {Pick(s)}])]

IsFold(g, kind, base, D) ==
  \A s \in D : g[s] = IF s = {} THEN base ELSE FoldStep(kind, Pick(s), g[s \ {Pick(s)}])

(* UpdateBaskets and CancelUpTo are folds of this form. *)
LEMMA BasketsUnfold ==
  ASSUME NEW w, NEW S
  PROVE  UpdateBaskets(w, S) = (CHOOSE g : FoldEq(g, "basket", w, S))[S]
BY DEF UpdateBaskets, FoldSet, MapThenFoldSet, FoldEq, FoldStep, Pick

(* The same for the orders that CancelUpTo cancels. *)
LEMMA CancelUnfold ==
  ASSUME NEW o, NEW S
  PROVE  FoldSet(LAMBDA i, u : Cancelled(u, i), o, S) = (CHOOSE g : FoldEq(g, "cancel", o, S))[S]
BY DEF FoldSet, MapThenFoldSet, FoldEq, FoldStep, Pick

(* The recursive function of a fold exists for every finite set: it is     *)
(* extended from the sets of at most n elements to those of at most n + 1. *)
LEMMA FoldExists ==
  ASSUME NEW S, IsFiniteSet(S), NEW kind, NEW base
  PROVE  \E g : FoldEq(g, kind, base, S)
<1> DEFINE Q == {n \in Nat : \E g : DOMAIN g = Small(S, n) /\ IsFold(g, kind, base, Small(S, n))}
<1>1. \A s \in SUBSET S :
        IsFiniteSet(s) /\ Cardinality(s) \in Nat /\ Cardinality(s) <= Cardinality(S)
  BY FS_Subset, FS_CardinalityType
<1>2. 0 \in Q
  <2> DEFINE g == [s \in Small(S, 0) |-> base]
  <2>1. \A s \in Small(S, 0) : s = {}
    BY <1>1, FS_EmptySet DEF Small
  <2>2. IsFold(g, kind, base, Small(S, 0)) BY <2>1 DEF IsFold
  <2> QED BY <2>2
<1>3. ASSUME NEW n \in Nat, n \in Q PROVE n + 1 \in Q
  <2>1. PICK g : DOMAIN g = Small(S, n) /\ IsFold(g, kind, base, Small(S, n))
    BY <1>3
  <2> DEFINE D == Small(S, n + 1)
             h == [s \in D |-> IF s = {} THEN base ELSE FoldStep(kind, Pick(s), g[s \ {Pick(s)}])]
  <2>2. ASSUME NEW s \in D, s # {} PROVE s \ {Pick(s)} \in Small(S, n) /\ s \ {Pick(s)} \in D
    <3>1. IsFiniteSet(s) /\ Cardinality(s) <= n + 1 BY <1>1 DEF Small
    <3>2. Pick(s) \in s BY <2>2, PickIn
    <3>3. Cardinality(s \ {Pick(s)}) = Cardinality(s) - 1
       BY <3>1, <3>2, FS_RemoveElement
    <3> QED BY <3>1, <3>3, <1>1 DEF Small
  <2>3. ASSUME NEW s \in Small(S, n) PROVE h[s] = g[s]
    <3> s \in D BY <1>1 DEF Small
    <3> QED BY <2>1 DEF IsFold
  <2>4. ASSUME NEW s \in D
        PROVE  h[s] = IF s = {} THEN base ELSE FoldStep(kind, Pick(s), h[s \ {Pick(s)}])
    BY <2>2, <2>3
  <2>5. IsFold(h, kind, base, D) BY <2>4 DEF IsFold
  <2>6. DOMAIN h = D OBVIOUS
  <2> HIDE DEF h
  <2> QED BY <2>5, <2>6
<1>4. Cardinality(S) \in Q
  <2> HIDE DEF Q
  <2>1. \A n \in Nat : n \in Q BY <1>2, <1>3, NatSetInduction
  <2> QED BY <2>1, <1>1
<1>5. Small(S, Cardinality(S)) = SUBSET S BY <1>1 DEF Small
<1>6. PICK g : DOMAIN g = SUBSET S /\ IsFold(g, kind, base, SUBSET S) BY <1>4, <1>5
<1> DEFINE h == [s \in SUBSET S |->
                   IF s = {} THEN base ELSE FoldStep(kind, Pick(s), g[s \ {Pick(s)}])]
<1>7. ASSUME NEW s \in SUBSET S PROVE h[s] = g[s] BY <1>6 DEF IsFold
<1>8. h = [s \in SUBSET S |-> IF s = {} THEN base ELSE FoldStep(kind, Pick(s), h[s \ {Pick(s)}])]
  <2>1. ASSUME NEW s \in SUBSET S PROVE s \ {Pick(s)} \in SUBSET S OBVIOUS
  <2>2. ASSUME NEW s \in SUBSET S
        PROVE  h[s] = IF s = {} THEN base ELSE FoldStep(kind, Pick(s), h[s \ {Pick(s)}])
    BY <1>7, <2>1
  <2> QED BY <2>2
<1> HIDE DEF h
<1>9. FoldEq(h, kind, base, S) BY <1>8 DEF FoldEq
<1> QED BY <1>9

(* So a fold is the value of a function that satisfies the recursion. *)
LEMMA FoldFun ==
  ASSUME NEW S, IsFiniteSet(S), NEW kind, NEW base
  PROVE  \E g : /\ IsFold(g, kind, base, SUBSET S)
                /\ (CHOOSE h : FoldEq(h, kind, base, S))[S] = g[S]
<1> DEFINE g == CHOOSE h : FoldEq(h, kind, base, S)
<1>1. FoldEq(g, kind, base, S) BY FoldExists
<1>2. IsFold(g, kind, base, SUBSET S)
  <2> HIDE DEF g
  <2> QED BY <1>1 DEF FoldEq, IsFold
<1>3. (CHOOSE h : FoldEq(h, kind, base, S))[S] = g[S] OBVIOUS
<1> HIDE DEF g
<1> QED BY <1>2, <1>3

-----------------------------------------------------------------------------
(* Working records *)

(* The record an instruction works on: its books are in order and all      *)
(* indexes are one.                                                        *)
Unit(c) == \A t \in Tokens : c.bank[t].deposit_index = One /\ c.bank[t].borrow_index = One

IsWork(w) ==
  /\ Books(w, Users, Tokens)
  /\ {"oo", "basket", "num"} \subseteq DOMAIN w
  /\ Unit(w.cache)

(* The part of it that is about Serum. *)
SameDesk(w, v) == v.oo = w.oo /\ v.basket = w.basket /\ v.num = w.num

(* What a vault has over what the bank owes. *)
Gap(w, t) == w.bank[t].vault * One - (w.bank[t].deposits - w.bank[t].borrows)

Typed(w) == w.oo \in [Markets -> OpenOrders \cup {None}]

BasketOk(w) ==
  /\ w.basket \in [Markets -> BOOLEAN]
  /\ w.num = Cardinality({m \in Markets : w.basket[m]})
  /\ w.num <= MaxBasket
  /\ \A m \in Markets : w.basket[m] => w.oo[m] # None

Counted(w, m) == w.oo[m] # None /\ ~IsEmpty(w.oo[m]) => w.basket[m]

(* There are two users. *)
LEMMA UsersFinite == IsFiniteSet(Users)
<1>1. IsFiniteSet({trader}) BY FS_Singleton
<1>2. IsFiniteSet({trader} \cup {lender}) BY <1>1, FS_AddElement
<1>3. Users = {trader} \cup {lender} BY DEF Users
<1> QED BY <1>2, <1>3

(* The numbers of a bank are integers. *)
LEMMA GapInt ==
  ASSUME NEW w, IsWork(w), NEW t \in Tokens
  PROVE  /\ w.bank[t].vault \in Int /\ w.bank[t].deposits \in Int /\ w.bank[t].borrows \in Int
         /\ Gap(w, t) \in Int /\ One \in Int
<1>1. w.bank[t].vault \in Int /\ w.bank[t].deposits \in Int /\ w.bank[t].borrows \in Int
  BY DEF IsWork, Books, Shape, IsBank
<1>2. One \in Int /\ w.bank[t].vault * One \in Int BY <1>1, RateAssumption
<1> QED BY <1>1, <1>2 DEF Gap

(* At an index of one nothing is converted. *)
LEMMA UnitMul == ASSUME NEW x \in Int PROVE Mul(x, One) = x
<1>1. One \in Nat \ {0} BY RateAssumption
<1>2. (x * One) \div One = x BY <1>1
<1> QED BY <1>2 DEF Mul

(* Nor is anything divided. *)
LEMMA UnitDiv == ASSUME NEW x \in Int PROVE Div(x, One) = x
<1>1. One \in Nat \ {0} BY RateAssumption
<1>2. \A y \in Int : (y * One) \div One = y BY <1>1
<1>3. Magnitude(One) = One /\ ~(One < 0) /\ One # 0 BY <1>1 DEF Magnitude
<1>4. Magnitude(x) \in Int BY DEF Magnitude
<1>5. (Magnitude(x) * One) \div Magnitude(One) = Magnitude(x) BY <1>2, <1>3, <1>4
<1>6. Div(x, One) = IF x < 0 THEN -Magnitude(x) ELSE Magnitude(x) BY <1>3, <1>5 DEF Div
<1> QED BY <1>6 DEF Magnitude
-----------------------------------------------------------------------------
(* Bookings *)

(* v is w with q booked to somebody in t: the bank owes q more. *)
Shift(w, v, t, q) ==
  /\ IsWork(v)
  /\ SameDesk(w, v)
  /\ v.ok => w.ok
  /\ Gap(v, t) = Gap(w, t) - q
  /\ \A u \in Tokens \ {t} : Gap(v, u) = Gap(w, u)

(* One booking after another. *)
LEMMA ShiftTwice ==
  ASSUME NEW w, IsWork(w), NEW v, NEW x, NEW t \in Tokens, NEW q \in Int, NEW r \in Int,
         Shift(w, v, t, q), Shift(v, x, t, r)
  PROVE  Shift(w, x, t, q + r)
<1>1. Gap(w, t) \in Int BY GapInt
<1>2. Gap(x, t) = Gap(w, t) - (q + r) BY <1>1 DEF Shift
<1>3. \A u \in Tokens \ {t} : Gap(x, u) = Gap(w, u) BY DEF Shift
<1>4. SameDesk(w, x) BY DEF Shift, SameDesk
<1> QED BY <1>2, <1>3, <1>4 DEF Shift

(* An adjustment. *)
LEMMA AdjustShift ==
  ASSUME NEW w, IsWork(w), NEW a \in Users, NEW t \in Tokens, NEW d \in Int, NEW b \in Int
  PROVE  Shift(w, Adjust(w, a, t, d, b), t, d - b)
<1> DEFINE v == Adjust(w, a, t, d, b)
<1>1. IsFiniteSet(Users) BY UsersFinite
<1>2. Booked(w, v, a, t, d, b) BY AdjustBooked DEF IsWork, Books
<1>3. Rebooked(w, v, {a}, Users, Tokens) BY <1>1, AdjustBooks DEF IsWork
<1> HIDE DEF v
<1>4. DOMAIN v = DOMAIN w /\ v.cache = w.cache /\ SameDesk(w, v)
  <2>1. {"cache", "oo", "basket", "num"} \subseteq DOMAIN w \ {"ma", "bank", "ok"}
    BY DEF IsWork, Books, Shape
  <2> QED BY <1>2, <2>1 DEF Booked, SameDesk
<1>5. IsWork(v) BY <1>3, <1>4 DEF IsWork, Rebooked
<1>6. DOMAIN w.bank = Tokens /\ "vault" \in DOMAIN w.bank[t] BY DEF IsWork, Books, Shape, IsBank
<1>7. /\ v.bank[t].vault = w.bank[t].vault
      /\ v.bank[t].deposits = w.bank[t].deposits + d /\ v.bank[t].borrows = w.bank[t].borrows + b
  BY <1>2, <1>6 DEF Booked, SameBank
<1>8. \A u \in Tokens \ {t} : v.bank[u] = w.bank[u] BY <1>2, <1>6 DEF Booked
<1>9. \A u \in Tokens \ {t} : Gap(v, u) = Gap(w, u) BY <1>8 DEF Gap
<1>10. Gap(v, t) = Gap(w, t) - (d - b)
  <2> DEFINE k == w.bank[t].vault * One
  <2>1. k \in Int BY GapInt
  <2>2. Gap(v, t) = k - ((w.bank[t].deposits + d) - (w.bank[t].borrows + b)) BY <1>7 DEF Gap
  <2>3. Gap(w, t) = k - (w.bank[t].deposits - w.bank[t].borrows) BY DEF Gap
  <2> HIDE DEF k
  <2>4. w.bank[t].deposits \in Int /\ w.bank[t].borrows \in Int BY GapInt
  <2> QED BY <2>1, <2>2, <2>3, <2>4
<1>11. v.ok => w.ok BY <1>2 DEF Booked
<1>12. Shift(w, v, t, d - b) BY <1>4, <1>5, <1>9, <1>10, <1>11 DEF Shift
<1> QED BY <1>12 DEF v

(* An error books nothing. *)
LEMMA OkShift ==
  ASSUME NEW w, IsWork(w), NEW t \in Tokens, NEW p, p => w.ok
  PROVE  Shift(w, [w EXCEPT !.ok = p], t, 0)
<1> DEFINE v == [w EXCEPT !.ok = p]
<1>1. {"ma", "bank", "cache", "ok", "oo", "basket", "num"} \subseteq DOMAIN w
  BY DEF IsWork, Books, Shape
<1>2. Rebooked(w, v, {}, Users, Tokens) BY OkBooks DEF IsWork
<1>3. /\ DOMAIN v = DOMAIN w /\ v.cache = w.cache /\ v.bank = w.bank
      /\ v.oo = w.oo /\ v.basket = w.basket /\ v.num = w.num
  BY <1>1
<1>4. v.ok => w.ok BY <1>1
<1> HIDE DEF v
<1>5. IsWork(v) BY <1>2, <1>3 DEF IsWork, Rebooked
<1>6. \A u \in Tokens : Gap(v, u) = Gap(w, u) BY <1>3 DEF Gap
<1>7. Gap(w, t) \in Int BY GapInt
<1>8. Shift(w, v, t, 0) BY <1>3, <1>4, <1>5, <1>6, <1>7 DEF Shift, SameDesk
<1> QED BY <1>8 DEF v

(* An adjustment with the check of a divisor. *)
LEMMA NonzeroShift ==
  ASSUME NEW w, IsWork(w), NEW a \in Users, NEW t \in Tokens, NEW d \in Int, NEW b \in Int, NEW x
  PROVE  Shift(w, Nonzero(Adjust(w, a, t, d, b), x), t, d - b)
<1> DEFINE v == Adjust(w, a, t, d, b)
           p == v.ok /\ x # 0
<1>1. Shift(w, v, t, d - b) BY AdjustShift
<1>2. Nonzero(v, x) = [v EXCEPT !.ok = p] BY DEF Nonzero
<1>3. p => v.ok OBVIOUS
<1> HIDE DEF v, p
<1>4. Shift(v, [v EXCEPT !.ok = p], t, 0) BY <1>1, <1>3, OkShift DEF Shift
<1>5. d - b \in Int /\ 0 \in Int /\ (d - b) + 0 = d - b OBVIOUS
<1>6. Shift(w, [v EXCEPT !.ok = p], t, (d - b) + 0) BY <1>1, <1>4, <1>5, ShiftTwice
<1>7. Shift(w, [v EXCEPT !.ok = p], t, d - b) BY <1>5, <1>6
<1> QED BY <1>2, <1>7 DEF v

(* A borrow. *)
LEMMA BorrowShift ==
  ASSUME NEW w, IsWork(w), NEW a \in Users, NEW t \in Tokens, NEW q \in Int
  PROVE  Shift(w, Borrow(w, a, t, q), t, -q)
<1> DEFINE index == w.cache.bank[t].borrow_index
           v == Nonzero(Adjust(w, a, t, 0, Div(q, index)), index)
           p == v.ok /\ has_valid_deposits_borrows(v, t)
<1>1. index = One BY DEF IsWork, Unit
<1>2. Div(q, index) = q BY <1>1, UnitDiv
<1>3. Shift(w, v, t, 0 - q) BY <1>2, NonzeroShift
<1>4. Borrow(w, a, t, q) = [v EXCEPT !.ok = p] BY DEF Borrow
<1>5. p => v.ok OBVIOUS
<1> HIDE DEF v, p
<1>6. Shift(v, [v EXCEPT !.ok = p], t, 0) BY <1>3, <1>5, OkShift DEF Shift
<1>7. 0 - q \in Int /\ 0 \in Int /\ (0 - q) + 0 = -q OBVIOUS
<1>8. Shift(w, [v EXCEPT !.ok = p], t, (0 - q) + 0) BY <1>3, <1>6, <1>7, ShiftTwice
<1> QED BY <1>4, <1>7, <1>8

(* checked_change_net books exactly what it is asked for: with indexes of  *)
(* one nothing is lost by rounding, whatever part repays a borrow, draws   *)
(* down a deposit or is borrowed.                                          *)
LEMMA ChangeNetShift ==
  ASSUME NEW w, IsWork(w), NEW a \in Users, NEW t \in Tokens, NEW q \in Int
  PROVE  Shift(w, checked_change_net(w, a, t, q), t, q)
<1> DEFINE d == w.ma[a].deposits[t]
           b == w.ma[a].borrows[t]
<1>1. Shape(w, Users, Tokens) BY DEF IsWork, Books
<1>2. d \in Int /\ b \in Int BY <1>1, BalancesInt
<1>3. w.cache.bank[t].deposit_index = One /\ w.cache.bank[t].borrow_index = One
  BY DEF IsWork, Unit
<1>4. native_deposit(w, a, t) = d /\ native_borrow(w, a, t) = b
  BY <1>2, <1>3, UnitMul DEF native_deposit, native_borrow
<1> HIDE DEF d, b
<1>5. CASE q > 0
  <2>1. checked_change_net(w, a, t, q) = checked_add_net(w, a, t, q)
    BY <1>5 DEF checked_change_net
  <2>2. CASE b > 0 /\ q < b
    <3>1. Div(q, One) = q BY UnitDiv
    <3>2. checked_add_net(w, a, t, q) = Nonzero(Adjust(w, a, t, 0, -q), One)
      BY <1>2, <1>3, <1>4, <2>2, <3>1 DEF checked_add_net, b
    <3>3. Shift(w, Nonzero(Adjust(w, a, t, 0, -q), One), t, 0 - (-q))
      <4>1. 0 \in Int /\ -q \in Int OBVIOUS
      <4> QED BY <4>1, NonzeroShift
    <3>4. 0 - (-q) = q OBVIOUS
    <3> QED BY <2>1, <3>2, <3>3, <3>4
  <2>3. CASE b > 0 /\ q >= b
    <3> DEFINE v == Adjust(w, a, t, 0, -b)
               x == Nonzero(Adjust(v, a, t, q - b, 0), One)
    <3>1. q - b \in Int /\ -b \in Int /\ 0 \in Int BY <1>2
    <3>2. Div(q - b, One) = q - b BY <3>1, UnitDiv
    <3>3. checked_add_net(w, a, t, q) = x
      BY <1>2, <1>3, <1>4, <2>3, <3>2 DEF checked_add_net, b
    <3>4. Shift(w, v, t, 0 - (-b)) BY <3>1, AdjustShift
    <3>5. IsWork(v) BY <3>4 DEF Shift
    <3> HIDE DEF v
    <3>6. Shift(v, x, t, (q - b) - 0) BY <3>1, <3>5, NonzeroShift
    <3> HIDE DEF x
    <3>7. 0 - (-b) \in Int /\ (q - b) - 0 \in Int /\ (0 - (-b)) + ((q - b) - 0) = q BY <1>2
    <3>8. Shift(w, x, t, (0 - (-b)) + ((q - b) - 0)) BY <3>4, <3>6, <3>7, ShiftTwice
    <3> QED BY <2>1, <3>3, <3>7, <3>8
  <2>4. CASE ~(b > 0)
    <3>1. Div(q, One) = q BY UnitDiv
    <3>2. checked_add_net(w, a, t, q) = Nonzero(Adjust(w, a, t, q, 0), One)
      BY <1>3, <2>4, <3>1 DEF checked_add_net, b
    <3>3. Shift(w, Nonzero(Adjust(w, a, t, q, 0), One), t, q - 0) BY NonzeroShift
    <3>4. q - 0 = q OBVIOUS
    <3> QED BY <2>1, <3>2, <3>3, <3>4
  <2> QED BY <1>2, <2>2, <2>3, <2>4
<1>6. CASE q < 0
  <2> DEFINE r == -q
  <2>1. r \in Int /\ -r = q OBVIOUS
  <2>2. checked_change_net(w, a, t, q) = checked_sub_net(w, a, t, r)
    BY <1>6 DEF checked_change_net
  <2> HIDE DEF r
  <2>3. CASE d > 0 /\ r < d
    <3>1. Div(r, One) = r BY <2>1, UnitDiv
    <3>2. checked_sub_net(w, a, t, r) = Nonzero(Adjust(w, a, t, -r, 0), One)
      BY <1>2, <1>3, <1>4, <2>1, <2>3, <3>1 DEF checked_sub_net, d
    <3>3. Shift(w, Nonzero(Adjust(w, a, t, -r, 0), One), t, (-r) - 0)
      <4>1. 0 \in Int /\ -r \in Int BY <2>1
      <4> QED BY <4>1, NonzeroShift
    <3>4. (-r) - 0 = q BY <2>1
    <3> QED BY <2>2, <3>2, <3>3, <3>4
  <2>4. CASE d > 0 /\ r >= d
    <3> DEFINE v == Adjust(w, a, t, -d, 0)
               x == Borrow(v, a, t, r - d)
    <3>1. r - d \in Int /\ -d \in Int /\ 0 \in Int BY <1>2, <2>1
    <3>2. checked_sub_net(w, a, t, r) = x
      BY <1>2, <1>3, <1>4, <2>1, <2>4 DEF checked_sub_net, d
    <3>3. Shift(w, v, t, (-d) - 0) BY <3>1, AdjustShift
    <3>4. IsWork(v) BY <3>3 DEF Shift
    <3> HIDE DEF v
    <3>5. Shift(v, x, t, -(r - d)) BY <3>1, <3>4, BorrowShift
    <3> HIDE DEF x
    <3>6. (-d) - 0 \in Int /\ -(r - d) \in Int /\ ((-d) - 0) + (-(r - d)) = q BY <1>2, <2>1
    <3>7. Shift(w, x, t, ((-d) - 0) + (-(r - d))) BY <3>3, <3>5, <3>6, ShiftTwice
    <3> QED BY <2>2, <3>2, <3>6, <3>7
  <2>5. CASE ~(d > 0)
    <3>1. checked_sub_net(w, a, t, r) = Borrow(w, a, t, r) BY <2>5 DEF checked_sub_net, d
    <3>2. Shift(w, Borrow(w, a, t, r), t, -r) BY <2>1, BorrowShift
    <3> QED BY <2>1, <2>2, <3>1, <3>2
  <2> QED BY <1>2, <2>1, <2>3, <2>4, <2>5
<1>7. CASE q = 0
  <2>1. checked_change_net(w, a, t, q) = w BY <1>7 DEF checked_change_net
  <2>2. \A u \in Tokens : Gap(w, u) \in Int BY GapInt
  <2>3. Shift(w, w, t, q) BY <1>7, <2>2 DEF Shift, SameDesk
  <2> QED BY <2>1, <2>3
<1> QED BY <1>5, <1>6, <1>7
-----------------------------------------------------------------------------
(* Funds between Serum and the vaults *)

(* v is w after c base and p quote came from Serum for market m: only the  *)
(* vaults and the OpenOrders of m change.                                  *)
Deal(w, v, m, c, p) ==
  /\ IsWork(v) /\ Typed(v) /\ v.oo[m] \in OpenOrders
  /\ v.ok => w.ok
  /\ v.basket = w.basket /\ v.num = w.num
  /\ \A n \in Markets \ {m} : v.oo[n] = w.oo[n]
  /\ \A t \in Tokens : /\ v.bank[t].deposits = w.bank[t].deposits
                       /\ v.bank[t].borrows = w.bank[t].borrows
  /\ v.bank[m].vault = w.bank[m].vault + c
  /\ v.bank[Quote].vault = w.bank[Quote].vault + p
  /\ \A t \in Tokens \ {m, Quote} : v.bank[t].vault = w.bank[t].vault

(* Tokens of a market. *)
LEMMA MarketTokens ==
  ASSUME NEW m \in Markets PROVE m \in Tokens /\ Quote \in Tokens /\ m # Quote
BY SpotAssumption DEF Tokens

(* One transfer after another. *)
LEMMA DealTwice ==
  ASSUME NEW w, IsWork(w), NEW v, NEW x, NEW m \in Markets, NEW c \in Int, NEW p \in Int,
         NEW d \in Int, NEW q \in Int, Deal(w, v, m, c, p), Deal(v, x, m, d, q)
  PROVE  Deal(w, x, m, c + d, p + q)
<1>1. m \in Tokens /\ Quote \in Tokens BY MarketTokens
<1>2. w.bank[m].vault \in Int /\ w.bank[Quote].vault \in Int BY <1>1, GapInt
<1>3. x.bank[m].vault = w.bank[m].vault + (c + d) BY <1>2 DEF Deal
<1>4. x.bank[Quote].vault = w.bank[Quote].vault + (p + q) BY <1>2 DEF Deal
<1>5. /\ x.ok => w.ok
      /\ x.basket = w.basket /\ x.num = w.num
      /\ \A n \in Markets \ {m} : x.oo[n] = w.oo[n]
  BY DEF Deal
<1>6. /\ \A t \in Tokens : /\ x.bank[t].deposits = w.bank[t].deposits
                           /\ x.bank[t].borrows = w.bank[t].borrows
      /\ \A t \in Tokens \ {m, Quote} : x.bank[t].vault = w.bank[t].vault
  BY DEF Deal
<1> QED BY <1>3, <1>4, <1>5, <1>6 DEF Deal

(* New OpenOrders, and nothing in the vaults. *)
LEMMA PutDeal ==
  ASSUME NEW w, IsWork(w), Typed(w), NEW m \in Markets, NEW o \in OpenOrders
  PROVE  Deal(w, [w EXCEPT !.oo[m] = o], m, 0, 0)
<1> DEFINE v == [w EXCEPT !.oo[m] = o]
           f == [w.oo EXCEPT ![m] = o]
<1>1. {"ma", "bank", "cache", "ok", "oo", "basket", "num"} \subseteq DOMAIN w
  BY DEF IsWork, Books, Shape
<1>2. v = [w EXCEPT !.oo = f] OBVIOUS
<1>3. /\ f \in [Markets -> OpenOrders \cup {None}] /\ f[m] = o
      /\ \A n \in Markets \ {m} : f[n] = w.oo[n]
  BY DEF Typed
<1> HIDE DEF f, v
<1>4. /\ DOMAIN v = DOMAIN w /\ v.ma = w.ma /\ v.bank = w.bank /\ v.cache = w.cache
      /\ v.oo = f /\ v.basket = w.basket /\ v.num = w.num /\ v.ok = w.ok
  BY <1>1, <1>2
<1>5. IsWork(v) BY <1>4 DEF IsWork, Books, Shape, Totals
<1>6. Typed(v) BY <1>3, <1>4 DEF Typed
<1>7. m \in Tokens /\ Quote \in Tokens BY MarketTokens
<1>8. w.bank[m].vault \in Int /\ w.bank[Quote].vault \in Int BY <1>7, GapInt
<1>9. v.bank[m].vault = w.bank[m].vault + 0 /\ v.bank[Quote].vault = w.bank[Quote].vault + 0
  BY <1>4, <1>8
<1>10. Deal(w, v, m, 0, 0) BY <1>3, <1>4, <1>5, <1>6, <1>9 DEF Deal
<1> QED BY <1>10 DEF v

(* Tokens into or out of one vault. *)
LEMMA VaultDeal ==
  ASSUME NEW w, IsWork(w), Typed(w), NEW m \in Markets, w.oo[m] \in OpenOrders, NEW q \in Int
  PROVE  /\ Deal(w, VaultTransfer(w, m, q), m, q, 0)
         /\ Deal(w, VaultTransfer(w, Quote, q), m, 0, q)
<1> SUFFICES ASSUME NEW t \in {m, Quote}
             PROVE  Deal(w, VaultTransfer(w, t, q), m, IF t = m THEN q ELSE 0, IF t = m THEN 0 ELSE q)
  <2>1. m # Quote BY MarketTokens
  <2> QED BY <2>1
<1> DEFINE v == VaultTransfer(w, t, q)
<1>1. m \in Tokens /\ Quote \in Tokens /\ t \in Tokens /\ m # Quote BY MarketTokens
<1>2. Books(v, Users, Tokens) /\ VaultMoved(w, v, t, q) BY <1>1, VaultTransferParts DEF IsWork
<1> HIDE DEF v
<1>3. {"ma", "bank", "cache", "ok", "oo", "basket", "num"} \subseteq DOMAIN w
  BY DEF IsWork, Books, Shape
<1>4. /\ DOMAIN v = DOMAIN w /\ v.cache = w.cache
      /\ v.oo = w.oo /\ v.basket = w.basket /\ v.num = w.num /\ (v.ok => w.ok)
  BY <1>2, <1>3 DEF VaultMoved
<1>5. DOMAIN w.bank = Tokens /\ \A u \in Tokens : IsBank(w.bank[u]) BY DEF IsWork, Books, Shape
<1>6. /\ \A u \in Tokens : /\ v.bank[u].deposits = w.bank[u].deposits
                           /\ v.bank[u].borrows = w.bank[u].borrows
      /\ v.bank[t].vault = w.bank[t].vault + q
      /\ \A u \in Tokens \ {t} : v.bank[u].vault = w.bank[u].vault
  BY <1>1, <1>2, <1>5 DEF VaultMoved, IsBank
<1>7. IsWork(v) /\ Typed(v) BY <1>2, <1>4 DEF IsWork, Typed
<1>8. w.bank[m].vault \in Int /\ w.bank[Quote].vault \in Int BY <1>1, GapInt
<1>9. CASE t = m
  <2>1. v.bank[Quote].vault = w.bank[Quote].vault + 0 BY <1>1, <1>6, <1>8, <1>9
  <2>2. Deal(w, v, m, q, 0) BY <1>4, <1>6, <1>7, <1>9, <2>1 DEF Deal
  <2> QED BY <1>9, <2>2 DEF v
<1>10. CASE t = Quote
  <2>1. v.bank[m].vault = w.bank[m].vault + 0 BY <1>1, <1>6, <1>8, <1>10
  <2>2. Deal(w, v, m, 0, q) BY <1>4, <1>6, <1>7, <1>10, <2>1 DEF Deal
  <2> QED BY <1>1, <1>10, <2>2 DEF v
<1> QED BY <1>9, <1>10

(* The gap that a transfer opens. *)
LEMMA DealGap ==
  ASSUME NEW w, IsWork(w), NEW v, NEW m \in Markets, NEW c \in Int, NEW p \in Int, Deal(w, v, m, c, p)
  PROVE  /\ Gap(v, m) = Gap(w, m) + c * One /\ Gap(v, Quote) = Gap(w, Quote) + p * One
         /\ \A t \in Tokens \ {m, Quote} : Gap(v, t) = Gap(w, t)
<1>1. m \in Tokens /\ Quote \in Tokens BY MarketTokens
<1>2. ASSUME NEW x \in Int, NEW y \in Int, NEW n \in Int
      PROVE  (x + y) * One - n = (x * One - n) + y * One
  <2>1. One \in Int BY RateAssumption
  <2>2. (x + y) * One = x * One + y * One /\ x * One \in Int /\ y * One \in Int BY <2>1
  <2> QED BY <2>2
<1>3. \A t \in Tokens : w.bank[t].vault \in Int /\ w.bank[t].deposits - w.bank[t].borrows \in Int
  BY GapInt
<1>4. ASSUME NEW t \in Tokens, NEW y \in Int, v.bank[t].vault = w.bank[t].vault + y
      PROVE  Gap(v, t) = Gap(w, t) + y * One
  <2> DEFINE k == w.bank[t].vault
             n == w.bank[t].deposits - w.bank[t].borrows
  <2>1. k \in Int /\ n \in Int BY <1>3
  <2>2. Gap(w, t) = k * One - n BY DEF Gap
  <2>3. v.bank[t].deposits - v.bank[t].borrows = n BY DEF Deal
  <2>4. Gap(v, t) = (k + y) * One - n BY <1>4, <2>3 DEF Gap
  <2> HIDE DEF k, n
  <2>5. (k + y) * One - n = (k * One - n) + y * One BY <1>2, <2>1
  <2> QED BY <2>2, <2>4, <2>5
<1>5. /\ Gap(v, m) = Gap(w, m) + c * One
      /\ Gap(v, Quote) = Gap(w, Quote) + p * One
  <2>1. v.bank[m].vault = w.bank[m].vault + c /\ v.bank[Quote].vault = w.bank[Quote].vault + p
    BY DEF Deal
  <2> QED BY <1>1, <1>4, <2>1
<1>6. \A t \in Tokens \ {m, Quote} : Gap(v, t) = Gap(w, t) BY DEF Deal, Gap
<1> QED BY <1>5, <1>6

(* The gap is closed by booking both amounts, in either order. *)
Level(w) == \A t \in Tokens : Gap(w, t) = 0

(* Booking to the trader what the vaults of two tokens have too much or    *)
(* too little closes both gaps.                                            *)
LEMMA BookBack ==
  ASSUME NEW w, IsWork(w), NEW t \in Tokens, NEW u \in Tokens, t # u, NEW c \in Int, NEW p \in Int,
         Gap(w, t) = c, Gap(w, u) = p, \A x \in Tokens \ {t, u} : Gap(w, x) = 0
  PROVE  LET v == checked_change_net(checked_change_net(w, trader, t, c), trader, u, p)
         IN  IsWork(v) /\ SameDesk(w, v) /\ (v.ok => w.ok) /\ Level(v)
<1> DEFINE x == checked_change_net(w, trader, t, c)
           v == checked_change_net(x, trader, u, p)
<1>1. trader \in Users BY DEF Users
<1>2. Shift(w, x, t, c) BY <1>1, ChangeNetShift
<1>2a. IsWork(x) BY <1>2 DEF Shift
<1> HIDE DEF x
<1>3. Shift(x, v, u, p) BY <1>1, <1>2a, ChangeNetShift
<1> HIDE DEF v
<1>4. IsWork(v) /\ SameDesk(w, v) /\ (v.ok => w.ok) BY <1>2, <1>3 DEF Shift, SameDesk
<1>5. Gap(v, t) = 0 /\ Gap(v, u) = 0 BY <1>2, <1>3 DEF Shift
<1>6. \A y \in Tokens \ {t, u} : Gap(v, y) = 0 BY <1>2, <1>3 DEF Shift
<1>7. Level(v) BY <1>5, <1>6 DEF Level
<1> QED BY <1>4, <1>7 DEF v, x

-----------------------------------------------------------------------------
(* Serum's operators *)

(* An order put into a slot, or a slot released, gives OpenOrders again. *)
LEMMA PutSlot ==
  ASSUME NEW o \in OpenOrders, NEW i, NEW order \in Orders \cup {None}
  PROVE  [o EXCEPT !.slots[i] = order] \in OpenOrders
<1>1. o.slots \in [Slot -> Orders \cup {None}] BY DEF OpenOrders
<1>2. [o.slots EXCEPT ![i] = order] \in [Slot -> Orders \cup {None}] BY <1>1
<1>3. [o EXCEPT !.slots = [o.slots EXCEPT ![i] = order]] \in OpenOrders BY <1>2 DEF OpenOrders
<1> QED BY <1>3

(* The funds of OpenOrders. *)
LEMMA FundsInt ==
  ASSUME NEW o \in OpenOrders
  PROVE  /\ o.coin_total \in Int /\ o.coin_free \in Int /\ o.pc_total \in Int /\ o.pc_free \in Int
         /\ o.referrer_rebates \in Int /\ pc_locked(o) \in Int /\ coin_locked(o) \in Int
BY DEF OpenOrders, pc_locked, coin_locked

(* A new order. *)
LEMMA NewOrderTyped ==
  ASSUME NEW o \in OpenOrders, NEW side \in {"bid", "ask"}, NEW p \in Int, NEW qty \in Int,
         NEW taken \in Int, NEW ioc \in BOOLEAN
  PROVE  AfterNewOrder(o, side, p, qty, taken, ioc) \in OpenOrders
<1> DEFINE rest == IF ioc THEN 0 ELSE qty - taken
           order == [side |-> side, price |-> p, open |-> rest, filled |-> 0, took |-> taken > 0]
           held == [o EXCEPT !.slots[Min(Slot \ Used(o))] = order]
           pc == Larger(0, o.pc_free - (taken + rest) * p)
           coin == Larger(0, o.coin_free - (taken + rest))
<1>1. rest \in Int OBVIOUS
<1>2. order \in Orders BY <1>1 DEF Orders
<1>3. held \in OpenOrders BY <1>2, PutSlot
<1> HIDE DEF order, rest
<1>4. /\ taken * p \in Int /\ rest * p \in Int /\ (taken + rest) * p \in Int BY <1>1
<1>5. pc \in Int /\ coin \in Int BY <1>1, <1>4, FundsInt DEF Larger
<1>6. pc_locked(o) \in Int /\ coin_locked(o) \in Int BY FundsInt
<1>7. pc + pc_locked(o) + rest * p \in Int /\ coin + coin_locked(o) + rest \in Int
  BY <1>1, <1>4, <1>5, <1>6
<1> HIDE DEF held, pc, coin
<1> DEFINE pt == pc + pc_locked(o) + rest * p
           ct == coin + coin_locked(o) + rest
           cf2 == held.coin_free + taken
           ct2 == held.coin_total + taken
           pf2 == held.pc_free + taken * p
           pt2 == held.pc_total + taken * p
<1>8. cf2 \in Int /\ ct2 \in Int /\ pf2 \in Int /\ pt2 \in Int BY <1>3, <1>4, FundsInt
<1>9. pt \in Int /\ ct \in Int BY <1>7
<1> HIDE DEF pt, ct, cf2, ct2, pf2, pt2
<1>10. [held EXCEPT !.pc_free = pc, !.pc_total = pt, !.coin_free = cf2, !.coin_total = ct2]
         \in OpenOrders
  BY <1>3, <1>5, <1>8, <1>9 DEF OpenOrders
<1>11. [held EXCEPT !.coin_free = coin, !.coin_total = ct, !.pc_free = pf2, !.pc_total = pt2]
         \in OpenOrders
  BY <1>3, <1>5, <1>8, <1>9 DEF OpenOrders
<1>12. AfterNewOrder(o, side, p, qty, taken, ioc)
         = IF side = "bid"
           THEN [held EXCEPT !.pc_free = pc, !.pc_total = pt, !.coin_free = cf2, !.coin_total = ct2]
           ELSE [held EXCEPT !.coin_free = coin, !.coin_total = ct, !.pc_free = pf2, !.pc_total = pt2]
  BY DEF AfterNewOrder, rest, order, held, pc, coin, pt, ct, cf2, ct2, pf2, pt2
<1> QED BY <1>10, <1>11, <1>12

(* What an order takes out of a vault, whatever it is. *)
LEMMA NewOrderDeal ==
  ASSUME NEW w, IsWork(w), Typed(w), NEW m \in Markets, w.oo[m] \in OpenOrders,
         NEW side \in {"bid", "ask"}, NEW p \in Int, NEW qty \in Int, NEW taken \in Int,
         NEW ioc \in BOOLEAN
  PROVE  \E c \in Int, q \in Int : Deal(w, NewOrder(w, m, side, p, qty, taken, ioc), m, c, q)
<1> DEFINE o == w.oo[m]
           lots == IF ioc THEN taken ELSE qty
           n == AfterNewOrder(o, side, p, qty, taken, ioc)
           put == [w EXCEPT !.oo[m] = n]
           pq == -Larger(0, lots * p - o.pc_free)
           cq == -Larger(0, lots - o.coin_free)
<1>1. lots \in Int /\ lots * p \in Int
  <2>1. lots \in Int OBVIOUS
  <2> HIDE DEF lots
  <2> QED BY <2>1
<1>2. pq \in Int /\ cq \in Int BY <1>1, FundsInt DEF Larger
<1>3. n \in OpenOrders BY NewOrderTyped
<1>4. NewOrder(w, m, side, p, qty, taken, ioc)
        = IF side = "bid" THEN VaultTransfer(put, Quote, pq) ELSE VaultTransfer(put, m, cq)
  BY DEF NewOrder
<1> HIDE DEF n, pq, cq
<1>5. Deal(w, put, m, 0, 0) BY <1>3, PutDeal
<1>6. IsWork(put) /\ Typed(put) /\ put.oo[m] \in OpenOrders BY <1>5 DEF Deal
<1> HIDE DEF put
<1>7. /\ Deal(put, VaultTransfer(put, m, cq), m, cq, 0)
      /\ Deal(put, VaultTransfer(put, Quote, pq), m, 0, pq)
  BY <1>2, <1>6, VaultDeal
<1>8. 0 \in Int /\ 0 + 0 = 0 /\ 0 + cq = cq /\ 0 + pq = pq BY <1>2
<1>9. Deal(w, VaultTransfer(put, m, cq), m, 0 + cq, 0 + 0) BY <1>2, <1>5, <1>7, <1>8, DealTwice
<1>10. Deal(w, VaultTransfer(put, Quote, pq), m, 0 + 0, 0 + pq)
  BY <1>2, <1>5, <1>7, <1>8, DealTwice
<1> QED BY <1>2, <1>4, <1>8, <1>9, <1>10

(* Settling brings what is free, and the rebates. *)
LEMMA SettleDeal ==
  ASSUME NEW w, IsWork(w), Typed(w), NEW m \in Markets, w.oo[m] \in OpenOrders
  PROVE  /\ w.oo[m].coin_free \in Int /\ w.oo[m].pc_free + w.oo[m].referrer_rebates \in Int
         /\ Deal(w, SettleFunds(w, m), m, w.oo[m].coin_free,
                 w.oo[m].pc_free + w.oo[m].referrer_rebates)
<1> DEFINE o == w.oo[m]
           n == [o EXCEPT !.coin_free = 0, !.coin_total = coin_locked(o),
                          !.pc_free = 0, !.pc_total = pc_locked(o), !.referrer_rebates = 0]
           cq == o.coin_free
           pq == o.pc_free + o.referrer_rebates
           put == [w EXCEPT !.oo[m] = n]
           mid == VaultTransfer(put, m, cq)
<1>1. cq \in Int /\ pq \in Int BY FundsInt
<1>2. n \in OpenOrders
  <2> DEFINE ct == coin_locked(o)
             pt == pc_locked(o)
  <2>1. ct \in Int /\ pt \in Int /\ 0 \in Int BY FundsInt
  <2> HIDE DEF ct, pt
  <2>2. [o EXCEPT !.coin_free = 0, !.coin_total = ct, !.pc_free = 0, !.pc_total = pt,
                  !.referrer_rebates = 0] \in OpenOrders
    BY <2>1 DEF OpenOrders
  <2> QED BY <2>2 DEF ct, pt
<1>3. SettleFunds(w, m) = VaultTransfer(mid, Quote, pq) BY DEF SettleFunds
<1> HIDE DEF n, cq, pq
<1>4. Deal(w, put, m, 0, 0) BY <1>2, PutDeal
<1>5. IsWork(put) /\ Typed(put) /\ put.oo[m] \in OpenOrders BY <1>4 DEF Deal
<1> HIDE DEF put
<1>6. Deal(put, mid, m, cq, 0) BY <1>1, <1>5, VaultDeal
<1>7. IsWork(mid) /\ Typed(mid) /\ mid.oo[m] \in OpenOrders BY <1>6 DEF Deal
<1> HIDE DEF mid
<1>8. Deal(mid, VaultTransfer(mid, Quote, pq), m, 0, pq) BY <1>1, <1>7, VaultDeal
<1>9. 0 \in Int /\ 0 + cq \in Int /\ 0 + 0 \in Int /\ (0 + cq) + 0 = cq /\ (0 + 0) + pq = pq BY <1>1
<1>10. Deal(w, mid, m, 0 + cq, 0 + 0) BY <1>1, <1>4, <1>6, <1>9, DealTwice
<1>11. Deal(w, VaultTransfer(mid, Quote, pq), m, (0 + cq) + 0, (0 + 0) + pq)
  BY <1>1, <1>8, <1>9, <1>10, DealTwice
<1> QED BY <1>1, <1>3, <1>9, <1>11 DEF cq, pq

(* Cancelling orders that are there, one or a set of them. *)
LEMMA CancelledTyped ==
  ASSUME NEW o \in OpenOrders, NEW i \in Slot, o.slots[i] \in Orders
  PROVE  /\ Cancelled(o, i) \in OpenOrders
         /\ Cancelled(o, i).slots[i] \in Orders
         /\ \A j \in Slot \ {i} : Cancelled(o, i).slots[j] = o.slots[j]
<1> DEFINE order == o.slots[i]
           f == [o.slots EXCEPT ![i] = [order EXCEPT !.open = 0]]
           done == [o EXCEPT !.slots = f]
<1>1. [order EXCEPT !.open = 0] \in Orders BY DEF Orders
<1>2. o.slots \in [Slot -> Orders \cup {None}] BY DEF OpenOrders
<1>3. /\ f \in [Slot -> Orders \cup {None}] /\ f[i] \in Orders
      /\ \A j \in Slot \ {i} : f[j] = o.slots[j]
  BY <1>1, <1>2
<1>4. [o EXCEPT !.slots[i].open = 0] = done OBVIOUS
<1>5. order.open \in Int /\ order.price \in Int BY DEF Orders
<1>6. order.open * order.price \in Int BY <1>5
<1>7. Cancelled(o, i) = IF order.side = "bid"
                        THEN [done EXCEPT !.pc_free = @ + order.open * order.price]
                        ELSE [done EXCEPT !.coin_free = @ + order.open]
  BY <1>4 DEF Cancelled
<1> HIDE DEF order, f
<1>7a. done \in OpenOrders /\ done.slots = f BY <1>3 DEF OpenOrders
<1> HIDE DEF done
<1> DEFINE pf == done.pc_free + order.open * order.price
           cf == done.coin_free + order.open
<1>7b. pf \in Int /\ cf \in Int BY <1>5, <1>6, <1>7a, FundsInt
<1> HIDE DEF pf, cf
<1>7c. /\ [done EXCEPT !.pc_free = pf] \in OpenOrders /\ [done EXCEPT !.pc_free = pf].slots = f
      /\ [done EXCEPT !.coin_free = cf] \in OpenOrders /\ [done EXCEPT !.coin_free = cf].slots = f
  BY <1>7a, <1>7b DEF OpenOrders
<1>8. /\ [done EXCEPT !.pc_free = @ + order.open * order.price] \in OpenOrders
      /\ [done EXCEPT !.coin_free = @ + order.open] \in OpenOrders
      /\ [done EXCEPT !.pc_free = @ + order.open * order.price].slots = f
      /\ [done EXCEPT !.coin_free = @ + order.open].slots = f
  BY <1>7c DEF pf, cf
<1>9. Cancelled(o, i) \in OpenOrders /\ Cancelled(o, i).slots = f BY <1>7, <1>8
<1> QED BY <1>3, <1>9

(* Cancelling a set of orders gives OpenOrders, in whatever order the      *)
(* fold takes them.                                                        *)
LEMMA CancelSet ==
  ASSUME NEW o \in OpenOrders, NEW S \in SUBSET Slot, \A i \in S : o.slots[i] \in Orders
  PROVE  FoldSet(LAMBDA i, u : Cancelled(u, i), o, S) \in OpenOrders
<1>1. IsFiniteSet(S)
  <2>1. 1 \in Int /\ NumSlots \in Int BY SpotAssumption
  <2>2. IsFiniteSet(1..NumSlots) BY <2>1, FS_Interval
  <2> QED BY <2>2, FS_Subset DEF Slot
<1>2. PICK g : /\ IsFold(g, "cancel", o, SUBSET S)
               /\ (CHOOSE h : FoldEq(h, "cancel", o, S))[S] = g[S]
  BY <1>1, FoldFun
<1> DEFINE Good(u) == u \in OpenOrders /\ \A i \in S : u.slots[i] \in Orders
           Q == {T \in SUBSET S : Good(g[T])}
<1>3. ASSUME NEW T \in SUBSET S, \A U \in SUBSET T : U # T => U \in Q
      PROVE  T \in Q
  <2>1. CASE T = {}
    <3>1. g[T] = o BY <1>2, <2>1 DEF IsFold
    <3> QED BY <3>1
  <2>2. CASE T # {}
    <3> DEFINE x == Pick(T)
               U == T \ {x}
    <3>1. x \in T BY <2>2, PickIn
    <3>2. g[T] = FoldStep("cancel", x, g[U]) BY <1>2, <2>2 DEF IsFold
    <3>3. g[T] = Cancelled(g[U], x) BY <3>2 DEF FoldStep
    <3>4. Good(g[U])
      <4>1. U \in SUBSET T /\ U # T BY <3>1
      <4> QED BY <1>3, <4>1
    <3> HIDE DEF x, U
    <3>5. x \in S /\ x \in Slot BY <3>1
    <3>6. /\ Cancelled(g[U], x) \in OpenOrders
          /\ Cancelled(g[U], x).slots[x] \in Orders
          /\ \A j \in Slot \ {x} : Cancelled(g[U], x).slots[j] = g[U].slots[j]
      BY <3>4, <3>5, CancelledTyped
    <3> QED BY <3>3, <3>4, <3>6
  <2> QED BY <2>1, <2>2
<1>4. S \in Q
  <2> HIDE DEF Q
  <2> QED BY <1>1, <1>3, SubsetInduction
<1> QED BY <1>2, <1>4, CancelUnfold

-----------------------------------------------------------------------------
(* The margin basket *)

(* What the flags count when one of them changes. *)
LEMMA FlagCount ==
  ASSUME NEW f \in [Markets -> BOOLEAN], NEW m \in Markets, NEW b \in BOOLEAN
  PROVE  /\ Cardinality({n \in Markets : f[n]}) \in Nat
         /\ ~f[m] /\ b => Cardinality({n \in Markets : [f EXCEPT ![m] = b][n]})
                             = Cardinality({n \in Markets : f[n]}) + 1
         /\ f[m] /\ ~b => Cardinality({n \in Markets : [f EXCEPT ![m] = b][n]})
                             = Cardinality({n \in Markets : f[n]}) - 1
<1> DEFINE S == {n \in Markets : f[n]}
           T == {n \in Markets : [f EXCEPT ![m] = b][n]}
<1>1. IsFiniteSet(S) BY SpotAssumption, FS_Subset
<1>2. Cardinality(S) \in Nat BY <1>1, FS_CardinalityType
<1>3. ASSUME ~f[m], b PROVE Cardinality(T) = Cardinality(S) + 1
  <2>1. T = S \cup {m} /\ m \notin S BY <1>3
  <2> HIDE DEF T, S
  <2>2. Cardinality(S \cup {m}) = Cardinality(S) + 1 BY <1>1, <2>1, FS_AddElement
  <2> QED BY <2>1, <2>2
<1>4. ASSUME f[m], ~b PROVE Cardinality(T) = Cardinality(S) - 1
  <2>1. T = S \ {m} /\ m \in S BY <1>4
  <2> HIDE DEF T, S
  <2>2. Cardinality(S \ {m}) = Cardinality(S) - 1 BY <1>1, <2>1, FS_RemoveElement
  <2> QED BY <2>1, <2>2
<1> QED BY <1>2, <1>3, <1>4

(* v is w with another basket. *)
Desk(w) == w.basket \in [Markets -> BOOLEAN] /\ w.num \in Int

Swept(w, v) ==
  /\ IsWork(v) /\ Desk(v)
  /\ v.oo = w.oo /\ v.ma = w.ma /\ v.bank = w.bank
  /\ v.ok => w.ok

(* A record in which only the basket, its counter and ok changed. *)
LEMMA FlagSwept ==
  ASSUME NEW w, IsWork(w), NEW v, DOMAIN v = DOMAIN w, v.ma = w.ma, v.bank = w.bank,
         v.cache = w.cache, v.oo = w.oo, v.ok => w.ok,
         v.basket \in [Markets -> BOOLEAN], v.num \in Int
  PROVE  Swept(w, v)
<1>1. IsWork(v) BY DEF IsWork, Books, Shape, Totals
<1>2. Desk(v) BY DEF Desk
<1> QED BY <1>1, <1>2 DEF Swept

(* update_basket counts the market correctly, or fails. *)
LEMMA UpdateBasket ==
  ASSUME NEW w, IsWork(w), Desk(w), NEW m \in Markets, w.oo[m] # None
  PROVE  LET v == update_basket(w, m)
         IN  /\ Swept(w, v)
             /\ \A n \in Markets \ {m} : v.basket[n] = w.basket[n]
             /\ Counted(v, m)
             /\ BasketOk(w) /\ v.ok => BasketOk(v)
<1> DEFINE e == IsEmpty(w.oo[m])
           f == w.basket
<1>1. {"ma", "bank", "cache", "ok", "oo", "basket", "num"} \subseteq DOMAIN w
  BY DEF IsWork, Books, Shape
<1>2. f \in [Markets -> BOOLEAN] /\ f[m] \in BOOLEAN /\ w.num \in Int BY DEF Desk
<1>3. CASE f[m] /\ e
  <2> DEFINE v == [w EXCEPT !.basket = [f EXCEPT ![m] = FALSE], !.num = w.num - 1]
  <2>1. update_basket(w, m) = v BY <1>3 DEF update_basket
  <2>2. /\ DOMAIN v = DOMAIN w /\ v.ma = w.ma /\ v.bank = w.bank /\ v.cache = w.cache
        /\ v.oo = w.oo /\ v.ok = w.ok /\ v.basket = [w.basket EXCEPT ![m] = FALSE]
        /\ v.num = w.num - 1 /\ w.num - 1 \in Int
    BY <1>1, <1>2
  <2> HIDE DEF v
  <2>3. /\ Swept(w, v) /\ v.basket[m] = FALSE
        /\ \A n \in Markets \ {m} : v.basket[n] = w.basket[n]
    <3>1. /\ v.basket \in [Markets -> BOOLEAN] /\ v.num \in Int /\ v.basket[m] = FALSE
          /\ \A n \in Markets \ {m} : v.basket[n] = w.basket[n]
      BY <1>2, <2>2
    <3> QED BY <2>2, <3>1, FlagSwept
  <2>4. Counted(v, m) BY <1>3, <2>2 DEF Counted
  <2>5. ASSUME BasketOk(w) PROVE BasketOk(v)
    <3>1. /\ Cardinality({n \in Markets : f[n]}) \in Nat
          /\ Cardinality({n \in Markets : [f EXCEPT ![m] = FALSE][n]})
               = Cardinality({n \in Markets : f[n]}) - 1
      BY <1>2, <1>3, FlagCount
    <3>2. v.num = Cardinality({n \in Markets : v.basket[n]}) BY <2>2, <2>5, <3>1 DEF BasketOk
    <3>3. v.num <= MaxBasket BY <1>2, <2>2, <2>5, SpotAssumption DEF BasketOk
    <3>4. \A n \in Markets : v.basket[n] => v.oo[n] # None BY <2>2, <2>3, <2>5 DEF BasketOk
    <3> QED BY <2>3, <3>2, <3>3, <3>4 DEF BasketOk, Swept, Desk
  <2> QED BY <2>1, <2>3, <2>4, <2>5
<1>4. CASE ~f[m] /\ ~e
  <2> DEFINE p == w.ok /\ w.num < MaxBasket
             u == [w EXCEPT !.ok = p]
             v == [u EXCEPT !.basket[m] = TRUE, !.num = @ + 1]
  <2>0. Require(w, w.num < MaxBasket) = u BY DEF Require
  <2>1. update_basket(w, m) = v BY <1>4, <2>0 DEF update_basket
  <2>1a. (p => w.ok) /\ (p => w.num < MaxBasket) OBVIOUS
  <2> HIDE DEF p
  <2>1b. /\ DOMAIN u = DOMAIN w /\ u.ma = w.ma /\ u.bank = w.bank /\ u.cache = w.cache
         /\ u.oo = w.oo /\ u.ok = p /\ u.basket = w.basket /\ u.num = w.num
    BY <1>1
  <2> HIDE DEF u
  <2>2. /\ DOMAIN v = DOMAIN w /\ v.ma = w.ma /\ v.bank = w.bank /\ v.cache = w.cache
        /\ v.oo = w.oo /\ v.ok = p /\ v.basket = [w.basket EXCEPT ![m] = TRUE]
        /\ v.num = w.num + 1 /\ w.num + 1 \in Int
    BY <1>1, <1>2, <2>1b
  <2> HIDE DEF v
  <2>3. /\ Swept(w, v) /\ v.basket[m] = TRUE
        /\ \A n \in Markets \ {m} : v.basket[n] = w.basket[n]
    <3>1. /\ v.basket \in [Markets -> BOOLEAN] /\ v.num \in Int /\ v.basket[m] = TRUE
          /\ \A n \in Markets \ {m} : v.basket[n] = w.basket[n]
      BY <1>2, <2>2
    <3> QED BY <2>1a, <2>2, <3>1, FlagSwept
  <2>4. Counted(v, m) BY <2>3 DEF Counted
  <2>5. ASSUME BasketOk(w), v.ok PROVE BasketOk(v)
    <3>1. /\ Cardinality({n \in Markets : f[n]}) \in Nat
          /\ Cardinality({n \in Markets : [f EXCEPT ![m] = TRUE][n]})
               = Cardinality({n \in Markets : f[n]}) + 1
      BY <1>2, <1>4, FlagCount
    <3>2. v.num = Cardinality({n \in Markets : v.basket[n]}) BY <2>2, <2>5, <3>1 DEF BasketOk
    <3>2a. w.num < MaxBasket BY <2>1a, <2>2, <2>5
    <3>3. v.num <= MaxBasket BY <1>2, <2>2, <3>2a, SpotAssumption
    <3>4. \A n \in Markets : v.basket[n] => v.oo[n] # None BY <2>2, <2>3, <2>5 DEF BasketOk
    <3> QED BY <2>3, <3>2, <3>3, <3>4 DEF BasketOk, Swept, Desk
  <2> QED BY <2>1, <2>3, <2>4, <2>5
<1>5. CASE (f[m] /\ ~e) \/ (~f[m] /\ e)
  <2>1. update_basket(w, m) = w BY <1>5 DEF update_basket
  <2>2. Swept(w, w) BY DEF Swept
  <2>3. Counted(w, m) BY <1>5 DEF Counted
  <2> QED BY <2>1, <2>2, <2>3
<1> QED BY <1>2, <1>3, <1>4, <1>5

(* add_to_basket puts the market in, or fails. *)
LEMMA AddToBasket ==
  ASSUME NEW w, IsWork(w), Desk(w), NEW m \in Markets, w.oo[m] # None
  PROVE  LET v == add_to_basket(w, m)
         IN  /\ Swept(w, v)
             /\ \A n \in Markets \ {m} : v.basket[n] = w.basket[n]
             /\ v.ok => v.basket[m]
             /\ BasketOk(w) /\ v.ok => BasketOk(v)
<1> DEFINE f == w.basket
<1>1. {"ma", "bank", "cache", "ok", "oo", "basket", "num"} \subseteq DOMAIN w
  BY DEF IsWork, Books, Shape
<1>2. f \in [Markets -> BOOLEAN] /\ f[m] \in BOOLEAN /\ w.num \in Int BY DEF Desk
<1>3. CASE w.num = MaxBasket
  <2> DEFINE p == w.ok /\ w.basket[m]
             v == [w EXCEPT !.ok = p]
  <2>1. add_to_basket(w, m) = v BY <1>3 DEF add_to_basket, Require
  <2>2. (p => w.ok) /\ (p => w.basket[m]) OBVIOUS
  <2> HIDE DEF p
  <2>3. /\ DOMAIN v = DOMAIN w /\ v.ma = w.ma /\ v.bank = w.bank /\ v.cache = w.cache
        /\ v.oo = w.oo /\ v.ok = p /\ v.basket = w.basket /\ v.num = w.num
    BY <1>1
  <2> HIDE DEF v
  <2>4. IsWork(v) BY <2>3 DEF IsWork, Books, Shape, Totals
  <2>5. Swept(w, v) BY <2>2, <2>3, <2>4 DEF Swept, Desk
  <2>6. BasketOk(w) => BasketOk(v) BY <2>3 DEF BasketOk
  <2> QED BY <2>1, <2>2, <2>3, <2>5, <2>6
<1>4. CASE w.num # MaxBasket /\ f[m]
  <2>1. add_to_basket(w, m) = w BY <1>4 DEF add_to_basket
  <2>2. Swept(w, w) BY DEF Swept
  <2> QED BY <1>4, <2>1, <2>2
<1>5. CASE w.num # MaxBasket /\ ~f[m]
  <2> DEFINE v == [w EXCEPT !.basket = [f EXCEPT ![m] = TRUE], !.num = w.num + 1]
  <2>1. add_to_basket(w, m) = v BY <1>5 DEF add_to_basket
  <2>2. /\ DOMAIN v = DOMAIN w /\ v.ma = w.ma /\ v.bank = w.bank /\ v.cache = w.cache
        /\ v.oo = w.oo /\ v.ok = w.ok /\ v.basket = [w.basket EXCEPT ![m] = TRUE]
        /\ v.num = w.num + 1 /\ w.num + 1 \in Int
    BY <1>1, <1>2
  <2> HIDE DEF v
  <2>3. /\ Swept(w, v) /\ v.basket[m] = TRUE
        /\ \A n \in Markets \ {m} : v.basket[n] = w.basket[n]
    <3>1. /\ v.basket \in [Markets -> BOOLEAN] /\ v.num \in Int /\ v.basket[m] = TRUE
          /\ \A n \in Markets \ {m} : v.basket[n] = w.basket[n]
      BY <1>2, <2>2
    <3> QED BY <2>2, <3>1, FlagSwept
  <2>5. ASSUME BasketOk(w) PROVE BasketOk(v)
    <3>1. /\ Cardinality({n \in Markets : f[n]}) \in Nat
          /\ Cardinality({n \in Markets : [f EXCEPT ![m] = TRUE][n]})
               = Cardinality({n \in Markets : f[n]}) + 1
      BY <1>2, <1>5, FlagCount
    <3>2. v.num = Cardinality({n \in Markets : v.basket[n]}) BY <2>2, <2>5, <3>1 DEF BasketOk
    <3>3. v.num <= MaxBasket BY <1>2, <1>5, <2>2, <2>5, SpotAssumption DEF BasketOk
    <3>4. \A n \in Markets : v.basket[n] => v.oo[n] # None BY <2>2, <2>3, <2>5 DEF BasketOk
    <3> QED BY <2>3, <3>2, <3>3, <3>4 DEF BasketOk, Swept, Desk
  <2> QED BY <2>1, <2>3, <2>5
<1> QED BY <1>2, <1>3, <1>4, <1>5

(* The basket after an update of several markets. *)
LEMMA SweptBaskets ==
  ASSUME NEW w, IsWork(w), Desk(w), BasketOk(w), NEW S \in SUBSET Markets,
         \A m \in S : w.oo[m] # None
  PROVE  LET v == UpdateBaskets(w, S)
         IN  /\ Swept(w, v)
             /\ \A n \in Markets \ S : v.basket[n] = w.basket[n]
             /\ \A n \in S : Counted(v, n)
             /\ v.ok => BasketOk(v)
<1>1. IsFiniteSet(S) BY SpotAssumption, FS_Subset
<1>2. PICK g : /\ IsFold(g, "basket", w, SUBSET S)
               /\ (CHOOSE h : FoldEq(h, "basket", w, S))[S] = g[S]
  BY <1>1, FoldFun
<1> DEFINE Good(T, v) == /\ Swept(w, v)
                         /\ \A n \in Markets \ T : v.basket[n] = w.basket[n]
                         /\ \A n \in T : Counted(v, n)
                         /\ v.ok => BasketOk(v)
           Q == {T \in SUBSET S : Good(T, g[T])}
<1>3. ASSUME NEW T \in SUBSET S, \A U \in SUBSET T : U # T => U \in Q
      PROVE  T \in Q
  <2>1. CASE T = {}
    <3>1. g[T] = w BY <1>2, <2>1 DEF IsFold
    <3>2. Swept(w, w) BY DEF Swept
    <3> QED BY <2>1, <3>1, <3>2
  <2>2. CASE T # {}
    <3> DEFINE x == Pick(T)
               U == T \ {x}
               u == g[U]
               v == update_basket(u, x)
    <3>1. x \in T BY <2>2, PickIn
    <3>2. g[T] = FoldStep("basket", x, g[U]) BY <1>2, <2>2 DEF IsFold
    <3>3. g[T] = v BY <3>2 DEF FoldStep
    <3>4. Good(U, u)
      <4>1. U \in SUBSET T /\ U # T BY <3>1
      <4> QED BY <1>3, <4>1
    <3>5. T = U \cup {x} /\ x \notin U BY <3>1
    <3> HIDE DEF x, U, u
    <3>6. x \in Markets /\ w.oo[x] # None BY <3>1
    <3>7. IsWork(u) /\ Desk(u) /\ u.oo = w.oo /\ u.oo[x] # None BY <3>4, <3>6 DEF Swept
    <3>8. /\ Swept(u, v)
          /\ \A n \in Markets \ {x} : v.basket[n] = u.basket[n]
          /\ Counted(v, x)
          /\ BasketOk(u) /\ v.ok => BasketOk(v)
      BY <3>6, <3>7, UpdateBasket
    <3> HIDE DEF v
    <3>9. Swept(w, v) BY <3>4, <3>8 DEF Swept
    <3>10. \A n \in Markets \ T : v.basket[n] = w.basket[n] BY <3>4, <3>5, <3>8
    <3>11. \A n \in T : Counted(v, n)
      <4> SUFFICES ASSUME NEW n \in U PROVE Counted(v, n) BY <3>5, <3>8
      <4>1. n \in Markets \ {x} /\ Counted(u, n) BY <3>4, <3>5
      <4> QED BY <3>8, <4>1 DEF Counted, Swept
    <3>12. v.ok => BasketOk(v)
      <4>1. v.ok => u.ok BY <3>8 DEF Swept
      <4> QED BY <3>4, <3>8, <4>1
    <3> QED BY <3>3, <3>9, <3>10, <3>11, <3>12
  <2> QED BY <2>1, <2>2
<1>4. S \in Q
  <2> HIDE DEF Q
  <2> QED BY <1>1, <1>3, SubsetInduction
<1>5. UpdateBaskets(w, S) = g[S] BY <1>2, BasketsUnfold
<1> QED BY <1>4, <1>5

-----------------------------------------------------------------------------
(* Instructions *)

(* A record in order, except that the basket may not know of m yet. *)
SoundBut(w, m) ==
  /\ IsWork(w) /\ Typed(w) /\ BasketOk(w)
  /\ w.oo[m] \in OpenOrders
  /\ \A n \in Markets \ {m} : Counted(w, n)

Sound(w) ==
  /\ IsWork(w) /\ Typed(w) /\ BasketOk(w) /\ Level(w)
  /\ \A n \in Markets : Counted(w, n)

(* The flags are Booleans and their number is an integer. *)
LEMMA DeskOk == ASSUME NEW w, BasketOk(w) PROVE Desk(w)
<1>1. IsFiniteSet({m \in Markets : w.basket[m]}) BY SpotAssumption, FS_Subset
<1>2. Cardinality({m \in Markets : w.basket[m]}) \in Nat BY <1>1, FS_CardinalityType
<1> QED BY <1>2 DEF BasketOk, Desk

(* Dealing with Serum leaves the other markets alone. *)
LEMMA DealSound ==
  ASSUME NEW w, NEW m \in Markets, SoundBut(w, m), NEW v, NEW c, NEW q, Deal(w, v, m, c, q)
  PROVE  SoundBut(v, m)
<1>1. v.oo[m] # None BY SpotAssumption DEF Deal
<1>2. BasketOk(v) BY <1>1 DEF SoundBut, Deal, BasketOk
<1>3. \A n \in Markets \ {m} : Counted(v, n) BY DEF SoundBut, Deal, Counted
<1> QED BY <1>2, <1>3 DEF SoundBut, Deal

(* The basket after update_basket. *)
LEMMA UpdatedSound ==
  ASSUME NEW w, NEW m \in Markets, SoundBut(w, m)
  PROVE  LET v == update_basket(w, m)
         IN  /\ IsWork(v) /\ Typed(v) /\ v.oo = w.oo /\ v.bank = w.bank
             /\ \A n \in Markets : Counted(v, n)
             /\ v.ok => w.ok /\ BasketOk(v)
<1> DEFINE v == update_basket(w, m)
<1>1. w.oo[m] # None BY SpotAssumption DEF SoundBut
<1>2. IsWork(w) /\ BasketOk(w) /\ Desk(w) BY DeskOk DEF SoundBut
<1>3. /\ Swept(w, v)
      /\ \A n \in Markets \ {m} : v.basket[n] = w.basket[n]
      /\ Counted(v, m)
      /\ BasketOk(w) /\ v.ok => BasketOk(v)
  BY <1>1, <1>2, UpdateBasket
<1> HIDE DEF v
<1>4. \A n \in Markets : Counted(v, n) BY <1>3 DEF SoundBut, Swept, Counted
<1>5. Typed(v) BY <1>3 DEF SoundBut, Swept, Typed
<1>6. IsWork(v) /\ v.oo = w.oo /\ v.bank = w.bank /\ (v.ok => w.ok) BY <1>3 DEF Swept
<1> QED BY <1>2, <1>3, <1>4, <1>5, <1>6 DEF v

(* Gaps depend on the banks alone. *)
LEMMA SameBankLevel ==
  ASSUME NEW w, NEW v, v.bank = w.bank
  PROVE  (\A t \in Tokens : Gap(v, t) = Gap(w, t)) /\ (Level(w) => Level(v))
BY DEF Gap, Level

(* What Serum paid or took, then the basket, then the books. *)
LEMMA DealBooked ==
  ASSUME NEW w, NEW m \in Markets, SoundBut(w, m), Level(w), NEW sent, NEW c \in Int, NEW q \in Int,
         Deal(w, sent, m, c, q),
         NEW cg, NEW qg, cg = c * One, qg = q * One
  PROVE  LET v == update_basket(sent, m)
             x == checked_change_net(checked_change_net(v, trader, m, cg), trader, Quote, qg)
             y == checked_change_net(checked_change_net(v, trader, Quote, qg), trader, m, cg)
         IN  (x.ok => Sound(x)) /\ (y.ok => Sound(y))
<1> DEFINE v == update_basket(sent, m)
           x == checked_change_net(checked_change_net(v, trader, m, cg), trader, Quote, qg)
           y == checked_change_net(checked_change_net(v, trader, Quote, qg), trader, m, cg)
<1>1. m \in Tokens /\ Quote \in Tokens /\ m # Quote BY MarketTokens
<1>2. IsWork(w) BY DEF SoundBut
<1>3. /\ Gap(sent, m) = Gap(w, m) + c * One /\ Gap(sent, Quote) = Gap(w, Quote) + q * One
      /\ \A t \in Tokens \ {m, Quote} : Gap(sent, t) = Gap(w, t)
  BY <1>2, DealGap
<1>4. cg \in Int /\ qg \in Int BY RateAssumption
<1>5. Gap(sent, m) = cg /\ Gap(sent, Quote) = qg /\ \A t \in Tokens \ {m, Quote} : Gap(sent, t) = 0
  BY <1>1, <1>3, <1>4 DEF Level
<1>6. SoundBut(sent, m) BY DealSound
<1>7. /\ IsWork(v) /\ Typed(v) /\ v.bank = sent.bank
      /\ \A n \in Markets : Counted(v, n)
      /\ v.ok => BasketOk(v)
  BY <1>6, UpdatedSound
<1> HIDE DEF v
<1>8. Gap(v, m) = cg /\ Gap(v, Quote) = qg /\ \A t \in Tokens \ {m, Quote} : Gap(v, t) = 0
  BY <1>1, <1>5, <1>7, SameBankLevel
<1>9. IsWork(x) /\ SameDesk(v, x) /\ (x.ok => v.ok) /\ Level(x)
  BY <1>1, <1>4, <1>7, <1>8, BookBack
<1>10. IsWork(y) /\ SameDesk(v, y) /\ (y.ok => v.ok) /\ Level(y)
  <2>1. Quote # m /\ \A t \in Tokens \ {Quote, m} : Gap(v, t) = 0 BY <1>1, <1>8
  <2> QED BY <1>1, <1>4, <1>7, <1>8, <2>1, BookBack
<1> HIDE DEF x, y
<1>11. ASSUME NEW z, IsWork(z), SameDesk(v, z), z.ok => v.ok, Level(z), z.ok PROVE Sound(z)
  <2>1. Typed(z) /\ \A n \in Markets : Counted(z, n) BY <1>7, <1>11 DEF SameDesk, Typed, Counted
  <2>2. BasketOk(z) BY <1>7, <1>11 DEF SameDesk, BasketOk
  <2> QED BY <1>11, <2>1, <2>2 DEF Sound
<1>12. (x.ok => Sound(x)) /\ (y.ok => Sound(y)) BY <1>9, <1>10, <1>11
<1> QED BY <1>12 DEF x, y, v

(* settle_funds books what the OpenOrders lost. *)
LEMMA SettledSound ==
  ASSUME NEW w, NEW m \in Markets, SoundBut(w, m), Level(w), Settled(w, m).ok
  PROVE  Sound(Settled(w, m))
<1> DEFINE c == w.oo[m].coin_free
           q == w.oo[m].pc_free + w.oo[m].referrer_rebates
           sent == SettleFunds(w, m)
           v == update_basket(sent, m)
           x == checked_change_net(checked_change_net(v, trader, m, c * One), trader, Quote, q * One)
<1>1. c \in Int /\ q \in Int /\ Deal(w, sent, m, c, q) BY SettleDeal DEF SoundBut
<1>2. Settled(w, m) = x BY DEF Settled
<1> HIDE DEF c, q, sent
<1>3. x.ok => Sound(x) BY <1>1, DealBooked
<1> QED BY <1>2, <1>3

(* An order books what the vaults gained or lost. *)
LEMMA AfterOrderSound ==
  ASSUME NEW w, NEW m \in Markets, SoundBut(w, m), Level(w),
         NEW side \in {"bid", "ask"}, NEW p \in Int, NEW qty \in Int, NEW taken \in Int,
         NEW ioc \in BOOLEAN, AfterOrder(w, m, side, p, qty, taken, ioc).ok
  PROVE  Sound(AfterOrder(w, m, side, p, qty, taken, ioc))
<1> DEFINE new == NewOrder(w, m, side, p, qty, taken, ioc)
           sent == SettleFunds(new, m)
           done == update_basket(sent, m)
           cg == (done.bank[m].vault - w.bank[m].vault) * One
           qg == (done.bank[Quote].vault - w.bank[Quote].vault) * One
           y == checked_change_net(checked_change_net(done, trader, Quote, qg), trader, m, cg)
<1>1. IsWork(w) /\ Typed(w) /\ w.oo[m] \in OpenOrders BY DEF SoundBut
<1>2. PICK c1 \in Int, q1 \in Int : Deal(w, new, m, c1, q1) BY <1>1, NewOrderDeal
<1>3. AfterOrder(w, m, side, p, qty, taken, ioc) = y BY DEF AfterOrder
<1> HIDE DEF new
<1>4. IsWork(new) /\ Typed(new) /\ new.oo[m] \in OpenOrders BY <1>2 DEF Deal
<1>5. PICK c2 \in Int, q2 \in Int : Deal(new, sent, m, c2, q2) BY <1>4, SettleDeal
<1> HIDE DEF sent
<1> DEFINE c == c1 + c2
           q == q1 + q2
<1>6. c \in Int /\ q \in Int OBVIOUS
<1>7. Deal(w, sent, m, c, q) BY <1>1, <1>2, <1>5, DealTwice
<1> HIDE DEF c, q
<1>8. SoundBut(sent, m) BY <1>7, DealSound
<1>9. done.bank = sent.bank BY <1>8, UpdatedSound
<1>10. /\ done.bank[m].vault = w.bank[m].vault + c
       /\ done.bank[Quote].vault = w.bank[Quote].vault + q
  BY <1>7, <1>9 DEF Deal
<1>11. w.bank[m].vault \in Int /\ w.bank[Quote].vault \in Int BY <1>1, MarketTokens, GapInt
<1>12. cg = c * One /\ qg = q * One
  <2>1. /\ done.bank[m].vault - w.bank[m].vault = c
        /\ done.bank[Quote].vault - w.bank[Quote].vault = q
    BY <1>6, <1>10, <1>11
  <2> QED BY <2>1
<1> HIDE DEF cg, qg
<1>13. y.ok => Sound(y) BY <1>6, <1>7, <1>12, DealBooked
<1> QED BY <1>3, <1>13

(* Cancelling up to a number of orders changes nothing but the OpenOrders. *)
LEMMA CancelUpToSound ==
  ASSUME NEW w, NEW m \in Markets, SoundBut(w, m), Level(w), NEW limit
  PROVE  SoundBut(CancelUpTo(w, m, limit), m) /\ Level(CancelUpTo(w, m, limit))
<1> DEFINE o == w.oo[m]
           on == OnBook(o)
           first == {i \in on : Cardinality({j \in on : j < i}) < limit}
           n == FoldSet(LAMBDA i, u : Cancelled(u, i), o, first)
           v == [w EXCEPT !.oo[m] = n]
<1>1. o \in OpenOrders /\ IsWork(w) /\ Typed(w) BY DEF SoundBut
<1>2. first \in SUBSET Slot /\ \A i \in first : o.slots[i] # None BY DEF OnBook, Used
<1>3. CancelUpTo(w, m, limit) = v BY DEF CancelUpTo
<1> HIDE DEF first, o
<1>4. \A i \in first : o.slots[i] \in Orders BY <1>1, <1>2 DEF OpenOrders
<1>5. n \in OpenOrders BY <1>1, <1>2, <1>4, CancelSet
<1> HIDE DEF n
<1>6. Deal(w, v, m, 0, 0) BY <1>1, <1>5, PutDeal
<1>7. SoundBut(v, m) BY <1>6, DealSound
<1>8. v.bank = w.bank
  <2>1. {"bank", "oo"} \subseteq DOMAIN w BY <1>1 DEF IsWork, Books, Shape
  <2> QED BY <2>1
<1>9. Level(v) BY <1>8, SameBankLevel
<1> QED BY <1>3, <1>7, <1>9

-----------------------------------------------------------------------------
(* The invariant *)

SpotInv ==
  /\ Sound(Work)
  /\ DOMAIN group = Markets
  /\ \A m \in Markets : group[m].serum \in Nat

(* The record an instruction starts from, for any state. *)
Desktop(a, b, o, k, n) ==
  [ma |-> a, bank |-> b, oo |-> o, basket |-> k, num |-> n, ok |-> TRUE,
   cache |-> [bank |-> [t \in Tokens |-> [deposit_index |-> One, borrow_index |-> One]]]]

(* The record an instruction starts from is made of the state, before and  *)
(* after a step.                                                           *)
LEMMA WorkDesktop ==
  /\ Work = Desktop(ma, bank, spot_open_orders, in_margin_basket, num_in_margin_basket)
  /\ Work' = Desktop(ma', bank', spot_open_orders', in_margin_basket', num_in_margin_basket')
BY DEF Work, Desktop

(* Starting the next instruction from the parts of a record in order       *)
(* gives a record in order.                                                *)
LEMMA DesktopSound ==
  ASSUME NEW w, Sound(w)
  PROVE  Sound(Desktop(w.ma, w.bank, w.oo, w.basket, w.num))
<1> DEFINE x == Desktop(w.ma, w.bank, w.oo, w.basket, w.num)
<1>1. /\ x.ma = w.ma /\ x.bank = w.bank /\ x.oo = w.oo /\ x.basket = w.basket /\ x.num = w.num
      /\ DOMAIN x = {"ma", "bank", "oo", "basket", "num", "ok", "cache"}
      /\ \A t \in Tokens : /\ x.cache.bank[t].deposit_index = One
                            /\ x.cache.bank[t].borrow_index = One
  BY DEF Desktop
<1> HIDE DEF x
<1>2. Books(w, Users, Tokens) BY DEF Sound, IsWork
<1>3. \A t \in Tokens : IsIndex(x.cache.bank[t]) BY <1>1, RateAssumption DEF IsIndex
<1>4. Shape(x, Users, Tokens) BY <1>1, <1>2, <1>3 DEF Books, Shape
<1>5. Totals(x, Users, Tokens) BY <1>1, <1>2 DEF Books, Totals
<1>6. IsWork(x) BY <1>1, <1>4, <1>5 DEF IsWork, Books, Unit
<1>7. Typed(x) /\ BasketOk(x) BY <1>1 DEF Sound, Typed, BasketOk
<1>8. Level(x) BY <1>1, SameBankLevel DEF Sound
<1>9. \A n \in Markets : Counted(x, n) BY <1>1 DEF Sound, Counted
<1> QED BY <1>6, <1>7, <1>8, <1>9 DEF x, Sound

(* An instruction that leaves a record in order leaves the state in order. *)
LEMMA CommitSound ==
  ASSUME NEW w, w.ok => Sound(w), Commit(w)
  PROVE  Sound(Work)'
<1>1. Sound(w) BY DEF Commit
<1>2. Work' = Desktop(w.ma, w.bank, w.oo, w.basket, w.num) BY WorkDesktop DEF Commit
<1>3. Sound(Work') BY <1>1, <1>2, DesktopSound
<1> QED BY <1>3

(* The parts of that record are the variables. *)
LEMMA WorkFields ==
  /\ Work.ma = ma /\ Work.bank = bank /\ Work.oo = spot_open_orders /\ Work.basket = in_margin_basket
  /\ Work.num = num_in_margin_basket /\ Work.ok = TRUE
  /\ DOMAIN Work = {"ma", "bank", "oo", "basket", "num", "ok", "cache"}
BY DEF Work

(* What an action on market m starts from. *)
LEMMA StartBut ==
  ASSUME SpotInv, NEW m \in Markets, spot_open_orders[m] # None
  PROVE  SoundBut(Work, m) /\ Level(Work) /\ spot_open_orders[m] \in OpenOrders
<1>1. Work.oo = spot_open_orders BY WorkFields
<1>2. Work.oo[m] \in OpenOrders BY <1>1 DEF SpotInv, Sound, Typed
<1> QED BY <1>1, <1>2 DEF SpotInv, Sound, SoundBut

(* settle_funds keeps the invariant. *)
LEMMA SettleFundsInv ==
  ASSUME SpotInv, NEW m \in Markets, settle_funds(m) PROVE SpotInv'
<1>1. spot_open_orders[m] # None BY DEF settle_funds, Usable
<1>2. Settled(Work, m).ok => Sound(Settled(Work, m)) BY <1>1, StartBut, SettledSound
<1>3. Commit(Settled(Work, m)) BY DEF settle_funds
<1>4. Sound(Work)' BY <1>2, <1>3, CommitSound
<1> QED BY <1>4 DEF SpotInv, settle_funds

(* Cancelling orders, and settling if there is anything to settle. *)
LEMMA CancelAndSettleSound ==
  ASSUME SpotInv, NEW m \in Markets, spot_open_orders[m] # None, NEW limit, CancelAndSettle(m, limit).ok
  PROVE  Sound(CancelAndSettle(m, limit))
<1> DEFINE w == CancelUpTo(Work, m, limit)
<1>1. SoundBut(w, m) /\ Level(w) BY StartBut, CancelUpToSound
<1>2. CancelAndSettle(m, limit) = update_basket(w, m) \/ CancelAndSettle(m, limit) = Settled(w, m)
  BY DEF CancelAndSettle
<1> HIDE DEF w
<1>3. ASSUME CancelAndSettle(m, limit) = update_basket(w, m) PROVE Sound(CancelAndSettle(m, limit))
  <2> DEFINE v == update_basket(w, m)
  <2>1. /\ IsWork(v) /\ Typed(v) /\ v.bank = w.bank /\ \A n \in Markets : Counted(v, n)
        /\ v.ok => BasketOk(v)
    BY <1>1, UpdatedSound
  <2> HIDE DEF v
  <2>2. Level(v) BY <1>1, <2>1, SameBankLevel
  <2>3. v.ok BY <1>3 DEF v
  <2>4. Sound(v) BY <2>1, <2>2, <2>3 DEF Sound
  <2> QED BY <1>3, <2>4 DEF v
<1>4. ASSUME CancelAndSettle(m, limit) = Settled(w, m) PROVE Sound(CancelAndSettle(m, limit))
  BY <1>1, <1>4, SettledSound
<1> QED BY <1>2, <1>3, <1>4

(* cancel_all_spot_orders and force_cancel_spot_orders keep the            *)
(* invariant.                                                              *)
LEMMA CancelAllInv ==
  ASSUME SpotInv, NEW m \in Markets, NEW limit,
         cancel_all_spot_orders(m, limit) \/ force_cancel_spot_orders(m, limit)
  PROVE  SpotInv'
<1>1. spot_open_orders[m] # None /\ Commit(CancelAndSettle(m, limit)) /\ group' = group
  BY DEF cancel_all_spot_orders, force_cancel_spot_orders, Usable
<1>2. CancelAndSettle(m, limit).ok => Sound(CancelAndSettle(m, limit)) BY <1>1, CancelAndSettleSound
<1>3. Sound(Work)' BY <1>1, <1>2, CommitSound
<1> QED BY <1>1, <1>3 DEF SpotInv

(* update_margin_basket keeps the invariant. *)
LEMMA UpdateMarginBasketInv ==
  ASSUME SpotInv, update_margin_basket PROVE SpotInv'
<1> DEFINE S == {m \in Markets : spot_open_orders[m] # None}
           v == UpdateBaskets(Work, S)
<1>1. Work.oo = spot_open_orders BY WorkFields
<1>2. Sound(Work) BY DEF SpotInv
<1>3. IsWork(Work) /\ BasketOk(Work) /\ Desk(Work) BY <1>2, DeskOk DEF Sound
<1>4. S \in SUBSET Markets /\ \A m \in S : Work.oo[m] # None BY <1>1
<1>4a. \A n \in Markets \ S : Work.oo[n] = None BY <1>1
<1>5. Commit(v) /\ group' = group BY DEF update_margin_basket
<1> HIDE DEF S
<1>6. /\ Swept(Work, v) /\ \A n \in S : Counted(v, n)
      /\ v.ok => BasketOk(v)
  BY <1>3, <1>4, SweptBaskets
<1> HIDE DEF v
<1>7. Level(v) BY <1>2, <1>6, SameBankLevel DEF Sound, Swept
<1>8. Typed(v) /\ IsWork(v) BY <1>2, <1>6 DEF Sound, Swept, Typed
<1>9. \A n \in Markets : Counted(v, n) BY <1>4a, <1>6 DEF Counted, Swept
<1>10. v.ok => Sound(v) BY <1>6, <1>7, <1>8, <1>9 DEF Sound
<1>11. Sound(Work)' BY <1>5, <1>10, CommitSound
<1> QED BY <1>5, <1>11 DEF SpotInv

(* place_spot_order keeps the invariant: the markets in the basket are     *)
(* corrected first, then the market of the order is added, then what the   *)
(* order and the settlement did to the vaults is booked.                   *)
LEMMA PlaceInv ==
  ASSUME SpotInv, NEW m \in Markets, NEW side \in {"bid", "ask"}, NEW p \in Prices,
         NEW qty \in Quantities, NEW taken \in 0..qty, NEW ioc \in BOOLEAN,
         place_spot_order(m, side, p, qty, taken, ioc)
  PROVE  SpotInv'
<1> DEFINE u == UpdateBaskets(Work, InBasket)
           w == add_to_basket(u, m)
           v == AfterOrder(w, m, side, p, qty, taken, ioc)
<1>0. spot_open_orders[m] # None /\ w.ok /\ Commit(v) /\ group' = group
  BY DEF place_spot_order, Usable
<1>0a. p \in Int /\ qty \in Int /\ taken \in Int BY SpotAssumption
<1>1. Work.oo = spot_open_orders /\ Work.basket = in_margin_basket BY WorkFields
<1>2. Sound(Work) BY DEF SpotInv
<1>3. IsWork(Work) /\ BasketOk(Work) /\ Desk(Work) BY <1>2, DeskOk DEF Sound
<1>4. InBasket \in SUBSET Markets /\ \A n \in InBasket : Work.oo[n] # None
  BY <1>1, <1>3 DEF InBasket, BasketOk
<1>5. /\ Swept(Work, u) /\ \A n \in Markets \ InBasket : u.basket[n] = Work.basket[n]
      /\ \A n \in InBasket : Counted(u, n)
      /\ u.ok => BasketOk(u)
  BY <1>3, <1>4, SweptBaskets
<1> HIDE DEF u
<1>6. \A n \in Markets : Counted(u, n)
  <2> SUFFICES ASSUME NEW n \in Markets \ InBasket PROVE Counted(u, n) BY <1>5
  <2>1. Counted(Work, n) BY <1>2 DEF Sound
  <2> QED BY <1>5, <2>1 DEF Counted, Swept
<1>7. IsWork(u) /\ Desk(u) /\ u.oo[m] # None BY <1>0, <1>1, <1>5 DEF Swept
<1>8. /\ Swept(u, w) /\ \A n \in Markets \ {m} : w.basket[n] = u.basket[n]
      /\ BasketOk(u) /\ w.ok => BasketOk(w)
  BY <1>7, AddToBasket
<1> HIDE DEF w
<1>9. BasketOk(w)
  <2>1. u.ok BY <1>0, <1>8 DEF Swept
  <2> QED BY <1>0, <1>5, <1>8, <2>1
<1>10. Typed(w) /\ IsWork(w) /\ w.oo[m] \in OpenOrders
  <2>1. w.oo = Work.oo BY <1>5, <1>8 DEF Swept
  <2>2. Typed(w) BY <1>2, <2>1 DEF Sound, Typed
  <2>3. IsWork(w) BY <1>8 DEF Swept
  <2> QED BY <1>0, <1>1, <2>1, <2>2, <2>3 DEF Typed
<1>11. \A n \in Markets \ {m} : Counted(w, n) BY <1>6, <1>8 DEF Counted, Swept
<1>12. SoundBut(w, m) BY <1>9, <1>10, <1>11 DEF SoundBut
<1>13. Level(w)
  <2>1. w.bank = Work.bank BY <1>5, <1>8 DEF Swept
  <2> QED BY <1>2, <2>1, SameBankLevel DEF Sound
<1>14. v.ok => Sound(v) BY <1>0a, <1>12, <1>13, AfterOrderSound
<1> HIDE DEF v
<1>15. Sound(Work)' BY <1>0, <1>14, CommitSound
<1> QED BY <1>0, <1>15 DEF SpotInv

(* A step that changes nothing but the OpenOrders of one market. *)
LEMMA OpenOrdersStep ==
  ASSUME SpotInv, NEW m \in Markets, NEW o \in OpenOrders,
         spot_open_orders' = [spot_open_orders EXCEPT ![m] = o],
         in_margin_basket[m] \/ IsEmpty(o),
         UNCHANGED <<ma, bank, in_margin_basket, num_in_margin_basket, group>>
  PROVE  SpotInv'
<1> DEFINE f == [spot_open_orders EXCEPT ![m] = o]
           v == Desktop(ma, bank, f, in_margin_basket, num_in_margin_basket)
<1>1. Sound(Work) BY DEF SpotInv
<1>2. f \in [Markets -> OpenOrders \cup {None}] /\ f[m] = o /\ \A n \in Markets \ {m} : f[n] = spot_open_orders[n]
  BY <1>1, WorkFields DEF Sound, Typed
<1>3. Work' = v BY WorkDesktop
<1> HIDE DEF f
<1>5. /\ DOMAIN v = DOMAIN Work /\ v.ma = Work.ma /\ v.bank = Work.bank /\ v.cache = Work.cache
      /\ v.oo = f /\ v.basket = Work.basket /\ v.num = Work.num /\ v.ok = Work.ok
      /\ v.basket = in_margin_basket
  BY DEF Desktop, Work
<1> HIDE DEF v
<1>6. IsWork(v) BY <1>1, <1>5 DEF Sound, IsWork, Books, Shape, Totals
<1>7. Typed(v) BY <1>2, <1>5 DEF Typed
<1>8. Level(v) BY <1>1, <1>5, SameBankLevel DEF Sound
<1>9. Work.oo = spot_open_orders BY WorkFields
<1>10. o # None BY SpotAssumption
<1>11. BasketOk(v) BY <1>1, <1>2, <1>5, <1>9, <1>10 DEF Sound, BasketOk
<1>12. \A n \in Markets : Counted(v, n)
  <2>1. Counted(v, m) BY <1>2, <1>5 DEF Counted
  <2>2. \A n \in Markets \ {m} : Counted(v, n) BY <1>1, <1>2, <1>5, <1>9 DEF Sound, Counted
  <2> QED BY <2>1, <2>2
<1>13. Sound(v) BY <1>6, <1>7, <1>8, <1>11, <1>12 DEF Sound
<1>14. Sound(Work)' BY <1>3, <1>13
<1> QED BY <1>14 DEF SpotInv

(* A market with an order slot in use is in the basket. *)
LEMMA UsedInBasket ==
  ASSUME SpotInv, NEW m \in Markets, spot_open_orders[m] # None, Used(spot_open_orders[m]) # {}
  PROVE  in_margin_basket[m]
<1>1. Counted(Work, m) BY DEF SpotInv, Sound
<1> QED BY <1>1, WorkFields DEF Counted, IsEmpty

(* A new OpenOrders account is empty, so it need not be in the basket. *)
LEMMA InitOpenOrdersInv ==
  ASSUME SpotInv, NEW m \in Markets, init_spot_open_orders(m) PROVE SpotInv'
<1> DEFINE o == EmptyOpenOrders(group[m].serum)
<1>1. o \in OpenOrders
  <2>1. group[m].serum \in Nat BY DEF SpotInv
  <2>2. [i \in Slot |-> None] \in [Slot -> Orders \cup {None}] OBVIOUS
  <2> QED BY <2>1, <2>2 DEF EmptyOpenOrders, OpenOrders
<1>2. IsEmpty(o) BY DEF EmptyOpenOrders, IsEmpty, Used
<1>3. /\ spot_open_orders' = [spot_open_orders EXCEPT ![m] = o]
      /\ UNCHANGED <<ma, bank, in_margin_basket, num_in_margin_basket, group>>
  BY DEF init_spot_open_orders
<1> HIDE DEF o
<1> QED BY <1>1, <1>2, <1>3, OpenOrdersStep

(* cancel_spot_order keeps the invariant: the order still has its slot,    *)
(* so its market is in the basket and stays in it.                         *)
LEMMA CancelInv ==
  ASSUME SpotInv, NEW m \in Markets, NEW i \in Slot, cancel_spot_order(m, i) PROVE SpotInv'
<1> DEFINE o == spot_open_orders[m]
<1>1. o # None /\ i \in Used(o) BY DEF cancel_spot_order, Usable, OnBook
<1>2. in_margin_basket[m] BY <1>1, UsedInBasket
<1>3. o \in OpenOrders BY <1>1, StartBut
<1>4. /\ spot_open_orders' = [spot_open_orders EXCEPT ![m] = Cancelled(o, i)]
      /\ UNCHANGED <<ma, bank, in_margin_basket, num_in_margin_basket, group>>
  BY DEF cancel_spot_order
<1> HIDE DEF o
<1>5. o.slots[i] \in Orders BY <1>1, <1>3 DEF OpenOrders, Used
<1>6. Cancelled(o, i) \in OpenOrders BY <1>3, <1>5, CancelledTyped
<1> QED BY <1>2, <1>4, <1>6, OpenOrdersStep

(* Somebody taking a resting order between two instructions keeps the      *)
(* invariant.                                                              *)
LEMMA MatchInv ==
  ASSUME SpotInv, NEW m \in Markets, NEW i \in Slot, NEW lots \in Int, serum_match(m, i, lots)
  PROVE  SpotInv'
<1> DEFINE o == spot_open_orders[m]
           order == o.slots[i]
           n == TakenFrom(order, lots)
           r == [o EXCEPT !.slots[i] = n]
<1>1. o # None /\ i \in Used(o) BY DEF serum_match, OnBook
<1>2. in_margin_basket[m] BY <1>1, UsedInBasket
<1>3. o \in OpenOrders BY <1>1, StartBut
<1>4. order \in Orders BY <1>1, <1>3 DEF OpenOrders, Used
<1>5. UNCHANGED <<ma, bank, in_margin_basket, num_in_margin_basket, group>> BY DEF serum_match
<1>6. spot_open_orders' = [spot_open_orders EXCEPT ![m].slots[i] = n]
  BY DEF serum_match
<1>7. spot_open_orders' = [spot_open_orders EXCEPT ![m] = r]
  <2> HIDE DEF n
  <2> QED BY <1>6
<1>8. n \in Orders
  <2> DEFINE x == order.open - lots
             y == order.filled + lots
  <2>1. x \in Int /\ y \in Int BY <1>4 DEF Orders
  <2>2. n = [order EXCEPT !.open = x, !.filled = y] BY DEF TakenFrom
  <2> HIDE DEF x, y, order, n
  <2> QED BY <1>4, <2>1, <2>2 DEF Orders
<1> HIDE DEF n
<1>9. r \in OpenOrders BY <1>3, <1>8, PutSlot
<1> HIDE DEF r
<1> QED BY <1>2, <1>5, <1>7, <1>9, OpenOrdersStep

(* An order after its fills were applied. *)
LEMMA FilledOrder ==
  ASSUME NEW u \in Orders, NEW k \in Int, NEW b \in BOOLEAN
  PROVE  [u EXCEPT !.filled = k, !.took = b] \in Orders
BY DEF Orders

(* So does the crank applying fills, whatever the rebate. *)
LEMMA FillInv ==
  ASSUME SpotInv, NEW m \in Markets, NEW i \in Slot, NEW rebate \in Int,
         serum_fill_event(m, i, rebate)
  PROVE  SpotInv'
<1> DEFINE o == spot_open_orders[m]
           order == o.slots[i]
           quote == order.filled * order.price
           rr == o.referrer_rebates + (IF order.took THEN rebate ELSE 0)
           n == [order EXCEPT !.filled = 0, !.took = FALSE]
           f == [o.slots EXCEPT ![i] = n]
           base == [o EXCEPT !.slots = f, !.referrer_rebates = rr]
           r == IF order.side = "bid"
                THEN [base EXCEPT !.coin_free = @ + order.filled, !.coin_total = @ + order.filled,
                                  !.pc_total = @ - quote]
                ELSE [base EXCEPT !.pc_free = @ + quote, !.pc_total = @ + quote,
                                  !.coin_total = @ - order.filled]
<1>1. o # None /\ i \in Used(o) BY DEF serum_fill_event
<1>2. in_margin_basket[m] BY <1>1, UsedInBasket
<1>3. o \in OpenOrders BY <1>1, StartBut
<1>4. order \in Orders BY <1>1, <1>3 DEF OpenOrders, Used
<1>5. UNCHANGED <<ma, bank, in_margin_basket, num_in_margin_basket, group>> BY DEF serum_fill_event
<1> DEFINE b == [o EXCEPT !.slots[i].filled = 0, !.slots[i].took = FALSE,
                          !.referrer_rebates = @ + (IF order.took THEN rebate ELSE 0)]
<1>6. base = b BY <1>3, <1>4 DEF OpenOrders, Orders
<1>6a. spot_open_orders' = [spot_open_orders EXCEPT ![m] =
         IF order.side = "bid"
         THEN [b EXCEPT !.coin_free = @ + order.filled, !.coin_total = @ + order.filled,
                        !.pc_total = @ - quote]
         ELSE [b EXCEPT !.pc_free = @ + quote, !.pc_total = @ + quote,
                        !.coin_total = @ - order.filled]]
  BY DEF serum_fill_event
<1> HIDE DEF b
<1>7. spot_open_orders' = [spot_open_orders EXCEPT ![m] = r]
  <2> HIDE DEF base
  <2> QED BY <1>6, <1>6a
<1>8. order.filled \in Int /\ quote \in Int /\ rr \in Int
  <2>1. order.filled \in Int /\ order.price \in Int BY <1>4 DEF Orders
  <2>2. o.referrer_rebates \in Int BY <1>3, FundsInt
  <2> QED BY <2>1, <2>2
<1>9. n \in Orders
  <2> HIDE DEF order
  <2>1. 0 \in Int /\ FALSE \in BOOLEAN OBVIOUS
  <2> QED BY <1>4, <2>1, FilledOrder, Zenon
<1> HIDE DEF n, quote, rr, o
<1>10. f \in [Slot -> Orders \cup {None}] BY <1>3, <1>9 DEF OpenOrders
<1> HIDE DEF f, order
<1>11. base \in OpenOrders BY <1>3, <1>8, <1>10 DEF OpenOrders
<1> HIDE DEF base
<1> DEFINE k == order.filled
           cf == base.coin_free + k
           ct == base.coin_total + k
           pt == base.pc_total - quote
           pf2 == base.pc_free + quote
           pt2 == base.pc_total + quote
           ct2 == base.coin_total - k
<1>12. /\ cf \in Int /\ ct \in Int /\ pt \in Int /\ pf2 \in Int /\ pt2 \in Int /\ ct2 \in Int
  BY <1>8, <1>11, FundsInt
<1>13. r = IF order.side = "bid"
           THEN [base EXCEPT !.coin_free = cf, !.coin_total = ct, !.pc_total = pt]
           ELSE [base EXCEPT !.pc_free = pf2, !.pc_total = pt2, !.coin_total = ct2]
  OBVIOUS
<1> HIDE DEF r, cf, ct, pt, pf2, pt2, ct2
<1>14. [base EXCEPT !.coin_free = cf, !.coin_total = ct, !.pc_total = pt] \in OpenOrders
  BY <1>11, <1>12 DEF OpenOrders
<1>15. [base EXCEPT !.pc_free = pf2, !.pc_total = pt2, !.coin_total = ct2] \in OpenOrders
  BY <1>11, <1>12 DEF OpenOrders
<1>16. r \in OpenOrders BY <1>13, <1>14, <1>15
<1> QED BY <1>2, <1>5, <1>7, <1>16, OpenOrdersStep

(* So does the crank releasing a slot, although the OpenOrders may be      *)
(* empty now and the market stays in the basket until somebody updates     *)
(* it.                                                                     *)
LEMMA OutInv ==
  ASSUME SpotInv, NEW m \in Markets, NEW i \in Slot, serum_out_event(m, i) PROVE SpotInv'
<1> DEFINE o == spot_open_orders[m]
           r == [o EXCEPT !.slots[i] = None]
<1>1. o # None /\ i \in Used(o) BY DEF serum_out_event, CanRelease
<1>2. in_margin_basket[m] BY <1>1, UsedInBasket
<1>3. o \in OpenOrders BY <1>1, StartBut
<1>4. /\ spot_open_orders' = [spot_open_orders EXCEPT ![m] = r]
      /\ UNCHANGED <<ma, bank, in_margin_basket, num_in_margin_basket, group>>
  BY DEF serum_out_event
<1>5. r \in OpenOrders
  <2> HIDE DEF o
  <2> QED BY <1>3, PutSlot
<1> HIDE DEF r
<1> QED BY <1>2, <1>4, <1>5, OpenOrdersStep

(* close_spot_open_orders keeps the invariant: it takes the market out of  *)
(* the basket before the OpenOrders account is gone.                       *)
LEMMA CloseInv ==
  ASSUME SpotInv, NEW m \in Markets, close_spot_open_orders(m) PROVE SpotInv'
<1> DEFINE w == IF in_margin_basket[m] THEN update_basket(Work, m) ELSE Work
           x == [w EXCEPT !.oo[m] = None]
<1>1. /\ spot_open_orders[m] # None /\ ~w.basket[m] /\ Commit(x) /\ group' = group
  BY DEF close_spot_open_orders, Usable
<1>2. SoundBut(Work, m) /\ Level(Work) BY <1>1, StartBut
<1>3. /\ IsWork(w) /\ Typed(w) /\ w.bank = Work.bank
      /\ \A n \in Markets : Counted(w, n)
      /\ w.ok => BasketOk(w)
  <2>1. CASE in_margin_basket[m]
    <3>1. w = update_basket(Work, m) BY <2>1
    <3> QED BY <1>2, <3>1, UpdatedSound
  <2>2. CASE ~in_margin_basket[m]
    <3>1. w = Work BY <2>2
    <3>2. Sound(Work) BY DEF SpotInv
    <3> QED BY <3>1, <3>2 DEF Sound
  <2> QED BY <2>1, <2>2
<1> HIDE DEF w
<1> DEFINE f == [w.oo EXCEPT ![m] = None]
<1>4. {"ma", "bank", "cache", "ok", "oo", "basket", "num"} \subseteq DOMAIN w
  BY <1>3 DEF IsWork, Books, Shape
<1>5. /\ f \in [Markets -> OpenOrders \cup {None}] /\ f[m] = None
      /\ \A n \in Markets \ {m} : f[n] = w.oo[n]
  BY <1>3 DEF Typed
<1>6. x = [w EXCEPT !.oo = f] OBVIOUS
<1> HIDE DEF f, x
<1>7. /\ DOMAIN x = DOMAIN w /\ x.ma = w.ma /\ x.bank = w.bank /\ x.cache = w.cache
      /\ x.oo = f /\ x.basket = w.basket /\ x.num = w.num /\ x.ok = w.ok
  BY <1>4, <1>6
<1>8. IsWork(x) BY <1>3, <1>7 DEF IsWork, Books, Shape, Totals
<1>9. Typed(x) BY <1>5, <1>7 DEF Typed
<1>10. Level(x)
  <2>1. x.bank = Work.bank BY <1>3, <1>7
  <2> QED BY <1>2, <2>1, SameBankLevel
<1>11. \A n \in Markets : Counted(x, n) BY <1>3, <1>5, <1>7 DEF Counted
<1>12. x.ok => BasketOk(x) BY <1>1, <1>3, <1>5, <1>7 DEF BasketOk
<1>13. x.ok => Sound(x) BY <1>8, <1>9, <1>10, <1>11, <1>12 DEF Sound
<1>14. Sound(Work)' BY <1>1, <1>13, CommitSound
<1> QED BY <1>1, <1>14 DEF SpotInv

(* Steps of administration and oracles. *)
LEMMA AccountSame ==
  ASSUME SpotInv, UNCHANGED account, DOMAIN group' = Markets,
         \A m \in Markets : group'[m].serum \in Nat
  PROVE  SpotInv'
<1>1. Work' = Work BY WorkDesktop DEF account
<1>2. Sound(Work)' BY <1>1 DEF SpotInv
<1> QED BY <1>2 DEF SpotInv

(* Modes, swaps, prices and the end of a liquidation keep the invariant. *)
LEMMA AdminInv ==
  ASSUME SpotInv, NEW m \in Markets, NEW mode, NEW p,
         \/ set_market_mode(m, mode) \/ swap_spot_market(m)
         \/ cache_prices(m, p) \/ force_cancel_recovered(m)
  PROVE  SpotInv'
<1>1. CASE set_market_mode(m, mode)
  <2>1. UNCHANGED account /\ group' = [group EXCEPT ![m].mode = mode] BY <1>1 DEF set_market_mode
  <2>2. DOMAIN group' = Markets /\ \A n \in Markets : group'[n].serum \in Nat BY <2>1 DEF SpotInv
  <2> QED BY <2>1, <2>2, AccountSame
<1>2. CASE swap_spot_market(m)
  <2>1. UNCHANGED account /\ group' = [group EXCEPT ![m] = [mode |-> "Active", serum |-> 1]]
    BY <1>2 DEF swap_spot_market
  <2>2. DOMAIN group' = Markets /\ \A n \in Markets : group'[n].serum \in Nat BY <2>1 DEF SpotInv
  <2> QED BY <2>1, <2>2, AccountSame
<1>3. CASE cache_prices(m, p) \/ force_cancel_recovered(m)
  <2>1. UNCHANGED account /\ group' = group BY <1>3 DEF cache_prices, force_cancel_recovered
  <2>2. DOMAIN group' = Markets /\ \A n \in Markets : group'[n].serum \in Nat BY <2>1 DEF SpotInv
  <2> QED BY <2>1, <2>2, AccountSame
<1> QED BY <1>1, <1>2, <1>3

(* A sum over the two users. *)
LEMMA PairSum ==
  ASSUME NEW f, f[trader] \in Int, f[lender] \in Int
  PROVE  SumFunctionOnSet(f, Users) = f[trader] + f[lender]
<1>1. IsFiniteSet(Users) /\ \A x \in Users : f[x] \in Int BY UsersFinite DEF Users
<1>2. trader \in Users BY DEF Users
<1>3. SumFunctionOnSet(f, Users) = f[trader] + SumFunctionOnSet(f, Users \ {trader})
  BY <1>1, <1>2, SumRemove
<1>4. Users \ {trader} = {lender} BY SpotAssumption DEF Users
<1>5. IsFiniteSet({lender}) /\ lender \in {lender} /\ \A x \in {lender} \ {lender} : f[x] = 0
  BY FS_Singleton
<1>6. SumFunctionOnSet(f, {lender}) = f[lender] BY <1>5, SumSingle
<1> QED BY <1>3, <1>4, <1>6

(* What an account starts with. *)
StartDeposit(x) == IF x > 0 THEN x * One ELSE 0

(* A balance at the start is a deposit or a borrow. *)
LEMMA StartDepositInt ==
  ASSUME NEW x \in Int
  PROVE  /\ StartDeposit(x) \in Int /\ x * One \in Int
         /\ StartDeposit(x) - StartDeposit(-x) = x * One
<1>1. One \in Int BY RateAssumption
<1>2. -x \in Int /\ x * One \in Int /\ (-x) * One \in Int BY <1>1
<1>3. (-x) * One = -(x * One) BY <1>1
<1>4. x = 0 => x * One = 0 BY <1>1
<1> QED BY <1>2, <1>3, <1>4 DEF StartDeposit

(* The invariant holds at the start. *)
LEMMA InitInv == Init => SpotInv
<1> SUFFICES ASSUME Init PROVE SpotInv OBVIOUS
<1> DEFINE net(a) == IF a = trader THEN InitNet ELSE Lent
<1>1. ma = [a \in Users |-> [deposits |-> [t \in Tokens |-> StartDeposit(net(a)[t])],
                             borrows |-> [t \in Tokens |-> StartDeposit(-net(a)[t])]]]
  BY DEF Init, StartDeposit, Users
<1>2. bank = [t \in Tokens |-> [deposits |-> StartDeposit(InitNet[t]) + StartDeposit(Lent[t]),
                                borrows |-> StartDeposit(-InitNet[t]),
                                vault |-> InitNet[t] + Lent[t]]]
  BY DEF Init, StartDeposit
<1>3. /\ spot_open_orders = [m \in Markets |-> None]
      /\ in_margin_basket = [m \in Markets |-> FALSE]
      /\ num_in_margin_basket = 0
      /\ DOMAIN group = Markets /\ \A m \in Markets : group[m].serum \in Nat
  BY DEF Init
<1>4. /\ Work.ma = ma /\ Work.bank = bank /\ Work.oo = spot_open_orders
      /\ Work.basket = in_margin_basket /\ Work.num = num_in_margin_basket
      /\ DOMAIN Work = {"ma", "bank", "oo", "basket", "num", "ok", "cache"}
  BY WorkFields
<1>5. \A t \in Tokens : InitNet[t] \in Int /\ Lent[t] \in Nat BY SpotAssumption
<1>6. \A x \in Int : StartDeposit(x) \in Int BY StartDepositInt
<1>7. \A a \in Users : \A t \in Tokens : net(a)[t] \in Int BY <1>5
<1>8. \A a \in Users : IsAccount(ma[a], Tokens)
  <2> SUFFICES ASSUME NEW a \in Users PROVE IsAccount(ma[a], Tokens) OBVIOUS
  <2>1. \A t \in Tokens : StartDeposit(net(a)[t]) \in Int /\ StartDeposit(-net(a)[t]) \in Int
    BY <1>6, <1>7
  <2>2. ma[a] = [deposits |-> [t \in Tokens |-> StartDeposit(net(a)[t])],
                 borrows |-> [t \in Tokens |-> StartDeposit(-net(a)[t])]]
    BY <1>1
  <2> HIDE DEF net
  <2> QED BY <2>1, <2>2 DEF IsAccount
<1>9. \A t \in Tokens : IsBank(bank[t])
  <2> SUFFICES ASSUME NEW t \in Tokens PROVE IsBank(bank[t]) OBVIOUS
  <2>1. /\ StartDeposit(InitNet[t]) \in Int /\ StartDeposit(Lent[t]) \in Int
        /\ StartDeposit(-InitNet[t]) \in Int
    BY <1>5, <1>6
  <2> QED BY <1>2, <1>5, <2>1 DEF IsBank
<1>10. \A t \in Tokens : /\ Work.cache.bank[t].deposit_index = One
                          /\ Work.cache.bank[t].borrow_index = One
  BY DEF Work
<1>11. \A t \in Tokens : IsIndex(Work.cache.bank[t]) BY <1>10, RateAssumption DEF IsIndex
<1>12. Shape(Work, Users, Tokens) BY <1>1, <1>2, <1>4, <1>8, <1>9, <1>11 DEF Shape
<1>13. Totals(Work, Users, Tokens)
  <2> SUFFICES ASSUME NEW t \in Tokens
               PROVE  /\ bank[t].deposits = SumFunctionOnSet([a \in Users |-> ma[a].deposits[t]], Users)
                      /\ bank[t].borrows = SumFunctionOnSet([a \in Users |-> ma[a].borrows[t]], Users)
    BY <1>4 DEF Totals
  <2> DEFINE f == [a \in Users |-> ma[a].deposits[t]]
             g == [a \in Users |-> ma[a].borrows[t]]
  <2>1. trader \in Users /\ lender \in Users /\ lender # trader BY SpotAssumption DEF Users
  <2>2. f[trader] = StartDeposit(InitNet[t]) /\ f[lender] = StartDeposit(Lent[t]) BY <1>1, <2>1
  <2>3. g[trader] = StartDeposit(-InitNet[t]) /\ g[lender] = StartDeposit(-Lent[t]) BY <1>1, <2>1
  <2>4. StartDeposit(-Lent[t]) = 0 BY <1>5 DEF StartDeposit
  <2>5. /\ f[trader] \in Int /\ f[lender] \in Int /\ g[trader] \in Int /\ g[lender] \in Int
    BY <1>5, <1>6, <2>2, <2>3
  <2>6. /\ bank[t].deposits = StartDeposit(InitNet[t]) + StartDeposit(Lent[t])
        /\ bank[t].borrows = StartDeposit(-InitNet[t])
    BY <1>2
  <2> HIDE DEF f, g
  <2>7. /\ SumFunctionOnSet(f, Users) = f[trader] + f[lender]
        /\ SumFunctionOnSet(g, Users) = g[trader] + g[lender]
    BY <2>5, PairSum
  <2>8. bank[t].deposits = SumFunctionOnSet(f, Users) /\ bank[t].borrows = SumFunctionOnSet(g, Users)
    BY <2>2, <2>3, <2>4, <2>5, <2>6, <2>7
  <2> QED BY <2>8 DEF f, g
<1>14. IsWork(Work) BY <1>4, <1>10, <1>12, <1>13 DEF IsWork, Books, Unit
<1>15. Typed(Work) BY <1>3, <1>4 DEF Typed
<1>16. BasketOk(Work)
  <2>1. {m \in Markets : Work.basket[m]} = {} BY <1>3, <1>4
  <2>2. Cardinality({m \in Markets : Work.basket[m]}) = 0 BY <2>1, FS_EmptySet
  <2>3. Work.basket \in [Markets -> BOOLEAN] /\ \A m \in Markets : ~Work.basket[m] BY <1>3, <1>4
  <2>4. 0 <= MaxBasket BY SpotAssumption
  <2> QED BY <1>3, <1>4, <2>2, <2>3, <2>4 DEF BasketOk
<1>17. \A m \in Markets : Counted(Work, m) BY <1>3, <1>4 DEF Counted
<1>18. Level(Work)
  <2> SUFFICES ASSUME NEW t \in Tokens PROVE Gap(Work, t) = 0 BY DEF Level
  <2> DEFINE x == InitNet[t]
             y == Lent[t]
  <2>1. x \in Int /\ y \in Int /\ y >= 0 /\ One \in Int BY <1>5, RateAssumption
  <2>2. Gap(Work, t) = (x + y) * One - ((StartDeposit(x) + StartDeposit(y)) - StartDeposit(-x))
    BY <1>2, <1>4 DEF Gap
  <2> HIDE DEF x, y
  <2>3. StartDeposit(-y) = 0 BY <2>1 DEF StartDeposit
  <2>4. /\ StartDeposit(x) \in Int /\ StartDeposit(y) \in Int /\ x * One \in Int /\ y * One \in Int
        /\ StartDeposit(x) - StartDeposit(-x) = x * One
        /\ StartDeposit(y) - StartDeposit(-y) = y * One
    BY <2>1, StartDepositInt
  <2>5. (x + y) * One = x * One + y * One BY <2>1
  <2>6. StartDeposit(-x) \in Int BY <1>6, <2>1
  <2> QED BY <2>2, <2>3, <2>4, <2>5, <2>6
<1>19. Sound(Work) BY <1>14, <1>15, <1>16, <1>17, <1>18 DEF Sound
<1> QED BY <1>3, <1>19 DEF SpotInv

(* Every step of the program and of Serum keeps the invariant. *)
LEMMA NextInv == ASSUME SpotInv, [Next]_vars PROVE SpotInv'
<1>1. CASE UNCHANGED vars
  <2>1. UNCHANGED account /\ group' = group BY <1>1 DEF vars
  <2>2. DOMAIN group' = Markets /\ \A n \in Markets : group'[n].serum \in Nat BY <2>1 DEF SpotInv
  <2> QED BY <2>1, <2>2, AccountSame
<1>2. CASE update_margin_basket BY <1>2, UpdateMarginBasketInv
<1>3. ASSUME NEW m \in Markets, init_spot_open_orders(m) \/ create_spot_open_orders(m) PROVE SpotInv'
  BY <1>3, InitOpenOrdersInv DEF create_spot_open_orders
<1>4. ASSUME NEW m \in Markets, close_spot_open_orders(m) PROVE SpotInv' BY <1>4, CloseInv
<1>5. ASSUME NEW m \in Markets, NEW side \in {"bid", "ask"}, NEW p \in Prices,
             NEW qty \in Quantities, NEW ioc \in BOOLEAN, NEW taken \in 0..qty,
             place_spot_order(m, side, p, qty, taken, ioc)
      PROVE  SpotInv'
  BY <1>5, PlaceInv
<1>6. ASSUME NEW m \in Markets, settle_funds(m) PROVE SpotInv' BY <1>6, SettleFundsInv
<1>7. ASSUME NEW m \in Markets, NEW limit \in CancelLimits,
             cancel_all_spot_orders(m, limit) \/ force_cancel_spot_orders(m, limit)
      PROVE  SpotInv'
  BY <1>7, CancelAllInv
<1>8. ASSUME NEW m \in Markets, NEW i \in Slot, cancel_spot_order(m, i) PROVE SpotInv'
  BY <1>8, CancelInv
<1>9. ASSUME NEW m \in Markets, NEW i \in Slot, NEW lots \in 1 .. Max(Quantities), serum_match(m, i, lots)
      PROVE  SpotInv'
  <2>1. lots \in Int OBVIOUS
  <2> QED BY <1>9, <2>1, MatchInv
<1>10. ASSUME NEW m \in Markets, NEW i \in Slot, NEW rebate \in Rebates, serum_fill_event(m, i, rebate)
       PROVE  SpotInv'
  <2>1. rebate \in Int BY SpotAssumption
  <2> QED BY <1>10, <2>1, FillInv
<1>11. ASSUME NEW m \in Markets, NEW i \in Slot, serum_out_event(m, i) PROVE SpotInv'
  BY <1>11, OutInv
<1>12. ASSUME NEW m \in Markets, NEW mode, NEW p,
              \/ set_market_mode(m, mode) \/ swap_spot_market(m)
              \/ cache_prices(m, p) \/ force_cancel_recovered(m)
       PROVE  SpotInv'
  BY <1>12, AdminInv
<1> QED
  BY <1>1, <1>2, <1>3, <1>4, <1>5, <1>6, <1>7, <1>8, <1>9, <1>10, <1>11, <1>12 DEF Next

(* The accounts, banks, vaults, OpenOrders and the basket are in order in  *)
(* every reachable state: every bank's totals are the sums over the        *)
(* accounts, no vault has a gap, and every market whose OpenOrders hold    *)
(* anything is in the basket.                                              *)
THEOREM SpotInvariant == Spec => []SpotInv
<1>1. Init => SpotInv BY InitInv
<1>2. SpotInv /\ [Next]_vars => SpotInv' BY NextInv
<1> QED BY <1>1, <1>2, PTL DEF Spec

(* The margin basket counts its flags, respects its limit and misses no    *)
(* OpenOrders account with funds, rebates or slots in use (BasketExact;    *)
(* add_to_basket and update_basket), for any number of markets.            *)
THEOREM SpotBasketTheorem == Spec => []BasketExact
<1>1. SpotInv => BasketExact
  <2> SUFFICES ASSUME SpotInv PROVE BasketExact OBVIOUS
  <2>1. BasketOk(Work) /\ \A m \in Markets : Counted(Work, m) BY DEF SpotInv, Sound
  <2> QED BY <2>1, WorkFields DEF BasketOk, Counted, BasketExact, InBasket
<1> QED BY <1>1, SpotInvariant, PTL

(* The vaults hold what the accounts are owed less what they owe           *)
(* (VaultsBalance), for any prices, quantities, fills and rebates:         *)
(* place_spot_order and settle_funds book exactly what went through        *)
(* Serum.                                                                  *)
THEOREM SpotVaultsTheorem == Spec => []VaultsBalance
<1>1. SpotInv => VaultsBalance
  <2> SUFFICES ASSUME SpotInv, NEW t \in Tokens
               PROVE  /\ bank[t].vault * One = bank[t].deposits - bank[t].borrows
                      /\ bank[t].deposits = ma[trader].deposits[t] + ma[lender].deposits[t]
                      /\ bank[t].borrows = ma[trader].borrows[t] + ma[lender].borrows[t]
    BY DEF VaultsBalance
  <2>1. Work.ma = ma /\ Work.bank = bank BY WorkFields
  <2>2. IsWork(Work) /\ Gap(Work, t) = 0 BY DEF SpotInv, Sound, Level
  <2>3. Gap(Work, t) = bank[t].vault * One - (bank[t].deposits - bank[t].borrows) BY <2>1 DEF Gap
  <2>4. /\ bank[t].vault * One \in Int /\ bank[t].deposits \in Int /\ bank[t].borrows \in Int
    <3>1. bank[t].vault \in Int /\ bank[t].deposits \in Int /\ bank[t].borrows \in Int /\ One \in Int
      BY <2>1, <2>2, GapInt
    <3> QED BY <3>1
  <2>5. bank[t].vault * One = bank[t].deposits - bank[t].borrows
    <3> DEFINE k == bank[t].vault * One
    <3>1. k \in Int /\ k - (bank[t].deposits - bank[t].borrows) = 0 BY <2>2, <2>3, <2>4
    <3> HIDE DEF k
    <3>2. k = bank[t].deposits - bank[t].borrows BY <2>4, <3>1
    <3> QED BY <3>2 DEF k
  <2> DEFINE f == [a \in Users |-> ma[a].deposits[t]]
             g == [a \in Users |-> ma[a].borrows[t]]
  <2>6. Shape(Work, Users, Tokens) /\ Totals(Work, Users, Tokens) BY <2>2 DEF IsWork, Books
  <2>7. bank[t].deposits = SumFunctionOnSet(f, Users) /\ bank[t].borrows = SumFunctionOnSet(g, Users)
    BY <2>1, <2>6 DEF Totals
  <2>8. trader \in Users /\ lender \in Users BY DEF Users
  <2>9. /\ f[trader] = ma[trader].deposits[t] /\ f[lender] = ma[lender].deposits[t]
        /\ g[trader] = ma[trader].borrows[t] /\ g[lender] = ma[lender].borrows[t]
    BY <2>8
  <2>10. /\ f[trader] \in Int /\ f[lender] \in Int /\ g[trader] \in Int /\ g[lender] \in Int
    BY <2>1, <2>6, <2>8, <2>9 DEF Shape, IsAccount
  <2> HIDE DEF f, g
  <2>11. /\ SumFunctionOnSet(f, Users) = f[trader] + f[lender]
         /\ SumFunctionOnSet(g, Users) = g[trader] + g[lender]
    BY <2>10, PairSum
  <2> QED BY <2>5, <2>7, <2>9, <2>11
<1> QED BY <1>1, SpotInvariant, PTL
=============================================================================
