------------------------ MODULE PerpMarketProofs ------------------------
(***************************************************************************)
(* Proofs about PerpMarket and AdvancedOrders, for any number of accounts, *)
(* markets and order slots, any capacity, fees and inputs.  The inductive  *)
(* invariant Inv says of every market that its book, its event queue, the  *)
(* order slots and the perp accounts agree:                                *)
(*                                                                         *)
(*   - a resting order is the one its owner's slot describes, and a slot   *)
(*     is held for one resting order or one queued event (Desk);           *)
(*   - bids_quantity and asks_quantity count the lots that rest and those  *)
(*     of queued events (Counts);                                          *)
(*   - taker_base and taker_quote are what the queued fills say (Pending); *)
(*   - base positions, open interest and quote add up over the accounts    *)
(*     (State).                                                            *)
(*                                                                         *)
(* State is written for the working copy of an instruction, so that one    *)
(* lemma per step of a loop (an event consumed, an order cancelled, an     *)
(* order matched) carries it from the start of an instruction to its end.  *)
(***************************************************************************)
EXTENDS AdvancedOrders, Sums, SequenceTheorems

-----------------------------------------------------------------------------
(***************************************************************************)
(* Numbers, and folds over sequences. FoldLeft is defined by a function on *)
(* the subsets of the positions; RunStep names the steps the model folds,  *)
(* so that one lemma serves them all.                                      *)
(***************************************************************************)

(* Min of three numbers is one of them and no larger than any.             *)
LEMMA MinThree ==
  ASSUME NEW x \in Int, NEW y \in Int, NEW z \in Int
  PROVE  /\ Min({x, y, z}) \in {x, y, z}
         /\ Min({x, y, z}) <= x /\ Min({x, y, z}) <= y /\ Min({x, y, z}) <= z
<1>1. \E v \in {x, y, z} : \A u \in {x, y, z} : v <= u OBVIOUS
<1> QED BY <1>1 DEF Min

-----------------------------------------------------------------------------
RunStep(p, y, x) ==
  CASE p.op = "match" -> MatchOne(y, x, p.side, p.type, p.price, p.taker, p.now)
    [] p.op = "sim" -> SimOne(y, x, p.side, p.type, p.price)
    [] p.op = "walk" -> WalkOne(y, p.side, p.book, p.keys, p.max_depth, p.now)
    [] p.op = "events" -> Process(y, p.market, x)
    [] p.op = "frees" -> FreedNext(y, x)
    [] p.op = "slots" -> CancelOne(y, p.owner, slots[p.owner][x].side, slots[p.owner][x])
    [] p.op = "best" -> IF Valid(y.book[slots[p.owner][x].side], now) = {} THEN [y EXCEPT !.ok = FALSE]
                        ELSE CancelOne(y, p.owner, slots[p.owner][x].side, slots[p.owner][x])
    [] OTHER -> CancelOne(y, p.owner, x.side, x)

RunEq(g, p, base, seq) ==
  g = [s \in SUBSET DOMAIN seq |->
         IF s = {} THEN base ELSE RunStep(p, g[s \ {Max(s)}], seq[Max(s)])]

IsRun(g, p, base, seq, D) ==
  \A s \in D : g[s] = IF s = {} THEN base ELSE RunStep(p, g[s \ {Max(s)}], seq[Max(s)])

Run(p, base, seq) == (CHOOSE g : RunEq(g, p, base, seq))[DOMAIN seq]

(* The function a left fold is made of exists, for each kind of step of    *)
(* RunStep.                                                                *)
LEMMA RunExists ==
  ASSUME NEW n \in Nat, NEW seq, DOMAIN seq = 1..n, NEW p, NEW base
  PROVE  \E g : RunEq(g, p, base, seq)
<1> DEFINE S == 1..n
           Q == {k \in Nat : \E g : DOMAIN g = Small(S, k) /\ IsRun(g, p, base, seq, Small(S, k))}
<1>0. IsFiniteSet(S) /\ S \subseteq Int
  <2> 1 \in Int /\ n \in Int OBVIOUS
  <2> QED BY FS_Interval
<1>1. \A s \in SUBSET S :
        IsFiniteSet(s) /\ Cardinality(s) \in Nat /\ Cardinality(s) <= Cardinality(S)
  BY <1>0, FS_Subset, FS_CardinalityType
<1>a. ASSUME NEW s \in SUBSET S, s # {} PROVE Max(s) \in s
  <2> s \subseteq Int BY <1>0
  <2> IsFiniteSet(s) BY <1>1
  <2> QED BY <1>a, MaxMin
<1>0a. Cardinality(S) \in Nat BY <1>0, FS_CardinalityType
<1>0b. DOMAIN seq = S OBVIOUS
<1> HIDE DEF S
<1>2. 0 \in Q
  <2> DEFINE g == [s \in Small(S, 0) |-> base]
  <2>1. \A s \in Small(S, 0) : s = {}
    BY <1>1, FS_EmptySet DEF Small
  <2>2. IsRun(g, p, base, seq, Small(S, 0)) BY <2>1 DEF IsRun
  <2> QED BY <2>2
<1>3. ASSUME NEW k \in Nat, k \in Q PROVE k + 1 \in Q
  <2>1. PICK g : DOMAIN g = Small(S, k) /\ IsRun(g, p, base, seq, Small(S, k))
    BY <1>3
  <2> DEFINE D == Small(S, k + 1)
             h == [s \in D |-> IF s = {} THEN base ELSE RunStep(p, g[s \ {Max(s)}], seq[Max(s)])]
  <2>2. ASSUME NEW s \in D, s # {} PROVE s \ {Max(s)} \in Small(S, k) /\ s \ {Max(s)} \in D
    <3>1. IsFiniteSet(s) /\ Cardinality(s) <= k + 1 BY <1>1 DEF Small
    <3>2. Max(s) \in s BY <2>2, <1>a DEF Small
    <3>3. Cardinality(s \ {Max(s)}) = Cardinality(s) - 1
       BY <3>1, <3>2, FS_RemoveElement
    <3> QED BY <3>1, <3>3, <1>1 DEF Small
  <2>3. ASSUME NEW s \in Small(S, k) PROVE h[s] = g[s]
    <3> s \in D BY <1>1 DEF Small
    <3> QED BY <2>1 DEF IsRun
  <2>4. ASSUME NEW s \in D
        PROVE  h[s] = IF s = {} THEN base ELSE RunStep(p, h[s \ {Max(s)}], seq[Max(s)])
    BY <2>2, <2>3
  <2>5. IsRun(h, p, base, seq, D) BY <2>4 DEF IsRun
  <2>6. DOMAIN h = D OBVIOUS
  <2> HIDE DEF h
  <2> QED BY <2>5, <2>6
<1>4. Cardinality(S) \in Q
  <2> HIDE DEF Q
  <2>1. \A k \in Nat : k \in Q BY <1>2, <1>3, NatSetInduction
  <2> QED BY <2>1, <1>0a
<1>5. Small(S, Cardinality(S)) = SUBSET S BY <1>1 DEF Small
<1>6. PICK g : DOMAIN g = SUBSET S /\ IsRun(g, p, base, seq, SUBSET S) BY <1>4, <1>5
<1> DEFINE h == [s \in SUBSET S |->
                   IF s = {} THEN base ELSE RunStep(p, g[s \ {Max(s)}], seq[Max(s)])]
<1>7. ASSUME NEW s \in SUBSET S PROVE h[s] = g[s] BY <1>6 DEF IsRun
<1>8. h = [s \in SUBSET S |-> IF s = {} THEN base ELSE RunStep(p, h[s \ {Max(s)}], seq[Max(s)])]
  <2>1. ASSUME NEW s \in SUBSET S PROVE s \ {Max(s)} \in SUBSET S OBVIOUS
  <2>2. ASSUME NEW s \in SUBSET S
        PROVE  h[s] = IF s = {} THEN base ELSE RunStep(p, h[s \ {Max(s)}], seq[Max(s)])
    BY <1>7, <2>1
  <2> QED BY <2>2
<1> HIDE DEF h
<1>9. RunEq(h, p, base, seq) BY <1>8, <1>0b DEF RunEq
<1> QED BY <1>9

(* So a fold over a sequence is the last of a chain of values. *)
LEMMA RunChain ==
  ASSUME NEW n \in Nat, NEW seq, DOMAIN seq = 1..n, NEW p, NEW base
  PROVE  \E r : /\ r[0] = base
                /\ \A i \in 1..n : r[i] = RunStep(p, r[i - 1], seq[i])
                /\ r[n] = Run(p, base, seq)
<1> DEFINE g == CHOOSE h : RunEq(h, p, base, seq)
           r == [i \in 0..n |-> g[1..i]]
<1>1. RunEq(g, p, base, seq) BY RunExists
<1>2. Run(p, base, seq) = g[1..n] BY DEF Run
<1> HIDE DEF g
<1>3. ASSUME NEW i \in 1..n PROVE r[i] = RunStep(p, r[i - 1], seq[i])
  <2>1. Max(1..i) = i
    <3> IsFiniteSet(1..i)
      <4> 1 \in Int /\ i \in Int OBVIOUS
      <4> QED BY FS_Interval
    <3> 1..i # {} /\ 1..i \subseteq Int OBVIOUS
    <3> Max(1..i) \in 1..i /\ \A y \in 1..i : Max(1..i) >= y BY MaxMin
    <3> i \in 1..i OBVIOUS
    <3> Max(1..i) >= i /\ Max(1..i) <= i OBVIOUS
    <3> QED OBVIOUS
  <2>2. (1..i) \ {i} = 1..(i - 1) OBVIOUS
  <2>3. 1..i # {} /\ 1..i \in SUBSET DOMAIN seq OBVIOUS
  <2>4. g[1..i] = RunStep(p, g[(1..i) \ {Max(1..i)}], seq[Max(1..i)]) BY <1>1, <2>3 DEF RunEq
  <2>5. g[1..i] = RunStep(p, g[1..(i - 1)], seq[i]) BY <2>1, <2>2, <2>4
  <2>6. i \in 0..n /\ i - 1 \in 0..n OBVIOUS
  <2> QED BY <2>5, <2>6
<1>4. r[0] = base
  <2> 1..0 = {} OBVIOUS
  <2> g[{}] = base BY <1>1 DEF RunEq
  <2> 0 \in 0..n OBVIOUS
  <2> QED OBVIOUS
<1>5. r[n] = Run(p, base, seq)
  <2> n \in 0..n OBVIOUS
  <2> QED BY <1>2
<1> HIDE DEF r
<1> QED BY <1>3, <1>4, <1>5

-----------------------------------------------------------------------------
(***************************************************************************)
(* Orders in the order of the book.                                        *)
(***************************************************************************)

(* Strict total orders on a set, as relations. *)
Ordered(S, R) ==
  /\ \A x, y \in S : x # y => <<x, y>> \in R \/ <<y, x>> \in R
  /\ \A x, y \in S : <<x, y>> \in R => <<y, x>> \notin R
  /\ \A x, y, z \in S : <<x, y>> \in R /\ <<y, z>> \in R => <<x, z>> \in R

(* A finite set has a last element. *)
LEMMA LastOf ==
  ASSUME NEW S, IsFiniteSet(S), S # {}, NEW R, Ordered(S, R)
  PROVE  \E x \in S : \A y \in S \ {x} : <<y, x>> \in R
<1> DEFINE Q == {T \in SUBSET S : T = {} \/ \E x \in T : \A y \in T \ {x} : <<y, x>> \in R}
<1>1. ASSUME NEW T \in SUBSET S, \A U \in SUBSET T : U # T => U \in Q
      PROVE  T \in Q
  <2>1. CASE T = {} BY <2>1
  <2>2. CASE T # {}
    <3>1. PICK z \in T : TRUE BY <2>2
    <3>2. T \ {z} \in Q BY <1>1, <3>1
    <3>3. CASE T \ {z} = {}
      <4> \A y \in T \ {z} : FALSE BY <3>3
      <4> QED BY <3>1
    <3>4. CASE T \ {z} # {}
      <4>1. PICK x \in T \ {z} : \A y \in (T \ {z}) \ {x} : <<y, x>> \in R BY <3>2, <3>4
      <4>2. x \in S /\ z \in S /\ x # z OBVIOUS
      <4>3. <<x, z>> \in R \/ <<z, x>> \in R BY <4>2 DEF Ordered
      <4>4. CASE <<z, x>> \in R
        <5> \A y \in T \ {x} : <<y, x>> \in R BY <4>1, <4>4
        <5> QED OBVIOUS
      <4>5. CASE <<x, z>> \in R
        <5>1. ASSUME NEW y \in T \ {z} PROVE <<y, z>> \in R
          <6>1. CASE y = x BY <4>5, <6>1
          <6>2. CASE y # x
            <7>1. <<y, x>> \in R BY <4>1, <6>2
            <7>2. y \in S OBVIOUS
            <7> QED BY <4>2, <4>5, <7>1, <7>2 DEF Ordered
          <6> QED BY <6>1, <6>2
        <5> QED BY <3>1, <5>1
      <4> QED BY <4>3, <4>4, <4>5
    <3> QED BY <3>3, <3>4
  <2> QED BY <2>1, <2>2
<1> HIDE DEF Q
<1>2. S \in Q BY <1>1, SubsetInduction
<1> QED BY <1>2 DEF Q

(* How many elements come before x. *)
Rank(S, R, x) == Cardinality({y \in S : <<y, x>> \in R})

(* Every rank is taken. *)
LEMMA Ranks ==
  ASSUME NEW S, IsFiniteSet(S), NEW R, Ordered(S, R), NEW i \in 1..Cardinality(S)
  PROVE  \E x \in S : Rank(S, R, x) = i - 1
<1> DEFINE Q == {T \in SUBSET S : \A j \in 1..Cardinality(T) :
                   \E x \in T : Cardinality({y \in T : <<y, x>> \in R}) = j - 1}
<1>1. ASSUME NEW T \in SUBSET S, \A U \in SUBSET T : U # T => U \in Q
      PROVE  T \in Q
  <2>0. IsFiniteSet(T) /\ Cardinality(T) \in Nat BY FS_Subset, FS_CardinalityType
  <2> SUFFICES ASSUME NEW j \in 1..Cardinality(T)
               PROVE  \E x \in T : Cardinality({y \in T : <<y, x>> \in R}) = j - 1
    OBVIOUS
  <2>1. T # {}
    <3> SUFFICES ASSUME T = {} PROVE FALSE OBVIOUS
    <3> Cardinality(T) = 0 BY FS_EmptySet
    <3> QED BY <2>0
  <2>2. Ordered(T, R) BY DEF Ordered
  <2>3. PICK z \in T : \A y \in T \ {z} : <<y, z>> \in R BY <2>0, <2>1, <2>2, LastOf
  <2> DEFINE U == T \ {z}
  <2>4. U \in Q /\ Cardinality(U) = Cardinality(T) - 1 /\ IsFiniteSet(U)
    BY <1>1, <2>0, FS_RemoveElement, ZenonT(60)
  <2>5. CASE j = Cardinality(T)
    <3>1. {y \in T : <<y, z>> \in R} = U BY <2>2, <2>3 DEF Ordered
    <3>2. Cardinality({y \in T : <<y, z>> \in R}) = j - 1 BY <3>1, <2>4, <2>5
    <3> QED BY <3>2
  <2>6. CASE j # Cardinality(T)
    <3>1. j \in 1..Cardinality(U) BY <2>0, <2>4, <2>6
    <3>2. PICK x \in U : Cardinality({y \in U : <<y, x>> \in R}) = j - 1 BY <2>4, <3>1
    <3>3. <<z, x>> \notin R BY <2>2, <2>3 DEF Ordered
    <3>4. {y \in T : <<y, x>> \in R} = {y \in U : <<y, x>> \in R} BY <3>3
    <3>5. Cardinality({y \in T : <<y, x>> \in R}) = j - 1 BY <3>2, <3>4
    <3> QED BY <3>5
  <2> QED BY <2>5, <2>6
<1>2. S \in Q
  <2> HIDE DEF Q
  <2> QED BY <1>1, SubsetInduction
<1> QED BY <1>2 DEF Rank

(* A set of orders or keys in which seq tells them apart. *)
Keyed(S) ==
  /\ IsFiniteSet(S)
  /\ \A o \in S : o.price \in Int /\ o.seq \in Int
  /\ \A o, p \in S : o.seq = p.seq => o = p

BookOrder(side, S) == {t \in S \X S : Before(side, t[1], t[2])}

(* Before is a strict total order on orders with different sequence        *)
(* numbers.                                                                *)
LEMMA BookOrdered ==
  ASSUME NEW S, Keyed(S), NEW side \in Sides
  PROVE  /\ Ordered(S, BookOrder(side, S))
         /\ \A x, y \in S : <<x, y>> \in BookOrder(side, S) <=> Before(side, x, y)
<1>1. \A x, y \in S : <<x, y>> \in BookOrder(side, S) <=> Before(side, x, y)
  BY DEF BookOrder
<1>2. \A x, y \in S : x # y => Before(side, x, y) \/ Before(side, y, x)
  BY DEF Keyed, Before
<1>3. \A x, y \in S : Before(side, x, y) => ~Before(side, y, x)
  BY DEF Keyed, Before
<1>4. \A x, y, z \in S : Before(side, x, y) /\ Before(side, y, z) => Before(side, x, z)
  BY DEF Keyed, Before
<1> HIDE DEF BookOrder
<1>5. Ordered(S, BookOrder(side, S)) BY <1>1, <1>2, <1>3, <1>4 DEF Ordered
<1> QED BY <1>1, <1>5

(* Sorted lists the orders of a set, each once. *)
LEMMA SortedProps ==
  ASSUME NEW S, Keyed(S), NEW side \in Sides
  PROVE  /\ Cardinality(S) \in Nat /\ DOMAIN Sorted(side, S) = 1..Cardinality(S)
         /\ \A i \in 1..Cardinality(S) : Sorted(side, S)[i] \in S
         /\ \A i, j \in 1..Cardinality(S) : Sorted(side, S)[i] = Sorted(side, S)[j] => i = j
<1> DEFINE n == Cardinality(S)
           R == BookOrder(side, S)
           Ahead(o) == Cardinality({p \in S : Before(side, p, o)})
<1>1. n \in Nat BY FS_CardinalityType DEF Keyed
<1>2. \A i \in 1..n : Sorted(side, S)[i] = CHOOSE o \in S : Ahead(o) = i - 1 BY DEF Sorted
<1>3. DOMAIN Sorted(side, S) = 1..n BY DEF Sorted
<1>4. ASSUME NEW i \in 1..n PROVE \E o \in S : Ahead(o) = i - 1
  <2>1. Ordered(S, R) /\ IsFiniteSet(S) BY BookOrdered DEF Keyed
  <2>2. PICK x \in S : Rank(S, R, x) = i - 1
    <3> HIDE DEF R
    <3> QED BY <2>1, Ranks
  <2>3. {y \in S : <<y, x>> \in R} = {y \in S : Before(side, y, x)} BY BookOrdered
  <2> QED BY <2>2, <2>3 DEF Rank
<1>5. ASSUME NEW i \in 1..n
      PROVE  Sorted(side, S)[i] \in S /\ Ahead(Sorted(side, S)[i]) = i - 1
  BY <1>2, <1>4
<1>6. ASSUME NEW i \in 1..n, NEW j \in 1..n, Sorted(side, S)[i] = Sorted(side, S)[j]
      PROVE  i = j
  <2>1. Ahead(Sorted(side, S)[i]) = i - 1 /\ Ahead(Sorted(side, S)[j]) = j - 1 BY <1>5
  <2>2. Ahead(Sorted(side, S)[i]) = Ahead(Sorted(side, S)[j]) BY <1>6
  <2> QED BY <2>1, <2>2
<1> QED BY <1>1, <1>3, <1>5, <1>6

(* The worst order and the first to expire are on the book. *)
LEMMA WorstIn ==
  ASSUME NEW S, Keyed(S), NEW side \in Sides, S # {}
  PROVE  Worst(side, S) \in S
<1>1. Ordered(S, BookOrder(side, S)) /\ IsFiniteSet(S) BY BookOrdered DEF Keyed
<1>2. PICK x \in S : \A y \in S \ {x} : <<y, x>> \in BookOrder(side, S) BY <1>1, LastOf
<1>3. \A y \in S \ {x} : Before(side, y, x) BY <1>2, BookOrdered
<1> QED BY <1>3 DEF Worst

Later(side, o, p) ==
  \/ o.expiry < p.expiry
  \/ /\ o.expiry = p.expiry
     /\ IF side = "bid" THEN Before(side, p, o) ELSE Before(side, o, p)

(* The order find_min_expiry would return is on the book.                  *)
LEMMA EarliestIn ==
  ASSUME NEW S, Keyed(S), NEW side \in Sides, S # {}, \A o \in S : o.expiry \in Int
  PROVE  EarliestExpiring(side, S) \in S
<1> DEFINE R == {t \in S \X S : Later(side, t[2], t[1])}
<1>1. \A x, y \in S : <<x, y>> \in R <=> Later(side, y, x) OBVIOUS
<1>2. \A x, y \in S : x # y => Later(side, x, y) \/ Later(side, y, x)
  BY DEF Keyed, Before, Later
<1>3. \A x, y \in S : Later(side, x, y) => ~Later(side, y, x)
  BY DEF Keyed, Before, Later
<1>4. \A x, y, z \in S : Later(side, x, y) /\ Later(side, y, z) => Later(side, x, z)
  BY DEF Keyed, Before, Later
<1> HIDE DEF R
<1>5. Ordered(S, R) BY <1>1, <1>2, <1>3, <1>4 DEF Ordered
<1>6. PICK x \in S : \A y \in S \ {x} : <<y, x>> \in R
  <2> IsFiniteSet(S) BY DEF Keyed
  <2> QED BY <1>5, LastOf
<1>7. \A y \in S \ {x} : Later(side, x, y) BY <1>1, <1>6
<1> QED BY <1>7 DEF EarliestExpiring, Later

(* remove_one_expired removes nothing or one order of the book.            *)
LEMMA ExpiredIn ==
  ASSUME NEW S, Keyed(S), NEW side \in Sides, \A o \in S : o.expiry \in Int, NEW t
  PROVE  \/ OneExpired(side, S, t) = {}
         \/ \E o \in S : OneExpired(side, S, t) = {o}
BY EarliestIn DEF OneExpired

NumberOrder(S) == {t \in S \X S : t[1] < t[2]}

(* Ascending lists the elements of a set of numbers. *)
LEMMA AscendingProps ==
  ASSUME NEW S, IsFiniteSet(S), S \subseteq Int
  PROVE  /\ Cardinality(S) \in Nat /\ DOMAIN Ascending(S) = 1..Cardinality(S)
         /\ \A i \in 1..Cardinality(S) : Ascending(S)[i] \in S
<1> DEFINE R == NumberOrder(S)
<1>1. \A x, y \in S : <<x, y>> \in R <=> x < y BY DEF NumberOrder
<1>2. ASSUME NEW i \in 1..Cardinality(S)
      PROVE  \E x \in S : Cardinality({y \in S : y < x}) = i - 1
  <2>1. Ordered(S, R)
    <3> HIDE DEF R
    <3>1. \A x, y \in S : x # y => x < y \/ y < x OBVIOUS
    <3>2. \A x, y \in S : x < y => ~(y < x) OBVIOUS
    <3>3. \A x, y, z \in S : x < y /\ y < z => x < z OBVIOUS
    <3> QED BY <1>1, <3>1, <3>2, <3>3 DEF Ordered
  <2>2. PICK x \in S : Rank(S, R, x) = i - 1
    <3> HIDE DEF R
    <3> QED BY <2>1, Ranks
  <2>3. Rank(S, R, x) = Cardinality({y \in S : y < x})
    <3>1. {y \in S : <<y, x>> \in R} = {y \in S : y < x} BY <1>1
    <3> QED BY <3>1 DEF Rank
  <2> QED BY <2>2, <2>3
<1>3. \A i \in 1..Cardinality(S) : Ascending(S)[i] \in S BY <1>2 DEF Ascending
<1>4. DOMAIN Ascending(S) = 1..Cardinality(S) BY DEF Ascending
<1> QED BY <1>3, <1>4, FS_CardinalityType

-----------------------------------------------------------------------------
(***************************************************************************)
(* Sets of orders and queues of events, and sums over them.                *)
(***************************************************************************)

Lots == Nat \ {0}

OrderSet ==
  [price : Lots, seq : Nat, owner : Accounts, slot : Slot, qty : Lots, expiry : Int]

OutSet == [type : {"out"}, side : Sides, owner : Accounts, slot : Slot, qty : Lots]

FillSet ==
  [type : {"fill"}, taker_side : Sides, maker : Accounts, maker_slot : Slot,
   maker_out : BOOLEAN, taker : Accounts, price : Lots, qty : Lots]

EventSet == OutSet \cup FillSet

(* Whose order an event is about, in which slot, on which side, and whether it frees the slot. *)
Who(e) == IF e.type = "out" THEN e.owner ELSE e.maker
Which(e) == IF e.type = "out" THEN e.slot ELSE e.maker_slot
SideOf(e) == IF e.type = "out" THEN e.side ELSE invert_side(e.taker_side)
Frees(e) == e.type = "out" \/ (e.type = "fill" /\ e.maker_out)

(* The parts of an event have their types.                                 *)
LEMMA EventParts ==
  ASSUME NEW e \in EventSet
  PROVE  /\ Who(e) \in Accounts /\ Which(e) \in Slot /\ SideOf(e) \in Sides
         /\ e.qty \in Lots /\ e.qty \in Int /\ Frees(e) \in BOOLEAN
  BY DEF EventSet, OutSet, FillSet, Who, Which, SideOf, Frees, Sides, invert_side, Lots

-----------------------------------------------------------------------------
(* A weight gives every event a number; QSum adds them up over a queue. *)
Weight == [EventSet -> Int]

QSum(F, q) == SumFunctionOnSet([i \in 1..Len(q) |-> F[q[i]]], 1..Len(q))

(* The weight of a queue is an integer.                                    *)
LEMMA QSumInt ==
  ASSUME NEW F \in Weight, NEW q \in Seq(EventSet)
  PROVE  QSum(F, q) \in Int
<1> DEFINE f == [i \in 1..Len(q) |-> F[q[i]]]
<1>1. \A i \in 1..Len(q) : f[i] \in Int BY DEF Weight
<1>2. IsFiniteSet(1..Len(q))
  <2> 1 \in Int /\ Len(q) \in Int BY LenProperties
  <2> QED BY FS_Interval
<1> HIDE DEF f
<1>3. SumFunctionOnSet(f, 1..Len(q)) \in Int BY <1>1, <1>2, SumInt
<1> QED BY <1>3 DEF QSum, f

(* An empty queue weighs nothing.                                          *)
LEMMA QSumEmpty ==
  ASSUME NEW F PROVE QSum(F, <<>>) = 0
<1>1. 1..Len(<<>>) = {} OBVIOUS
<1> QED BY <1>1, SumEmpty DEF QSum

(* push_back adds the weight of its event.                                 *)
LEMMA QSumAppend ==
  ASSUME NEW F \in Weight, NEW q \in Seq(EventSet), NEW e \in EventSet
  PROVE  QSum(F, Append(q, e)) = QSum(F, q) + F[e]
<1> DEFINE u == Append(q, e)
           n == Len(q)
           f == [i \in 1..n |-> F[q[i]]]
           g == [i \in 1..(n + 1) |-> F[u[i]]]
<1>1. n \in Nat /\ Len(u) = n + 1 /\ u[n + 1] = e /\ \A i \in 1..n : u[i] = q[i]
  BY AppendProperties, LenProperties
<1>2. \A i \in 1..(n + 1) : u[i] \in EventSet BY <1>1
<1>3. \A i \in 1..(n + 1) : g[i] \in Int BY <1>2 DEF Weight
<1>4. \A i \in 1..n : f[i] = g[i] BY <1>1
<1>5. g[n + 1] = F[e] BY <1>1
<1>6. IsFiniteSet(1..n)
  <2> 1 \in Int /\ n \in Int BY <1>1
  <2> QED BY FS_Interval
<1>7. 1..(n + 1) = (1..n) \cup {n + 1} /\ n + 1 \notin 1..n BY <1>1
<1>8. QSum(F, q) = SumFunctionOnSet(f, 1..n) /\ QSum(F, u) = SumFunctionOnSet(g, 1..(n + 1))
  BY <1>1 DEF QSum
<1>12. F[e] \in Int BY DEF Weight
<1>14. QSum(F, q) \in Int BY QSumInt
<1> HIDE DEF u, n, f, g
<1>9. SumFunctionOnSet(f, 1..n) = SumFunctionOnSet(g, 1..n) BY <1>4, <1>6, SumCongr
<1>10. SumFunctionOnSet(g, (1..n) \cup {n + 1}) = g[n + 1] + SumFunctionOnSet(g, 1..n)
  BY <1>3, <1>6, <1>7, SumAdd
<1>13. QSum(F, u) = F[e] + QSum(F, q) BY <1>5, <1>7, <1>8, <1>9, <1>10
<1>15. QSum(F, u) = QSum(F, q) + F[e] BY <1>12, <1>13, <1>14
<1> QED BY <1>15 DEF u

(* pop_front takes the weight of the head away.                            *)
LEMMA QSumTail ==
  ASSUME NEW F \in Weight, NEW q \in Seq(EventSet), q # <<>>
  PROVE  QSum(F, Tail(q)) = QSum(F, q) - F[Head(q)]
<1> DEFINE u == Tail(q)
           n == Len(u)
           f == [i \in 1..(n + 1) |-> F[q[i]]]
           g == [i \in 1..n |-> F[u[i]]]
<1>1. n \in Nat /\ Len(q) = n + 1 /\ Head(q) = q[1] /\ \A i \in 1..n : u[i] = q[i + 1]
  BY HeadTailProperties, LenProperties
<1>2. \A i \in 1..(n + 1) : q[i] \in EventSet BY <1>1
<1>3. \A i \in 1..(n + 1) : f[i] \in Int BY <1>2 DEF Weight
<1>4. \A i \in 1..n : g[i] = f[i + 1] BY <1>1
<1>5. f[1] = F[Head(q)] BY <1>1
<1>6. QSum(F, u) = SumFunctionOnSet(g, 1..n) /\ QSum(F, q) = SumFunctionOnSet(f, 1..(n + 1))
  BY <1>1 DEF QSum
<1> HIDE DEF u, n, f, g
<1>7. SumFunctionOnSet(f, 1..(n + 1)) = f[1] + SumFunctionOnSet(g, 1..n)
  BY <1>1, <1>3, <1>4, SumShift
<1>8. \A i \in 1..n : g[i] \in Int BY <1>1, <1>3, <1>4
<1>9. IsFiniteSet(1..n)
  <2> 1 \in Int /\ n \in Int BY <1>1
  <2> QED BY FS_Interval
<1>10. SumFunctionOnSet(g, 1..n) \in Int BY <1>8, <1>9, SumInt
<1>11. f[1] \in Int BY <1>1, <1>3
<1>12. QSum(F, u) = QSum(F, q) - F[Head(q)]
  BY <1>5, <1>6, <1>7, <1>10, <1>11
<1> QED BY <1>12 DEF u

-----------------------------------------------------------------------------
(* The lots an account has in a set of orders. *)
Share(o, a) == IF o.owner = a THEN o.qty ELSE 0
OSum(S, a) == SumFunctionOnSet([o \in S |-> Share(o, a)], S)

(* What an account has in one order is an integer.                         *)
LEMMA ShareInt == ASSUME NEW o \in OrderSet, NEW a PROVE Share(o, a) \in Int
BY DEF OrderSet, Share, Lots

(* What an account has in a set of orders is an integer.                   *)
LEMMA OSumInt ==
  ASSUME NEW S, IsFiniteSet(S), S \subseteq OrderSet, NEW a
  PROVE  OSum(S, a) \in Int
<1> DEFINE f == [o \in S |-> Share(o, a)]
<1>1. \A o \in S : f[o] \in Int BY ShareInt
<1> HIDE DEF f
<1>2. SumFunctionOnSet(f, S) \in Int BY <1>1, SumInt
<1> QED BY <1>2 DEF OSum, f

(* An order that leaves takes its lots away.                               *)
LEMMA OSumRemove ==
  ASSUME NEW S, IsFiniteSet(S), S \subseteq OrderSet, NEW o \in S, NEW a
  PROVE  OSum(S \ {o}, a) = OSum(S, a) - Share(o, a)
<1> DEFINE f == [x \in S |-> Share(x, a)]
           g == [x \in S \ {o} |-> Share(x, a)]
<1>1. \A x \in S : f[x] \in Int BY ShareInt
<1>2. \A x \in S \ {o} : g[x] = f[x] OBVIOUS
<1>3. f[o] = Share(o, a) OBVIOUS
<1>4. OSum(S, a) = SumFunctionOnSet(f, S) /\ OSum(S \ {o}, a) = SumFunctionOnSet(g, S \ {o})
  BY DEF OSum
<1>5. IsFiniteSet(S \ {o}) BY FS_RemoveElement
<1>6. OSum(S \ {o}, a) \in Int BY <1>5, OSumInt
<1>7. Share(o, a) \in Int BY ShareInt
<1> HIDE DEF f, g
<1>8. SumFunctionOnSet(f, S) = f[o] + SumFunctionOnSet(f, S \ {o}) BY <1>1, SumRemove
<1>9. SumFunctionOnSet(f, S \ {o}) = SumFunctionOnSet(g, S \ {o}) BY <1>2, <1>5, SumCongr
<1>10. OSum(S, a) = Share(o, a) + OSum(S \ {o}, a) BY <1>3, <1>4, <1>8, <1>9
<1> QED BY <1>6, <1>7, <1>10

(* An order that joins adds its lots.                                      *)
LEMMA OSumAdd ==
  ASSUME NEW S, IsFiniteSet(S), S \subseteq OrderSet, NEW o \in OrderSet, o \notin S, NEW a
  PROVE  OSum(S \cup {o}, a) = OSum(S, a) + Share(o, a)
<1> DEFINE T == S \cup {o}
<1>1. IsFiniteSet(T) /\ T \subseteq OrderSet /\ o \in T BY FS_AddElement
<1>2. T \ {o} = S OBVIOUS
<1>3. OSum(T, a) \in Int /\ Share(o, a) \in Int BY <1>1, OSumInt, ShareInt
<1> HIDE DEF T
<1>4. OSum(T \ {o}, a) = OSum(T, a) - Share(o, a) BY <1>1, OSumRemove
<1>5. OSum(T, a) = OSum(S, a) + Share(o, a)
  <2>1. OSum(S, a) = OSum(T, a) - Share(o, a) BY <1>2, <1>4
  <2> QED BY <1>3, <2>1
<1> QED BY <1>5 DEF T

(* An empty side holds no lots of anyone.                                  *)
LEMMA OSumEmpty == ASSUME NEW a PROVE OSum({}, a) = 0
BY SumEmpty DEF OSum

-----------------------------------------------------------------------------
(***************************************************************************)
(* One market: its book side by side with its event queue and the order    *)
(* slots of all accounts.                                                  *)
(***************************************************************************)

PerpSet ==
  [base : Int, quote : Int, settled : Int, taker_base : Int, taker_quote : Int,
   on_orders : [Sides -> Int]]

Perps == [Accounts -> [Markets -> PerpSet]]
Tables == [Accounts -> [Slot -> Tracked \cup {Free}]]
Books == [Sides -> SUBSET OrderSet]

Mine(m, t) == t # Free /\ t.market = m

(* The orders of a market in the tables have numbers of their own. *)
Numbered(m, sl, sq) ==
  /\ \A a \in Accounts, s \in Slot : Mine(m, sl[a][s]) => sl[a][s].seq <= sq
  /\ \A a, b \in Accounts, s, t \in Slot :
       Mine(m, sl[a][s]) /\ Mine(m, sl[b][t]) /\ sl[a][s].seq = sl[b][t].seq => a = b /\ s = t

(* A resting order is the one its slot describes. *)
Listed(m, bk, sl) ==
  \A side \in Sides : \A o \in bk[side] :
    /\ Mine(m, sl[o.owner][o.slot])
    /\ sl[o.owner][o.slot].side = side
    /\ sl[o.owner][o.slot].price = o.price
    /\ sl[o.owner][o.slot].seq = o.seq

(* An event that frees a slot finds it held by an order of its market and side, ... *)
Waiting(m, q, sl) ==
  \A i \in 1..Len(q) : Frees(q[i]) =>
    /\ Mine(m, sl[Who(q[i])][Which(q[i])])
    /\ sl[Who(q[i])][Which(q[i])].side = SideOf(q[i])

(* ... is the only one for that slot ... *)
Once(q) ==
  \A i, j \in 1..Len(q) :
    Frees(q[i]) /\ Frees(q[j]) /\ Who(q[i]) = Who(q[j]) /\ Which(q[i]) = Which(q[j]) => i = j

(* ... and its order has left the book. *)
Gone(bk, q) ==
  \A i \in 1..Len(q) : Frees(q[i]) =>
    \A side \in Sides : \A o \in bk[side] : ~(o.owner = Who(q[i]) /\ o.slot = Which(q[i]))

(* An occupied slot has an order or an event. *)
Found(m, bk, q, sl) ==
  \A a \in Accounts, s \in Slot : Mine(m, sl[a][s]) =>
    \/ \E side \in Sides : \E o \in bk[side] : o.owner = a /\ o.slot = s
    \/ \E i \in 1..Len(q) : Frees(q[i]) /\ Who(q[i]) = a /\ Which(q[i]) = s

Desk(m, bk, q, sl, sq) ==
  /\ bk \in Books /\ q \in Seq(EventSet) /\ sl \in Tables /\ sq \in Nat
  /\ \A side \in Sides : Keyed(bk[side])
  /\ Numbered(m, sl, sq)
  /\ Listed(m, bk, sl)
  /\ Waiting(m, q, sl)
  /\ Once(q)
  /\ Gone(bk, q)
  /\ Found(m, bk, q, sl)

(* Two orders of a market in one place are the same order. *)
LEMMA OnePlace ==
  ASSUME NEW m, NEW bk, NEW q, NEW sl, NEW sq, Desk(m, bk, q, sl, sq),
         NEW side \in Sides, NEW o \in bk[side], NEW side2 \in Sides, NEW p \in bk[side2],
         o.owner = p.owner, o.slot = p.slot
  PROVE  o = p /\ side = side2
<1>1. side = side2 /\ o.seq = p.seq BY DEF Desk, Listed
<1> QED BY <1>1 DEF Desk, Keyed

(* A queue with one more event.                                            *)
LEMMA AppendEvent ==
  ASSUME NEW q \in Seq(EventSet), NEW e \in EventSet
  PROVE  /\ Append(q, e) \in Seq(EventSet) /\ Len(Append(q, e)) = Len(q) + 1 /\ Len(q) \in Nat
         /\ Append(q, e)[Len(q) + 1] = e
         /\ \A i \in 1..Len(q) : Append(q, e)[i] = q[i]
         /\ \A i \in 1..(Len(q) + 1) : i \in 1..Len(q) \/ i = Len(q) + 1
<1>1. Len(q) \in Nat BY LenProperties
<1> QED BY <1>1, AppendProperties

(* Less of a keyed set. *)
LEMMA KeyedLess ==
  ASSUME NEW S, Keyed(S), NEW T, T \subseteq S PROVE Keyed(T)
BY FS_Subset DEF Keyed

(* An order leaves the book and its event is queued. *)
LEMMA Leaves ==
  ASSUME NEW m, NEW bk, NEW q, NEW sl, NEW sq, Desk(m, bk, q, sl, sq),
         NEW side \in Sides, NEW o \in bk[side], NEW e \in EventSet,
         Frees(e), Who(e) = o.owner, Which(e) = o.slot, SideOf(e) = side
  PROVE  Desk(m, [bk EXCEPT ![side] = @ \ {o}], Append(q, e), sl, sq)
<1> DEFINE b2 == [bk EXCEPT ![side] = @ \ {o}]
           u == Append(q, e)
           n == Len(q)
<1>0. bk \in Books /\ q \in Seq(EventSet) /\ sl \in Tables /\ sq \in Nat BY DEF Desk
<1>1. /\ u \in Seq(EventSet) /\ Len(u) = n + 1 /\ n \in Nat
      /\ u[n + 1] = e /\ \A i \in 1..n : u[i] = q[i]
      /\ \A i \in 1..(n + 1) : i \in 1..n \/ i = n + 1
  BY <1>0, AppendEvent
<1>2. /\ b2 \in Books /\ \A s2 \in Sides : b2[s2] \subseteq bk[s2]
      /\ \A s2 \in Sides : \A p \in bk[s2] : p \in b2[s2] \/ (s2 = side /\ p = o)
      /\ o \notin b2[side]
  BY <1>0 DEF Books
<1> HIDE DEF b2, u, n
<1>3. \A s2 \in Sides : Keyed(b2[s2]) BY <1>2, KeyedLess DEF Desk
<1>4. Numbered(m, sl, sq) BY DEF Desk
<1>5. Listed(m, b2, sl) BY <1>2 DEF Desk, Listed
<1>6. Mine(m, sl[o.owner][o.slot]) /\ sl[o.owner][o.slot].side = side BY DEF Desk, Listed
<1>7. Waiting(m, u, sl)
  <2> SUFFICES ASSUME NEW i \in 1..(n + 1), Frees(u[i])
               PROVE  /\ Mine(m, sl[Who(u[i])][Which(u[i])])
                      /\ sl[Who(u[i])][Which(u[i])].side = SideOf(u[i])
    BY <1>1 DEF Waiting
  <2>1. CASE i = n + 1 BY <1>1, <1>6, <2>1
  <2>2. CASE i \in 1..n
    <3> u[i] = q[i] BY <1>1, <2>2
    <3> QED BY <2>2 DEF Desk, Waiting, n
  <2> QED BY <1>1, <2>1, <2>2
<1>8. ASSUME NEW i \in 1..n, Frees(q[i]) PROVE ~(Who(q[i]) = o.owner /\ Which(q[i]) = o.slot)
  BY <1>8 DEF Desk, Gone, n
<1>9. Once(u)
  <2> SUFFICES ASSUME NEW i \in 1..(n + 1), NEW j \in 1..(n + 1), Frees(u[i]), Frees(u[j]),
                      Who(u[i]) = Who(u[j]), Which(u[i]) = Which(u[j])
               PROVE  i = j
    BY <1>1 DEF Once
  <2>1. CASE i = n + 1 /\ j = n + 1 BY <2>1
  <2>2. CASE i \in 1..n /\ j = n + 1
    <3> u[i] = q[i] /\ u[j] = e BY <1>1, <2>2
    <3> QED BY <1>8, <2>2
  <2>3. CASE i = n + 1 /\ j \in 1..n
    <3> u[j] = q[j] /\ u[i] = e BY <1>1, <2>3
    <3> QED BY <1>8, <2>3
  <2>4. CASE i \in 1..n /\ j \in 1..n
    <3> u[i] = q[i] /\ u[j] = q[j] BY <1>1, <2>4
    <3> QED BY <2>4 DEF Desk, Once, n
  <2> QED BY <1>1, <2>1, <2>2, <2>3, <2>4
<1>10. Gone(b2, u)
  <2> SUFFICES ASSUME NEW i \in 1..(n + 1), Frees(u[i]), NEW s2 \in Sides, NEW p \in b2[s2],
                      p.owner = Who(u[i]), p.slot = Which(u[i])
               PROVE  FALSE
    BY <1>1 DEF Gone
  <2>0. p \in bk[s2] BY <1>2
  <2>1. CASE i = n + 1
    <3>1. p.owner = o.owner /\ p.slot = o.slot BY <1>1, <2>1
    <3>2. p = o /\ s2 = side BY <2>0, <3>1, OnePlace
    <3> QED BY <1>2, <3>2
  <2>2. CASE i \in 1..n
    <3> u[i] = q[i] BY <1>1, <2>2
    <3> QED BY <2>0, <2>2 DEF Desk, Gone, n
  <2> QED BY <1>1, <2>1, <2>2
<1>11. Found(m, b2, u, sl)
  <2> SUFFICES ASSUME NEW a \in Accounts, NEW s \in Slot, Mine(m, sl[a][s])
               PROVE  \/ \E s2 \in Sides : \E p \in b2[s2] : p.owner = a /\ p.slot = s
                      \/ \E i \in 1..Len(u) : Frees(u[i]) /\ Who(u[i]) = a /\ Which(u[i]) = s
    BY DEF Found
  <2>1. CASE a = o.owner /\ s = o.slot
    <3> n + 1 \in 1..Len(u) BY <1>1
    <3> Frees(u[n + 1]) /\ Who(u[n + 1]) = a /\ Which(u[n + 1]) = s BY <1>1, <2>1
    <3> QED OBVIOUS
  <2>2. CASE ~(a = o.owner /\ s = o.slot)
    <3>1. \/ \E s2 \in Sides : \E p \in bk[s2] : p.owner = a /\ p.slot = s
          \/ \E i \in 1..n : Frees(q[i]) /\ Who(q[i]) = a /\ Which(q[i]) = s
      BY DEF Desk, Found, n
    <3>2. CASE \E s2 \in Sides : \E p \in bk[s2] : p.owner = a /\ p.slot = s
      BY <1>2, <2>2, <3>2
    <3>3. CASE \E i \in 1..n : Frees(q[i]) /\ Who(q[i]) = a /\ Which(q[i]) = s
      <4>1. PICK i \in 1..n : Frees(q[i]) /\ Who(q[i]) = a /\ Which(q[i]) = s BY <3>3
      <4>2. i \in 1..Len(u) /\ u[i] = q[i] BY <1>1
      <4> QED BY <4>1, <4>2
    <3> QED BY <3>1, <3>2, <3>3
  <2> QED BY <2>1, <2>2
<1>12. Desk(m, b2, u, sl, sq)
  BY <1>0, <1>1, <1>2, <1>3, <1>4, <1>5, <1>7, <1>9, <1>10, <1>11 DEF Desk
<1> QED BY <1>12 DEF b2, u

(* A resting order is filled in part. *)
LEMMA Shrinks ==
  ASSUME NEW m, NEW bk, NEW q, NEW sl, NEW sq, Desk(m, bk, q, sl, sq),
         NEW side \in Sides, NEW o \in bk[side], NEW p \in OrderSet,
         p.price = o.price, p.seq = o.seq, p.owner = o.owner, p.slot = o.slot,
         NEW e \in EventSet, ~Frees(e)
  PROVE  Desk(m, [bk EXCEPT ![side] = (@ \ {o}) \cup {p}], Append(q, e), sl, sq)
<1> DEFINE b2 == [bk EXCEPT ![side] = (@ \ {o}) \cup {p}]
           u == Append(q, e)
           n == Len(q)
<1>0. bk \in Books /\ q \in Seq(EventSet) /\ sl \in Tables /\ sq \in Nat BY DEF Desk
<1>1. /\ u \in Seq(EventSet) /\ Len(u) = n + 1 /\ n \in Nat
      /\ u[n + 1] = e /\ \A i \in 1..n : u[i] = q[i]
      /\ \A i \in 1..(n + 1) : i \in 1..n \/ i = n + 1
  BY <1>0, AppendEvent
<1>2. /\ b2 \in Books
      /\ \A s2 \in Sides : \A x \in b2[s2] : (x \in bk[s2] /\ ~(s2 = side /\ x = o)) \/ (s2 = side /\ x = p)
      /\ \A s2 \in Sides : \A x \in bk[s2] : x \in b2[s2] \/ (s2 = side /\ x = o)
      /\ p \in b2[side]
  BY <1>0 DEF Books
<1>3. \A s2 \in Sides : Keyed(b2[s2])
  <2> SUFFICES ASSUME NEW s2 \in Sides PROVE Keyed(b2[s2]) OBVIOUS
  <2>1. CASE s2 # side
    <3> b2[s2] = bk[s2] BY <1>0, <2>1 DEF Books
    <3> QED BY DEF Desk
  <2>2. CASE s2 = side
    <3>1. Keyed(bk[side]) BY DEF Desk
    <3>2. b2[side] = (bk[side] \ {o}) \cup {p} BY <1>0 DEF Books
    <3>3. IsFiniteSet((bk[side] \ {o}) \cup {p})
      BY <3>1, FS_RemoveElement, FS_AddElement DEF Keyed
    <3>4. p.price \in Int /\ p.seq \in Int BY DEF OrderSet, Lots
    <3> DEFINE S == bk[side]
               T == (S \ {o}) \cup {p}
    <3>5. \A x \in S : x.price \in Int /\ x.seq \in Int BY <3>1 DEF Keyed
    <3>6. \A x, y \in S : x.seq = y.seq => x = y BY <3>1 DEF Keyed
    <3>7. o \in S /\ IsFiniteSet(T) BY <3>3
    <3> HIDE DEF S
    <3>8. \A x \in T : x.price \in Int /\ x.seq \in Int BY <3>4, <3>5
    <3>9. ASSUME NEW x \in T, NEW y \in T, x.seq = y.seq PROVE x = y
      BY <3>6, <3>7, <3>9
    <3> HIDE DEF T
    <3>10. Keyed(T) BY <3>7, <3>8, <3>9 DEF Keyed
    <3> QED BY <2>2, <3>2, <3>10 DEF S, T
  <2> QED BY <2>1, <2>2
<1> HIDE DEF b2, u, n
<1>5. Listed(m, b2, sl) BY <1>2 DEF Desk, Listed
<1>f. ASSUME NEW i \in 1..(n + 1), Frees(u[i]) PROVE i \in 1..n /\ u[i] = q[i]
  BY <1>f, <1>1
<1>7. Waiting(m, u, sl)
  <2> SUFFICES ASSUME NEW i \in 1..(n + 1), Frees(u[i])
               PROVE  /\ Mine(m, sl[Who(u[i])][Which(u[i])])
                      /\ sl[Who(u[i])][Which(u[i])].side = SideOf(u[i])
    BY <1>1 DEF Waiting
  <2> i \in 1..n /\ u[i] = q[i] BY <1>f
  <2> QED BY DEF Desk, Waiting, n
<1>9. Once(u)
  <2> SUFFICES ASSUME NEW i \in 1..(n + 1), NEW j \in 1..(n + 1), Frees(u[i]), Frees(u[j]),
                      Who(u[i]) = Who(u[j]), Which(u[i]) = Which(u[j])
               PROVE  i = j
    BY <1>1 DEF Once
  <2> i \in 1..n /\ u[i] = q[i] /\ j \in 1..n /\ u[j] = q[j] BY <1>f
  <2> QED BY DEF Desk, Once, n
<1>10. Gone(b2, u)
  <2> SUFFICES ASSUME NEW i \in 1..(n + 1), Frees(u[i]), NEW s2 \in Sides, NEW x \in b2[s2],
                      x.owner = Who(u[i]), x.slot = Which(u[i])
               PROVE  FALSE
    BY <1>1 DEF Gone
  <2>1. i \in 1..n /\ u[i] = q[i] BY <1>f
  <2>2. \E y \in bk[s2] : y.owner = x.owner /\ y.slot = x.slot BY <1>2
  <2> QED BY <2>1, <2>2 DEF Desk, Gone, n
<1>11. Found(m, b2, u, sl)
  <2> SUFFICES ASSUME NEW a \in Accounts, NEW s \in Slot, Mine(m, sl[a][s])
               PROVE  \/ \E s2 \in Sides : \E x \in b2[s2] : x.owner = a /\ x.slot = s
                      \/ \E i \in 1..Len(u) : Frees(u[i]) /\ Who(u[i]) = a /\ Which(u[i]) = s
    BY DEF Found
  <2>1. \/ \E s2 \in Sides : \E x \in bk[s2] : x.owner = a /\ x.slot = s
        \/ \E i \in 1..n : Frees(q[i]) /\ Who(q[i]) = a /\ Which(q[i]) = s
    BY DEF Desk, Found, n
  <2>2. CASE \E s2 \in Sides : \E x \in bk[s2] : x.owner = a /\ x.slot = s
    BY <1>2, <2>2
  <2>3. CASE \E i \in 1..n : Frees(q[i]) /\ Who(q[i]) = a /\ Which(q[i]) = s
    <3>1. PICK i \in 1..n : Frees(q[i]) /\ Who(q[i]) = a /\ Which(q[i]) = s BY <2>3
    <3>2. i \in 1..Len(u) /\ u[i] = q[i] BY <1>1
    <3> QED BY <3>1, <3>2
  <2> QED BY <2>1, <2>2, <2>3
<1>12. Desk(m, b2, u, sl, sq)
  BY <1>0, <1>1, <1>2, <1>3, <1>5, <1>7, <1>9, <1>10, <1>11 DEF Desk
<1> QED BY <1>12 DEF b2, u

(* The tables with one place set. *)
Put(sl, a, s, t) == [sl EXCEPT ![a][s] = t]

(* Setting one place of the tables changes no other.                       *)
LEMMA PutProps ==
  ASSUME NEW sl \in Tables, NEW a \in Accounts, NEW s \in Slot, NEW t \in Tracked \cup {Free}
  PROVE  /\ Put(sl, a, s, t) \in Tables
         /\ Put(sl, a, s, t)[a][s] = t
         /\ \A b \in Accounts, x \in Slot : ~(b = a /\ x = s) => Put(sl, a, s, t)[b][x] = sl[b][x]
BY DEF Put, Tables

(* A free slot belongs to no market.                                       *)
LEMMA NotMine == \A m : ~Mine(m, Free) BY DEF Mine

(* An order is cancelled: it leaves the book and its slot is free. *)
LEMMA CancelDesk ==
  ASSUME NEW m, NEW bk, NEW q, NEW sl, NEW sq, Desk(m, bk, q, sl, sq),
         NEW side \in Sides, NEW o \in bk[side]
  PROVE  Desk(m, [bk EXCEPT ![side] = @ \ {o}], q, Put(sl, o.owner, o.slot, Free), sq)
<1> DEFINE b2 == [bk EXCEPT ![side] = @ \ {o}]
           s2 == Put(sl, o.owner, o.slot, Free)
<1>0. bk \in Books /\ q \in Seq(EventSet) /\ sl \in Tables /\ sq \in Nat BY DEF Desk
<1>a. o.owner \in Accounts /\ o.slot \in Slot BY <1>0 DEF Books, OrderSet
<1>1. /\ s2 \in Tables /\ s2[o.owner][o.slot] = Free
      /\ \A b \in Accounts, x \in Slot : ~(b = o.owner /\ x = o.slot) => s2[b][x] = sl[b][x]
  BY <1>0, <1>a, PutProps
<1>2. /\ b2 \in Books /\ \A d \in Sides : b2[d] \subseteq bk[d]
      /\ \A d \in Sides : \A p \in bk[d] : p \in b2[d] \/ (d = side /\ p = o)
      /\ o \notin b2[side]
  BY <1>0 DEF Books
<1> HIDE DEF b2, s2
<1>3. \A d \in Sides : Keyed(b2[d]) BY <1>2, KeyedLess DEF Desk
<1>m. \A b \in Accounts, x \in Slot : Mine(m, s2[b][x]) => s2[b][x] = sl[b][x] /\ Mine(m, sl[b][x])
  BY <1>1, NotMine
<1>4. Numbered(m, s2, sq)
  <2>1. Numbered(m, sl, sq) BY DEF Desk
  <2> QED BY <1>m, <2>1 DEF Numbered
<1>5. ASSUME NEW d \in Sides, NEW p \in b2[d] PROVE s2[p.owner][p.slot] = sl[p.owner][p.slot]
  <2>1. p \in bk[d] BY <1>2
  <2>2. p.owner \in Accounts /\ p.slot \in Slot BY <1>0, <2>1 DEF Books, OrderSet
  <2>3. ~(p.owner = o.owner /\ p.slot = o.slot)
    <3> SUFFICES ASSUME p.owner = o.owner, p.slot = o.slot PROVE FALSE OBVIOUS
    <3> p = o /\ d = side BY <2>1, OnePlace
    <3> QED BY <1>2
  <2> QED BY <1>1, <2>2, <2>3
<1>6. Listed(m, b2, s2)
  <2>1. Listed(m, bk, sl) BY DEF Desk
  <2> QED BY <1>2, <1>5, <2>1 DEF Listed
<1>7. ASSUME NEW i \in 1..Len(q), Frees(q[i])
      PROVE  s2[Who(q[i])][Which(q[i])] = sl[Who(q[i])][Which(q[i])]
  <2>1. ~(o.owner = Who(q[i]) /\ o.slot = Which(q[i])) BY <1>7 DEF Desk, Gone
  <2>2. q[i] \in EventSet BY <1>0
  <2>3. Who(q[i]) \in Accounts /\ Which(q[i]) \in Slot BY <2>2, EventParts
  <2> QED BY <1>1, <2>1, <2>3
<1>8. Waiting(m, q, s2)
  <2>1. Waiting(m, q, sl) BY DEF Desk
  <2> QED BY <1>7, <2>1 DEF Waiting
<1>9. Once(q) BY DEF Desk
<1>10. Gone(b2, q)
  <2>1. Gone(bk, q) BY DEF Desk
  <2> QED BY <1>2, <2>1 DEF Gone
<1>11. Found(m, b2, q, s2)
  <2>1. Found(m, bk, q, sl) BY DEF Desk
  <2> SUFFICES ASSUME NEW a \in Accounts, NEW s \in Slot, Mine(m, s2[a][s])
               PROVE  \/ \E d \in Sides : \E p \in b2[d] : p.owner = a /\ p.slot = s
                      \/ \E i \in 1..Len(q) : Frees(q[i]) /\ Who(q[i]) = a /\ Which(q[i]) = s
    BY DEF Found
  <2>2. Mine(m, sl[a][s]) BY <1>m
  <2>3. ~(a = o.owner /\ s = o.slot) BY <1>1, NotMine
  <2>4. \/ \E d \in Sides : \E p \in bk[d] : p.owner = a /\ p.slot = s
        \/ \E i \in 1..Len(q) : Frees(q[i]) /\ Who(q[i]) = a /\ Which(q[i]) = s
    BY <2>1, <2>2 DEF Found
  <2> QED BY <1>2, <2>3, <2>4
<1>12. Desk(m, b2, q, s2, sq)
  BY <1>0, <1>1, <1>2, <1>3, <1>4, <1>6, <1>8, <1>9, <1>10, <1>11 DEF Desk
<1> QED BY <1>12 DEF b2, s2

(* A queue without its head.                                               *)
LEMMA TailEvents ==
  ASSUME NEW q \in Seq(EventSet), q # <<>>
  PROVE  /\ Head(q) \in EventSet /\ Tail(q) \in Seq(EventSet)
         /\ Head(q) = q[1] /\ 1 \in 1..Len(q)
         /\ \A i \in 1..Len(Tail(q)) : i + 1 \in 1..Len(q) /\ i + 1 # 1 /\ Tail(q)[i] = q[i + 1]
         /\ \A i \in 1..Len(q) : i = 1 \/ (i - 1 \in 1..Len(Tail(q)) /\ Tail(q)[i - 1] = q[i])
<1>1. Len(q) \in Nat /\ Len(Tail(q)) = Len(q) - 1 /\ Len(q) # 0 BY HeadTailProperties, LenProperties, EmptySeq
<1>2. \A i \in 1..Len(Tail(q)) : Tail(q)[i] = q[i + 1] BY HeadTailProperties
<1>3. Head(q) = q[1] /\ Head(q) \in EventSet /\ Tail(q) \in Seq(EventSet) BY HeadTailProperties
<1> QED BY <1>1, <1>2, <1>3

(* An event is consumed. *)
LEMMA TailDesk ==
  ASSUME NEW m, NEW bk, NEW q, NEW sl, NEW sq, Desk(m, bk, q, sl, sq), q # <<>>,
         ~Frees(Head(q))
  PROVE  Desk(m, bk, Tail(q), sl, sq)
<1> DEFINE u == Tail(q)
<1>0. bk \in Books /\ q \in Seq(EventSet) /\ sl \in Tables /\ sq \in Nat BY DEF Desk
<1>1. /\ u \in Seq(EventSet)
      /\ Head(q) = q[1] /\ 1 \in 1..Len(q)
      /\ \A i \in 1..Len(u) : i + 1 \in 1..Len(q) /\ i + 1 # 1 /\ u[i] = q[i + 1]
      /\ \A i \in 1..Len(q) : i = 1 \/ (i - 1 \in 1..Len(u) /\ u[i - 1] = q[i])
  BY <1>0, TailEvents
<1> HIDE DEF u
<1>2. Waiting(m, u, sl)
  <2>1. Waiting(m, q, sl) BY DEF Desk
  <2> QED BY <1>1, <2>1 DEF Waiting
<1>3. Once(u)
  <2>1. Once(q) BY DEF Desk
  <2> SUFFICES ASSUME NEW i \in 1..Len(u), NEW j \in 1..Len(u), Frees(u[i]), Frees(u[j]),
                      Who(u[i]) = Who(u[j]), Which(u[i]) = Which(u[j])
               PROVE  i = j
    BY DEF Once
  <2>2. i + 1 = j + 1 BY <1>1, <2>1 DEF Once
  <2> QED BY <2>2
<1>4. Gone(bk, u)
  <2>1. Gone(bk, q) BY DEF Desk
  <2> QED BY <1>1, <2>1 DEF Gone
<1>5. Found(m, bk, u, sl)
  <2>1. Found(m, bk, q, sl) BY DEF Desk
  <2> SUFFICES ASSUME NEW a \in Accounts, NEW s \in Slot, Mine(m, sl[a][s])
               PROVE  \/ \E d \in Sides : \E p \in bk[d] : p.owner = a /\ p.slot = s
                      \/ \E i \in 1..Len(u) : Frees(u[i]) /\ Who(u[i]) = a /\ Which(u[i]) = s
    BY DEF Found
  <2>2. CASE \E d \in Sides : \E p \in bk[d] : p.owner = a /\ p.slot = s BY <2>2
  <2>3. CASE \E i \in 1..Len(q) : Frees(q[i]) /\ Who(q[i]) = a /\ Which(q[i]) = s
    <3>1. PICK i \in 1..Len(q) : Frees(q[i]) /\ Who(q[i]) = a /\ Which(q[i]) = s BY <2>3
    <3>2. i # 1 BY <1>1, <3>1
    <3> QED BY <1>1, <3>1, <3>2
  <2> QED BY <2>1, <2>2, <2>3 DEF Found
<1>6. Desk(m, bk, u, sl, sq) BY <1>0, <1>1, <1>2, <1>3, <1>4, <1>5 DEF Desk
<1> QED BY <1>6 DEF u

(* An event that frees a slot is consumed: the slot is free and its order  *)
(* was already off the book.                                               *)
LEMMA FreeDesk ==
  ASSUME NEW m, NEW bk, NEW q, NEW sl, NEW sq, Desk(m, bk, q, sl, sq), q # <<>>,
         Frees(Head(q))
  PROVE  Desk(m, bk, Tail(q), Put(sl, Who(Head(q)), Which(Head(q)), Free), sq)
<1> DEFINE u == Tail(q)
           a0 == Who(Head(q))
           s0 == Which(Head(q))
           s2 == Put(sl, a0, s0, Free)
<1>0. bk \in Books /\ q \in Seq(EventSet) /\ sl \in Tables /\ sq \in Nat BY DEF Desk
<1>1. /\ u \in Seq(EventSet) /\ Head(q) \in EventSet
      /\ Head(q) = q[1] /\ 1 \in 1..Len(q)
      /\ \A i \in 1..Len(u) : i + 1 \in 1..Len(q) /\ i + 1 # 1 /\ u[i] = q[i + 1]
      /\ \A i \in 1..Len(q) : i = 1 \/ (i - 1 \in 1..Len(u) /\ u[i - 1] = q[i])
  BY <1>0, TailEvents
<1>a. a0 \in Accounts /\ s0 \in Slot BY <1>1, EventParts
<1>2. /\ s2 \in Tables /\ s2[a0][s0] = Free
      /\ \A b \in Accounts, x \in Slot : ~(b = a0 /\ x = s0) => s2[b][x] = sl[b][x]
  BY <1>0, <1>a, PutProps
<1>b. a0 = Who(q[1]) /\ s0 = Which(q[1]) /\ Frees(q[1]) BY <1>1
<1> HIDE DEF u, a0, s0, s2
<1>m. \A b \in Accounts, x \in Slot : Mine(m, s2[b][x]) => s2[b][x] = sl[b][x] /\ Mine(m, sl[b][x])
  BY <1>2, NotMine
<1>3. Numbered(m, s2, sq)
  <2>1. Numbered(m, sl, sq) BY DEF Desk
  <2> QED BY <1>m, <2>1 DEF Numbered
<1>4. ASSUME NEW d \in Sides, NEW p \in bk[d] PROVE s2[p.owner][p.slot] = sl[p.owner][p.slot]
  <2>1. p.owner \in Accounts /\ p.slot \in Slot BY <1>0 DEF Books, OrderSet
  <2>2. ~(p.owner = a0 /\ p.slot = s0) BY <1>1, <1>b DEF Desk, Gone
  <2> QED BY <1>2, <2>1, <2>2
<1>5. Listed(m, bk, s2)
  <2>1. Listed(m, bk, sl) BY DEF Desk
  <2> QED BY <1>4, <2>1 DEF Listed
<1>6. Once(q) BY DEF Desk
<1>7. ASSUME NEW i \in 1..Len(u), Frees(u[i])
      PROVE  s2[Who(u[i])][Which(u[i])] = sl[Who(u[i])][Which(u[i])]
  <2>1. i + 1 \in 1..Len(q) /\ i + 1 # 1 /\ u[i] = q[i + 1] BY <1>1
  <2>2. ~(Who(u[i]) = a0 /\ Which(u[i]) = s0) BY <1>1, <1>6, <1>7, <1>b, <2>1 DEF Once
  <2>3. u[i] \in EventSet BY <1>1
  <2>4. Who(u[i]) \in Accounts /\ Which(u[i]) \in Slot BY <2>3, EventParts
  <2> QED BY <1>2, <2>2, <2>4
<1>8. Waiting(m, u, s2)
  <2>1. Waiting(m, q, sl) BY DEF Desk
  <2>2. Waiting(m, u, sl) BY <1>1, <2>1 DEF Waiting
  <2> QED BY <1>7, <2>2 DEF Waiting
<1>9. Once(u)
  <2> SUFFICES ASSUME NEW i \in 1..Len(u), NEW j \in 1..Len(u), Frees(u[i]), Frees(u[j]),
                      Who(u[i]) = Who(u[j]), Which(u[i]) = Which(u[j])
               PROVE  i = j
    BY DEF Once
  <2>2. i + 1 = j + 1 BY <1>1, <1>6 DEF Once
  <2> QED BY <2>2
<1>10. Gone(bk, u)
  <2>1. Gone(bk, q) BY DEF Desk
  <2> QED BY <1>1, <2>1 DEF Gone
<1>11. Found(m, bk, u, s2)
  <2>1. Found(m, bk, q, sl) BY DEF Desk
  <2> SUFFICES ASSUME NEW a \in Accounts, NEW s \in Slot, Mine(m, s2[a][s])
               PROVE  \/ \E d \in Sides : \E p \in bk[d] : p.owner = a /\ p.slot = s
                      \/ \E i \in 1..Len(u) : Frees(u[i]) /\ Who(u[i]) = a /\ Which(u[i]) = s
    BY DEF Found
  <2>2. Mine(m, sl[a][s]) BY <1>m
  <2>3. ~(a = a0 /\ s = s0) BY <1>2, NotMine
  <2>4. CASE \E d \in Sides : \E p \in bk[d] : p.owner = a /\ p.slot = s BY <2>4
  <2>5. CASE \E i \in 1..Len(q) : Frees(q[i]) /\ Who(q[i]) = a /\ Which(q[i]) = s
    <3>1. PICK i \in 1..Len(q) : Frees(q[i]) /\ Who(q[i]) = a /\ Which(q[i]) = s BY <2>5
    <3>2. i # 1 BY <1>b, <2>3, <3>1
    <3> QED BY <1>1, <3>1, <3>2
  <2> QED BY <2>1, <2>2, <2>4, <2>5 DEF Found
<1>12. Desk(m, bk, u, s2, sq)
  <2> \A side \in Sides : Keyed(bk[side]) BY DEF Desk
  <2> QED BY <1>0, <1>1, <1>2, <1>3, <1>5, <1>8, <1>9, <1>10, <1>11 DEF Desk
<1> QED BY <1>12 DEF u, s2, a0, s0

(* The next order number. *)
LEMMA NumberDesk ==
  ASSUME NEW m, NEW bk, NEW q, NEW sl, NEW sq, Desk(m, bk, q, sl, sq)
  PROVE  Desk(m, bk, q, sl, sq + 1)
<1>0. sl \in Tables /\ sq \in Nat BY DEF Desk
<1>1. Numbered(m, sl, sq) BY DEF Desk
<1>2. \A a \in Accounts, s \in Slot : Mine(m, sl[a][s]) => sl[a][s].seq \in Int
  BY <1>0 DEF Tables, Mine, Tracked
<1>3. Numbered(m, sl, sq + 1) BY <1>0, <1>1, <1>2 DEF Numbered
<1> QED BY <1>0, <1>3 DEF Desk

(* An order is posted in a free slot. *)
LEMMA PostDesk ==
  ASSUME NEW m, NEW bk, NEW q, NEW sl, NEW sq, Desk(m, bk, q, sl, sq),
         NEW side \in Sides, NEW o \in OrderSet, NEW t \in Tracked,
         sl[o.owner][o.slot] = Free, o.seq = sq + 1,
         t.market = m, t.side = side, t.price = o.price, t.seq = o.seq
  PROVE  Desk(m, [bk EXCEPT ![side] = @ \cup {o}], q, Put(sl, o.owner, o.slot, t), sq + 1)
<1> DEFINE b2 == [bk EXCEPT ![side] = @ \cup {o}]
           s2 == Put(sl, o.owner, o.slot, t)
<1>0. bk \in Books /\ q \in Seq(EventSet) /\ sl \in Tables /\ sq \in Nat BY DEF Desk
<1>a. o.owner \in Accounts /\ o.slot \in Slot /\ o.price \in Int /\ o.seq \in Int
  BY DEF OrderSet, Lots
<1>1. /\ s2 \in Tables /\ s2[o.owner][o.slot] = t
      /\ \A b \in Accounts, x \in Slot : ~(b = o.owner /\ x = o.slot) => s2[b][x] = sl[b][x]
  BY <1>0, <1>a, PutProps
<1>2. /\ b2 \in Books
      /\ \A d \in Sides : \A p \in b2[d] : p \in bk[d] \/ (d = side /\ p = o)
      /\ \A d \in Sides : bk[d] \subseteq b2[d]
      /\ o \in b2[side]
      /\ b2[side] = bk[side] \cup {o} /\ \A d \in Sides : d # side => b2[d] = bk[d]
  BY <1>0 DEF Books
<1> HIDE DEF b2, s2
<1>n. ASSUME NEW d \in Sides, NEW p \in bk[d]
      PROVE  /\ p.owner \in Accounts /\ p.slot \in Slot /\ p.seq <= sq /\ p.seq \in Int
             /\ ~(p.owner = o.owner /\ p.slot = o.slot)
  <2>1. p.owner \in Accounts /\ p.slot \in Slot /\ p.seq \in Int BY <1>0 DEF Books, OrderSet
  <2>2. Mine(m, sl[p.owner][p.slot]) /\ sl[p.owner][p.slot].seq = p.seq BY DEF Desk, Listed
  <2>3. p.seq <= sq BY <2>1, <2>2 DEF Desk, Numbered
  <2>4. ~(p.owner = o.owner /\ p.slot = o.slot) BY <2>2, NotMine
  <2> QED BY <2>1, <2>3, <2>4
<1>3. ASSUME NEW d \in Sides PROVE Keyed(b2[d])
  <2>1. Keyed(bk[d]) BY DEF Desk
  <2>2. CASE d # side BY <1>2, <2>1, <2>2
  <2>3. CASE d = side
    <3>1. IsFiniteSet(bk[side] \cup {o}) BY <2>1, <2>3, FS_AddElement DEF Keyed
    <3>2. \A p \in bk[side] : p.seq # o.seq
      <4> SUFFICES ASSUME NEW p \in bk[side], p.seq = o.seq PROVE FALSE OBVIOUS
      <4>1. p.seq <= sq /\ p.seq \in Int BY <1>n
      <4> QED BY <1>0, <4>1
    <3>3. \A p \in bk[side] \cup {o} : p.price \in Int /\ p.seq \in Int BY <1>a, <2>1, <2>3 DEF Keyed
    <3>4. \A p, r \in bk[side] \cup {o} : p.seq = r.seq => p = r BY <2>1, <2>3, <3>2 DEF Keyed
    <3> QED BY <1>2, <2>3, <3>1, <3>3, <3>4 DEF Keyed
  <2> QED BY <2>2, <2>3
<1>m. Mine(m, t)
  <2> t # Free BY PerpAssumption
  <2> QED BY DEF Mine
<1>4. Numbered(m, s2, sq + 1)
  <2>1. \A a \in Accounts, s \in Slot : Mine(m, sl[a][s]) => sl[a][s].seq \in Int
    BY <1>0 DEF Tables, Mine, Tracked
  <2>2. Numbered(m, sl, sq) BY DEF Desk
  <2>3. ASSUME NEW a \in Accounts, NEW s \in Slot, Mine(m, s2[a][s])
        PROVE  \/ a = o.owner /\ s = o.slot /\ s2[a][s].seq = sq + 1
               \/ ~(a = o.owner /\ s = o.slot) /\ s2[a][s] = sl[a][s] /\ Mine(m, sl[a][s])
                    /\ s2[a][s].seq <= sq /\ s2[a][s].seq \in Int
    <3>1. CASE a = o.owner /\ s = o.slot BY <1>1, <3>1
    <3>2. CASE ~(a = o.owner /\ s = o.slot)
      <4>1. s2[a][s] = sl[a][s] BY <1>1, <3>2
      <4>2. Mine(m, sl[a][s]) BY <2>3, <4>1
      <4>3. sl[a][s].seq <= sq BY <2>2, <4>2 DEF Numbered
      <4> QED BY <2>1, <3>2, <4>1, <4>2, <4>3
    <3> QED BY <3>1, <3>2
  <2>4. \A a \in Accounts, s \in Slot : Mine(m, s2[a][s]) => s2[a][s].seq <= sq + 1
    BY <1>0, <2>3
  <2>5. ASSUME NEW a \in Accounts, NEW b \in Accounts, NEW s \in Slot, NEW x \in Slot,
               Mine(m, s2[a][s]), Mine(m, s2[b][x]), s2[a][s].seq = s2[b][x].seq
        PROVE  a = b /\ s = x
    <3>1. CASE (a = o.owner /\ s = o.slot) \/ (b = o.owner /\ x = o.slot)
      BY <1>0, <2>3, <2>5, <3>1
    <3>2. CASE ~(a = o.owner /\ s = o.slot) /\ ~(b = o.owner /\ x = o.slot)
      <4>1. s2[a][s] = sl[a][s] /\ s2[b][x] = sl[b][x] /\ Mine(m, sl[a][s]) /\ Mine(m, sl[b][x])
        BY <2>3, <2>5, <3>2
      <4> QED BY <2>2, <2>5, <4>1 DEF Numbered
    <3> QED BY <3>1, <3>2
  <2> QED BY <2>4, <2>5 DEF Numbered
<1>5. Listed(m, b2, s2)
  <2>1. Listed(m, bk, sl) BY DEF Desk
  <2> SUFFICES ASSUME NEW d \in Sides, NEW p \in b2[d]
               PROVE  /\ Mine(m, s2[p.owner][p.slot])
                      /\ s2[p.owner][p.slot].side = d
                      /\ s2[p.owner][p.slot].price = p.price
                      /\ s2[p.owner][p.slot].seq = p.seq
    BY DEF Listed
  <2>2. CASE p \in bk[d]
    <3>1. s2[p.owner][p.slot] = sl[p.owner][p.slot] BY <1>1, <1>n, <2>2
    <3> QED BY <2>1, <2>2, <3>1 DEF Listed
  <2>3. CASE d = side /\ p = o BY <1>1, <1>m, <2>3
  <2> QED BY <1>2, <2>2, <2>3
<1>6. ASSUME NEW i \in 1..Len(q), Frees(q[i])
      PROVE  /\ s2[Who(q[i])][Which(q[i])] = sl[Who(q[i])][Which(q[i])]
             /\ ~(o.owner = Who(q[i]) /\ o.slot = Which(q[i]))
  <2>1. Mine(m, sl[Who(q[i])][Which(q[i])]) BY <1>6 DEF Desk, Waiting
  <2>2. ~(o.owner = Who(q[i]) /\ o.slot = Which(q[i])) BY <2>1, NotMine
  <2>3. q[i] \in EventSet BY <1>0
  <2>4. Who(q[i]) \in Accounts /\ Which(q[i]) \in Slot BY <2>3, EventParts
  <2> QED BY <1>1, <2>2, <2>4
<1>7. Waiting(m, q, s2)
  <2>1. Waiting(m, q, sl) BY DEF Desk
  <2> QED BY <1>6, <2>1 DEF Waiting
<1>8. Once(q) BY DEF Desk
<1>9. Gone(b2, q)
  <2>1. Gone(bk, q) BY DEF Desk
  <2> QED BY <1>2, <1>6, <2>1 DEF Gone
<1>10. Found(m, b2, q, s2)
  <2>1. Found(m, bk, q, sl) BY DEF Desk
  <2> SUFFICES ASSUME NEW a \in Accounts, NEW s \in Slot, Mine(m, s2[a][s])
               PROVE  \/ \E d \in Sides : \E p \in b2[d] : p.owner = a /\ p.slot = s
                      \/ \E i \in 1..Len(q) : Frees(q[i]) /\ Who(q[i]) = a /\ Which(q[i]) = s
    BY DEF Found
  <2>2. CASE a = o.owner /\ s = o.slot BY <1>2, <2>2
  <2>3. CASE ~(a = o.owner /\ s = o.slot)
    <3>1. Mine(m, sl[a][s]) BY <1>1, <2>3
    <3>2. \/ \E d \in Sides : \E p \in bk[d] : p.owner = a /\ p.slot = s
          \/ \E i \in 1..Len(q) : Frees(q[i]) /\ Who(q[i]) = a /\ Which(q[i]) = s
      BY <2>1, <3>1 DEF Found
    <3> QED BY <1>2, <3>2
  <2> QED BY <2>2, <2>3
<1>11. Desk(m, b2, q, s2, sq + 1)
  BY <1>0, <1>1, <1>2, <1>3, <1>4, <1>5, <1>7, <1>8, <1>9, <1>10 DEF Desk
<1> QED BY <1>11 DEF b2, s2

(* What the slots of one market do is nothing to another. *)
Foreign(m, sl, s2) ==
  \A a \in Accounts, s \in Slot :
    \/ s2[a][s] = sl[a][s]
    \/ (sl[a][s] = Free \/ sl[a][s].market = m) /\ (s2[a][s] = Free \/ s2[a][s].market = m)

(* A market's book, queue and slots stay consistent while the slots of     *)
(* another market change.                                                  *)
LEMMA ForeignDesk ==
  ASSUME NEW m, NEW n, n # m, NEW bk, NEW q, NEW sl, NEW sq, Desk(n, bk, q, sl, sq),
         NEW s2 \in Tables, Foreign(m, sl, s2)
  PROVE  Desk(n, bk, q, s2, sq)
<1>0. bk \in Books /\ q \in Seq(EventSet) /\ sl \in Tables /\ sq \in Nat BY DEF Desk
<1>1. \A a \in Accounts, s \in Slot : Mine(n, sl[a][s]) \/ Mine(n, s2[a][s]) => s2[a][s] = sl[a][s]
  BY DEF Foreign, Mine
<1>2. Numbered(n, s2, sq)
  <2>1. Numbered(n, sl, sq) BY DEF Desk
  <2> QED BY <1>1, <2>1 DEF Numbered
<1>3. Listed(n, bk, s2)
  <2>1. Listed(n, bk, sl) BY DEF Desk
  <2>2. \A d \in Sides : \A p \in bk[d] : p.owner \in Accounts /\ p.slot \in Slot
    BY <1>0 DEF Books, OrderSet
  <2> QED BY <1>1, <2>1, <2>2 DEF Listed
<1>4. Waiting(n, q, s2)
  <2>1. Waiting(n, q, sl) BY DEF Desk
  <2>2. \A i \in 1..Len(q) : Who(q[i]) \in Accounts /\ Which(q[i]) \in Slot
    <3> \A i \in 1..Len(q) : q[i] \in EventSet BY <1>0
    <3> QED BY EventParts
  <2> QED BY <1>1, <2>1, <2>2 DEF Waiting
<1>5. Found(n, bk, q, s2)
  <2>1. Found(n, bk, q, sl) BY DEF Desk
  <2> QED BY <1>1, <2>1 DEF Found
<1> QED BY <1>2, <1>3, <1>4, <1>5 DEF Desk

(* Changes to the slots of one market add up to such a change.             *)
LEMMA ForeignTwice ==
  ASSUME NEW m, NEW s1, NEW s2, NEW s3, Foreign(m, s1, s2), Foreign(m, s2, s3)
  PROVE  Foreign(m, s1, s3)
BY DEF Foreign

(* No change is a change to the slots of any market.                       *)
LEMMA ForeignSame == ASSUME NEW m, NEW s1 PROVE Foreign(m, s1, s1)
BY DEF Foreign

(* Setting a slot that is free or held for m, for m, concerns m only.      *)
LEMMA ForeignPut ==
  ASSUME NEW m, NEW sl \in Tables, NEW a \in Accounts, NEW s \in Slot, NEW t \in Tracked \cup {Free},
         sl[a][s] = Free \/ sl[a][s].market = m, t = Free \/ t.market = m
  PROVE  Foreign(m, sl, Put(sl, a, s, t))
BY PutProps DEF Foreign

(* Slots change only by becoming free, and only those of the accounts A. *)
Emptied(A, sl, s2) ==
  \A b \in Accounts, s \in Slot : s2[b][s] = sl[b][s] \/ (b \in A /\ s2[b][s] = Free)

(* Emptying slots and emptying more is emptying slots.                     *)
LEMMA EmptiedTwice ==
  ASSUME NEW A, NEW s1, NEW s2, NEW s3, Emptied(A, s1, s2), Emptied(A, s2, s3)
  PROVE  Emptied(A, s1, s3)
BY DEF Emptied

(* No change empties no slot.                                              *)
LEMMA EmptiedSame == ASSUME NEW A, NEW s1 PROVE Emptied(A, s1, s1)
BY DEF Emptied

(* Freeing one slot empties a slot of its account.                         *)
LEMMA EmptiedPut ==
  ASSUME NEW A, NEW sl \in Tables, NEW a \in Accounts, a \in A, NEW s \in Slot
  PROVE  Emptied(A, sl, Put(sl, a, s, Free))
BY PutProps DEF Emptied

-----------------------------------------------------------------------------
(***************************************************************************)
(* Lots on order: what rests and what waits in the queue.                  *)
(***************************************************************************)

Sign(side) == IF side = "bid" THEN 1 ELSE -1

(* What an event says about an account: lots that are still counted as on order, ... *)
OnOrder(a, side) == [e \in EventSet |-> IF Who(e) = a /\ SideOf(e) = side THEN e.qty ELSE 0]

(* ... base and quote its taker has pending, ... *)
TakerBase(a) ==
  [e \in EventSet |-> IF e.type = "fill" /\ e.taker = a THEN Sign(e.taker_side) * e.qty ELSE 0]

TakerQuote(a) ==
  [e \in EventSet |-> IF e.type = "fill" /\ e.taker = a
                      THEN -Sign(e.taker_side) * (e.qty * e.price) ELSE 0]

(* ... base its maker will get, and the quote that is traded. *)
MakerBase(a) ==
  [e \in EventSet |-> IF e.type = "fill" /\ e.maker = a THEN -Sign(e.taker_side) * e.qty ELSE 0]

Turnover == [e \in EventSet |-> IF e.type = "fill" THEN e.qty * e.price ELSE 0]

(* The sign of a side is 1 or -1.                                          *)
LEMMA SignInt == \A side : Sign(side) \in Int /\ (Sign(side) = 1 \/ Sign(side) = -1)
BY DEF Sign

(* A product of integers is an integer.                                    *)
LEMMA ProductInt == \A x, y \in Int : x * y \in Int
OBVIOUS

(* The parts of a fill event have their types.                             *)
LEMMA FillParts ==
  ASSUME NEW e \in EventSet, e.type = "fill"
  PROVE  /\ e \in FillSet /\ e.maker \in Accounts /\ e.taker \in Accounts /\ e.taker_side \in Sides
         /\ e.qty \in Lots /\ e.qty \in Int /\ e.price \in Lots /\ e.price \in Int
         /\ e.maker_slot \in Slot /\ e.maker_out \in BOOLEAN
BY DEF EventSet, OutSet, FillSet, Lots

(* The five ways of weighing events are weights.                           *)
LEMMA Weights ==
  ASSUME NEW a, NEW side
  PROVE  /\ OnOrder(a, side) \in Weight /\ TakerBase(a) \in Weight /\ TakerQuote(a) \in Weight
         /\ MakerBase(a) \in Weight /\ Turnover \in Weight
<1>1. ASSUME NEW e \in EventSet PROVE e.qty \in Int BY EventParts
<1>2. ASSUME NEW e \in EventSet, e.type = "fill"
      PROVE  /\ e.qty * e.price \in Int /\ Sign(e.taker_side) * e.qty \in Int
             /\ -Sign(e.taker_side) * (e.qty * e.price) \in Int
             /\ -Sign(e.taker_side) * e.qty \in Int
  <2>1. e.qty \in Int /\ e.price \in Int BY <1>2, FillParts
  <2>2. e.qty * e.price \in Int BY <2>1
  <2>3. Sign(e.taker_side) \in Int /\ -Sign(e.taker_side) \in Int BY SignInt
  <2> QED BY <2>1, <2>2, <2>3, ProductInt
<1> QED BY <1>1, <1>2 DEF OnOrder, TakerBase, TakerQuote, MakerBase, Turnover, Weight

(* on_orders of every account. *)
Counts(m, bk, q, pp) ==
  \A a \in Accounts, side \in Sides :
    pp[a][m].on_orders[side] = OSum(bk[side], a) + QSum(OnOrder(a, side), q)

(* The perp accounts differ in market m by delta lots on order of a on one side. *)
Charged(m, pp, p2, a, side, delta) ==
  \A b \in Accounts, d \in Sides :
    p2[b][m].on_orders[d] = pp[b][m].on_orders[d] + (IF b = a /\ d = side THEN delta ELSE 0)

(* The two sums of Counts are integers.                                    *)
LEMMA CountInts ==
  ASSUME NEW m, NEW bk, NEW q, NEW sl, NEW sq, Desk(m, bk, q, sl, sq),
         NEW a, NEW side \in Sides
  PROVE  /\ OSum(bk[side], a) \in Int /\ QSum(OnOrder(a, side), q) \in Int
         /\ IsFiniteSet(bk[side]) /\ bk[side] \subseteq OrderSet
         /\ q \in Seq(EventSet)
<1>1. IsFiniteSet(bk[side]) /\ bk[side] \subseteq OrderSet /\ q \in Seq(EventSet)
  BY DEF Desk, Keyed, Books
<1> QED BY <1>1, OSumInt, QSumInt, Weights

Fewer(S, T, a, n) ==
  \A b \in Accounts : OSum(T, b) = OSum(S, b) - (IF a = b THEN n ELSE 0)

(* Lots that leave a side of the book for the queue stay counted as on     *)
(* order.                                                                  *)
LEMMA CountsAppend ==
  ASSUME NEW m, NEW bk, NEW q, NEW sl, NEW sq, Desk(m, bk, q, sl, sq), NEW pp,
         Counts(m, bk, q, pp),
         NEW side \in Sides, NEW b2 \in Books, NEW e \in EventSet, SideOf(e) = side,
         \A d \in Sides : d # side => b2[d] = bk[d], Fewer(bk[side], b2[side], Who(e), e.qty)
  PROVE  Counts(m, b2, Append(q, e), pp)
<1> SUFFICES ASSUME NEW a \in Accounts, NEW d \in Sides
             PROVE  pp[a][m].on_orders[d] = OSum(b2[d], a) + QSum(OnOrder(a, d), Append(q, e))
  BY DEF Counts
<1>1. q \in Seq(EventSet) /\ OSum(bk[d], a) \in Int /\ QSum(OnOrder(a, d), q) \in Int BY CountInts
<1>2. QSum(OnOrder(a, d), Append(q, e)) = QSum(OnOrder(a, d), q) + OnOrder(a, d)[e]
  BY <1>1, Weights, QSumAppend
<1>3. OnOrder(a, d)[e] = IF Who(e) = a /\ d = side THEN e.qty ELSE 0 BY DEF OnOrder
<1>4. pp[a][m].on_orders[d] = OSum(bk[d], a) + QSum(OnOrder(a, d), q) BY DEF Counts
<1>5. e.qty \in Int BY EventParts
<1>6. OSum(b2[d], a) = OSum(bk[d], a) - (IF Who(e) = a /\ d = side THEN e.qty ELSE 0)
  BY <1>1, <1>5 DEF Fewer
<1> QED BY <1>1, <1>2, <1>3, <1>4, <1>5, <1>6

(* An order that leaves the book for the queue is still counted as on      *)
(* order.                                                                  *)
LEMMA CountsLeave ==
  ASSUME NEW m, NEW bk, NEW q, NEW sl, NEW sq, Desk(m, bk, q, sl, sq), NEW pp,
         Counts(m, bk, q, pp),
         NEW side \in Sides, NEW o \in bk[side], NEW e \in EventSet,
         Who(e) = o.owner, SideOf(e) = side, e.qty = o.qty
  PROVE  Counts(m, [bk EXCEPT ![side] = @ \ {o}], Append(q, e), pp)
<1> DEFINE b2 == [bk EXCEPT ![side] = @ \ {o}]
<1>1. b2 \in Books /\ b2[side] = bk[side] \ {o} /\ \A d \in Sides : d # side => b2[d] = bk[d]
  BY DEF Desk, Books
<1>2. ASSUME NEW a \in Accounts
      PROVE  OSum(b2[side], a) = OSum(bk[side], a) - (IF Who(e) = a THEN e.qty ELSE 0)
  <2>1. IsFiniteSet(bk[side]) /\ bk[side] \subseteq OrderSet BY CountInts
  <2>2. OSum(bk[side] \ {o}, a) = OSum(bk[side], a) - Share(o, a) BY <2>1, OSumRemove
  <2> QED BY <1>1, <2>2 DEF Share
<1> HIDE DEF b2
<1>f. Fewer(bk[side], b2[side], Who(e), e.qty) BY <1>2 DEF Fewer
<1>3. Counts(m, b2, Append(q, e), pp) BY <1>1, <1>f, CountsAppend
<1> QED BY <1>3 DEF b2

(* An order filled in part: the filled lots are in the queue, the others   *)
(* on the book.                                                            *)
LEMMA CountsShrink ==
  ASSUME NEW m, NEW bk, NEW q, NEW sl, NEW sq, Desk(m, bk, q, sl, sq), NEW pp,
         Counts(m, bk, q, pp),
         NEW side \in Sides, NEW o \in bk[side], NEW p \in OrderSet, p \notin bk[side] \ {o},
         p.owner = o.owner,
         NEW e \in EventSet, Who(e) = o.owner, SideOf(e) = side, p.qty = o.qty - e.qty
  PROVE  Counts(m, [bk EXCEPT ![side] = (@ \ {o}) \cup {p}], Append(q, e), pp)
<1> DEFINE b2 == [bk EXCEPT ![side] = (@ \ {o}) \cup {p}]
<1>1. b2 \in Books /\ b2[side] = (bk[side] \ {o}) \cup {p} /\ \A d \in Sides : d # side => b2[d] = bk[d]
  BY DEF Desk, Books
<1>2. ASSUME NEW a \in Accounts
      PROVE  OSum(b2[side], a) = OSum(bk[side], a) - (IF Who(e) = a THEN e.qty ELSE 0)
  <2>1. IsFiniteSet(bk[side]) /\ bk[side] \subseteq OrderSet BY CountInts
  <2>2. OSum(bk[side] \ {o}, a) = OSum(bk[side], a) - Share(o, a) BY <2>1, OSumRemove
  <2>3. IsFiniteSet(bk[side] \ {o}) /\ bk[side] \ {o} \subseteq OrderSet BY <2>1, FS_RemoveElement
  <2>4. OSum((bk[side] \ {o}) \cup {p}, a) = OSum(bk[side] \ {o}, a) + Share(p, a)
    BY <2>3, OSumAdd
  <2>5. o.qty \in Int /\ p.qty \in Int /\ e.qty \in Int BY <2>1, EventParts DEF OrderSet, Lots
  <2>6. OSum(bk[side], a) \in Int BY CountInts
  <2>7. Share(o, a) = (IF o.owner = a THEN o.qty ELSE 0) /\ Share(p, a) = (IF o.owner = a THEN p.qty ELSE 0)
    BY DEF Share
  <2>8. OSum(b2[side], a) = OSum(bk[side], a) - Share(o, a) + Share(p, a) BY <1>1, <2>2, <2>4
  <2> QED BY <2>5, <2>6, <2>7, <2>8
<1> HIDE DEF b2
<1>f. Fewer(bk[side], b2[side], Who(e), e.qty) BY <1>2 DEF Fewer
<1>3. Counts(m, b2, Append(q, e), pp) BY <1>1, <1>f, CountsAppend
<1> QED BY <1>3 DEF b2

(* A cancelled order is neither on the book nor counted.                   *)
LEMMA CountsCancel ==
  ASSUME NEW m, NEW bk, NEW q, NEW sl, NEW sq, Desk(m, bk, q, sl, sq), NEW pp,
         Counts(m, bk, q, pp),
         NEW side \in Sides, NEW o \in bk[side], NEW p2, Charged(m, pp, p2, o.owner, side, -o.qty)
  PROVE  Counts(m, [bk EXCEPT ![side] = @ \ {o}], q, p2)
<1> DEFINE b2 == [bk EXCEPT ![side] = @ \ {o}]
<1>1. b2 \in Books /\ b2[side] = bk[side] \ {o} /\ \A d \in Sides : d # side => b2[d] = bk[d]
  BY DEF Desk, Books
<1> HIDE DEF b2
<1>2. ASSUME NEW a \in Accounts, NEW d \in Sides
      PROVE  p2[a][m].on_orders[d] = OSum(b2[d], a) + QSum(OnOrder(a, d), q)
  <2>1. IsFiniteSet(bk[side]) /\ bk[side] \subseteq OrderSet BY CountInts
  <2>2. OSum(bk[side] \ {o}, a) = OSum(bk[side], a) - Share(o, a) BY <2>1, OSumRemove
  <2>3. OSum(bk[d], a) \in Int /\ QSum(OnOrder(a, d), q) \in Int BY CountInts
  <2>4. o.qty \in Int BY <2>1 DEF OrderSet, Lots
  <2>5. pp[a][m].on_orders[d] = OSum(bk[d], a) + QSum(OnOrder(a, d), q) BY DEF Counts
  <2>6. p2[a][m].on_orders[d]
          = pp[a][m].on_orders[d] + (IF a = o.owner /\ d = side THEN -o.qty ELSE 0)
    BY DEF Charged
  <2>7. OSum(b2[d], a) = OSum(bk[d], a) - (IF a = o.owner /\ d = side THEN o.qty ELSE 0)
    <3>1. CASE d # side BY <1>1, <2>3, <3>1
    <3>2. CASE d = side
      <4> Share(o, a) = IF a = o.owner THEN o.qty ELSE 0 BY DEF Share
      <4> QED BY <1>1, <2>2, <3>2
    <3> QED BY <3>1, <3>2
  <2> QED BY <2>3, <2>4, <2>5, <2>6, <2>7
<1>3. Counts(m, b2, q, p2) BY <1>2 DEF Counts
<1> QED BY <1>3 DEF b2

(* Consuming an event takes its lots out of the queue and out of the       *)
(* count.                                                                  *)
LEMMA CountsTail ==
  ASSUME NEW m, NEW bk, NEW q, NEW sl, NEW sq, Desk(m, bk, q, sl, sq), q # <<>>, NEW pp,
         Counts(m, bk, q, pp), NEW p2,
         Charged(m, pp, p2, Who(Head(q)), SideOf(Head(q)), -Head(q).qty)
  PROVE  Counts(m, bk, Tail(q), p2)
<1> SUFFICES ASSUME NEW a \in Accounts, NEW d \in Sides
             PROVE  p2[a][m].on_orders[d] = OSum(bk[d], a) + QSum(OnOrder(a, d), Tail(q))
  BY DEF Counts
<1> DEFINE e == Head(q)
<1>1. q \in Seq(EventSet) /\ OSum(bk[d], a) \in Int /\ QSum(OnOrder(a, d), q) \in Int BY CountInts
<1>2. e \in EventSet BY <1>1, TailEvents
<1>3. QSum(OnOrder(a, d), Tail(q)) = QSum(OnOrder(a, d), q) - OnOrder(a, d)[e]
  BY <1>1, Weights, QSumTail
<1> HIDE DEF e
<1>4. OnOrder(a, d)[e] = IF a = Who(e) /\ d = SideOf(e) THEN e.qty ELSE 0 BY <1>2 DEF OnOrder
<1>5. e.qty \in Int BY <1>2, EventParts
<1>6. pp[a][m].on_orders[d] = OSum(bk[d], a) + QSum(OnOrder(a, d), q) BY DEF Counts
<1>7. p2[a][m].on_orders[d]
        = pp[a][m].on_orders[d] + (IF a = Who(e) /\ d = SideOf(e) THEN -e.qty ELSE 0)
  BY DEF Charged, e
<1> QED BY <1>1, <1>3, <1>4, <1>5, <1>6, <1>7

(* A posted order is on the book and counted.                              *)
LEMMA CountsPost ==
  ASSUME NEW m, NEW bk, NEW q, NEW sl, NEW sq, Desk(m, bk, q, sl, sq), NEW pp,
         Counts(m, bk, q, pp),
         NEW side \in Sides, NEW o \in OrderSet, o \notin bk[side],
         NEW p2, Charged(m, pp, p2, o.owner, side, o.qty)
  PROVE  Counts(m, [bk EXCEPT ![side] = @ \cup {o}], q, p2)
<1> DEFINE b2 == [bk EXCEPT ![side] = @ \cup {o}]
<1>1. b2 \in Books /\ b2[side] = bk[side] \cup {o} /\ \A d \in Sides : d # side => b2[d] = bk[d]
  BY DEF Desk, Books
<1> HIDE DEF b2
<1>2. ASSUME NEW a \in Accounts, NEW d \in Sides
      PROVE  p2[a][m].on_orders[d] = OSum(b2[d], a) + QSum(OnOrder(a, d), q)
  <2>1. IsFiniteSet(bk[side]) /\ bk[side] \subseteq OrderSet BY CountInts
  <2>2. OSum(bk[side] \cup {o}, a) = OSum(bk[side], a) + Share(o, a) BY <2>1, OSumAdd
  <2>3. OSum(bk[d], a) \in Int /\ QSum(OnOrder(a, d), q) \in Int BY CountInts
  <2>4. o.qty \in Int BY <2>1 DEF OrderSet, Lots
  <2>5. pp[a][m].on_orders[d] = OSum(bk[d], a) + QSum(OnOrder(a, d), q) BY DEF Counts
  <2>6. p2[a][m].on_orders[d]
          = pp[a][m].on_orders[d] + (IF a = o.owner /\ d = side THEN o.qty ELSE 0)
    BY DEF Charged
  <2>7. OSum(b2[d], a) = OSum(bk[d], a) + (IF a = o.owner /\ d = side THEN o.qty ELSE 0)
    <3>1. CASE d # side BY <1>1, <2>3, <3>1
    <3>2. CASE d = side
      <4> Share(o, a) = IF a = o.owner THEN o.qty ELSE 0 BY DEF Share
      <4> QED BY <1>1, <2>2, <3>2
    <3> QED BY <3>1, <3>2
  <2> QED BY <2>3, <2>4, <2>5, <2>6, <2>7
<1>3. Counts(m, b2, q, p2) BY <1>2 DEF Counts
<1> QED BY <1>3 DEF b2

-----------------------------------------------------------------------------
(***************************************************************************)
(* Positions: the sums over all accounts, and what a trade does to them.   *)
(***************************************************************************)

Works == [book : Books, perp : Perps, slots : Tables, open_interest : Int, ok : BOOLEAN]

Set(pp, a, m, pa) == [pp EXCEPT ![a][m] = pa]

(* Setting one perp account changes no other.                              *)
LEMMA SetProps ==
  ASSUME NEW pp \in Perps, NEW a \in Accounts, NEW m \in Markets, NEW pa \in PerpSet
  PROVE  /\ Set(pp, a, m, pa) \in Perps
         /\ Set(pp, a, m, pa)[a][m] = pa
         /\ \A b \in Accounts : b # a => Set(pp, a, m, pa)[b] = pp[b]
         /\ \A b \in Accounts, n \in Markets : n # m => Set(pp, a, m, pa)[b][n] = pp[b][n]
BY DEF Set, Perps

(* The parts of a perp account have their types.                           *)
LEMMA PerpParts ==
  ASSUME NEW pp \in Perps, NEW a \in Accounts, NEW m \in Markets
  PROVE  /\ pp[a][m] \in PerpSet
         /\ pp[a][m].base \in Int /\ pp[a][m].quote \in Int /\ pp[a][m].settled \in Int
         /\ pp[a][m].taker_base \in Int /\ pp[a][m].taker_quote \in Int
         /\ \A d \in Sides : pp[a][m].on_orders[d] \in Int
<1>1. pp[a][m] \in PerpSet BY DEF Perps
<1> QED BY <1>1 DEF PerpSet

(* The sums over all accounts of a market. *)
Worth(pa) == pa.quote + pa.base * pa.settled

BaseSum(m, pp) == SumFunctionOnSet([a \in Accounts |-> pp[a][m].base], Accounts)
SizeSum(m, pp) == SumFunctionOnSet([a \in Accounts |-> Abs(pp[a][m].base)], Accounts)
WorthSum(m, pp) == SumFunctionOnSet([a \in Accounts |-> Worth(pp[a][m])], Accounts)

(* The amounts added up over the accounts are integers.                    *)
LEMMA WorthInt == ASSUME NEW pa \in PerpSet PROVE Worth(pa) \in Int /\ Abs(pa.base) \in Int /\ pa.base \in Int
<1>1. pa.quote \in Int /\ pa.base \in Int /\ pa.settled \in Int BY DEF PerpSet
<1>2. pa.base * pa.settled \in Int BY <1>1
<1> QED BY <1>1, <1>2 DEF Worth, Abs

(* The sums over all accounts are integers.                                *)
LEMMA SumsInt ==
  ASSUME NEW pp \in Perps, NEW m \in Markets
  PROVE  BaseSum(m, pp) \in Int /\ SizeSum(m, pp) \in Int /\ WorthSum(m, pp) \in Int
<1>0. IsFiniteSet(Accounts) BY PerpAssumption
<1>1. \A a \in Accounts : pp[a][m] \in PerpSet BY PerpParts
<1>2. \A a \in Accounts : Worth(pp[a][m]) \in Int /\ Abs(pp[a][m].base) \in Int /\ pp[a][m].base \in Int
  BY <1>1, WorthInt
<1>3. BaseSum(m, pp) \in Int
  <2> DEFINE f == [a \in Accounts |-> pp[a][m].base]
  <2>1. \A a \in Accounts : f[a] \in Int BY <1>2
  <2> HIDE DEF f
  <2>2. SumFunctionOnSet(f, Accounts) \in Int BY <1>0, <2>1, SumInt
  <2> QED BY <2>2 DEF BaseSum, f
<1>4. SizeSum(m, pp) \in Int
  <2> DEFINE f == [a \in Accounts |-> Abs(pp[a][m].base)]
  <2>1. \A a \in Accounts : f[a] \in Int BY <1>2
  <2> HIDE DEF f
  <2>2. SumFunctionOnSet(f, Accounts) \in Int BY <1>0, <2>1, SumInt
  <2> QED BY <2>2 DEF SizeSum, f
<1>5. WorthSum(m, pp) \in Int
  <2> DEFINE f == [a \in Accounts |-> Worth(pp[a][m])]
  <2>1. \A a \in Accounts : f[a] \in Int BY <1>2
  <2> HIDE DEF f
  <2>2. SumFunctionOnSet(f, Accounts) \in Int BY <1>0, <2>1, SumInt
  <2> QED BY <2>2 DEF WorthSum, f
<1> QED BY <1>3, <1>4, <1>5

(* When one account of a market changes, the sums change by its            *)
(* difference.                                                             *)
LEMMA SumsSet ==
  ASSUME NEW pp \in Perps, NEW m \in Markets, NEW a \in Accounts, NEW p2 \in Perps,
         \A b \in Accounts : b # a => p2[b][m] = pp[b][m]
  PROVE  /\ BaseSum(m, p2) = BaseSum(m, pp) + (p2[a][m].base - pp[a][m].base)
         /\ SizeSum(m, p2) = SizeSum(m, pp) + (Abs(p2[a][m].base) - Abs(pp[a][m].base))
         /\ WorthSum(m, p2) = WorthSum(m, pp) + (Worth(p2[a][m]) - Worth(pp[a][m]))
<1>0. IsFiniteSet(Accounts) BY PerpAssumption
<1>1. \A b \in Accounts : pp[b][m] \in PerpSet /\ p2[b][m] \in PerpSet BY PerpParts
<1>2. \A b \in Accounts : /\ Worth(pp[b][m]) \in Int /\ Abs(pp[b][m].base) \in Int /\ pp[b][m].base \in Int
                          /\ Worth(p2[b][m]) \in Int /\ Abs(p2[b][m].base) \in Int /\ p2[b][m].base \in Int
  BY <1>1, WorthInt
<1>3. BaseSum(m, p2) = BaseSum(m, pp) + (p2[a][m].base - pp[a][m].base)
  <2> DEFINE f == [b \in Accounts |-> pp[b][m].base]
             g == [b \in Accounts |-> p2[b][m].base]
  <2>1. \A b \in Accounts : f[b] \in Int /\ g[b] \in Int BY <1>2
  <2>2. \A b \in Accounts \ {a} : g[b] = f[b] OBVIOUS
  <2>3. f[a] = pp[a][m].base /\ g[a] = p2[a][m].base OBVIOUS
  <2> HIDE DEF f, g
  <2>4. SumFunctionOnSet(g, Accounts) = SumFunctionOnSet(f, Accounts) + (g[a] - f[a])
    BY <1>0, <2>1, <2>2, SumUpdate
  <2> QED BY <2>3, <2>4 DEF BaseSum, f, g
<1>4. SizeSum(m, p2) = SizeSum(m, pp) + (Abs(p2[a][m].base) - Abs(pp[a][m].base))
  <2> DEFINE f == [b \in Accounts |-> Abs(pp[b][m].base)]
             g == [b \in Accounts |-> Abs(p2[b][m].base)]
  <2>1. \A b \in Accounts : f[b] \in Int /\ g[b] \in Int BY <1>2
  <2>2. \A b \in Accounts \ {a} : g[b] = f[b] OBVIOUS
  <2>3. f[a] = Abs(pp[a][m].base) /\ g[a] = Abs(p2[a][m].base) OBVIOUS
  <2> HIDE DEF f, g
  <2>4. SumFunctionOnSet(g, Accounts) = SumFunctionOnSet(f, Accounts) + (g[a] - f[a])
    BY <1>0, <2>1, <2>2, SumUpdate
  <2> QED BY <2>3, <2>4 DEF SizeSum, f, g
<1>5. WorthSum(m, p2) = WorthSum(m, pp) + (Worth(p2[a][m]) - Worth(pp[a][m]))
  <2> DEFINE f == [b \in Accounts |-> Worth(pp[b][m])]
             g == [b \in Accounts |-> Worth(p2[b][m])]
  <2>1. \A b \in Accounts : f[b] \in Int /\ g[b] \in Int BY <1>2
  <2>2. \A b \in Accounts \ {a} : g[b] = f[b] OBVIOUS
  <2>3. f[a] = Worth(pp[a][m]) /\ g[a] = Worth(p2[a][m]) OBVIOUS
  <2> HIDE DEF f, g
  <2>4. SumFunctionOnSet(g, Accounts) = SumFunctionOnSet(f, Accounts) + (g[a] - f[a])
    BY <1>0, <2>1, <2>2, SumUpdate
  <2> QED BY <2>3, <2>4 DEF WorthSum, f, g
<1> QED BY <1>3, <1>4, <1>5

(* Nothing of another market changes. *)
Apart(m, pp, p2) == \A b \in Accounts, n \in Markets : n # m => p2[b][n] = pp[b][n]

(* What an instruction does to the accounts in market m: account a gains base, its pending *)
(* amounts change by tb and tq, its lots on order of one side by lots.                     *)
Effect(m, pp, p2, a, base, tb, tq, side, lots) ==
  /\ Apart(m, pp, p2)
  /\ \A b \in Accounts :
       /\ p2[b][m].base = pp[b][m].base + (IF b = a THEN base ELSE 0)
       /\ p2[b][m].taker_base = pp[b][m].taker_base + (IF b = a THEN tb ELSE 0)
       /\ p2[b][m].taker_quote = pp[b][m].taker_quote + (IF b = a THEN tq ELSE 0)
       /\ \A d \in Sides :
            p2[b][m].on_orders[d] = pp[b][m].on_orders[d] + (IF b = a /\ d = side THEN lots ELSE 0)

(* Setting one perp account has the effect its new fields say.             *)
LEMMA EffectSet ==
  ASSUME NEW pp \in Perps, NEW a \in Accounts, NEW m \in Markets, NEW pa \in PerpSet,
         NEW base, NEW tb, NEW tq, NEW side, NEW lots,
         pa.base = pp[a][m].base + base, pa.taker_base = pp[a][m].taker_base + tb,
         pa.taker_quote = pp[a][m].taker_quote + tq,
         \A d \in Sides : pa.on_orders[d] = pp[a][m].on_orders[d] + (IF d = side THEN lots ELSE 0)
  PROVE  Effect(m, pp, Set(pp, a, m, pa), a, base, tb, tq, side, lots)
<1> DEFINE p2 == Set(pp, a, m, pa)
<1>1. /\ p2 \in Perps /\ p2[a][m] = pa /\ \A b \in Accounts : b # a => p2[b] = pp[b]
      /\ \A b \in Accounts, n \in Markets : n # m => p2[b][n] = pp[b][n]
  BY SetProps
<1> HIDE DEF p2
<1>2. ASSUME NEW b \in Accounts
      PROVE  /\ p2[b][m].base = pp[b][m].base + (IF b = a THEN base ELSE 0)
             /\ p2[b][m].taker_base = pp[b][m].taker_base + (IF b = a THEN tb ELSE 0)
             /\ p2[b][m].taker_quote = pp[b][m].taker_quote + (IF b = a THEN tq ELSE 0)
             /\ \A d \in Sides :
                  p2[b][m].on_orders[d] = pp[b][m].on_orders[d] + (IF b = a /\ d = side THEN lots ELSE 0)
  <2>1. CASE b = a BY <1>1, <2>1
  <2>2. CASE b # a
    <3>1. p2[b][m] = pp[b][m] BY <1>1, <2>2
    <3> QED BY <2>2, <3>1, PerpParts
  <2> QED BY <2>1, <2>2
<1>3. Effect(m, pp, p2, a, base, tb, tq, side, lots) BY <1>1, <1>2 DEF Effect, Apart
<1> QED BY <1>3 DEF p2

-----------------------------------------------------------------------------
Traded(pa, f, base, quote) ==
  [pa EXCEPT !.quote = @ - pa.base * (f - pa.settled) + quote, !.settled = f, !.base = @ + base]

(* PerpAccount::change_base_position after settle_funding: the worth of    *)
(* the account grows by quote and base at the current funding.             *)
LEMMA TradedProps ==
  ASSUME NEW pa \in PerpSet, NEW f \in Int, NEW base \in Int, NEW quote \in Int
  PROVE  LET p == Traded(pa, f, base, quote)
         IN  /\ p \in PerpSet /\ p.base = pa.base + base
             /\ p.taker_base = pa.taker_base /\ p.taker_quote = pa.taker_quote
             /\ p.on_orders = pa.on_orders
             /\ Worth(p) = Worth(pa) + quote + base * f
<1> DEFINE p == Traded(pa, f, base, quote)
<1>0. pa.quote \in Int /\ pa.base \in Int /\ pa.settled \in Int BY DEF PerpSet
<1>1. /\ p.base = pa.base + base /\ p.settled = f
      /\ p.quote = pa.quote - pa.base * (f - pa.settled) + quote
      /\ p.taker_base = pa.taker_base /\ p.taker_quote = pa.taker_quote
      /\ p.on_orders = pa.on_orders
  BY DEF Traded, PerpSet
<1>2. pa.base * (f - pa.settled) = pa.base * f - pa.base * pa.settled
      /\ pa.base * f \in Int /\ pa.base * pa.settled \in Int
  BY <1>0
<1>3. (pa.base + base) * f = pa.base * f + base * f /\ base * f \in Int BY <1>0
<1>4. p \in PerpSet
  <2>1. pa.quote - pa.base * (f - pa.settled) + quote \in Int /\ pa.base + base \in Int BY <1>0, <1>2
  <2> QED BY <2>1 DEF Traded, PerpSet
<1>5. Worth(p) = Worth(pa) + quote + base * f
  <2>1. Worth(p) = (pa.quote - (pa.base * f - pa.base * pa.settled) + quote) + (pa.base * f + base * f)
    BY <1>1, <1>2, <1>3 DEF Worth
  <2>2. Worth(pa) = pa.quote + pa.base * pa.settled BY DEF Worth
  <2> QED BY <1>0, <1>2, <1>3, <2>1, <2>2
<1> QED BY <1>1, <1>4, <1>5

(* A trade of one account: base, open interest and worth of the market     *)
(* change by what was traded.                                              *)
LEMMA TradeStep ==
  ASSUME NEW m \in Markets, NEW w \in Works, NEW a \in Accounts, NEW base \in Int, NEW quote \in Int,
         market[m].funding \in Int, NEW w2, w2 = Trade(w, a, m, base, quote)
  PROVE  /\ w2 \in Works
         /\ w2.book = w.book /\ w2.slots = w.slots /\ w2.ok = w.ok
         /\ w2.open_interest - SizeSum(m, w2.perp) = w.open_interest - SizeSum(m, w.perp)
         /\ BaseSum(m, w2.perp) = BaseSum(m, w.perp) + base
         /\ WorthSum(m, w2.perp) = WorthSum(m, w.perp) + (quote + base * market[m].funding)
         /\ Effect(m, w.perp, w2.perp, a, base, 0, 0, "bid", 0)
<1> DEFINE pp == w.perp
           f == market[m].funding
           pa == pp[a][m]
           pb == Traded(pa, f, base, quote)
           p2 == Set(pp, a, m, pb)
<1>0. pp \in Perps /\ w.open_interest \in Int BY DEF Works
<1>1. pa \in PerpSet BY <1>0, PerpParts
<1>2. /\ pb \in PerpSet /\ pb.base = pa.base + base
      /\ pb.taker_base = pa.taker_base /\ pb.taker_quote = pa.taker_quote /\ pb.on_orders = pa.on_orders
      /\ Worth(pb) = Worth(pa) + quote + base * f
  BY <1>1, TradedProps
<1>3. w2 = [w EXCEPT !.perp = p2, !.open_interest = @ + Abs(pa.base + base) - Abs(pa.base)]
  BY DEF Trade, Traded, Set, Works
<1>4. p2 \in Perps /\ p2[a][m] = pb /\ \A b \in Accounts : b # a => p2[b] = pp[b]
  BY <1>0, <1>2, SetProps
<1>5. Effect(m, pp, p2, a, base, 0, 0, "bid", 0)
  <2>1. \A d \in Sides : pb.on_orders[d] = pp[a][m].on_orders[d] + (IF d = "bid" THEN 0 ELSE 0)
    BY <1>0, <1>2, PerpParts
  <2>2. pb.taker_base = pp[a][m].taker_base + 0 /\ pb.taker_quote = pp[a][m].taker_quote + 0
    BY <1>0, <1>2, PerpParts
  <2>3. pb.base = pp[a][m].base + base BY <1>2
  <2> HIDE DEF pb, pp
  <2> QED BY <1>0, <1>2, <2>1, <2>2, <2>3, EffectSet
<1>6. \A b \in Accounts : b # a => p2[b][m] = pp[b][m] BY <1>4
<1> HIDE DEF p2, pb, pp
<1>7. /\ BaseSum(m, p2) = BaseSum(m, pp) + (p2[a][m].base - pp[a][m].base)
      /\ SizeSum(m, p2) = SizeSum(m, pp) + (Abs(p2[a][m].base) - Abs(pp[a][m].base))
      /\ WorthSum(m, p2) = WorthSum(m, pp) + (Worth(p2[a][m]) - Worth(pp[a][m]))
  BY <1>0, <1>4, <1>6, SumsSet
<1>8. /\ BaseSum(m, pp) \in Int /\ SizeSum(m, pp) \in Int /\ WorthSum(m, pp) \in Int BY <1>0, SumsInt
<1>9. Worth(pa) \in Int /\ Abs(pa.base) \in Int /\ pa.base \in Int /\ Abs(pb.base) \in Int
  BY <1>1, <1>2, WorthInt
<1>10. base * f \in Int OBVIOUS
<1>11. BaseSum(m, p2) = BaseSum(m, pp) + base BY <1>2, <1>4, <1>7, <1>8, <1>9
<1>12. WorthSum(m, p2) = WorthSum(m, pp) + (quote + base * f)
  BY <1>2, <1>4, <1>7, <1>8, <1>9, <1>10
<1>13. SizeSum(m, p2) = SizeSum(m, pp) + (Abs(pa.base + base) - Abs(pa.base)) BY <1>2, <1>4, <1>7
<1>14. Abs(pa.base + base) \in Int BY <1>2, <1>9
<1>15. /\ w2.perp = p2 /\ w2.open_interest = w.open_interest + Abs(pa.base + base) - Abs(pa.base)
       /\ w2.book = w.book /\ w2.slots = w.slots /\ w2.ok = w.ok
  BY <1>3 DEF Works
<1>16. w2 \in Works
  <2> w.open_interest + Abs(pa.base + base) - Abs(pa.base) \in Int BY <1>0, <1>9, <1>14
  <2> QED BY <1>3, <1>4 DEF Works
<1>17. w2.open_interest - SizeSum(m, w2.perp) = w.open_interest - SizeSum(m, pp)
  BY <1>0, <1>8, <1>9, <1>13, <1>14, <1>15
<1> QED BY <1>5, <1>11, <1>12, <1>15, <1>16, <1>17 DEF pp

(* The sums are those of before. *)
Level(m, pp, p2) ==
  /\ BaseSum(m, p2) = BaseSum(m, pp) /\ SizeSum(m, p2) = SizeSum(m, pp)
  /\ WorthSum(m, p2) = WorthSum(m, pp)

(* A change that keeps base and worth of an account keeps the sums.        *)
LEMMA LevelSet ==
  ASSUME NEW pp \in Perps, NEW m \in Markets, NEW a \in Accounts, NEW pa \in PerpSet,
         pa.base = pp[a][m].base, Worth(pa) = Worth(pp[a][m])
  PROVE  Level(m, pp, Set(pp, a, m, pa))
<1> DEFINE p2 == Set(pp, a, m, pa)
<1>1. p2 \in Perps /\ p2[a][m] = pa /\ \A b \in Accounts : b # a => p2[b] = pp[b] BY SetProps
<1>2. \A b \in Accounts : b # a => p2[b][m] = pp[b][m] BY <1>1
<1> HIDE DEF p2
<1>3. /\ BaseSum(m, p2) = BaseSum(m, pp) + (p2[a][m].base - pp[a][m].base)
      /\ SizeSum(m, p2) = SizeSum(m, pp) + (Abs(p2[a][m].base) - Abs(pp[a][m].base))
      /\ WorthSum(m, p2) = WorthSum(m, pp) + (Worth(p2[a][m]) - Worth(pp[a][m]))
  BY <1>1, <1>2, SumsSet
<1>4. BaseSum(m, pp) \in Int /\ SizeSum(m, pp) \in Int /\ WorthSum(m, pp) \in Int BY SumsInt
<1>5. Worth(pa) \in Int /\ Abs(pa.base) \in Int /\ pa.base \in Int BY WorthInt
<1>6. Level(m, pp, p2) BY <1>1, <1>3, <1>4, <1>5 DEF Level
<1> QED BY <1>6 DEF p2

Freed(pa, side, qty) == [pa EXCEPT !.on_orders[side] = @ - qty]

(* Lots taken off the count of an account leave the sums alone.            *)
LEMMA FreedProps ==
  ASSUME NEW pp \in Perps, NEW m \in Markets, NEW a \in Accounts, NEW side \in Sides, NEW qty \in Int
  PROVE  LET p2 == Set(pp, a, m, Freed(pp[a][m], side, qty))
         IN  /\ p2 \in Perps /\ Level(m, pp, p2) /\ Effect(m, pp, p2, a, 0, 0, 0, side, -qty)
<1> DEFINE pa == pp[a][m]
           pb == Freed(pa, side, qty)
<1>1. /\ pa \in PerpSet /\ pa.base \in Int /\ pa.taker_base \in Int /\ pa.taker_quote \in Int
      /\ \A d \in Sides : pa.on_orders[d] \in Int /\ pa.on_orders \in [Sides -> Int]
  BY PerpParts DEF PerpSet
<1>2. /\ pb \in PerpSet /\ pb.base = pa.base /\ pb.quote = pa.quote /\ pb.settled = pa.settled
      /\ pb.taker_base = pa.taker_base /\ pb.taker_quote = pa.taker_quote
      /\ pb.on_orders = [pa.on_orders EXCEPT ![side] = @ - qty]
  BY <1>1 DEF Freed, PerpSet
<1>3. Worth(pb) = Worth(pa) BY <1>2 DEF Worth
<1>4. \A d \in Sides : pb.on_orders[d] = pa.on_orders[d] + (IF d = side THEN -qty ELSE 0)
  BY <1>1, <1>2
<1>5. pb.base = pa.base + 0 /\ pb.taker_base = pa.taker_base + 0 /\ pb.taker_quote = pa.taker_quote + 0
  BY <1>1, <1>2
<1> HIDE DEF pb
<1>6. Effect(m, pp, Set(pp, a, m, pb), a, 0, 0, 0, side, -qty) BY <1>2, <1>4, <1>5, EffectSet
<1>7. Level(m, pp, Set(pp, a, m, pb)) BY <1>2, <1>3, LevelSet
<1>8. Set(pp, a, m, pb) \in Perps BY <1>2, SetProps
<1> QED BY <1>6, <1>7, <1>8 DEF pb

(* The accounts with qty lots less on order. *)
Release(w, a, m, side, qty) == [w EXCEPT !.perp[a][m].on_orders[side] = @ - qty]

(* The same on a working copy.                                             *)
LEMMA FreedStep ==
  ASSUME NEW m \in Markets, NEW w \in Works, NEW a \in Accounts, NEW side \in Sides, NEW qty \in Int,
         NEW w2, w2 = Release(w, a, m, side, qty)
  PROVE  /\ w2 \in Works
         /\ w2.book = w.book /\ w2.slots = w.slots /\ w2.ok = w.ok /\ w2.open_interest = w.open_interest
         /\ Level(m, w.perp, w2.perp) /\ Effect(m, w.perp, w2.perp, a, 0, 0, 0, side, -qty)
<1> DEFINE p2 == Set(w.perp, a, m, Freed(w.perp[a][m], side, qty))
<1>0. w.perp \in Perps BY DEF Works
<1>1. p2 \in Perps /\ Level(m, w.perp, p2) /\ Effect(m, w.perp, p2, a, 0, 0, 0, side, -qty)
  BY <1>0, FreedProps
<1>2. w2 = [w EXCEPT !.perp = p2] BY DEF Release, Freed, Set, Works
<1> HIDE DEF p2
<1>3. /\ w2.perp = p2 /\ w2.book = w.book /\ w2.slots = w.slots /\ w2.ok = w.ok
      /\ w2.open_interest = w.open_interest /\ w2 \in Works
  BY <1>1, <1>2 DEF Works
<1> QED BY <1>1, <1>3

(* MangoAccount::remove_order on an occupied slot: it succeeds, frees the  *)
(* slot and takes the lots off the count.                                  *)
LEMMA RemoveStep ==
  ASSUME NEW m \in Markets, NEW w \in Works, NEW a \in Accounts, NEW s \in Slot, NEW side \in Sides,
         NEW qty \in Int, Mine(m, w.slots[a][s]), w.slots[a][s].side = side,
         NEW w2, w2 = remove_order(w, a, s, qty)
  PROVE  /\ w2 \in Works
         /\ w2.book = w.book /\ w2.ok = w.ok /\ w2.open_interest = w.open_interest
         /\ w2.slots = Put(w.slots, a, s, Free) /\ Foreign(m, w.slots, w2.slots)
         /\ Level(m, w.perp, w2.perp) /\ Effect(m, w.perp, w2.perp, a, 0, 0, 0, side, -qty)
<1> DEFINE p2 == Set(w.perp, a, m, Freed(w.perp[a][m], side, qty))
           s2 == Put(w.slots, a, s, Free)
<1>0. w.perp \in Perps /\ w.slots \in Tables BY DEF Works
<1>1. p2 \in Perps /\ Level(m, w.perp, p2) /\ Effect(m, w.perp, p2, a, 0, 0, 0, side, -qty)
  BY <1>0, FreedProps
<1>2. w2 = [w EXCEPT !.perp = p2, !.slots = s2]
  <2>1. w.slots[a][s] # Free /\ w.slots[a][s].market = m BY DEF Mine
  <2>2. w2 = [w EXCEPT !.perp[a][m].on_orders[side] = @ - qty, !.slots[a][s] = Free]
    BY <2>1 DEF remove_order
  <2> QED BY <2>2 DEF Freed, Set, Put, Works
<1>3. s2 \in Tables BY <1>0, PutProps
<1>4. Foreign(m, w.slots, s2) BY <1>0, ForeignPut DEF Mine
<1> HIDE DEF p2, s2
<1>5. /\ w2.perp = p2 /\ w2.book = w.book /\ w2.slots = s2 /\ w2.ok = w.ok
      /\ w2.open_interest = w.open_interest /\ w2 \in Works
  BY <1>1, <1>2, <1>3 DEF Works
<1> QED BY <1>1, <1>4, <1>5 DEF s2

Pended(pa, base, quote) == [pa EXCEPT !.taker_base = @ - base, !.taker_quote = @ - quote]

(* A perp account with other pending amounts is one.                       *)
LEMMA PendedType ==
  ASSUME NEW pa \in PerpSet, NEW base \in Int, NEW quote \in Int
  PROVE  Pended(pa, base, quote) \in PerpSet
<1>1. pa.taker_base - base \in Int /\ pa.taker_quote - quote \in Int BY DEF PerpSet
<1> QED BY <1>1 DEF Pended, PerpSet

(* The accounts with a taker's pending amounts taken back. *)
TakeBack(w, a, m, base, quote) ==
  [w EXCEPT !.perp[a][m].taker_base = @ - base, !.perp[a][m].taker_quote = @ - quote]

(* Taking pending amounts back leaves the sums alone.                      *)
LEMMA PendStep ==
  ASSUME NEW m \in Markets, NEW w \in Works, NEW a \in Accounts, NEW base \in Int, NEW quote \in Int,
         NEW w2, w2 = TakeBack(w, a, m, base, quote)
  PROVE  /\ w2 \in Works
         /\ w2.book = w.book /\ w2.slots = w.slots /\ w2.ok = w.ok /\ w2.open_interest = w.open_interest
         /\ Level(m, w.perp, w2.perp) /\ Effect(m, w.perp, w2.perp, a, 0, -base, -quote, "bid", 0)
<1> DEFINE pp == w.perp
           pa == pp[a][m]
           pb == Pended(pa, base, quote)
           p2 == Set(pp, a, m, pb)
<1>0. pp \in Perps BY DEF Works
<1>1. /\ pa \in PerpSet /\ pa.base \in Int /\ pa.taker_base \in Int /\ pa.taker_quote \in Int
      /\ \A d \in Sides : pa.on_orders[d] \in Int
  BY <1>0, PerpParts
<1>2. /\ pb.base = pa.base /\ pb.quote = pa.quote /\ pb.settled = pa.settled
      /\ pb.taker_base = pa.taker_base - base /\ pb.taker_quote = pa.taker_quote - quote
      /\ pb.on_orders = pa.on_orders
  BY <1>1 DEF Pended, PerpSet
<1>3. pb \in PerpSet BY <1>1, PendedType
<1>4. Worth(pb) = Worth(pa) BY <1>2 DEF Worth
<1>5. \A d \in Sides : pb.on_orders[d] = pa.on_orders[d] + (IF d = "bid" THEN 0 ELSE 0)
  BY <1>1, <1>2
<1>6. /\ pb.base = pa.base + 0 /\ pb.taker_base = pa.taker_base + (-base)
      /\ pb.taker_quote = pa.taker_quote + (-quote)
  BY <1>1, <1>2
<1>7. w2 = [w EXCEPT !.perp = p2] BY DEF TakeBack, Pended, Set, Works, Perps, PerpSet
<1> HIDE DEF pb, pp
<1>8. Effect(m, pp, p2, a, 0, -base, -quote, "bid", 0) BY <1>0, <1>3, <1>5, <1>6, EffectSet
<1>9. Level(m, pp, p2) BY <1>0, <1>2, <1>3, <1>4, LevelSet
<1>10. p2 \in Perps BY <1>0, <1>3, SetProps
<1> HIDE DEF p2
<1>11. /\ w2.perp = p2 /\ w2.book = w.book /\ w2.slots = w.slots /\ w2.ok = w.ok
      /\ w2.open_interest = w.open_interest /\ w2 \in Works
  BY <1>7, <1>10 DEF Works
<1> QED BY <1>8, <1>9, <1>11 DEF pp

-----------------------------------------------------------------------------
(***************************************************************************)
(* Consuming the queue.                                                    *)
(***************************************************************************)

(* taker_base and taker_quote are what the queued fills say. *)
Pending(m, q, pp) ==
  \A a \in Accounts :
    /\ pp[a][m].taker_base = QSum(TakerBase(a), q)
    /\ pp[a][m].taker_quote = QSum(TakerQuote(a), q)

(* A market while an instruction works on it. *)
State(m, w, q, sq, fees) ==
  /\ w \in Works /\ fees \in Int
  /\ Desk(m, w.book, q, w.slots, sq)
  /\ Counts(m, w.book, q, w.perp)
  /\ Pending(m, q, w.perp)
  /\ BaseSum(m, w.perp) = 0
  /\ SizeSum(m, w.perp) = w.open_interest
  /\ WorthSum(m, w.perp) + fees = MakerFee * QSum(Turnover, q)

(* The position of an account once the queue is empty. *)
Complete(a, m, pp, q) == pp[a][m].base + QSum(TakerBase(a), q) + QSum(MakerBase(a), q)

Consumes(m, w, w2, q) ==
  /\ w2.book = w.book /\ w2.ok = w.ok
  /\ Apart(m, w.perp, w2.perp) /\ Foreign(m, w.slots, w2.slots)
  /\ Emptied(Accounts, w.slots, w2.slots)
  /\ \A a \in Accounts : Complete(a, m, w2.perp, Tail(q)) = Complete(a, m, w.perp, q)

(* Consuming an OutEvent keeps a market consistent.                        *)
LEMMA ProcessOut ==
  ASSUME NEW m \in Markets, NEW w, NEW q, NEW sq, NEW fees, State(m, w, q, sq, fees), q # <<>>,
         Head(q).type # "fill"
  PROVE  /\ State(m, Process(w, m, Head(q)), Tail(q), sq, fees)
         /\ Consumes(m, w, Process(w, m, Head(q)), q)
<1> DEFINE e == Head(q)
           w2 == Process(w, m, e)
           side == SideOf(e)
<1>0. /\ w \in Works /\ fees \in Int /\ Desk(m, w.book, q, w.slots, sq)
      /\ Counts(m, w.book, q, w.perp) /\ Pending(m, q, w.perp)
  BY DEF State
<1>1. q \in Seq(EventSet) BY <1>0 DEF Desk
<1>2. e \in EventSet /\ e = q[1] /\ 1 \in 1..Len(q) BY <1>1, TailEvents
<1> HIDE DEF e
<1>3. e.type = "out" BY <1>2 DEF EventSet, OutSet, FillSet, e
<1>4. Who(e) = e.owner /\ Which(e) = e.slot /\ Frees(e) BY <1>3 DEF Who, Which, Frees
<1>5. Who(e) \in Accounts /\ Which(e) \in Slot /\ side \in Sides /\ e.qty \in Int BY <1>2, EventParts
<1>6. Mine(m, w.slots[Who(e)][Which(e)]) /\ w.slots[Who(e)][Which(e)].side = side
  BY <1>0, <1>2, <1>4 DEF Desk, Waiting
<1>7. w2 = remove_order(w, Who(e), Which(e), e.qty) BY <1>3, <1>4 DEF Process
<1> HIDE DEF w2, side
<1>8. /\ w2 \in Works
      /\ w2.book = w.book /\ w2.ok = w.ok /\ w2.open_interest = w.open_interest
      /\ w2.slots = Put(w.slots, Who(e), Which(e), Free) /\ Foreign(m, w.slots, w2.slots)
      /\ Level(m, w.perp, w2.perp) /\ Effect(m, w.perp, w2.perp, Who(e), 0, 0, 0, side, -e.qty)
  BY <1>0, <1>5, <1>6, <1>7, RemoveStep
<1>9. Desk(m, w2.book, Tail(q), w2.slots, sq) BY <1>0, <1>4, <1>8, FreeDesk DEF e
<1>10. Counts(m, w2.book, Tail(q), w2.perp)
  <2>1. Charged(m, w.perp, w2.perp, Who(Head(q)), SideOf(Head(q)), -Head(q).qty)
    BY <1>8 DEF Effect, Charged, e, side
  <2> QED BY <1>0, <1>8, <2>1, CountsTail
<1>11. ASSUME NEW a \in Accounts
       PROVE  /\ QSum(TakerBase(a), Tail(q)) = QSum(TakerBase(a), q)
              /\ QSum(TakerQuote(a), Tail(q)) = QSum(TakerQuote(a), q)
              /\ QSum(MakerBase(a), Tail(q)) = QSum(MakerBase(a), q)
              /\ QSum(TakerBase(a), q) \in Int /\ QSum(TakerQuote(a), q) \in Int
              /\ QSum(MakerBase(a), q) \in Int
  <2>1. TakerBase(a)[e] = 0 /\ TakerQuote(a)[e] = 0 /\ MakerBase(a)[e] = 0
    BY <1>2, <1>3 DEF TakerBase, TakerQuote, MakerBase
  <2>2. TakerBase(a) \in Weight /\ TakerQuote(a) \in Weight /\ MakerBase(a) \in Weight BY Weights
  <2>3. QSum(TakerBase(a), q) \in Int /\ QSum(TakerQuote(a), q) \in Int /\ QSum(MakerBase(a), q) \in Int
    BY <1>1, <2>2, QSumInt
  <2>4. /\ QSum(TakerBase(a), Tail(q)) = QSum(TakerBase(a), q) - TakerBase(a)[e]
        /\ QSum(TakerQuote(a), Tail(q)) = QSum(TakerQuote(a), q) - TakerQuote(a)[e]
        /\ QSum(MakerBase(a), Tail(q)) = QSum(MakerBase(a), q) - MakerBase(a)[e]
    BY <1>1, <2>2, QSumTail DEF e
  <2> QED BY <2>1, <2>3, <2>4
<1>12. QSum(Turnover, Tail(q)) = QSum(Turnover, q)
  <2>1. Turnover[e] = 0 BY <1>2, <1>3 DEF Turnover
  <2>2. Turnover \in Weight BY Weights
  <2>3. QSum(Turnover, q) \in Int BY <1>1, <2>2, QSumInt
  <2>4. QSum(Turnover, Tail(q)) = QSum(Turnover, q) - Turnover[e] BY <1>1, <2>2, QSumTail DEF e
  <2> QED BY <2>1, <2>3, <2>4
<1>13. ASSUME NEW a \in Accounts
       PROVE  /\ w2.perp[a][m].base = w.perp[a][m].base
              /\ w2.perp[a][m].taker_base = w.perp[a][m].taker_base
              /\ w2.perp[a][m].taker_quote = w.perp[a][m].taker_quote
  <2>1. w.perp \in Perps BY <1>0 DEF Works
  <2>2. w.perp[a][m].base \in Int /\ w.perp[a][m].taker_base \in Int /\ w.perp[a][m].taker_quote \in Int
    BY <2>1, PerpParts
  <2> QED BY <1>8, <2>2 DEF Effect
<1>14. Pending(m, Tail(q), w2.perp) BY <1>0, <1>11, <1>13 DEF Pending
<1>15. /\ BaseSum(m, w2.perp) = 0 /\ SizeSum(m, w2.perp) = w2.open_interest
       /\ WorthSum(m, w2.perp) + fees = MakerFee * QSum(Turnover, Tail(q))
  BY <1>8, <1>12 DEF State, Level
<1>16. State(m, w2, Tail(q), sq, fees) BY <1>0, <1>8, <1>9, <1>10, <1>14, <1>15 DEF State
<1>em. Emptied(Accounts, w.slots, w2.slots)
  <2> w.slots \in Tables BY <1>0 DEF Works
  <2> QED BY <1>5, <1>8, EmptiedPut
<1>17. Consumes(m, w, w2, q) BY <1>8, <1>11, <1>13, <1>em DEF Consumes, Effect, Complete
<1> QED BY <1>16, <1>17 DEF w2, e

(* What a fill moves. *)
LEMMA FillWeights ==
  ASSUME NEW q \in Seq(EventSet), q # <<>>, Head(q).type = "fill", NEW a \in Accounts
  PROVE  LET e == Head(q)
             s == Sign(e.taker_side)
         IN  /\ QSum(TakerBase(a), Tail(q)) = QSum(TakerBase(a), q) - (IF e.taker = a THEN s * e.qty ELSE 0)
             /\ QSum(TakerQuote(a), Tail(q))
                  = QSum(TakerQuote(a), q) - (IF e.taker = a THEN -s * (e.qty * e.price) ELSE 0)
             /\ QSum(MakerBase(a), Tail(q)) = QSum(MakerBase(a), q) - (IF e.maker = a THEN -s * e.qty ELSE 0)
             /\ QSum(Turnover, Tail(q)) = QSum(Turnover, q) - e.qty * e.price
             /\ QSum(TakerBase(a), q) \in Int /\ QSum(TakerQuote(a), q) \in Int
             /\ QSum(MakerBase(a), q) \in Int /\ QSum(Turnover, q) \in Int
<1> DEFINE e == Head(q)
<1>1. e \in EventSet BY TailEvents
<1>2. /\ TakerBase(a) \in Weight /\ TakerQuote(a) \in Weight /\ MakerBase(a) \in Weight
      /\ Turnover \in Weight
  BY Weights
<1>3. /\ QSum(TakerBase(a), q) \in Int /\ QSum(TakerQuote(a), q) \in Int
      /\ QSum(MakerBase(a), q) \in Int /\ QSum(Turnover, q) \in Int
  BY <1>2, QSumInt
<1>4. /\ QSum(TakerBase(a), Tail(q)) = QSum(TakerBase(a), q) - TakerBase(a)[e]
      /\ QSum(TakerQuote(a), Tail(q)) = QSum(TakerQuote(a), q) - TakerQuote(a)[e]
      /\ QSum(MakerBase(a), Tail(q)) = QSum(MakerBase(a), q) - MakerBase(a)[e]
      /\ QSum(Turnover, Tail(q)) = QSum(Turnover, q) - Turnover[e]
  BY <1>2, QSumTail
<1>5. /\ TakerBase(a)[e] = IF e.taker = a THEN Sign(e.taker_side) * e.qty ELSE 0
      /\ TakerQuote(a)[e] = IF e.taker = a THEN -Sign(e.taker_side) * (e.qty * e.price) ELSE 0
      /\ MakerBase(a)[e] = IF e.maker = a THEN -Sign(e.taker_side) * e.qty ELSE 0
      /\ Turnover[e] = e.qty * e.price
  BY <1>1 DEF TakerBase, TakerQuote, MakerBase, Turnover
<1> QED BY <1>3, <1>4, <1>5

(* The four changes of a fill: the maker trades, its order is smaller or gone, the taker's *)
(* pending amounts are taken back, and the taker trades.                                   *)
LEMMA SignedProducts ==
  ASSUME NEW side \in Sides, NEW x \in Int, NEW y \in Int, NEW k \in Int
  PROVE  /\ -Sign(side) * x = (IF invert_side(side) = "bid" THEN 1 ELSE -1) * x
         /\ Sign(side) * x = (IF side = "bid" THEN 1 ELSE -1) * x
         /\ -Sign(side) * (x * y) = -(IF side = "bid" THEN 1 ELSE -1) * x * y
         /\ Sign(side) * (x * y) - (x * y) * k
              = -(IF invert_side(side) = "bid" THEN 1 ELSE -1) * x * y - x * y * k
<1> DEFINE t == x * y
<1>1. t \in Int OBVIOUS
<1>2. CASE side = "bid"
  <2>1. Sign(side) = 1 /\ invert_side(side) = "ask" BY <1>2 DEF Sign, invert_side
  <2> QED BY <1>1, <1>2, <2>1
<1>3. CASE side = "ask"
  <2>1. Sign(side) = -1 /\ invert_side(side) = "bid" BY <1>3 DEF Sign, invert_side
  <2> QED BY <1>1, <1>3, <2>1
<1> QED BY <1>2, <1>3 DEF Sides

(* Process of a fill event, as the four changes one after the other.       *)
LEMMA FillChain ==
  ASSUME NEW w, NEW m, NEW e, e.type = "fill", e.taker_side \in Sides, e.qty \in Int, e.price \in Int,
         NEW b1, b1 = -Sign(e.taker_side) * e.qty,
         NEW q1, q1 = Sign(e.taker_side) * (e.qty * e.price) - (e.qty * e.price) * MakerFee,
         NEW b4, b4 = Sign(e.taker_side) * e.qty, NEW q4, q4 = -Sign(e.taker_side) * (e.qty * e.price),
         NEW w1, w1 = Trade(w, e.maker, m, b1, q1),
         NEW w2, w2 = IF e.maker_out THEN remove_order(w1, e.maker, e.maker_slot, e.qty)
                      ELSE Release(w1, e.maker, m, SideOf(e), e.qty),
         NEW w3, w3 = TakeBack(w2, e.taker, m, b4, q4)
  PROVE  Process(w, m, e) = Trade(w3, e.taker, m, b4, q4)
<1>1. SideOf(e) = invert_side(e.taker_side) BY DEF SideOf
<1>2. /\ b1 = (IF invert_side(e.taker_side) = "bid" THEN 1 ELSE -1) * e.qty
      /\ b4 = (IF e.taker_side = "bid" THEN 1 ELSE -1) * e.qty
      /\ q4 = -(IF e.taker_side = "bid" THEN 1 ELSE -1) * e.qty * e.price
      /\ q1 = -(IF invert_side(e.taker_side) = "bid" THEN 1 ELSE -1) * e.qty * e.price - e.qty * e.price * MakerFee
  <2>1. MakerFee \in Int BY PerpAssumption
  <2>2. \A k \in Int :
          /\ -Sign(e.taker_side) * e.qty = (IF invert_side(e.taker_side) = "bid" THEN 1 ELSE -1) * e.qty
          /\ Sign(e.taker_side) * e.qty = (IF e.taker_side = "bid" THEN 1 ELSE -1) * e.qty
          /\ -Sign(e.taker_side) * (e.qty * e.price) = -(IF e.taker_side = "bid" THEN 1 ELSE -1) * e.qty * e.price
          /\ Sign(e.taker_side) * (e.qty * e.price) - (e.qty * e.price) * k
               = -(IF invert_side(e.taker_side) = "bid" THEN 1 ELSE -1) * e.qty * e.price - e.qty * e.price * k
    BY SignedProducts, ZenonT(60)
  <2> QED BY <2>1, <2>2, Zenon
<1>6. w2 = execute_maker(w, m, e) BY <1>1, <1>2, ZenonT(60) DEF execute_maker, Release
<1>7. Trade(w3, e.taker, m, b4, q4) = execute_taker(w2, m, e) BY <1>2 DEF execute_taker, TakeBack
<1> QED BY <1>6, <1>7 DEF Process

(* Changes to the accounts of one market add up to such a change.          *)
LEMMA ApartTwice ==
  ASSUME NEW m, NEW p1, NEW p2, NEW p3, Apart(m, p1, p2), Apart(m, p2, p3) PROVE Apart(m, p1, p3)
BY DEF Apart

(* No change is a change to the accounts of any market.                    *)
LEMMA ApartSame == ASSUME NEW m, NEW p1 PROVE Apart(m, p1, p1)
BY DEF Apart

(* Consuming a FillEvent keeps a market consistent: execute_maker, then    *)
(* execute_taker.                                                          *)
LEMMA ProcessFill ==
  ASSUME NEW m \in Markets, NEW w, NEW q, NEW sq, NEW fees, State(m, w, q, sq, fees), q # <<>>,
         Head(q).type = "fill", market[m].funding \in Int
  PROVE  /\ State(m, Process(w, m, Head(q)), Tail(q), sq, fees)
         /\ Consumes(m, w, Process(w, m, Head(q)), q)
<1> DEFINE e == Head(q)
           f == market[m].funding
           s == Sign(e.taker_side)
           t == e.qty * e.price
           side == SideOf(e)
           b1 == -s * e.qty
           q1 == s * t - t * MakerFee
           b4 == s * e.qty
           q4 == -s * t
           w1 == Trade(w, e.maker, m, b1, q1)
           w2 == IF e.maker_out THEN remove_order(w1, e.maker, e.maker_slot, e.qty)
                 ELSE Release(w1, e.maker, m, SideOf(e), e.qty)
           w3 == TakeBack(w2, e.taker, m, b4, q4)
           w4 == Trade(w3, e.taker, m, b4, q4)
<1>0. /\ w \in Works /\ fees \in Int /\ Desk(m, w.book, q, w.slots, sq)
      /\ Counts(m, w.book, q, w.perp) /\ Pending(m, q, w.perp)
  BY DEF State
<1>1. q \in Seq(EventSet) BY <1>0 DEF Desk
<1>2. e \in EventSet /\ e = q[1] /\ 1 \in 1..Len(q) /\ e.type = "fill" BY <1>1, TailEvents
<1>w. Process(w, m, e) = w4
  <2>1. e.taker_side \in Sides /\ e.qty \in Int /\ e.price \in Int BY <1>2, FillParts
  <2> HIDE DEF e
  <2>2. /\ b1 = -Sign(e.taker_side) * e.qty
        /\ q1 = Sign(e.taker_side) * (e.qty * e.price) - (e.qty * e.price) * MakerFee
        /\ b4 = Sign(e.taker_side) * e.qty /\ q4 = -Sign(e.taker_side) * (e.qty * e.price)
    OBVIOUS
  <2> HIDE DEF b1, q1, b4, q4
  <2>3. w1 = Trade(w, e.maker, m, b1, q1) OBVIOUS
  <2> HIDE DEF w1
  <2>4. w2 = IF e.maker_out THEN remove_order(w1, e.maker, e.maker_slot, e.qty)
             ELSE Release(w1, e.maker, m, SideOf(e), e.qty)
    OBVIOUS
  <2> HIDE DEF w2
  <2>5. w3 = TakeBack(w2, e.taker, m, b4, q4)
    OBVIOUS
  <2> HIDE DEF w3
  <2> QED BY <1>2, <2>1, <2>2, <2>3, <2>4, <2>5, FillChain
<1> HIDE DEF e
<1>3. /\ e.maker \in Accounts /\ e.taker \in Accounts /\ e.taker_side \in Sides
      /\ e.qty \in Int /\ e.price \in Int /\ e.maker_slot \in Slot /\ e.maker_out \in BOOLEAN
  BY <1>2, FillParts
<1>4. Who(e) = e.maker /\ Which(e) = e.maker_slot /\ (Frees(e) <=> e.maker_out) /\ side \in Sides
  BY <1>2, EventParts DEF Who, Which, Frees
<1>5. MakerFee \in Int BY PerpAssumption
<1>6. /\ t \in Int /\ s \in Int /\ b1 \in Int /\ b4 \in Int /\ s * t \in Int /\ q4 \in Int
      /\ t * MakerFee \in Int /\ q1 \in Int /\ b1 = -b4 /\ -b4 \in Int /\ -q4 \in Int
      /\ q1 + q4 = -(t * MakerFee)
  <2>1. t \in Int BY <1>3
  <2>2. s \in Int BY SignInt
  <2> HIDE DEF t, s
  <2>3. s * e.qty \in Int /\ s * t \in Int /\ t * MakerFee \in Int BY <1>3, <1>5, <2>1, <2>2, ProductInt
  <2>4. -s * e.qty = -(s * e.qty) /\ -s * t = -(s * t) BY <1>3, <2>1, <2>2
  <2> QED BY <2>1, <2>2, <2>3, <2>4
<1> HIDE DEF s, t, side, b1, q1, b4, q4
<1>7. /\ w1 \in Works
      /\ w1.book = w.book /\ w1.slots = w.slots /\ w1.ok = w.ok
      /\ w1.open_interest - SizeSum(m, w1.perp) = w.open_interest - SizeSum(m, w.perp)
      /\ BaseSum(m, w1.perp) = BaseSum(m, w.perp) + b1
      /\ WorthSum(m, w1.perp) = WorthSum(m, w.perp) + (q1 + b1 * f)
      /\ Effect(m, w.perp, w1.perp, e.maker, b1, 0, 0, "bid", 0)
  <2> HIDE DEF w1
  <2>1. w1 = Trade(w, e.maker, m, b1, q1) BY DEF w1
  <2>2. w \in Works /\ e.maker \in Accounts /\ b1 \in Int /\ q1 \in Int /\ f = market[m].funding /\ f \in Int
    BY <1>0, <1>3, <1>6
  <2> QED BY <2>1, <2>2, TradeStep
<1> HIDE DEF w1
<1>8. /\ w2 \in Works
      /\ w2.book = w1.book /\ w2.ok = w1.ok /\ w2.open_interest = w1.open_interest
      /\ w2.slots = (IF e.maker_out THEN Put(w1.slots, e.maker, e.maker_slot, Free) ELSE w1.slots)
      /\ Foreign(m, w1.slots, w2.slots)
      /\ Level(m, w1.perp, w2.perp) /\ Effect(m, w1.perp, w2.perp, e.maker, 0, 0, 0, side, -e.qty)
  <2> HIDE DEF w2
  <2>1. CASE e.maker_out
    <3>1. Mine(m, w1.slots[e.maker][e.maker_slot]) /\ w1.slots[e.maker][e.maker_slot].side = side
      BY <1>0, <1>2, <1>4, <1>7, <2>1 DEF Desk, Waiting, side
    <3>2. w2 = remove_order(w1, e.maker, e.maker_slot, e.qty) BY <2>1 DEF w2
    <3> QED BY <1>3, <1>4, <1>7, <2>1, <3>1, <3>2, RemoveStep
  <2>2. CASE ~e.maker_out
    <3>1. w2 = Release(w1, e.maker, m, side, e.qty) BY <2>2 DEF w2, side
    <3>2. Foreign(m, w1.slots, w1.slots) BY ForeignSame
    <3>3. /\ w2 \in Works /\ w2.book = w1.book /\ w2.slots = w1.slots /\ w2.ok = w1.ok
          /\ w2.open_interest = w1.open_interest
          /\ Level(m, w1.perp, w2.perp) /\ Effect(m, w1.perp, w2.perp, e.maker, 0, 0, 0, side, -e.qty)
      <4>1. w1 \in Works BY <1>7
      <4>2. e.maker \in Accounts /\ side \in Sides /\ e.qty \in Int BY <1>3, <1>4
      <4> QED BY <3>1, <4>1, <4>2, FreedStep
    <3> QED BY <2>2, <3>2, <3>3
  <2> QED BY <1>3, <2>1, <2>2
<1> HIDE DEF w2
<1>9. /\ w3 \in Works
      /\ w3.book = w2.book /\ w3.slots = w2.slots /\ w3.ok = w2.ok /\ w3.open_interest = w2.open_interest
      /\ Level(m, w2.perp, w3.perp)
      /\ Effect(m, w2.perp, w3.perp, e.taker, 0, -b4, -q4, "bid", 0)
  <2> HIDE DEF w3
  <2>1. w3 = TakeBack(w2, e.taker, m, b4, q4) BY DEF w3
  <2>2. w2 \in Works /\ e.taker \in Accounts /\ b4 \in Int /\ q4 \in Int BY <1>3, <1>6, <1>8
  <2> QED BY <2>1, <2>2, PendStep
<1> HIDE DEF w3
<1>10. /\ w4 \in Works
      /\ w4.book = w3.book /\ w4.slots = w3.slots /\ w4.ok = w3.ok
      /\ w4.open_interest - SizeSum(m, w4.perp) = w3.open_interest - SizeSum(m, w3.perp)
      /\ BaseSum(m, w4.perp) = BaseSum(m, w3.perp) + b4
      /\ WorthSum(m, w4.perp) = WorthSum(m, w3.perp) + (q4 + b4 * f)
      /\ Effect(m, w3.perp, w4.perp, e.taker, b4, 0, 0, "bid", 0)
  <2> HIDE DEF w4
  <2>1. w4 = Trade(w3, e.taker, m, b4, q4) BY DEF w4
  <2>2. w3 \in Works /\ e.taker \in Accounts /\ b4 \in Int /\ q4 \in Int /\ f = market[m].funding /\ f \in Int
    BY <1>3, <1>6, <1>9
  <2> QED BY <2>1, <2>2, TradeStep
<1> HIDE DEF w4
<1>11. ASSUME NEW a \in Accounts
       PROVE  /\ w4.perp[a][m].base = w.perp[a][m].base + (IF a = e.maker THEN b1 ELSE 0)
                                        + (IF a = e.taker THEN b4 ELSE 0)
              /\ w4.perp[a][m].taker_base = w.perp[a][m].taker_base - (IF a = e.taker THEN b4 ELSE 0)
              /\ w4.perp[a][m].taker_quote = w.perp[a][m].taker_quote - (IF a = e.taker THEN q4 ELSE 0)
              /\ \A d \in Sides : w4.perp[a][m].on_orders[d] = w.perp[a][m].on_orders[d]
                                      + (IF a = e.maker /\ d = side THEN -e.qty ELSE 0)
              /\ w.perp[a][m].base \in Int
  <2>1. w.perp \in Perps /\ w1.perp \in Perps /\ w2.perp \in Perps /\ w3.perp \in Perps
    BY <1>0, <1>7, <1>8, <1>9 DEF Works
  <2>2. /\ w.perp[a][m].base \in Int /\ w1.perp[a][m].base \in Int /\ w2.perp[a][m].base \in Int
        /\ w3.perp[a][m].base \in Int
    BY <2>1, PerpParts
  <2>3. /\ w.perp[a][m].taker_base \in Int /\ w1.perp[a][m].taker_base \in Int
        /\ w2.perp[a][m].taker_base \in Int /\ w3.perp[a][m].taker_base \in Int
    BY <2>1, PerpParts
  <2>4. /\ w.perp[a][m].taker_quote \in Int /\ w1.perp[a][m].taker_quote \in Int
        /\ w2.perp[a][m].taker_quote \in Int /\ w3.perp[a][m].taker_quote \in Int
    BY <2>1, PerpParts
  <2>5. \A d \in Sides :
          /\ w.perp[a][m].on_orders[d] \in Int /\ w1.perp[a][m].on_orders[d] \in Int
          /\ w2.perp[a][m].on_orders[d] \in Int /\ w3.perp[a][m].on_orders[d] \in Int
    BY <2>1, PerpParts
  <2>6. /\ w1.perp[a][m].base = w.perp[a][m].base + (IF a = e.maker THEN b1 ELSE 0)
        /\ w2.perp[a][m].base = w1.perp[a][m].base + (IF a = e.maker THEN 0 ELSE 0)
        /\ w3.perp[a][m].base = w2.perp[a][m].base + (IF a = e.taker THEN 0 ELSE 0)
        /\ w4.perp[a][m].base = w3.perp[a][m].base + (IF a = e.taker THEN b4 ELSE 0)
    BY <1>7, <1>8, <1>9, <1>10 DEF Effect
  <2>7. /\ w1.perp[a][m].taker_base = w.perp[a][m].taker_base + (IF a = e.maker THEN 0 ELSE 0)
        /\ w2.perp[a][m].taker_base = w1.perp[a][m].taker_base + (IF a = e.maker THEN 0 ELSE 0)
        /\ w3.perp[a][m].taker_base = w2.perp[a][m].taker_base + (IF a = e.taker THEN -b4 ELSE 0)
        /\ w4.perp[a][m].taker_base = w3.perp[a][m].taker_base + (IF a = e.taker THEN 0 ELSE 0)
    BY <1>7, <1>8, <1>9, <1>10 DEF Effect
  <2>8. /\ w1.perp[a][m].taker_quote = w.perp[a][m].taker_quote + (IF a = e.maker THEN 0 ELSE 0)
        /\ w2.perp[a][m].taker_quote = w1.perp[a][m].taker_quote + (IF a = e.maker THEN 0 ELSE 0)
        /\ w3.perp[a][m].taker_quote = w2.perp[a][m].taker_quote + (IF a = e.taker THEN -q4 ELSE 0)
        /\ w4.perp[a][m].taker_quote = w3.perp[a][m].taker_quote + (IF a = e.taker THEN 0 ELSE 0)
    BY <1>7, <1>8, <1>9, <1>10 DEF Effect
  <2>9. ASSUME NEW d \in Sides
        PROVE  w4.perp[a][m].on_orders[d] = w.perp[a][m].on_orders[d]
                                      + (IF a = e.maker /\ d = side THEN -e.qty ELSE 0)
    <3>1. w1.perp[a][m].on_orders[d] = w.perp[a][m].on_orders[d] + (IF a = e.maker /\ d = "bid" THEN 0 ELSE 0)
      BY <1>7 DEF Effect
    <3>2. w2.perp[a][m].on_orders[d] = w1.perp[a][m].on_orders[d] + (IF a = e.maker /\ d = side THEN -e.qty ELSE 0)
      BY <1>8 DEF Effect
    <3>3. w3.perp[a][m].on_orders[d] = w2.perp[a][m].on_orders[d] + (IF a = e.taker /\ d = "bid" THEN 0 ELSE 0)
      BY <1>9 DEF Effect
    <3>4. w4.perp[a][m].on_orders[d] = w3.perp[a][m].on_orders[d] + (IF a = e.taker /\ d = "bid" THEN 0 ELSE 0)
      BY <1>10 DEF Effect
    <3> QED BY <1>3, <2>5, <3>1, <3>2, <3>3, <3>4
  <2>10. w4.perp[a][m].base = w.perp[a][m].base + (IF a = e.maker THEN b1 ELSE 0)
                                        + (IF a = e.taker THEN b4 ELSE 0)
    BY <1>6, <2>2, <2>6
  <2>11. w4.perp[a][m].taker_base = w.perp[a][m].taker_base - (IF a = e.taker THEN b4 ELSE 0)
    BY <1>6, <2>3, <2>7
  <2>12. w4.perp[a][m].taker_quote = w.perp[a][m].taker_quote - (IF a = e.taker THEN q4 ELSE 0)
    BY <1>6, <2>4, <2>8
  <2> QED BY <2>2, <2>9, <2>10, <2>11, <2>12
<1>12. /\ w4.book = w.book /\ w4.ok = w.ok
       /\ w4.slots = (IF e.maker_out THEN Put(w.slots, e.maker, e.maker_slot, Free) ELSE w.slots)
       /\ Foreign(m, w.slots, w4.slots)
  BY <1>7, <1>8, <1>9, <1>10
<1>em. Emptied(Accounts, w.slots, w4.slots)
  <2>1. w.slots \in Tables BY <1>0 DEF Works
  <2>2. Emptied(Accounts, w.slots, Put(w.slots, e.maker, e.maker_slot, Free)) BY <1>3, <2>1, EmptiedPut
  <2> QED BY <1>12, <2>2, EmptiedSame
<1>13. Apart(m, w.perp, w4.perp)
  <2>1. Apart(m, w.perp, w1.perp) /\ Apart(m, w1.perp, w2.perp) /\ Apart(m, w2.perp, w3.perp)
        /\ Apart(m, w3.perp, w4.perp)
    BY <1>7, <1>8, <1>9, <1>10 DEF Effect
  <2>2. Apart(m, w.perp, w2.perp) BY <2>1, ApartTwice
  <2>3. Apart(m, w.perp, w3.perp) BY <2>1, <2>2, ApartTwice
  <2> QED BY <2>1, <2>3, ApartTwice
<1>14. Desk(m, w4.book, Tail(q), w4.slots, sq)
  <2>1. CASE e.maker_out
    <3>1. Frees(Head(q)) /\ w4.slots = Put(w.slots, Who(Head(q)), Which(Head(q)), Free)
      BY <1>4, <1>12, <2>1 DEF e
    <3>2. Desk(m, w.book, Tail(q), Put(w.slots, Who(Head(q)), Which(Head(q)), Free), sq)
      BY <1>0, <3>1, FreeDesk
    <3> QED BY <1>12, <3>1, <3>2
  <2>2. CASE ~e.maker_out
    <3>1. ~Frees(Head(q)) /\ w4.slots = w.slots BY <1>4, <1>12, <2>2 DEF e
    <3> QED BY <1>0, <1>12, <3>1, TailDesk
  <2> QED BY <2>1, <2>2
<1>15. Counts(m, w4.book, Tail(q), w4.perp)
  <2>1. Charged(m, w.perp, w4.perp, Who(Head(q)), SideOf(Head(q)), -Head(q).qty)
    BY <1>4, <1>11 DEF Charged, e, side
  <2> QED BY <1>0, <1>12, <2>1, CountsTail
<1>16. ASSUME NEW a \in Accounts
       PROVE  /\ QSum(TakerBase(a), Tail(q)) = QSum(TakerBase(a), q) - (IF e.taker = a THEN b4 ELSE 0)
              /\ QSum(TakerQuote(a), Tail(q)) = QSum(TakerQuote(a), q) - (IF e.taker = a THEN q4 ELSE 0)
              /\ QSum(MakerBase(a), Tail(q)) = QSum(MakerBase(a), q) - (IF e.maker = a THEN b1 ELSE 0)
              /\ QSum(Turnover, Tail(q)) = QSum(Turnover, q) - t
              /\ QSum(TakerBase(a), q) \in Int /\ QSum(TakerQuote(a), q) \in Int
              /\ QSum(MakerBase(a), q) \in Int /\ QSum(Turnover, q) \in Int
  BY <1>1, FillWeights DEF e, s, t, b1, b4, q4
<1>17. Pending(m, Tail(q), w4.perp)
  <2> SUFFICES ASSUME NEW a \in Accounts
               PROVE  /\ w4.perp[a][m].taker_base = QSum(TakerBase(a), Tail(q))
                      /\ w4.perp[a][m].taker_quote = QSum(TakerQuote(a), Tail(q))
    BY DEF Pending
  <2>1. w.perp[a][m].taker_base = QSum(TakerBase(a), q) /\ w.perp[a][m].taker_quote = QSum(TakerQuote(a), q)
    BY <1>0 DEF Pending
  <2> QED BY <1>11, <1>16, <2>1
<1>18. ASSUME NEW a \in Accounts
       PROVE  Complete(a, m, w4.perp, Tail(q)) = Complete(a, m, w.perp, q)
  <2>1. b1 = -b4 BY <1>6
  <2>2. w4.perp[a][m].base = w.perp[a][m].base + (IF a = e.maker THEN b1 ELSE 0)
                                        + (IF a = e.taker THEN b4 ELSE 0) /\ w.perp[a][m].base \in Int
    BY <1>11
  <2>3. /\ QSum(TakerBase(a), Tail(q)) = QSum(TakerBase(a), q) - (IF e.taker = a THEN b4 ELSE 0)
        /\ QSum(MakerBase(a), Tail(q)) = QSum(MakerBase(a), q) - (IF e.maker = a THEN b1 ELSE 0)
        /\ QSum(TakerBase(a), q) \in Int /\ QSum(MakerBase(a), q) \in Int
    BY <1>16
  <2> DEFINE u == w.perp[a][m].base
             v == QSum(TakerBase(a), q)
             x == QSum(MakerBase(a), q)
  <2>4. /\ Complete(a, m, w4.perp, Tail(q)) = w4.perp[a][m].base + QSum(TakerBase(a), Tail(q)) + QSum(MakerBase(a), Tail(q))
        /\ Complete(a, m, w.perp, q) = u + v + x
    BY DEF Complete
  <2> HIDE DEF u, v, x
  <2>5. Complete(a, m, w4.perp, Tail(q))
          = (u + (IF a = e.maker THEN b1 ELSE 0) + (IF a = e.taker THEN b4 ELSE 0))
              + (v - (IF a = e.taker THEN b4 ELSE 0)) + (x - (IF a = e.maker THEN b1 ELSE 0))
    BY <2>2, <2>3, <2>4 DEF u, v, x
  <2>6. u \in Int /\ v \in Int /\ x \in Int BY <2>2, <2>3 DEF u, v, x
  <2> QED BY <1>6, <2>4, <2>5, <2>6
<1>19. /\ BaseSum(m, w4.perp) = 0 /\ SizeSum(m, w4.perp) = w4.open_interest
  <2>1. w.perp \in Perps /\ w1.perp \in Perps /\ w2.perp \in Perps /\ w3.perp \in Perps /\ w4.perp \in Perps
        /\ w.open_interest \in Int /\ w1.open_interest \in Int /\ w3.open_interest \in Int
        /\ w4.open_interest \in Int
    BY <1>0, <1>7, <1>8, <1>9, <1>10 DEF Works
  <2>2. /\ SizeSum(m, w.perp) \in Int /\ SizeSum(m, w1.perp) \in Int /\ SizeSum(m, w3.perp) \in Int
        /\ SizeSum(m, w4.perp) \in Int
    BY <2>1, SumsInt
  <2>3. BaseSum(m, w.perp) = 0 /\ SizeSum(m, w.perp) = w.open_interest BY DEF State
  <2>4. b1 = -b4 BY <1>6
  <2>5. BaseSum(m, w3.perp) = BaseSum(m, w1.perp) /\ SizeSum(m, w3.perp) = SizeSum(m, w1.perp)
    BY <1>8, <1>9 DEF Level
  <2>6. BaseSum(m, w4.perp) = 0 BY <1>6, <1>7, <1>10, <2>3, <2>4, <2>5
  <2>7. w1.open_interest - SizeSum(m, w1.perp) = 0 BY <1>7, <2>2, <2>3
  <2>8. w4.open_interest - SizeSum(m, w4.perp) = 0 BY <1>8, <1>9, <1>10, <2>5, <2>7
  <2> QED BY <2>1, <2>2, <2>6, <2>8
<1>20. WorthSum(m, w4.perp) + fees = MakerFee * QSum(Turnover, Tail(q))
  <2>1. w.perp \in Perps BY <1>0 DEF Works
  <2>2. WorthSum(m, w.perp) \in Int BY <2>1, SumsInt
  <2> DEFINE x == b4 * f
             z == t * MakerFee
  <2>3. x \in Int /\ z \in Int /\ b1 * f = -x BY <1>6, ProductInt
  <2>4. WorthSum(m, w1.perp) = WorthSum(m, w.perp) + (q1 + -x) BY <1>7, <2>3
  <2>5. WorthSum(m, w3.perp) = WorthSum(m, w1.perp) BY <1>8, <1>9 DEF Level
  <2>6. WorthSum(m, w4.perp) = WorthSum(m, w3.perp) + (q4 + x) BY <1>10, <2>3
  <2>a. q1 + q4 = -z BY <1>6
  <2> HIDE DEF x, z
  <2>7. WorthSum(m, w4.perp) = WorthSum(m, w.perp) - z BY <1>6, <2>2, <2>3, <2>4, <2>5, <2>6, <2>a
  <2>8. QSum(Turnover, Tail(q)) = QSum(Turnover, q) - t /\ QSum(Turnover, q) \in Int BY <1>3, <1>16
  <2>9. MakerFee * (QSum(Turnover, q) - t) = MakerFee * QSum(Turnover, q) - z
    BY <1>5, <1>6, <2>8 DEF z
  <2>10. MakerFee * QSum(Turnover, q) \in Int BY <1>5, <2>8, ProductInt
  <2>11. WorthSum(m, w.perp) + fees = MakerFee * QSum(Turnover, q) BY DEF State
  <2>12. WorthSum(m, w4.perp) + fees = MakerFee * QSum(Turnover, q) - z
    BY <1>0, <2>2, <2>3, <2>7, <2>10, <2>11
  <2> QED BY <2>8, <2>9, <2>12
<1>21. State(m, w4, Tail(q), sq, fees) BY <1>0, <1>10, <1>14, <1>15, <1>17, <1>19, <1>20 DEF State
<1>22. Consumes(m, w, w4, q) BY <1>12, <1>13, <1>18, <1>em DEF Consumes
<1> QED BY <1>w, <1>21, <1>22 DEF e

(* A queue without its first i events. *)
Drop(q, i) == SubSeq(q, i + 1, Len(q))

(* The queue without its first events, one event at a time.                *)
LEMMA DropProps ==
  ASSUME NEW q \in Seq(EventSet)
  PROVE  /\ Drop(q, 0) = q
         /\ \A i \in 0..Len(q) : Drop(q, i) \in Seq(EventSet) /\ Len(Drop(q, i)) = Len(q) - i
         /\ \A i \in 1..Len(q) : /\ Drop(q, i - 1) # <<>> /\ Head(Drop(q, i - 1)) = q[i]
                                 /\ Tail(Drop(q, i - 1)) = Drop(q, i)
         /\ Drop(q, Len(q)) = <<>>
<1>0. Len(q) \in Nat /\ \A i \in 1..Len(q) : q[i] \in EventSet BY LenProperties, ElementOfSeq
<1>1. Drop(q, 0) = q BY SubSeqFull DEF Drop
<1>2. ASSUME NEW i \in 0..Len(q)
      PROVE  /\ Drop(q, i) \in Seq(EventSet) /\ Len(Drop(q, i)) = Len(q) - i
             /\ \A j \in 1..(Len(q) - i) : Drop(q, i)[j] = q[i + j]
  <2>1. i + 1 \in Int /\ Len(q) \in Int /\ \A j \in (i + 1)..Len(q) : q[j] \in EventSet BY <1>0
  <2>2. /\ SubSeq(q, i + 1, Len(q)) \in Seq(EventSet)
        /\ Len(SubSeq(q, i + 1, Len(q))) = IF i + 1 <= Len(q) THEN Len(q) - (i + 1) + 1 ELSE 0
        /\ \A j \in 1..(Len(q) - (i + 1) + 1) : SubSeq(q, i + 1, Len(q))[j] = q[(i + 1) + j - 1]
    BY <2>1, SubSeqProperties
  <2>3. Len(q) - (i + 1) + 1 = Len(q) - i BY <1>0
  <2>4. \A j \in 1..(Len(q) - i) : (i + 1) + j - 1 = i + j BY <1>0
  <2>5. Len(Drop(q, i)) = Len(q) - i BY <1>0, <2>2 DEF Drop
  <2>6. \A j \in 1..(Len(q) - i) : Drop(q, i)[j] = q[i + j] BY <2>2, <2>3, <2>4 DEF Drop
  <2> QED BY <2>2, <2>5, <2>6 DEF Drop
<1>3. ASSUME NEW i \in 1..Len(q)
      PROVE  /\ Drop(q, i - 1) # <<>> /\ Head(Drop(q, i - 1)) = q[i]
             /\ Tail(Drop(q, i - 1)) = Drop(q, i)
  <2> DEFINE u == Drop(q, i - 1)
             v == Drop(q, i)
             n == Len(q) - i
  <2>0. i - 1 \in 0..Len(q) /\ i \in 0..Len(q) /\ n \in Nat BY <1>0
  <2>1. u \in Seq(EventSet) /\ Len(u) = Len(q) - (i - 1) /\ \A j \in 1..(Len(q) - (i - 1)) : u[j] = q[(i - 1) + j]
    BY <1>2, <2>0
  <2>2. v \in Seq(EventSet) /\ Len(v) = n /\ \A j \in 1..n : v[j] = q[i + j] BY <1>2, <2>0
  <2> HIDE DEF u, v
  <2>3. Len(u) = n + 1 /\ \A j \in 1..(n + 1) : u[j] = q[(i - 1) + j] BY <1>0, <2>1 DEF n
  <2>4. u # <<>>
    <3> SUFFICES ASSUME u = <<>> PROVE FALSE OBVIOUS
    <3> Len(u) = 0 BY EmptySeq
    <3> QED BY <2>0, <2>3
  <2>5. Head(u) = u[1] BY <2>1, <2>4, TailEvents
  <2>6. 1 \in 1..(n + 1) /\ (i - 1) + 1 = i BY <2>0
  <2>7. Head(u) = q[i] BY <2>3, <2>5, <2>6
  <2>8. Tail(u) \in Seq(EventSet) /\ Len(Tail(u)) = n /\ \A j \in 1..n : Tail(u)[j] = u[j + 1]
    BY <2>0, <2>1, <2>3, <2>4, HeadTailProperties
  <2>9. \A j \in 1..n : Tail(u)[j] = v[j]
    <3> SUFFICES ASSUME NEW j \in 1..n PROVE Tail(u)[j] = v[j] OBVIOUS
    <3>1. j + 1 \in 1..(n + 1) /\ (i - 1) + (j + 1) = i + j BY <2>0
    <3>2. u[j + 1] = q[i + j] BY <2>3, <3>1
    <3> QED BY <2>2, <2>8, <3>2
  <2>10. Tail(u) = v BY <2>2, <2>8, <2>9, SeqEqual
  <2> QED BY <2>4, <2>7, <2>10 DEF u, v
<1>4. Drop(q, Len(q)) = <<>>
  <2> Len(q) + 1 \in Int /\ Len(q) \in Int /\ Len(q) < Len(q) + 1 BY <1>0
  <2> QED BY SubSeqEmpty DEF Drop
<1> QED BY <1>1, <1>2, <1>3, <1>4

(* After i events of the queue. *)
Reached(m, w, w0, q, i, sq, fees) ==
  /\ State(m, w, Drop(q, i), sq, fees)
  /\ w.ok = w0.ok /\ w.book = w0.book
  /\ Apart(m, w0.perp, w.perp) /\ Foreign(m, w0.slots, w.slots)
  /\ Emptied(Accounts, w0.slots, w.slots)
  /\ \A a \in Accounts : Complete(a, m, w.perp, Drop(q, i)) = Complete(a, m, w0.perp, q)

(* One turn of the loop of consume_events.                                 *)
LEMMA ProcessNext ==
  ASSUME NEW m \in Markets, NEW w, NEW w0, NEW q \in Seq(EventSet), NEW i \in 1..Len(q), NEW sq, NEW fees,
         market[m].funding \in Int, Reached(m, w, w0, q, i - 1, sq, fees)
  PROVE  Reached(m, Process(w, m, q[i]), w0, q, i, sq, fees)
<1> DEFINE u == Drop(q, i - 1)
           w2 == Process(w, m, Head(u))
<1>1. u # <<>> /\ Head(u) = q[i] /\ Tail(u) = Drop(q, i) BY DropProps
<1>2. State(m, w, u, sq, fees) BY DEF Reached
<1>3. State(m, w2, Tail(u), sq, fees) /\ Consumes(m, w, w2, u)
  <2> HIDE DEF u
  <2> QED BY <1>1, <1>2, ProcessOut, ProcessFill
<1> HIDE DEF u, w2
<1>4. /\ w2.book = w.book /\ w2.ok = w.ok
      /\ Apart(m, w.perp, w2.perp) /\ Foreign(m, w.slots, w2.slots)
      /\ Emptied(Accounts, w.slots, w2.slots)
      /\ \A a \in Accounts : Complete(a, m, w2.perp, Tail(u)) = Complete(a, m, w.perp, u)
  BY <1>3 DEF Consumes
<1>5. Apart(m, w0.perp, w2.perp) BY <1>4, ApartTwice DEF Reached
<1>6. Foreign(m, w0.slots, w2.slots) BY <1>4, ForeignTwice DEF Reached
<1>7. \A a \in Accounts : Complete(a, m, w2.perp, Drop(q, i)) = Complete(a, m, w0.perp, q)
  BY <1>1, <1>4 DEF Reached, u
<1>em. Emptied(Accounts, w0.slots, w2.slots) BY <1>4, EmptiedTwice DEF Reached
<1>8. Reached(m, w2, w0, q, i, sq, fees) BY <1>1, <1>3, <1>4, <1>5, <1>6, <1>7, <1>em DEF Reached
<1> QED BY <1>1, <1>8 DEF w2

(* The whole loop: after n events the market is consistent and every       *)
(* complete position is what it was.                                       *)
LEMMA AfterReached ==
  ASSUME NEW m \in Markets, NEW sq, NEW fees, market[m].funding \in Int,
         State(m, Work(m), queue[m], sq, fees), NEW n \in 0..Len(queue[m])
  PROVE  Reached(m, AfterEvents(m, n), Work(m), queue[m], n, sq, fees)
<1> DEFINE q == queue[m]
           seq == SubSeq(q, 1, n)
           p == [op |-> "events", market |-> m]
           w0 == Work(m)
<1>0. q \in Seq(EventSet) BY DEF State, Desk
<1>1. Len(q) \in Nat /\ \A i \in 1..Len(q) : q[i] \in EventSet BY <1>0, LenProperties, ElementOfSeq
<1>2. n \in Nat /\ n \in Int /\ 1 \in Int /\ \A i \in 1..n : q[i] \in EventSet BY <1>1
<1>3. seq \in Seq(EventSet) /\ Len(seq) = n /\ \A i \in 1..n : seq[i] = q[i]
  <2>1. /\ SubSeq(q, 1, n) \in Seq(EventSet)
        /\ Len(SubSeq(q, 1, n)) = IF 1 <= n THEN n - 1 + 1 ELSE 0
        /\ \A i \in 1..(n - 1 + 1) : SubSeq(q, 1, n)[i] = q[1 + i - 1]
    BY <1>2, SubSeqProperties
  <2>2. n - 1 + 1 = n /\ \A i \in 1..n : 1 + i - 1 = i BY <1>2
  <2> QED BY <1>2, <2>1, <2>2
<1>4. DOMAIN seq = 1..n BY <1>3, LenProperties
<1>5. AfterEvents(m, n) = Run(p, w0, seq)
  <2>1. AfterEvents(m, n) = (CHOOSE g : RunEq(g, p, w0, seq))[DOMAIN seq]
    BY ZenonT(60) DEF AfterEvents, FoldLeft, MapThenFoldSet, RunEq, RunStep
  <2> QED BY <2>1 DEF Run
<1>6. State(m, w0, q, sq, fees) OBVIOUS
<1>p. p.op = "events" /\ p.market = m OBVIOUS
<1> HIDE DEF q, seq, p, w0
<1>7. PICK r : /\ r[0] = w0
               /\ \A i \in 1..n : r[i] = RunStep(p, r[i - 1], seq[i])
               /\ r[n] = Run(p, w0, seq)
  <2>1. n \in Nat BY <1>2
  <2> QED BY <2>1, <1>4, RunChain
<1>8. \A i \in 1..n : r[i] = Process(r[i - 1], m, q[i]) BY <1>3, <1>7, <1>p DEF RunStep
<1> DEFINE Q == {i \in Nat : i <= n => Reached(m, r[i], w0, q, i, sq, fees)}
<1>9. 0 \in Q
  <2>1. Drop(q, 0) = q BY <1>0, DropProps DEF q
  <2>2. /\ Apart(m, w0.perp, w0.perp) /\ Foreign(m, w0.slots, w0.slots)
        /\ Emptied(Accounts, w0.slots, w0.slots)
    BY ApartSame, ForeignSame, EmptiedSame
  <2>3. Reached(m, w0, w0, q, 0, sq, fees) BY <1>6, <2>1, <2>2 DEF Reached
  <2> QED BY <1>7, <2>3
<1>10. ASSUME NEW i \in Nat, i \in Q PROVE i + 1 \in Q
  <2> SUFFICES ASSUME i + 1 <= n PROVE Reached(m, r[i + 1], w0, q, i + 1, sq, fees) OBVIOUS
  <2>1. i <= n /\ i + 1 \in 1..n /\ (i + 1) - 1 = i /\ i + 1 \in 1..Len(q) BY <1>1, <1>2 DEF q
  <2>2. Reached(m, r[i], w0, q, (i + 1) - 1, sq, fees) BY <1>10, <2>1
  <2>3. q \in Seq(EventSet) BY <1>0 DEF q
  <2> HIDE DEF Q
  <2>4. Reached(m, Process(r[i], m, q[i + 1]), w0, q, i + 1, sq, fees)
    <3> DEFINE k == i + 1
    <3>1. k \in 1..Len(q) /\ Reached(m, r[i], w0, q, k - 1, sq, fees) BY <2>1, <2>2
    <3> HIDE DEF k
    <3>2. Reached(m, Process(r[i], m, q[k]), w0, q, k, sq, fees) BY <2>3, <3>1, ProcessNext
    <3> QED BY <3>2 DEF k
  <2>5. r[i + 1] = Process(r[i], m, q[i + 1]) BY <1>8, <2>1
  <2> QED BY <2>4, <2>5
<1> HIDE DEF Q
<1>11. n \in Q BY <1>2, <1>9, <1>10, NatSetInduction
<1>12. Reached(m, r[n], w0, q, n, sq, fees) BY <1>2, <1>11 DEF Q
<1> QED BY <1>5, <1>7, <1>12 DEF q, w0

-----------------------------------------------------------------------------
(***************************************************************************)
(* Cancelling orders.                                                      *)
(***************************************************************************)

Smaller(bk, b2) == \A d \in Sides : b2[d] \subseteq bk[d]

(* A working copy in which orders of account a have been cancelled. *)
Cancelled(m, a, w, w0, q, sq, fees) ==
  /\ State(m, w, q, sq, fees)
  /\ Smaller(w0.book, w.book) /\ Apart(m, w0.perp, w.perp) /\ Foreign(m, w0.slots, w.slots)
  /\ Emptied({a}, w0.slots, w.slots)

(* Cancelling an order of the account keeps a market consistent.           *)
LEMMA CancelStep ==
  ASSUME NEW m \in Markets, NEW w, NEW q, NEW sq, NEW fees, State(m, w, q, sq, fees),
         NEW a \in Accounts, NEW side \in Sides, NEW k,
         \A o \in Resting(w.book[side], k) : o.owner = a
  PROVE  Cancelled(m, a, CancelOne(w, a, side, k), w, q, sq, fees)
<1> DEFINE found == Resting(w.book[side], k)
           o == CHOOSE x \in found : TRUE
           w1 == remove_order(w, a, o.slot, o.qty)
           b2 == [w.book EXCEPT ![side] = @ \ {o}]
           w2 == CancelOne(w, a, side, k)
<1>1. CASE found = {}
  <2>1. w2 = w BY <1>1 DEF CancelOne
  <2>2. Apart(m, w.perp, w.perp) /\ Foreign(m, w.slots, w.slots) /\ Emptied({a}, w.slots, w.slots)
    BY ApartSame, ForeignSame, EmptiedSame
  <2>3. Smaller(w.book, w.book) BY DEF Smaller
  <2> QED BY <2>1, <2>2, <2>3 DEF Cancelled
<1>2. CASE found # {}
  <2>0. o \in found BY <1>2
  <2>1. w2 = [w1 EXCEPT !.book[side] = @ \ {o}] BY <1>2 DEF CancelOne
  <2> HIDE DEF o, found
  <2>2. /\ w \in Works /\ fees \in Int /\ Desk(m, w.book, q, w.slots, sq)
        /\ Counts(m, w.book, q, w.perp) /\ Pending(m, q, w.perp)
    BY DEF State
  <2>3. o \in w.book[side] /\ o.owner = a BY <2>0 DEF Resting, found
  <2>4. w.book \in Books /\ o \in OrderSet BY <2>2, <2>3 DEF Works, Books
  <2>5. o.slot \in Slot /\ o.qty \in Int BY <2>4 DEF OrderSet, Lots
  <2>6. Mine(m, w.slots[a][o.slot]) /\ w.slots[a][o.slot].side = side BY <2>2, <2>3 DEF Desk, Listed
  <2> HIDE DEF w1, w2
  <2>7. /\ w1 \in Works
        /\ w1.book = w.book /\ w1.ok = w.ok /\ w1.open_interest = w.open_interest
        /\ w1.slots = Put(w.slots, a, o.slot, Free) /\ Foreign(m, w.slots, w1.slots)
        /\ Level(m, w.perp, w1.perp) /\ Effect(m, w.perp, w1.perp, a, 0, 0, 0, side, -o.qty)
    <3>1. w1 = remove_order(w, a, o.slot, o.qty) BY DEF w1
    <3> QED BY <2>2, <2>5, <2>6, <3>1, RemoveStep
  <2>8. b2 \in Books /\ Smaller(w.book, b2) BY <2>4 DEF Books, Smaller
  <2>9. w2 = [w1 EXCEPT !.book = b2] BY <2>1, <2>7 DEF Works
  <2> HIDE DEF b2
  <2>10. /\ w2 \in Works /\ w2.book = b2 /\ w2.perp = w1.perp /\ w2.slots = w1.slots
         /\ w2.open_interest = w1.open_interest
    BY <2>7, <2>8, <2>9 DEF Works
  <2>11. Desk(m, b2, q, w2.slots, sq)
    <3>1. Desk(m, [w.book EXCEPT ![side] = @ \ {o}], q, Put(w.slots, o.owner, o.slot, Free), sq)
      BY <2>2, <2>3, CancelDesk
    <3> QED BY <2>3, <2>7, <2>10, <3>1 DEF b2
  <2>12. Counts(m, b2, q, w2.perp)
    <3>1. Charged(m, w.perp, w1.perp, o.owner, side, -o.qty) BY <2>3, <2>7 DEF Effect, Charged
    <3>2. Counts(m, [w.book EXCEPT ![side] = @ \ {o}], q, w1.perp) BY <2>2, <2>3, <3>1, CountsCancel
    <3> QED BY <2>10, <3>2 DEF b2
  <2>13. Pending(m, q, w2.perp)
    <3> SUFFICES ASSUME NEW b \in Accounts
                 PROVE  /\ w2.perp[b][m].taker_base = QSum(TakerBase(b), q)
                        /\ w2.perp[b][m].taker_quote = QSum(TakerQuote(b), q)
      BY DEF Pending
    <3>1. w.perp \in Perps BY <2>2 DEF Works
    <3>2. w.perp[b][m].taker_base \in Int /\ w.perp[b][m].taker_quote \in Int BY <3>1, PerpParts
    <3>3. /\ w1.perp[b][m].taker_base = w.perp[b][m].taker_base + (IF b = a THEN 0 ELSE 0)
          /\ w1.perp[b][m].taker_quote = w.perp[b][m].taker_quote + (IF b = a THEN 0 ELSE 0)
      BY <2>7 DEF Effect
    <3> QED BY <2>2, <2>10, <3>2, <3>3 DEF Pending
  <2>14. /\ BaseSum(m, w2.perp) = 0 /\ SizeSum(m, w2.perp) = w2.open_interest
         /\ WorthSum(m, w2.perp) + fees = MakerFee * QSum(Turnover, q)
    BY <2>7, <2>10 DEF State, Level
  <2>15. State(m, w2, q, sq, fees) BY <2>2, <2>10, <2>11, <2>12, <2>13, <2>14 DEF State
  <2>em. Emptied({a}, w.slots, w2.slots)
    <3> w.slots \in Tables BY <2>2 DEF Works
    <3> QED BY <2>5, <2>7, <2>10, EmptiedPut
  <2>16. Cancelled(m, a, w2, w, q, sq, fees) BY <2>7, <2>8, <2>10, <2>15, <2>em DEF Cancelled, Effect
  <2> QED BY <2>16 DEF w2
<1> QED BY <1>1, <1>2

(* A key that is one of the account's own. *)
Own(m, sl, a, k) ==
  /\ k.side \in Sides
  /\ \E s \in Slot : /\ Mine(m, sl[a][s]) /\ sl[a][s].side = k.side
                     /\ sl[a][s].price = k.price /\ sl[a][s].seq = k.seq

(* A resting order with the key of one of the account's slots is the       *)
(* account's.                                                              *)
LEMMA OwnOrder ==
  ASSUME NEW m, NEW bk, NEW q, NEW sl, NEW sq, Desk(m, bk, q, sl, sq), NEW a \in Accounts,
         NEW k, Own(m, sl, a, k), NEW o \in bk[k.side], o.seq = k.seq
  PROVE  o.owner = a
<1>1. PICK s \in Slot : Mine(m, sl[a][s]) /\ sl[a][s].seq = k.seq BY DEF Own
<1>2. k.side \in Sides BY DEF Own
<1>3. o.owner \in Accounts /\ o.slot \in Slot BY <1>2 DEF Desk, Books, OrderSet
<1>4. Mine(m, sl[o.owner][o.slot]) /\ sl[o.owner][o.slot].seq = o.seq BY <1>2 DEF Desk, Listed
<1> QED BY <1>1, <1>3, <1>4 DEF Desk, Numbered

(* Cancelling and cancelling again is cancelling.                          *)
LEMMA CancelledTwice ==
  ASSUME NEW m, NEW a, NEW w0, NEW w1, NEW w2, NEW q, NEW sq, NEW fees,
         Cancelled(m, a, w1, w0, q, sq, fees), Cancelled(m, a, w2, w1, q, sq, fees)
  PROVE  Cancelled(m, a, w2, w0, q, sq, fees)
<1>1. Apart(m, w0.perp, w2.perp) BY ApartTwice DEF Cancelled
<1>2. Foreign(m, w0.slots, w2.slots) BY ForeignTwice DEF Cancelled
<1>3. Smaller(w0.book, w2.book) BY DEF Cancelled, Smaller
<1>4. Emptied({a}, w0.slots, w2.slots) BY EmptiedTwice DEF Cancelled
<1> QED BY <1>1, <1>2, <1>3, <1>4 DEF Cancelled

(* One turn of a cancelling loop, with a key of the account's own.         *)
LEMMA CancelOwn ==
  ASSUME NEW m \in Markets, NEW w, NEW w0, NEW q, NEW sq, NEW fees,
         NEW a \in Accounts, State(m, w0, q, sq, fees), Cancelled(m, a, w, w0, q, sq, fees), NEW k, Own(m, w0.slots, a, k)
  PROVE  Cancelled(m, a, CancelOne(w, a, k.side, k), w0, q, sq, fees)
<1>1. k.side \in Sides BY DEF Own
<1>2. ASSUME NEW o \in Resting(w.book[k.side], k) PROVE o.owner = a
  <2>1. o \in w.book[k.side] /\ o.seq = k.seq BY DEF Resting
  <2>2. o \in w0.book[k.side] BY <1>1, <2>1 DEF Cancelled, Smaller
  <2>3. Desk(m, w0.book, q, w0.slots, sq) BY DEF State
  <2> QED BY <2>1, <2>2, <2>3, OwnOrder
<1>3. State(m, w, q, sq, fees) BY DEF Cancelled
<1>4. Cancelled(m, a, CancelOne(w, a, k.side, k), w, q, sq, fees) BY <1>1, <1>2, <1>3, CancelStep
<1> QED BY <1>4, CancelledTwice

(* A loop that fails leaves the working copy consistent.                   *)
LEMMA FailedState ==
  ASSUME NEW m, NEW a, NEW w, NEW w0, NEW q, NEW sq, NEW fees, Cancelled(m, a, w, w0, q, sq, fees)
  PROVE  Cancelled(m, a, [w EXCEPT !.ok = FALSE], w0, q, sq, fees)
<1> DEFINE w2 == [w EXCEPT !.ok = FALSE]
<1>1. w \in Works BY DEF Cancelled, State
<1>2. w2 \in Works /\ w2.book = w.book /\ w2.perp = w.perp /\ w2.slots = w.slots
      /\ w2.open_interest = w.open_interest
  BY <1>1 DEF Works
<1> HIDE DEF w2
<1>3. Cancelled(m, a, w2, w0, q, sq, fees) BY <1>2 DEF Cancelled, State
<1> QED BY <1>3 DEF w2

(* A step of a cancelling loop. *)
CancelLike(m, sl, a, p, x) ==
  \A w : \/ \E k : Own(m, sl, a, k) /\ RunStep(p, w, x) = CancelOne(w, a, k.side, k)
         \/ RunStep(p, w, x) = [w EXCEPT !.ok = FALSE]

(* A whole cancelling loop.                                                *)
LEMMA CancelRun ==
  ASSUME NEW m \in Markets, NEW w0, NEW q, NEW sq, NEW fees, State(m, w0, q, sq, fees),
         NEW a \in Accounts, NEW n \in Nat, NEW seq, DOMAIN seq = 1..n, NEW p,
         \A i \in 1..n : CancelLike(m, w0.slots, a, p, seq[i])
  PROVE  Cancelled(m, a, Run(p, w0, seq), w0, q, sq, fees)
<1>7. PICK r : /\ r[0] = w0
               /\ \A i \in 1..n : r[i] = RunStep(p, r[i - 1], seq[i])
               /\ r[n] = Run(p, w0, seq)
  BY RunChain
<1> DEFINE Q == {i \in Nat : i <= n => Cancelled(m, a, r[i], w0, q, sq, fees)}
<1>9. 0 \in Q
  <2>2. /\ Apart(m, w0.perp, w0.perp) /\ Foreign(m, w0.slots, w0.slots)
        /\ Emptied({a}, w0.slots, w0.slots)
    BY ApartSame, ForeignSame, EmptiedSame
  <2>3. Cancelled(m, a, w0, w0, q, sq, fees) BY <2>2 DEF Cancelled, Smaller
  <2> QED BY <1>7, <2>3
<1>10. ASSUME NEW i \in Nat, i \in Q PROVE i + 1 \in Q
  <2> SUFFICES ASSUME i + 1 <= n PROVE Cancelled(m, a, r[i + 1], w0, q, sq, fees) OBVIOUS
  <2>1. i <= n /\ i + 1 \in 1..n /\ (i + 1) - 1 = i OBVIOUS
  <2>2. Cancelled(m, a, r[i], w0, q, sq, fees) BY <1>10, <2>1
  <2>3. r[i + 1] = RunStep(p, r[i], seq[i + 1]) BY <1>7, <2>1
  <2>4. CancelLike(m, w0.slots, a, p, seq[i + 1]) BY <2>1
  <2> DEFINE w == r[i]
             w2 == r[i + 1]
             x == seq[i + 1]
  <2> HIDE DEF w, x, w2, Q
  <2>5. \/ \E k : Own(m, w0.slots, a, k) /\ w2 = CancelOne(w, a, k.side, k)
        \/ w2 = [w EXCEPT !.ok = FALSE]
    BY <2>3, <2>4 DEF CancelLike, w, x, w2
  <2>6. Cancelled(m, a, w, w0, q, sq, fees) BY <2>2 DEF w
  <2>7. Cancelled(m, a, w2, w0, q, sq, fees)
    <3>1. CASE \E k : Own(m, w0.slots, a, k) /\ w2 = CancelOne(w, a, k.side, k)
      <4>1. PICK k : Own(m, w0.slots, a, k) /\ w2 = CancelOne(w, a, k.side, k) BY <3>1
      <4> QED BY <2>6, <4>1, CancelOwn
    <3>2. CASE w2 = [w EXCEPT !.ok = FALSE] BY <2>6, <3>2, FailedState
    <3> QED BY <2>5, <3>1, <3>2
  <2> QED BY <2>7 DEF w2
<1> HIDE DEF Q
<1>11. n \in Q BY <1>9, <1>10, NatSetInduction
<1>12. Cancelled(m, a, r[n], w0, q, sq, fees) BY <1>11 DEF Q
<1> QED BY <1>7, <1>12

(* A function on 1..n is a sequence of length n.                           *)
LEMMA FunctionSeq ==
  ASSUME NEW S, NEW n \in Nat, NEW f, f \in [1..n -> S]
  PROVE  f \in Seq(S) /\ Len(f) = n
OBVIOUS

(* Sorted gives a sequence of orders of the set.                           *)
LEMMA SortedSeq ==
  ASSUME NEW S, Keyed(S), NEW side \in Sides
  PROVE  Sorted(side, S) \in Seq(S)
<1> DEFINE n == Cardinality(S)
<1>1. n \in Nat /\ DOMAIN Sorted(side, S) = 1..n /\ \A i \in 1..n : Sorted(side, S)[i] \in S
  BY SortedProps
<1>2. Sorted(side, S) = [i \in 1..n |-> Sorted(side, S)[i]] BY DEF Sorted
<1> DEFINE f == Sorted(side, S)
<1> HIDE DEF f, n
<1>3. f \in [1..n -> S] BY <1>1, <1>2 DEF f
<1>4. f \in Seq(S) BY <1>1, <1>3, FunctionSeq
<1> QED BY <1>4 DEF f

(* The keys cancel_all_with_size_incentives collects are keys it was       *)
(* given.                                                                  *)
LEMMA CancelListIn ==
  ASSUME NEW S, Keyed(S), NEW mine, Keyed(mine), NEW side \in Sides, NEW max_depth, NEW t
  PROVE  CancelList(side, S, mine, max_depth, t) \in Seq(mine)
<1> DEFINE bk == Sorted(side, S)
           keys == Reverse(Sorted(side, mine))
           n == Len(bk) + Len(keys)
           turns == [i \in 1..n |-> i]
           p == [op |-> "walk", side |-> side, book |-> bk, keys |-> keys, max_depth |-> max_depth, now |-> t]
           w0 == [i |-> 1, k |-> Len(keys), c |-> 0, out |-> <<>>, deep |-> FALSE]
           end == Run(p, w0, turns)
           Good(w) == w.out \in Seq(mine) /\ w.k \in 0..Len(keys)
<1>1. bk \in Seq(S) /\ Len(bk) \in Nat BY SortedSeq, LenProperties
<1>2. keys \in Seq(mine) /\ Len(keys) \in Nat
  <2> DEFINE s == Sorted(side, mine)
             l == Len(s)
  <2>1. s \in Seq(mine) BY SortedSeq
  <2>2. l \in Nat /\ \A i \in 1..l : s[i] \in mine BY <2>1, LenProperties, ElementOfSeq
  <2>3. Reverse(s) = [i \in 1..l |-> s[(l - i) + 1]] BY DEF Reverse
  <2> HIDE DEF s, l
  <2>4. \A i \in 1..l : (l - i) + 1 \in 1..l BY <2>2
  <2>5. Reverse(s) \in [1..l -> mine] BY <2>2, <2>3, <2>4
  <2>6. Reverse(s) \in Seq(mine) /\ Len(Reverse(s)) = l BY <2>2, <2>5, FunctionSeq
  <2> QED BY <2>2, <2>6 DEF s
<1>3. CancelList(side, S, mine, max_depth, t)
        = end.out \o (IF end.deep THEN SubSeq(keys, 1, end.k) ELSE <<>>)
  <2>1. FoldLeft(LAMBDA acc, x : WalkOne(acc, side, bk, keys, max_depth, t), w0, turns)
          = (CHOOSE g : RunEq(g, p, w0, turns))[DOMAIN turns]
    BY DEF FoldLeft, MapThenFoldSet, RunEq, RunStep
  <2>2. FoldLeft(LAMBDA acc, x : WalkOne(acc, side, bk, keys, max_depth, t), w0, turns) = end
    BY <2>1 DEF Run
  <2> HIDE DEF end
  <2> QED BY <2>2 DEF CancelList
<1>4. n \in Nat /\ DOMAIN turns = 1..n BY <1>1, <1>2
<1>5. p.op = "walk" /\ p.keys = keys /\ p.book = bk OBVIOUS
<1>6. Good(w0)
  <2> <<>> \in Seq(mine) BY EmptySeq
  <2> QED BY <1>2
<1> HIDE DEF bk, keys, n, turns, p, w0
<1>7. ASSUME NEW w, Good(w), NEW x PROVE Good(RunStep(p, w, x))
  <2> DEFINE o == bk[w.i]
             key == keys[w.k]
             hit == o.price = key.price /\ o.seq = key.seq
             passed == ~hit /\ Before(p.side, o, key)
             c == IF passed /\ is_valid(o, p.now) THEN w.c + o.qty ELSE w.c
             w2 == [i    |-> IF hit \/ passed THEN w.i + 1 ELSE w.i,
                    k    |-> IF passed THEN w.k ELSE w.k - 1,
                    c    |-> c,
                    out  |-> IF hit THEN Append(w.out, key) ELSE w.out,
                    deep |-> c >= p.max_depth]
  <2>1. RunStep(p, w, x) = IF w.i > Len(bk) \/ w.k = 0 \/ w.deep THEN w ELSE w2
    BY <1>5 DEF RunStep, WalkOne
  <2>2. CASE w.i > Len(bk) \/ w.k = 0 \/ w.deep BY <1>7, <2>1, <2>2
  <2>3. CASE ~(w.i > Len(bk) \/ w.k = 0 \/ w.deep)
    <3>1. w.k \in 1..Len(keys) /\ w.k - 1 \in 0..Len(keys) BY <1>2, <1>7, <2>3
    <3>2. key \in mine BY <1>2, <3>1, ElementOfSeq
    <3>3. w2.out = (IF hit THEN Append(w.out, key) ELSE w.out)
          /\ w2.k = (IF passed THEN w.k ELSE w.k - 1)
      OBVIOUS
    <3> HIDE DEF w2, hit, passed, key
    <3>4. Append(w.out, key) \in Seq(mine) BY <1>7, <3>2, AppendProperties
    <3>5. Good(w2) BY <1>7, <3>1, <3>3, <3>4
    <3> QED BY <2>1, <2>3, <3>5
  <2> QED BY <2>2, <2>3
<1>8. PICK r : /\ r[0] = w0
               /\ \A i \in 1..n : r[i] = RunStep(p, r[i - 1], turns[i])
               /\ r[n] = Run(p, w0, turns)
  BY <1>4, RunChain
<1> DEFINE Q == {i \in Nat : i <= n => Good(r[i])}
<1> HIDE DEF Good
<1>9. 0 \in Q BY <1>6, <1>8
<1>10. ASSUME NEW i \in Nat, i \in Q PROVE i + 1 \in Q
  <2> SUFFICES ASSUME i + 1 <= n PROVE Good(r[i + 1]) OBVIOUS
  <2>1. i <= n /\ i + 1 \in 1..n /\ (i + 1) - 1 = i BY <1>4
  <2>2. Good(r[i]) BY <1>10, <2>1
  <2>3. r[i + 1] = RunStep(p, r[i], turns[i + 1]) BY <1>8, <2>1
  <2> QED BY <1>7, <2>2, <2>3
<1> HIDE DEF Q
<1>11. n \in Q BY <1>4, <1>9, <1>10, NatSetInduction
<1>12. Good(end) BY <1>4, <1>8, <1>11 DEF Q
<1>13. end.out \in Seq(mine) /\ end.k \in 0..Len(keys) BY <1>12 DEF Good
<1> HIDE DEF end
<1>14. SubSeq(keys, 1, end.k) \in Seq(mine)
  <2>1. 1 \in Int /\ end.k \in Int /\ \A i \in 1..end.k : keys[i] \in mine
    BY <1>2, <1>13, ElementOfSeq
  <2> QED BY <2>1, SubSeqProperties
<1>15. <<>> \in Seq(mine) BY EmptySeq
<1>16. (IF end.deep THEN SubSeq(keys, 1, end.k) ELSE <<>>) \in Seq(mine) BY <1>14, <1>15
<1>17. end.out \o (IF end.deep THEN SubSeq(keys, 1, end.k) ELSE <<>>) \in Seq(mine)
  BY <1>13, <1>16, ConcatProperties
<1> QED BY <1>3, <1>17

(* The first limit elements of a sequence are a sequence.                  *)
LEMMA PrefixSeq ==
  ASSUME NEW S, NEW s \in Seq(S), NEW limit \in Nat
  PROVE  SubSeq(s, 1, Min({limit, Len(s)})) \in Seq(S)
<1>1. Len(s) \in Nat /\ \A i \in 1..Len(s) : s[i] \in S BY LenProperties, ElementOfSeq
<1>2. Min({limit, Len(s)}) = IF limit <= Len(s) THEN limit ELSE Len(s)
  <2> limit \in Int /\ Len(s) \in Int BY <1>1
  <2> QED BY MinTwo
<1>3. 1 \in Int /\ Min({limit, Len(s)}) \in Int /\ Min({limit, Len(s)}) <= Len(s) BY <1>1, <1>2
<1>4. \A i \in 1..Min({limit, Len(s)}) : s[i] \in S BY <1>1, <1>3
<1> QED BY <1>3, <1>4, SubSeqProperties

MySlots(m, sl, a) == {s \in Slot : sl[a][s] # Free /\ sl[a][s].market = m}

(* The slots are a finite set of numbers.                                  *)
LEMMA SlotFinite == IsFiniteSet(Slot) /\ Slot \subseteq Int
<1>1. NumSlots \in Nat BY PerpAssumption
<1>2. 0 \in Int /\ NumSlots - 1 \in Int BY <1>1
<1> QED BY <1>2, FS_Interval DEF Slot

(* SlotsOf lists slots that hold orders of the market.                     *)
LEMMA SlotsOfSeq ==
  ASSUME NEW a, NEW m
  PROVE  SlotsOf(a, m) \in Seq(MySlots(m, slots, a))
<1> DEFINE S == MySlots(m, slots, a)
           f == SlotsOf(a, m)
           n == Cardinality(S)
<1>1. IsFiniteSet(S) /\ S \subseteq Int BY SlotFinite, FS_Subset DEF MySlots
<1>2. f = Ascending(S) BY DEF SlotsOf, MySlots
<1> HIDE DEF S, f
<1>3. n \in Nat /\ DOMAIN f = 1..n /\ \A i \in 1..n : f[i] \in S BY <1>1, <1>2, AscendingProps
<1>4. f = [i \in 1..n |-> f[i]]
  <2>1. Ascending(S) = [i \in 1..n |-> Ascending(S)[i]] BY DEF Ascending
  <2> QED BY <1>2, <2>1
<1> HIDE DEF n
<1>5. f \in [1..n -> S] BY <1>3, <1>4
<1>6. f \in Seq(S) BY <1>3, <1>5, FunctionSeq
<1> QED BY <1>6 DEF S, f

(* Each of them is one.                                                    *)
LEMMA SlotsOfIn ==
  ASSUME NEW a, NEW m, NEW s \in ToSet(SlotsOf(a, m))
  PROVE  s \in MySlots(m, slots, a)
<1>1. SlotsOf(a, m) \in Seq(MySlots(m, slots, a)) BY SlotsOfSeq
<1>2. PICK i \in DOMAIN SlotsOf(a, m) : s = SlotsOf(a, m)[i] BY DEF ToSet
<1> QED BY <1>1, <1>2, LenProperties, ElementOfSeq

(* So does Visited, up to its limit.                                       *)
LEMMA VisitedSeq ==
  ASSUME NEW a, NEW m, NEW limit \in Nat
  PROVE  Visited(a, m, limit) \in Seq(MySlots(m, slots, a))
BY SlotsOfSeq, PrefixSeq DEF Visited

(* The key in such a slot is the account's own.                            *)
LEMMA MySlotOwn ==
  ASSUME slots \in Tables, NEW a \in Accounts, NEW m, NEW s \in MySlots(m, slots, a)
  PROVE  Own(m, slots, a, slots[a][s])
<1>1. s \in Slot /\ slots[a][s] # Free /\ slots[a][s].market = m BY DEF MySlots
<1>2. slots[a][s] \in Tracked BY <1>1 DEF Tables
<1>3. slots[a][s].side \in Sides BY <1>2 DEF Tracked
<1> QED BY <1>1, <1>3 DEF Own, Mine

(* cancel_all, with and without price incentives, keeps a market           *)
(* consistent.                                                             *)
LEMMA CancelSlotsState ==
  ASSUME NEW m \in Markets, NEW sq, NEW fees, State(m, Work(m), queue[m], sq, fees),
         NEW a \in Accounts, NEW limit \in Nat
  PROVE  /\ Cancelled(m, a, CancelSlots(a, m, limit), Work(m), queue[m], sq, fees)
         /\ Cancelled(m, a, CancelSlotsByPrice(a, m, limit), Work(m), queue[m], sq, fees)
<1> DEFINE v == Visited(a, m, limit)
           n == Len(v)
           w0 == Work(m)
           p == [op |-> "slots", owner |-> a]
           p2 == [op |-> "best", owner |-> a]
<1>0. slots \in Tables /\ w0.slots = slots BY DEF State, Works, Work
<1>1. v \in Seq(MySlots(m, slots, a)) BY VisitedSeq
<1>2. n \in Nat /\ DOMAIN v = 1..n /\ \A i \in 1..n : v[i] \in MySlots(m, slots, a)
  BY <1>1, LenProperties, ElementOfSeq
<1>3. ASSUME NEW i \in 1..n
      PROVE  CancelLike(m, w0.slots, a, p, v[i]) /\ CancelLike(m, w0.slots, a, p2, v[i])
  <2> DEFINE k == slots[a][v[i]]
  <2>1. Own(m, w0.slots, a, k) BY <1>0, <1>2, MySlotOwn
  <2> HIDE DEF v
  <2>2. \A w : RunStep(p, w, v[i]) = CancelOne(w, a, k.side, k) BY DEF RunStep
  <2>3. \A w : RunStep(p2, w, v[i]) = CancelOne(w, a, k.side, k)
               \/ RunStep(p2, w, v[i]) = [w EXCEPT !.ok = FALSE] BY DEF RunStep
  <2> HIDE DEF k, p, p2, w0
  <2> QED BY <2>1, <2>2, <2>3 DEF CancelLike
<1>4. CancelSlots(a, m, limit) = Run(p, w0, v)
  <2>1. CancelSlots(a, m, limit) = (CHOOSE g : RunEq(g, p, w0, v))[DOMAIN v]
    BY DEF CancelSlots, FoldLeft, MapThenFoldSet, RunEq, RunStep
  <2> QED BY <2>1 DEF Run
<1>5. CancelSlotsByPrice(a, m, limit) = Run(p2, w0, v)
  <2>1. CancelSlotsByPrice(a, m, limit) = (CHOOSE g : RunEq(g, p2, w0, v))[DOMAIN v]
    BY DEF CancelSlotsByPrice, FoldLeft, MapThenFoldSet, RunEq, RunStep
  <2> QED BY <2>1 DEF Run
<1>6. State(m, w0, queue[m], sq, fees) OBVIOUS
<1> HIDE DEF v, n, w0, p, p2
<1>7. Cancelled(m, a, Run(p, w0, v), w0, queue[m], sq, fees) BY <1>2, <1>3, <1>6, CancelRun
<1>8. Cancelled(m, a, Run(p2, w0, v), w0, queue[m], sq, fees) BY <1>2, <1>3, <1>6, CancelRun
<1> QED BY <1>4, <1>5, <1>7, <1>8 DEF w0

(* The keys of an account's orders on one side. *)
KeysOf(S, sl, a, side) ==
  {[side |-> side, price |-> sl[a][s].price, seq |-> sl[a][s].seq] :
     s \in {x \in S : sl[a][x].side = side}}

(* The keys of an account's orders on one side are told apart by their     *)
(* numbers.                                                                *)
LEMMA KeysKeyed ==
  ASSUME NEW m, NEW sl \in Tables, NEW sq, Numbered(m, sl, sq), NEW a \in Accounts, NEW side,
         NEW S \in SUBSET MySlots(m, sl, a)
  PROVE  Keyed(KeysOf(S, sl, a, side))
<1> DEFINE T == {x \in S : sl[a][x].side = side}
           f == [s \in T |-> [side |-> side, price |-> sl[a][s].price, seq |-> sl[a][s].seq]]
           K == KeysOf(S, sl, a, side)
<1>1. IsFiniteSet(T) /\ \A s \in T : s \in Slot /\ Mine(m, sl[a][s])
  BY SlotFinite, FS_Subset DEF MySlots, Mine
<1>2. K = {f[s] : s \in T} BY DEF KeysOf
<1>3. IsFiniteSet({f[s] : s \in T})
  <2> HIDE DEF T
  <2>1. f \in Surjection(T, {f[s] : s \in T}) BY DEF Surjection
  <2> HIDE DEF f
  <2> QED BY <1>1, <2>1, FS_Surjection
<1>4. ASSUME NEW s \in T PROVE f[s].price \in Int /\ f[s].seq \in Int /\ f[s].seq = sl[a][s].seq
  <2>1. sl[a][s] \in Tracked BY <1>1 DEF Tables, Mine
  <2>2. sl[a][s].price \in Int /\ sl[a][s].seq \in Int BY <2>1 DEF Tracked
  <2> QED BY <2>2
<1>5. ASSUME NEW s \in T, NEW x \in T, f[s].seq = f[x].seq PROVE f[s] = f[x]
  <2>1. sl[a][s].seq = sl[a][x].seq BY <1>5
  <2>2. s \in Slot /\ x \in Slot /\ Mine(m, sl[a][s]) /\ Mine(m, sl[a][x]) BY <1>1
  <2>3. s = x BY <2>1, <2>2 DEF Numbered
  <2> QED BY <2>3
<1> HIDE DEF f, T, K
<1>6. Keyed(K) BY <1>2, <1>3, <1>4, <1>5 DEF Keyed
<1> QED BY <1>6 DEF K

(* They are the account's own.                                             *)
LEMMA KeysOwn ==
  ASSUME NEW m, NEW sl, NEW a, NEW side \in Sides, NEW S \in SUBSET MySlots(m, sl, a),
         NEW k \in KeysOf(S, sl, a, side)
  PROVE  Own(m, sl, a, k)
<1>1. PICK s \in S : /\ sl[a][s].side = side
                      /\ k = [side |-> side, price |-> sl[a][s].price, seq |-> sl[a][s].seq]
  BY DEF KeysOf
<1>2. k.side = side /\ k.price = sl[a][s].price /\ k.seq = sl[a][s].seq BY <1>1
<1>3. s \in Slot /\ Mine(m, sl[a][s]) BY DEF MySlots, Mine
<1> QED BY <1>1, <1>2, <1>3 DEF Own

OwnKeys(S, sl, a) == KeysOf(S, sl, a, "bid") \cup KeysOf(S, sl, a, "ask")

(* cancel_all_with_size_incentives keeps a market consistent.              *)
LEMMA SizeState ==
  ASSUME NEW m \in Markets, NEW sq, NEW fees, State(m, Work(m), queue[m], sq, fees),
         NEW a \in Accounts, NEW limit \in Nat, NEW sides
  PROVE  Cancelled(m, a, CancelSidesBySize(a, m, sides, limit), Work(m), queue[m], sq, fees)
<1> DEFINE M == ToSet(SlotsOf(a, m))
           List(side) == IF side \in sides
                         THEN CancelList(side, book[m][side], KeysOf(M, slots, a, side), MaxDepth, now)
                         ELSE <<>>
           all == List("bid") \o List("ask")
           v == SubSeq(all, 1, Min({limit, Len(all)}))
           n == Len(v)
           w0 == Work(m)
           p == [op |-> "keys", owner |-> a]
           K == OwnKeys(M, slots, a)
<1>0. slots \in Tables /\ w0.slots = slots /\ Desk(m, book[m], queue[m], slots, sq)
  BY DEF State, Works, Work
<1>a. M \in SUBSET MySlots(m, slots, a) BY SlotsOfIn
<1>1. "bid" \in Sides /\ "ask" \in Sides BY DEF Sides
<1>2. ASSUME NEW side \in Sides PROVE List(side) \in Seq(KeysOf(M, slots, a, side))
  <2>1. Keyed(book[m][side]) /\ Numbered(m, slots, sq) BY <1>0 DEF Desk
  <2>2. Keyed(KeysOf(M, slots, a, side)) BY <1>0, <1>a, <2>1, KeysKeyed
  <2>3. CancelList(side, book[m][side], KeysOf(M, slots, a, side), MaxDepth, now)
          \in Seq(KeysOf(M, slots, a, side))
    BY <2>1, <2>2, CancelListIn
  <2>4. <<>> \in Seq(KeysOf(M, slots, a, side)) BY EmptySeq
  <2> QED BY <2>3, <2>4
<1>3. CancelSidesBySize(a, m, sides, limit) = Run(p, w0, v)
  <2>2. CancelSidesBySize(a, m, sides, limit)
          = FoldLeft(LAMBDA w, k : CancelOne(w, a, k.side, k), Work(m), v)
    BY DEF CancelSidesBySize, KeysOf
  <2> HIDE DEF v
  <2>3. FoldLeft(LAMBDA w, k : CancelOne(w, a, k.side, k), Work(m), v)
          = (CHOOSE g : RunEq(g, p, w0, v))[DOMAIN v]
    BY DEF FoldLeft, MapThenFoldSet, RunEq, RunStep
  <2> QED BY <2>2, <2>3 DEF Run
<1> HIDE DEF List, M
<1>4. List("bid") \in Seq(K) /\ List("ask") \in Seq(K)
  <2>1. List("bid") \in Seq(KeysOf(M, slots, a, "bid")) /\ List("ask") \in Seq(KeysOf(M, slots, a, "ask"))
    BY <1>1, <1>2
  <2>2. KeysOf(M, slots, a, "bid") \subseteq K /\ KeysOf(M, slots, a, "ask") \subseteq K BY DEF OwnKeys
  <2> HIDE DEF K
  <2> QED BY <2>1, <2>2
<1>5. all \in Seq(K) BY <1>4, ConcatProperties
<1> HIDE DEF all
<1>6. v \in Seq(K) BY <1>5, PrefixSeq
<1> HIDE DEF v
<1>7. n \in Nat /\ DOMAIN v = 1..n /\ \A i \in 1..n : v[i] \in K BY <1>6, LenProperties, ElementOfSeq
<1>8. ASSUME NEW i \in 1..n PROVE CancelLike(m, w0.slots, a, p, v[i])
  <2> DEFINE k == v[i]
  <2>1. Own(m, w0.slots, a, k)
    <3> k \in KeysOf(M, slots, a, "bid") \/ k \in KeysOf(M, slots, a, "ask") BY <1>7 DEF OwnKeys
    <3> QED BY <1>0, <1>1, <1>a, KeysOwn
  <2>2. \A w : RunStep(p, w, k) = CancelOne(w, a, k.side, k) BY DEF RunStep
  <2> HIDE DEF k, p, w0
  <2> QED BY <2>1, <2>2 DEF CancelLike, k
<1>9. State(m, w0, queue[m], sq, fees) OBVIOUS
<1> HIDE DEF n, w0, p
<1>10. Cancelled(m, a, Run(p, w0, v), w0, queue[m], sq, fees) BY <1>7, <1>8, <1>9, CancelRun
<1> QED BY <1>3, <1>10 DEF w0

-----------------------------------------------------------------------------
(***************************************************************************)
(* Matching: the fills of a new order, the orders they are made against,   *)
(* and what the queue then says.                                           *)
(***************************************************************************)

(* The queue u has, over q, fills of taker for x lots and y quote in all. *)
Tally(q, u, taker, side, x, y) ==
  /\ QSum(Turnover, u) = QSum(Turnover, q) + y
  /\ \A b \in Accounts :
       /\ QSum(TakerBase(b), u) = QSum(TakerBase(b), q) + (IF b = taker THEN Sign(side) * x ELSE 0)
       /\ QSum(TakerQuote(b), u) = QSum(TakerQuote(b), q) + (IF b = taker THEN -Sign(side) * y ELSE 0)

(* Before the first fill.                                                  *)
LEMMA TallyNone ==
  ASSUME NEW q \in Seq(EventSet), NEW taker, NEW side
  PROVE  Tally(q, q, taker, side, 0, 0)
<1>1. QSum(Turnover, q) \in Int BY Weights, QSumInt
<1>2. \A b : QSum(TakerBase(b), q) \in Int /\ QSum(TakerQuote(b), q) \in Int BY Weights, QSumInt
<1>3. Sign(side) * 0 = 0 /\ -Sign(side) * 0 = 0 BY SignInt
<1> QED BY <1>1, <1>2, <1>3 DEF Tally

(* An OutEvent fills nothing.                                              *)
LEMMA TallyOut ==
  ASSUME NEW q \in Seq(EventSet), NEW u \in Seq(EventSet), NEW taker, NEW side, NEW x \in Int, NEW y \in Int,
         Tally(q, u, taker, side, x, y), NEW e \in EventSet, e.type = "out"
  PROVE  Tally(q, Append(u, e), taker, side, x, y)
<1>1. QSum(Turnover, Append(u, e)) = QSum(Turnover, u)
  <2>1. Turnover \in Weight BY Weights
  <2>2. QSum(Turnover, u) \in Int BY <2>1, QSumInt
  <2>3. Turnover[e] = 0 BY DEF Turnover
  <2> QED BY <2>1, <2>2, <2>3, QSumAppend
<1>2. ASSUME NEW b \in Accounts
      PROVE  /\ QSum(TakerBase(b), Append(u, e)) = QSum(TakerBase(b), u)
             /\ QSum(TakerQuote(b), Append(u, e)) = QSum(TakerQuote(b), u)
  <2>1. TakerBase(b) \in Weight /\ TakerQuote(b) \in Weight BY Weights
  <2>2. QSum(TakerBase(b), u) \in Int /\ QSum(TakerQuote(b), u) \in Int BY <2>1, QSumInt
  <2>3. TakerBase(b)[e] = 0 /\ TakerQuote(b)[e] = 0 BY DEF TakerBase, TakerQuote
  <2>4. /\ QSum(TakerBase(b), Append(u, e)) = QSum(TakerBase(b), u) + TakerBase(b)[e]
        /\ QSum(TakerQuote(b), Append(u, e)) = QSum(TakerQuote(b), u) + TakerQuote(b)[e]
    BY <2>1, QSumAppend
  <2> QED BY <2>2, <2>3, <2>4
<1> QED BY <1>1, <1>2 DEF Tally

(* A signed sum is the sum of the signed parts.                            *)
LEMMA SignSplit ==
  ASSUME NEW side, NEW x \in Int, NEW k \in Int
  PROVE  /\ Sign(side) * (x + k) = Sign(side) * x + Sign(side) * k
         /\ Sign(side) * x \in Int /\ Sign(side) * k \in Int
         /\ -Sign(side) * (x + k) = (-Sign(side) * x) + (-Sign(side) * k)
         /\ -Sign(side) * x \in Int /\ -Sign(side) * k \in Int
<1>1. CASE Sign(side) = 1 BY <1>1
<1>2. CASE Sign(side) = -1 BY <1>2
<1> QED BY <1>1, <1>2, SignInt

(* A fill adds its lots and their price.                                   *)
LEMMA TallyFill ==
  ASSUME NEW q \in Seq(EventSet), NEW u \in Seq(EventSet), NEW taker, NEW side \in Sides, NEW x \in Int, NEW y \in Int,
         Tally(q, u, taker, side, x, y), NEW e \in EventSet, e.type = "fill", e.taker = taker,
         e.taker_side = side, NEW k \in Int, k = e.qty, NEW t \in Int, t = e.qty * e.price
  PROVE  Tally(q, Append(u, e), taker, side, x + k, y + t)
<1> DEFINE s == Sign(side)
<1>s. s \in Int /\ (s = 1 \/ s = -1) BY SignInt
<1>1. QSum(Turnover, Append(u, e)) = QSum(Turnover, q) + (y + t)
  <2>1. Turnover \in Weight BY Weights
  <2>2. QSum(Turnover, u) \in Int /\ QSum(Turnover, q) \in Int BY <2>1, QSumInt
  <2>3. Turnover[e] = t BY DEF Turnover
  <2>4. QSum(Turnover, Append(u, e)) = QSum(Turnover, u) + t BY <2>1, <2>3, QSumAppend
  <2>5. QSum(Turnover, u) = QSum(Turnover, q) + y BY DEF Tally
  <2> QED BY <2>2, <2>4, <2>5
<1>2. ASSUME NEW b \in Accounts
      PROVE  /\ QSum(TakerBase(b), Append(u, e)) = QSum(TakerBase(b), q) + (IF b = taker THEN s * (x + k) ELSE 0)
             /\ QSum(TakerQuote(b), Append(u, e)) = QSum(TakerQuote(b), q) + (IF b = taker THEN -s * (y + t) ELSE 0)
  <2>1. TakerBase(b) \in Weight /\ TakerQuote(b) \in Weight BY Weights
  <2>2. /\ QSum(TakerBase(b), u) \in Int /\ QSum(TakerQuote(b), u) \in Int
        /\ QSum(TakerBase(b), q) \in Int /\ QSum(TakerQuote(b), q) \in Int
    BY <2>1, QSumInt
  <2>3. /\ TakerBase(b)[e] = IF b = taker THEN s * k ELSE 0
        /\ TakerQuote(b)[e] = IF b = taker THEN -s * t ELSE 0
    BY DEF TakerBase, TakerQuote
  <2>4. /\ QSum(TakerBase(b), Append(u, e)) = QSum(TakerBase(b), u) + TakerBase(b)[e]
        /\ QSum(TakerQuote(b), Append(u, e)) = QSum(TakerQuote(b), u) + TakerQuote(b)[e]
    BY <2>1, QSumAppend
  <2>5. /\ QSum(TakerBase(b), u) = QSum(TakerBase(b), q) + (IF b = taker THEN s * x ELSE 0)
        /\ QSum(TakerQuote(b), u) = QSum(TakerQuote(b), q) + (IF b = taker THEN -s * y ELSE 0)
    BY DEF Tally
  <2>6. s * (x + k) = s * x + s * k /\ s * x \in Int /\ s * k \in Int BY SignSplit
  <2>7. -s * (y + t) = (-s * y) + (-s * t) /\ -s * y \in Int /\ -s * t \in Int BY SignSplit
  <2> HIDE DEF s
  <2>8. CASE b = taker
    <3>1. QSum(TakerBase(b), Append(u, e)) = QSum(TakerBase(b), q) + s * x + s * k BY <2>3, <2>4, <2>5, <2>8
    <3>2. QSum(TakerQuote(b), Append(u, e)) = QSum(TakerQuote(b), q) + (-s * y) + (-s * t)
      BY <2>3, <2>4, <2>5, <2>8
    <3>3. QSum(TakerBase(b), Append(u, e)) = QSum(TakerBase(b), q) + s * (x + k) BY <2>2, <2>6, <3>1
    <3>4. QSum(TakerQuote(b), Append(u, e)) = QSum(TakerQuote(b), q) + (-s * (y + t)) BY <2>2, <2>7, <3>2
    <3> QED BY <2>8, <3>3, <3>4
  <2>9. CASE b # taker BY <2>2, <2>3, <2>4, <2>5, <2>9
  <2> QED BY <2>8, <2>9
<1> QED BY <1>1, <1>2 DEF Tally

(* Appending to the second of two sequences appends to both.               *)
LEMMA ConcatAppend ==
  ASSUME NEW S, NEW q \in Seq(S), NEW u \in Seq(S), NEW e \in S
  PROVE  q \o Append(u, e) = Append(q \o u, e)
<1>1. <<e>> \in Seq(S) OBVIOUS
<1>2. Append(u, e) = u \o <<e>> BY AppendIsConcat
<1>3. q \o u \in Seq(S) BY ConcatProperties
<1>4. Append(q \o u, e) = (q \o u) \o <<e>> BY <1>3, AppendIsConcat
<1> QED BY <1>1, <1>2, <1>4, ConcatAssociative

(* Integer division rounds down.                                           *)
LEMMA DivFacts ==
  ASSUME NEW x \in Nat, NEW y \in Lots
  PROVE  x \div y \in Nat /\ (x \div y) * y <= x
BY DEF Lots

(* Multiplying by a natural number keeps an inequality.                    *)
LEMMA Monotone ==
  ASSUME NEW x \in Int, NEW y \in Int, NEW z \in Nat, x <= y
  PROVE  x * z <= y * z
OBVIOUS

(* What the book, the queue, the tables and the accounts of a market agree on. *)
Stage(m, bk, u, sl, sq, pp) == Desk(m, bk, u, sl, sq) /\ Counts(m, bk, u, pp)

(* A book with one side replaced. *)
With(bk, side, S) == [bk EXCEPT ![side] = S]

(* The OutEvent of an order.                                               *)
LEMMA OutParts ==
  ASSUME NEW o \in OrderSet, NEW side \in Sides
  PROVE  LET e == OutEvent(o, side)
         IN  /\ e \in EventSet /\ e.type = "out" /\ Frees(e) /\ Who(e) = o.owner /\ Which(e) = o.slot
             /\ SideOf(e) = side /\ e.qty = o.qty
BY DEF OutEvent, EventSet, OutSet, OrderSet, Frees, Who, Which, SideOf

(* An expired order is dropped. *)
LEMMA StageOut ==
  ASSUME NEW m, NEW bk, NEW u, NEW sl, NEW sq, NEW pp, Stage(m, bk, u, sl, sq, pp),
         NEW side \in Sides, NEW o \in bk[side]
  PROVE  /\ OutEvent(o, side) \in EventSet /\ OutEvent(o, side).type = "out"
         /\ Stage(m, With(bk, side, bk[side] \ {o}), Append(u, OutEvent(o, side)), sl, sq, pp)
<1> DEFINE e == OutEvent(o, side)
<1>1. Desk(m, bk, u, sl, sq) /\ Counts(m, bk, u, pp) BY DEF Stage
<1>2. o \in OrderSet /\ bk \in Books BY <1>1 DEF Desk, Books
<1>3. /\ e \in EventSet /\ e.type = "out" /\ Frees(e) /\ Who(e) = o.owner /\ Which(e) = o.slot
      /\ SideOf(e) = side /\ e.qty = o.qty
  BY <1>2, OutParts
<1> HIDE DEF e
<1>4. Desk(m, [bk EXCEPT ![side] = @ \ {o}], Append(u, e), sl, sq) BY <1>1, <1>3, Leaves
<1>5. Counts(m, [bk EXCEPT ![side] = @ \ {o}], Append(u, e), pp) BY <1>1, <1>3, CountsLeave
<1>6. [bk EXCEPT ![side] = @ \ {o}] = With(bk, side, bk[side] \ {o}) BY <1>2 DEF With, Books
<1> QED BY <1>3, <1>4, <1>5, <1>6 DEF Stage, e

(* The FillEvent of an order and a taker.                                  *)
LEMMA FillEventParts ==
  ASSUME NEW o \in OrderSet, NEW side \in Sides, NEW taker \in Accounts, NEW qty \in Lots
  PROVE  LET e == FillEvent(o, side, taker, qty)
         IN  /\ e \in EventSet /\ e.type = "fill" /\ (Frees(e) <=> qty = o.qty)
             /\ Who(e) = o.owner /\ Which(e) = o.slot
             /\ SideOf(e) = invert_side(side) /\ e.qty = qty /\ e.price = o.price
             /\ e.taker = taker /\ e.taker_side = side
<1>1. FillEvent(o, side, taker, qty) \in FillSet BY DEF FillEvent, FillSet, OrderSet
<1> QED BY <1>1 DEF FillEvent, EventSet, Frees, Who, Which, SideOf

(* An order with part of it filled.                                        *)
LEMMA OrderLess ==
  ASSUME NEW o \in OrderSet, NEW qty \in Lots, qty <= o.qty, qty # o.qty
  PROVE  LET p == [o EXCEPT !.qty = @ - qty]
         IN  /\ p \in OrderSet /\ p.price = o.price /\ p.seq = o.seq /\ p.owner = o.owner
             /\ p.slot = o.slot /\ p.qty = o.qty - qty
<1>1. o.qty - qty \in Lots BY DEF Lots, OrderSet
<1> QED BY <1>1 DEF OrderSet

(* The other side is a side, and another.                                  *)
LEMMA Inverse2 == \A side \in Sides : invert_side(side) \in Sides /\ invert_side(side) # side
BY DEF invert_side, Sides

(* A resting order is filled, in full or in part. *)
LEMMA StageFill ==
  ASSUME NEW m, NEW bk, NEW u, NEW sl, NEW sq, NEW pp, Stage(m, bk, u, sl, sq, pp),
         NEW side \in Sides, NEW o \in bk[invert_side(side)], NEW taker \in Accounts,
         NEW qty \in Lots, qty <= o.qty
  PROVE  /\ FillEvent(o, side, taker, qty) \in EventSet
         /\ Stage(m, With(bk, invert_side(side), (bk[invert_side(side)] \ {o}) \cup AfterFill(o, qty)),
                  Append(u, FillEvent(o, side, taker, qty)), sl, sq, pp)
<1> DEFINE e == FillEvent(o, side, taker, qty)
           opp == invert_side(side)
<1>1. Desk(m, bk, u, sl, sq) /\ Counts(m, bk, u, pp) BY DEF Stage
<1>0. opp \in Sides BY Inverse2
<1>2. o \in OrderSet /\ bk \in Books BY <1>0, <1>1 DEF Desk, Books
<1>3. /\ e \in EventSet /\ e.type = "fill" /\ (Frees(e) <=> qty = o.qty)
      /\ Who(e) = o.owner /\ Which(e) = o.slot
      /\ SideOf(e) = opp /\ e.qty = qty
  BY <1>2, FillEventParts
<1> HIDE DEF e, opp
<1>o. o \in bk[opp] BY DEF opp
<1>4. CASE qty = o.qty
  <2>1. Frees(e) BY <1>3, <1>4
  <2>2. Desk(m, [bk EXCEPT ![opp] = @ \ {o}], Append(u, e), sl, sq) BY <1>0, <1>o, <1>1, <1>3, <2>1, Leaves
  <2>3. Counts(m, [bk EXCEPT ![opp] = @ \ {o}], Append(u, e), pp) BY <1>0, <1>o, <1>1, <1>3, <1>4, CountsLeave
  <2>4. AfterFill(o, qty) = {} BY <1>4 DEF AfterFill
  <2>5. [bk EXCEPT ![opp] = @ \ {o}] = With(bk, opp, (bk[opp] \ {o}) \cup AfterFill(o, qty))
    BY <1>0, <1>2, <2>4 DEF With, Books
  <2> QED BY <1>3, <2>2, <2>3, <2>5 DEF Stage, e, opp
<1>5. CASE qty # o.qty
  <2> DEFINE p == [o EXCEPT !.qty = @ - qty]
  <2>1. ~Frees(e) BY <1>3, <1>5
  <2>2. /\ p \in OrderSet /\ p.price = o.price /\ p.seq = o.seq /\ p.owner = o.owner
        /\ p.slot = o.slot /\ p.qty = o.qty - qty
    BY <1>2, <1>5, OrderLess
  <2>4. AfterFill(o, qty) = {p} BY <1>5 DEF AfterFill
  <2> HIDE DEF p
  <2>k. Keyed(bk[opp]) BY <1>0, <1>1 DEF Desk
  <2>3. p \notin bk[opp] \ {o} BY <1>o, <2>2, <2>k DEF Keyed
  <2>6. Desk(m, [bk EXCEPT ![opp] = (@ \ {o}) \cup {p}], Append(u, e), sl, sq)
    BY <1>0, <1>o, <1>1, <1>3, <2>1, <2>2, Shrinks
  <2>7. p.qty = o.qty - e.qty BY <1>3, <2>2
  <2>8. Counts(m, [bk EXCEPT ![opp] = (@ \ {o}) \cup {p}], Append(u, e), pp)
    BY <1>0, <1>o, <1>1, <1>3, <2>2, <2>3, <2>7, CountsShrink
  <2>5. [bk EXCEPT ![opp] = (@ \ {o}) \cup {p}] = With(bk, opp, (bk[opp] \ {o}) \cup AfterFill(o, qty))
    BY <1>0, <1>2, <2>4 DEF With, Books
  <2> QED BY <1>3, <2>6, <2>8, <2>5 DEF Stage, e, opp
<1> QED BY <1>4, <1>5

MatchSet ==
  [base : Nat, quote : Nat, limit : Int, drops : Int, post : BOOLEAN, done : BOOLEAN,
   evs : Seq(EventSet), rest : SUBSET OrderSet]

(* The matching loop after the orders before the i-th. *)
Matched(m, bk, q, sl, sq, pp, acc, taker, side, base, quote) ==
  /\ acc \in MatchSet /\ (acc.done \/ acc.base > 0)
  /\ Stage(m, With(bk, invert_side(side), acc.rest), q \o acc.evs, sl, sq, pp)
  /\ Tally(q, q \o acc.evs, taker, side, base - acc.base, quote - acc.quote)

(* The matching loop meets an expired order.                               *)
LEMMA MatchedOut ==
  ASSUME NEW m, NEW bk \in Books, NEW q \in Seq(EventSet), NEW sl, NEW sq, NEW pp, NEW acc, NEW taker \in Accounts,
         NEW side \in Sides, NEW base \in Nat, NEW quote \in Nat,
         Matched(m, bk, q, sl, sq, pp, acc, taker, side, base, quote), NEW o \in acc.rest,
         NEW x, x = [acc EXCEPT !.drops = @ + 1, !.evs = Append(@, OutEvent(o, invert_side(side))),
                                !.rest = @ \ {o}]
  PROVE  Matched(m, bk, q, sl, sq, pp, x, taker, side, base, quote)
<1> DEFINE opp == invert_side(side)
           b1 == With(bk, opp, acc.rest)
           e == OutEvent(o, opp)
<1>0. opp \in Sides BY Inverse2
<1>1. acc \in MatchSet /\ Stage(m, b1, q \o acc.evs, sl, sq, pp) BY DEF Matched
<1>2. b1[opp] = acc.rest /\ o \in b1[opp] /\ With(b1, opp, b1[opp] \ {o}) = With(bk, opp, acc.rest \ {o})
  BY <1>0 DEF With, Books
<1>3. /\ e \in EventSet /\ e.type = "out"
      /\ Stage(m, With(b1, opp, b1[opp] \ {o}), Append(q \o acc.evs, e), sl, sq, pp)
  <2> HIDE DEF b1, opp
  <2> QED BY <1>0, <1>1, <1>2, StageOut
<1>4. acc.evs \in Seq(EventSet) /\ q \o acc.evs \in Seq(EventSet) BY <1>1, ConcatProperties DEF MatchSet
<1>5. q \o Append(acc.evs, e) = Append(q \o acc.evs, e) /\ Append(acc.evs, e) \in Seq(EventSet)
  BY <1>3, <1>4, ConcatAppend
<1> HIDE DEF e
<1>6. /\ x \in MatchSet /\ x.base = acc.base /\ x.quote = acc.quote /\ x.done = acc.done
      /\ x.evs = Append(acc.evs, e) /\ x.rest = acc.rest \ {o}
  <2>1. x = [acc EXCEPT !.drops = acc.drops + 1, !.evs = Append(acc.evs, e), !.rest = acc.rest \ {o}]
    BY <1>1 DEF MatchSet, e
  <2>2. acc.drops + 1 \in Int /\ acc.rest \ {o} \in SUBSET OrderSet BY <1>1 DEF MatchSet
  <2> QED BY <1>1, <1>5, <2>1, <2>2 DEF MatchSet
<1>7. base - acc.base \in Int /\ quote - acc.quote \in Int BY <1>1 DEF MatchSet
<1>8. Tally(q, Append(q \o acc.evs, e), taker, side, base - acc.base, quote - acc.quote)
  BY <1>3, <1>4, <1>7, TallyOut DEF Matched
<1>9. x.done \/ x.base > 0 BY <1>6 DEF Matched
<1>10. Stage(m, With(bk, opp, x.rest), q \o x.evs, sl, sq, pp) BY <1>2, <1>3, <1>5, <1>6
<1>11. Tally(q, q \o x.evs, taker, side, base - x.base, quote - x.quote) BY <1>5, <1>6, <1>8
<1> QED BY <1>6, <1>9, <1>10, <1>11 DEF Matched

(* The matching loop fills an order.                                       *)
LEMMA MatchedFill ==
  ASSUME NEW m, NEW bk \in Books, NEW q \in Seq(EventSet), NEW sl, NEW sq, NEW pp, NEW acc, NEW taker \in Accounts,
         NEW side \in Sides, NEW base \in Nat, NEW quote \in Nat,
         Matched(m, bk, q, sl, sq, pp, acc, taker, side, base, quote), NEW o \in acc.rest,
         ~acc.done, acc.quote \div o.price # 0,
         NEW qty, qty = Min({acc.base, o.qty, acc.quote \div o.price}),
         NEW x, x = [acc EXCEPT !.base = @ - qty,
                       !.quote = @ - qty * o.price,
                       !.limit = @ - 1,
                       !.evs = Append(@, FillEvent(o, side, taker, qty)),
                       !.rest = (@ \ {o}) \cup AfterFill(o, qty),
                       !.done = qty = acc.quote \div o.price \/ qty = acc.base]
  PROVE  Matched(m, bk, q, sl, sq, pp, x, taker, side, base, quote)
<1> DEFINE opp == invert_side(side)
           b1 == With(bk, opp, acc.rest)
           e == FillEvent(o, side, taker, qty)
           by == acc.quote \div o.price
           t == qty * o.price
<1>0. opp \in Sides BY Inverse2
<1>1. acc \in MatchSet /\ Stage(m, b1, q \o acc.evs, sl, sq, pp) BY DEF Matched
<1>o. o \in OrderSet /\ o.qty \in Lots /\ o.price \in Lots /\ o.price \in Nat BY <1>1 DEF MatchSet, OrderSet, Lots
<1>a. acc.base \in Nat /\ acc.quote \in Nat /\ acc.base > 0 BY <1>1 DEF MatchSet, Matched
<1>b. by \in Nat /\ by * o.price <= acc.quote BY <1>o, <1>a, DivFacts
<1>c. by > 0 BY <1>b
<1>d. /\ qty \in {acc.base, o.qty, by} /\ qty <= acc.base /\ qty <= o.qty /\ qty <= by
  <2>1. acc.base \in Int /\ o.qty \in Int /\ by \in Int BY <1>o, <1>a, <1>b DEF Lots
  <2> HIDE DEF by
  <2>2. qty = Min({acc.base, o.qty, by}) BY DEF by
  <2> QED BY <2>1, <2>2, MinThree
<1> HIDE DEF by
<1>e. qty \in Lots /\ qty \in Int BY <1>a, <1>b, <1>c, <1>d, <1>o DEF Lots
<1>f. t \in Nat /\ t <= acc.quote
  <2>1. qty * o.price <= by * o.price BY <1>b, <1>d, <1>e, <1>o, Monotone
  <2>2. qty * o.price \in Nat BY <1>e, <1>o DEF Lots
  <2>3. by * o.price \in Int BY <1>b, <1>o, ProductInt
  <2> HIDE DEF t
  <2>4. t = qty * o.price BY DEF t
  <2> QED BY <1>a, <1>b, <2>1, <2>2, <2>3, <2>4
<1>2. b1[opp] = acc.rest /\ o \in b1[opp]
      /\ With(b1, opp, (b1[opp] \ {o}) \cup AfterFill(o, qty)) = With(bk, opp, (acc.rest \ {o}) \cup AfterFill(o, qty))
  BY <1>0 DEF With, Books
<1>3. /\ e \in EventSet
      /\ Stage(m, With(b1, opp, (b1[opp] \ {o}) \cup AfterFill(o, qty)), Append(q \o acc.evs, e), sl, sq, pp)
  <2> HIDE DEF b1
  <2> QED BY <1>0, <1>1, <1>2, <1>d, <1>e, StageFill
<1>g. e.type = "fill" /\ e.taker = taker /\ e.taker_side = side /\ e.qty = qty /\ e.price = o.price
  BY <1>o, <1>e, FillEventParts
<1>4. acc.evs \in Seq(EventSet) /\ q \o acc.evs \in Seq(EventSet) BY <1>1, ConcatProperties DEF MatchSet
<1>5. q \o Append(acc.evs, e) = Append(q \o acc.evs, e) /\ Append(acc.evs, e) \in Seq(EventSet)
  BY <1>3, <1>4, ConcatAppend
<1>r. AfterFill(o, qty) \subseteq OrderSet BY <1>o, <1>d, <1>e, OrderLess DEF AfterFill
<1> HIDE DEF e
<1>6. /\ x \in MatchSet /\ x.base = acc.base - qty /\ x.quote = acc.quote - t /\ x.done = (qty = by \/ qty = acc.base)
      /\ x.evs = Append(acc.evs, e) /\ x.rest = (acc.rest \ {o}) \cup AfterFill(o, qty)
  <2>1. acc.base - qty \in Nat /\ acc.quote - t \in Nat BY <1>a, <1>d, <1>e, <1>f
  <2> HIDE DEF t
  <2>2. x = [acc EXCEPT !.base = acc.base - qty, !.quote = acc.quote - t, !.limit = acc.limit - 1,
                        !.evs = Append(acc.evs, e), !.rest = (acc.rest \ {o}) \cup AfterFill(o, qty),
                        !.done = (qty = by \/ qty = acc.base)]
    BY <1>1 DEF t, e, by, MatchSet
  <2>3. acc.limit - 1 \in Int BY <1>1 DEF MatchSet
  <2>4. (acc.rest \ {o}) \cup AfterFill(o, qty) \in SUBSET OrderSet BY <1>1, <1>r DEF MatchSet
  <2> HIDE DEF by
  <2> QED BY <1>1, <1>5, <2>1, <2>2, <2>3, <2>4 DEF MatchSet
<1>7. base - acc.base \in Int /\ quote - acc.quote \in Int BY <1>1 DEF MatchSet
<1>8. Tally(q, Append(q \o acc.evs, e), taker, side, (base - acc.base) + qty, (quote - acc.quote) + t)
  <2>1. t = e.qty * e.price BY <1>g
  <2>2. t \in Int /\ qty \in Int /\ qty = e.qty BY <1>e, <1>f, <1>g
  <2> HIDE DEF t
  <2>3. Tally(q, q \o acc.evs, taker, side, base - acc.base, quote - acc.quote) BY DEF Matched
  <2> DEFINE xx == base - acc.base
             yy == quote - acc.quote
  <2>4. xx \in Int /\ yy \in Int /\ Tally(q, q \o acc.evs, taker, side, xx, yy) BY <1>7, <2>3
  <2> HIDE DEF xx, yy
  <2>5. Tally(q, Append(q \o acc.evs, e), taker, side, xx + qty, yy + t)
    BY <1>3, <1>4, <1>g, <2>1, <2>2, <2>4, TallyFill
  <2> QED BY <2>5 DEF xx, yy
<1>9. x.done \/ x.base > 0
  <2>1. CASE qty = acc.base BY <1>6, <2>1
  <2>2. CASE qty # acc.base BY <1>6, <1>a, <1>d, <1>e, <2>2
  <2> QED BY <2>1, <2>2
<1>10. Stage(m, With(bk, opp, x.rest), q \o x.evs, sl, sq, pp) BY <1>2, <1>3, <1>5, <1>6
<1>11. (base - acc.base) + qty = base - x.base /\ (quote - acc.quote) + t = quote - x.quote
  <2> HIDE DEF t
  <2> QED BY <1>6, <1>a, <1>e, <1>f
<1>12. Tally(q, q \o x.evs, taker, side, base - x.base, quote - x.quote) BY <1>5, <1>6, <1>8, <1>11
<1> QED BY <1>6, <1>9, <1>10, <1>12 DEF Matched

(* The matching loop stops.                                                *)
LEMMA MatchedMark ==
  ASSUME NEW m, NEW bk, NEW q, NEW sl, NEW sq, NEW pp, NEW acc, NEW taker,
         NEW side, NEW base, NEW quote,
         Matched(m, bk, q, sl, sq, pp, acc, taker, side, base, quote),
         NEW x, x \in MatchSet, x.done, x.base = acc.base, x.quote = acc.quote, x.evs = acc.evs, x.rest = acc.rest
  PROVE  Matched(m, bk, q, sl, sq, pp, x, taker, side, base, quote)
BY DEF Matched

(* One turn of the loop. *)
LEMMA MatchTurn ==
  ASSUME NEW m, NEW bk \in Books, NEW q \in Seq(EventSet), NEW sl, NEW sq, NEW pp, NEW acc, NEW taker \in Accounts,
         NEW side \in Sides, NEW base \in Nat, NEW quote \in Nat, NEW type, NEW price, NEW t,
         Matched(m, bk, q, sl, sq, pp, acc, taker, side, base, quote), NEW o \in acc.rest
  PROVE  LET x == MatchOne(acc, o, side, type, price, taker, t)
         IN  /\ Matched(m, bk, q, sl, sq, pp, x, taker, side, base, quote)
             /\ \A p \in acc.rest : p # o => p \in x.rest
<1> DEFINE x == MatchOne(acc, o, side, type, price, taker, t)
           qty == Min({acc.base, o.qty, acc.quote \div o.price})
           x1 == [acc EXCEPT !.drops = @ + 1, !.evs = Append(@, OutEvent(o, invert_side(side))),
                             !.rest = @ \ {o}]
           x2 == [acc EXCEPT !.done = TRUE]
           x3 == [acc EXCEPT !.done = TRUE, !.post = FALSE]
           x4 == [acc EXCEPT !.base = @ - qty,
                       !.quote = @ - qty * o.price,
                       !.limit = @ - 1,
                       !.evs = Append(@, FillEvent(o, side, taker, qty)),
                       !.rest = (@ \ {o}) \cup AfterFill(o, qty),
                       !.done = qty = acc.quote \div o.price \/ qty = acc.base]
<1>0. acc \in MatchSet BY DEF Matched
<1>1. \/ x = acc
      \/ x = x1
      \/ x = x2
      \/ x = x3
      \/ ~acc.done /\ acc.quote \div o.price # 0 /\ x = x4
  BY DEF MatchOne
<1>2. CASE x = acc BY <1>2
<1>3. CASE x = x1
  <2>1. Matched(m, bk, q, sl, sq, pp, x1, taker, side, base, quote) BY MatchedOut
  <2>2. x1.rest = acc.rest \ {o} BY <1>0 DEF MatchSet
  <2> HIDE DEF x, x1
  <2> QED BY <1>3, <2>1, <2>2 DEF x
<1>4. CASE x = x2
  <2>1. x2 \in MatchSet /\ x2.done /\ x2.base = acc.base /\ x2.quote = acc.quote /\ x2.evs = acc.evs /\ x2.rest = acc.rest
    BY <1>0 DEF MatchSet
  <2> HIDE DEF x, x2
  <2>2. Matched(m, bk, q, sl, sq, pp, x2, taker, side, base, quote) BY <2>1, MatchedMark
  <2> QED BY <1>4, <2>1, <2>2 DEF x
<1>5. CASE x = x3
  <2>1. x3 \in MatchSet /\ x3.done /\ x3.base = acc.base /\ x3.quote = acc.quote /\ x3.evs = acc.evs /\ x3.rest = acc.rest
    BY <1>0 DEF MatchSet
  <2> HIDE DEF x, x3
  <2>2. Matched(m, bk, q, sl, sq, pp, x3, taker, side, base, quote) BY <2>1, MatchedMark
  <2> QED BY <1>5, <2>1, <2>2 DEF x
<1>6. CASE ~acc.done /\ acc.quote \div o.price # 0 /\ x = x4
  <2>1. Matched(m, bk, q, sl, sq, pp, x4, taker, side, base, quote) BY <1>6, MatchedFill, ZenonT(60)
  <2>2. x4.rest = (acc.rest \ {o}) \cup AfterFill(o, qty) BY <1>0 DEF MatchSet
  <2> HIDE DEF x, x4, qty
  <2> QED BY <1>6, <2>1, <2>2 DEF x
<1> HIDE DEF x, x1, x2, x3, x4
<1> QED BY <1>1, <1>2, <1>3, <1>4, <1>5, <1>6

(* The loop as a chain: r[i] is its state after the first i orders. *)
Opening(base, quote, limit, allowed, S) ==
  [base |-> base, quote |-> quote, limit |-> limit, drops |-> 0,
   post |-> allowed, done |-> FALSE, evs |-> <<>>, rest |-> S]
MatchChain(r, m, bk, q, sl, sq, pp, taker, side, base, quote, limit, allowed, type, price, t) ==
  LET S == bk[invert_side(side)]
      v == Sorted(invert_side(side), S)
      n == Cardinality(S)
  IN  /\ r[0] = Opening(base, quote, limit, allowed, S)
      /\ \A i \in 0..n : Matched(m, bk, q, sl, sq, pp, r[i], taker, side, base, quote)
      /\ \A i \in 1..n : /\ v[i] \in r[i - 1].rest
                         /\ r[i] = MatchOne(r[i - 1], v[i], side, type, price, taker, t)
      /\ r[n] = Match(side, type, price, base, quote, limit, allowed, taker, S, t)

(* Match is the last state of such a chain.                                *)
LEMMA MatchRun ==
  ASSUME NEW m, NEW bk, NEW q, NEW sl, NEW sq, NEW pp, Stage(m, bk, q, sl, sq, pp), NEW taker \in Accounts,
         NEW side \in Sides, NEW base \in Nat, base > 0, NEW quote \in Nat, NEW limit \in Int,
         NEW allowed \in BOOLEAN, NEW type, NEW price, NEW t
  PROVE  \E r : MatchChain(r, m, bk, q, sl, sq, pp, taker, side, base, quote, limit, allowed, type, price, t)
<1> DEFINE opp == invert_side(side)
           S == bk[opp]
           v == Sorted(opp, S)
           n == Cardinality(S)
           p == [op |-> "match", side |-> side, type |-> type, price |-> price, taker |-> taker, now |-> t]
           w0 == [base |-> base, quote |-> quote, limit |-> limit, drops |-> 0,
                  post |-> allowed, done |-> FALSE, evs |-> <<>>, rest |-> S]
           M == Match(side, type, price, base, quote, limit, allowed, taker, S, t)
<1>0. opp \in Sides BY Inverse2
<1>1. Desk(m, bk, q, sl, sq) BY DEF Stage
<1>2. bk \in Books /\ q \in Seq(EventSet) /\ Keyed(S) /\ S \subseteq OrderSet BY <1>0, <1>1 DEF Desk, Books
<1>3. n \in Nat /\ DOMAIN v = 1..n /\ (\A i \in 1..n : v[i] \in S)
      /\ (\A i, j \in 1..n : v[i] = v[j] => i = j)
  <2> HIDE DEF S, opp
  <2> QED BY <1>0, <1>2, SortedProps
<1>4. M = Run(p, w0, v)
  <2>1. M = (CHOOSE g : RunEq(g, p, w0, v))[DOMAIN v]
    BY DEF Match, FoldLeft, MapThenFoldSet, RunEq, RunStep
  <2> QED BY <2>1 DEF Run
<1>o. w0 = Opening(base, quote, limit, allowed, S) BY DEF Opening
<1>5. Matched(m, bk, q, sl, sq, pp, w0, taker, side, base, quote) /\ w0.rest = S
  <2>1. w0 \in MatchSet /\ w0.base > 0 BY <1>2 DEF MatchSet
  <2>2. q \o <<>> = q BY <1>2, EmptySeq, ConcatEmptySeq
  <2>3. With(bk, opp, S) = bk BY <1>0, <1>2 DEF With, Books
  <2>4. Tally(q, q, taker, side, 0, 0) BY <1>2, TallyNone
  <2>5. base - base = 0 /\ quote - quote = 0 OBVIOUS
  <2>6. w0.evs = <<>> /\ w0.rest = S /\ w0.base = base /\ w0.quote = quote OBVIOUS
  <2> HIDE DEF w0, S
  <2> QED BY <2>1, <2>2, <2>3, <2>4, <2>5, <2>6 DEF Matched
<1>p. p.op = "match" /\ p.side = side /\ p.type = type /\ p.price = price /\ p.taker = taker /\ p.now = t OBVIOUS
<1> HIDE DEF S, v, n, p, w0, M
<1>d. n \in Nat /\ DOMAIN v = 1..n BY <1>3
<1>6. PICK r : /\ r[0] = w0
               /\ \A i \in 1..n : r[i] = RunStep(p, r[i - 1], v[i])
               /\ r[n] = Run(p, w0, v)
  BY <1>d, RunChain
<1>7. \A i \in 1..n : r[i] = MatchOne(r[i - 1], v[i], side, type, price, taker, t) BY <1>6, <1>p DEF RunStep
<1> DEFINE Q == {i \in Nat : i <= n => /\ Matched(m, bk, q, sl, sq, pp, r[i], taker, side, base, quote)
                                       /\ \A j \in 1..n : j > i => v[j] \in r[i].rest}
<1>8. 0 \in Q BY <1>3, <1>5, <1>6
<1>9. ASSUME NEW i \in Nat, i \in Q PROVE i + 1 \in Q
  <2> SUFFICES ASSUME i + 1 <= n
               PROVE  /\ Matched(m, bk, q, sl, sq, pp, r[i + 1], taker, side, base, quote)
                      /\ \A j \in 1..n : j > i + 1 => v[j] \in r[i + 1].rest
    OBVIOUS
  <2>1. i <= n /\ i + 1 \in 1..n /\ (i + 1) - 1 = i /\ i + 1 > i BY <1>3
  <2>2. /\ Matched(m, bk, q, sl, sq, pp, r[i], taker, side, base, quote)
        /\ \A j \in 1..n : j > i => v[j] \in r[i].rest
    BY <1>9, <2>1
  <2> HIDE DEF Q
  <2>3. v[i + 1] \in r[i].rest BY <2>1, <2>2
  <2>4. r[i + 1] = MatchOne(r[i], v[i + 1], side, type, price, taker, t)
    <3>1. r[i + 1] = MatchOne(r[(i + 1) - 1], v[i + 1], side, type, price, taker, t) BY <1>7, <2>1
    <3> QED BY <2>1, <3>1
  <2>5. /\ Matched(m, bk, q, sl, sq, pp, r[i + 1], taker, side, base, quote)
        /\ \A y \in r[i].rest : y # v[i + 1] => y \in r[i + 1].rest
    BY <1>2, <2>2, <2>3, <2>4, MatchTurn, ZenonT(60)
  <2>6. ASSUME NEW j \in 1..n, j > i + 1 PROVE v[j] \in r[i + 1].rest
    <3>1. j > i /\ j # i + 1 BY <2>6
    <3>2. v[j] \in r[i].rest BY <2>2, <3>1
    <3>3. v[j] # v[i + 1] BY <1>3, <2>1, <3>1
    <3> QED BY <2>5, <3>2, <3>3
  <2> QED BY <2>5, <2>6
<1> HIDE DEF Q
<1>10. \A i \in Nat : i \in Q BY <1>8, <1>9, NatSetInduction
<1>11. \A i \in 0..n : Matched(m, bk, q, sl, sq, pp, r[i], taker, side, base, quote) BY <1>3, <1>10 DEF Q
<1>12. ASSUME NEW i \in 1..n PROVE v[i] \in r[i - 1].rest
  <2> DEFINE h == i - 1
  <2>1. h \in Nat /\ h <= n /\ i > h BY <1>3
  <2> HIDE DEF h
  <2>2. v[i] \in r[h].rest BY <1>10, <2>1 DEF Q
  <2> QED BY <2>2 DEF h
<1>13. r[n] = M BY <1>4, <1>6
<1> DEFINE Chain(z) ==
             /\ z[0] = Opening(base, quote, limit, allowed, S)
             /\ \A i \in 0..n : Matched(m, bk, q, sl, sq, pp, z[i], taker, side, base, quote)
             /\ \A i \in 1..n : /\ v[i] \in z[i - 1].rest
                                /\ z[i] = MatchOne(z[i - 1], v[i], side, type, price, taker, t)
             /\ z[n] = M
<1>14. Chain(r) BY <1>o, <1>6, <1>7, <1>11, <1>12, <1>13
<1> HIDE DEF Chain
<1>15. MatchChain(r, m, bk, q, sl, sq, pp, taker, side, base, quote, limit, allowed, type, price, t)
  BY <1>14 DEF Chain, M, S, v, n, MatchChain
<1> QED BY <1>15

(* The whole loop. *)
LEMMA MatchAll ==
  ASSUME NEW m, NEW bk, NEW q, NEW sl, NEW sq, NEW pp, Stage(m, bk, q, sl, sq, pp), NEW taker \in Accounts,
         NEW side \in Sides, NEW base \in Nat, base > 0, NEW quote \in Nat, NEW limit \in Int,
         NEW allowed \in BOOLEAN, NEW type, NEW price, NEW t
  PROVE  Matched(m, bk, q, sl, sq, pp,
                 Match(side, type, price, base, quote, limit, allowed, taker, bk[invert_side(side)], t),
                 taker, side, base, quote)
<1> DEFINE S == bk[invert_side(side)]
           n == Cardinality(S)
<1>1. IsFiniteSet(S) BY Inverse2 DEF Stage, Desk, Keyed
<1>2. PICK r : MatchChain(r, m, bk, q, sl, sq, pp, taker, side, base, quote, limit, allowed, type, price, t)
  BY MatchRun
<1>3. n \in 0..n
  <2> HIDE DEF S
  <2> QED BY <1>1, FS_CardinalityType
<1>4. /\ \A i \in 0..n : Matched(m, bk, q, sl, sq, pp, r[i], taker, side, base, quote)
      /\ r[n] = Match(side, type, price, base, quote, limit, allowed, taker, S, t)
  BY <1>2 DEF MatchChain
<1>5. Matched(m, bk, q, sl, sq, pp, r[n], taker, side, base, quote) BY <1>3, <1>4
<1> QED BY <1>4, <1>5

-----------------------------------------------------------------------------
(***************************************************************************)
(* Placing an order: matching, making room, posting, fees.                 *)
(***************************************************************************)

(* The order found expired, or the one that makes room, leaves its side. *)
LEMMA StageDrop ==
  ASSUME NEW m, NEW bk, NEW u, NEW sl, NEW sq, NEW pp, Stage(m, bk, u, sl, sq, pp),
         NEW side \in Sides, NEW D, D = {} \/ (\E o \in bk[side] : D = {o}),
         NEW q \in Seq(EventSet), NEW taker, NEW d, NEW x \in Int, NEW y \in Int, Tally(q, u, taker, d, x, y)
  PROVE  /\ OutEvents(D, side) \in Seq(EventSet) /\ u \in Seq(EventSet)
         /\ Stage(m, With(bk, side, bk[side] \ D), u \o OutEvents(D, side), sl, sq, pp)
         /\ Tally(q, u \o OutEvents(D, side), taker, d, x, y)
<1>0. u \in Seq(EventSet) /\ bk \in Books BY DEF Stage, Desk
<1>1. CASE D = {}
  <2>1. OutEvents(D, side) = <<>>
    <3>1. Cardinality(D) = 0 BY <1>1, FS_EmptySet
    <3>2. 1..Cardinality(D) = {} BY <3>1
    <3> QED BY <3>2 DEF OutEvents
  <2>2. With(bk, side, bk[side] \ D) = bk BY <1>0, <1>1 DEF With, Books
  <2>3. u \o <<>> = u /\ <<>> \in Seq(EventSet) BY <1>0, EmptySeq, ConcatEmptySeq
  <2> QED BY <1>0, <2>1, <2>2, <2>3
<1>2. CASE \E o \in bk[side] : D = {o}
  <2>1. PICK o \in bk[side] : D = {o} BY <1>2
  <2> DEFINE e == OutEvent(o, side)
  <2>2. OutEvents(D, side) = <<e>>
    <3>1. Cardinality(D) = 1 BY <2>1, FS_Singleton
    <3>2. 1..Cardinality(D) = {1} BY <3>1
    <3>3. (CHOOSE z \in D : TRUE) = o BY <2>1
    <3>4. OutEvents(D, side) = [i \in {1} |-> OutEvent(o, side)] BY <3>2, <3>3 DEF OutEvents
    <3>5. <<e>> = [i \in {1} |-> e]
      <4> HIDE DEF e
      <4> QED OBVIOUS
    <3> QED BY <3>4, <3>5
  <2>3. /\ e \in EventSet /\ e.type = "out"
        /\ Stage(m, With(bk, side, bk[side] \ {o}), Append(u, e), sl, sq, pp)
    BY StageOut
  <2> HIDE DEF e
  <2>4. Append(u, e) = u \o <<e>> /\ <<e>> \in Seq(EventSet) BY <1>0, <2>3, AppendIsConcat
  <2>5. Tally(q, Append(u, e), taker, d, x, y) BY <1>0, <2>3, TallyOut
  <2> QED BY <1>0, <2>1, <2>2, <2>3, <2>4, <2>5
<1> QED BY <1>1, <1>2

(* The price of an order, after market, post-only-slide and the like, is   *)
(* an integer.                                                             *)
LEMMA PriceInt ==
  ASSUME NEW S, Keyed(S), S \subseteq OrderSet, NEW side, NEW type, NEW price \in Int, NEW t
  PROVE  EffectivePrice(side, type, price, S, t) \in Int
<1> DEFINE V == Valid(S, t)
           B == {o.price : o \in V}
<1>1. IsFiniteSet(V) /\ V \subseteq OrderSet
  <2>1. V \subseteq S BY DEF Valid
  <2> QED BY <2>1, FS_Subset DEF Keyed
<1>2. IsFiniteSet(B)
  <2> HIDE DEF V
  <2> DEFINE f == [o \in V |-> o.price]
  <2>1. f \in Surjection(V, B) BY DEF Surjection
  <2> HIDE DEF f, B
  <2> QED BY <1>1, <2>1, FS_Surjection
<1>3. B \subseteq Int BY <1>1 DEF OrderSet, Lots
<1>4. B # {} => Min(B) \in Int /\ Max(B) \in Int
  <2> HIDE DEF B
  <2> QED BY <1>2, <1>3, MaxMin
<1> HIDE DEF V
<1>5. EffectivePrice(side, type, price, S, t) =
        CASE type = "Market" /\ side = "bid" -> Unbounded
          [] type = "Market" /\ side = "ask" -> 1
          [] type = "PostOnlySlide" /\ B # {} ->
               IF side = "bid" THEN Min({price, Min(B) - 1}) ELSE Max({price, Max(B) + 1})
          [] OTHER -> price
  BY DEF EffectivePrice, V
<1> HIDE DEF B
<1>6. ASSUME B # {} PROVE Min({price, Min(B) - 1}) \in Int /\ Max({price, Max(B) + 1}) \in Int
  <2>1. Min(B) - 1 \in Int /\ Max(B) + 1 \in Int BY <1>4, <1>6
  <2> QED BY <2>1, MinTwo
<1>7. Unbounded \in Int /\ 1 \in Int BY BookAssumption
<1>8. CASE type = "Market" /\ side = "bid" BY <1>5, <1>7, <1>8
<1>9. CASE type = "Market" /\ side = "ask" BY <1>5, <1>7, <1>9
<1>10. CASE type = "PostOnlySlide" /\ B # {} BY <1>5, <1>6, <1>10
<1>11. CASE ~(type = "Market" /\ side = "bid") /\ ~(type = "Market" /\ side = "ask") /\ ~(type = "PostOnlySlide" /\ B # {})
  BY <1>5, <1>11
<1> QED BY <1>8, <1>9, <1>10, <1>11

(* What a new order takes, and what is left of it. *)
Takes(m, t, a, side, sq) ==
  /\ t.price \in Int /\ t.base \in Int /\ t.quote \in Int /\ t.resting \in Nat
  /\ t.evs \in Seq(EventSet)
  /\ Stage(m, With(book[m], invert_side(side), t.rest), queue[m] \o t.evs, slots, sq, perp)
  /\ Tally(queue[m], queue[m] \o t.evs, a, side, t.base, t.quote)

(* The taking half of new_bid and new_ask.                                 *)
LEMMA MatchingTakes ==
  ASSUME NEW m \in Markets, NEW sq, Stage(m, book[m], queue[m], slots, sq, perp), NEW a \in Accounts,
         NEW side \in Sides, NEW price0 \in Int, NEW base \in Nat, base > 0, NEW quote \in Nat, NEW type,
         NEW limit \in Int, NEW oracle
  PROVE  Takes(m, Matching(a, m, side, price0, base, quote, type, limit, oracle), a, side, sq)
<1> DEFINE opp == invert_side(side)
           price == EffectivePrice(side, type, price0, book[m][opp], now)
           allowed == type \notin {"ImmediateOrCancel", "Market"} /\ WithinPriceLimit(m, side, price, oracle)
           x == Match(side, type, price, base, quote, limit, allowed, a, book[m][opp], now)
           t == Matching(a, m, side, price0, base, quote, type, limit, oracle)
<1>0. opp \in Sides BY Inverse2
<1>1. Keyed(book[m][opp]) /\ book[m][opp] \subseteq OrderSet /\ queue[m] \in Seq(EventSet)
  BY <1>0 DEF Stage, Desk, Books
<1>2. price \in Int
  <2> HIDE DEF opp
  <2> QED BY <1>1, PriceInt
<1>3. allowed \in BOOLEAN OBVIOUS
<1>4. /\ t.price = price /\ t.evs = x.evs /\ t.rest = x.rest
      /\ t.base = base - x.base /\ t.quote = quote - x.quote
      /\ t.resting = IF x.post /\ price > 0 THEN Min({x.base, x.quote \div price}) ELSE 0
  BY DEF Matching
<1>5. Matched(m, book[m], queue[m], slots, sq, perp, x, a, side, base, quote)
  <2> HIDE DEF price, allowed
  <2> QED BY <1>3, MatchAll
<1> HIDE DEF x, t, price
<1>6. x \in MatchSet BY <1>5 DEF Matched
<1>7. x.base \in Nat /\ x.quote \in Nat /\ x.evs \in Seq(EventSet) BY <1>6 DEF MatchSet
<1>8. t.resting \in Nat
  <2>1. CASE price > 0
    <3>1. price \in Lots BY <1>2, <2>1 DEF Lots
    <3>2. x.quote \div price \in Nat BY <1>7, <3>1, DivFacts
    <3> DEFINE y == x.quote \div price
    <3> HIDE DEF y
    <3>3. Min({x.base, y}) \in Nat
      <4>1. x.base \in Int /\ y \in Int BY <1>7, <3>2 DEF y
      <4> QED BY <1>7, <3>2, <4>1, MinTwo DEF y
    <3> QED BY <1>4, <3>3 DEF y
  <2>2. CASE ~(price > 0) BY <1>4, <2>2
  <2> QED BY <2>1, <2>2
<1>9. t.base \in Int /\ t.quote \in Int BY <1>4, <1>7
<1>10. /\ Stage(m, With(book[m], opp, t.rest), queue[m] \o t.evs, slots, sq, perp)
       /\ Tally(queue[m], queue[m] \o t.evs, a, side, t.base, t.quote)
  BY <1>4, <1>5 DEF Matched
<1>11. Takes(m, t, a, side, sq) BY <1>2, <1>4, <1>7, <1>8, <1>9, <1>10 DEF Takes
<1> QED BY <1>11 DEF t

(* A perp account with a trade pending, its fee paid and lots put on order. *)
Took(pa, tb, tq, fee, side, lots) ==
  [pa EXCEPT !.taker_base = @ + tb, !.taker_quote = @ - tq, !.quote = @ - fee,
             !.on_orders[side] = @ + lots]

(* The accounts with that, and with a referral fee paid to r. *)
Takings(pp, a, m, tb, tq, fee, side, lots) ==
  [pp EXCEPT ![a][m] = Took(@, tb, tq, fee, side, lots)]

Reward(pp, r, m, x) == [pp EXCEPT ![r][m].quote = @ + x]

(* A taker's pending trade and fee, and the lots posted, in the sums over  *)
(* the accounts.                                                           *)
LEMMA TakingsStep ==
  ASSUME NEW m \in Markets, NEW pp \in Perps, NEW a \in Accounts, NEW tb \in Int, NEW tq \in Int,
         NEW fee \in Int, NEW side \in Sides, NEW lots \in Int,
         NEW p2, p2 = Takings(pp, a, m, tb, tq, fee, side, lots)
  PROVE  /\ p2 \in Perps
         /\ BaseSum(m, p2) = BaseSum(m, pp) /\ SizeSum(m, p2) = SizeSum(m, pp)
         /\ WorthSum(m, p2) = WorthSum(m, pp) - fee
         /\ Effect(m, pp, p2, a, 0, tb, -tq, side, lots)
<1> DEFINE pa == pp[a][m]
           pb == Took(pa, tb, tq, fee, side, lots)
<1>1. /\ pa \in PerpSet /\ pa.base \in Int /\ pa.taker_base \in Int /\ pa.taker_quote \in Int
      /\ pa.quote \in Int /\ pa.settled \in Int
      /\ \A d \in Sides : pa.on_orders[d] \in Int /\ pa.on_orders \in [Sides -> Int]
  BY PerpParts DEF PerpSet
<1>2. /\ pb.base = pa.base /\ pb.quote = pa.quote - fee /\ pb.settled = pa.settled
      /\ pb.taker_base = pa.taker_base + tb /\ pb.taker_quote = pa.taker_quote - tq
      /\ pb.on_orders = [pa.on_orders EXCEPT ![side] = @ + lots]
  BY <1>1 DEF Took, PerpSet
<1>3. pb \in PerpSet
  <2>1. pa.taker_base + tb \in Int /\ pa.taker_quote - tq \in Int /\ pa.quote - fee \in Int BY <1>1
  <2>2. [pa.on_orders EXCEPT ![side] = @ + lots] \in [Sides -> Int] BY <1>1
  <2> DEFINE oo == [pa.on_orders EXCEPT ![side] = @ + lots]
             x1 == pa.taker_base + tb
             x2 == pa.taker_quote - tq
             x3 == pa.quote - fee
  <2>3. pb = [pa EXCEPT !.taker_base = x1, !.taker_quote = x2, !.quote = x3, !.on_orders = oo]
    BY <1>1 DEF Took, PerpSet
  <2>4. x1 \in Int /\ x2 \in Int /\ x3 \in Int /\ oo \in [Sides -> Int] BY <2>1, <2>2
  <2> HIDE DEF x1, x2, x3, oo, pb
  <2> QED BY <1>1, <2>3, <2>4 DEF PerpSet
<1>4. Worth(pb) = Worth(pa) - fee
  <2>1. pa.base * pa.settled \in Int BY <1>1, ProductInt
  <2> DEFINE z == pa.base * pa.settled
  <2>2. Worth(pa) = pa.quote + z /\ Worth(pb) = (pa.quote - fee) + z BY <1>2 DEF Worth
  <2> HIDE DEF z, pb
  <2> QED BY <1>1, <2>1, <2>2 DEF z
<1>5. \A d \in Sides : pb.on_orders[d] = pa.on_orders[d] + (IF d = side THEN lots ELSE 0)
  BY <1>1, <1>2
<1>6. /\ pb.base = pa.base + 0 /\ pb.taker_base = pa.taker_base + tb
      /\ pb.taker_quote = pa.taker_quote + (-tq)
  BY <1>1, <1>2
<1>7. p2 = Set(pp, a, m, pb) BY DEF Perps, Takings, Set
<1> HIDE DEF pb
<1>8. Effect(m, pp, Set(pp, a, m, pb), a, 0, tb, -tq, side, lots)
  <2> DEFINE ntq == -tq
  <2>1. pb.taker_quote = pa.taker_quote + ntq BY <1>6
  <2> HIDE DEF ntq
  <2>2. Effect(m, pp, Set(pp, a, m, pb), a, 0, tb, ntq, side, lots)
    BY <1>3, <1>5, <1>6, <2>1, EffectSet
  <2> QED BY <2>2 DEF ntq
<1>9. /\ p2 \in Perps /\ p2[a][m] = pb
      /\ \A b \in Accounts : b # a => p2[b][m] = pp[b][m]
  BY <1>3, <1>7, SetProps
<1>10. /\ BaseSum(m, p2) = BaseSum(m, pp) + (p2[a][m].base - pp[a][m].base)
       /\ SizeSum(m, p2) = SizeSum(m, pp) + (Abs(p2[a][m].base) - Abs(pp[a][m].base))
       /\ WorthSum(m, p2) = WorthSum(m, pp) + (Worth(p2[a][m]) - Worth(pp[a][m]))
  BY <1>9, SumsSet
<1>11. BaseSum(m, pp) \in Int /\ SizeSum(m, pp) \in Int /\ WorthSum(m, pp) \in Int BY SumsInt
<1>12. Worth(pa) \in Int /\ Abs(pa.base) \in Int BY <1>1, WorthInt
<1>13. BaseSum(m, p2) = BaseSum(m, pp) /\ SizeSum(m, p2) = SizeSum(m, pp)
  BY <1>1, <1>2, <1>9, <1>10, <1>11, <1>12
<1>14. WorthSum(m, p2) = WorthSum(m, pp) - fee BY <1>4, <1>9, <1>10, <1>11, <1>12
<1> QED BY <1>7, <1>8, <1>9, <1>13, <1>14

(* A referral fee in those sums.                                           *)
LEMMA RewardStep ==
  ASSUME NEW m \in Markets, NEW pp \in Perps, NEW a \in Accounts, NEW x \in Int,
         NEW p2, p2 = Reward(pp, a, m, x)
  PROVE  /\ p2 \in Perps
         /\ BaseSum(m, p2) = BaseSum(m, pp) /\ SizeSum(m, p2) = SizeSum(m, pp)
         /\ WorthSum(m, p2) = WorthSum(m, pp) + x
         /\ Effect(m, pp, p2, a, 0, 0, 0, "bid", 0)
<1> DEFINE pa == pp[a][m]
           pb == [pa EXCEPT !.quote = @ + x]
<1>1. /\ pa \in PerpSet /\ pa.base \in Int /\ pa.taker_base \in Int /\ pa.taker_quote \in Int
      /\ pa.quote \in Int /\ pa.settled \in Int
      /\ \A d \in Sides : pa.on_orders[d] \in Int /\ pa.on_orders \in [Sides -> Int]
  BY PerpParts DEF PerpSet
<1>2. /\ pb.base = pa.base /\ pb.quote = pa.quote + x /\ pb.settled = pa.settled
      /\ pb.taker_base = pa.taker_base /\ pb.taker_quote = pa.taker_quote
      /\ pb.on_orders = pa.on_orders
  BY <1>1 DEF PerpSet
<1>3. pb \in PerpSet
  <2>1. pa.quote + x \in Int BY <1>1
  <2> QED BY <1>1, <2>1 DEF PerpSet
<1>4. Worth(pb) = Worth(pa) + x
  <2>1. pa.base * pa.settled \in Int BY <1>1, ProductInt
  <2> DEFINE z == pa.base * pa.settled
  <2>2. Worth(pa) = pa.quote + z /\ Worth(pb) = (pa.quote + x) + z BY <1>2 DEF Worth
  <2> HIDE DEF z, pb
  <2> QED BY <1>1, <2>1, <2>2 DEF z
<1>5. \A d \in Sides : pb.on_orders[d] = pa.on_orders[d] + (IF d = "bid" THEN 0 ELSE 0)
  BY <1>1, <1>2
<1>6. /\ pb.base = pa.base + 0 /\ pb.taker_base = pa.taker_base + 0
      /\ pb.taker_quote = pa.taker_quote + 0
  BY <1>1, <1>2
<1>7. p2 = Set(pp, a, m, pb) BY DEF Reward, Set, Perps, PerpSet
<1> HIDE DEF pb
<1>8. Effect(m, pp, Set(pp, a, m, pb), a, 0, 0, 0, "bid", 0) BY <1>3, <1>5, <1>6, EffectSet
<1>9. /\ p2 \in Perps /\ p2[a][m] = pb
      /\ \A b \in Accounts : b # a => p2[b][m] = pp[b][m]
  BY <1>3, <1>7, SetProps
<1>10. /\ BaseSum(m, p2) = BaseSum(m, pp) + (p2[a][m].base - pp[a][m].base)
       /\ SizeSum(m, p2) = SizeSum(m, pp) + (Abs(p2[a][m].base) - Abs(pp[a][m].base))
       /\ WorthSum(m, p2) = WorthSum(m, pp) + (Worth(p2[a][m]) - Worth(pp[a][m]))
  BY <1>9, SumsSet
<1>11. BaseSum(m, pp) \in Int /\ SizeSum(m, pp) \in Int /\ WorthSum(m, pp) \in Int BY SumsInt
<1>12. Worth(pa) \in Int /\ Abs(pa.base) \in Int BY <1>1, WorthInt
<1>13. BaseSum(m, p2) = BaseSum(m, pp) /\ SizeSum(m, p2) = SizeSum(m, pp)
  BY <1>1, <1>2, <1>9, <1>10, <1>11, <1>12
<1>14. WorthSum(m, p2) = WorthSum(m, pp) + x BY <1>4, <1>9, <1>10, <1>11, <1>12
<1> QED BY <1>7, <1>8, <1>9, <1>13, <1>14

(* The rest of a new order is posted. *)
LEMMA PostStage ==
  ASSUME NEW m, NEW bk, NEW u, NEW sl, NEW sq, NEW pp, Stage(m, bk, u, sl, sq, pp),
         NEW side \in Sides, NEW o \in OrderSet, NEW t \in Tracked,
         sl[o.owner][o.slot] = Free, o.seq = sq + 1,
         t.market = m, t.side = side, t.price = o.price, t.seq = o.seq,
         NEW p2, Charged(m, pp, p2, o.owner, side, o.qty)
  PROVE  Stage(m, With(bk, side, bk[side] \cup {o}), u, Put(sl, o.owner, o.slot, t), sq + 1, p2)
<1>1. Desk(m, bk, u, sl, sq) /\ Counts(m, bk, u, pp) BY DEF Stage
<1>2. bk \in Books /\ sq \in Nat BY <1>1 DEF Desk
<1>3. o \notin bk[side]
  <2> SUFFICES ASSUME o \in bk[side] PROVE FALSE OBVIOUS
  <2>1. Mine(m, sl[o.owner][o.slot]) BY <1>1 DEF Desk, Listed
  <2> QED BY <2>1 DEF Mine
<1>4. [bk EXCEPT ![side] = @ \cup {o}] = With(bk, side, bk[side] \cup {o}) BY <1>2 DEF With, Books
<1>5. Desk(m, [bk EXCEPT ![side] = @ \cup {o}], u, Put(sl, o.owner, o.slot, t), sq + 1)
  BY <1>1, PostDesk
<1>6. Counts(m, [bk EXCEPT ![side] = @ \cup {o}], u, p2) BY <1>1, <1>3, CountsPost
<1> QED BY <1>4, <1>5, <1>6 DEF Stage

(* Nothing is posted. *)
LEMMA NumberStage ==
  ASSUME NEW m \in Markets, NEW bk, NEW u, NEW sl, NEW sq, NEW pp \in Perps, Stage(m, bk, u, sl, sq, pp),
         NEW p2, NEW a, NEW side, Charged(m, pp, p2, a, side, 0)
  PROVE  Stage(m, bk, u, sl, sq + 1, p2)
<1>1. Desk(m, bk, u, sl, sq) /\ Counts(m, bk, u, pp) BY DEF Stage
<1>2. Desk(m, bk, u, sl, sq + 1) BY <1>1, NumberDesk
<1>3. ASSUME NEW b \in Accounts, NEW d \in Sides
      PROVE  p2[b][m].on_orders[d] = pp[b][m].on_orders[d]
  <2>1. pp[b][m].on_orders[d] \in Int BY PerpParts
  <2> QED BY <2>1 DEF Charged
<1>4. Counts(m, bk, u, p2) BY <1>1, <1>3 DEF Counts
<1> QED BY <1>2, <1>4 DEF Stage

(* The orders that leave their own side when an order is posted. *)
Dropped(lots, side, S) == IF lots > 0 THEN OneExpired(side, S, now) ELSE {}
Booted(lots, side, S) == IF lots > 0 /\ Cardinality(S) >= BookCap THEN {Worst(side, S)} ELSE {}

Outside(S, D) == S \ D

MakesRoom(lots, side, bk, D, B) ==
  /\ D = Dropped(lots, side, bk[side])
  /\ B = Booted(lots, side, Outside(bk[side], D))

(* Making room on the own side: an expired order leaves, then the worst    *)
(* one when the side is full.                                              *)
LEMMA RoomStage ==
  ASSUME NEW m, NEW bk, NEW u, NEW sl, NEW sq, NEW pp, Stage(m, bk, u, sl, sq, pp),
         NEW side \in Sides, NEW lots,
         NEW q \in Seq(EventSet), NEW taker, NEW d, NEW x \in Int, NEW y \in Int, Tally(q, u, taker, d, x, y),
         NEW D, NEW B, MakesRoom(lots, side, bk, D, B)
  PROVE  LET v == (u \o OutEvents(D, side)) \o OutEvents(B, side)
         IN  /\ Stage(m, With(bk, side, (bk[side] \ D) \ B), v, sl, sq, pp)
             /\ Tally(q, v, taker, d, x, y)
             /\ u \in Seq(EventSet) /\ OutEvents(D, side) \in Seq(EventSet)
             /\ OutEvents(B, side) \in Seq(EventSet)
<1>1. Keyed(bk[side]) /\ bk[side] \subseteq OrderSet /\ bk \in Books BY DEF Stage, Desk, Books
<1>2. D = {} \/ (\E o \in bk[side] : D = {o})
  <2>1. \A o \in bk[side] : o.expiry \in Int BY <1>1 DEF OrderSet
  <2>2. \/ OneExpired(side, bk[side], now) = {}
        \/ \E o \in bk[side] : OneExpired(side, bk[side], now) = {o}
    BY <1>1, <2>1, ExpiredIn
  <2> QED BY <2>2 DEF Dropped, MakesRoom
<1> DEFINE own == bk[side] \ D
           b1 == With(bk, side, own)
           u1 == u \o OutEvents(D, side)
<1>3. /\ OutEvents(D, side) \in Seq(EventSet) /\ u \in Seq(EventSet)
      /\ Stage(m, b1, u1, sl, sq, pp)
      /\ Tally(q, u1, taker, d, x, y)
  BY <1>2, StageDrop
<1>4. b1[side] = own /\ \A S : With(b1, side, S) = With(bk, side, S) BY <1>1 DEF With, Books
<1>5. B = {} \/ (\E o \in own : B = {o})
  <2>1. Keyed(own) BY <1>1, KeyedLess
  <2>2. Cardinality(own) >= BookCap => own # {}
    <3>1. own = {} => Cardinality(own) = 0 BY FS_EmptySet
    <3>2. BookCap \in Nat \ {0} BY PerpAssumption
    <3> QED BY <3>1, <3>2
  <2> HIDE DEF own
  <2>3. own # {} => Worst(side, own) \in own BY <2>1, WorstIn
  <2>4. B = Booted(lots, side, own) BY DEF own, MakesRoom, Outside
  <2> QED BY <2>2, <2>3, <2>4 DEF Booted
<1> HIDE DEF own, b1, u1
<1>6. /\ OutEvents(B, side) \in Seq(EventSet)
      /\ Stage(m, With(b1, side, b1[side] \ B), u1 \o OutEvents(B, side), sl, sq, pp)
      /\ Tally(q, u1 \o OutEvents(B, side), taker, d, x, y)
  <2>1. B = {} \/ (\E o \in b1[side] : B = {o}) BY <1>4, <1>5
  <2> QED BY <1>3, <2>1, StageDrop
<1>7. With(b1, side, b1[side] \ B) = With(bk, side, own \ B) BY <1>4
<1> QED BY <1>3, <1>6, <1>7 DEF own, u1

(* Four sequences put together from the left and from the right. *)
LeftCat(c1, c2, c3, c4) == ((c1 \o c2) \o c3) \o c4
RightCat(c1, c2, c3, c4) == c1 \o ((c2 \o c3) \o c4)

(* Concatenation is associative.                                           *)
LEMMA ConcatThree ==
  ASSUME NEW c1 \in Seq(EventSet), NEW c2 \in Seq(EventSet), NEW c3 \in Seq(EventSet), NEW c4 \in Seq(EventSet)
  PROVE  LeftCat(c1, c2, c3, c4) = RightCat(c1, c2, c3, c4)
<1>1. (c1 \o c2) \o c3 = c1 \o (c2 \o c3) BY ConcatAssociative
<1> DEFINE k == c2 \o c3
<1>2. k \in Seq(EventSet) BY ConcatProperties
<1> HIDE DEF k
<1>3. (c1 \o k) \o c4 = c1 \o (k \o c4) BY <1>2, ConcatAssociative
<1> QED BY <1>1, <1>3 DEF k, LeftCat, RightCat

(* The queue, a side of the book and the table after a new order. *)
Joined(q, te) == q \o te
NewQueue(q, te, D, B, side) == q \o (te \o OutEvents(D, side) \o OutEvents(B, side))
NewBook(bk, side, rest, own, lots, o) ==
  [bk EXCEPT ![invert_side(side)] = rest, ![side] = own \cup (IF lots > 0 THEN {o} ELSE {})]
NewTable(sl, a, o, t, lots) == IF lots > 0 THEN Put(sl, a, o.slot, t) ELSE sl
Rebooked(bk, side, rest, own) == With(With(bk, invert_side(side), rest), side, own)

HasTraded(m, bk, q, te, sl, sq, pp, a, side, rest, x, y) ==
  /\ Stage(m, With(bk, invert_side(side), rest), Joined(q, te), sl, sq, pp)
  /\ Tally(q, Joined(q, te), a, side, x, y)

(* The book and the queue after a new order has traded and made room. *)
LEMMA RoomBook ==
  ASSUME NEW m \in Markets, NEW bk \in Books, NEW q \in Seq(EventSet), NEW sl, NEW sq, NEW pp, NEW a,
         NEW side \in Sides, NEW rest, NEW te \in Seq(EventSet), NEW x \in Int, NEW y \in Int,
         HasTraded(m, bk, q, te, sl, sq, pp, a, side, rest, x, y),
         NEW lots, NEW D, NEW B, MakesRoom(lots, side, bk, D, B)
  PROVE  /\ Stage(m, Rebooked(bk, side, rest, Outside(Outside(bk[side], D), B)),
                  NewQueue(q, te, D, B, side), sl, sq, pp)
         /\ Tally(q, NewQueue(q, te, D, B, side), a, side, x, y)
<1> DEFINE opp == invert_side(side)
           b1 == With(bk, opp, rest)
           u == q \o te
           OD == OutEvents(D, side)
           OB == OutEvents(B, side)
           v == (u \o OD) \o OB
           q2 == NewQueue(q, te, D, B, side)
<1>0. opp \in Sides /\ opp # side BY Inverse2
<1>1. b1[side] = bk[side] BY <1>0 DEF With, Books
<1>2. MakesRoom(lots, side, b1, D, B) BY <1>1 DEF MakesRoom
<1>3. Stage(m, b1, u, sl, sq, pp) /\ Tally(q, u, a, side, x, y) BY DEF Joined, HasTraded
<1> HIDE DEF b1, u
<1>4. /\ Stage(m, With(b1, side, (b1[side] \ D) \ B), v, sl, sq, pp)
      /\ Tally(q, v, a, side, x, y)
      /\ OD \in Seq(EventSet) /\ OB \in Seq(EventSet)
  BY <1>2, <1>3, RoomStage, ZenonT(60)
<1> HIDE DEF OD, OB
<1>5. q2 = v
  <2>1. q2 = RightCat(q, te, OD, OB) /\ v = LeftCat(q, te, OD, OB) BY DEF OD, OB, u, LeftCat, RightCat, NewQueue
  <2> HIDE DEF v
  <2>2. OD \in Seq(EventSet) /\ OB \in Seq(EventSet) BY <1>4
  <2>3. LeftCat(q, te, OD, OB) = RightCat(q, te, OD, OB) BY <2>2, ConcatThree
  <2> QED BY <2>1, <2>3
<1> QED BY <1>1, <1>4, <1>5 DEF b1, Rebooked, Outside

(* A new order, once its trades are in the accounts as p2. *)
Fits(m, o, t, a, side, sl, sq, lots) ==
  /\ o \in OrderSet /\ o.owner = a /\ o.qty = lots /\ o.seq = sq + 1 /\ t \in Tracked
  /\ sl[a][o.slot] = Free /\ t.market = m /\ t.side = side /\ t.price = o.price
  /\ t.seq = o.seq

(* The book, the queue, the slots and the counts agree after a new order.  *)
LEMMA OrderStage ==
  ASSUME NEW m \in Markets, NEW bk \in Books, NEW q2, NEW sl, NEW sq, NEW pp \in Perps, NEW a \in Accounts,
         NEW side \in Sides, NEW rest, NEW own,
         Stage(m, Rebooked(bk, side, rest, own), q2, sl, sq, pp),
         NEW lots \in Nat,
         NEW p2, Charged(m, pp, p2, a, side, lots),
         NEW o, NEW t, lots > 0 => Fits(m, o, t, a, side, sl, sq, lots),
         NEW b2, b2 = NewBook(bk, side, rest, own, lots, o), NEW s2, s2 = NewTable(sl, a, o, t, lots)
  PROVE  Stage(m, b2, q2, s2, sq + 1, p2)
<1> DEFINE opp == invert_side(side)
           b3 == With(With(bk, opp, rest), side, own)
<1>0. opp \in Sides /\ opp # side BY Inverse2
<1>4. b3 \in Books /\ b3[side] = own /\ \A S : With(b3, side, S) = [bk EXCEPT ![opp] = rest, ![side] = S]
  <2>1. b3 \in Books BY DEF Stage, Desk, Rebooked
  <2> QED BY <1>0, <2>1 DEF With, Books
<1>2. Stage(m, b3, q2, sl, sq, pp) BY DEF Rebooked
<1>b. b2 = [bk EXCEPT ![opp] = rest, ![side] = own \cup (IF lots > 0 THEN {o} ELSE {})] BY DEF NewBook
<1>5. CASE lots > 0
  <2>1. b2 = With(b3, side, b3[side] \cup {o}) BY <1>4, <1>5, <1>b
  <2>f. Fits(m, o, t, a, side, sl, sq, lots) BY <1>5
  <2>2. s2 = Put(sl, o.owner, o.slot, t) BY <1>5, <2>f DEF Fits, NewTable
  <2> HIDE DEF b3
  <2>3. Stage(m, With(b3, side, b3[side] \cup {o}), q2, Put(sl, o.owner, o.slot, t), sq + 1, p2)
    BY <1>2, <2>f, PostStage DEF Fits
  <2> QED BY <2>1, <2>2, <2>3
<1>6. CASE ~(lots > 0)
  <2>1. lots = 0 /\ s2 = sl BY <1>6 DEF NewTable
  <2>2. own \cup (IF lots > 0 THEN {o} ELSE {}) = own BY <1>6
  <2>3. b2 = With(b3, side, own) BY <1>4, <2>2, <1>b
  <2>4. With(b3, side, own) = b3 BY <1>4 DEF With, Books
  <2> HIDE DEF b3
  <2>5. Stage(m, b3, q2, sl, sq + 1, p2) BY <1>2, <2>1, NumberStage
  <2> QED BY <2>1, <2>3, <2>4, <2>5
<1> QED BY <1>5, <1>6

(* Multiplication distributes over addition.                               *)
LEMMA Spread ==
  ASSUME NEW x \in Int, NEW y \in Int, NEW z \in Int
  PROVE  x * (y + z) = x * y + x * z /\ x * y \in Int /\ x * z \in Int /\ x * (y + z) \in Int
OBVIOUS

(* What a new order does to the accounts: the taker has x lots and y quote pending, and lots *)
(* on order.                                                                                 *)
TakenIn(m, pp, p2, a, side, x, y, lots) ==
  /\ p2 \in Perps /\ Apart(m, pp, p2) /\ Charged(m, pp, p2, a, side, lots)
  /\ BaseSum(m, p2) = BaseSum(m, pp) /\ SizeSum(m, p2) = SizeSum(m, pp)
  /\ \A b \in Accounts :
       /\ p2[b][m].taker_base = pp[b][m].taker_base + (IF b = a THEN Sign(side) * x ELSE 0)
       /\ p2[b][m].taker_quote = pp[b][m].taker_quote + (IF b = a THEN -Sign(side) * y ELSE 0)

(* The taker's own part of a new order.                                    *)
LEMMA TakingsIn ==
  ASSUME NEW m \in Markets, NEW pp \in Perps, NEW a \in Accounts, NEW side \in Sides,
         NEW x \in Int, NEW y \in Int, NEW fee \in Int, NEW lots \in Int,
         NEW p2, p2 = Takings(pp, a, m, Sign(side) * x, Sign(side) * y, fee, side, lots)
  PROVE  TakenIn(m, pp, p2, a, side, x, y, lots) /\ WorthSum(m, p2) = WorthSum(m, pp) - fee
<1> DEFINE tb == Sign(side) * x
           tq == Sign(side) * y
<1>1. tb \in Int /\ tq \in Int /\ -tq = -Sign(side) * y BY SignSplit
<1>2. p2 = Takings(pp, a, m, tb, tq, fee, side, lots) OBVIOUS
<1> HIDE DEF tb, tq
<1>3. /\ p2 \in Perps
      /\ BaseSum(m, p2) = BaseSum(m, pp) /\ SizeSum(m, p2) = SizeSum(m, pp)
      /\ WorthSum(m, p2) = WorthSum(m, pp) - fee
      /\ Effect(m, pp, p2, a, 0, tb, -tq, side, lots)
  BY <1>1, <1>2, TakingsStep
<1>4. Apart(m, pp, p2) /\ Charged(m, pp, p2, a, side, lots) BY <1>3 DEF Effect, Charged
<1>5. \A b \in Accounts :
       /\ p2[b][m].taker_base = pp[b][m].taker_base + (IF b = a THEN tb ELSE 0)
       /\ p2[b][m].taker_quote = pp[b][m].taker_quote + (IF b = a THEN -tq ELSE 0)
  BY <1>3 DEF Effect
<1>6. \A b \in Accounts :
       /\ p2[b][m].taker_base = pp[b][m].taker_base + (IF b = a THEN Sign(side) * x ELSE 0)
       /\ p2[b][m].taker_quote = pp[b][m].taker_quote + (IF b = a THEN -Sign(side) * y ELSE 0)
  BY <1>1, <1>5 DEF tb
<1> QED BY <1>3, <1>4, <1>6 DEF TakenIn

(* The referrer's part.                                                    *)
LEMMA RewardIn ==
  ASSUME NEW m \in Markets, NEW pp \in Perps, NEW a \in Accounts, NEW side \in Sides,
         NEW x, NEW y, NEW lots, NEW p1, TakenIn(m, pp, p1, a, side, x, y, lots),
         NEW r \in Accounts, NEW z \in Int, NEW p2, p2 = Reward(p1, r, m, z)
  PROVE  TakenIn(m, pp, p2, a, side, x, y, lots) /\ WorthSum(m, p2) = WorthSum(m, p1) + z
<1>0. p1 \in Perps BY DEF TakenIn
<1>1. /\ p2 \in Perps
      /\ BaseSum(m, p2) = BaseSum(m, p1) /\ SizeSum(m, p2) = SizeSum(m, p1)
      /\ WorthSum(m, p2) = WorthSum(m, p1) + z
      /\ Effect(m, p1, p2, r, 0, 0, 0, "bid", 0)
  BY <1>0, RewardStep
<1>2. Apart(m, pp, p2)
  <2>1. Apart(m, pp, p1) /\ Apart(m, p1, p2) BY <1>1 DEF TakenIn, Effect
  <2> QED BY <2>1, ApartTwice
<1>3. ASSUME NEW b \in Accounts
      PROVE  /\ p2[b][m].taker_base = p1[b][m].taker_base /\ p2[b][m].taker_quote = p1[b][m].taker_quote
             /\ \A d \in Sides : p2[b][m].on_orders[d] = p1[b][m].on_orders[d]
  <2>1. /\ p1[b][m].taker_base \in Int /\ p1[b][m].taker_quote \in Int
        /\ \A d \in Sides : p1[b][m].on_orders[d] \in Int
    BY <1>0, PerpParts
  <2>2. /\ p2[b][m].taker_base = p1[b][m].taker_base + (IF b = r THEN 0 ELSE 0)
        /\ p2[b][m].taker_quote = p1[b][m].taker_quote + (IF b = r THEN 0 ELSE 0)
        /\ \A d \in Sides :
             p2[b][m].on_orders[d] = p1[b][m].on_orders[d] + (IF b = r /\ d = "bid" THEN 0 ELSE 0)
    BY <1>1 DEF Effect
  <2> QED BY <2>1, <2>2
<1>4. Charged(m, pp, p2, a, side, lots) BY <1>3 DEF Charged, TakenIn
<1> QED BY <1>1, <1>2, <1>3, <1>4 DEF TakenIn

(* The fees: what the taker pays and what the referrer or the market gets. *)
LEMMA FeesMove ==
  ASSUME NEW ws \in Int, NEW fees \in Int, NEW y \in Int, NEW rate \in Int, NEW turn \in Int,
         ws + fees = MakerFee * turn
  PROVE  /\ (ws - y * (TakerFee + rate)) + (fees + y * (TakerFee + MakerFee + rate)) = MakerFee * (turn + y)
         /\ ((ws - y * (TakerFee + rate)) + y * rate) + (fees + y * (TakerFee + MakerFee + 0))
              = MakerFee * (turn + y)
<1>0. MakerFee \in Int /\ TakerFee \in Int BY PerpAssumption
<1> DEFINE ta == y * TakerFee
           ma == y * MakerFee
           ra == y * rate
           mt == MakerFee * turn
<1>1. y * (TakerFee + rate) = ta + ra /\ ta \in Int /\ ra \in Int BY <1>0, Spread
<1>2. y * (TakerFee + MakerFee) = ta + ma /\ ma \in Int BY <1>0, Spread
<1>3. y * (TakerFee + MakerFee + rate) = ta + ma + ra
  <2> DEFINE k == TakerFee + MakerFee
  <2>1. k \in Int /\ y * k = ta + ma BY <1>0, <1>2
  <2> HIDE DEF k
  <2>2. y * (k + rate) = y * k + y * rate BY <2>1, Spread
  <2> QED BY <2>1, <2>2 DEF k
<1>4. TakerFee + MakerFee + 0 = TakerFee + MakerFee BY <1>0
<1>5. MakerFee * (turn + y) = mt + ma /\ mt \in Int
  <2>1. MakerFee * (turn + y) = MakerFee * turn + MakerFee * y /\ MakerFee * turn \in Int BY <1>0, Spread
  <2>2. MakerFee * y = y * MakerFee BY <1>0
  <2> QED BY <2>1, <2>2
<1>6. ws + fees = mt OBVIOUS
<1> HIDE DEF ta, ma, ra, mt
<1>7. (ws - (ta + ra)) + (fees + (ta + ma + ra)) = mt + ma BY <1>1, <1>2, <1>5, <1>6
<1>8. ((ws - (ta + ra)) + ra) + (fees + (ta + ma)) = mt + ma BY <1>1, <1>2, <1>5, <1>6
<1>9. y * rate = ra BY DEF ra
<1> QED BY <1>1, <1>2, <1>3, <1>4, <1>5, <1>7, <1>8, <1>9

(* The queued fills and the amounts pending agree after a new order. *)
LEMMA PendingTaken ==
  ASSUME NEW m \in Markets, NEW q, NEW q2, NEW pp, NEW p2, NEW a, NEW side, NEW x, NEW y, NEW lots,
         Pending(m, q, pp), Tally(q, q2, a, side, x, y), TakenIn(m, pp, p2, a, side, x, y, lots)
  PROVE  Pending(m, q2, p2)
<1> SUFFICES ASSUME NEW b \in Accounts
             PROVE  /\ p2[b][m].taker_base = QSum(TakerBase(b), q2)
                    /\ p2[b][m].taker_quote = QSum(TakerQuote(b), q2)
  BY DEF Pending
<1> QED BY DEF Pending, Tally, TakenIn

(* A market is consistent after a new order, once its parts are.           *)
LEMMA TakenState ==
  ASSUME NEW m \in Markets, NEW w, NEW q, NEW sq, NEW fees, State(m, w, q, sq, fees),
         NEW a \in Accounts, NEW side \in Sides, NEW x \in Int, NEW y \in Int, NEW lots,
         NEW b2, NEW q2, NEW s2, NEW p2, NEW f2 \in Int, NEW w2 \in Works,
         w2.book = b2, w2.perp = p2, w2.slots = s2, w2.open_interest = w.open_interest,
         Stage(m, b2, q2, s2, sq + 1, p2), Tally(q, q2, a, side, x, y),
         TakenIn(m, w.perp, p2, a, side, x, y, lots),
         WorthSum(m, p2) + f2 = MakerFee * (QSum(Turnover, q) + y)
  PROVE  State(m, w2, q2, sq + 1, f2)
<1>1. QSum(Turnover, q2) = QSum(Turnover, q) + y BY DEF Tally
<1>2. Pending(m, q2, p2) BY PendingTaken DEF State
<1>3. BaseSum(m, p2) = 0 /\ SizeSum(m, p2) = w2.open_interest BY DEF State, TakenIn
<1>4. WorthSum(m, p2) + f2 = MakerFee * QSum(Turnover, q2) BY <1>1
<1> QED BY <1>2, <1>3, <1>4 DEF State, Stage

MarketSet ==
  [seq_num : Nat, fees_accrued : Int, funding : Int, last_updated : Int, cached_at : Int,
   mode : Modes, open_interest : Int]

(* The markets' own accounts. *)
Halls ==
  /\ book \in [Markets -> Books] /\ queue \in [Markets -> Seq(EventSet)]
  /\ market \in [Markets -> MarketSet]

Good(m) == State(m, Work(m), queue[m], market[m].seq_num, market[m].fees_accrued)

(* Only market m is concerned. *)
Only(m) ==
  /\ Apart(m, perp, perp') /\ Foreign(m, slots, slots')
  /\ \A n \in Markets : n # m => book'[n] = book[n] /\ queue'[n] = queue[n] /\ market'[n] = market[n]

(* The parts of new_order, each with its own name. *)
OrderOf(a, m, taken, expiry) ==
  [price |-> taken.price, seq |-> market[m].seq_num + 1, owner |-> a,
   slot |-> Min({s \in Slot : slots[a][s] = Free}), qty |-> taken.resting, expiry |-> expiry]

EntryOf(a, m, side, taken, cid) ==
  [market |-> m, side |-> side, price |-> taken.price, seq |-> market[m].seq_num + 1, cid |-> cid]

PaidBy(a, m, side, taken, rate) ==
  Takings(perp, a, m, Sign(side) * taken.base, Sign(side) * taken.quote,
          taken.quote * (TakerFee + rate), side, taken.resting)

PlacedIn(a, m, side, taken, expiry, cid, ref) ==
  LET D == Dropped(taken.resting, side, book[m][side])
      B == Booted(taken.resting, side, book[m][side] \ D)
      o == OrderOf(a, m, taken, expiry)
      paid == PaidBy(a, m, side, taken, ref.rate)
  IN  /\ taken.price > 0
      /\ taken.resting > 0 => \E s \in Slot : slots[a][s] = Free
      /\ queue' = [queue EXCEPT ![m] = queue[m] \o (taken.evs \o OutEvents(D, side) \o OutEvents(B, side))]
      /\ book' = [book EXCEPT ![m] =
                    [book[m] EXCEPT ![invert_side(side)] = taken.rest,
                                    ![side] = ((book[m][side] \ D) \ B)
                                                \cup (IF taken.resting > 0 THEN {o} ELSE {})]]
      /\ market' = [market EXCEPT ![m] =
                      [market[m] EXCEPT !.seq_num = market[m].seq_num + 1,
                         !.fees_accrued = market[m].fees_accrued
                            + taken.quote * (TakerFee + MakerFee + (IF ref.to = Nobody THEN ref.rate ELSE 0))]]
      /\ perp' = (IF ref.to = Nobody THEN paid ELSE Reward(paid, ref.to, m, taken.quote * ref.rate))
      /\ slots' = (IF taken.resting > 0 THEN Put(slots, a, o.slot, EntryOf(a, m, side, taken, cid)) ELSE slots)

(* new_order does what PlacedIn says.                                      *)
LEMMA NewOrderParts ==
  ASSUME NEW a \in Accounts, NEW m \in Markets, NEW side \in Sides, NEW price0, NEW base, NEW quote, NEW type,
         NEW expiry, NEW limit, NEW cid, NEW oracle, NEW ref, Halls,
         new_order(a, m, side, price0, base, quote, type, expiry, limit, cid, oracle, ref)
  PROVE  PlacedIn(a, m, side, Matching(a, m, side, price0, base, quote, type, limit, oracle), expiry, cid, ref)
<1> DEFINE taken == Matching(a, m, side, price0, base, quote, type, limit, oracle)
           D == Dropped(taken.resting, side, book[m][side])
           own == book[m][side] \ D
           B == Booted(taken.resting, side, own)
           o == OrderOf(a, m, taken, expiry)
           paid == PaidBy(a, m, side, taken, ref.rate)
           sign == IF side = "bid" THEN 1 ELSE -1
           evs == taken.evs \o OutEvents(D, side) \o OutEvents(B, side)
           pd == [perp EXCEPT ![a][m] = AfterOrder(@, side, taken, ref.rate)]
<1> HIDE DEF taken
<1>1. pd = paid BY DEF PaidBy, Takings, Took, AfterOrder, Sign
<1>2. /\ taken.price > 0
      /\ taken.resting > 0 => {s \in Slot : slots[a][s] = Free} # {}
      /\ queue' = [queue EXCEPT ![m] = @ \o evs]
      /\ book' = [book EXCEPT ![m][invert_side(side)] = taken.rest,
                              ![m][side] = (own \ B) \cup (IF taken.resting > 0 THEN {o} ELSE {})]
      /\ market' = [market EXCEPT
                      ![m].seq_num = @ + 1,
                      ![m].fees_accrued = @ + taken.quote * (TakerFee + MakerFee
                                                + (IF ref.to = Nobody THEN ref.rate ELSE 0))]
      /\ perp' = (IF ref.to = Nobody THEN pd
                 ELSE [pd EXCEPT ![ref.to][m].quote = @ + taken.quote * ref.rate])
      /\ slots' = (IF taken.resting > 0
                  THEN [slots EXCEPT ![a][o.slot] =
                          [market |-> m, side |-> side, price |-> taken.price, seq |-> o.seq,
                           cid |-> cid]]
                  ELSE slots)
  BY DEF new_order, taken, Dropped, Booted, OrderOf
<1>3. o.seq = market[m].seq_num + 1 BY DEF OrderOf
<1> HIDE DEF D, B, o, pd, paid, evs, sign
<1>4. perp' = (IF ref.to = Nobody THEN paid ELSE Reward(paid, ref.to, m, taken.quote * ref.rate))
  BY <1>1, <1>2 DEF Reward
<1>5. slots' = (IF taken.resting > 0 THEN Put(slots, a, o.slot, EntryOf(a, m, side, taken, cid)) ELSE slots)
  BY <1>2, <1>3 DEF Put, EntryOf
<1>6. queue' = [queue EXCEPT ![m] = queue[m] \o evs] BY <1>2 DEF Halls
<1>7. book' = [book EXCEPT ![m] =
                 [book[m] EXCEPT ![invert_side(side)] = taken.rest,
                                 ![side] = (own \ B) \cup (IF taken.resting > 0 THEN {o} ELSE {})]]
  <2> DEFINE S == (own \ B) \cup (IF taken.resting > 0 THEN {o} ELSE {})
  <2>1. book' = [book EXCEPT ![m][invert_side(side)] = taken.rest, ![m][side] = S] BY <1>2
  <2> HIDE DEF S
  <2>2. book' = [book EXCEPT ![m] = [book[m] EXCEPT ![invert_side(side)] = taken.rest, ![side] = S]]
    BY <2>1 DEF Halls
  <2> QED BY <2>2 DEF S
<1>8. market' = [market EXCEPT ![m] =
                   [market[m] EXCEPT !.seq_num = market[m].seq_num + 1,
                         !.fees_accrued = market[m].fees_accrued
                            + taken.quote * (TakerFee + MakerFee + (IF ref.to = Nobody THEN ref.rate ELSE 0))]]
  <2> DEFINE v1 == market[m].seq_num + 1
             v2 == market[m].fees_accrued
                            + taken.quote * (TakerFee + MakerFee + (IF ref.to = Nobody THEN ref.rate ELSE 0))
  <2>1. market' = [market EXCEPT ![m].seq_num = v1, ![m].fees_accrued = v2] BY <1>2 DEF Halls
  <2> HIDE DEF v1, v2
  <2>2. market' = [market EXCEPT ![m] = [market[m] EXCEPT !.seq_num = v1, !.fees_accrued = v2]]
    BY <2>1 DEF Halls
  <2> QED BY <2>2 DEF v1, v2
<1>9. taken.price > 0 /\ (taken.resting > 0 => \E s \in Slot : slots[a][s] = Free) BY <1>2
<1>10. PlacedIn(a, m, side, taken, expiry, cid, ref)
  BY <1>4, <1>5, <1>6, <1>7, <1>8, <1>9 DEF PlacedIn, D, B, o, paid, evs
<1> QED BY <1>10 DEF taken

(* The order that is posted and the slot entry describe each other.        *)
LEMMA OrderFits ==
  ASSUME NEW a \in Accounts, NEW m \in Markets, NEW side \in Sides, NEW taken, NEW expiry \in Int,
         NEW cid \in ClientIds, NEW sq \in Nat, market[m].seq_num = sq,
         taken.price \in Int, taken.price > 0, taken.resting \in Nat, taken.resting > 0,
         \E s \in Slot : slots[a][s] = Free
  PROVE  Fits(m, OrderOf(a, m, taken, expiry), EntryOf(a, m, side, taken, cid), a, side, slots, sq, taken.resting)
<1> DEFINE free == {s \in Slot : slots[a][s] = Free}
           o == OrderOf(a, m, taken, expiry)
           t == EntryOf(a, m, side, taken, cid)
<1>1. IsFiniteSet(free) /\ free # {} /\ free \subseteq Int
  <2>1. IsFiniteSet(Slot) /\ Slot \subseteq Int BY SlotFinite
  <2>2. free \subseteq Slot OBVIOUS
  <2> QED BY <2>1, <2>2, FS_Subset
<1>2. Min(free) \in free
  <2> HIDE DEF free
  <2> QED BY <1>1, MaxMin
<1>3. Min(free) \in Slot /\ slots[a][Min(free)] = Free BY <1>2
<1>4. taken.price \in Lots /\ taken.resting \in Lots /\ sq + 1 \in Nat BY DEF Lots
<1>5. /\ o.price = taken.price /\ o.seq = sq + 1 /\ o.owner = a /\ o.slot = Min(free)
      /\ o.qty = taken.resting /\ o.expiry = expiry
  BY DEF OrderOf
<1>6. o \in OrderSet
  <2> HIDE DEF free
  <2> QED BY <1>3, <1>4 DEF OrderOf, OrderSet, free
<1>7. t \in Tracked /\ t.market = m /\ t.side = side /\ t.price = taken.price /\ t.seq = sq + 1
  BY <1>4 DEF EntryOf, Tracked, Lots
<1> HIDE DEF free, o, t
<1>8. Fits(m, o, t, a, side, slots, sq, taken.resting) BY <1>3, <1>5, <1>6, <1>7 DEF Fits
<1> QED BY <1>8 DEF o, t

(* The accounts after a new order, referral fee included. *)
LEMMA PaidIn ==
  ASSUME NEW m \in Markets, NEW a \in Accounts, NEW side \in Sides, NEW taken, NEW ref, perp \in Perps,
         taken.base \in Int, taken.quote \in Int, taken.resting \in Nat, ref.rate \in Int,
         ref.to = Nobody \/ ref.to \in Accounts, NEW fees \in Int, NEW turn \in Int,
         WorthSum(m, perp) + fees = MakerFee * turn,
         NEW p2, p2 = (IF ref.to = Nobody THEN PaidBy(a, m, side, taken, ref.rate)
                       ELSE Reward(PaidBy(a, m, side, taken, ref.rate), ref.to, m, taken.quote * ref.rate)),
         NEW f2, f2 = fees + taken.quote * (TakerFee + MakerFee + (IF ref.to = Nobody THEN ref.rate ELSE 0))
  PROVE  /\ TakenIn(m, perp, p2, a, side, taken.base, taken.quote, taken.resting) /\ f2 \in Int
         /\ WorthSum(m, p2) + f2 = MakerFee * (turn + taken.quote)
<1> DEFINE x == taken.base
           y == taken.quote
           rate == ref.rate
           fee == y * (TakerFee + rate)
           p1 == PaidBy(a, m, side, taken, rate)
           ws == WorthSum(m, perp)
<1>0. MakerFee \in Int /\ TakerFee \in Int /\ y \in Int /\ rate \in Int BY PerpAssumption
<1>1. fee \in Int /\ y * rate \in Int /\ y * (TakerFee + MakerFee + rate) \in Int
      /\ y * (TakerFee + MakerFee + 0) \in Int
  <2>1. TakerFee + rate \in Int /\ TakerFee + MakerFee + rate \in Int /\ TakerFee + MakerFee + 0 \in Int BY <1>0
  <2> QED BY <1>0, <2>1, ProductInt
<1>2. TakenIn(m, perp, p1, a, side, x, y, taken.resting) /\ WorthSum(m, p1) = ws - fee
  <2>1. taken.resting \in Int /\ x \in Int /\ y \in Int OBVIOUS
  <2>2. p1 = Takings(perp, a, m, Sign(side) * x, Sign(side) * y, fee, side, taken.resting) BY DEF PaidBy
  <2> HIDE DEF x, y, fee, p1
  <2> QED BY <1>1, <2>1, <2>2, TakingsIn
<1>3. ws \in Int BY SumsInt
<1>4. /\ (ws - fee) + (fees + y * (TakerFee + MakerFee + rate)) = MakerFee * (turn + y)
      /\ ((ws - fee) + y * rate) + (fees + y * (TakerFee + MakerFee + 0)) = MakerFee * (turn + y)
  <2> HIDE DEF ws, y, rate
  <2>1. ws + fees = MakerFee * turn BY DEF ws
  <2> QED BY <1>0, <1>3, <2>1, FeesMove
<1>5. CASE ref.to = Nobody
  <2>1. p2 = p1 /\ f2 = fees + y * (TakerFee + MakerFee + rate) BY <1>5
  <2> HIDE DEF p1
  <2>2. f2 \in Int /\ WorthSum(m, p2) + f2 = MakerFee * (turn + y)
    <3> DEFINE k == y * (TakerFee + MakerFee + rate)
    <3>1. k \in Int /\ f2 = fees + k /\ (ws - fee) + (fees + k) = MakerFee * (turn + y) BY <1>1, <1>4, <2>1
    <3> HIDE DEF k, fee, ws
    <3>2. f2 \in Int BY <3>1
    <3>3. WorthSum(m, p2) + f2 = (ws - fee) + (fees + k) BY <1>2, <2>1, <3>1
    <3> QED BY <3>1, <3>2, <3>3
  <2> QED BY <1>2, <2>1, <2>2
<1>6. CASE ref.to # Nobody
  <2>1. p2 = Reward(p1, ref.to, m, y * rate) /\ f2 = fees + y * (TakerFee + MakerFee + 0) BY <1>6
  <2>r. ref.to \in Accounts BY <1>6
  <2> HIDE DEF p1
  <2>3. TakenIn(m, perp, p2, a, side, x, y, taken.resting) /\ WorthSum(m, p2) = WorthSum(m, p1) + y * rate
    <3> DEFINE z == y * rate
               to == ref.to
    <3>1. z \in Int /\ p2 = Reward(p1, to, m, z) /\ to \in Accounts BY <1>1, <2>1, <2>r
    <3> HIDE DEF z, to
    <3>2. TakenIn(m, perp, p2, a, side, x, y, taken.resting) /\ WorthSum(m, p2) = WorthSum(m, p1) + z
      BY <1>2, <3>1, RewardIn
    <3> QED BY <3>2 DEF z
  <2>2. f2 \in Int /\ WorthSum(m, p2) + f2 = MakerFee * (turn + y)
    <3> DEFINE k == y * (TakerFee + MakerFee + 0)
               z == y * rate
    <3>1. k \in Int /\ f2 = fees + k /\ ((ws - fee) + z) + (fees + k) = MakerFee * (turn + y) BY <1>1, <1>4, <2>1
    <3>4. WorthSum(m, p2) = WorthSum(m, p1) + z BY <2>3
    <3> HIDE DEF k, fee, ws, z
    <3>2. f2 \in Int BY <3>1
    <3>3. WorthSum(m, p2) + f2 = ((ws - fee) + z) + (fees + k) BY <1>2, <3>4, <3>1
    <3> QED BY <3>1, <3>2, <3>3
  <2> QED BY <2>2, <2>3
<1> QED BY <1>5, <1>6

(* The primed form of the invariant of one market.                         *)
LEMMA GoodNext ==
  ASSUME NEW m,
         State(m, [book |-> book'[m], perp |-> perp', slots |-> slots',
                   open_interest |-> market'[m].open_interest, ok |-> TRUE],
               queue'[m], market'[m].seq_num, market'[m].fees_accrued)
  PROVE  Good(m)'
BY DEF Good, Work

(* What the invariant of a market says about the state. *)
LEMMA GoodParts ==
  ASSUME NEW m \in Markets, Good(m), Halls
  PROVE  /\ perp \in Perps /\ slots \in Tables /\ Stage(m, book[m], queue[m], slots, market[m].seq_num, perp)
         /\ market[m].seq_num \in Nat /\ market[m].fees_accrued \in Int /\ market[m].funding \in Int
         /\ market[m].open_interest \in Int
         /\ Work(m).perp = perp /\ Work(m).slots = slots /\ Work(m).book = book[m]
         /\ Work(m).open_interest = market[m].open_interest
         /\ WorthSum(m, perp) + market[m].fees_accrued = MakerFee * QSum(Turnover, queue[m])
         /\ QSum(Turnover, queue[m]) \in Int
<1>1. Work(m).perp = perp /\ Work(m).slots = slots /\ Work(m).book = book[m]
      /\ Work(m).open_interest = market[m].open_interest
  BY DEF Work
<1>2. Work(m) \in Works BY DEF Good, State
<1>3. perp \in Perps /\ slots \in Tables BY <1>1, <1>2 DEF Works
<1>4. Stage(m, book[m], queue[m], slots, market[m].seq_num, perp)
  BY <1>1 DEF Good, State, Stage
<1>5. market[m] \in MarketSet /\ queue[m] \in Seq(EventSet) BY DEF Halls
<1>6. QSum(Turnover, queue[m]) \in Int BY <1>5, Weights, QSumInt
<1>7. WorthSum(m, perp) + market[m].fees_accrued = MakerFee * QSum(Turnover, queue[m])
  BY <1>1 DEF Good, State
<1> QED BY <1>1, <1>3, <1>4, <1>5, <1>6, <1>7 DEF MarketSet

(* A new slot entry concerns its market only.                              *)
LEMMA ForeignEntry ==
  ASSUME NEW m, NEW a \in Accounts, NEW s \in Slot, NEW t \in Tracked, t.market = m, slots \in Tables,
         slots[a][s] = Free
  PROVE  Foreign(m, slots, Put(slots, a, s, t)) /\ Put(slots, a, s, t) \in Tables
<1>1. t \in Tracked \cup {Free} OBVIOUS
<1> QED BY <1>1, ForeignPut, PutProps

(* Book::new_order keeps the books of its market, and touches no other. *)
LEMMA NewOrderGood ==
  ASSUME NEW a \in Accounts, NEW m \in Markets, NEW side \in Sides, NEW price0 \in Int, NEW base \in Nat, base > 0,
         NEW quote \in Nat, NEW type, NEW expiry \in Int, NEW limit \in Int, NEW cid \in ClientIds, NEW oracle,
         NEW ref, ref.rate \in Int, ref.to = Nobody \/ ref.to \in Accounts, Halls, Good(m),
         new_order(a, m, side, price0, base, quote, type, expiry, limit, cid, oracle, ref)
  PROVE  Halls' /\ Good(m)' /\ Only(m)
<1> DEFINE taken == Matching(a, m, side, price0, base, quote, type, limit, oracle)
           sq == market[m].seq_num
           D == Dropped(taken.resting, side, book[m][side])
           B == Booted(taken.resting, side, Outside(book[m][side], D))
           o == OrderOf(a, m, taken, expiry)
           t == EntryOf(a, m, side, taken, cid)
           own == Outside(Outside(book[m][side], D), B)
           lots == taken.resting
           q2 == NewQueue(queue[m], taken.evs, D, B, side)
           b2 == NewBook(book[m], side, taken.rest, own, lots, o)
           f2 == market[m].fees_accrued
                   + taken.quote * (TakerFee + MakerFee + (IF ref.to = Nobody THEN ref.rate ELSE 0))
<1>1. /\ perp \in Perps /\ slots \in Tables /\ Stage(m, book[m], queue[m], slots, sq, perp)
      /\ sq \in Nat /\ market[m].fees_accrued \in Int
      /\ market[m].open_interest \in Int
      /\ Work(m).perp = perp /\ Work(m).slots = slots /\ Work(m).book = book[m]
      /\ Work(m).open_interest = market[m].open_interest
      /\ WorthSum(m, perp) + market[m].fees_accrued = MakerFee * QSum(Turnover, queue[m])
      /\ QSum(Turnover, queue[m]) \in Int
  BY GoodParts
<1>2. Takes(m, taken, a, side, sq)
  <2> HIDE DEF sq
  <2> QED BY <1>1, MatchingTakes
<1>3. PlacedIn(a, m, side, taken, expiry, cid, ref) BY NewOrderParts
<1>4. book[m] \in Books /\ queue[m] \in Seq(EventSet) /\ market[m] \in MarketSet BY DEF Halls
<1> HIDE DEF taken
<1>5. /\ taken.price \in Int /\ taken.base \in Int /\ taken.quote \in Int /\ taken.resting \in Nat
      /\ taken.evs \in Seq(EventSet)
      /\ Stage(m, With(book[m], invert_side(side), taken.rest), queue[m] \o taken.evs, slots, sq, perp)
      /\ Tally(queue[m], queue[m] \o taken.evs, a, side, taken.base, taken.quote)
  BY <1>2 DEF Takes
<1>6. /\ taken.price > 0
      /\ lots > 0 => \E s \in Slot : slots[a][s] = Free
      /\ queue' = [queue EXCEPT ![m] = q2]
      /\ book' = [book EXCEPT ![m] = b2]
      /\ market' = [market EXCEPT ![m] = [market[m] EXCEPT !.seq_num = sq + 1, !.fees_accrued = f2]]
      /\ perp' = (IF ref.to = Nobody THEN PaidBy(a, m, side, taken, ref.rate)
                  ELSE Reward(PaidBy(a, m, side, taken, ref.rate), ref.to, m, taken.quote * ref.rate))
      /\ slots' = NewTable(slots, a, o, t, lots)
  BY <1>3 DEF PlacedIn, NewQueue, NewBook, NewTable, Outside
<1>7. /\ Stage(m, Rebooked(book[m], side, taken.rest, own), q2, slots, sq, perp)
      /\ Tally(queue[m], q2, a, side, taken.base, taken.quote)
  <2> DEFINE k == taken.rest
             te == taken.evs
             x == taken.base
             y == taken.quote
  <2>1. /\ te \in Seq(EventSet) /\ x \in Int /\ y \in Int
        /\ Stage(m, With(book[m], invert_side(side), k), Joined(queue[m], te), slots, sq, perp)
        /\ Tally(queue[m], Joined(queue[m], te), a, side, x, y)
    BY <1>5 DEF Joined
  <2>2. MakesRoom(lots, side, book[m], D, B) BY DEF MakesRoom
  <2>7. HasTraded(m, book[m], queue[m], te, slots, sq, perp, a, side, k, x, y) BY <2>1 DEF HasTraded
  <2>3. q2 = NewQueue(queue[m], te, D, B, side) OBVIOUS
  <2>5. own = Outside(Outside(book[m][side], D), B) OBVIOUS
  <2>6. book[m] \in Books /\ queue[m] \in Seq(EventSet) BY <1>4
  <2> HIDE DEF k, te, x, y, D, B, q2, lots, sq, b2, o, t, f2, own
  <2>4. /\ Stage(m, Rebooked(book[m], side, k, own), q2, slots, sq, perp)
        /\ Tally(queue[m], q2, a, side, x, y)
    BY <2>1, <2>2, <2>3, <2>5, <2>6, <2>7, RoomBook
  <2> QED BY <2>4 DEF k, x, y
<1>8. /\ TakenIn(m, perp, perp', a, side, taken.base, taken.quote, lots) /\ f2 \in Int
      /\ WorthSum(m, perp') + f2 = MakerFee * (QSum(Turnover, queue[m]) + taken.quote)
  <2> DEFINE turn == QSum(Turnover, queue[m])
             fees == market[m].fees_accrued
  <2>1. turn \in Int /\ fees \in Int /\ WorthSum(m, perp) + fees = MakerFee * turn BY <1>1
  <2>2. f2 = fees + taken.quote * (TakerFee + MakerFee + (IF ref.to = Nobody THEN ref.rate ELSE 0)) OBVIOUS
  <2>4. perp' = (IF ref.to = Nobody THEN PaidBy(a, m, side, taken, ref.rate)
                 ELSE Reward(PaidBy(a, m, side, taken, ref.rate), ref.to, m, taken.quote * ref.rate))
    BY <1>6
  <2>5. perp \in Perps BY <1>1
  <2>6. taken.base \in Int /\ taken.quote \in Int /\ taken.resting \in Nat BY <1>5
  <2> HIDE DEF turn, fees, f2, q2, b2, o, t, own, D, B, lots, sq
  <2>3. /\ TakenIn(m, perp, perp', a, side, taken.base, taken.quote, taken.resting) /\ f2 \in Int
        /\ WorthSum(m, perp') + f2 = MakerFee * (turn + taken.quote)
    BY <2>1, <2>2, <2>4, <2>5, <2>6, PaidIn
  <2> QED BY <2>3 DEF turn, lots
<1>9. lots > 0 => Fits(m, o, t, a, side, slots, sq, lots)
  BY <1>1, <1>5, <1>6, OrderFits
<1> HIDE DEF o, t, own, q2, f2, lots, sq, D, B
<1>10. Stage(m, b2, q2, slots', sq + 1, perp')
  <2>1. Charged(m, perp, perp', a, side, lots) /\ lots \in Nat BY <1>5, <1>8 DEF TakenIn, lots
  <2>2. b2 = NewBook(book[m], side, taken.rest, own, lots, o) OBVIOUS
  <2> HIDE DEF b2
  <2>3. slots' = NewTable(slots, a, o, t, lots) BY <1>6
  <2> QED BY <1>1, <1>4, <1>7, <1>9, <2>1, <2>2, <2>3, OrderStage
<1> HIDE DEF b2
<1>11. b2 \in Books /\ q2 \in Seq(EventSet) /\ slots' \in Tables /\ sq + 1 \in Nat BY <1>10 DEF Stage, Desk
<1> DEFINE mk == [market[m] EXCEPT !.seq_num = sq + 1, !.fees_accrued = f2]
<1>12. /\ mk \in MarketSet /\ mk.seq_num = sq + 1 /\ mk.fees_accrued = f2
       /\ mk.open_interest = market[m].open_interest
  BY <1>4, <1>8, <1>11 DEF MarketSet
<1>13. market' = [market EXCEPT ![m] = mk] BY <1>6
<1> HIDE DEF mk
<1>14. book'[m] = b2 /\ queue'[m] = q2 /\ market'[m] = mk BY <1>6, <1>13 DEF Halls
<1>15. Halls' BY <1>6, <1>11, <1>12, <1>13 DEF Halls
<1>16. \A n \in Markets : n # m => book'[n] = book[n] /\ queue'[n] = queue[n] /\ market'[n] = market[n]
  BY <1>6, <1>13 DEF Halls
<1>17. Foreign(m, slots, slots')
  <2>1. CASE lots > 0
    <3>1. Fits(m, o, t, a, side, slots, sq, lots) BY <1>9, <2>1
    <3>2. o.slot \in Slot /\ t \in Tracked /\ t.market = m /\ slots[a][o.slot] = Free BY <3>1 DEF Fits, OrderSet
    <3>3. slots' = Put(slots, a, o.slot, t) BY <1>6, <2>1 DEF NewTable
    <3> QED BY <1>1, <3>2, <3>3, ForeignEntry
  <2>2. CASE ~(lots > 0) BY <1>6, <2>2, ForeignSame DEF NewTable
  <2> QED BY <2>1, <2>2
<1>18. Only(m) BY <1>8, <1>16, <1>17 DEF Only, TakenIn
<1> DEFINE w2 == [book |-> book'[m], perp |-> perp', slots |-> slots',
                  open_interest |-> market'[m].open_interest, ok |-> TRUE]
<1>19. /\ w2 \in Works /\ w2.book = b2 /\ w2.perp = perp' /\ w2.slots = slots'
       /\ w2.open_interest = Work(m).open_interest
  BY <1>1, <1>8, <1>11, <1>12, <1>14 DEF Works, TakenIn
<1>20. State(m, w2, q2, sq + 1, f2)
  <2> HIDE DEF w2
  <2>1. State(m, Work(m), queue[m], sq, market[m].fees_accrued) BY DEF Good, sq
  <2>2. TakenIn(m, Work(m).perp, perp', a, side, taken.base, taken.quote, lots) BY <1>1, <1>8
  <2> QED BY <1>5, <1>7, <1>8, <1>10, <1>19, <2>1, <2>2, TakenState
<1>21. Good(m)' BY <1>12, <1>14, <1>20, GoodNext
<1> QED BY <1>15, <1>18, <1>21

-----------------------------------------------------------------------------
(***************************************************************************)
(* The inductive invariant, instruction by instruction.                    *)
(***************************************************************************)

(* The inductive invariant: the markets' accounts are well formed, and each market's books, *)
(* queue, order slots and positions agree.                                                  *)
Inv ==
  /\ Halls /\ perp \in Perps /\ slots \in Tables /\ now \in Int
  /\ \A m \in Markets : Good(m)

(* A working copy with the same fields is as consistent.                   *)
LEMMA StateSame ==
  ASSUME NEW m, NEW w, NEW q, NEW sq, NEW fees, State(m, w, q, sq, fees), NEW w2 \in Works,
         w2.book = w.book, w2.perp = w.perp, w2.slots = w.slots, w2.open_interest = w.open_interest
  PROVE  State(m, w2, q, sq, fees)
BY DEF State

(* Another market is as good as before. *)
LEMMA GoodElse ==
  ASSUME NEW m \in Markets, NEW n \in Markets, n # m, Halls, Good(n), Only(m), perp' \in Perps, slots' \in Tables
  PROVE  Good(n)'
<1> DEFINE w2 == [book |-> book'[n], perp |-> perp', slots |-> slots',
                  open_interest |-> market'[n].open_interest, ok |-> TRUE]
<1>1. book'[n] = book[n] /\ queue'[n] = queue[n] /\ market'[n] = market[n] BY DEF Only
<1>2. /\ perp \in Perps /\ slots \in Tables /\ Stage(n, book[n], queue[n], slots, market[n].seq_num, perp)
      /\ market[n].open_interest \in Int
      /\ Work(n).perp = perp /\ Work(n).slots = slots /\ Work(n).book = book[n]
      /\ Work(n).open_interest = market[n].open_interest
  BY GoodParts
<1>3. \A b \in Accounts : perp'[b][n] = perp[b][n] BY DEF Only, Apart
<1>4. /\ BaseSum(n, perp') = BaseSum(n, perp) /\ SizeSum(n, perp') = SizeSum(n, perp)
      /\ WorthSum(n, perp') = WorthSum(n, perp)
  BY <1>3 DEF BaseSum, SizeSum, WorthSum
<1>5. Desk(n, book[n], queue[n], slots', market[n].seq_num)
  <2>1. Desk(n, book[n], queue[n], slots, market[n].seq_num) /\ Foreign(m, slots, slots') BY <1>2 DEF Stage, Only
  <2> QED BY <2>1, ForeignDesk
<1>6. Counts(n, book[n], queue[n], perp') BY <1>2, <1>3 DEF Counts, Stage
<1>7. Pending(n, queue[n], perp') BY <1>2, <1>3 DEF Pending, Good, State
<1>8. /\ w2 \in Works /\ w2.book = book[n] /\ w2.perp = perp' /\ w2.slots = slots'
      /\ w2.open_interest = market[n].open_interest
  BY <1>1, <1>2 DEF Works, Halls
<1> HIDE DEF w2
<1>9. /\ BaseSum(n, perp) = 0 /\ SizeSum(n, perp) = market[n].open_interest
      /\ WorthSum(n, perp) + market[n].fees_accrued = MakerFee * QSum(Turnover, queue[n])
      /\ market[n].fees_accrued \in Int
  BY <1>2 DEF Good, State
<1>10. State(n, w2, queue[n], market[n].seq_num, market[n].fees_accrued)
  BY <1>4, <1>5, <1>6, <1>7, <1>8, <1>9 DEF State
<1> QED BY <1>1, <1>10, GoodNext DEF w2

(* A step that works on one market. *)
LEMMA StepInv ==
  ASSUME Inv, NEW m \in Markets, Halls', Good(m)', Only(m), now' \in Int
  PROVE  Inv'
<1>1. Work(m)' \in Works BY DEF Good, State
<1>2. perp' \in Perps /\ slots' \in Tables BY <1>1 DEF Work, Works
<1>3. ASSUME NEW n \in Markets PROVE Good(n)'
  <2>1. CASE n = m BY <2>1
  <2>2. CASE n # m BY <1>2, <2>2, GoodElse DEF Inv
  <2> QED BY <2>1, <2>2
<1> QED BY <1>2, <1>3 DEF Inv

(* A step that leaves the books alone. *)
LEMMA SameInv ==
  ASSUME Inv, UNCHANGED <<book, queue, market, perp, slots>>, now' \in Int
  PROVE  Inv'
<1>1. book' = book /\ queue' = queue /\ market' = market /\ perp' = perp /\ slots' = slots OBVIOUS
<1>2. Halls' BY <1>1 DEF Inv, Halls
<1>3. \A n \in Markets : Good(n)' BY <1>1 DEF Inv, Good, Work
<1> QED BY <1>1, <1>2, <1>3 DEF Inv

(* A step that changes only what no other part depends on in the markets. *)
LEMMA MarketInv ==
  ASSUME Inv, UNCHANGED <<book, queue, perp, slots>>, now' \in Int, market' \in [Markets -> MarketSet],
         \A n \in Markets : /\ market'[n].seq_num = market[n].seq_num
                            /\ market'[n].fees_accrued = market[n].fees_accrued
                            /\ market'[n].open_interest = market[n].open_interest
  PROVE  Inv'
<1>1. book' = book /\ queue' = queue /\ perp' = perp /\ slots' = slots OBVIOUS
<1>2. Halls' BY <1>1 DEF Inv, Halls
<1>3. ASSUME NEW n \in Markets PROVE Good(n)'
  <2>1. Good(n) BY DEF Inv
  <2>2. State(n, [book |-> book[n], perp |-> perp, slots |-> slots,
                  open_interest |-> market[n].open_interest, ok |-> TRUE],
              queue[n], market[n].seq_num, market[n].fees_accrued)
    BY <2>1 DEF Good, Work
  <2> QED BY <1>1, <2>2, GoodNext
<1> QED BY <1>1, <1>2, <1>3 DEF Inv

(* An instruction commits its working copy. *)
LEMMA CommitInv ==
  ASSUME Inv, NEW m \in Markets, NEW w, NEW q2, State(m, w, q2, market[m].seq_num, market[m].fees_accrued),
         Apart(m, perp, w.perp), Foreign(m, slots, w.slots), Commit(m, w),
         queue' = [queue EXCEPT ![m] = q2], now' \in Int
  PROVE  Inv'
<1>1. w \in Works /\ q2 \in Seq(EventSet) BY DEF State, Desk
<1>2. w.book \in Books /\ w.perp \in Perps /\ w.slots \in Tables /\ w.open_interest \in Int BY <1>1 DEF Works
<1>3. /\ book' = [book EXCEPT ![m] = w.book] /\ perp' = w.perp /\ slots' = w.slots
      /\ market' = [market EXCEPT ![m].open_interest = w.open_interest]
  BY DEF Commit
<1>h. /\ book \in [Markets -> Books] /\ queue \in [Markets -> Seq(EventSet)]
      /\ market \in [Markets -> MarketSet]
  BY DEF Inv, Halls
<1> DEFINE mk == [market[m] EXCEPT !.open_interest = w.open_interest]
<1>4. /\ mk \in MarketSet /\ mk.seq_num = market[m].seq_num /\ mk.fees_accrued = market[m].fees_accrued
      /\ mk.open_interest = w.open_interest
  <2>1. market[m] \in MarketSet BY <1>h
  <2> QED BY <1>2, <2>1 DEF MarketSet
<1>5. market' = [market EXCEPT ![m] = mk] BY <1>3, <1>h
<1> HIDE DEF mk
<1>6. book'[m] = w.book /\ queue'[m] = q2 /\ market'[m] = mk BY <1>3, <1>5, <1>h
<1>7. Halls' BY <1>1, <1>2, <1>3, <1>4, <1>5, <1>h DEF Halls
<1>8. \A n \in Markets : n # m => book'[n] = book[n] /\ queue'[n] = queue[n] /\ market'[n] = market[n]
  BY <1>3, <1>5, <1>h
<1>9. Only(m) BY <1>3, <1>8 DEF Only
<1> DEFINE w2 == [book |-> book'[m], perp |-> perp', slots |-> slots',
                  open_interest |-> market'[m].open_interest, ok |-> TRUE]
<1>10. w2 \in Works /\ w2.book = w.book /\ w2.perp = w.perp /\ w2.slots = w.slots /\ w2.open_interest = w.open_interest
  BY <1>2, <1>3, <1>4, <1>6 DEF Works
<1> HIDE DEF w2
<1>11. State(m, w2, q2, market[m].seq_num, market[m].fees_accrued) BY <1>10, StateSame
<1>12. Good(m)' BY <1>4, <1>6, <1>11, GoodNext DEF w2
<1> QED BY <1>7, <1>9, <1>12, StepInv

(* get_complete_base_pos counts what the queue still holds for the account. *)
LEMMA MakerSum ==
  ASSUME NEW a, NEW q \in Seq(EventSet),
         NEW T, T = {i \in DOMAIN q : q[i].type = "fill" /\ q[i].maker = a},
         NEW G, \A i \in T : G[i] = IF q[i].taker_side = "bid" THEN -q[i].qty ELSE q[i].qty
  PROVE  SumFunctionOnSet(G, T) = QSum(MakerBase(a), q)
<1> DEFINE S == 1..Len(q)
           F == [i \in S |-> MakerBase(a)[q[i]]]
<1>1. Len(q) \in Nat /\ DOMAIN q = S /\ \A i \in S : q[i] \in EventSet BY LenProperties, ElementOfSeq
<1>2. IsFiniteSet(S)
  <2>1. 1 \in Int /\ Len(q) \in Int BY <1>1
  <2> QED BY <2>1, FS_Interval
<1>3. T \in SUBSET S BY <1>1
<1>4. \A i \in S : F[i] \in Int BY <1>1, Weights DEF Weight
<1>5. \A i \in S \ T : F[i] = 0
  <2> SUFFICES ASSUME NEW i \in S, i \notin T PROVE MakerBase(a)[q[i]] = 0 OBVIOUS
  <2> QED BY <1>1 DEF MakerBase
<1>6. ASSUME NEW i \in T PROVE F[i] = G[i]
  <2>1. q[i] \in EventSet /\ q[i].type = "fill" /\ q[i].maker = a BY <1>1
  <2>2. q[i].qty \in Int /\ q[i].taker_side \in Sides BY <2>1, FillParts
  <2>3. F[i] = -Sign(q[i].taker_side) * q[i].qty BY <1>3, <2>1 DEF MakerBase
  <2>4. F[i] = IF q[i].taker_side = "bid" THEN -q[i].qty ELSE q[i].qty BY <2>2, <2>3 DEF Sign
  <2> QED BY <2>4
<1> HIDE DEF F
<1>7. SumFunctionOnSet(F, S) = SumFunctionOnSet(F, T)
  <2> HIDE DEF S
  <2> QED BY <1>2, <1>3, <1>4, <1>5, SumSupport
<1>8. IsFiniteSet(T) BY <1>2, <1>3, FS_Subset
<1>9. SumFunctionOnSet(F, T) = SumFunctionOnSet(G, T) BY <1>6, <1>8, SumCongr
<1> QED BY <1>7, <1>9 DEF QSum, F

(* get_complete_base_pos is the position once the queue is empty.          *)
LEMMA CompletePos ==
  ASSUME NEW m \in Markets, NEW a \in Accounts, Good(m), Halls
  PROVE  /\ get_complete_base_pos(a, m) = Complete(a, m, perp, queue[m])
         /\ get_complete_base_pos(a, m) \in Int
<1> DEFINE q == queue[m]
           T == MakerFills(a, m)
           G == [i \in T |-> IF q[i].taker_side = "bid" THEN -q[i].qty ELSE q[i].qty]
<1>1. q \in Seq(EventSet) BY DEF Halls
<1>2. perp \in Perps BY GoodParts
<1>3. perp[a][m].taker_base = QSum(TakerBase(a), q) BY DEF Good, State, Pending, Work
<1>4. T = {i \in DOMAIN q : q[i].type = "fill" /\ q[i].maker = a} BY DEF MakerFills
<1>5. get_complete_base_pos(a, m) = perp[a][m].base + perp[a][m].taker_base + SumFunctionOnSet(G, T)
  BY DEF get_complete_base_pos, SumOver
<1>6. \A i \in T : G[i] = IF q[i].taker_side = "bid" THEN -q[i].qty ELSE q[i].qty OBVIOUS
<1> HIDE DEF q, T, G
<1>7. SumFunctionOnSet(G, T) = QSum(MakerBase(a), q) BY <1>1, <1>4, <1>6, MakerSum
<1>8. QSum(MakerBase(a), q) \in Int BY <1>1, Weights, QSumInt
<1>9. perp[a][m].base \in Int /\ perp[a][m].taker_base \in Int BY <1>2, PerpParts
<1>10. get_complete_base_pos(a, m) = perp[a][m].base + QSum(TakerBase(a), q) + QSum(MakerBase(a), q)
  BY <1>3, <1>5, <1>7
<1> QED BY <1>3, <1>8, <1>9, <1>10 DEF Complete, q

(* The quantity a reduce-only order is cut down to is an integer.          *)
LEMMA ReducedInt ==
  ASSUME NEW m \in Markets, NEW a \in Accounts, NEW side \in Sides, NEW qty \in Nat, Good(m), Halls
  PROVE  ReducedQuantity(a, m, side, qty) \in Int
<1> DEFINE pos == get_complete_base_pos(a, m)
           size == IF pos < 0 THEN -pos ELSE pos
           left == size - perp[a][m].on_orders[side]
<1>1. pos \in Int BY CompletePos
<1>2. perp[a][m].on_orders[side] \in Int
  <2>1. perp \in Perps BY GoodParts
  <2> QED BY <2>1, PerpParts
<1> HIDE DEF pos
<1>3. size \in Int /\ left \in Int /\ qty \in Int BY <1>1, <1>2
<1> HIDE DEF size, left
<1>4. Min({left, qty}) \in Int /\ Min({size, qty}) \in Int BY <1>3, MinTwo
<1>5. Max({0, Min({left, qty})}) \in Int
  <2> DEFINE k == Min({left, qty})
             z == 0
  <2>1. k \in Int /\ z \in Int BY <1>4
  <2> HIDE DEF k, z
  <2>2. Max({z, k}) \in Int BY <2>1, MinTwo
  <2> QED BY <2>2 DEF k, z
<1>6. ReducedQuantity(a, m, side, qty) \in {0, Max({0, Min({left, qty})}), Min({size, qty})}
  BY DEF ReducedQuantity, pos, size, left
<1> QED BY <1>4, <1>5, <1>6

(* A referral is to nobody or to an account, at some rate.                 *)
LEMMA RefTypes ==
  ASSUME NEW a, NEW ref \in RefVars(a)
  PROVE  ref.rate \in Int /\ (ref.to = Nobody \/ ref.to \in Accounts)
<1>1. RefShares \subseteq Int /\ RefSurcharges \subseteq Int BY PerpAssumption
<1>2. CASE ref \in {[rate |-> r, to |-> Nobody] : r \in {0} \cup RefSurcharges} BY <1>1, <1>2
<1>3. CASE ref \in {[rate |-> r, to |-> x] : r \in RefShares, x \in {y \in Accounts \ {a} : ~being_liquidated[y]}}
  BY <1>1, <1>3
<1> QED BY <1>2, <1>3 DEF RefVars

(* Placing an order. *)
LEMMA PlaceInv ==
  ASSUME Inv, NEW a \in Accounts, NEW m \in Markets, NEW side \in Sides, NEW price \in Int, NEW qty \in Nat,
         NEW quote \in Nat, NEW type, NEW reduce_only, NEW expiry \in Int, NEW limit \in Int, NEW cid \in ClientIds,
         PlaceOrder(a, m, side, price, qty, quote, type, reduce_only, expiry, limit, cid)
  PROVE  Inv'
<1> DEFINE base == IF reduce_only THEN ReducedQuantity(a, m, side, qty) ELSE qty
<1>0. Good(m) /\ Halls /\ now \in Int BY DEF Inv
<1>1. base \in Int
  <2>1. ReducedQuantity(a, m, side, qty) \in Int BY <1>0, ReducedInt
  <2>2. qty \in Int OBVIOUS
  <2> QED BY <2>1, <2>2
<1>2. now' \in Int BY <1>0 DEF PlaceOrder
<1>3. \/ UNCHANGED <<book, queue, market, perp, slots>>
      \/ /\ base > 0
         /\ \E oracle \in OraclePrices, ref \in RefVars(a) :
              new_order(a, m, side, price, base, quote, type, expiry, limit, cid, oracle, ref)
  BY DEF PlaceOrder
<1> HIDE DEF base
<1>4. CASE UNCHANGED <<book, queue, market, perp, slots>> BY <1>2, <1>4, SameInv
<1>5. CASE /\ base > 0
           /\ \E oracle \in OraclePrices, ref \in RefVars(a) :
                new_order(a, m, side, price, base, quote, type, expiry, limit, cid, oracle, ref)
  <2>1. base \in Nat /\ base > 0 BY <1>1, <1>5
  <2>2. PICK oracle \in OraclePrices, ref \in RefVars(a) :
               new_order(a, m, side, price, base, quote, type, expiry, limit, cid, oracle, ref)
    BY <1>5
  <2>3. ref.rate \in Int /\ (ref.to = Nobody \/ ref.to \in Accounts) BY RefTypes
  <2>4. Halls' /\ Good(m)' /\ Only(m) BY <1>0, <2>1, <2>2, <2>3, NewOrderGood
  <2> QED BY <1>2, <2>4, StepInv
<1> QED BY <1>3, <1>4, <1>5

(* An expiry is a time.                                                    *)
LEMMA ExpiryInt ==
  ASSUME NEW expiry \in UNION ({AbsoluteExpiry(ts) : ts \in AbsoluteExpiries}
                                 \cup {RelativeExpiry(tif) : tif \in RelativeExpiries}),
         now \in Int
  PROVE  expiry \in Int
<1>1. AbsoluteExpiries \subseteq Int /\ RelativeExpiries \subseteq Int /\ MaxTif \in Nat BY InputAssumption
<1>2. NoExpiry \in Int BY BookAssumption
<1>3. ASSUME NEW ts \in AbsoluteExpiries, expiry \in AbsoluteExpiry(ts) PROVE expiry \in Int
  <2>1. ts \in Int /\ now + MaxTif \in Int BY <1>1
  <2>2. Min({ts, now + MaxTif}) \in Int
    <3> DEFINE k == now + MaxTif
    <3> HIDE DEF k
    <3>1. k \in Int BY <2>1 DEF k
    <3>2. Min({ts, k}) \in Int BY <2>1, <3>1, MinTwo
    <3> QED BY <3>2 DEF k
  <2> QED BY <1>2, <1>3, <2>2 DEF AbsoluteExpiry
<1>4. ASSUME NEW tif \in RelativeExpiries, expiry \in RelativeExpiry(tif) PROVE expiry \in Int
  BY <1>1, <1>4 DEF RelativeExpiry
<1> QED BY <1>3, <1>4

(* place_perp_order keeps the invariant.                                   *)
LEMMA PlacePerpInv ==
  ASSUME Inv, NEW a \in Accounts, NEW m \in Markets, place_perp_order(a, m)
  PROVE  Inv'
<1>1. Prices \subseteq Int /\ Quantities \subseteq Nat BY InputAssumption
<1>2. NoExpiry \in Int /\ Unbounded \in Nat /\ Unbounded \in Int /\ MaxFills \in Int BY BookAssumption, PerpAssumption
<1>3. PICK side \in Sides, price \in Prices, qty \in Quantities, type \in OrderTypes,
           reduce_only \in ReduceOnly, cid \in ClientIds :
        PlaceOrder(a, m, side, price, qty, Unbounded, type, reduce_only, NoExpiry, MaxFills, cid)
  BY DEF place_perp_order
<1>4. price \in Int /\ qty \in Nat BY <1>1
<1> QED BY <1>2, <1>3, <1>4, PlaceInv

(* place_perp_order2 keeps the invariant.                                  *)
LEMMA PlacePerp2Inv ==
  ASSUME Inv, NEW a \in Accounts, NEW m \in Markets, place_perp_order2(a, m)
  PROVE  Inv'
<1>1. Prices \subseteq Int /\ Quantities \subseteq Nat /\ MaxQuotes \subseteq Nat /\ MatchLimits \subseteq Nat
  BY InputAssumption
<1>3. PICK side \in Sides, price \in Prices, qty \in Quantities, quote \in MaxQuotes,
     type \in OrderTypes, reduce_only \in ReduceOnly, limit \in MatchLimits,
     cid \in ClientIds,
     expiry \in UNION ({AbsoluteExpiry(ts) : ts \in AbsoluteExpiries}
                         \cup {RelativeExpiry(tif) : tif \in RelativeExpiries}) :
    PlaceOrder(a, m, side, price, qty, quote, type, reduce_only, expiry, limit, cid)
  BY DEF place_perp_order2
<1>4. price \in Int /\ qty \in Nat /\ quote \in Nat /\ limit \in Int BY <1>1
<1>5. expiry \in Int BY ExpiryInt DEF Inv
<1> QED BY <1>3, <1>4, <1>5, PlaceInv

(* Orders of account a are cancelled: the working copy is committed and    *)
(* the queue stays.                                                        *)
CancelsTo(a, m, w) ==
  /\ Cancelled(m, a, w, Work(m), queue[m], market[m].seq_num, market[m].fees_accrued)
  /\ Commit(m, w) /\ queue' = queue /\ now' = now

Cancels(a, m) == \E w : CancelsTo(a, m, w)

(* Cancelling keeps the invariant.                                         *)
LEMMA CancelInv ==
  ASSUME Inv, NEW m \in Markets, NEW a, NEW w, CancelsTo(a, m, w)
  PROVE  Inv'
<1>1. queue' = [queue EXCEPT ![m] = queue[m]] BY DEF Inv, Halls, CancelsTo
<1>2. Work(m).perp = perp /\ Work(m).slots = slots BY DEF Work
<1>3. /\ State(m, w, queue[m], market[m].seq_num, market[m].fees_accrued)
      /\ Apart(m, perp, w.perp) /\ Foreign(m, slots, w.slots)
  BY <1>2 DEF Cancelled, CancelsTo
<1>4. now' \in Int BY DEF Inv, CancelsTo
<1> QED BY <1>1, <1>3, <1>4, CommitInv DEF CancelsTo

(* cancel_perp_order cancels orders of the account.                        *)
LEMMA CancelSlotCancels ==
  ASSUME Inv, NEW a \in Accounts, NEW m \in Markets, NEW s \in ToSet(SlotsOf(a, m)), CancelSlot(a, m, s)
  PROVE  Cancels(a, m)
<1> DEFINE k == slots[a][s]
           w == CancelOne(Work(m), a, k.side, k)
<1>0. /\ slots \in Tables
      /\ State(m, Work(m), queue[m], market[m].seq_num, market[m].fees_accrued)
  BY DEF Inv, Good
<1>1. Own(m, slots, a, k) BY <1>0, SlotsOfIn, MySlotOwn
<1>2. Commit(m, w) /\ queue' = queue /\ now' = now BY DEF CancelSlot
<1>3. Work(m).slots = slots BY DEF Work
<1>4. Cancelled(m, a, Work(m), Work(m), queue[m], market[m].seq_num, market[m].fees_accrued)
  BY <1>0, ApartSame, ForeignSame, EmptiedSame DEF Cancelled, Smaller
<1>5. Cancelled(m, a, w, Work(m), queue[m], market[m].seq_num, market[m].fees_accrued)
  <2> HIDE DEF k
  <2> QED BY <1>0, <1>1, <1>3, <1>4, CancelOwn
<1> HIDE DEF w
<1> QED BY <1>2, <1>5 DEF Cancels, CancelsTo

(* So does cancel_perp_order_by_client_id.                                 *)
LEMMA CancelByClientCancels ==
  ASSUME Inv, NEW a \in Accounts, NEW m \in Markets, cancel_perp_order_by_client_id(a, m)
  PROVE  Cancels(a, m)
<1>1. PICK cid \in ClientIds :
        LET matching == {s \in ToSet(SlotsOf(a, m)) : slots[a][s].cid = cid}
        IN  matching # {} /\ CancelSlot(a, m, Min(matching))
  BY DEF cancel_perp_order_by_client_id
<1> DEFINE M == {s \in ToSet(SlotsOf(a, m)) : slots[a][s].cid = cid}
<1>2. M # {} /\ CancelSlot(a, m, Min(M)) BY <1>1
<1>3. M \subseteq Slot BY SlotsOfIn DEF MySlots
<1>4. IsFiniteSet(M) /\ M \subseteq Int
  <2> HIDE DEF M
  <2> QED BY <1>3, SlotFinite, FS_Subset
<1>5. Min(M) \in M
  <2> HIDE DEF M
  <2> QED BY <1>2, <1>4, MaxMin
<1>6. Min(M) \in ToSet(SlotsOf(a, m)) BY <1>5
<1> HIDE DEF M
<1> QED BY <1>2, <1>6, CancelSlotCancels

(* So do the instructions that cancel several orders.                      *)
LEMMA CancelAllCancels ==
  ASSUME Inv, NEW a \in Accounts, NEW m \in Markets,
         cancel_all_perp_orders(a, m) \/ cancel_perp_orders_side(a, m) \/ force_cancel_perp_orders(a, m)
  PROVE  Cancels(a, m)
<1>0. State(m, Work(m), queue[m], market[m].seq_num, market[m].fees_accrued) BY DEF Inv, Good
<1>1. CancelLimits \subseteq Nat BY InputAssumption
<1>2. CASE cancel_all_perp_orders(a, m)
  <2>1. PICK limit \in CancelLimits :
          Commit(m, IF Version = 0 THEN CancelSlotsByPrice(a, m, limit)
                    ELSE CancelSidesBySize(a, m, Sides, limit))
    BY <1>2 DEF cancel_all_perp_orders
  <2>2. limit \in Nat /\ queue' = queue /\ now' = now BY <1>1, <1>2 DEF cancel_all_perp_orders
  <2>3. CASE Version = 0
    <3>1. Commit(m, CancelSlotsByPrice(a, m, limit)) BY <2>1, <2>3
    <3>2. Cancelled(m, a, CancelSlotsByPrice(a, m, limit), Work(m), queue[m], market[m].seq_num, market[m].fees_accrued)
      BY <1>0, <2>2, CancelSlotsState
    <3> QED BY <2>2, <3>1, <3>2 DEF Cancels, CancelsTo
  <2>4. CASE Version # 0
    <3>1. Commit(m, CancelSidesBySize(a, m, Sides, limit)) BY <2>1, <2>4
    <3>2. Cancelled(m, a, CancelSidesBySize(a, m, Sides, limit), Work(m), queue[m], market[m].seq_num, market[m].fees_accrued)
      BY <1>0, <2>2, SizeState
    <3> QED BY <2>2, <3>1, <3>2 DEF Cancels, CancelsTo
  <2> QED BY <2>3, <2>4
<1>3. CASE cancel_perp_orders_side(a, m)
  <2>1. PICK limit \in CancelLimits, side \in Sides : Commit(m, CancelSidesBySize(a, m, {side}, limit))
    BY <1>3 DEF cancel_perp_orders_side
  <2>2. limit \in Nat /\ queue' = queue /\ now' = now BY <1>1, <1>3 DEF cancel_perp_orders_side
  <2>3. Cancelled(m, a, CancelSidesBySize(a, m, {side}, limit), Work(m), queue[m], market[m].seq_num, market[m].fees_accrued)
    BY <1>0, <2>2, SizeState
  <2> QED BY <2>1, <2>2, <2>3 DEF Cancels, CancelsTo
<1>4. CASE force_cancel_perp_orders(a, m)
  <2>1. PICK limit \in CancelLimits : Commit(m, CancelSlots(a, m, limit))
    BY <1>4 DEF force_cancel_perp_orders
  <2>2. limit \in Nat /\ queue' = queue /\ now' = now BY <1>1, <1>4 DEF force_cancel_perp_orders
  <2>3. Cancelled(m, a, CancelSlots(a, m, limit), Work(m), queue[m], market[m].seq_num, market[m].fees_accrued)
    BY <1>0, <2>2, CancelSlotsState
  <2> QED BY <2>1, <2>2, <2>3 DEF Cancels, CancelsTo
<1> QED BY <1>2, <1>3, <1>4

(* The five cancelling instructions. *)
CancelStepOf(a, m) ==
  \/ cancel_perp_order(a, m) \/ cancel_perp_order_by_client_id(a, m) \/ cancel_all_perp_orders(a, m)
  \/ cancel_perp_orders_side(a, m) \/ force_cancel_perp_orders(a, m)

(* Each cancels orders of its account and does nothing else to the slots.  *)
LEMMA CancelStepCancels ==
  ASSUME Inv, NEW a \in Accounts, NEW m \in Markets, CancelStepOf(a, m)
  PROVE  Cancels(a, m)
<1>1. CASE cancel_perp_order(a, m)
  <2>1. PICK s \in ToSet(SlotsOf(a, m)) : CancelSlot(a, m, s) BY <1>1 DEF cancel_perp_order
  <2> QED BY <2>1, CancelSlotCancels
<1>2. CASE cancel_perp_order_by_client_id(a, m) BY <1>2, CancelByClientCancels
<1>3. CASE cancel_all_perp_orders(a, m) \/ cancel_perp_orders_side(a, m) \/ force_cancel_perp_orders(a, m)
  BY <1>3, CancelAllCancels
<1> QED BY <1>1, <1>2, <1>3 DEF CancelStepOf

(* The keeper's crank. *)
LEMMA ConsumedIn ==
  ASSUME NEW m \in Markets, queue[m] \in Seq(EventSet), NEW limit \in Nat, NEW passed
  PROVE  Consumed(m, limit, passed) \in 0..Len(queue[m])
<1> DEFINE k == Min({limit, Len(queue[m])})
           S == {n \in 0..k : \A i \in 1..n : Parties(queue[m][i]) \subseteq passed}
<1>1. Len(queue[m]) \in Nat BY LenProperties
<1>2. k \in Nat /\ k <= Len(queue[m])
  <2> DEFINE l == Len(queue[m])
  <2>1. l \in Int /\ limit \in Int BY <1>1
  <2> HIDE DEF l
  <2>2. Min({limit, l}) = (IF limit <= l THEN limit ELSE l) BY <2>1, MinTwo
  <2> QED BY <1>1, <2>1, <2>2 DEF l
<1> HIDE DEF k
<1>3. IsFiniteSet(0..k)
  <2>1. 0 \in Int /\ k \in Int BY <1>2
  <2> QED BY <2>1, FS_Interval
<1>4. S \subseteq 0..k /\ S \subseteq Int BY <1>2
<1>5. 0 \in S BY <1>2
<1>6. Consumed(m, limit, passed) = Max(S) BY DEF Consumed, k
<1> HIDE DEF S
<1>7. IsFiniteSet(S) BY <1>3, <1>4, FS_Subset
<1>8. Max(S) \in S BY <1>4, <1>5, <1>7, MaxMin
<1> DEFINE c == Max(S)
<1>9. c \in 0..k BY <1>4, <1>8
<1> HIDE DEF c
<1>10. c \in 0..Len(queue[m]) BY <1>1, <1>2, <1>9
<1> QED BY <1>6, <1>10 DEF c

(* The first n events of m are consumed: w is committed. *)
CranksTo(m, n, w) ==
  /\ n \in 0..Len(queue[m])
  /\ Reached(m, w, Work(m), queue[m], n, market[m].seq_num, market[m].fees_accrued)
  /\ Commit(m, w) /\ queue' = [queue EXCEPT ![m] = Drop(queue[m], n)] /\ now' = now

(* consume_events consumes some events from the front.                     *)
LEMMA ConsumeCranks ==
  ASSUME Inv, NEW m \in Markets, NEW limit \in ConsumeLimits, NEW passed, consume_events(m, limit, passed)
  PROVE  \E n, w : CranksTo(m, n, w)
<1> DEFINE n == Consumed(m, limit, passed)
           w == AfterEvents(m, n)
<1>0. /\ State(m, Work(m), queue[m], market[m].seq_num, market[m].fees_accrued)
      /\ queue[m] \in Seq(EventSet) /\ market[m].funding \in Int /\ now \in Int
  BY DEF Inv, Good, Halls, MarketSet
<1>1. limit \in Nat BY InputAssumption
<1>2. n \in 0..Len(queue[m]) BY <1>0, <1>1, ConsumedIn
<1>3. Commit(m, w) /\ queue' = [queue EXCEPT ![m] = SubSeq(@, n + 1, Len(@))] /\ now' = now
  BY DEF consume_events
<1> HIDE DEF n
<1>4. Reached(m, w, Work(m), queue[m], n, market[m].seq_num, market[m].fees_accrued)
  BY <1>0, <1>2, AfterReached
<1>5. queue' = [queue EXCEPT ![m] = Drop(queue[m], n)] BY <1>3 DEF Drop, Inv, Halls
<1> HIDE DEF w
<1> QED BY <1>2, <1>3, <1>4, <1>5 DEF CranksTo

(* consume_events keeps the invariant.                                     *)
LEMMA ConsumeInv ==
  ASSUME Inv, NEW m \in Markets, NEW limit \in ConsumeLimits, NEW passed, consume_events(m, limit, passed)
  PROVE  Inv'
<1>1. PICK n, w : CranksTo(m, n, w) BY ConsumeCranks
<1>2. Work(m).perp = perp /\ Work(m).slots = slots BY DEF Work
<1>3. /\ State(m, w, Drop(queue[m], n), market[m].seq_num, market[m].fees_accrued)
      /\ Apart(m, perp, w.perp) /\ Foreign(m, slots, w.slots)
  BY <1>1, <1>2 DEF Reached, CranksTo
<1>4. Commit(m, w) /\ queue' = [queue EXCEPT ![m] = Drop(queue[m], n)] /\ now' \in Int
  BY <1>1 DEF CranksTo, Inv
<1> QED BY <1>3, <1>4, CommitInv

(* The keeper's other instructions and the admin's change only funding, times and the mode. *)
LEMMA KeeperInv ==
  ASSUME Inv, NEW m \in Markets,
         update_funding(m) \/ cache_perp_markets(m) \/ (\E mode \in ModeChanges : set_market_mode(m, mode))
  PROVE  Inv'
<1>1. market \in [Markets -> MarketSet] /\ now \in Int BY DEF Inv, Halls
<1>2. market[m] \in MarketSet BY <1>1
<1>3. \E mk \in MarketSet :
        /\ mk.seq_num = market[m].seq_num /\ mk.fees_accrued = market[m].fees_accrued
        /\ mk.open_interest = market[m].open_interest /\ market' = [market EXCEPT ![m] = mk]
  <2> DEFINE k == market[m]
  <2>0. k \in MarketSet BY <1>2
  <2>1. CASE update_funding(m)
    <3> DEFINE rates == IF HasImpact(m, "bid") /\ HasImpact(m, "ask") THEN {-1, 0, 1}
                        ELSE IF HasImpact(m, "bid") THEN {1}
                        ELSE IF HasImpact(m, "ask") THEN {-1} ELSE {0}
               dt == now - k.last_updated
    <3>1. PICK r \in rates : market' = [market EXCEPT ![m].funding = @ + r * dt, ![m].last_updated = now,
                                                     ![m].cached_at = now]
      BY <2>1 DEF update_funding
    <3>2. r = -1 \/ r = 0 \/ r = 1 OBVIOUS
    <3>3. dt \in Int /\ k.funding \in Int BY <1>1, <2>0 DEF MarketSet
    <3> HIDE DEF dt
    <3>4. k.funding + r * dt \in Int BY <3>2, <3>3
    <3> DEFINE f == k.funding + r * dt
               mk == [k EXCEPT !.funding = f, !.last_updated = now, !.cached_at = now]
    <3>5. market' = [market EXCEPT ![m] = mk] BY <1>1, <3>1
    <3> HIDE DEF f
    <3>6. /\ mk \in MarketSet /\ mk.seq_num = k.seq_num /\ mk.fees_accrued = k.fees_accrued
          /\ mk.open_interest = k.open_interest
      BY <1>1, <2>0, <3>4 DEF MarketSet, f
    <3> HIDE DEF mk
    <3> QED BY <3>5, <3>6
  <2>2. CASE cache_perp_markets(m)
    <3> DEFINE mk == [k EXCEPT !.cached_at = now]
    <3>1. market' = [market EXCEPT ![m] = mk] BY <1>1, <2>2 DEF cache_perp_markets
    <3>2. /\ mk \in MarketSet /\ mk.seq_num = k.seq_num /\ mk.fees_accrued = k.fees_accrued
          /\ mk.open_interest = k.open_interest
      BY <1>1, <2>0 DEF MarketSet
    <3> HIDE DEF mk
    <3> QED BY <3>1, <3>2
  <2>3. CASE \E mode \in ModeChanges : set_market_mode(m, mode)
    <3>1. PICK mode \in ModeChanges : set_market_mode(m, mode) BY <2>3
    <3>2. mode \in Modes BY <3>1 DEF set_market_mode, Modes
    <3> DEFINE mk == [k EXCEPT !.mode = mode]
    <3>3. market' = [market EXCEPT ![m] = mk] BY <1>1, <3>1 DEF set_market_mode
    <3>4. /\ mk \in MarketSet /\ mk.seq_num = k.seq_num /\ mk.fees_accrued = k.fees_accrued
          /\ mk.open_interest = k.open_interest
      BY <2>0, <3>2 DEF MarketSet
    <3> HIDE DEF mk
    <3> QED BY <3>3, <3>4
  <2> QED BY <2>1, <2>2, <2>3
<1>4. PICK mk \in MarketSet :
        /\ mk.seq_num = market[m].seq_num /\ mk.fees_accrued = market[m].fees_accrued
        /\ mk.open_interest = market[m].open_interest /\ market' = [market EXCEPT ![m] = mk]
  BY <1>3
<1>7. market' \in [Markets -> MarketSet] BY <1>1, <1>4
<1>8. \A n \in Markets : /\ market'[n].seq_num = market[n].seq_num
                         /\ market'[n].fees_accrued = market[n].fees_accrued
                         /\ market'[n].open_interest = market[n].open_interest
  BY <1>1, <1>4
<1>9. UNCHANGED <<book, queue, perp, slots>> /\ now' = now
  BY DEF update_funding, cache_perp_markets, set_market_mode
<1> QED BY <1>1, <1>7, <1>8, <1>9, MarketInv

(* Every step keeps the invariant. *)
LEMMA NextInv ==
  ASSUME Inv, [Next]_vars
  PROVE  Inv'
<1>0. now \in Int BY DEF Inv
<1>1. CASE \E a \in Accounts, m \in Markets : place_perp_order(a, m) BY <1>1, PlacePerpInv
<1>2. CASE \E a \in Accounts, m \in Markets : place_perp_order2(a, m) BY <1>2, PlacePerp2Inv
<1>3. CASE \E a \in Accounts, m \in Markets : CancelStepOf(a, m)
  <2>1. PICK a \in Accounts, m \in Markets : CancelStepOf(a, m) BY <1>3
  <2>2. PICK w : CancelsTo(a, m, w) BY <2>1, CancelStepCancels DEF Cancels
  <2> QED BY <2>2, CancelInv
<1>6. CASE \E a \in Accounts, m \in Markets : force_cancel_recovered(a, m)
  <2>1. UNCHANGED <<book, queue, market, perp, slots>> /\ now' = now BY <1>6 DEF force_cancel_recovered
  <2> QED BY <1>0, <2>1, SameInv
<1>7. CASE \E m \in Markets, limit \in ConsumeLimits, passed \in SUBSET Accounts : consume_events(m, limit, passed)
  BY <1>7, ConsumeInv
<1>8. CASE \E m \in Markets :
             update_funding(m) \/ cache_perp_markets(m) \/ (\E mode \in ModeChanges : set_market_mode(m, mode))
  BY <1>8, KeeperInv
<1>9. CASE Tick
  <2>1. UNCHANGED <<book, queue, market, perp, slots>> /\ now' \in Int BY <1>0, <1>9 DEF Tick
  <2> QED BY <2>1, SameInv
<1>10. CASE UNCHANGED vars
  <2>1. UNCHANGED <<book, queue, market, perp, slots>> /\ now' \in Int BY <1>0, <1>10 DEF vars
  <2> QED BY <2>1, SameInv
<1> QED BY <1>1, <1>2, <1>3, <1>6, <1>7, <1>8, <1>9, <1>10 DEF Next, CancelStepOf

-----------------------------------------------------------------------------
(***************************************************************************)
(* The initial states, and the invariant as a theorem.                     *)
(***************************************************************************)

(* A desk on which nothing has happened. *)
LEMMA EmptyDesk ==
  ASSUME NEW m, NEW bk, bk = [s \in Sides |-> {}], NEW sl \in Tables,
         \A a \in Accounts, s \in Slot : sl[a][s] = Free
  PROVE  Desk(m, bk, <<>>, sl, 0)
<1>1. bk \in Books /\ <<>> \in Seq(EventSet) /\ 0 \in Nat /\ Len(<<>>) = 0 BY DEF Books
<1>2. \A side \in Sides : bk[side] = {} OBVIOUS
<1>3. \A side \in Sides : Keyed(bk[side])
  <2>1. IsFiniteSet({}) BY FS_EmptySet
  <2> QED BY <1>2, <2>1 DEF Keyed
<1>4. Numbered(m, sl, 0) BY DEF Numbered, Mine
<1>5. Listed(m, bk, sl) BY <1>2 DEF Listed
<1>6. Waiting(m, <<>>, sl) /\ Once(<<>>) /\ Gone(bk, <<>>) BY <1>1 DEF Waiting, Once, Gone
<1>7. Found(m, bk, <<>>, sl) BY DEF Found, Mine
<1> QED BY <1>1, <1>3, <1>4, <1>5, <1>6, <1>7 DEF Desk

(* The initial positions add up. *)
LEMMA InitSums ==
  ASSUME NEW m \in Markets, Init
  PROVE  /\ perp \in Perps
         /\ BaseSum(m, perp) = 0 /\ SizeSum(m, perp) = market[m].open_interest /\ WorthSum(m, perp) = 0
<1>1. perp = [a \in Accounts |-> [n \in Markets |->
        [base |-> InitBase[a], quote |-> 0, settled |-> 0, taker_base |-> 0,
         taker_quote |-> 0, on_orders |-> [s \in Sides |-> 0]]]]
  BY DEF Init
<1>2. InitBase \in [Accounts -> Int] /\ IsFiniteSet(Accounts) BY PerpAssumption
<1>3. perp \in Perps BY <1>1, <1>2 DEF Perps, PerpSet
<1>4. \A a \in Accounts : perp[a][m].base = InitBase[a] /\ perp[a][m].quote = 0 /\ perp[a][m].settled = 0
  BY <1>1
<1>5. BaseSum(m, perp) = 0
  <2>1. [a \in Accounts |-> perp[a][m].base] = [a \in Accounts |-> InitBase[a]] BY <1>4
  <2>2. SumFunctionOnSet([a \in Accounts |-> InitBase[a]], Accounts) = 0 BY PerpAssumption DEF SumOver
  <2> QED BY <2>1, <2>2 DEF BaseSum
<1>6. SizeSum(m, perp) = market[m].open_interest
  <2>1. [a \in Accounts |-> Abs(perp[a][m].base)] = [a \in Accounts |-> Abs(InitBase[a])] BY <1>4
  <2>2. market[m].open_interest = SumFunctionOnSet([a \in Accounts |-> Abs(InitBase[a])], Accounts)
    BY DEF Init, SumOver
  <2> QED BY <2>1, <2>2 DEF SizeSum
<1>7. WorthSum(m, perp) = 0
  <2> DEFINE F == [a \in Accounts |-> Worth(perp[a][m])]
  <2>1. \A a \in Accounts : F[a] = 0 BY <1>2, <1>4 DEF Worth
  <2> HIDE DEF F
  <2>2. SumFunctionOnSet(F, Accounts) = 0 BY <1>2, <2>1, SumZero
  <2> QED BY <2>2 DEF WorthSum, F
<1> QED BY <1>3, <1>5, <1>6, <1>7

(* The initial states satisfy the invariant.                               *)
LEMMA InitInv == Init => Inv
<1> SUFFICES ASSUME Init PROVE Inv OBVIOUS
<1>1. \A m \in Markets : /\ book[m] = [s \in Sides |-> {}] /\ queue[m] = <<>>
                         /\ market[m].seq_num = 0 /\ market[m].fees_accrued = 0
  BY DEF Init
<1>2. \A a \in Accounts, s \in Slot : slots[a][s] = Free BY DEF Init
<1>3. slots \in Tables /\ now \in Int BY DEF Init, Tables
<1>4. perp \in Perps
  <2>1. perp = [a \in Accounts |-> [n \in Markets |->
          [base |-> InitBase[a], quote |-> 0, settled |-> 0, taker_base |-> 0,
           taker_quote |-> 0, on_orders |-> [s \in Sides |-> 0]]]]
    BY DEF Init
  <2>2. InitBase \in [Accounts -> Int] BY PerpAssumption
  <2> QED BY <2>1, <2>2 DEF Perps, PerpSet
<1>5. SumOver(Accounts, LAMBDA a : Abs(InitBase[a])) \in Int
  <2> DEFINE F == [a \in Accounts |-> Abs(InitBase[a])]
  <2>1. \A a \in Accounts : F[a] \in Int BY PerpAssumption DEF Abs
  <2> HIDE DEF F
  <2>2. SumFunctionOnSet(F, Accounts) \in Int BY <2>1, SumInt, PerpAssumption
  <2> QED BY <2>2 DEF SumOver, F
<1>6. Halls
  <2>1. book \in [Markets -> Books] BY DEF Init, Books
  <2>2. queue \in [Markets -> Seq(EventSet)] BY DEF Init
  <2>3. market \in [Markets -> MarketSet]
    <3> DEFINE oi == SumOver(Accounts, LAMBDA a : Abs(InitBase[a]))
    <3>1. market = [m \in Markets |->
             [seq_num |-> 0, fees_accrued |-> 0, funding |-> 0, last_updated |-> 0, cached_at |-> 0,
              mode |-> InitMode, open_interest |-> oi]]
      BY DEF Init
    <3>2. oi \in Int BY <1>5
    <3> HIDE DEF oi
    <3>3. InitMode \in Modes BY PerpAssumption
    <3> QED BY <3>1, <3>2, <3>3 DEF MarketSet
  <2> QED BY <2>1, <2>2, <2>3 DEF Halls
<1>7. ASSUME NEW m \in Markets PROVE Good(m)
  <2>1. Desk(m, book[m], <<>>, slots, 0) BY <1>1, <1>2, <1>3, EmptyDesk
  <2>2. \A a \in Accounts : /\ perp[a][m].taker_base = 0 /\ perp[a][m].taker_quote = 0
                            /\ \A d \in Sides : perp[a][m].on_orders[d] = 0
    BY DEF Init
  <2>3. \A F : QSum(F, <<>>) = 0 BY QSumEmpty
  <2>4. \A a : OSum({}, a) = 0 BY OSumEmpty
  <2>5. Pending(m, <<>>, perp) BY <2>2, <2>3 DEF Pending
  <2>6. \A d \in Sides : book[m][d] = {} BY <1>1
  <2>7. Counts(m, book[m], <<>>, perp)
    <3> SUFFICES ASSUME NEW a \in Accounts, NEW d \in Sides
                 PROVE  perp[a][m].on_orders[d] = OSum(book[m][d], a) + QSum(OnOrder(a, d), <<>>)
      BY DEF Counts
    <3>1. OSum(book[m][d], a) = 0 BY <2>4, <2>6
    <3>2. QSum(OnOrder(a, d), <<>>) = 0 BY QSumEmpty
    <3> QED BY <2>2, <3>1, <3>2
  <2>8. BaseSum(m, perp) = 0 /\ SizeSum(m, perp) = market[m].open_interest /\ WorthSum(m, perp) = 0
    BY InitSums
  <2>9. WorthSum(m, perp) + 0 = MakerFee * QSum(Turnover, <<>>)
    <3>1. MakerFee * 0 = 0 BY PerpAssumption
    <3> QED BY <2>3, <2>8, <3>1
  <2>10. /\ Work(m) \in Works /\ Work(m).book = book[m] /\ Work(m).perp = perp /\ Work(m).slots = slots
         /\ Work(m).open_interest = market[m].open_interest
    BY <1>3, <1>4, <1>6 DEF Work, Works, Halls, MarketSet
  <2>11. State(m, Work(m), <<>>, 0, 0) BY <2>1, <2>5, <2>7, <2>8, <2>9, <2>10 DEF State
  <2> QED BY <1>1, <2>11 DEF Good
<1> QED BY <1>3, <1>4, <1>6, <1>7 DEF Inv

(* The invariant of the perp markets: every account is well formed, and in *)
(* each market the book, the event queue, the order slots and the          *)
(* positions agree.                                                        *)
THEOREM MarketsInv == Spec => []Inv
<1>1. Inv /\ [Next]_vars => Inv' BY NextInv
<1> QED BY InitInv, <1>1, PTL DEF Spec

-----------------------------------------------------------------------------
(***************************************************************************)
(* What the invariant says: the properties the runs check.                 *)
(***************************************************************************)

(* A sum over some events of a queue: those that have no part in it weigh nothing. *)
LEMMA PartSum ==
  ASSUME NEW F \in Weight, NEW q \in Seq(EventSet), NEW T, T \subseteq DOMAIN q,
         \A i \in DOMAIN q : i \notin T => F[q[i]] = 0,
         NEW G, \A i \in T : G[i] = F[q[i]]
  PROVE  SumFunctionOnSet(G, T) = QSum(F, q)
<1> DEFINE S == 1..Len(q)
           H == [i \in S |-> F[q[i]]]
<1>1. Len(q) \in Nat /\ DOMAIN q = S /\ \A i \in S : q[i] \in EventSet BY LenProperties, ElementOfSeq
<1>2. IsFiniteSet(S)
  <2>1. 1 \in Int /\ Len(q) \in Int BY <1>1
  <2> QED BY <2>1, FS_Interval
<1>3. T \in SUBSET S BY <1>1
<1>4. \A i \in S : H[i] \in Int BY <1>1 DEF Weight
<1>5. \A i \in S \ T : H[i] = 0 BY <1>1
<1>6. \A i \in T : H[i] = G[i] BY <1>3
<1> HIDE DEF H, S
<1>7. SumFunctionOnSet(H, S) = SumFunctionOnSet(H, T) BY <1>2, <1>3, <1>4, <1>5, SumSupport
<1>8. IsFiniteSet(T) BY <1>2, <1>3, FS_Subset
<1>9. SumFunctionOnSet(H, T) = SumFunctionOnSet(G, T) BY <1>6, <1>8, SumCongr
<1> QED BY <1>7, <1>9 DEF QSum, H, S

(* The same for the orders of one account. *)
LEMMA PartOrders ==
  ASSUME NEW S, IsFiniteSet(S), S \subseteq OrderSet, NEW a
  PROVE  SumOver({o \in S : o.owner = a}, LAMBDA o : o.qty) = OSum(S, a)
<1> DEFINE T == {o \in S : o.owner = a}
           H == [o \in S |-> Share(o, a)]
           G == [o \in T |-> o.qty]
<1>1. T \in SUBSET S OBVIOUS
<1>2. \A o \in S : H[o] \in Int BY ShareInt
<1>3. \A o \in S \ T : H[o] = 0 BY DEF Share
<1>4. \A o \in T : H[o] = G[o] BY DEF Share
<1>5. SumOver(T, LAMBDA o : o.qty) = SumFunctionOnSet(G, T) BY DEF SumOver
<1> HIDE DEF G, H, T
<1>6. SumFunctionOnSet(H, S) = SumFunctionOnSet(H, T) BY <1>1, <1>2, <1>3, SumSupport
<1>7. IsFiniteSet(T) BY <1>1, FS_Subset
<1>8. SumFunctionOnSet(H, T) = SumFunctionOnSet(G, T) BY <1>4, <1>7, SumCongr
<1>9. SumOver(T, LAMBDA o : o.qty) = OSum(S, a) BY <1>5, <1>6, <1>8 DEF OSum, H
<1> QED BY <1>9 DEF T

(* The invariant says what bids_quantity and asks_quantity count.          *)
LEMMA InvOnOrders == Inv => OnOrdersExact
<1> SUFFICES ASSUME Inv, NEW a \in Accounts, NEW m \in Markets, NEW side \in Sides
             PROVE  perp[a][m].on_orders[side] =
                      SumOver({o \in book[m][side] : o.owner = a}, LAMBDA o : o.qty)
                      + SumOver({i \in DOMAIN queue[m] :
                                   LET e == queue[m][i]
                                   IN  \/ e.type = "out" /\ e.owner = a /\ e.side = side
                                       \/ e.type = "fill" /\ e.maker = a /\ e.taker_side # side},
                                LAMBDA i : queue[m][i].qty)
  BY DEF OnOrdersExact
<1>1. Desk(m, book[m], queue[m], slots, market[m].seq_num) /\ Counts(m, book[m], queue[m], perp)
  BY DEF Inv, Good, State, Work
<1>2. IsFiniteSet(book[m][side]) /\ book[m][side] \subseteq OrderSet /\ queue[m] \in Seq(EventSet)
  BY <1>1, CountInts
<1>3. perp[a][m].on_orders[side] = OSum(book[m][side], a) + QSum(OnOrder(a, side), queue[m])
  BY <1>1 DEF Counts
<1>4. SumOver({o \in book[m][side] : o.owner = a}, LAMBDA o : o.qty) = OSum(book[m][side], a)
  BY <1>2, PartOrders
<1> DEFINE q == queue[m]
           T == {i \in DOMAIN q : LET e == q[i]
                                  IN  \/ e.type = "out" /\ e.owner = a /\ e.side = side
                                      \/ e.type = "fill" /\ e.maker = a /\ e.taker_side # side}
           G == [i \in T |-> q[i].qty]
<1>5. ASSUME NEW i \in DOMAIN q
      PROVE  OnOrder(a, side)[q[i]] = IF i \in T THEN q[i].qty ELSE 0
  <2>1. q[i] \in EventSet BY <1>2, LenProperties, ElementOfSeq
  <2>2. OnOrder(a, side)[q[i]] = IF Who(q[i]) = a /\ SideOf(q[i]) = side THEN q[i].qty ELSE 0
    BY <2>1 DEF OnOrder
  <2>3. (Who(q[i]) = a /\ SideOf(q[i]) = side)
          <=> (\/ q[i].type = "out" /\ q[i].owner = a /\ q[i].side = side
               \/ q[i].type = "fill" /\ q[i].maker = a /\ q[i].taker_side # side)
    <3> DEFINE e == q[i]
    <3>1. e \in OutSet \/ e \in FillSet BY <2>1 DEF EventSet
    <3> HIDE DEF e
    <3>2. CASE e \in OutSet BY <3>2 DEF OutSet, Who, SideOf, e
    <3>3. CASE e \in FillSet
      <4>1. e.type = "fill" /\ e.taker_side \in Sides BY <3>3 DEF FillSet
      <4>2. invert_side(e.taker_side) = side <=> e.taker_side # side BY <4>1 DEF invert_side, Sides
      <4> QED BY <4>1, <4>2 DEF Who, SideOf, e
    <3> QED BY <3>1, <3>2, <3>3
  <2> QED BY <2>2, <2>3
<1>6. SumOver(T, LAMBDA i : q[i].qty) = SumFunctionOnSet(G, T) BY DEF SumOver
<1>7. T \subseteq DOMAIN q /\ \A i \in T : G[i] = q[i].qty OBVIOUS
<1> HIDE DEF T, G
<1>8. /\ \A i \in DOMAIN q : i \notin T => OnOrder(a, side)[q[i]] = 0
      /\ \A i \in T : G[i] = OnOrder(a, side)[q[i]]
  BY <1>5, <1>7
<1>9. OnOrder(a, side) \in Weight BY Weights
<1>10. SumFunctionOnSet(G, T) = QSum(OnOrder(a, side), q)
  <2> DEFINE F == OnOrder(a, side)
  <2> HIDE DEF F, q
  <2>1. F \in Weight /\ q \in Seq(EventSet) BY <1>2, <1>9 DEF F, q
  <2>2. /\ \A i \in DOMAIN q : i \notin T => F[q[i]] = 0
        /\ \A i \in T : G[i] = F[q[i]]
    BY <1>8 DEF F
  <2>3. SumFunctionOnSet(G, T) = QSum(F, q) BY <1>7, <2>1, <2>2, PartSum
  <2> QED BY <2>3 DEF F
<1>11. SumOver(T, LAMBDA i : q[i].qty) = QSum(OnOrder(a, side), q) BY <1>6, <1>10
<1> QED BY <1>3, <1>4, <1>11 DEF T

(* The invariant says where the quote is.                                  *)
LEMMA InvQuote == Inv => QuoteConserved
<1> SUFFICES ASSUME Inv, NEW m \in Markets
             PROVE  SumOver(Accounts, LAMBDA a : perp[a][m].quote + perp[a][m].base * perp[a][m].settled)
                      + market[m].fees_accrued
                    = MakerFee * SumOver({i \in DOMAIN queue[m] : queue[m][i].type = "fill"},
                                         LAMBDA i : queue[m][i].qty * queue[m][i].price)
  BY DEF QuoteConserved
<1>1. /\ queue[m] \in Seq(EventSet)
      /\ WorthSum(m, perp) + market[m].fees_accrued = MakerFee * QSum(Turnover, queue[m])
  BY DEF Inv, Good, State, Work, Desk
<1>2. SumOver(Accounts, LAMBDA a : perp[a][m].quote + perp[a][m].base * perp[a][m].settled) = WorthSum(m, perp)
  BY DEF SumOver, WorthSum, Worth
<1> DEFINE q == queue[m]
           T == {i \in DOMAIN q : q[i].type = "fill"}
           G == [i \in T |-> q[i].qty * q[i].price]
<1>3. ASSUME NEW i \in DOMAIN q
      PROVE  Turnover[q[i]] = IF i \in T THEN q[i].qty * q[i].price ELSE 0
  <2>1. q[i] \in EventSet BY <1>1, LenProperties, ElementOfSeq
  <2> QED BY <2>1 DEF Turnover
<1>4. SumOver(T, LAMBDA i : q[i].qty * q[i].price) = SumFunctionOnSet(G, T) BY DEF SumOver
<1>5. T \subseteq DOMAIN q /\ \A i \in T : G[i] = q[i].qty * q[i].price OBVIOUS
<1> HIDE DEF T, G
<1>6. /\ \A i \in DOMAIN q : i \notin T => Turnover[q[i]] = 0
      /\ \A i \in T : G[i] = Turnover[q[i]]
  BY <1>3, <1>5
<1>7. Turnover \in Weight BY Weights
<1>8. SumFunctionOnSet(G, T) = QSum(Turnover, q)
  <2> HIDE DEF q
  <2>1. q \in Seq(EventSet) BY <1>1 DEF q
  <2> QED BY <1>5, <1>6, <1>7, <2>1, PartSum
<1> QED BY <1>1, <1>2, <1>4, <1>8 DEF T

(* The invariant says that longs and shorts balance.                       *)
LEMMA InvPositions == Inv => PositionsBalance
BY DEF Inv, Good, State, Work, PositionsBalance, SumOver, BaseSum, SizeSum

(* The whole queue can be consumed, and leaves nothing pending. *)
LEMMA Drained ==
  ASSUME Inv, NEW m \in Markets
  PROVE  LET w == AfterEvents(m, Len(queue[m]))
         IN  /\ w.ok
             /\ \A a \in Accounts : /\ w.perp[a][m].taker_base = 0 /\ w.perp[a][m].taker_quote = 0
                                    /\ w.perp[a][m].base = get_complete_base_pos(a, m)
<1> DEFINE q == queue[m]
           w == AfterEvents(m, Len(q))
<1>1. Good(m) /\ Halls BY DEF Inv
<1>2. q \in Seq(EventSet) /\ market[m].funding \in Int BY <1>1 DEF Halls, MarketSet
<1>3. Len(q) \in 0..Len(q) BY <1>2, LenProperties
<1>4. Drop(q, Len(q)) = <<>> BY <1>2, DropProps
<1>5. Reached(m, w, Work(m), q, Len(q), market[m].seq_num, market[m].fees_accrued)
  BY <1>1, <1>2, <1>3, AfterReached DEF Good
<1>6. Work(m).ok = TRUE /\ Work(m).perp = perp BY DEF Work
<1> HIDE DEF w
<1>7. /\ State(m, w, <<>>, market[m].seq_num, market[m].fees_accrued) /\ w.ok = TRUE
      /\ \A a \in Accounts : Complete(a, m, w.perp, <<>>) = Complete(a, m, perp, q)
  BY <1>4, <1>5, <1>6 DEF Reached
<1>8. ASSUME NEW a \in Accounts
      PROVE  /\ w.perp[a][m].taker_base = 0 /\ w.perp[a][m].taker_quote = 0
             /\ w.perp[a][m].base = get_complete_base_pos(a, m)
  <2>1. QSum(TakerBase(a), <<>>) = 0 /\ QSum(TakerQuote(a), <<>>) = 0 /\ QSum(MakerBase(a), <<>>) = 0
    BY QSumEmpty
  <2>2. w.perp[a][m].taker_base = 0 /\ w.perp[a][m].taker_quote = 0
    BY <1>7, <2>1 DEF State, Pending
  <2>3. w.perp[a][m].base \in Int
    <3>1. w.perp \in Perps BY <1>7 DEF State, Works
    <3> QED BY <3>1, PerpParts
  <2>4. Complete(a, m, w.perp, <<>>) = w.perp[a][m].base BY <2>1, <2>3 DEF Complete
  <2>5. get_complete_base_pos(a, m) = Complete(a, m, perp, q) BY <1>1, CompletePos
  <2> QED BY <1>7, <2>2, <2>4, <2>5
<1> QED BY <1>7, <1>8 DEF w

(* The invariant lets the crank run to the end.                            *)
LEMMA InvNeverStuck == Inv => NeverStuck BY Drained DEF NeverStuck

(* The invariant says what a drained queue leaves.                         *)
LEMMA InvDrain == Inv => DrainSettlesTakers BY Drained DEF DrainSettlesTakers

(* An order or an event that owns a place. *)
OrderAt(x, a, s) ==
  \E m \in Markets, side \in Sides : \E o \in book[m][side] :
    o.owner = a /\ o.slot = s /\ x = <<m, side, o>>
EventAt(x, a, s) ==
  \E m \in Markets : \E i \in 1..Len(queue[m]) :
    Frees(queue[m][i]) /\ Who(queue[m][i]) = a /\ Which(queue[m][i]) = s /\ x = <<m, "queue", i>>

(* Owners collects the resting orders and the freeing events of a place.   *)
LEMMA OwnersAre ==
  ASSUME Inv, NEW a, NEW s
  PROVE  \A x : x \in Owners(a, s) <=> OrderAt(x, a, s) \/ EventAt(x, a, s)
<1>1. ASSUME NEW m \in Markets
      PROVE  {j \in DOMAIN queue[m] : Releases(queue[m][j], a, s)}
               = {i \in 1..Len(queue[m]) : Frees(queue[m][i]) /\ Who(queue[m][i]) = a /\ Which(queue[m][i]) = s}
  <2>1. queue[m] \in Seq(EventSet) BY DEF Inv, Halls
  <2>2. DOMAIN queue[m] = 1..Len(queue[m]) /\ \A i \in 1..Len(queue[m]) : queue[m][i] \in EventSet
    BY <2>1, LenProperties, ElementOfSeq
  <2>3. ASSUME NEW e \in EventSet PROVE Releases(e, a, s) <=> Frees(e) /\ Who(e) = a /\ Which(e) = s
    <3>1. e.type = "out" \/ e.type = "fill" BY DEF EventSet, OutSet, FillSet
    <3>2. CASE e.type = "out" BY <3>2 DEF Releases, Frees, Who, Which
    <3>3. CASE e.type = "fill" BY <3>3 DEF Releases, Frees, Who, Which
    <3> QED BY <3>1, <3>2, <3>3
  <2> QED BY <2>2, <2>3
<1>2. ASSUME NEW x, NEW m \in Markets, NEW side \in Sides
      PROVE  x \in OrdersAt(m, side, a, s)
               <=> \E o \in book[m][side] : o.owner = a /\ o.slot = s /\ x = <<m, side, o>>
  BY DEF OrdersAt
<1>3. ASSUME NEW x, NEW m \in Markets
      PROVE  x \in EventsAt(m, a, s)
               <=> \E i \in 1..Len(queue[m]) :
                     Frees(queue[m][i]) /\ Who(queue[m][i]) = a /\ Which(queue[m][i]) = s /\ x = <<m, "queue", i>>
  BY <1>1 DEF EventsAt
<1>4. ASSUME NEW x
      PROVE  x \in Owners(a, s) <=> \E m \in Markets : \/ \E side \in Sides : x \in OrdersAt(m, side, a, s)
                                                       \/ x \in EventsAt(m, a, s)
  BY DEF Owners, Sides
<1>5. ASSUME NEW x PROVE x \in Owners(a, s) <=> OrderAt(x, a, s) \/ EventAt(x, a, s)
  <2>1. OrderAt(x, a, s) <=> \E m \in Markets, side \in Sides : x \in OrdersAt(m, side, a, s)
    BY <1>2 DEF OrderAt
  <2>2. EventAt(x, a, s) <=> \E m \in Markets : x \in EventsAt(m, a, s) BY <1>3 DEF EventAt
  <2> QED BY <1>4, <2>1, <2>2
<1> QED BY <1>5

(* What owns a place is an order or event of the market the place is held for. *)
LEMMA OwnerHolds ==
  ASSUME Inv, NEW m \in Markets
  PROVE  Desk(m, book[m], queue[m], slots, market[m].seq_num)
BY DEF Inv, Good, State, Work

(* What owns a place is of the market the place is held for.               *)
LEMMA OwnerMine ==
  ASSUME Inv, NEW a, NEW s
  PROVE  /\ \A m \in Markets, side \in Sides : \A o \in book[m][side] :
              o.owner = a /\ o.slot = s =>
                /\ Mine(m, slots[a][s]) /\ slots[a][s].side = side
                /\ slots[a][s].price = o.price /\ slots[a][s].seq = o.seq
         /\ \A m \in Markets : \A i \in 1..Len(queue[m]) :
              Frees(queue[m][i]) /\ Who(queue[m][i]) = a /\ Which(queue[m][i]) = s => Mine(m, slots[a][s])
<1>1. ASSUME NEW m \in Markets
      PROVE  Listed(m, book[m], slots) /\ Waiting(m, queue[m], slots)
  BY OwnerHolds DEF Desk
<1>2. ASSUME NEW m \in Markets, NEW side \in Sides, NEW o \in book[m][side], o.owner = a, o.slot = s
      PROVE  /\ Mine(m, slots[a][s]) /\ slots[a][s].side = side
             /\ slots[a][s].price = o.price /\ slots[a][s].seq = o.seq
  BY <1>1, <1>2 DEF Listed
<1>3. ASSUME NEW m \in Markets, NEW i \in 1..Len(queue[m]),
             Frees(queue[m][i]), Who(queue[m][i]) = a, Which(queue[m][i]) = s
      PROVE  Mine(m, slots[a][s])
  BY <1>1, <1>3 DEF Waiting
<1> QED BY <1>2, <1>3

(* An occupied place has one owner.                                        *)
LEMMA OneOwner ==
  ASSUME Inv, NEW a \in Accounts, NEW s \in Slot, slots[a][s] # Free
  PROVE  \E x : Owners(a, s) = {x}
<1> DEFINE m == slots[a][s].market
<1>1. slots[a][s] \in Tracked BY DEF Inv, Tables
<1>2. m \in Markets /\ Mine(m, slots[a][s]) BY <1>1 DEF Tracked, Mine
<1>3. \A n : Mine(n, slots[a][s]) => n = m BY DEF Mine
<1> HIDE DEF m
<1>4. Desk(m, book[m], queue[m], slots, market[m].seq_num) BY <1>2, OwnerHolds
<1>5. ASSUME NEW x, OrderAt(x, a, s)
      PROVE  \E side \in Sides : \E o \in book[m][side] : o.owner = a /\ o.slot = s /\ x = <<m, side, o>>
  <2>1. PICK n \in Markets, side \in Sides : \E o \in book[n][side] : o.owner = a /\ o.slot = s /\ x = <<n, side, o>>
    BY <1>5 DEF OrderAt
  <2>2. n = m BY <1>3, <2>1, OwnerMine
  <2> QED BY <2>1, <2>2
<1>6. ASSUME NEW x, EventAt(x, a, s)
      PROVE  \E i \in 1..Len(queue[m]) :
               Frees(queue[m][i]) /\ Who(queue[m][i]) = a /\ Which(queue[m][i]) = s /\ x = <<m, "queue", i>>
  <2>1. PICK n \in Markets : \E i \in 1..Len(queue[n]) :
          Frees(queue[n][i]) /\ Who(queue[n][i]) = a /\ Which(queue[n][i]) = s /\ x = <<n, "queue", i>>
    BY <1>6 DEF EventAt
  <2>2. n = m BY <1>3, <2>1, OwnerMine
  <2> QED BY <2>1, <2>2
<1>7. \/ \E side \in Sides : \E o \in book[m][side] : o.owner = a /\ o.slot = s
      \/ \E i \in 1..Len(queue[m]) : Frees(queue[m][i]) /\ Who(queue[m][i]) = a /\ Which(queue[m][i]) = s
  BY <1>2, <1>4 DEF Desk, Found
<1>8. \A i \in 1..Len(queue[m]) : Frees(queue[m][i]) =>
        \A side \in Sides : \A o \in book[m][side] : ~(o.owner = Who(queue[m][i]) /\ o.slot = Which(queue[m][i]))
  BY <1>4 DEF Desk, Gone
<1>9. CASE \E side \in Sides : \E o \in book[m][side] : o.owner = a /\ o.slot = s
  <2>1. PICK side \in Sides : \E o \in book[m][side] : o.owner = a /\ o.slot = s BY <1>9
  <2>2. PICK o \in book[m][side] : o.owner = a /\ o.slot = s BY <2>1
  <2>3. OrderAt(<<m, side, o>>, a, s) BY <1>2, <2>2 DEF OrderAt
  <2>4. ASSUME NEW x, OrderAt(x, a, s) PROVE x = <<m, side, o>>
    <3>1. PICK d \in Sides : \E p \in book[m][d] : p.owner = a /\ p.slot = s /\ x = <<m, d, p>> BY <1>5, <2>4
    <3>2. PICK p \in book[m][d] : p.owner = a /\ p.slot = s /\ x = <<m, d, p>> BY <3>1
    <3>3. o = p /\ side = d BY <1>4, <2>2, <3>2, OnePlace
    <3> QED BY <3>2, <3>3
  <2>5. ASSUME NEW x, EventAt(x, a, s) PROVE FALSE
    BY <1>6, <1>8, <2>2, <2>5
  <2>6. \A x : x \in Owners(a, s) <=> x = <<m, side, o>> BY <2>3, <2>4, <2>5, OwnersAre
  <2>7. Owners(a, s) = {<<m, side, o>>} BY <2>6
  <2> QED BY <2>7
<1>10. CASE \E i \in 1..Len(queue[m]) : Frees(queue[m][i]) /\ Who(queue[m][i]) = a /\ Which(queue[m][i]) = s
  <2>1. PICK i \in 1..Len(queue[m]) : Frees(queue[m][i]) /\ Who(queue[m][i]) = a /\ Which(queue[m][i]) = s
    BY <1>10
  <2>2. EventAt(<<m, "queue", i>>, a, s) BY <1>2, <2>1 DEF EventAt
  <2>3. ASSUME NEW x, EventAt(x, a, s) PROVE x = <<m, "queue", i>>
    <3>1. PICK j \in 1..Len(queue[m]) :
            Frees(queue[m][j]) /\ Who(queue[m][j]) = a /\ Which(queue[m][j]) = s /\ x = <<m, "queue", j>>
      BY <1>6, <2>3
    <3>2. i = j BY <1>4, <2>1, <3>1 DEF Desk, Once
    <3> QED BY <3>1, <3>2
  <2>4. ASSUME NEW x, OrderAt(x, a, s) PROVE FALSE
    BY <1>5, <1>8, <2>1, <2>4
  <2>5. \A x : x \in Owners(a, s) <=> x = <<m, "queue", i>> BY <2>2, <2>3, <2>4, OwnersAre
  <2>6. Owners(a, s) = {<<m, "queue", i>>} BY <2>5
  <2> QED BY <2>6
<1> QED BY <1>7, <1>9, <1>10

(* The invariant says who owns the slots.                                  *)
LEMMA InvSlots == Inv => SlotOwnership
<1> SUFFICES ASSUME Inv, NEW a \in Accounts, NEW s \in Slot
             PROVE  /\ Cardinality(Owners(a, s)) = IF slots[a][s] = Free THEN 0 ELSE 1
                    /\ \A m \in Markets, side \in Sides : \A o \in book[m][side] :
                         o.owner = a /\ o.slot = s =>
                           /\ slots[a][s].market = m /\ slots[a][s].side = side
                           /\ slots[a][s].price = o.price /\ slots[a][s].seq = o.seq
  BY DEF SlotOwnership
<1>1. \A m \in Markets, side \in Sides : \A o \in book[m][side] :
        o.owner = a /\ o.slot = s =>
          /\ slots[a][s].market = m /\ slots[a][s].side = side
          /\ slots[a][s].price = o.price /\ slots[a][s].seq = o.seq
  BY OwnerMine DEF Mine
<1>2. CASE slots[a][s] = Free
  <2>1. ASSUME NEW x, OrderAt(x, a, s) PROVE FALSE BY <1>2, <2>1, OwnerMine DEF OrderAt, Mine
  <2>2. ASSUME NEW x, EventAt(x, a, s) PROVE FALSE BY <1>2, <2>2, OwnerMine DEF EventAt, Mine
  <2>3. Owners(a, s) = {} BY <2>1, <2>2, OwnersAre
  <2>4. Cardinality(Owners(a, s)) = 0 BY <2>3, FS_EmptySet
  <2> QED BY <1>1, <1>2, <2>4
<1>3. CASE slots[a][s] # Free
  <2>1. PICK x : Owners(a, s) = {x} BY <1>3, OneOwner
  <2>2. Cardinality({x}) = 1 BY FS_Singleton
  <2> QED BY <1>1, <1>3, <2>1, <2>2
<1> QED BY <1>2, <1>3

-----------------------------------------------------------------------------
(***************************************************************************)
(* Trigger orders: the AdvancedOrders accounts on top of the markets.      *)
(***************************************************************************)

(* Well-formed AdvancedOrders accounts. *)
Parked ==
  advanced \in [Accounts -> [open : BOOLEAN, lamports : Int,
                             orders : [1..NumAdvanced -> TriggerOrders \cup {Inactive}]]]

(* The active orders of one AdvancedOrders account. *)
ActiveIn(adv) == {i \in 1..NumAdvanced : adv.orders[i] # Inactive}

(* What FeesEscrowed says of one account; a closed one has no active order. *)
Escrowed(adv) ==
  /\ adv.lamports = (IF adv.open THEN Rent + OrderFee * Cardinality(ActiveIn(adv)) ELSE 0)
  /\ adv.open \/ ActiveIn(adv) = {}

AdvancedInv == Inv /\ Parked /\ \A a \in Accounts : Escrowed(advanced[a])

(* An account has a finite number of active trigger orders.                *)
LEMMA ActiveFinite ==
  ASSUME NEW adv PROVE IsFiniteSet(ActiveIn(adv)) /\ Cardinality(ActiveIn(adv)) \in Nat
<1>1. 1 \in Int /\ NumAdvanced \in Int BY AdvancedAssumption
<1>2. IsFiniteSet(1..NumAdvanced) BY <1>1, FS_Interval
<1>3. ActiveIn(adv) \subseteq 1..NumAdvanced BY DEF ActiveIn
<1>4. IsFiniteSet(ActiveIn(adv)) BY <1>2, <1>3, FS_Subset
<1> QED BY <1>4, FS_CardinalityType

Entries == TriggerOrders \cup {Inactive}
Accounted == [open : BOOLEAN, lamports : Int, orders : [1..NumAdvanced -> Entries]]

(* The amounts are integers.                                               *)
LEMMA AdvancedInts == NumAdvanced \in Nat /\ Rent \in Int /\ OrderFee \in Int BY AdvancedAssumption

(* The parts of an AdvancedOrders account have their types.                *)
LEMMA AccountParts ==
  ASSUME NEW adv \in Accounted
  PROVE  adv.open \in BOOLEAN /\ adv.lamports \in Int /\ adv.orders \in [1..NumAdvanced -> Entries]
BY DEF Accounted

(* An account that does not exist escrows nothing.                         *)
LEMMA NoAccountFine == NoAccount \in Accounted /\ Escrowed(NoAccount)
<1>1. NoAccount \in Accounted BY DEF NoAccount, Accounted, Entries
<1>2. ActiveIn(NoAccount) = {} BY DEF NoAccount, ActiveIn
<1>3. NoAccount.open = FALSE /\ NoAccount.lamports = 0 BY DEF NoAccount
<1> QED BY <1>1, <1>2, <1>3 DEF Escrowed

(* A new one holds its rent.                                               *)
LEMMA OpenedFine ==
  ASSUME NEW adv, adv = [NoAccount EXCEPT !.open = TRUE, !.lamports = Rent]
  PROVE  adv \in Accounted /\ Escrowed(adv)
<1>0. adv = [open |-> TRUE, lamports |-> Rent, orders |-> [i \in 1..NumAdvanced |-> Inactive]] BY DEF NoAccount
<1>1. adv \in Accounted
  <2> DEFINE o == [i \in 1..NumAdvanced |-> Inactive]
  <2>1. o \in [1..NumAdvanced -> Entries] BY DEF Entries
  <2>2. adv = [open |-> TRUE, lamports |-> Rent, orders |-> o] BY <1>0
  <2> HIDE DEF o
  <2>3. TRUE \in BOOLEAN OBVIOUS
  <2>4. [open |-> TRUE, lamports |-> Rent, orders |-> o] \in Accounted BY <2>1, <2>3, AdvancedInts DEF Accounted
  <2> QED BY <2>2, <2>4
<1>2. adv.open = TRUE /\ adv.lamports = Rent /\ ActiveIn(adv) = {} BY DEF NoAccount, ActiveIn
<1>3. Cardinality({}) = 0 BY FS_EmptySet
<1>4. Rent + OrderFee * 0 = Rent BY AdvancedAssumption
<1> QED BY <1>1, <1>2, <1>3, <1>4 DEF Escrowed

(* Removing an order pays its fee out, if the entry was active.            *)
LEMMA RemovedFine ==
  ASSUME NEW adv \in Accounted, Escrowed(adv), NEW i \in 1..NumAdvanced
  PROVE  Removed(adv, i) \in Accounted /\ Escrowed(Removed(adv, i))
<1>1. CASE adv.orders[i] = Inactive BY <1>1 DEF Removed
<1>2. CASE adv.orders[i] # Inactive
  <2> DEFINE r == [adv EXCEPT !.orders[i] = Inactive, !.lamports = @ - OrderFee]
  <2>1. Removed(adv, i) = r BY <1>2 DEF Removed
  <2>2. /\ r \in Accounted /\ r.open = adv.open /\ r.lamports = adv.lamports - OrderFee
        /\ r.orders = [adv.orders EXCEPT ![i] = Inactive]
    <3> DEFINE x == [adv.orders EXCEPT ![i] = Inactive]
               y == adv.lamports - OrderFee
    <3>1. r = [adv EXCEPT !.orders = x, !.lamports = y] OBVIOUS
    <3>2. y \in Int BY AccountParts, AdvancedInts
    <3>3. x \in [1..NumAdvanced -> Entries] BY AccountParts DEF Entries
    <3> HIDE DEF x, y, r
    <3>4. r \in Accounted /\ r.open = adv.open /\ r.orders = x /\ r.lamports = y BY <3>1, <3>2, <3>3 DEF Accounted
    <3> QED BY <3>4 DEF x, y
  <2> HIDE DEF r
  <2>3. ActiveIn(r) = ActiveIn(adv) \ {i} BY <2>2 DEF ActiveIn, Accounted
  <2>4. i \in ActiveIn(adv) BY <1>2 DEF ActiveIn
  <2>5. adv.open = TRUE BY <2>4 DEF Escrowed, Accounted
  <2> DEFINE n == Cardinality(ActiveIn(adv))
             k == Cardinality(ActiveIn(r))
  <2>6. k = n - 1 /\ n \in Nat BY <2>3, <2>4, ActiveFinite, FS_RemoveElement
  <2>7. adv.lamports = Rent + OrderFee * n BY <2>5 DEF Escrowed
  <2> HIDE DEF n, k
  <2>8. (Rent + OrderFee * n) - OrderFee = Rent + OrderFee * k BY <2>6, AdvancedAssumption
  <2>9. r.lamports = Rent + OrderFee * k
    <3>1. r.lamports = (Rent + OrderFee * n) - OrderFee BY <2>2, <2>7
    <3> QED BY <2>8, <3>1
  <2>10. r.open = TRUE BY <2>2, <2>5
  <2>11. Escrowed(r) BY <2>9, <2>10 DEF Escrowed, k
  <2> QED BY <2>1, <2>2, <2>11
<1> QED BY <1>1, <1>2

(* Adding an order takes its fee in.                                       *)
LEMMA AddedFine ==
  ASSUME NEW adv \in Accounted, Escrowed(adv), adv.open, NEW i \in 1..NumAdvanced, i \notin ActiveIn(adv),
         NEW order \in TriggerOrders,
         NEW r, r = [adv EXCEPT !.orders[i] = order, !.lamports = @ + OrderFee]
  PROVE  r \in Accounted /\ Escrowed(r)
<1>1. /\ r \in Accounted /\ r.open = adv.open /\ r.lamports = adv.lamports + OrderFee
      /\ r.orders = [adv.orders EXCEPT ![i] = order]
  <2> DEFINE x == [adv.orders EXCEPT ![i] = order]
             y == adv.lamports + OrderFee
  <2>1. r = [adv EXCEPT !.orders = x, !.lamports = y] OBVIOUS
  <2>2. y \in Int BY AccountParts, AdvancedInts
  <2>3. x \in [1..NumAdvanced -> Entries] BY AccountParts DEF Entries
  <2> HIDE DEF x, y
  <2>4. r \in Accounted /\ r.open = adv.open /\ r.orders = x /\ r.lamports = y BY <2>1, <2>2, <2>3 DEF Accounted
  <2> QED BY <2>4 DEF x, y
<1>2. ActiveIn(r) = ActiveIn(adv) \cup {i} BY <1>1, AdvancedAssumption DEF ActiveIn, Accounted
<1>3. adv.open = TRUE BY DEF Accounted
<1> DEFINE n == Cardinality(ActiveIn(adv))
           k == Cardinality(ActiveIn(r))
<1>4. k = n + 1 /\ n \in Nat BY <1>2, ActiveFinite, FS_AddElement
<1>5. adv.lamports = Rent + OrderFee * n BY <1>3 DEF Escrowed
<1> HIDE DEF n, k
<1>6. Rent + OrderFee * n + OrderFee = Rent + OrderFee * k BY <1>4, AdvancedAssumption
<1>7. r.lamports = Rent + OrderFee * k /\ r.open = TRUE BY <1>1, <1>3, <1>5, <1>6
<1> QED BY <1>1, <1>7 DEF Escrowed, k

(* Cancelling all of them pays all fees out.                               *)
LEMMA ClearedFine ==
  ASSUME NEW adv \in Accounted, Escrowed(adv), ActiveIn(adv) # {},
         NEW r, r = [adv EXCEPT !.orders = [i \in 1..NumAdvanced |-> Inactive],
                                !.lamports = @ - OrderFee * Cardinality(ActiveIn(adv))]
  PROVE  r \in Accounted /\ Escrowed(r)
<1> DEFINE n == Cardinality(ActiveIn(adv))
           f == OrderFee * n
<1>1. n \in Nat BY ActiveFinite
<1> HIDE DEF n
<1>2. f \in Int BY <1>1, AdvancedAssumption
<1>3. r = [adv EXCEPT !.orders = [i \in 1..NumAdvanced |-> Inactive], !.lamports = @ - f] BY DEF n
<1> HIDE DEF f
<1>4. r \in Accounted /\ r.open = adv.open /\ r.lamports = adv.lamports - f /\ ActiveIn(r) = {}
  <2> DEFINE x == [i \in 1..NumAdvanced |-> Inactive]
             y == adv.lamports - f
  <2>1. r = [adv EXCEPT !.orders = x, !.lamports = y] BY <1>3
  <2>2. y \in Int BY <1>2, AccountParts
  <2>3. x \in [1..NumAdvanced -> Entries] /\ \A i \in 1..NumAdvanced : x[i] = Inactive BY DEF Entries
  <2> HIDE DEF x, y
  <2>4. r \in Accounted /\ r.open = adv.open /\ r.orders = x /\ r.lamports = y BY <2>1, <2>2, <2>3 DEF Accounted
  <2> QED BY <2>3, <2>4 DEF y, ActiveIn
<1>5. adv.open = TRUE BY DEF Escrowed, Accounted
<1>6. adv.lamports = Rent + f BY <1>5 DEF Escrowed, f, n
<1>7. Cardinality({}) = 0 BY FS_EmptySet
<1>8. r.lamports = Rent BY <1>2, <1>4, <1>6, AdvancedAssumption
<1>9. Rent + OrderFee * 0 = Rent BY AdvancedAssumption
<1> QED BY <1>4, <1>5, <1>7, <1>8, <1>9 DEF Escrowed

(* Setting one AdvancedOrders account keeps the invariant.                 *)
LEMMA AdvancedSet ==
  ASSUME AdvancedInv, Inv', NEW a \in Accounts, NEW r \in Accounted, Escrowed(r),
         advanced' = [advanced EXCEPT ![a] = r]
  PROVE  AdvancedInv'
<1>1. advanced \in [Accounts -> Accounted] BY DEF AdvancedInv, Parked, Accounted, Entries
<1>2. advanced' \in [Accounts -> Accounted] BY <1>1
<1>3. \A b \in Accounts : Escrowed(advanced'[b]) BY <1>1 DEF AdvancedInv
<1>4. Parked' BY <1>2 DEF Parked, Accounted, Entries
<1> QED BY <1>3, <1>4 DEF AdvancedInv, Escrowed, ActiveIn

(* The quantity a trigger order places is an integer.                      *)
LEMMA TriggeredInt ==
  ASSUME Inv, NEW a \in Accounts, NEW order \in TriggerOrders
  PROVE  TriggeredQuantity(a, order) \in Int
<1> DEFINE m == order.market
           pos == get_complete_base_pos(a, m)
           size == Abs(pos)
           qty == order.qty
<1>1. m \in Markets /\ qty \in Int BY AdvancedAssumption
<1>2. pos \in Int
  <2>1. Good(m) /\ Halls BY <1>1 DEF Inv
  <2> QED BY <1>1, <2>1, CompletePos
<1> HIDE DEF pos
<1>3. size \in Int BY <1>2 DEF Abs
<1>4. TriggeredQuantity(a, order) \in {0, qty, Min({size, qty})} BY DEF TriggeredQuantity, pos
<1> HIDE DEF size, qty
<1>5. Min({size, qty}) \in Int BY <1>1, <1>3, MinTwo
<1> QED BY <1>1, <1>4, <1>5

(* Executing a trigger order places it like any other, or drops it. *)
LEMMA ExecuteInv ==
  ASSUME AdvancedInv, NEW a \in Accounts, NEW i \in 1..NumAdvanced, NEW oracle,
         execute_perp_trigger_order(a, i, oracle)
  PROVE  Inv'
<1> DEFINE order == advanced[a].orders[i]
           m == order.market
           qty == TriggeredQuantity(a, order)
<1>1. Inv /\ Parked BY DEF AdvancedInv
<1>2. order \in TriggerOrders
  <2>1. i \in Active(a) BY DEF execute_perp_trigger_order
  <2> QED BY <1>1, <2>1 DEF Parked, Active
<1>3. /\ m \in Markets /\ order.side \in Sides /\ order.price \in Int /\ order.cid \in ClientIds
  BY <1>2, AdvancedAssumption
<1>4. qty \in Int BY <1>1, <1>2, TriggeredInt, SMTT(30)
<1>5. now' = now /\ now \in Int BY <1>1, ZenonT(60) DEF execute_perp_trigger_order, Inv
<1>6. \/ UNCHANGED <<book, queue, market, perp, slots>>
      \/ /\ qty > 0
         /\ \E rate \in {0} \cup RefSurcharges :
              new_order(a, m, order.side, order.price, qty, Unbounded, order.type,
                        NoExpiry, MaxFills, order.cid, oracle, [rate |-> rate, to |-> Nobody])
  BY DEF execute_perp_trigger_order
<1>7. CASE UNCHANGED <<book, queue, market, perp, slots>> BY <1>1, <1>5, <1>7, SameInv
<1>8. CASE /\ qty > 0
           /\ \E rate \in {0} \cup RefSurcharges :
                new_order(a, m, order.side, order.price, qty, Unbounded, order.type,
                          NoExpiry, MaxFills, order.cid, oracle, [rate |-> rate, to |-> Nobody])
  <2>1. PICK rate \in {0} \cup RefSurcharges :
          new_order(a, m, order.side, order.price, qty, Unbounded, order.type,
                    NoExpiry, MaxFills, order.cid, oracle, [rate |-> rate, to |-> Nobody])
    BY <1>8
  <2> DEFINE ref == [rate |-> rate, to |-> Nobody]
  <2>2. ref.rate \in Int /\ ref.to = Nobody BY PerpAssumption
  <2>3. new_order(a, m, order.side, order.price, qty, Unbounded, order.type,
                  NoExpiry, MaxFills, order.cid, oracle, ref)
    BY <2>1
  <2>4. qty \in Nat /\ qty > 0 BY <1>4, <1>8
  <2>5. Unbounded \in Nat /\ Unbounded \in Int /\ MaxFills \in Int /\ NoExpiry \in Int BY BookAssumption, PerpAssumption
  <2>6. Good(m) /\ Halls BY <1>1, <1>3 DEF Inv
  <2> DEFINE type == order.type
             side == order.side
             price == order.price
             cid == order.cid
  <2>7. side \in Sides /\ price \in Int /\ cid \in ClientIds BY <1>3
  <2> HIDE DEF ref, order, m, qty, type, side, price, cid
  <2>8. PICK n \in Markets : n = m BY <1>3
  <2>9. Good(n) /\ new_order(a, n, side, price, qty, Unbounded, type, NoExpiry, MaxFills, cid, oracle, ref)
    BY <2>3, <2>6, <2>8 DEF type, side, price, cid
  <2>10. Halls' /\ Good(n)' /\ Only(n)
    BY <2>2, <2>4, <2>5, <2>6, <2>7, <2>9, NewOrderGood
  <2> QED BY <1>1, <1>5, <2>10, StepInv
<1> QED BY <1>6, <1>7, <1>8

(* The initial states satisfy the invariant with trigger orders.           *)
LEMMA AdvancedInitInv == AdvancedInit => AdvancedInv
<1> SUFFICES ASSUME AdvancedInit PROVE AdvancedInv OBVIOUS
<1>1. Inv BY InitInv DEF AdvancedInit
<1>2. advanced = [a \in Accounts |-> NoAccount] BY DEF AdvancedInit
<1>3. Parked BY <1>2, NoAccountFine DEF Parked, Accounted, Entries
<1>4. \A a \in Accounts : Escrowed(advanced[a]) BY <1>2, NoAccountFine
<1> QED BY <1>1, <1>3, <1>4 DEF AdvancedInv

(* Every step keeps the invariant with trigger orders.                     *)
LEMMA AdvancedNextInv ==
  ASSUME AdvancedInv, [AdvancedNext]_advancedVars
  PROVE  AdvancedInv'
<1>0. Inv /\ now \in Int BY DEF AdvancedInv, Inv
<1>a. \A a \in Accounts : advanced[a] \in Accounted /\ Escrowed(advanced[a])
  BY DEF AdvancedInv, Parked, Accounted, Entries
<1>b. \A a \in Accounts : Active(a) = ActiveIn(advanced[a]) BY DEF Active, ActiveIn
<1>s. UNCHANGED vars => Inv'
  <2> SUFFICES ASSUME UNCHANGED vars PROVE Inv' OBVIOUS
  <2>1. UNCHANGED <<book, queue, market, perp, slots>> /\ now' \in Int BY <1>0 DEF vars
  <2> QED BY <1>0, <2>1, SameInv
<1>1. CASE (Next /\ UNCHANGED advanced) \/ UNCHANGED advancedVars
  <2>1. [Next]_vars /\ advanced' = advanced BY <1>1 DEF advancedVars
  <2>2. Inv' BY <1>0, <2>1, NextInv
  <2> QED BY <2>1, <2>2 DEF AdvancedInv, Parked
<1>2. ASSUME NEW a \in Accounts, init_advanced_orders(a) PROVE AdvancedInv'
  <2> DEFINE r == [NoAccount EXCEPT !.open = TRUE, !.lamports = Rent]
  <2>1. advanced' = [advanced EXCEPT ![a] = r] /\ Inv' BY <1>2, <1>s DEF init_advanced_orders
  <2>2. r \in Accounted /\ Escrowed(r) BY OpenedFine
  <2> HIDE DEF r
  <2> QED BY <2>1, <2>2, AdvancedSet
<1>3. ASSUME NEW a \in Accounts, close_advanced_orders(a) PROVE AdvancedInv'
  <2>1. advanced' = [advanced EXCEPT ![a] = NoAccount] /\ Inv' BY <1>3, <1>s DEF close_advanced_orders
  <2> QED BY <2>1, NoAccountFine, AdvancedSet
<1>4. ASSUME NEW a \in Accounts, NEW order \in TriggerOrders, add_perp_trigger_order(a, order) PROVE AdvancedInv'
  <2> DEFINE free == 1..NumAdvanced \ Active(a)
             i == Min(free)
             adv == advanced[a]
             r == [adv EXCEPT !.orders[i] = order, !.lamports = @ + OrderFee]
  <2>1. /\ adv.open /\ free # {}
        /\ advanced' = [advanced EXCEPT ![a].orders[i] = order, ![a].lamports = @ + OrderFee]
        /\ UNCHANGED <<book, queue, market, perp, slots>> /\ now' = now
    BY <1>4 DEF add_perp_trigger_order
  <2>2. Inv' BY <1>0, <2>1, SameInv
  <2>3. i \in free
    <3>1. 1 \in Int /\ NumAdvanced \in Int BY AdvancedAssumption
    <3>2. IsFiniteSet(1..NumAdvanced) BY <3>1, FS_Interval
    <3>3. free \subseteq 1..NumAdvanced /\ free \subseteq Int BY <3>1
    <3>4. IsFiniteSet(free) BY <3>2, <3>3, FS_Subset
    <3> HIDE DEF free
    <3> QED BY <2>1, <3>3, <3>4, MaxMin
  <2>4. i \in 1..NumAdvanced /\ i \notin ActiveIn(adv) BY <1>b, <2>3
  <2>5. advanced \in [Accounts -> Accounted] BY DEF AdvancedInv, Parked, Accounted, Entries
  <2> HIDE DEF i, free
  <2>6. advanced' = [advanced EXCEPT ![a] = r] BY <2>1, <2>5
  <2>7. adv \in Accounted /\ Escrowed(adv) /\ adv.open BY <1>a, <2>1
  <2> HIDE DEF adv
  <2>8. r \in Accounted /\ Escrowed(r) BY <2>4, <2>7, AddedFine
  <2> HIDE DEF r
  <2> QED BY <2>2, <2>6, <2>8, AdvancedSet
<1>5. ASSUME NEW a \in Accounts, NEW i \in 1..NumAdvanced, remove_advanced_order(a, i) PROVE AdvancedInv'
  <2>1. advanced' = [advanced EXCEPT ![a] = Removed(advanced[a], i)] /\ Inv' BY <1>5, <1>s DEF remove_advanced_order
  <2>2. Removed(advanced[a], i) \in Accounted /\ Escrowed(Removed(advanced[a], i)) BY <1>a, RemovedFine
  <2> QED BY <2>1, <2>2, AdvancedSet
<1>6. ASSUME NEW a \in Accounts, NEW i \in 1..NumAdvanced, NEW oracle, execute_perp_trigger_order(a, i, oracle)
      PROVE  AdvancedInv'
  <2>1. Inv' BY <1>6, ExecuteInv
  <2>2. advanced' = [advanced EXCEPT ![a] = Removed(advanced[a], i)] BY <1>6 DEF execute_perp_trigger_order
  <2>3. Removed(advanced[a], i) \in Accounted /\ Escrowed(Removed(advanced[a], i)) BY <1>a, RemovedFine
  <2> QED BY <2>1, <2>2, <2>3, AdvancedSet
<1>7. ASSUME NEW a \in Accounts, cancel_all_advanced_orders(a) PROVE AdvancedInv'
  <2> DEFINE adv == advanced[a]
             r == [adv EXCEPT !.orders = [i \in 1..NumAdvanced |-> Inactive],
                              !.lamports = @ - OrderFee * Cardinality(ActiveIn(adv))]
  <2>1. /\ Active(a) # {} /\ Inv'
        /\ advanced' = [advanced EXCEPT ![a].orders = [i \in 1..NumAdvanced |-> Inactive],
                                        ![a].lamports = @ - OrderFee * Cardinality(Active(a))]
    BY <1>7, <1>s DEF cancel_all_advanced_orders
  <2>2. Active(a) = ActiveIn(adv) BY <1>b
  <2>3. advanced \in [Accounts -> Accounted] BY DEF AdvancedInv, Parked, Accounted, Entries
  <2>4. advanced' = [advanced EXCEPT ![a] = r] BY <2>1, <2>2, <2>3
  <2>5. adv \in Accounted /\ Escrowed(adv) /\ ActiveIn(adv) # {} BY <1>a, <2>1, <2>2
  <2> HIDE DEF adv
  <2>6. r \in Accounted /\ Escrowed(r) BY <2>5, ClearedFine
  <2> HIDE DEF r
  <2> QED BY <2>1, <2>4, <2>6, AdvancedSet
<1>8. TriggerUsers \subseteq Accounts BY AdvancedAssumption
<1> QED BY <1>1, <1>2, <1>3, <1>4, <1>5, <1>6, <1>7, <1>8 DEF AdvancedNext

-----------------------------------------------------------------------------
(***************************************************************************)
(* The theorems.                                                           *)
(***************************************************************************)

(* Trigger orders: the invariant of the markets and the escrow of the fees. *)
THEOREM AdvancedInvariant == AdvancedSpec => []AdvancedInv
<1>1. AdvancedInv /\ [AdvancedNext]_advancedVars => AdvancedInv' BY AdvancedNextInv
<1> QED BY AdvancedInitInv, <1>1, PTL DEF AdvancedSpec

(* An occupied order slot has exactly one owner, a resting order or the    *)
(* one queued event that will release it, and a free slot none:            *)
(* place_perp_order never reuses a slot whose OutEvent or FillEvent is     *)
(* still queued, and ConsumeEvents never frees the slot of another order.  *)
THEOREM SlotsOwned == (Spec => []SlotOwnership) /\ (AdvancedSpec => []SlotOwnership)
<1>1. Inv => SlotOwnership BY InvSlots
<1>2. AdvancedInv => SlotOwnership BY <1>1 DEF AdvancedInv
<1> QED BY <1>1, <1>2, MarketsInv, AdvancedInvariant, PTL

(* ConsumeEvents can apply every event of every queue the instructions can *)
(* build: remove_order always finds the slot of an event occupied.         *)
THEOREM CrankNeverStuck == (Spec => []NeverStuck) /\ (AdvancedSpec => []NeverStuck)
<1>1. Inv => NeverStuck BY InvNeverStuck
<1>2. AdvancedInv => NeverStuck BY <1>1 DEF AdvancedInv
<1> QED BY <1>1, <1>2, MarketsInv, AdvancedInvariant, PTL

(* bids_quantity and asks_quantity count exactly the lots that rest and    *)
(* those whose fill or removal is still queued.                            *)
THEOREM OnOrdersCounted == (Spec => []OnOrdersExact) /\ (AdvancedSpec => []OnOrdersExact)
<1>1. Inv => OnOrdersExact BY InvOnOrders
<1>2. AdvancedInv => OnOrdersExact BY <1>1 DEF AdvancedInv
<1> QED BY <1>1, <1>2, MarketsInv, AdvancedInvariant, PTL

(* Once a queue is drained no taker amount is pending, and every base      *)
(* position is what get_complete_base_pos said before.                     *)
THEOREM DrainSettles == (Spec => []DrainSettlesTakers) /\ (AdvancedSpec => []DrainSettlesTakers)
<1>1. Inv => DrainSettlesTakers BY InvDrain
<1>2. AdvancedInv => DrainSettlesTakers BY <1>1 DEF AdvancedInv
<1> QED BY <1>1, <1>2, MarketsInv, AdvancedInvariant, PTL

(* Longs and shorts balance, and open_interest is the sum of their sizes.  *)
THEOREM PositionsBalanced == (Spec => []PositionsBalance) /\ (AdvancedSpec => []PositionsBalance)
<1>1. Inv => PositionsBalance BY InvPositions
<1>2. AdvancedInv => PositionsBalance BY <1>1 DEF AdvancedInv
<1> QED BY <1>1, <1>2, MarketsInv, AdvancedInvariant, PTL

(* Trades, fees, referral fees and funding neither create nor destroy      *)
(* quote: the accounts' quote and the market's fees add up to what makers  *)
(* still owe for queued fills.                                             *)
THEOREM QuoteNeverCreated == (Spec => []QuoteConserved) /\ (AdvancedSpec => []QuoteConserved)
<1>1. Inv => QuoteConserved BY InvQuote
<1>2. AdvancedInv => QuoteConserved BY <1>1 DEF AdvancedInv
<1> QED BY <1>1, <1>2, MarketsInv, AdvancedInvariant, PTL

(* An open AdvancedOrders account holds its rent and the fee of every active order. *)
THEOREM FeesStayEscrowed == AdvancedSpec => []FeesEscrowed
<1>1. AdvancedInv => FeesEscrowed BY DEF AdvancedInv, Escrowed, FeesEscrowed, Active, ActiveIn
<1> QED BY <1>1, AdvancedInvariant, PTL

-----------------------------------------------------------------------------
(***************************************************************************)
(* Price-time priority.                                                    *)
(***************************************************************************)

(* Sorted lists every order, and one that comes before another earlier. *)
LEMMA SortedOrder ==
  ASSUME NEW S, Keyed(S), NEW side \in Sides
  PROVE  /\ \A p \in S : \E h \in 1..Cardinality(S) : Sorted(side, S)[h] = p
         /\ \A h, j \in 1..Cardinality(S) : Before(side, Sorted(side, S)[h], Sorted(side, S)[j]) => h < j
<1> DEFINE n == Cardinality(S)
           R == BookOrder(side, S)
           In(o) == {p \in S : Before(side, p, o)}
           Ahead(o) == Cardinality(In(o))
<1>0. IsFiniteSet(S) /\ n \in Nat BY FS_CardinalityType DEF Keyed
<1>1. /\ \A x, y \in S : x # y => Before(side, x, y) \/ Before(side, y, x)
      /\ \A x, y \in S : Before(side, x, y) => ~Before(side, y, x)
      /\ \A x, y, z \in S : Before(side, x, y) /\ Before(side, y, z) => Before(side, x, z)
  BY DEF Keyed, Before
<1>2. \A x \in S : IsFiniteSet(In(x)) /\ Ahead(x) \in Nat
  <2> SUFFICES ASSUME NEW x \in S PROVE IsFiniteSet(In(x)) /\ Ahead(x) \in Nat OBVIOUS
  <2>1. In(x) \subseteq S OBVIOUS
  <2> HIDE DEF In
  <2>2. IsFiniteSet(In(x)) BY <1>0, <2>1, FS_Subset
  <2> QED BY <2>2, FS_CardinalityType
<1>3. ASSUME NEW x \in S, NEW y \in S, Before(side, x, y) PROVE Ahead(x) < Ahead(y)
  <2>1. In(x) \subseteq In(y) /\ x \in In(y) /\ x \notin In(x) BY <1>1, <1>3
  <2> DEFINE A == In(x)
             B == In(y)
  <2>2. IsFiniteSet(B) /\ A \subseteq B /\ A # B BY <1>2, <2>1
  <2>a. Cardinality(A) \in Nat /\ Cardinality(B) \in Nat BY <1>2
  <2> HIDE DEF A, B
  <2>b. A \in SUBSET B BY <2>2
  <2>3. Cardinality(A) <= Cardinality(B) /\ Cardinality(B) # Cardinality(A) BY <2>2, <2>b, FS_Subset
  <2>4. Cardinality(A) < Cardinality(B) BY <2>a, <2>3
  <2> QED BY <2>4 DEF A, B
<1>4. ASSUME NEW x \in S PROVE Ahead(x) < n
  <2>1. In(x) \subseteq S /\ x \notin In(x) BY <1>1
  <2> DEFINE A == In(x)
  <2>2. A \subseteq S /\ A # S BY <2>1
  <2>a. Cardinality(A) \in Nat BY <1>2
  <2> HIDE DEF A
  <2>b. A \in SUBSET S BY <2>2
  <2>3. Cardinality(A) <= n /\ n # Cardinality(A) BY <1>0, <2>2, <2>b, FS_Subset
  <2>4. Cardinality(A) < n BY <1>0, <2>a, <2>3
  <2> QED BY <2>4 DEF A
<1>5. ASSUME NEW i \in 1..n PROVE Sorted(side, S)[i] \in S /\ Ahead(Sorted(side, S)[i]) = i - 1
  <2>1. \E o \in S : Ahead(o) = i - 1
    <3>1. Ordered(S, R) /\ IsFiniteSet(S) BY BookOrdered DEF Keyed
    <3>2. PICK x \in S : Rank(S, R, x) = i - 1
      <4> HIDE DEF R
      <4> QED BY <3>1, Ranks
    <3>3. {y \in S : <<y, x>> \in R} = {y \in S : Before(side, y, x)} BY BookOrdered
    <3> QED BY <3>2, <3>3 DEF Rank
  <2>2. Sorted(side, S)[i] = CHOOSE o \in S : Ahead(o) = i - 1 BY DEF Sorted
  <2> HIDE DEF Ahead
  <2> QED BY <2>1, <2>2
<1> HIDE DEF Ahead, In
<1>6. ASSUME NEW p \in S PROVE \E h \in 1..n : Sorted(side, S)[h] = p
  <2> DEFINE h == Ahead(p) + 1
             q == Sorted(side, S)[h]
  <2>1. h \in 1..n /\ h - 1 = Ahead(p) BY <1>0, <1>2, <1>4
  <2>2. q \in S /\ Ahead(q) = Ahead(p)
    <3> HIDE DEF h
    <3> QED BY <1>5, <2>1
  <2>3. q = p
    <3> HIDE DEF q
    <3>1. SUFFICES ASSUME q # p PROVE FALSE OBVIOUS
    <3>2. Ahead(q) < Ahead(p) \/ Ahead(p) < Ahead(q) BY <1>1, <1>3, <2>2, <3>1
    <3> QED BY <1>2, <2>2, <3>2
  <2> QED BY <2>1, <2>3
<1>7. ASSUME NEW h \in 1..n, NEW j \in 1..n, Before(side, Sorted(side, S)[h], Sorted(side, S)[j]) PROVE h < j
  <2>1. Ahead(Sorted(side, S)[h]) < Ahead(Sorted(side, S)[j]) BY <1>3, <1>5, <1>7
  <2>2. h - 1 < j - 1 BY <1>5, <2>1
  <2> QED BY <2>2
<1> QED BY <1>6, <1>7

(* A fill is of order o; nothing of o is left. *)
Fills(e, o) == e.maker = o.owner /\ e.maker_slot = o.slot /\ e.price = o.price
UsedUp(rest, o) == \A q \in rest : q.seq # o.seq

(* The matching loop has taken the first i orders of v in turn. *)
FillsInTurn(v, i, t, side, evs, rest) ==
  \A k \in 1..Len(evs) : evs[k].type = "fill" =>
    /\ evs[k].taker_side = side
    /\ \E j \in 1..i : /\ is_valid(v[j], t) /\ Fills(evs[k], v[j])
                       /\ \A h \in 1..(j - 1) : is_valid(v[h], t) => UsedUp(rest, v[h])
InFront(v, i, t, rest) == \A h \in 1..i : is_valid(v[h], t) => UsedUp(rest, v[h])
Behind(v, n, i, rest) == \A q \in rest, h \in 1..n : h > i /\ q.seq = v[h].seq => q = v[h]
Prior(v, n, i, t, side, acc) ==
  /\ FillsInTurn(v, i, t, side, acc.evs, acc.rest)
  /\ ~acc.done => InFront(v, i, t, acc.rest)
  /\ Behind(v, n, i, acc.rest)

(* The orders are told apart by their numbers. *)
Apiece(v, n) == \A g, h \in 1..n : v[g].seq = v[h].seq => g = h
(* A side that only lost orders, or part of o. *)
Trimmed(rest, r2, o) == \A q \in r2 : q \in rest \/ q.seq = o.seq

(* An order in front of the i-th that was used up stays so.                *)
LEMMA TrimmedUsed ==
  ASSUME NEW n \in Nat, NEW v, Apiece(v, n), NEW i \in 1..n, NEW rest, NEW r2, Trimmed(rest, r2, v[i]),
         NEW h \in 1..(i - 1), UsedUp(rest, v[h])
  PROVE  UsedUp(r2, v[h])
<1>1. h \in 1..n /\ h # i OBVIOUS
<1>2. v[h].seq # v[i].seq BY <1>1 DEF Apiece
<1> QED BY <1>2 DEF UsedUp, Trimmed

(* The orders behind the i-th are untouched.                               *)
LEMMA TrimmedBehind ==
  ASSUME NEW n \in Nat, NEW v, Apiece(v, n), NEW i \in 1..n, NEW rest, NEW r2, Trimmed(rest, r2, v[i]),
         Behind(v, n, i - 1, rest)
  PROVE  Behind(v, n, i, r2)
<1> SUFFICES ASSUME NEW q \in r2, NEW h \in 1..n, h > i, q.seq = v[h].seq PROVE q = v[h] BY DEF Behind
<1>1. h # i /\ h > i - 1 OBVIOUS
<1>2. v[h].seq # v[i].seq BY <1>1 DEF Apiece
<1>3. q \in rest BY <1>2 DEF Trimmed
<1> QED BY <1>1, <1>3 DEF Behind

(* The fills made so far stay in turn when the i-th order is trimmed.      *)
LEMMA TrimmedFills ==
  ASSUME NEW n \in Nat, NEW v, Apiece(v, n), NEW i \in 1..n, NEW rest, NEW r2, Trimmed(rest, r2, v[i]),
         NEW t, NEW side, NEW evs, FillsInTurn(v, i - 1, t, side, evs, rest)
  PROVE  FillsInTurn(v, i, t, side, evs, r2)
<1> SUFFICES ASSUME NEW k \in 1..Len(evs), evs[k].type = "fill"
             PROVE  /\ evs[k].taker_side = side
                    /\ \E j \in 1..i : /\ is_valid(v[j], t) /\ Fills(evs[k], v[j])
                                       /\ \A h \in 1..(j - 1) : is_valid(v[h], t) => UsedUp(r2, v[h])
  BY DEF FillsInTurn
<1>1. evs[k].taker_side = side BY DEF FillsInTurn
<1>2. PICK j \in 1..(i - 1) : /\ is_valid(v[j], t) /\ Fills(evs[k], v[j])
                              /\ \A h \in 1..(j - 1) : is_valid(v[h], t) => UsedUp(rest, v[h])
  BY DEF FillsInTurn
<1>3. \A h \in 1..(j - 1) : h \in 1..(i - 1) OBVIOUS
<1>4. \A h \in 1..(j - 1) : is_valid(v[h], t) => UsedUp(r2, v[h]) BY <1>2, <1>3, TrimmedUsed
<1>5. j \in 1..i OBVIOUS
<1> QED BY <1>1, <1>2, <1>4, <1>5

(* The i-th order is trimmed, and the state before was in turn. *)
LEMMA PriorKept ==
  ASSUME NEW n \in Nat, NEW v, Apiece(v, n), NEW i \in 1..n, NEW t, NEW side, NEW acc,
         Prior(v, n, i - 1, t, side, acc), NEW rest, Trimmed(acc.rest, rest, v[i])
  PROVE  /\ FillsInTurn(v, i, t, side, acc.evs, rest) /\ Behind(v, n, i, rest)
         /\ ~acc.done => \A h \in 1..(i - 1) : is_valid(v[h], t) => UsedUp(rest, v[h])
<1> DEFINE r0 == acc.rest
           e0 == acc.evs
<1>1. FillsInTurn(v, i - 1, t, side, e0, r0) /\ Behind(v, n, i - 1, r0) /\ Trimmed(r0, rest, v[i])
  BY DEF Prior
<1>2. ~acc.done => InFront(v, i - 1, t, r0) BY DEF Prior
<1> HIDE DEF r0, e0
<1>3. FillsInTurn(v, i, t, side, e0, rest) BY <1>1, TrimmedFills
<1>4. Behind(v, n, i, rest) BY <1>1, TrimmedBehind
<1>5. ASSUME ~acc.done, NEW h \in 1..(i - 1), is_valid(v[h], t) PROVE UsedUp(rest, v[h])
  <2>1. UsedUp(r0, v[h]) BY <1>2, <1>5 DEF InFront
  <2> QED BY <1>1, <2>1, TrimmedUsed
<1> QED BY <1>3, <1>4, <1>5 DEF e0

(* The loop goes on behind the i-th order when that is expired or used up. *)
LEMMA FrontNext ==
  ASSUME NEW n \in Nat, NEW v, NEW i \in 1..n, NEW t, NEW rest,
         \A h \in 1..(i - 1) : is_valid(v[h], t) => UsedUp(rest, v[h]),
         is_valid(v[i], t) => UsedUp(rest, v[i])
  PROVE  InFront(v, i, t, rest)
<1> SUFFICES ASSUME NEW h \in 1..i, is_valid(v[h], t) PROVE UsedUp(rest, v[h]) BY DEF InFront
<1>1. h = i \/ h \in 1..(i - 1) OBVIOUS
<1> QED BY <1>1

(* The event of a fill of the i-th order. *)
LEMMA FillsNext ==
  ASSUME NEW n \in Nat, NEW v, NEW i \in 1..n, NEW t, NEW side, NEW evs \in Seq(EventSet), NEW rest,
         FillsInTurn(v, i, t, side, evs, rest), NEW e \in EventSet,
         e.taker_side = side, Fills(e, v[i]), is_valid(v[i], t),
         \A h \in 1..(i - 1) : is_valid(v[h], t) => UsedUp(rest, v[h])
  PROVE  FillsInTurn(v, i, t, side, Append(evs, e), rest)
<1> DEFINE u == Append(evs, e)
<1>1. /\ Len(u) = Len(evs) + 1 /\ Len(evs) \in Nat /\ u[Len(evs) + 1] = e
      /\ \A k \in 1..Len(evs) : u[k] = evs[k]
  BY AppendEvent
<1> HIDE DEF u
<1> SUFFICES ASSUME NEW k \in 1..Len(u), u[k].type = "fill"
             PROVE  /\ u[k].taker_side = side
                    /\ \E j \in 1..i : /\ is_valid(v[j], t) /\ Fills(u[k], v[j])
                                       /\ \A h \in 1..(j - 1) : is_valid(v[h], t) => UsedUp(rest, v[h])
  BY DEF FillsInTurn, u
<1>2. CASE k \in 1..Len(evs)
  <2>1. u[k] = evs[k] BY <1>1, <1>2
  <2> QED BY <1>2, <2>1 DEF FillsInTurn
<1>3. CASE k = Len(evs) + 1
  <2>1. u[k] = e BY <1>1, <1>3
  <2>2. i \in 1..i OBVIOUS
  <2> QED BY <2>1, <2>2
<1> QED BY <1>1, <1>2, <1>3

(* What is left of a filled order keeps its number. *)
LEMMA AfterTrimmed ==
  ASSUME NEW o \in OrderSet, NEW qty, NEW rest
  PROVE  Trimmed(rest, (rest \ {o}) \cup AfterFill(o, qty), o)
BY DEF Trimmed, AfterFill, OrderSet

(* One turn of the loop keeps the order. *)
LEMMA PriorTurn ==
  ASSUME NEW n \in Nat, NEW v, Apiece(v, n), NEW i \in 1..n, NEW t, NEW side \in Sides, NEW acc \in MatchSet,
         acc.done \/ acc.base > 0, v[i] \in acc.rest, NEW type, NEW price, NEW taker \in Accounts,
         Prior(v, n, i - 1, t, side, acc)
  PROVE  Prior(v, n, i, t, side, MatchOne(acc, v[i], side, type, price, taker, t))
<1> DEFINE o == v[i]
           x == MatchOne(acc, o, side, type, price, taker, t)
           quo == acc.quote \div o.price
           qty == Min({acc.base, o.qty, quo})
           gone == OutEvent(o, invert_side(side))
           fill == FillEvent(o, side, taker, qty)
           x1 == [acc EXCEPT !.drops = @ + 1, !.evs = Append(@, gone), !.rest = @ \ {o}]
           x2 == [acc EXCEPT !.done = TRUE]
           x3 == [acc EXCEPT !.done = TRUE, !.post = FALSE]
           x4 == [acc EXCEPT !.base = @ - qty,
                       !.quote = @ - qty * o.price,
                       !.limit = @ - 1,
                       !.evs = Append(@, fill),
                       !.rest = (@ \ {o}) \cup AfterFill(o, qty),
                       !.done = qty = quo \/ qty = acc.base]
           Kept(r) == /\ FillsInTurn(v, i, t, side, acc.evs, r) /\ Behind(v, n, i, r)
                      /\ ~acc.done => \A h \in 1..(i - 1) : is_valid(v[h], t) => UsedUp(r, v[h])
<1>0. /\ acc.evs \in Seq(EventSet) /\ acc.rest \subseteq OrderSet /\ o \in OrderSet /\ o \in acc.rest
      /\ acc.base \in Nat /\ acc.quote \in Nat /\ acc.done \in BOOLEAN
  BY DEF MatchSet
<1>1. \/ x = acc /\ (acc.done \/ ~is_valid(o, t))
      \/ x = x1 /\ ~acc.done /\ ~is_valid(o, t)
      \/ x = x2
      \/ x = x3
      \/ ~acc.done /\ quo # 0 /\ is_valid(o, t) /\ x = x4
  BY DEF MatchOne
<1>k. \A r : Trimmed(acc.rest, r, o) => Kept(r)
  <2> SUFFICES ASSUME NEW r, Trimmed(acc.rest, r, v[i]) PROVE Kept(r) OBVIOUS
  <2> QED BY PriorKept
<1>s. Trimmed(acc.rest, acc.rest, o) BY DEF Trimmed
<1>q. /\ x1.evs = Append(acc.evs, gone) /\ x1.rest = acc.rest \ {o} /\ x1.done = acc.done
      /\ x2.evs = acc.evs /\ x2.rest = acc.rest /\ x2.done
      /\ x3.evs = acc.evs /\ x3.rest = acc.rest /\ x3.done
  BY DEF MatchSet
<1>r. /\ x4.evs = Append(acc.evs, fill) /\ x4.rest = (acc.rest \ {o}) \cup AfterFill(o, qty)
      /\ x4.done = (qty = quo \/ qty = acc.base)
  <2> HIDE DEF qty, fill, quo
  <2> QED BY DEF MatchSet
<1>x. Prior(v, n, i, t, side, x) <=>
        FillsInTurn(v, i, t, side, x.evs, x.rest) /\ (~x.done => InFront(v, i, t, x.rest)) /\ Behind(v, n, i, x.rest)
  BY DEF Prior
<1> SUFFICES Prior(v, n, i, t, side, x) OBVIOUS
<1> HIDE DEF x, x1, x2, x3, x4, qty, quo, fill, gone
<1>2. CASE x = acc /\ (acc.done \/ ~is_valid(o, t))
  <2>1. Kept(acc.rest) BY <1>k, <1>s
  <2>2. ~acc.done => InFront(v, i, t, acc.rest) BY <1>2, <2>1, FrontNext
  <2> QED BY <1>2, <1>x, <2>1, <2>2
<1>3. CASE x = x1 /\ ~acc.done /\ ~is_valid(o, t)
  <2> DEFINE r == acc.rest \ {o}
             u == Append(acc.evs, gone)
  <2>1. Trimmed(acc.rest, r, o) BY DEF Trimmed
  <2>2. Kept(r) BY <1>k, <2>1
  <2>3. FillsInTurn(v, i, t, side, u, r)
    <3>1. gone \in EventSet /\ gone.type = "out" BY <1>0, Inverse2, OutParts DEF gone
    <3>2. /\ Len(u) = Len(acc.evs) + 1 /\ Len(acc.evs) \in Nat /\ u[Len(acc.evs) + 1] = gone
          /\ \A k \in 1..Len(acc.evs) : u[k] = acc.evs[k]
      BY <1>0, <3>1, AppendEvent
    <3> HIDE DEF u, r
    <3>3. \A k \in 1..Len(u) : u[k].type = "fill" => k \in 1..Len(acc.evs) /\ u[k] = acc.evs[k]
      BY <3>1, <3>2
    <3>4. FillsInTurn(v, i, t, side, acc.evs, r) BY <2>2
    <3> HIDE DEF Kept
    <3> QED BY <3>3, <3>4 DEF FillsInTurn
  <2>4. InFront(v, i, t, r)
    <3> HIDE DEF r
    <3> QED BY <1>3, <2>2, FrontNext
  <2> QED BY <1>3, <1>q, <1>x, <2>2, <2>3, <2>4
<1>4. CASE x = x2 \/ x = x3
  <2>1. Kept(acc.rest) BY <1>k, <1>s
  <2> QED BY <1>4, <1>q, <1>x, <2>1
<1>5. CASE ~acc.done /\ quo # 0 /\ is_valid(o, t) /\ x = x4
  <2> DEFINE r == (acc.rest \ {o}) \cup AfterFill(o, qty)
             u == Append(acc.evs, fill)
  <2>1. Kept(r) BY <1>0, <1>k, AfterTrimmed
  <2>q. /\ qty \in {acc.base, o.qty, quo} /\ qty \in Lots /\ qty <= o.qty
    <3>1. o.price \in Lots /\ o.qty \in Lots /\ o.qty \in Int /\ acc.base \in Int /\ acc.base > 0
      BY <1>0, <1>5 DEF OrderSet, Lots
    <3>2. quo \in Nat BY <1>0, <3>1, DivFacts DEF quo
    <3>3. qty \in {acc.base, o.qty, quo} /\ qty <= o.qty
      <4> DEFINE b == acc.base
                 c == o.qty
      <4>1. qty = Min({b, c, quo}) BY DEF qty
      <4>2. b \in Int /\ c \in Int /\ quo \in Int BY <3>1, <3>2
      <4> HIDE DEF b, c, o
      <4> QED BY <4>1, <4>2, MinThree DEF b, c
    <3> QED BY <1>0, <1>5, <3>1, <3>2, <3>3 DEF Lots
  <2>2. FillsInTurn(v, i, t, side, u, r)
    <3>1. fill \in EventSet /\ fill.taker_side = side /\ fill.price = o.price
      BY <1>0, <2>q, FillEventParts DEF fill
    <3>2. Fills(fill, v[i]) BY DEF Fills, fill, FillEvent
    <3>3. FillsInTurn(v, i, t, side, acc.evs, r) BY <2>1
    <3>4. \A h \in 1..(i - 1) : is_valid(v[h], t) => UsedUp(r, v[h]) BY <1>5, <2>1
    <3> HIDE DEF r
    <3> QED BY <1>0, <1>5, <3>1, <3>2, <3>3, <3>4, FillsNext
  <2>3. ASSUME ~x4.done PROVE InFront(v, i, t, r)
    <3>1. qty = o.qty BY <1>r, <2>q, <2>3
    <3>2. r = acc.rest \ {o} BY <3>1 DEF AfterFill
    <3>3. UsedUp(r, o)
      <4>1. Behind(v, n, i - 1, acc.rest) BY DEF Prior
      <4>2. \A q \in acc.rest : q.seq = o.seq => q = o BY <4>1 DEF Behind
      <4> QED BY <3>2, <4>2 DEF UsedUp
    <3>4. \A h \in 1..(i - 1) : is_valid(v[h], t) => UsedUp(r, v[h]) BY <1>5, <2>1
    <3> HIDE DEF r
    <3> QED BY <3>3, <3>4, FrontNext
  <2> QED BY <1>5, <1>r, <1>x, <2>1, <2>2, <2>3
<1> QED BY <1>1, <1>2, <1>3, <1>4, <1>5

(* After the whole loop every fill has been made in turn. *)
LEMMA PriorAll ==
  ASSUME NEW m, NEW bk, NEW q, NEW sl, NEW sq, NEW pp, Stage(m, bk, q, sl, sq, pp), NEW taker \in Accounts,
         NEW side \in Sides, NEW base \in Nat, base > 0, NEW quote \in Nat, NEW limit \in Int,
         NEW allowed \in BOOLEAN, NEW type, NEW price, NEW t
  PROVE  LET S == bk[invert_side(side)]
         IN  Prior(Sorted(invert_side(side), S), Cardinality(S), Cardinality(S), t, side,
                   Match(side, type, price, base, quote, limit, allowed, taker, S, t))
<1> DEFINE S == bk[invert_side(side)]
           v == Sorted(invert_side(side), S)
           n == Cardinality(S)
           M == Match(side, type, price, base, quote, limit, allowed, taker, S, t)
<1>0. Keyed(S) /\ invert_side(side) \in Sides BY Inverse2 DEF Stage, Desk
<1>1. PICK r : MatchChain(r, m, bk, q, sl, sq, pp, taker, side, base, quote, limit, allowed, type, price, t)
  BY MatchRun
<1>2. /\ r[0] = Opening(base, quote, limit, allowed, S)
      /\ \A i \in 0..n : Matched(m, bk, q, sl, sq, pp, r[i], taker, side, base, quote)
      /\ \A i \in 1..n : /\ v[i] \in r[i - 1].rest
                         /\ r[i] = MatchOne(r[i - 1], v[i], side, type, price, taker, t)
      /\ r[n] = M
  BY <1>1 DEF MatchChain
<1>3. n \in Nat /\ (\A i \in 1..n : v[i] \in S) /\ (\A i, j \in 1..n : v[i] = v[j] => i = j)
  <2> HIDE DEF S
  <2> QED BY <1>0, SortedProps
<1> HIDE DEF S, v, n, M
<1>4. Apiece(v, n) BY <1>0, <1>3 DEF Apiece, Keyed
<1> DEFINE Q == {i \in Nat : i <= n => Prior(v, n, i, t, side, r[i])}
<1>5. 0 \in Q
  <2> DEFINE w == Opening(base, quote, limit, allowed, S)
  <2>1. w.evs = <<>> /\ w.rest = S BY DEF Opening
  <2> HIDE DEF w
  <2>2. FillsInTurn(v, 0, t, side, w.evs, w.rest) BY <2>1 DEF FillsInTurn
  <2>3. InFront(v, 0, t, w.rest) BY DEF InFront
  <2>4. Behind(v, n, 0, w.rest)
    <3> SUFFICES ASSUME NEW z \in S, NEW h \in 1..n, z.seq = v[h].seq PROVE z = v[h] BY <2>1 DEF Behind
    <3> QED BY <1>0, <1>3 DEF Keyed
  <2>5. Prior(v, n, 0, t, side, w) BY <2>2, <2>3, <2>4 DEF Prior
  <2> QED BY <1>2, <2>5 DEF w
<1>6. ASSUME NEW i \in Nat, i \in Q PROVE i + 1 \in Q
  <2> SUFFICES ASSUME i + 1 <= n PROVE Prior(v, n, i + 1, t, side, r[i + 1]) OBVIOUS
  <2> DEFINE j == i + 1
  <2>1. i <= n /\ j \in 1..n /\ j - 1 = i /\ i \in 0..n BY <1>3
  <2>2. Prior(v, n, i, t, side, r[i]) BY <1>6, <2>1
  <2> HIDE DEF Q, j
  <2>3. /\ v[j] \in r[i].rest /\ r[j] = MatchOne(r[i], v[j], side, type, price, taker, t)
    <3>1. v[j] \in r[j - 1].rest /\ r[j] = MatchOne(r[j - 1], v[j], side, type, price, taker, t) BY <1>2, <2>1
    <3> QED BY <2>1, <3>1
  <2> DEFINE acc == r[i]
  <2>4. acc \in MatchSet /\ (acc.done \/ acc.base > 0) BY <1>2, <2>1 DEF Matched
  <2>5. v[j] \in acc.rest BY <2>3
  <2>6. Prior(v, n, j - 1, t, side, acc) BY <2>1, <2>2
  <2> HIDE DEF acc
  <2>7. Prior(v, n, j, t, side, MatchOne(acc, v[j], side, type, price, taker, t))
    BY <1>3, <1>4, <2>1, <2>4, <2>5, <2>6, PriorTurn
  <2> QED BY <2>3, <2>7 DEF acc, j
<1> HIDE DEF Q
<1>7. \A i \in Nat : i \in Q BY <1>5, <1>6, NatSetInduction
<1>8. Prior(v, n, n, t, side, r[n]) BY <1>3, <1>7 DEF Q
<1> QED BY <1>2, <1>8 DEF M, S, v, n

(* Events none of which is a fill. *)
Outs(u) == u \in Seq(EventSet) /\ \A i \in 1..Len(u) : u[i].type # "fill"

(* The OutEvents of at most one order are no fills.                        *)
LEMMA OutsOf ==
  ASSUME NEW D, NEW side \in Sides, D = {} \/ \E o \in OrderSet : D = {o}
  PROVE  Outs(OutEvents(D, side))
<1> DEFINE e == OutEvent(CHOOSE z \in D : TRUE, side)
           n == Cardinality(D)
           u == OutEvents(D, side)
<1>1. n \in Nat
  <2>1. IsFiniteSet(D) BY FS_EmptySet, FS_Singleton
  <2> QED BY <2>1, FS_CardinalityType
<1>2. n = 0 \/ (e \in EventSet /\ e.type = "out")
  <2>1. CASE D = {} BY <2>1, FS_EmptySet
  <2>2. CASE \E o \in OrderSet : D = {o}
    <3>1. PICK o \in OrderSet : D = {o} BY <2>2
    <3>2. (CHOOSE z \in D : TRUE) = o BY <3>1
    <3>3. OutEvent(o, side) \in EventSet /\ OutEvent(o, side).type = "out" BY OutParts
    <3> QED BY <3>2, <3>3
  <2> QED BY <2>1, <2>2
<1>3. u = [i \in 1..n |-> e] BY DEF OutEvents
<1> HIDE DEF e, n, u
<1>4. u \in [1..n -> EventSet] /\ \A i \in 1..n : u[i].type = "out" BY <1>1, <1>2, <1>3
<1>5. u \in Seq(EventSet) /\ Len(u) = n BY <1>1, <1>4, FunctionSeq
<1>6. Outs(u) BY <1>4, <1>5 DEF Outs
<1> QED BY <1>6 DEF u

(* The entries of two queues put together. *)
EntriesOf(u, s1, s2) ==
  /\ u \in Seq(EventSet) /\ Len(u) = Len(s1) + Len(s2) /\ Len(s1) \in Nat /\ Len(s2) \in Nat
  /\ \A i \in 1..Len(s1) : u[i] = s1[i]
  /\ \A i \in (Len(s1) + 1)..Len(u) : i - Len(s1) \in 1..Len(s2) /\ u[i] = s2[i - Len(s1)]

(* Where the entries of two queues put together come from.                 *)
LEMMA CatEntries ==
  ASSUME NEW s1 \in Seq(EventSet), NEW s2 \in Seq(EventSet), NEW u, u = Joined(s1, s2)
  PROVE  EntriesOf(u, s1, s2)
<1>1. /\ u \in Seq(EventSet) /\ Len(u) = Len(s1) + Len(s2)
      /\ \A i \in 1 .. Len(s1) + Len(s2) : u[i] = IF i <= Len(s1) THEN s1[i] ELSE s2[i - Len(s1)]
  BY ConcatProperties DEF Joined
<1>2. Len(s1) \in Nat /\ Len(s2) \in Nat BY LenProperties
<1> QED BY <1>1, <1>2 DEF EntriesOf

(* An entry that is a fill is not in a part without fills. *)
LEMMA NotInOuts ==
  ASSUME NEW s1 \in Seq(EventSet), NEW s2, Outs(s2), NEW u, u = Joined(s1, s2), NEW k \in 1..Len(u),
         u[k].type = "fill"
  PROVE  u \in Seq(EventSet) /\ k \in 1..Len(s1) /\ s1[k] = u[k]
<1>1. s2 \in Seq(EventSet) BY DEF Outs
<1>2. EntriesOf(u, s1, s2) BY <1>1, CatEntries
<1>3. CASE k \in 1..Len(s1) BY <1>2, <1>3 DEF EntriesOf
<1>4. CASE k \in (Len(s1) + 1)..Len(u) BY <1>2, <1>4 DEF EntriesOf, Outs
<1> QED BY <1>2, <1>3, <1>4 DEF EntriesOf

(* The new fills of a queue are those of the matching loop. *)
LEMMA FillsFrom ==
  ASSUME NEW q \in Seq(EventSet), NEW te \in Seq(EventSet), NEW d, Outs(d), NEW b, Outs(b),
         NEW q2, q2 = Joined(q, Joined(Joined(te, d), b)), NEW j \in (Len(q) + 1)..Len(q2), q2[j].type = "fill"
  PROVE  \E k \in 1..Len(te) : te[k] = q2[j]
<1> DEFINE c == Joined(te, d)
           f == Joined(c, b)
           k == j - Len(q)
<1>1. d \in Seq(EventSet) /\ b \in Seq(EventSet) BY DEF Outs
<1>2. c \in Seq(EventSet) BY <1>1, CatEntries DEF EntriesOf
<1>c. c = Joined(te, d) OBVIOUS
<1> HIDE DEF c
<1>3. f \in Seq(EventSet) BY <1>1, <1>2, CatEntries DEF EntriesOf
<1>f. f = Joined(c, b) OBVIOUS
<1>q. q2 = Joined(q, f) BY DEF c
<1> HIDE DEF f
<1>4. k \in 1..Len(f) /\ q2[j] = f[k] BY <1>3, <1>q, CatEntries DEF EntriesOf
<1> HIDE DEF k
<1>5. k \in 1..Len(c) /\ c[k] = f[k] BY <1>2, <1>4, <1>f, NotInOuts
<1>6. k \in 1..Len(te) /\ te[k] = c[k] BY <1>4, <1>5, <1>c, NotInOuts
<1> QED BY <1>4, <1>5, <1>6

(* A step that lengthens no queue fills nothing. *)
LEMMA NothingFilled ==
  ASSUME \A m \in Markets : Len(queue[m]) \in Nat /\ Len(queue'[m]) \in Nat /\ Len(queue'[m]) <= Len(queue[m])
  PROVE  FilledInTurn
<1>1. \A m \in Markets : (Len(queue[m]) + 1)..Len(queue'[m]) = {} OBVIOUS
<1>2. \A m \in Markets : NewFills(m) = {} BY <1>1 DEF NewFills
<1> QED BY <1>2 DEF FilledInTurn

(* The orders that make room leave OutEvents. *)
LEMMA RoomOuts ==
  ASSUME NEW bk \in Books, NEW side \in Sides, Keyed(bk[side]), NEW lots, NEW D, NEW B,
         MakesRoom(lots, side, bk, D, B)
  PROVE  Outs(OutEvents(D, side)) /\ Outs(OutEvents(B, side))
<1>1. bk[side] \subseteq OrderSet BY DEF Books
<1>2. D = {} \/ (\E o \in bk[side] : D = {o})
  <2>1. \A o \in bk[side] : o.expiry \in Int BY <1>1 DEF OrderSet
  <2>2. \/ OneExpired(side, bk[side], now) = {}
        \/ \E o \in bk[side] : OneExpired(side, bk[side], now) = {o}
    BY <2>1, ExpiredIn
  <2> QED BY <2>2 DEF Dropped, MakesRoom
<1> DEFINE own == bk[side] \ D
<1>5. B = {} \/ (\E o \in own : B = {o})
  <2>1. Keyed(own) BY KeyedLess
  <2>2. Cardinality(own) >= BookCap => own # {}
    <3>1. own = {} => Cardinality(own) = 0 BY FS_EmptySet
    <3>2. BookCap \in Nat \ {0} BY PerpAssumption
    <3> QED BY <3>1, <3>2
  <2> HIDE DEF own
  <2>3. own # {} => Worst(side, own) \in own BY <2>1, WorstIn
  <2>4. B = Booted(lots, side, own) BY DEF own, MakesRoom, Outside
  <2> QED BY <2>2, <2>3, <2>4 DEF Booted
<1>6. own \subseteq OrderSet BY <1>1
<1> HIDE DEF own
<1>7. Outs(OutEvents(D, side)) BY <1>1, <1>2, OutsOf
<1>8. Outs(OutEvents(B, side)) BY <1>5, <1>6, OutsOf
<1> QED BY <1>7, <1>8

(* The fills of the matching loop are in price-time order. *)
LEMMA MatchingPrior ==
  ASSUME NEW m \in Markets, NEW sq, Stage(m, book[m], queue[m], slots, sq, perp), NEW a \in Accounts,
         NEW side \in Sides, NEW price0 \in Int, NEW base \in Nat, base > 0, NEW quote \in Nat, NEW type,
         NEW limit \in Int, NEW oracle
  PROVE  LET taken == Matching(a, m, side, price0, base, quote, type, limit, oracle)
             S == book[m][invert_side(side)]
         IN  FillsInTurn(Sorted(invert_side(side), S), Cardinality(S), now, side, taken.evs, taken.rest)
<1> DEFINE opp == invert_side(side)
           S == book[m][opp]
           price == EffectivePrice(side, type, price0, S, now)
           allowed == type \notin {"ImmediateOrCancel", "Market"} /\ WithinPriceLimit(m, side, price, oracle)
           x == Match(side, type, price, base, quote, limit, allowed, a, S, now)
           taken == Matching(a, m, side, price0, base, quote, type, limit, oracle)
<1>1. allowed \in BOOLEAN OBVIOUS
<1>2. taken.evs = x.evs /\ taken.rest = x.rest BY DEF Matching
<1>3. Prior(Sorted(opp, S), Cardinality(S), Cardinality(S), now, side, x)
  <2> HIDE DEF price, allowed
  <2> QED BY <1>1, PriorAll
<1> HIDE DEF x, taken
<1>4. FillsInTurn(Sorted(opp, S), Cardinality(S), now, side, taken.evs, taken.rest) BY <1>2, <1>3 DEF Prior
<1> QED BY <1>4 DEF taken

(* A fill of the loop, said about the book before and after. *)
LEMMA InTurn ==
  ASSUME NEW S, Keyed(S), NEW opp \in Sides, NEW side, NEW t, NEW evs, NEW rest,
         FillsInTurn(Sorted(opp, S), Cardinality(S), t, side, evs, rest),
         NEW k \in 1..Len(evs), evs[k].type = "fill"
  PROVE  /\ evs[k].taker_side = side
         /\ \E o \in Valid(S, t) :
              /\ Fills(evs[k], o)
              /\ \A p \in Valid(S, t) : Before(opp, p, o) => UsedUp(rest, p)
<1> DEFINE v == Sorted(opp, S)
           n == Cardinality(S)
<1>1. n \in Nat /\ (\A i \in 1..n : v[i] \in S) BY SortedProps
<1>2. /\ \A p \in S : \E h \in 1..n : v[h] = p
      /\ \A h, j \in 1..n : Before(opp, v[h], v[j]) => h < j
  BY SortedOrder
<1> HIDE DEF v, n
<1>f. FillsInTurn(v, n, t, side, evs, rest) BY DEF v, n
<1>3. evs[k].taker_side = side BY <1>f DEF FillsInTurn
<1>4. PICK j \in 1..n : /\ is_valid(v[j], t) /\ Fills(evs[k], v[j])
                        /\ \A h \in 1..(j - 1) : is_valid(v[h], t) => UsedUp(rest, v[h])
  BY <1>f DEF FillsInTurn
<1>5. v[j] \in Valid(S, t) BY <1>1, <1>4 DEF Valid
<1>6. ASSUME NEW p \in Valid(S, t), Before(opp, p, v[j]) PROVE UsedUp(rest, p)
  <2>1. p \in S /\ is_valid(p, t) BY DEF Valid
  <2>2. PICK h \in 1..n : v[h] = p BY <1>2, <2>1
  <2>3. h < j BY <1>2, <1>6, <2>2
  <2>4. h \in 1..(j - 1) BY <1>1, <2>3
  <2> QED BY <1>4, <2>1, <2>2, <2>4
<1> QED BY <1>3, <1>4, <1>5, <1>6

(* Book::new_order fills in price-time order. *)
LEMMA OrderFills ==
  ASSUME NEW a \in Accounts, NEW m \in Markets, NEW side \in Sides, NEW price0 \in Int, NEW base \in Nat, base > 0,
         NEW quote \in Nat, NEW type, NEW expiry \in Int, NEW limit \in Int, NEW cid \in ClientIds, NEW oracle,
         NEW ref, Halls, Good(m),
         new_order(a, m, side, price0, base, quote, type, expiry, limit, cid, oracle, ref)
  PROVE  FilledInTurn
<1> DEFINE taken == Matching(a, m, side, price0, base, quote, type, limit, oracle)
           sq == market[m].seq_num
           D == Dropped(taken.resting, side, book[m][side])
           B == Booted(taken.resting, side, Outside(book[m][side], D))
           opp == invert_side(side)
           S == book[m][opp]
           te == taken.evs
           rest == taken.rest
<1>1. Stage(m, book[m], queue[m], slots, sq, perp) BY GoodParts
<1>2. Takes(m, taken, a, side, sq)
  <2> HIDE DEF sq
  <2> QED BY <1>1, MatchingTakes
<1>3. PlacedIn(a, m, side, taken, expiry, cid, ref) BY NewOrderParts
<1>4. FillsInTurn(Sorted(opp, S), Cardinality(S), now, side, te, rest)
  <2> HIDE DEF sq
  <2> QED BY <1>1, MatchingPrior
<1>5. /\ book \in [Markets -> Books] /\ queue \in [Markets -> Seq(EventSet)] BY DEF Halls
<1>6. opp \in Sides /\ opp # side BY Inverse2
<1>7. Keyed(book[m][side]) /\ Keyed(S) BY <1>1, <1>6 DEF Stage, Desk
<1> HIDE DEF taken
<1>8. te \in Seq(EventSet) BY <1>2 DEF Takes
<1>9. /\ queue' = [queue EXCEPT ![m] = NewQueue(queue[m], te, D, B, side)]
      /\ \E own : book' = [book EXCEPT ![m] = [book[m] EXCEPT ![opp] = rest, ![side] = own]]
  BY <1>3 DEF PlacedIn, NewQueue, Outside
<1>10. Outs(OutEvents(D, side)) /\ Outs(OutEvents(B, side))
  <2> DEFINE lots == taken.resting
  <2>1. MakesRoom(lots, side, book[m], D, B) BY DEF MakesRoom
  <2>2. book[m] \in Books BY <1>5
  <2> HIDE DEF lots, D, B
  <2> QED BY <1>7, <2>1, <2>2, RoomOuts
<1>11. book'[m][opp] = rest
  <2>1. PICK own : book' = [book EXCEPT ![m] = [book[m] EXCEPT ![opp] = rest, ![side] = own]] BY <1>9
  <2>2. book[m] \in [Sides -> SUBSET OrderSet] BY <1>5 DEF Books
  <2> HIDE DEF opp, rest
  <2> QED BY <1>5, <1>6, <2>1, <2>2
<1>12. queue'[m] = Joined(queue[m], Joined(Joined(te, OutEvents(D, side)), OutEvents(B, side)))
  BY <1>5, <1>9 DEF NewQueue, Joined
<1>13. \A n \in Markets : n # m => queue'[n] = queue[n] BY <1>5, <1>9
<1> HIDE DEF D, B, te, rest, S
<1> SUFFICES ASSUME NEW n \in Markets, NEW e \in NewFills(n)
             PROVE  LET d == invert_side(e.taker_side)
                    IN  \E o \in Valid(book[n][d], now) :
                          /\ o.owner = e.maker /\ o.slot = e.maker_slot /\ o.price = e.price
                          /\ \A p \in Valid(book[n][d], now) :
                               Before(d, p, o) => \A q \in book'[n][d] : q.seq # p.seq
  BY DEF FilledInTurn
<1>14. PICK j \in (Len(queue[n]) + 1)..Len(queue'[n]) : queue'[n][j].type = "fill" /\ e = queue'[n][j]
  BY DEF NewFills
<1>15. n = m
  <2> SUFFICES ASSUME n # m PROVE FALSE OBVIOUS
  <2>1. queue'[n] = queue[n] /\ Len(queue[n]) \in Nat BY <1>5, <1>13, LenProperties
  <2>2. (Len(queue[n]) + 1)..Len(queue'[n]) = {} BY <2>1
  <2> QED BY <1>14, <2>2
<1>16. PICK k \in 1..Len(te) : te[k] = e
  <2> DEFINE q2 == queue'[m]
             q1 == queue[m]
             d1 == OutEvents(D, side)
             d2 == OutEvents(B, side)
  <2>1. q1 \in Seq(EventSet) BY <1>5
  <2>2. Outs(d1) /\ Outs(d2) /\ q2 = Joined(q1, Joined(Joined(te, d1), d2)) BY <1>10, <1>12
  <2>3. j \in (Len(q1) + 1)..Len(q2) /\ q2[j].type = "fill" /\ e = q2[j] BY <1>14, <1>15
  <2> HIDE DEF q1, q2, d1, d2
  <2> QED BY <1>8, <2>1, <2>2, <2>3, FillsFrom
<1>17. te[k].type = "fill" BY <1>14, <1>16
<1>18. /\ te[k].taker_side = side
       /\ \E o \in Valid(S, now) :
            /\ Fills(te[k], o)
            /\ \A p \in Valid(S, now) : Before(opp, p, o) => UsedUp(rest, p)
  <2> HIDE DEF opp
  <2> QED BY <1>4, <1>6, <1>7, <1>17, InTurn
<1>19. invert_side(e.taker_side) = opp /\ book[n][opp] = S /\ book'[n][opp] = rest
  BY <1>11, <1>15, <1>16, <1>18 DEF S
<1>20. PICK o \in Valid(S, now) :
         /\ Fills(e, o)
         /\ \A p \in Valid(S, now) : Before(opp, p, o) => UsedUp(rest, p)
  BY <1>16, <1>18
<1> HIDE DEF opp
<1> QED BY <1>19, <1>20 DEF Fills, UsedUp

(* A step that leaves the queues alone fills nothing.                      *)
LEMMA QueueSame ==
  ASSUME Inv, queue' = queue PROVE FilledInTurn
<1>1. \A m \in Markets : queue[m] \in Seq(EventSet) BY DEF Inv, Halls
<1>2. \A m \in Markets : Len(queue[m]) \in Nat BY <1>1, LenProperties
<1>3. \A m \in Markets : Len(queue[m]) <= Len(queue[m]) BY <1>2
<1> QED BY <1>2, <1>3, NothingFilled

(* consume_events fills nothing.                                           *)
LEMMA ConsumeFills ==
  ASSUME Inv, NEW m \in Markets, NEW limit \in ConsumeLimits, NEW passed, consume_events(m, limit, passed)
  PROVE  FilledInTurn
<1> DEFINE n == Consumed(m, limit, passed)
<1>0. queue \in [Markets -> Seq(EventSet)] BY DEF Inv, Halls
<1>1. limit \in Nat BY InputAssumption
<1>2. n \in 0..Len(queue[m]) BY <1>0, <1>1, ConsumedIn
<1>3. queue' = [queue EXCEPT ![m] = Drop(queue[m], n)] BY <1>0 DEF consume_events, Drop
<1> HIDE DEF n
<1>4. \A k \in Markets : Len(queue[k]) \in Nat BY <1>0, LenProperties
<1>5. Len(Drop(queue[m], n)) = Len(queue[m]) - n BY <1>0, <1>2, DropProps
<1>6. \A k \in Markets : Len(queue'[k]) \in Nat /\ Len(queue'[k]) <= Len(queue[k])
  <2> SUFFICES ASSUME NEW k \in Markets PROVE Len(queue'[k]) \in Nat /\ Len(queue'[k]) <= Len(queue[k]) OBVIOUS
  <2>1. CASE k = m
    <3>1. queue'[k] = Drop(queue[m], n) BY <1>0, <1>3, <2>1
    <3> QED BY <1>2, <1>4, <1>5, <2>1, <3>1
  <2>2. CASE k # m
    <3>1. queue'[k] = queue[k] BY <1>0, <1>3, <2>2
    <3> QED BY <1>4, <3>1
  <2> QED BY <2>1, <2>2
<1> QED BY <1>4, <1>6, NothingFilled

(* The place instructions fill in price-time order.                        *)
LEMMA PlaceFills ==
  ASSUME Inv, NEW a \in Accounts, NEW m \in Markets, NEW side \in Sides, NEW price \in Int, NEW qty \in Nat,
         NEW quote \in Nat, NEW type, NEW reduce_only, NEW expiry \in Int, NEW limit \in Int, NEW cid \in ClientIds,
         PlaceOrder(a, m, side, price, qty, quote, type, reduce_only, expiry, limit, cid)
  PROVE  FilledInTurn
<1> DEFINE base == IF reduce_only THEN ReducedQuantity(a, m, side, qty) ELSE qty
<1>0. Good(m) /\ Halls BY DEF Inv
<1>1. base \in Int
  <2>1. ReducedQuantity(a, m, side, qty) \in Int BY <1>0, ReducedInt
  <2>2. qty \in Int OBVIOUS
  <2> QED BY <2>1, <2>2
<1>3. \/ queue' = queue
      \/ /\ base > 0
         /\ \E oracle \in OraclePrices, ref \in RefVars(a) :
              new_order(a, m, side, price, base, quote, type, expiry, limit, cid, oracle, ref)
  BY DEF PlaceOrder
<1> HIDE DEF base
<1>4. CASE queue' = queue BY <1>4, QueueSame
<1>5. CASE /\ base > 0
           /\ \E oracle \in OraclePrices, ref \in RefVars(a) :
                new_order(a, m, side, price, base, quote, type, expiry, limit, cid, oracle, ref)
  <2>1. base \in Nat /\ base > 0 BY <1>1, <1>5
  <2>2. PICK oracle \in OraclePrices, ref \in RefVars(a) :
               new_order(a, m, side, price, base, quote, type, expiry, limit, cid, oracle, ref)
    BY <1>5
  <2> QED BY <1>0, <2>1, <2>2, OrderFills
<1> QED BY <1>3, <1>4, <1>5

(* So does every step.                                                     *)
LEMMA NextFills ==
  ASSUME Inv, [Next]_vars
  PROVE  FilledInTurn
<1>1. CASE \E a \in Accounts, m \in Markets : place_perp_order(a, m)
  <2>1. PICK a \in Accounts, m \in Markets : place_perp_order(a, m) BY <1>1
  <2>2. Prices \subseteq Int /\ Quantities \subseteq Nat BY InputAssumption
  <2>3. NoExpiry \in Int /\ Unbounded \in Nat /\ Unbounded \in Int /\ MaxFills \in Int BY BookAssumption, PerpAssumption
  <2>4. PICK side \in Sides, price \in Prices, qty \in Quantities, type \in OrderTypes,
             reduce_only \in ReduceOnly, cid \in ClientIds :
          PlaceOrder(a, m, side, price, qty, Unbounded, type, reduce_only, NoExpiry, MaxFills, cid)
    BY <2>1 DEF place_perp_order
  <2>5. price \in Int /\ qty \in Nat BY <2>2
  <2> QED BY <2>3, <2>4, <2>5, PlaceFills
<1>2. CASE \E a \in Accounts, m \in Markets : place_perp_order2(a, m)
  <2>1. PICK a \in Accounts, m \in Markets : place_perp_order2(a, m) BY <1>2
  <2>2. Prices \subseteq Int /\ Quantities \subseteq Nat /\ MaxQuotes \subseteq Nat /\ MatchLimits \subseteq Nat
    BY InputAssumption
  <2>3. PICK side \in Sides, price \in Prices, qty \in Quantities, quote \in MaxQuotes,
       type \in OrderTypes, reduce_only \in ReduceOnly, limit \in MatchLimits,
       cid \in ClientIds,
       expiry \in UNION ({AbsoluteExpiry(ts) : ts \in AbsoluteExpiries}
                           \cup {RelativeExpiry(tif) : tif \in RelativeExpiries}) :
      PlaceOrder(a, m, side, price, qty, quote, type, reduce_only, expiry, limit, cid)
    BY <2>1 DEF place_perp_order2
  <2>4. price \in Int /\ qty \in Nat /\ quote \in Nat /\ limit \in Int BY <2>2
  <2>5. expiry \in Int BY ExpiryInt DEF Inv
  <2> QED BY <2>3, <2>4, <2>5, PlaceFills
<1>3. CASE \E a \in Accounts, m \in Markets :
             \/ cancel_perp_order(a, m) \/ cancel_perp_order_by_client_id(a, m)
             \/ cancel_all_perp_orders(a, m) \/ cancel_perp_orders_side(a, m)
             \/ force_cancel_perp_orders(a, m) \/ force_cancel_recovered(a, m)
  <2>1. queue' = queue
    BY <1>3, ZenonT(60) DEF cancel_perp_order, cancel_perp_order_by_client_id, cancel_all_perp_orders, CancelSlot,
                cancel_perp_orders_side, force_cancel_perp_orders, force_cancel_recovered
  <2> QED BY <2>1, QueueSame, SMTT(30)
<1>4. CASE \E m \in Markets, limit \in ConsumeLimits, passed \in SUBSET Accounts : consume_events(m, limit, passed)
  BY <1>4, ConsumeFills
<1>5. CASE \E m \in Markets :
             update_funding(m) \/ cache_perp_markets(m) \/ (\E mode \in ModeChanges : set_market_mode(m, mode))
  <2>1. queue' = queue BY <1>5 DEF update_funding, cache_perp_markets, set_market_mode
  <2> QED BY <2>1, QueueSame
<1>6. CASE Tick \/ UNCHANGED vars
  <2>1. queue' = queue BY <1>6 DEF Tick, vars
  <2> QED BY <2>1, QueueSame
<1> QED BY <1>1, <1>2, <1>3, <1>4, <1>5, <1>6 DEF Next

(* A trigger order that is executed fills in price-time order.             *)
LEMMA ExecuteFills ==
  ASSUME AdvancedInv, NEW a \in Accounts, NEW i \in 1..NumAdvanced, NEW oracle,
         execute_perp_trigger_order(a, i, oracle)
  PROVE  FilledInTurn
<1> DEFINE order == advanced[a].orders[i]
           m == order.market
           qty == TriggeredQuantity(a, order)
<1>1. Inv /\ Parked BY DEF AdvancedInv
<1>2. order \in TriggerOrders
  <2>1. i \in Active(a) BY DEF execute_perp_trigger_order
  <2> QED BY <1>1, <2>1 DEF Parked, Active
<1>3. /\ m \in Markets /\ order.side \in Sides /\ order.price \in Int /\ order.cid \in ClientIds
  BY <1>2, AdvancedAssumption
<1>4. qty \in Int BY <1>1, <1>2, TriggeredInt
<1>6. \/ queue' = queue
      \/ /\ qty > 0
         /\ \E rate \in {0} \cup RefSurcharges :
              new_order(a, m, order.side, order.price, qty, Unbounded, order.type,
                        NoExpiry, MaxFills, order.cid, oracle, [rate |-> rate, to |-> Nobody])
  BY DEF execute_perp_trigger_order
<1>7. CASE queue' = queue BY <1>1, <1>7, QueueSame
<1>8. CASE /\ qty > 0
           /\ \E rate \in {0} \cup RefSurcharges :
                new_order(a, m, order.side, order.price, qty, Unbounded, order.type,
                          NoExpiry, MaxFills, order.cid, oracle, [rate |-> rate, to |-> Nobody])
  <2>1. PICK rate \in {0} \cup RefSurcharges :
          new_order(a, m, order.side, order.price, qty, Unbounded, order.type,
                    NoExpiry, MaxFills, order.cid, oracle, [rate |-> rate, to |-> Nobody])
    BY <1>8
  <2> DEFINE ref == [rate |-> rate, to |-> Nobody]
             type == order.type
             side == order.side
             price == order.price
             cid == order.cid
  <2>3. new_order(a, m, side, price, qty, Unbounded, type, NoExpiry, MaxFills, cid, oracle, ref) BY <2>1
  <2>4. qty \in Nat /\ qty > 0 BY <1>4, <1>8
  <2>5. Unbounded \in Nat /\ Unbounded \in Int /\ MaxFills \in Int /\ NoExpiry \in Int BY BookAssumption, PerpAssumption
  <2>6. Good(m) /\ Halls BY <1>1, <1>3 DEF Inv
  <2>7. side \in Sides /\ price \in Int /\ cid \in ClientIds BY <1>3
  <2> HIDE DEF ref, order, m, qty, type, side, price, cid
  <2>8. PICK n \in Markets : n = m BY <1>3
  <2>9. Good(n) /\ new_order(a, n, side, price, qty, Unbounded, type, NoExpiry, MaxFills, cid, oracle, ref)
    BY <2>3, <2>6, <2>8
  <2> QED BY <2>4, <2>5, <2>6, <2>7, <2>9, OrderFills
<1> QED BY <1>6, <1>7, <1>8

(* So does every step with trigger orders.                                 *)
LEMMA AdvancedFills ==
  ASSUME AdvancedInv, [AdvancedNext]_advancedVars
  PROVE  FilledInTurn
<1>0. Inv BY DEF AdvancedInv
<1>1. CASE Next BY <1>0, <1>1, NextFills
<1>2. CASE \E a \in TriggerUsers, i \in 1..NumAdvanced, oracle \in OraclePrices : execute_perp_trigger_order(a, i, oracle)
  <2>1. TriggerUsers \subseteq Accounts BY AdvancedAssumption
  <2> QED BY <1>2, <2>1, ExecuteFills
<1>3. CASE \E a \in TriggerUsers :
             \/ init_advanced_orders(a) \/ close_advanced_orders(a)
             \/ \E order \in TriggerOrders : add_perp_trigger_order(a, order)
             \/ \E i \in 1..NumAdvanced : remove_advanced_order(a, i)
             \/ cancel_all_advanced_orders(a)
  <2>1. queue' = queue
    BY <1>3 DEF init_advanced_orders, close_advanced_orders, add_perp_trigger_order, remove_advanced_order,
                cancel_all_advanced_orders, vars
  <2> QED BY <1>0, <2>1, QueueSame
<1>4. CASE UNCHANGED advancedVars
  <2>1. queue' = queue BY <1>4 DEF advancedVars, vars
  <2> QED BY <1>0, <2>1, QueueSame
<1> QED BY <1>1, <1>2, <1>3, <1>4 DEF AdvancedNext

(* Price-time priority: whatever the expired orders in the way, the limit  *)
(* on fills, the quote limit and the part of an order left over, a fill is *)
(* of a valid resting order at its own price, and no valid order in front  *)
(* of it survives the instruction.                                         *)
THEOREM FillsKeepPriority == (Spec => PriceTimePriority) /\ (AdvancedSpec => PriceTimePriority)
<1>1. Inv /\ [Next]_vars => [FilledInTurn]_vars BY NextFills
<1>2. AdvancedInv /\ [AdvancedNext]_advancedVars => [FilledInTurn]_vars BY AdvancedFills
<1>3. Spec => PriceTimePriority BY <1>1, MarketsInv, PTL DEF Spec, PriceTimePriority
<1>4. AdvancedSpec => PriceTimePriority BY <1>2, AdvancedInvariant, PTL DEF AdvancedSpec, PriceTimePriority
<1> QED BY <1>3, <1>4
=============================================================================
