-------------------------- MODULE OrderFlowProofs --------------------------
(***************************************************************************)
(* What becomes of orders, for any accounts, markets, slots, books, queues *)
(* and inputs: PerpMarket implements the order ledger, the simulation of   *)
(* an order foresees what matching it does, and the book is never crossed  *)
(* unless a quote limit binds.  All rest on the inductive invariant of     *)
(* PerpMarketProofs.                                                       *)
(***************************************************************************)
EXTENDS PerpMarketProofs

-----------------------------------------------------------------------------
(***************************************************************************)
(* PerpMarket implements OrderLedger.  The ledger sees an event only by    *)
(* the place it frees, so the first lemmas are about Freeing, the places a *)
(* queue will free; then the places of resting orders and of events are    *)
(* told apart before and after each kind of step; then the steps are       *)
(* mapped one by one.                                                      *)
(***************************************************************************)


(* The place an event is about. *)
PlaceOf(e) == <<Who(e), Which(e)>>

Places == Accounts \X Slot

(* The place an event frees, if it frees one, is added to a list. *)
LEMMA FreedStepOf ==
  ASSUME NEW l \in Seq(Places), NEW e \in EventSet
  PROVE  /\ FreedNext(l, e) = (IF Frees(e) THEN Append(l, PlaceOf(e)) ELSE l)
         /\ FreedNext(l, e) \in Seq(Places) /\ PlaceOf(e) \in Places
<1>1. e.type = "out" \/ e.type = "fill" BY DEF EventSet, OutSet, FillSet
<1>2. FreedPlace(e) = PlaceOf(e) BY DEF FreedPlace, PlaceOf, Who, Which
<1>3. (e.type = "out" \/ e.maker_out) <=> Frees(e) BY <1>1 DEF Frees
<1>4. PlaceOf(e) \in Places BY EventParts DEF PlaceOf, Places
<1>5. FreedNext(l, e) = (IF Frees(e) THEN Append(l, PlaceOf(e)) ELSE l) BY <1>2, <1>3 DEF FreedNext
<1>6. Append(l, PlaceOf(e)) \in Seq(Places) BY <1>4
<1> QED BY <1>4, <1>5, <1>6

(* The places freed by the events of a queue, one event at a time. *)
FreedChain(r, q) ==
  /\ r[0] = <<>>
  /\ \A i \in 1..Len(q) : r[i] = FreedNext(r[i - 1], q[i])
  /\ r[Len(q)] = Freeing(q)

(* Freeing is the end of such a chain. *)
LEMMA FreedChainExists ==
  ASSUME NEW q \in Seq(EventSet)
  PROVE  \E r : FreedChain(r, q)
<1> DEFINE p == [op |-> "frees"]
           n == Len(q)
<1>1. n \in Nat /\ DOMAIN q = 1..n BY LenProperties
<1>2. q # <<>> => Freeing(q) = Run(p, <<>>, q)
  <2>0. SUFFICES ASSUME q # <<>> PROVE Freeing(q) = Run(p, <<>>, q) OBVIOUS
  <2>1. Freeing(q) = (CHOOSE g : RunEq(g, p, <<>>, q))[DOMAIN q]
    BY <2>0 DEF Freeing, FoldLeft, MapThenFoldSet, RunEq, RunStep
  <2> QED BY <2>1 DEF Run
<1>e. q = <<>> => Freeing(q) = <<>> /\ n = 0 BY DEF Freeing
<1>p. p.op = "frees" OBVIOUS
<1> HIDE DEF p, n
<1>3. PICK r : /\ r[0] = <<>>
               /\ \A i \in 1..n : r[i] = RunStep(p, r[i - 1], q[i])
               /\ r[n] = Run(p, <<>>, q)
  BY <1>1, RunChain
<1>4. \A i \in 1..n : r[i] = FreedNext(r[i - 1], q[i]) BY <1>3, <1>p DEF RunStep
<1>5. r[n] = Freeing(q) BY <1>2, <1>3, <1>e
<1> QED BY <1>3, <1>4, <1>5 DEF FreedChain, n

(* What a list of freed places says about the first i events. *)
FreedBy(l, q, i) ==
  /\ l \in Seq(Places) /\ Len(l) <= i
  /\ \A k \in 1..Len(l) : \E j \in 1..i : Frees(q[j]) /\ PlaceOf(q[j]) = l[k]
  /\ \A j \in 1..i : Frees(q[j]) => \E k \in 1..Len(l) : PlaceOf(q[j]) = l[k]
  /\ Once(q) => \A k, h \in 1..Len(l) : l[k] = l[h] => k = h

(* One more event. *)
LEMMA FreedByNext ==
  ASSUME NEW q \in Seq(EventSet), NEW i \in Nat, i + 1 \in 1..Len(q), NEW l, FreedBy(l, q, i)
  PROVE  FreedBy(FreedNext(l, q[i + 1]), q, i + 1)
<1> DEFINE e == q[i + 1]
           u == Append(l, PlaceOf(e))
<1>0. e \in EventSet BY ElementOfSeq
<1>1. l \in Seq(Places) /\ Len(l) \in Nat /\ Len(l) <= i BY LenProperties DEF FreedBy
<1>2. /\ FreedNext(l, e) = (IF Frees(e) THEN u ELSE l)
      /\ FreedNext(l, e) \in Seq(Places) /\ PlaceOf(e) \in Places
  BY <1>0, <1>1, FreedStepOf
<1>3. /\ u \in Seq(Places) /\ Len(u) = Len(l) + 1 /\ u[Len(l) + 1] = PlaceOf(e)
      /\ \A k \in 1..Len(l) : u[k] = l[k]
  BY <1>1, <1>2, AppendProperties
<1>4. \A j \in 1..(i + 1) : j \in 1..i \/ j = i + 1 OBVIOUS
<1>5. \A j \in 1..i : j \in 1..(i + 1) OBVIOUS
<1>6. i + 1 \in 1..(i + 1) OBVIOUS
<1>7. CASE ~Frees(e)
  <2>1. FreedBy(l, q, i + 1) BY <1>1, <1>4, <1>5, <1>7 DEF FreedBy
  <2> QED BY <1>2, <1>7, <2>1
<1>8. CASE Frees(e)
  <2>a. \A k \in 1..Len(u) : k \in 1..Len(l) \/ k = Len(l) + 1 BY <1>1, <1>3
  <2>b. \A k \in 1..Len(l) : k \in 1..Len(u) BY <1>1, <1>3
  <2>c. Len(l) + 1 \in 1..Len(u) BY <1>1, <1>3
  <2>d. Len(u) <= i + 1 BY <1>1, <1>3
  <2> HIDE DEF u, e
  <2>1. ASSUME NEW k \in 1..Len(u) PROVE \E j \in 1..(i + 1) : Frees(q[j]) /\ PlaceOf(q[j]) = u[k]
    <3>1. CASE k \in 1..Len(l)
      <4>1. PICK j \in 1..i : Frees(q[j]) /\ PlaceOf(q[j]) = l[k] BY <3>1 DEF FreedBy
      <4> QED BY <1>3, <1>5, <3>1, <4>1
    <3>2. CASE k = Len(l) + 1 BY <1>3, <1>6, <1>8, <3>2 DEF e
    <3> QED BY <2>a, <3>1, <3>2
  <2>2. ASSUME NEW j \in 1..(i + 1), Frees(q[j]) PROVE \E k \in 1..Len(u) : PlaceOf(q[j]) = u[k]
    <3>1. CASE j \in 1..i
      <4>1. PICK k \in 1..Len(l) : PlaceOf(q[j]) = l[k] BY <2>2, <3>1 DEF FreedBy
      <4> QED BY <1>3, <2>b, <4>1
    <3>2. CASE j = i + 1 BY <1>3, <2>c, <3>2 DEF e
    <3> QED BY <1>4, <3>1, <3>2
  <2>3. ASSUME Once(q), NEW k \in 1..Len(u), NEW h \in 1..Len(u), u[k] = u[h] PROVE k = h
    <3>1. ASSUME NEW g \in 1..Len(l) PROVE l[g] # PlaceOf(e)
      <4> SUFFICES ASSUME l[g] = PlaceOf(e) PROVE FALSE OBVIOUS
      <4>1. PICK j \in 1..i : Frees(q[j]) /\ PlaceOf(q[j]) = l[g] BY DEF FreedBy
      <4>2. Who(q[j]) = Who(e) /\ Which(q[j]) = Which(e) BY <4>1 DEF PlaceOf
      <4>3. j \in 1..Len(q) /\ j # i + 1 BY LenProperties
      <4> QED BY <1>8, <2>3, <4>1, <4>2, <4>3 DEF Once, e
    <3>2. CASE k \in 1..Len(l) /\ h \in 1..Len(l) BY <1>3, <2>3, <3>2 DEF FreedBy
    <3> QED BY <1>3, <2>3, <2>a, <3>1, <3>2
  <2>4. FreedBy(u, q, i + 1) BY <1>3, <2>d, <2>1, <2>2, <2>3 DEF FreedBy
  <2> QED BY <1>2, <1>8, <2>4 DEF e, u
<1> QED BY <1>7, <1>8

(* The places a queue will free: each is freed by one of its events. *)
LEMMA FreeingProps ==
  ASSUME NEW q \in Seq(EventSet)
  PROVE  FreedBy(Freeing(q), q, Len(q))
<1>0. Len(q) \in Nat BY LenProperties
<1>1. PICK r : FreedChain(r, q) BY FreedChainExists
<1> DEFINE Q == {i \in Nat : i <= Len(q) => FreedBy(r[i], q, i)}
<1>2. 0 \in Q
  <2>1. Len(<<>>) = 0 /\ <<>> \in Seq(Places) BY EmptySeq
  <2>2. FreedBy(<<>>, q, 0) BY <2>1 DEF FreedBy
  <2> QED BY <1>1, <2>2 DEF FreedChain
<1>3. ASSUME NEW i \in Nat, i \in Q PROVE i + 1 \in Q
  <2> SUFFICES ASSUME i + 1 <= Len(q) PROVE FreedBy(r[i + 1], q, i + 1) OBVIOUS
  <2>1. i <= Len(q) /\ i + 1 \in 1..Len(q) /\ (i + 1) - 1 = i BY <1>0
  <2>2. FreedBy(r[i], q, i) BY <1>3, <2>1
  <2>3. r[i + 1] = FreedNext(r[i], q[i + 1]) BY <1>1, <2>1 DEF FreedChain
  <2> HIDE DEF Q
  <2> QED BY <2>1, <2>2, <2>3, FreedByNext
<1> HIDE DEF Q
<1>4. Len(q) \in Q BY <1>0, <1>2, <1>3, NatSetInduction
<1> QED BY <1>0, <1>1, <1>4 DEF Q, FreedChain

(* Every link of a chain is a sequence of places.                          *)
LEMMA FreedLinks ==
  ASSUME NEW q \in Seq(EventSet), NEW r, FreedChain(r, q)
  PROVE  \A i \in 0..Len(q) : r[i] \in Seq(Places)
<1>0. Len(q) \in Nat BY LenProperties
<1> DEFINE Q == {i \in Nat : i <= Len(q) => r[i] \in Seq(Places)}
<1>2. 0 \in Q
  <2>1. <<>> \in Seq(Places) BY EmptySeq
  <2> QED BY <2>1 DEF FreedChain
<1>3. ASSUME NEW i \in Nat, i \in Q PROVE i + 1 \in Q
  <2> SUFFICES ASSUME i + 1 <= Len(q) PROVE r[i + 1] \in Seq(Places) OBVIOUS
  <2>1. i <= Len(q) /\ i + 1 \in 1..Len(q) /\ (i + 1) - 1 = i BY <1>0
  <2>2. r[i] \in Seq(Places) BY <1>3, <2>1
  <2>3. r[i + 1] = FreedNext(r[i], q[i + 1]) BY <2>1 DEF FreedChain
  <2>4. q[i + 1] \in EventSet BY <2>1, ElementOfSeq
  <2> HIDE DEF Q
  <2> QED BY <2>2, <2>3, <2>4, FreedStepOf
<1> HIDE DEF Q
<1>4. \A i \in Nat : i \in Q BY <1>2, <1>3, NatSetInduction
<1> QED BY <1>0, <1>4 DEF Q

(* Two lists of places put together. *)
Cat(l, k) == l \o k

(* Adding a place to the second of two lists adds it to both.              *)
LEMMA FreedCat ==
  ASSUME NEW l \in Seq(Places), NEW k \in Seq(Places), NEW e \in EventSet
  PROVE  FreedNext(Cat(l, k), e) = Cat(l, FreedNext(k, e))
<1>1. Cat(l, k) \in Seq(Places) BY ConcatProperties DEF Cat
<1>2. PlaceOf(e) \in Places BY <1>1, FreedStepOf
<1>3. Append(Cat(l, k), PlaceOf(e)) = Cat(l, Append(k, PlaceOf(e)))
  <2> DEFINE x == PlaceOf(e)
  <2> HIDE DEF x
  <2>1. x \in Places BY <1>2 DEF x
  <2>2. l \o Append(k, x) = Append(l \o k, x) BY <2>1, ConcatAppend
  <2> QED BY <2>2 DEF Cat, x
<1>4. FreedNext(Cat(l, k), e) = (IF Frees(e) THEN Append(Cat(l, k), PlaceOf(e)) ELSE Cat(l, k))
  BY <1>1, FreedStepOf
<1>5. FreedNext(k, e) = (IF Frees(e) THEN Append(k, PlaceOf(e)) ELSE k) BY FreedStepOf
<1> QED BY <1>3, <1>4, <1>5

(* The places two queues put together will free. *)
LEMMA FreeingCat ==
  ASSUME NEW s1 \in Seq(EventSet), NEW s2 \in Seq(EventSet)
  PROVE  Freeing(Joined(s1, s2)) = Cat(Freeing(s1), Freeing(s2))
<1> DEFINE u == Joined(s1, s2)
           n == Len(s1)
           k == Len(s2)
<1>0. /\ n \in Nat /\ k \in Nat /\ u \in Seq(EventSet) /\ Len(u) = n + k
      /\ \A i \in 1..n : u[i] = s1[i]
      /\ \A i \in 1..k : u[n + i] = s2[i]
  BY LenProperties DEF Joined
<1> HIDE DEF u
<1>1. PICK r : FreedChain(r, u) BY <1>0, FreedChainExists
<1>2. PICK x : FreedChain(x, s1) BY FreedChainExists
<1>3. PICK y : FreedChain(y, s2) BY FreedChainExists
<1>a. \A i \in 0..k : y[i] \in Seq(Places) BY <1>3, FreedLinks
<1>b. x[n] \in Seq(Places)
  <2> n \in 0..n BY <1>0
  <2> QED BY <1>2, FreedLinks
<1> HIDE DEF n, k
<1>4. r[n] = x[n]
  <2> DEFINE Q == {i \in Nat : i <= n => r[i] = x[i]}
  <2>1. 0 \in Q BY <1>1, <1>2 DEF FreedChain
  <2>2. ASSUME NEW i \in Nat, i \in Q PROVE i + 1 \in Q
    <3> SUFFICES ASSUME i + 1 <= n PROVE r[i + 1] = x[i + 1] OBVIOUS
    <3>1. i <= n /\ i + 1 \in 1..n /\ (i + 1) - 1 = i /\ i + 1 \in 1..Len(u) BY <1>0
    <3>2. r[i + 1] = FreedNext(r[i], u[i + 1]) BY <1>1, <3>1 DEF FreedChain
    <3>3. x[i + 1] = FreedNext(x[i], s1[i + 1]) BY <1>2, <3>1 DEF FreedChain, n
    <3>4. r[i] = x[i] BY <2>2, <3>1
    <3>5. u[i + 1] = s1[i + 1] BY <1>0, <3>1
    <3> QED BY <3>2, <3>3, <3>4, <3>5
  <2> HIDE DEF Q
  <2>3. n \in Q BY <1>0, <2>1, <2>2, NatSetInduction
  <2> QED BY <1>0, <2>3 DEF Q
<1>5. r[n + k] = Cat(x[n], y[k])
  <2> DEFINE Q == {i \in Nat : i <= k => r[n + i] = Cat(x[n], y[i])}
  <2>1. 0 \in Q
    <3>1. n + 0 = n BY <1>0
    <3>2. y[0] = <<>> BY <1>3 DEF FreedChain
    <3>3. Cat(x[n], <<>>) = x[n] BY <1>b, ConcatEmptySeq DEF Cat
    <3> QED BY <1>4, <3>1, <3>2, <3>3
  <2>2. ASSUME NEW i \in Nat, i \in Q PROVE i + 1 \in Q
    <3> SUFFICES ASSUME i + 1 <= k PROVE r[n + (i + 1)] = Cat(x[n], y[i + 1]) OBVIOUS
    <3>1. /\ i <= k /\ i + 1 \in 1..k /\ (i + 1) - 1 = i /\ i \in 0..k
          /\ n + (i + 1) \in 1..Len(u) /\ (n + (i + 1)) - 1 = n + i
      BY <1>0
    <3>2. r[n + (i + 1)] = FreedNext(r[n + i], u[n + (i + 1)]) BY <1>1, <3>1 DEF FreedChain
    <3>3. y[i + 1] = FreedNext(y[i], s2[i + 1]) BY <1>3, <3>1 DEF FreedChain, k
    <3>4. r[n + i] = Cat(x[n], y[i]) BY <2>2, <3>1
    <3>5. u[n + (i + 1)] = s2[i + 1] BY <1>0, <3>1
    <3>6. y[i] \in Seq(Places) /\ s2[i + 1] \in EventSet BY <1>a, <3>1, ElementOfSeq DEF k
    <3>7. FreedNext(Cat(x[n], y[i]), s2[i + 1]) = Cat(x[n], FreedNext(y[i], s2[i + 1])) BY <1>b, <3>6, FreedCat
    <3> QED BY <3>2, <3>3, <3>4, <3>5, <3>7
  <2> HIDE DEF Q
  <2>3. k \in Q BY <1>0, <2>1, <2>2, NatSetInduction
  <2> QED BY <1>0, <2>3 DEF Q
<1>6. r[n + k] = Freeing(u) BY <1>0, <1>1 DEF FreedChain
<1>7. x[n] = Freeing(s1) /\ y[k] = Freeing(s2) BY <1>2, <1>3 DEF FreedChain, n, k
<1> QED BY <1>5, <1>6, <1>7 DEF u


(* The places held for orders of market m, those of resting orders, and    *)
(* those queued events will free.                                          *)
At(sl, p) == sl[p[1]][p[2]]
HeldFor(m, sl) == {p \in Places : Mine(m, At(sl, p))}
RestPlaces(bk) == {<<o.owner, o.slot>> : o \in bk["bid"] \cup bk["ask"]}
FreedPlaces(q) == {p \in Places : \E j \in 1..Len(q) : Frees(q[j]) /\ PlaceOf(q[j]) = p}

(* The order in a place as the ledger sees it. *)
Slip(sl, p) == [seq |-> At(sl, p).seq, place |-> p]

(* A place is an account and a slot.                                       *)
LEMMA PlaceParts ==
  /\ \A p \in Places : p[1] \in Accounts /\ p[2] \in Slot /\ p = <<p[1], p[2]>>
  /\ \A a \in Accounts, s \in Slot : <<a, s>> \in Places /\ <<a, s>>[1] = a /\ <<a, s>>[2] = s
BY DEF Places

(* A place held for a market is a resting order's or will be freed by an   *)
(* event, and not both.                                                    *)
LEMMA Tenants ==
  ASSUME NEW m, NEW bk, NEW q, NEW sl, NEW sq, Desk(m, bk, q, sl, sq)
  PROVE  /\ HeldFor(m, sl) = RestPlaces(bk) \cup FreedPlaces(q)
         /\ RestPlaces(bk) \cap FreedPlaces(q) = {}
         /\ OnBook(bk) = {Slip(sl, p) : p \in RestPlaces(bk)}
<1> DEFINE B == bk["bid"] \cup bk["ask"]
<1>0. "bid" \in Sides /\ "ask" \in Sides BY DEF Sides
<1>1. /\ bk \in Books /\ q \in Seq(EventSet) /\ sl \in Tables
      /\ Listed(m, bk, sl) /\ Waiting(m, q, sl) /\ Gone(bk, q) /\ Found(m, bk, q, sl)
  BY DEF Desk
<1>2. ASSUME NEW o \in B
      PROVE  /\ <<o.owner, o.slot>> \in Places /\ o.owner \in Accounts /\ o.slot \in Slot
             /\ Mine(m, sl[o.owner][o.slot]) /\ sl[o.owner][o.slot].seq = o.seq
  <2>1. o \in OrderSet BY <1>0, <1>1 DEF Books
  <2>2. o.owner \in Accounts /\ o.slot \in Slot BY <2>1 DEF OrderSet
  <2> QED BY <1>0, <1>1, <2>2, PlaceParts DEF Listed
<1>a. \A side \in Sides : \A o \in bk[side] : o \in B BY DEF Sides
<1>3. ASSUME NEW p \in RestPlaces(bk) PROVE p \in HeldFor(m, sl) /\ p \in Places
  <2>1. PICK o \in B : p = <<o.owner, o.slot>> BY DEF RestPlaces
  <2> QED BY <1>2, <2>1, PlaceParts DEF HeldFor, At
<1>4. ASSUME NEW p \in FreedPlaces(q) PROVE p \in HeldFor(m, sl) /\ p \notin RestPlaces(bk)
  <2>1. PICK j \in 1..Len(q) : Frees(q[j]) /\ PlaceOf(q[j]) = p BY DEF FreedPlaces
  <2>2. q[j] \in EventSet BY <1>1, ElementOfSeq
  <2>3. Who(q[j]) \in Accounts /\ Which(q[j]) \in Slot BY <2>2, EventParts
  <2>4. p \in Places /\ p[1] = Who(q[j]) /\ p[2] = Which(q[j]) BY <2>1, <2>3, PlaceParts DEF PlaceOf
  <2>5. Mine(m, At(sl, p)) BY <1>1, <2>1, <2>4 DEF Waiting, At
  <2>6. ASSUME p \in RestPlaces(bk) PROVE FALSE
    <3>1. PICK o \in B : p = <<o.owner, o.slot>> BY <2>6 DEF RestPlaces
    <3>2. o.owner = Who(q[j]) /\ o.slot = Which(q[j]) BY <1>2, <2>4, <3>1, PlaceParts
    <3> QED BY <1>0, <1>1, <2>1, <3>2 DEF Gone
  <2> QED BY <2>4, <2>5, <2>6 DEF HeldFor
<1>5. ASSUME NEW p \in HeldFor(m, sl) PROVE p \in RestPlaces(bk) \/ p \in FreedPlaces(q)
  <2>1. p \in Places /\ Mine(m, sl[p[1]][p[2]]) BY DEF HeldFor, At
  <2>2. p[1] \in Accounts /\ p[2] \in Slot /\ p = <<p[1], p[2]>> BY <2>1, PlaceParts
  <2>3. \/ \E side \in Sides : \E o \in bk[side] : o.owner = p[1] /\ o.slot = p[2]
        \/ \E i \in 1..Len(q) : Frees(q[i]) /\ Who(q[i]) = p[1] /\ Which(q[i]) = p[2]
    BY <1>1, <2>1, <2>2 DEF Found
  <2>4. CASE \E side \in Sides : \E o \in bk[side] : o.owner = p[1] /\ o.slot = p[2]
    <3>1. PICK side \in Sides : \E o \in bk[side] : o.owner = p[1] /\ o.slot = p[2] BY <2>4
    <3>2. PICK o \in bk[side] : o.owner = p[1] /\ o.slot = p[2] BY <3>1
    <3>3. o \in B /\ p = <<o.owner, o.slot>> BY <1>a, <2>2, <3>2
    <3> QED BY <3>3 DEF RestPlaces
  <2>5. CASE \E i \in 1..Len(q) : Frees(q[i]) /\ Who(q[i]) = p[1] /\ Which(q[i]) = p[2]
    BY <2>1, <2>2, <2>5 DEF FreedPlaces, PlaceOf
  <2> QED BY <2>3, <2>4, <2>5
<1>6. HeldFor(m, sl) = RestPlaces(bk) \cup FreedPlaces(q) BY <1>3, <1>4, <1>5
<1>7. RestPlaces(bk) \cap FreedPlaces(q) = {} BY <1>4
<1>8. ASSUME NEW o \in B
      PROVE  [seq |-> o.seq, place |-> <<o.owner, o.slot>>] = Slip(sl, <<o.owner, o.slot>>)
  BY <1>2, PlaceParts DEF Slip, At
<1>9. OnBook(bk) = {Slip(sl, p) : p \in RestPlaces(bk)}
  <2>1. OnBook(bk) = {[seq |-> o.seq, place |-> <<o.owner, o.slot>>] : o \in B} BY DEF OnBook
  <2>2. {Slip(sl, p) : p \in RestPlaces(bk)} = {Slip(sl, <<o.owner, o.slot>>) : o \in B} BY DEF RestPlaces
  <2> HIDE DEF B
  <2> QED BY <1>8, <2>1, <2>2
<1> QED BY <1>6, <1>7, <1>9

(* The places Freeing lists are those the queue will free, each once.      *)
LEMMA FreeingPlaces ==
  ASSUME NEW q \in Seq(EventSet)
  PROVE  /\ Freeing(q) \in Seq(Places) /\ Len(Freeing(q)) \in Nat /\ Len(Freeing(q)) <= Len(q)
         /\ \A k \in 1..Len(Freeing(q)) : Freeing(q)[k] \in FreedPlaces(q)
         /\ \A p \in FreedPlaces(q) : \E k \in 1..Len(Freeing(q)) : Freeing(q)[k] = p
         /\ Once(q) => \A k, h \in 1..Len(Freeing(q)) : Freeing(q)[k] = Freeing(q)[h] => k = h
<1> DEFINE l == Freeing(q)
<1>1. FreedBy(l, q, Len(q)) BY FreeingProps
<1> HIDE DEF l
<1>2. l \in Seq(Places) /\ Len(l) \in Nat /\ Len(l) <= Len(q) BY <1>1, LenProperties DEF FreedBy
<1>3. \A k \in 1..Len(l) : l[k] \in Places BY <1>2, ElementOfSeq
<1>4. \A k \in 1..Len(l) : l[k] \in FreedPlaces(q) BY <1>1, <1>3 DEF FreedBy, FreedPlaces
<1>5. \A p \in FreedPlaces(q) : \E k \in 1..Len(l) : l[k] = p BY <1>1 DEF FreedBy, FreedPlaces
<1>6. Once(q) => \A k, h \in 1..Len(l) : l[k] = l[h] => k = h BY <1>1 DEF FreedBy
<1> QED BY <1>2, <1>4, <1>5, <1>6 DEF l

(* The places two queues put together will free.                           *)
LEMMA JoinedPlaces ==
  ASSUME NEW s1 \in Seq(EventSet), NEW s2 \in Seq(EventSet), NEW u, u = Joined(s1, s2)
  PROVE  /\ FreedPlaces(u) = FreedPlaces(s1) \cup FreedPlaces(s2)
         /\ Once(u) => FreedPlaces(s1) \cap FreedPlaces(s2) = {}
<1>0. /\ Len(s1) \in Nat /\ Len(s2) \in Nat /\ u \in Seq(EventSet) /\ Len(u) = Len(s1) + Len(s2)
      /\ \A i \in 1..Len(s1) : u[i] = s1[i]
      /\ \A i \in 1..Len(s2) : u[Len(s1) + i] = s2[i]
  BY LenProperties DEF Joined
<1>1. \A i \in 1..Len(s1) : i \in 1..Len(u) BY <1>0
<1>2. \A i \in 1..Len(s2) : Len(s1) + i \in 1..Len(u) BY <1>0
<1>3. \A i \in 1..Len(u) : i \in 1..Len(s1) \/ (\E j \in 1..Len(s2) : i = Len(s1) + j)
  <2> SUFFICES ASSUME NEW i \in 1..Len(u), i \notin 1..Len(s1) PROVE \E j \in 1..Len(s2) : i = Len(s1) + j
    OBVIOUS
  <2>1. i - Len(s1) \in 1..Len(s2) /\ i = Len(s1) + (i - Len(s1)) BY <1>0
  <2> QED BY <2>1
<1>4. \A p \in FreedPlaces(s1) : p \in FreedPlaces(u) BY <1>0, <1>1 DEF FreedPlaces
<1>5. \A p \in FreedPlaces(s2) : p \in FreedPlaces(u)
  <2> SUFFICES ASSUME NEW p \in FreedPlaces(s2) PROVE p \in FreedPlaces(u) OBVIOUS
  <2>1. PICK j \in 1..Len(s2) : Frees(s2[j]) /\ PlaceOf(s2[j]) = p BY DEF FreedPlaces
  <2>2. Frees(u[Len(s1) + j]) /\ PlaceOf(u[Len(s1) + j]) = p BY <1>0, <2>1
  <2> QED BY <1>2, <2>2 DEF FreedPlaces
<1>6. \A p \in FreedPlaces(u) : p \in FreedPlaces(s1) \/ p \in FreedPlaces(s2)
  <2> SUFFICES ASSUME NEW p \in FreedPlaces(u) PROVE p \in FreedPlaces(s1) \/ p \in FreedPlaces(s2) OBVIOUS
  <2>1. PICK i \in 1..Len(u) : Frees(u[i]) /\ PlaceOf(u[i]) = p BY DEF FreedPlaces
  <2>2. p \in Places BY DEF FreedPlaces
  <2>3. CASE i \in 1..Len(s1) BY <1>0, <2>1, <2>2, <2>3 DEF FreedPlaces
  <2>4. CASE \E j \in 1..Len(s2) : i = Len(s1) + j BY <1>0, <2>1, <2>2, <2>4 DEF FreedPlaces
  <2> QED BY <1>3, <2>3, <2>4
<1>7. ASSUME Once(u), NEW p \in FreedPlaces(s1), p \in FreedPlaces(s2) PROVE FALSE
  <2>1. PICK i \in 1..Len(s1) : Frees(s1[i]) /\ PlaceOf(s1[i]) = p BY DEF FreedPlaces
  <2>2. PICK j \in 1..Len(s2) : Frees(s2[j]) /\ PlaceOf(s2[j]) = p BY <1>7 DEF FreedPlaces
  <2> DEFINE k == Len(s1) + j
  <2>3. k \in 1..Len(u) /\ i \in 1..Len(u) /\ i # k BY <1>0, <1>1, <1>2
  <2>4. u[i] = s1[i] /\ u[k] = s2[j] BY <1>0
  <2>5. Who(u[i]) = Who(u[k]) /\ Which(u[i]) = Which(u[k]) BY <2>1, <2>2, <2>4 DEF PlaceOf
  <2> QED BY <1>7, <2>1, <2>2, <2>3, <2>4, <2>5 DEF Once
<1> QED BY <1>4, <1>5, <1>6, <1>7

(* A new order: the places X are the ones it rests in, if any. *)
Rests(X, sl, s2, b2) ==
  /\ X \subseteq Places
  /\ \A p \in Places : p \notin X => At(s2, p) = At(sl, p)
  /\ \A p \in X : At(sl, p) = Free /\ p \in RestPlaces(b2)

(* The orders a new order takes off the book are those whose places its    *)
(* events will free.                                                       *)
LEMMA TradePlaces ==
  ASSUME NEW m, NEW bk, NEW q, NEW sl, NEW sq, Desk(m, bk, q, sl, sq),
         NEW te \in Seq(EventSet), NEW b2, NEW q2, q2 = Joined(q, te), NEW s2, NEW sq2, Desk(m, b2, q2, s2, sq2),
         NEW X, Rests(X, sl, s2, b2)
  PROVE  /\ FreedPlaces(te) \subseteq RestPlaces(bk)
         /\ RestPlaces(b2) = (RestPlaces(bk) \ FreedPlaces(te)) \cup X
         /\ RestPlaces(bk) \cap X = {}
<1>1. /\ HeldFor(m, sl) = RestPlaces(bk) \cup FreedPlaces(q)
      /\ RestPlaces(bk) \cap FreedPlaces(q) = {}
  BY Tenants
<1>2. /\ HeldFor(m, s2) = RestPlaces(b2) \cup FreedPlaces(q2)
      /\ RestPlaces(b2) \cap FreedPlaces(q2) = {}
  BY Tenants
<1>3. q \in Seq(EventSet) /\ Once(q2) BY DEF Desk
<1>4. FreedPlaces(q2) = FreedPlaces(q) \cup FreedPlaces(te) /\ FreedPlaces(q) \cap FreedPlaces(te) = {}
  BY <1>3, JoinedPlaces
<1>5. \A p \in X : p \notin HeldFor(m, sl) /\ p \in RestPlaces(b2) BY NotMine DEF HeldFor, Rests
<1>6. \A p : p \notin X => (p \in HeldFor(m, s2) <=> p \in HeldFor(m, sl)) BY DEF HeldFor, Rests
<1> QED BY <1>1, <1>2, <1>4, <1>5, <1>6

(* Orders are cancelled: the places that are free now are theirs. *)
LEMMA CancelPlaces ==
  ASSUME NEW m, NEW bk, NEW q, NEW sl, NEW sq, Desk(m, bk, q, sl, sq),
         NEW b2, NEW s2, NEW sq2, Desk(m, b2, q, s2, sq2), NEW A, Emptied(A, sl, s2), Foreign(m, sl, s2)
  PROVE  /\ RestPlaces(b2) \subseteq RestPlaces(bk)
         /\ \A p \in Places : /\ p \in RestPlaces(bk) \ RestPlaces(b2) => At(s2, p) = Free /\ p[1] \in A
                              /\ p \notin RestPlaces(bk) \ RestPlaces(b2) => At(s2, p) = At(sl, p)
<1>1. /\ HeldFor(m, sl) = RestPlaces(bk) \cup FreedPlaces(q)
      /\ RestPlaces(bk) \cap FreedPlaces(q) = {}
  BY Tenants
<1>2. /\ HeldFor(m, s2) = RestPlaces(b2) \cup FreedPlaces(q)
      /\ RestPlaces(b2) \cap FreedPlaces(q) = {}
  BY Tenants
<1>3. \A p \in Places : At(s2, p) = At(sl, p) \/ (p[1] \in A /\ At(s2, p) = Free)
  BY PlaceParts DEF Emptied, At
<1>4. \A p \in Places : At(s2, p) # At(sl, p) => p \in HeldFor(m, sl) /\ p \notin HeldFor(m, s2)
  <2> SUFFICES ASSUME NEW p \in Places, At(s2, p) # At(sl, p)
               PROVE  p \in HeldFor(m, sl) /\ p \notin HeldFor(m, s2)
    OBVIOUS
  <2>1. p[1] \in Accounts /\ p[2] \in Slot BY PlaceParts
  <2>2. At(s2, p) = Free BY <1>3
  <2>3. At(sl, p) # Free /\ At(sl, p).market = m BY <2>1, <2>2 DEF Foreign, At
  <2> QED BY <2>2, <2>3, NotMine DEF HeldFor, Mine
<1>5. \A p \in Places : At(s2, p) = At(sl, p) => (p \in HeldFor(m, s2) <=> p \in HeldFor(m, sl))
  BY DEF HeldFor
<1>6. \A p : p \in HeldFor(m, s2) => p \in Places BY DEF HeldFor
<1>7. \A p : p \in HeldFor(m, sl) => p \in Places BY DEF HeldFor
<1> QED BY <1>1, <1>2, <1>3, <1>4, <1>5, <1>6, <1>7

(* Events are consumed: the places that are free now are those they free. *)
LEMMA CrankPlaces ==
  ASSUME NEW m, NEW bk, NEW sl, NEW sq, NEW s1 \in Seq(EventSet), NEW s3 \in Seq(EventSet), NEW q,
         q = Joined(s1, s3), Desk(m, bk, q, sl, sq), NEW s2, NEW sq2, Desk(m, bk, s3, s2, sq2),
         NEW A, Emptied(A, sl, s2), Foreign(m, sl, s2)
  PROVE  \A p \in Places : At(s2, p) = (IF p \in FreedPlaces(s1) THEN Free ELSE At(sl, p))
<1>1. /\ HeldFor(m, sl) = RestPlaces(bk) \cup FreedPlaces(q)
      /\ RestPlaces(bk) \cap FreedPlaces(q) = {}
  BY Tenants
<1>2. /\ HeldFor(m, s2) = RestPlaces(bk) \cup FreedPlaces(s3)
      /\ RestPlaces(bk) \cap FreedPlaces(s3) = {}
  BY Tenants
<1>3. Once(q) BY DEF Desk
<1>4. FreedPlaces(q) = FreedPlaces(s1) \cup FreedPlaces(s3) /\ FreedPlaces(s1) \cap FreedPlaces(s3) = {}
  BY <1>3, JoinedPlaces
<1>5. \A p \in Places : At(s2, p) = At(sl, p) \/ (p[1] \in A /\ At(s2, p) = Free)
  BY PlaceParts DEF Emptied, At
<1>6. \A p \in Places : At(s2, p) # At(sl, p) => p \in HeldFor(m, sl) /\ p \notin HeldFor(m, s2)
  <2> SUFFICES ASSUME NEW p \in Places, At(s2, p) # At(sl, p)
               PROVE  p \in HeldFor(m, sl) /\ p \notin HeldFor(m, s2)
    OBVIOUS
  <2>1. p[1] \in Accounts /\ p[2] \in Slot BY PlaceParts
  <2>2. At(s2, p) = Free BY <1>5
  <2>3. At(sl, p) # Free /\ At(sl, p).market = m BY <2>1, <2>2 DEF Foreign, At
  <2> QED BY <2>2, <2>3, NotMine DEF HeldFor, Mine
<1>7. \A p \in Places : At(s2, p) = At(sl, p) => (p \in HeldFor(m, s2) <=> p \in HeldFor(m, sl))
  BY DEF HeldFor
<1> QED BY <1>1, <1>2, <1>4, <1>5, <1>6, <1>7


(* A new order of account a is matched and posted on market m. *)
NewOrderOf(a, m, side, price0, base, quote, type, expiry, limit, cid, oracle, ref) ==
  /\ base > 0 /\ ref.rate \in Int /\ (ref.to = Nobody \/ ref.to \in Accounts)
  /\ market[m].seq_num < MaxSeq /\ now' = now
  /\ new_order(a, m, side, price0, base, quote, type, expiry, limit, cid, oracle, ref)

NewOrderFor(a, m, side, price0, base, quote, type) ==
  \E expiry \in Int, limit \in Int, cid \in ClientIds : \E oracle, ref :
    NewOrderOf(a, m, side, price0, base, quote, type, expiry, limit, cid, oracle, ref)

(* The quote limits orders come with, and sizes no larger than an order's. *)
Quotes == MaxQuotes \cup {Unbounded}
Sized(base) == base \in Nat /\ \E qty \in OrderSizes : base <= qty

NewOrders(a, m) ==
  \E side \in Sides, price0 \in OrderPrices, base \in Nat, quote \in Quotes : \E type :
    Sized(base) /\ NewOrderFor(a, m, side, price0, base, quote, type)

(* These are numbers.                                                      *)
LEMMA InputInts ==
  /\ OrderPrices \subseteq Int /\ OrderSizes \subseteq Nat /\ Quotes \subseteq Nat
BY InputAssumption, AdvancedAssumption, BookAssumption DEF OrderPrices, OrderSizes, Quotes

(* A reduce-only order is not made larger.                                 *)
LEMMA ReducedLess ==
  ASSUME NEW m \in Markets, NEW a \in Accounts, NEW side \in Sides, NEW qty \in Nat, Good(m), Halls
  PROVE  ReducedQuantity(a, m, side, qty) <= qty
<1> DEFINE pos == get_complete_base_pos(a, m)
           size == IF pos < 0 THEN -pos ELSE pos
           left == size - perp[a][m].on_orders[side]
<1>1. pos \in Int BY CompletePos
<1>2. perp[a][m].on_orders[side] \in Int
  <2>1. perp \in Perps BY GoodParts
  <2> QED BY <2>1, PerpParts
<1> HIDE DEF pos
<1>3. size \in Int /\ left \in Int /\ qty \in Int BY <1>1, <1>2
<1> HIDE DEF size, left
<1>4. /\ Min({left, qty}) \in Int /\ Min({left, qty}) <= qty
      /\ Min({size, qty}) \in Int /\ Min({size, qty}) <= qty
  BY <1>3, MinTwo
<1>5. Max({0, Min({left, qty})}) <= qty
  <2> DEFINE k == Min({left, qty})
             z == 0
  <2>1. k \in Int /\ z \in Int /\ k <= qty /\ z <= qty BY <1>4
  <2> HIDE DEF k, z
  <2>2. Max({z, k}) \in {z, k} BY <2>1, MinTwo
  <2>3. Max({z, k}) <= qty BY <2>1, <2>2
  <2> QED BY <2>3 DEF k, z
<1>6. ReducedQuantity(a, m, side, qty) \in {0, Max({0, Min({left, qty})}), Min({size, qty})}
  BY DEF ReducedQuantity, pos, size, left
<1>7. 0 <= qty OBVIOUS
<1> QED BY <1>4, <1>5, <1>6, <1>7

(* Nor is a trigger order.                                                 *)
LEMMA TriggeredLess ==
  ASSUME Inv, NEW a \in Accounts, NEW order \in TriggerOrders
  PROVE  TriggeredQuantity(a, order) <= order.qty
<1> DEFINE m == order.market
           pos == get_complete_base_pos(a, m)
           size == Abs(pos)
           qty == order.qty
<1>1. m \in Markets /\ qty \in Nat BY AdvancedAssumption
<1>2. pos \in Int
  <2>1. Good(m) /\ Halls BY <1>1 DEF Inv
  <2> QED BY <1>1, <2>1, CompletePos
<1> HIDE DEF pos
<1>3. size \in Int BY <1>2 DEF Abs
<1>4. TriggeredQuantity(a, order) \in {0, qty, Min({size, qty})} BY DEF TriggeredQuantity, pos
<1> HIDE DEF size, qty
<1>5. Min({size, qty}) <= qty BY <1>1, <1>3, MinTwo
<1>6. 0 <= qty /\ qty <= qty BY <1>1
<1>7. TriggeredQuantity(a, order) <= qty BY <1>4, <1>5, <1>6
<1> QED BY <1>7 DEF qty

(* A step that moves no order. *)
MovesNothing ==
  /\ UNCHANGED <<book, queue, slots>> /\ now <= now'
  /\ \A m \in Markets : market'[m].seq_num = market[m].seq_num

(* What a step does to the orders. *)
Moves ==
  \/ \E a \in Accounts, m \in Markets : NewOrders(a, m)
  \/ \E a \in Accounts, m \in Markets : Cancels(a, m)
  \/ \E m \in Markets : \E n, w : CranksTo(m, n, w)
  \/ MovesNothing

(* The place instructions match a new order or do nothing.                 *)
LEMMA PlaceMoves ==
  ASSUME Inv, NEW a \in Accounts, NEW m \in Markets, NEW side \in Sides, NEW price \in OrderPrices,
         NEW qty \in OrderSizes, NEW quote \in Quotes, NEW type, NEW reduce_only, NEW expiry \in Int, NEW limit \in Int, NEW cid \in ClientIds,
         PlaceOrder(a, m, side, price, qty, quote, type, reduce_only, expiry, limit, cid)
  PROVE  MovesNothing \/ NewOrders(a, m)
<1> DEFINE base == IF reduce_only THEN ReducedQuantity(a, m, side, qty) ELSE qty
<1>0. Good(m) /\ Halls /\ qty \in Nat BY InputInts DEF Inv
<1>1. base \in Int /\ base <= qty
  <2>1. ReducedQuantity(a, m, side, qty) \in Int BY <1>0, ReducedInt
  <2>2. qty \in Int /\ qty <= qty BY <1>0
  <2>3. ReducedQuantity(a, m, side, qty) <= qty BY <1>0, ReducedLess
  <2> QED BY <2>1, <2>2, <2>3
<1>2. market[m].seq_num < MaxSeq /\ now' = now BY DEF PlaceOrder
<1>t. now <= now' BY <1>2 DEF Inv
<1>3. \/ UNCHANGED <<book, queue, market, perp, slots>>
      \/ /\ base > 0
         /\ \E oracle \in OraclePrices, ref \in RefVars(a) :
              new_order(a, m, side, price, base, quote, type, expiry, limit, cid, oracle, ref)
  BY DEF PlaceOrder
<1> HIDE DEF base
<1>4. CASE UNCHANGED <<book, queue, market, perp, slots>> BY <1>t, <1>4 DEF MovesNothing
<1>5. CASE /\ base > 0
           /\ \E oracle \in OraclePrices, ref \in RefVars(a) :
                new_order(a, m, side, price, base, quote, type, expiry, limit, cid, oracle, ref)
  <2>1. base \in Nat /\ base > 0 BY <1>1, <1>5
  <2>2. PICK oracle \in OraclePrices, ref \in RefVars(a) :
               new_order(a, m, side, price, base, quote, type, expiry, limit, cid, oracle, ref)
    BY <1>5
  <2>3. ref.rate \in Int /\ (ref.to = Nobody \/ ref.to \in Accounts) BY RefTypes
  <2>4. NewOrderOf(a, m, side, price, base, quote, type, expiry, limit, cid, oracle, ref)
    BY <1>2, <2>1, <2>2, <2>3 DEF NewOrderOf
  <2>5. NewOrderFor(a, m, side, price, base, quote, type) BY <2>4 DEF NewOrderFor
  <2>s. Sized(base) BY <1>1, <2>1 DEF Sized
  <2>6. NewOrders(a, m) BY <2>1, <2>5, <2>s DEF NewOrders
  <2> QED BY <2>6
<1> QED BY <1>3, <1>4, <1>5

(* Every step moves orders in one of these ways, or none.                  *)
LEMMA NextMoves ==
  ASSUME Inv, [Next]_vars
  PROVE  Moves
<1>1. CASE \E a \in Accounts, m \in Markets : place_perp_order(a, m)
  <2>1. PICK a \in Accounts, m \in Markets : place_perp_order(a, m) BY <1>1
  <2>2. Prices \subseteq OrderPrices /\ Quantities \subseteq OrderSizes /\ Unbounded \in Quotes
    BY DEF OrderPrices, OrderSizes, Quotes
  <2>3. NoExpiry \in Int /\ Unbounded \in Nat /\ Unbounded \in Int /\ MaxFills \in Int BY BookAssumption, PerpAssumption
  <2>4. PICK side \in Sides, price \in Prices, qty \in Quantities, type \in OrderTypes,
             reduce_only \in ReduceOnly, cid \in ClientIds :
          PlaceOrder(a, m, side, price, qty, Unbounded, type, reduce_only, NoExpiry, MaxFills, cid)
    BY <2>1 DEF place_perp_order
  <2>5. price \in OrderPrices /\ qty \in OrderSizes BY <2>2
  <2>6. MovesNothing \/ NewOrders(a, m) BY <2>2, <2>3, <2>4, <2>5, PlaceMoves
  <2> QED BY <2>6 DEF Moves
<1>2. CASE \E a \in Accounts, m \in Markets : place_perp_order2(a, m)
  <2>1. PICK a \in Accounts, m \in Markets : place_perp_order2(a, m) BY <1>2
  <2>2. /\ Prices \subseteq OrderPrices /\ Quantities \subseteq OrderSizes /\ MaxQuotes \subseteq Quotes
        /\ MatchLimits \subseteq Nat
    BY InputAssumption DEF OrderPrices, OrderSizes, Quotes
  <2>3. PICK side \in Sides, price \in Prices, qty \in Quantities, quote \in MaxQuotes,
       type \in OrderTypes, reduce_only \in ReduceOnly, limit \in MatchLimits,
       cid \in ClientIds,
       expiry \in UNION ({AbsoluteExpiry(ts) : ts \in AbsoluteExpiries}
                           \cup {RelativeExpiry(tif) : tif \in RelativeExpiries}) :
      PlaceOrder(a, m, side, price, qty, quote, type, reduce_only, expiry, limit, cid)
    BY <2>1 DEF place_perp_order2
  <2>4. price \in OrderPrices /\ qty \in OrderSizes /\ quote \in Quotes /\ limit \in Int BY <2>2
  <2>5. expiry \in Int BY ExpiryInt DEF Inv
  <2>6. MovesNothing \/ NewOrders(a, m) BY <2>3, <2>4, <2>5, PlaceMoves
  <2> QED BY <2>6 DEF Moves
<1>3. CASE \E a \in Accounts, m \in Markets : CancelStepOf(a, m)
  BY <1>3, CancelStepCancels DEF Moves
<1>6. CASE \E a \in Accounts, m \in Markets : force_cancel_recovered(a, m)
  <2>1. now' = now BY <1>6 DEF force_cancel_recovered
  <2>2. now <= now' BY <2>1 DEF Inv
  <2>3. MovesNothing BY <1>6, <2>2 DEF force_cancel_recovered, MovesNothing
  <2> QED BY <2>3 DEF Moves
<1>7. CASE \E m \in Markets, limit \in ConsumeLimits, passed \in SUBSET Accounts : consume_events(m, limit, passed)
  BY <1>7, ConsumeCranks DEF Moves
<1>8. CASE \E m \in Markets :
             update_funding(m) \/ cache_perp_markets(m) \/ (\E mode \in ModeChanges : set_market_mode(m, mode))
  <2>1. PICK m \in Markets :
             update_funding(m) \/ cache_perp_markets(m) \/ (\E mode \in ModeChanges : set_market_mode(m, mode))
    BY <1>8
  <2>2. market \in [Markets -> MarketSet] BY SMTT(30) DEF Inv, Halls
  <2>3. UNCHANGED <<book, queue, slots>> BY <2>1 DEF update_funding, cache_perp_markets, set_market_mode
  <2>4. \A n \in Markets : market'[n].seq_num = market[n].seq_num
    <3>1. CASE update_funding(m)
      <4>1. \E f : market' = [market EXCEPT ![m].funding = f, ![m].last_updated = now, ![m].cached_at = now]
        BY <2>2, <3>1 DEF update_funding
      <4> QED BY <2>2, <4>1 DEF MarketSet
    <3>2. CASE cache_perp_markets(m) BY <2>2, <3>2 DEF cache_perp_markets, MarketSet
    <3>3. CASE \E mode \in ModeChanges : set_market_mode(m, mode) BY <2>2, <3>3, SMTT(30) DEF set_market_mode, MarketSet
    <3> QED BY <2>1, <3>1, <3>2, <3>3
  <2>6. now' = now BY <2>1 DEF update_funding, cache_perp_markets, set_market_mode
  <2>7. now <= now' BY <2>6 DEF Inv
  <2>5. MovesNothing BY <2>3, <2>4, <2>7 DEF MovesNothing
  <2> QED BY <2>5 DEF Moves
<1>9. CASE Tick \/ UNCHANGED vars
  <2>1. UNCHANGED <<book, queue, market, slots>> BY <1>9 DEF Tick, vars
  <2>2. now' = now \/ now' = now + 1 BY <1>9 DEF Tick, vars
  <2>3. now <= now' BY <2>2 DEF Inv
  <2> QED BY <2>1, <2>3 DEF Moves, MovesNothing
<1> QED BY <1>1, <1>2, <1>3, <1>6, <1>7, <1>8, <1>9 DEF Next, CancelStepOf

(* Executing a trigger order matches a new order or drops it.              *)
LEMMA ExecuteMoves ==
  ASSUME AdvancedInv, NEW a \in Accounts, NEW i \in 1..NumAdvanced, NEW oracle,
         execute_perp_trigger_order(a, i, oracle)
  PROVE  Moves
<1> DEFINE order == advanced[a].orders[i]
           m == order.market
           qty == TriggeredQuantity(a, order)
<1>1. Inv /\ Parked BY DEF AdvancedInv
<1>2. order \in TriggerOrders
  <2>1. i \in Active(a) BY DEF execute_perp_trigger_order
  <2> QED BY <1>1, <2>1 DEF Parked, Active
<1>3. /\ m \in Markets /\ order.side \in Sides /\ order.cid \in ClientIds
      /\ order.price \in OrderPrices /\ order.qty \in OrderSizes
  BY <1>2, AdvancedAssumption DEF OrderPrices, OrderSizes
<1>4. qty \in Int /\ qty <= order.qty BY <1>1, <1>2, TriggeredInt, TriggeredLess, SMTT(30)
<1>t. now' = now BY DEF execute_perp_trigger_order
<1>u. now <= now' BY <1>1, <1>t, SMTT(30) DEF Inv
<1>5. \/ UNCHANGED <<book, queue, market, perp, slots>>
      \/ /\ qty > 0 /\ market[m].seq_num < MaxSeq
         /\ \E rate \in {0} \cup RefSurcharges :
              new_order(a, m, order.side, order.price, qty, Unbounded, order.type,
                        NoExpiry, MaxFills, order.cid, oracle, [rate |-> rate, to |-> Nobody])
  BY DEF execute_perp_trigger_order
<1>6. CASE UNCHANGED <<book, queue, market, perp, slots>> BY <1>u, <1>6 DEF Moves, MovesNothing
<1>7. CASE /\ qty > 0 /\ market[m].seq_num < MaxSeq
           /\ \E rate \in {0} \cup RefSurcharges :
                new_order(a, m, order.side, order.price, qty, Unbounded, order.type,
                          NoExpiry, MaxFills, order.cid, oracle, [rate |-> rate, to |-> Nobody])
  <2>1. PICK rate \in {0} \cup RefSurcharges :
          new_order(a, m, order.side, order.price, qty, Unbounded, order.type,
                    NoExpiry, MaxFills, order.cid, oracle, [rate |-> rate, to |-> Nobody])
    BY <1>7
  <2> DEFINE ref == [rate |-> rate, to |-> Nobody]
             type == order.type
             side == order.side
             price == order.price
             cid == order.cid
  <2>2. ref.rate \in Int /\ ref.to = Nobody BY PerpAssumption
  <2>3. new_order(a, m, side, price, qty, Unbounded, type, NoExpiry, MaxFills, cid, oracle, ref) BY <2>1
  <2>4. qty \in Nat /\ qty > 0 /\ market[m].seq_num < MaxSeq BY <1>4, <1>7
  <2>s. Sized(qty) BY <1>3, <1>4, <2>4 DEF Sized
  <2>5. Unbounded \in Quotes /\ MaxFills \in Int /\ NoExpiry \in Int BY BookAssumption, PerpAssumption DEF Quotes
  <2>6. side \in Sides /\ price \in OrderPrices /\ cid \in ClientIds BY <1>3
  <2> HIDE DEF ref, order, m, qty, type, side, price, cid
  <2>8. NewOrderOf(a, m, side, price, qty, Unbounded, type, NoExpiry, MaxFills, cid, oracle, ref)
    BY <1>t, <2>2, <2>3, <2>4 DEF NewOrderOf
  <2>9. NewOrderFor(a, m, side, price, qty, Unbounded, type) BY <2>5, <2>6, <2>8 DEF NewOrderFor
  <2>7. NewOrders(a, m) BY <2>4, <2>5, <2>6, <2>9, <2>s DEF NewOrders
  <2> QED BY <1>3, <2>7 DEF Moves
<1> QED BY <1>5, <1>6, <1>7

(* So does every step with trigger orders.                                 *)
LEMMA AdvancedMoves ==
  ASSUME AdvancedInv, [AdvancedNext]_advancedVars
  PROVE  Moves
<1>0. Inv BY DEF AdvancedInv
<1>1. CASE Next BY <1>0, <1>1, NextMoves
<1>2. CASE \E a \in TriggerUsers, i \in 1..NumAdvanced, oracle \in OraclePrices : execute_perp_trigger_order(a, i, oracle)
  <2>1. TriggerUsers \subseteq Accounts BY AdvancedAssumption
  <2> QED BY <1>2, <2>1, ExecuteMoves
<1>3. CASE \E a \in TriggerUsers :
             \/ init_advanced_orders(a) \/ close_advanced_orders(a)
             \/ \E order \in TriggerOrders : add_perp_trigger_order(a, order)
             \/ \E i \in 1..NumAdvanced : remove_advanced_order(a, i)
             \/ cancel_all_advanced_orders(a)
  <2>1. UNCHANGED <<book, queue, market, slots>>
    BY <1>3 DEF init_advanced_orders, close_advanced_orders, add_perp_trigger_order, remove_advanced_order,
                cancel_all_advanced_orders, vars
  <2>2. now' = now
    BY <1>3 DEF init_advanced_orders, close_advanced_orders, add_perp_trigger_order, remove_advanced_order,
                cancel_all_advanced_orders, vars
  <2>3. now <= now' BY <1>0, <2>2 DEF Inv
  <2> QED BY <2>1, <2>3 DEF Moves, MovesNothing
<1>4. CASE UNCHANGED advancedVars
  <2>1. UNCHANGED <<book, queue, market, slots, now>> BY <1>4 DEF advancedVars, vars
  <2>2. now <= now' BY <1>0, <2>1 DEF Inv
  <2> QED BY <2>1, <2>2 DEF Moves, MovesNothing
<1> QED BY <1>1, <1>2, <1>3, <1>4 DEF AdvancedNext


(* A new order adds the events te to the queue and rests in the places X,  *)
(* which are none or one.                                                  *)
TradesTo(m, te, X) ==
  /\ queue'[m] = Joined(queue[m], te) /\ Len(queue[m]) + Len(te) <= QueueCap
  /\ market[m].seq_num < MaxSeq /\ market'[m].seq_num = market[m].seq_num + 1
  /\ Rests(X, slots, slots', book'[m])
  /\ \A p \in X : /\ At(slots', p) # Free /\ At(slots', p).market = m
                  /\ At(slots', p).seq = market[m].seq_num + 1
  /\ X = {} \/ \E p \in Places : X = {p}

(* A new order does.                                                       *)
LEMMA NewOrderTrades ==
  ASSUME Inv, NEW a \in Accounts, NEW m \in Markets, NEW side \in Sides, NEW price0 \in Int, NEW base \in Nat,
         NEW quote \in Nat, NEW type, NEW expiry \in Int, NEW limit \in Int, NEW cid \in ClientIds, NEW oracle,
         NEW ref, NewOrderOf(a, m, side, price0, base, quote, type, expiry, limit, cid, oracle, ref)
  PROVE  \E te \in Seq(EventSet) : \E X : TradesTo(m, te, X)
<1> DEFINE taken == Matching(a, m, side, price0, base, quote, type, limit, oracle)
           sq == market[m].seq_num
           D == Dropped(taken.resting, side, book[m][side])
           B == Booted(taken.resting, side, Outside(book[m][side], D))
           o == OrderOf(a, m, taken, expiry)
           t == EntryOf(a, m, side, taken, cid)
           lots == taken.resting
           te == Joined(Joined(taken.evs, OutEvents(D, side)), OutEvents(B, side))
           p == <<a, o.slot>>
           X == IF lots > 0 THEN {p} ELSE {}
<1>0. Halls /\ Good(m) /\ slots \in Tables BY DEF Inv
<1>a. /\ base > 0 /\ sq < MaxSeq
      /\ new_order(a, m, side, price0, base, quote, type, expiry, limit, cid, oracle, ref)
  BY DEF NewOrderOf
<1>1. Stage(m, book[m], queue[m], slots, sq, perp) /\ sq \in Nat BY <1>0, GoodParts
<1>2. Takes(m, taken, a, side, sq)
  <2> HIDE DEF sq
  <2> QED BY <1>1, <1>a, MatchingTakes
<1>3. PlacedIn(a, m, side, taken, expiry, cid, ref) BY <1>0, <1>a, NewOrderParts, SMTT(30)
<1>4. Len(queue[m]) + Len(te) <= QueueCap
  BY <1>a DEF new_order, Joined, Dropped, Booted, Outside
<1> HIDE DEF taken
<1>5. /\ book \in [Markets -> Books] /\ queue \in [Markets -> Seq(EventSet)]
      /\ market \in [Markets -> MarketSet]
  BY <1>0 DEF Halls
<1>6. /\ taken.price \in Int /\ lots \in Nat /\ taken.evs \in Seq(EventSet) BY <1>2 DEF Takes
<1>7. Keyed(book[m][side]) BY <1>1 DEF Stage, Desk
<1>8. Outs(OutEvents(D, side)) /\ Outs(OutEvents(B, side))
  <2>1. MakesRoom(lots, side, book[m], D, B) BY DEF MakesRoom
  <2>2. book[m] \in Books BY <1>5
  <2> HIDE DEF lots, D, B
  <2> QED BY <1>7, <2>1, <2>2, RoomOuts
<1>9. te \in Seq(EventSet)
  <2>1. OutEvents(D, side) \in Seq(EventSet) /\ OutEvents(B, side) \in Seq(EventSet) BY <1>8 DEF Outs
  <2> DEFINE d1 == OutEvents(D, side)
             d2 == OutEvents(B, side)
             e == taken.evs
  <2>2. d1 \in Seq(EventSet) /\ d2 \in Seq(EventSet) /\ e \in Seq(EventSet) BY <1>6, <2>1
  <2> HIDE DEF d1, d2, e
  <2>3. Joined(e, d1) \in Seq(EventSet) BY <2>2 DEF Joined
  <2>4. Joined(Joined(e, d1), d2) \in Seq(EventSet) BY <2>2, <2>3 DEF Joined
  <2> QED BY <2>4 DEF d1, d2, e
<1>10. /\ taken.price > 0
       /\ lots > 0 => \E s \in Slot : slots[a][s] = Free
       /\ queue' = [queue EXCEPT ![m] = NewQueue(queue[m], taken.evs, D, B, side)]
       /\ \E own, opp : book' = [book EXCEPT ![m] = [book[m] EXCEPT ![invert_side(side)] = opp,
                                        ![side] = own \cup (IF lots > 0 THEN {o} ELSE {})]]
       /\ \E f : market' = [market EXCEPT ![m] = [market[m] EXCEPT !.seq_num = sq + 1, !.fees_accrued = f]]
       /\ slots' = NewTable(slots, a, o, t, lots)
  BY <1>3 DEF PlacedIn, NewQueue, NewTable, Outside
<1>11. queue'[m] = Joined(queue[m], te) BY <1>5, <1>10 DEF NewQueue, Joined
<1>12. lots > 0 => Fits(m, o, t, a, side, slots, sq, lots)
  BY <1>1, <1>6, <1>10, OrderFits
<1>b. lots > 0 => o \in book'[m][side]
  <2>1. PICK own, opp : book' = [book EXCEPT ![m] = [book[m] EXCEPT ![invert_side(side)] = opp,
                                        ![side] = own \cup (IF lots > 0 THEN {o} ELSE {})]]
    BY <1>10
  <2>2. book[m] \in [Sides -> SUBSET OrderSet] BY <1>5 DEF Books
  <2>3. invert_side(side) # side BY Inverse2
  <2> HIDE DEF o, lots
  <2> QED BY <1>5, <2>1, <2>2, <2>3
<1>c. market'[m].seq_num = sq + 1
  <2>1. PICK f : market' = [market EXCEPT ![m] = [market[m] EXCEPT !.seq_num = sq + 1, !.fees_accrued = f]]
    BY <1>10
  <2>2. market[m] \in MarketSet BY <1>5
  <2> HIDE DEF sq
  <2> QED BY <1>5, <2>1, <2>2 DEF MarketSet
<1> HIDE DEF o, t, te, lots, D, B
<1>13. CASE ~(lots > 0)
  <2>1. X = {} /\ slots' = slots BY <1>10, <1>13 DEF NewTable
  <2>2. Rests(X, slots, slots', book'[m]) BY <2>1 DEF Rests, At
  <2>3. TradesTo(m, te, X) BY <1>4, <1>a, <1>c, <1>11, <2>1, <2>2 DEF TradesTo
  <2> QED BY <1>9, <2>3
<1>14. CASE lots > 0
  <2>1. X = {p} BY <1>14
  <2>2. /\ o.slot \in Slot /\ t \in Tracked /\ t.market = m /\ slots[a][o.slot] = Free
        /\ o.owner = a /\ t.seq = sq + 1
    BY <1>12, <1>14 DEF Fits, OrderSet
  <2>3. p \in Places /\ p[1] = a /\ p[2] = o.slot BY <2>2, PlaceParts
  <2>4. /\ slots'[a][o.slot] = t
        /\ \A b \in Accounts, x \in Slot : ~(b = a /\ x = o.slot) => slots'[b][x] = slots[b][x]
    <3>1. slots' = Put(slots, a, o.slot, t) BY <1>10, <1>14 DEF NewTable
    <3> QED BY <1>0, <2>2, <3>1, PutProps
  <2>5. At(slots', p) = t /\ At(slots, p) = Free BY <2>2, <2>3, <2>4 DEF At
  <2>6. \A x \in Places : x # p => At(slots', x) = At(slots, x)
    <3> SUFFICES ASSUME NEW x \in Places, x # p PROVE At(slots', x) = At(slots, x) OBVIOUS
    <3>1. x[1] \in Accounts /\ x[2] \in Slot /\ x = <<x[1], x[2]>> BY PlaceParts
    <3>2. ~(x[1] = a /\ x[2] = o.slot) BY <3>1
    <3> QED BY <2>4, <3>1, <3>2 DEF At
  <2>7. p \in RestPlaces(book'[m])
    <3>1. o \in book'[m]["bid"] \cup book'[m]["ask"] BY <1>b, <1>14 DEF Sides
    <3> QED BY <2>2, <3>1 DEF RestPlaces
  <2> HIDE DEF p
  <2>8. Rests(X, slots, slots', book'[m]) BY <2>1, <2>3, <2>5, <2>6, <2>7 DEF Rests
  <2>9. t # Free BY <2>2, PerpAssumption
  <2>10. TradesTo(m, te, X) BY <1>4, <1>a, <1>c, <1>11, <2>1, <2>2, <2>3, <2>5, <2>8, <2>9 DEF TradesTo
  <2> QED BY <1>9, <2>10
<1> QED BY <1>13, <1>14


(* The variables of the order ledger. *)
LResting == [n \in Markets |-> OnBook(book[n])]
LLeaving == [n \in Markets |-> Freeing(queue[n])]
LNext == [n \in Markets |-> market[n].seq_num]

(* What the ledger sees in one place. *)
Entry(t) == IF t = Free THEN Free ELSE [market |-> t.market, seq |-> t.seq]

(* What the ledger sees in the places.                                     *)
LEMMA HeldAt ==
  ASSUME NEW sl
  PROVE  HeldBy(sl) = [p \in Places |-> Entry(At(sl, p))]
BY DEF HeldBy, Entry, At, Places

(* The end of a queue has each event once, too.                            *)
LEMMA OnceTail ==
  ASSUME NEW s1 \in Seq(EventSet), NEW s2 \in Seq(EventSet), Once(Joined(s1, s2))
  PROVE  Once(s2)
<1> DEFINE u == Joined(s1, s2)
           n == Len(s1)
<1>0. /\ n \in Nat /\ Len(s2) \in Nat /\ Len(u) = n + Len(s2)
      /\ \A i \in 1..Len(s2) : u[n + i] = s2[i]
  BY LenProperties DEF Joined
<1>1. Once(u) OBVIOUS
<1> HIDE DEF u, n
<1>2. \A i \in 1..Len(s2) : n + i \in 1..Len(u) BY <1>0
<1> SUFFICES ASSUME NEW i \in 1..Len(s2), NEW j \in 1..Len(s2), Frees(s2[i]), Frees(s2[j]),
                    Who(s2[i]) = Who(s2[j]), Which(s2[i]) = Which(s2[j])
             PROVE  i = j
  BY DEF Once
<1>3. n + i = n + j
  <2> DEFINE k == n + i
             l == n + j
  <2>1. k \in 1..Len(u) /\ l \in 1..Len(u) /\ u[k] = s2[i] /\ u[l] = s2[j] BY <1>0, <1>2
  <2> HIDE DEF k, l
  <2>2. k = l BY <1>1, <2>1 DEF Once
  <2> QED BY <2>2 DEF k, l
<1> QED BY <1>0, <1>3

(* The orders whose places the events te free, in their order. *)
TakenBy(sl, te) == [i \in 1..Len(Freeing(te)) |-> Slip(sl, Freeing(te)[i])]

(* What is left of the orders S, and of the book. *)
Kept(S, out) == {o \in S : \A i \in DOMAIN out : out[i] # o}
KeptSlips(bk, sl, te) == {Slip(sl, p) : p \in RestPlaces(bk) \ FreedPlaces(te)}

TakesOut(out, F, bk, sl, te) ==
  /\ Len(F) \in Nat /\ Len(F) <= Len(te)
  /\ out \in [1..Len(F) -> OnBook(bk)]
  /\ Len(out) = Len(F) /\ DOMAIN out = 1..Len(F)
  /\ \A i, j \in 1..Len(out) : out[i] = out[j] => i = j
  /\ [i \in 1..Len(out) |-> out[i].place] = F
  /\ Kept(OnBook(bk), out) = KeptSlips(bk, sl, te)

(* What a new order takes off the book, as the ledger sees it: F are the   *)
(* places freed.                                                           *)
LEMMA TakenOut ==
  ASSUME NEW bk, NEW sl, OnBook(bk) = {Slip(sl, p) : p \in RestPlaces(bk)},
         NEW te \in Seq(EventSet), Once(te), FreedPlaces(te) \subseteq RestPlaces(bk),
         NEW out, out = TakenBy(sl, te), NEW F, F = Freeing(te)
  PROVE  TakesOut(out, F, bk, sl, te)
<1>1. /\ F \in Seq(Places) /\ Len(F) \in Nat /\ Len(F) <= Len(te)
      /\ \A k \in 1..Len(F) : F[k] \in FreedPlaces(te)
      /\ \A p \in FreedPlaces(te) : \E k \in 1..Len(F) : F[k] = p
      /\ \A k, h \in 1..Len(F) : F[k] = F[h] => k = h
  BY FreeingPlaces
<1>2. out = [i \in 1..Len(F) |-> Slip(sl, F[i])] BY DEF TakenBy
<1>3. \A p : Slip(sl, p).place = p BY DEF Slip
<1>4. DOMAIN out = 1..Len(F) /\ \A i \in 1..Len(F) : out[i] = Slip(sl, F[i]) BY <1>2
<1>5. out \in [1..Len(F) -> OnBook(bk)]
  <2>1. \A i \in 1..Len(F) : Slip(sl, F[i]) \in OnBook(bk) BY <1>1
  <2> QED BY <1>2, <2>1
<1>6. out \in Seq(OnBook(bk)) /\ Len(out) = Len(F)
  <2> DEFINE n == Len(F)
  <2>1. n \in Nat /\ out \in [1..n -> OnBook(bk)] BY <1>1, <1>5
  <2> HIDE DEF n
  <2>2. out \in Seq(OnBook(bk)) /\ Len(out) = n BY <2>1
  <2> QED BY <2>2 DEF n
<1>7. \A i, j \in 1..Len(out) : out[i] = out[j] => i = j
  <2> SUFFICES ASSUME NEW i \in 1..Len(F), NEW j \in 1..Len(F), out[i] = out[j] PROVE i = j BY <1>6
  <2>1. F[i] = F[j] BY <1>3, <1>4
  <2> QED BY <1>1, <2>1
<1>8. [i \in 1..Len(out) |-> out[i].place] = F
  <2>1. [i \in 1..Len(out) |-> out[i].place] = [i \in 1..Len(F) |-> F[i]] BY <1>3, <1>4, <1>6
  <2>2. F = [i \in 1..Len(F) |-> F[i]] BY <1>1, LenProperties
  <2> QED BY <2>1, <2>2
<1>9. ASSUME NEW p \in RestPlaces(bk)
      PROVE  (\A i \in 1..Len(F) : Slip(sl, F[i]) # Slip(sl, p)) <=> p \notin FreedPlaces(te)
  BY <1>1, <1>3
<1>10. {o \in OnBook(bk) : \A i \in DOMAIN out : out[i] # o}
         = {Slip(sl, p) : p \in RestPlaces(bk) \ FreedPlaces(te)}
  <2> DEFINE L == {o \in OnBook(bk) : \A i \in DOMAIN out : out[i] # o}
             K == {Slip(sl, p) : p \in RestPlaces(bk) \ FreedPlaces(te)}
  <2>1. ASSUME NEW o \in L PROVE o \in K
    <3>1. PICK p \in RestPlaces(bk) : o = Slip(sl, p) OBVIOUS
    <3>2. \A i \in 1..Len(F) : Slip(sl, F[i]) # Slip(sl, p) BY <1>4, <3>1
    <3> QED BY <1>9, <3>1, <3>2
  <2>2. ASSUME NEW o \in K PROVE o \in L
    <3>1. PICK p \in RestPlaces(bk) : p \notin FreedPlaces(te) /\ o = Slip(sl, p) OBVIOUS
    <3>2. \A i \in 1..Len(F) : Slip(sl, F[i]) # o BY <1>9, <3>1
    <3>3. o \in OnBook(bk) BY <3>1
    <3> QED BY <1>4, <3>2, <3>3
  <2> HIDE DEF L, K
  <2>3. L = K BY <2>1, <2>2
  <2> QED BY <2>3 DEF L, K
<1> QED BY <1>1, <1>4, <1>5, <1>6, <1>7, <1>8, <1>10 DEF TakesOut, Kept, KeptSlips

(* The ledger variables of the other markets stay.                         *)
LEMMA LedgerElse ==
  ASSUME NEW m \in Markets,
         \A n \in Markets : n # m => book'[n] = book[n] /\ queue'[n] = queue[n] /\ market'[n] = market[n],
         NEW r, OnBook(book'[m]) = r, NEW l, Freeing(queue'[m]) = l, NEW k, market'[m].seq_num = k
  PROVE  /\ LResting' = [LResting EXCEPT ![m] = r]
         /\ LLeaving' = [LLeaving EXCEPT ![m] = l]
         /\ LNext' = [LNext EXCEPT ![m] = k]
<1>1. \A n \in Markets : OnBook(book'[n]) = IF n = m THEN r ELSE OnBook(book[n]) OBVIOUS
<1>2. \A n \in Markets : Freeing(queue'[n]) = IF n = m THEN l ELSE Freeing(queue[n]) OBVIOUS
<1>3. \A n \in Markets : market'[n].seq_num = IF n = m THEN k ELSE market[n].seq_num OBVIOUS
<1>4. LResting' = [LResting EXCEPT ![m] = r] BY <1>1 DEF LResting
<1>5. LLeaving' = [LLeaving EXCEPT ![m] = l] BY <1>2 DEF LLeaving
<1>6. LNext' = [LNext EXCEPT ![m] = k] BY <1>3 DEF LNext
<1> QED BY <1>4, <1>5, <1>6

(* A new order is a trade of the ledger. *)
LEMMA TradeLedger ==
  ASSUME Inv, Inv', NEW m \in Markets, Only(m), NEW te \in Seq(EventSet), NEW X, TradesTo(m, te, X)
  PROVE  Ledger!LedgerNext
<1> DEFINE out == TakenBy(slots, te)
           F == Freeing(te)
           bk == book[m]
           b2 == book'[m]
           sq == market[m].seq_num
           q == queue[m]
           q2 == queue'[m]
           s2 == slots'
<1>1. Desk(m, bk, q, slots, sq) BY OwnerHolds
<1>2. Desk(m, b2, q2, s2, market'[m].seq_num) BY DEF Inv, Good, State, Work
<1>3. q2 = Joined(q, te) /\ Rests(X, slots, s2, b2) BY DEF TradesTo
<1>4. q \in Seq(EventSet) /\ Once(q2) BY <1>1, <1>2 DEF Desk
<1>5. Once(te) BY <1>3, <1>4, OnceTail
<1> HIDE DEF bk, b2, q, q2, sq, s2
<1>6. /\ FreedPlaces(te) \subseteq RestPlaces(bk)
      /\ RestPlaces(b2) = (RestPlaces(bk) \ FreedPlaces(te)) \cup X
      /\ RestPlaces(bk) \cap X = {}
  BY <1>1, <1>2, <1>3, TradePlaces
<1>7. OnBook(bk) = {Slip(slots, p) : p \in RestPlaces(bk)} BY <1>1, Tenants
<1>8. OnBook(b2) = {Slip(s2, p) : p \in RestPlaces(b2)} BY <1>2, Tenants
<1> DEFINE left == KeptSlips(bk, slots, te)
<1>9. /\ Len(F) \in Nat /\ Len(F) <= Len(te)
      /\ out \in [1..Len(F) -> OnBook(bk)]
      /\ Len(out) = Len(F) /\ DOMAIN out = 1..Len(F)
      /\ \A i, j \in 1..Len(out) : out[i] = out[j] => i = j
      /\ [i \in 1..Len(out) |-> out[i].place] = F
      /\ Kept(OnBook(bk), out) = left
  <2> HIDE DEF out, F
  <2>1. out = TakenBy(slots, te) /\ F = Freeing(te) BY DEF out, F
  <2>2. TakesOut(out, F, bk, slots, te) BY <1>5, <1>6, <1>7, <2>1, TakenOut
  <2> QED BY <2>2 DEF TakesOut
<1> HIDE DEF out, F
<1>10. RestPlaces(bk) \subseteq Places
  <2>1. bk \in Books BY <1>1 DEF Desk
  <2>2. \A o \in bk["bid"] \cup bk["ask"] : o \in OrderSet BY <2>1 DEF Books, Sides
  <2> QED BY <2>2, PlaceParts DEF RestPlaces, OrderSet
<1>11. \A p \in RestPlaces(bk) : Slip(s2, p) = Slip(slots, p)
  <2>1. \A p \in Places : p \notin X => At(s2, p) = At(slots, p) BY <1>3 DEF Rests
  <2> QED BY <1>6, <1>10, <2>1 DEF Slip
<1>12. OnBook(b2) = left \cup {Slip(s2, p) : p \in X}
  <2>1. OnBook(b2) = {Slip(s2, p) : p \in RestPlaces(bk) \ FreedPlaces(te)} \cup {Slip(s2, p) : p \in X}
    BY <1>6, <1>8
  <2>2. {Slip(s2, p) : p \in RestPlaces(bk) \ FreedPlaces(te)} = left
    <3>1. \A p \in RestPlaces(bk) \ FreedPlaces(te) : Slip(s2, p) = Slip(slots, p) BY <1>11
    <3> QED BY <3>1 DEF KeptSlips
  <2> QED BY <2>1, <2>2
<1>13. Freeing(q2) = Cat(Freeing(q), F) BY <1>3, <1>4, FreeingCat DEF F
<1>14. Len(Freeing(q)) \in Nat /\ Len(Freeing(q)) <= Len(q) /\ Len(q) \in Nat
  BY <1>4, FreeingPlaces, LenProperties
<1>15. /\ Len(q) + Len(te) <= QueueCap /\ sq < MaxSeq /\ market'[m].seq_num = sq + 1
       /\ \A p \in X : At(s2, p) # Free /\ At(s2, p).market = m /\ At(s2, p).seq = sq + 1
       /\ X = {} \/ \E p \in Places : X = {p}
  BY DEF TradesTo, q, sq, s2
<1>16. /\ LResting' = [LResting EXCEPT ![m] = left \cup {Slip(s2, p) : p \in X}]
       /\ LLeaving' = [LLeaving EXCEPT ![m] = Cat(Freeing(q), F)]
       /\ LNext' = [LNext EXCEPT ![m] = sq + 1]
  <2>1. \A n \in Markets : n # m => book'[n] = book[n] /\ queue'[n] = queue[n] /\ market'[n] = market[n]
    BY DEF Only
  <2>2. /\ OnBook(book'[m]) = left \cup {Slip(s2, p) : p \in X}
        /\ Freeing(queue'[m]) = Cat(Freeing(q), F)
        /\ market'[m].seq_num = sq + 1
    BY <1>12, <1>13, <1>15 DEF b2, q2
  <2> HIDE DEF left
  <2> QED BY <2>1, <2>2, LedgerElse
<1>17. /\ LResting[m] = OnBook(bk) /\ LLeaving[m] = Freeing(q) /\ LNext[m] = sq
  BY DEF LResting, LLeaving, LNext, bk, q, sq
<1>18. Ledger!Trade(m, out)
  <2>1. LNext[m] < MaxSeq BY <1>15, <1>17
  <2>2. Len(LLeaving[m]) + Len(out) <= QueueCap
    <3> DEFINE x == Len(Freeing(q))
               y == Len(F)
               z == Len(te)
               u == Len(q)
    <3>1. z \in Nat BY LenProperties
    <3>2. x \in Nat /\ y \in Nat /\ u \in Nat /\ x <= u /\ y <= z /\ u + z <= QueueCap BY <1>9, <1>14, <1>15
    <3>3. QueueCap \in Int BY PerpAssumption
    <3> HIDE DEF x, y, z, u
    <3>4. x + y <= QueueCap BY <3>1, <3>2, <3>3
    <3> QED BY <1>9, <1>17, <3>4 DEF x, y
  <2>3. LLeaving' = [LLeaving EXCEPT ![m] = @ \o [i \in 1..Len(out) |-> out[i].place]]
    BY <1>9, <1>16, <1>17 DEF Cat
  <2>4. LNext' = [LNext EXCEPT ![m] = @ + 1] BY <1>16, <1>17
  <2> QED BY <1>9, <2>1, <2>2, <2>3, <2>4 DEF Ledger!Trade, Ledger!Events, LLeaving, LNext
<1>19. Len(F) \in 0..QueueCap
  <2>1. Len(te) \in Nat /\ QueueCap \in Int BY LenProperties, PerpAssumption
  <2>2. Len(F) <= QueueCap BY <1>9, <1>14, <1>15, <2>1
  <2> QED BY <1>9, <2>1, <2>2
<1>20. CASE X = {}
  <2>a. left \cup {Slip(s2, p) : p \in X} = left BY <1>20
  <2> HIDE DEF left
  <2>1. LResting' = [LResting EXCEPT ![m] = Kept(@, out)]
    BY <1>9, <1>16, <1>17, <2>a
  <2>2. HeldBy(slots)' = HeldBy(slots)
    <3>1. \A p \in Places : At(s2, p) = At(slots, p) BY <1>3, <1>20 DEF Rests
    <3>2. HeldBy(s2) = HeldBy(slots) BY <3>1, HeldAt
    <3> QED BY <3>2 DEF s2
  <2>3. Ledger!Take(m, out) BY <1>18, <2>1, <2>2 DEF Ledger!Take, Ledger!Remaining, Kept, LResting
  <2>4. out \in [1..Len(F) -> LResting[m]] BY <1>9, <1>17
  <2> QED BY <1>19, <2>3, <2>4 DEF Ledger!LedgerNext, LResting
<1>21. CASE \E p \in Places : X = {p}
  <2>1. PICK p \in Places : X = {p} BY <1>21
  <2>2. /\ At(slots, p) = Free /\ At(s2, p) # Free /\ At(s2, p).market = m /\ At(s2, p).seq = sq + 1
    BY <1>3, <1>15, <2>1 DEF Rests
  <2>3. {Slip(s2, x) : x \in X} = {[seq |-> sq + 1, place |-> p]} BY <2>1, <2>2 DEF Slip
  <2>4. LResting' = [LResting EXCEPT ![m] = Kept(@, out) \cup {[seq |-> LNext[m] + 1, place |-> p]}]
    BY <1>9, <1>16, <1>17, <2>3
  <2>5. HeldBy(slots)[p] = Free BY <2>2, HeldAt DEF Entry
  <2>6. HeldBy(slots)' = [HeldBy(slots) EXCEPT ![p] = [market |-> m, seq |-> LNext[m] + 1]]
    <3>1. \A x \in Places : x # p => At(s2, x) = At(slots, x) BY <1>3, <2>1 DEF Rests
    <3>2. Entry(At(s2, p)) = [market |-> m, seq |-> LNext[m] + 1] BY <1>17, <2>2 DEF Entry
    <3>3. [x \in Places |-> Entry(At(s2, x))]
            = [[x \in Places |-> Entry(At(slots, x))] EXCEPT ![p] = [market |-> m, seq |-> LNext[m] + 1]]
      BY <3>1, <3>2
    <3> QED BY <3>3, HeldAt DEF s2
  <2>7. Ledger!Post(p, m, out)
    BY <1>18, <2>4, <2>5, <2>6 DEF Ledger!Post, Ledger!Remaining, Kept, LResting, LNext
  <2>8. out \in [1..Len(F) -> LResting[m]] BY <1>9, <1>17
  <2>9. p \in Ledger!Place BY DEF Ledger!Place, Places
  <2> QED BY <1>19, <2>7, <2>8, <2>9 DEF Ledger!LedgerNext, LResting
<1> QED BY <1>15, <1>20, <1>21


(* A sequence without its first i elements.                                *)
LEMMA Dropping ==
  ASSUME NEW S, NEW q \in Seq(S), NEW i \in 0..Len(q)
  PROVE  /\ Drop(q, i) \in Seq(S) /\ Len(Drop(q, i)) = Len(q) - i
         /\ \A j \in 1..(Len(q) - i) : Drop(q, i)[j] = q[i + j]
<1>0. Len(q) \in Nat /\ \A j \in 1..Len(q) : q[j] \in S BY LenProperties, ElementOfSeq
<1>1. i + 1 \in Int /\ Len(q) \in Int /\ \A j \in (i + 1)..Len(q) : q[j] \in S BY <1>0
<1>2. /\ SubSeq(q, i + 1, Len(q)) \in Seq(S)
      /\ Len(SubSeq(q, i + 1, Len(q))) = IF i + 1 <= Len(q) THEN Len(q) - (i + 1) + 1 ELSE 0
      /\ \A j \in 1..(Len(q) - (i + 1) + 1) : SubSeq(q, i + 1, Len(q))[j] = q[(i + 1) + j - 1]
  BY <1>1, SubSeqProperties
<1>3. Len(q) - (i + 1) + 1 = Len(q) - i BY <1>0
<1>4. \A j \in 1..(Len(q) - i) : (i + 1) + j - 1 = i + j BY <1>0
<1>5. Len(Drop(q, i)) = Len(q) - i BY <1>0, <1>2 DEF Drop
<1>6. \A j \in 1..(Len(q) - i) : Drop(q, i)[j] = q[i + j] BY <1>2, <1>3, <1>4 DEF Drop
<1> QED BY <1>2, <1>5, <1>6 DEF Drop

(* A committed working copy, as the ledger sees it. *)
LEMMA CommitLedger ==
  ASSUME Inv, NEW m \in Markets, NEW w, Commit(m, w), NEW q, queue' = [queue EXCEPT ![m] = q]
  PROVE  /\ book'[m] = w.book /\ slots' = w.slots /\ queue'[m] = q
         /\ LResting' = [LResting EXCEPT ![m] = OnBook(w.book)]
         /\ LLeaving' = [LLeaving EXCEPT ![m] = Freeing(q)]
         /\ LNext' = LNext
<1>1. /\ book \in [Markets -> Books] /\ queue \in [Markets -> Seq(EventSet)] /\ market \in [Markets -> MarketSet]
  BY DEF Inv, Halls
<1>2. /\ book' = [book EXCEPT ![m] = w.book] /\ slots' = w.slots
      /\ market' = [market EXCEPT ![m].open_interest = w.open_interest]
  BY DEF Commit
<1>3. \A n \in Markets : book'[n] = IF n = m THEN w.book ELSE book[n] BY <1>1, <1>2
<1>4. \A n \in Markets : queue'[n] = IF n = m THEN q ELSE queue[n] BY <1>1
<1>5. \A n \in Markets : market'[n].seq_num = market[n].seq_num BY <1>1, <1>2 DEF MarketSet
<1>6. \A n \in Markets : OnBook(book'[n]) = IF n = m THEN OnBook(w.book) ELSE OnBook(book[n]) BY <1>3
<1>7. \A n \in Markets : Freeing(queue'[n]) = IF n = m THEN Freeing(q) ELSE Freeing(queue[n]) BY <1>4
<1>8. LResting' = [LResting EXCEPT ![m] = OnBook(w.book)] BY <1>6 DEF LResting
<1>9. LLeaving' = [LLeaving EXCEPT ![m] = Freeing(q)] BY <1>7 DEF LLeaving
<1>10. LNext' = LNext BY <1>5 DEF LNext
<1> QED BY <1>2, <1>3, <1>4, <1>8, <1>9, <1>10

(* Cancelling is a cancel of the ledger. *)
LEMMA CancelLedger ==
  ASSUME Inv, Inv', NEW m \in Markets, NEW a \in Accounts, NEW w, CancelsTo(a, m, w)
  PROVE  Ledger!LedgerNext
<1> DEFINE bk == book[m]
           b2 == w.book
           s2 == w.slots
           q == queue[m]
           sq == market[m].seq_num
           S == OnBook(bk) \ OnBook(b2)
           gone == RestPlaces(bk) \ RestPlaces(b2)
<1>1. queue' = [queue EXCEPT ![m] = q] BY DEF Inv, Halls, CancelsTo
<1>2. Commit(m, w) BY DEF CancelsTo
<1> HIDE DEF q
<1>3. /\ book'[m] = b2 /\ slots' = s2 /\ queue'[m] = q
      /\ LResting' = [LResting EXCEPT ![m] = OnBook(b2)]
      /\ LLeaving' = [LLeaving EXCEPT ![m] = Freeing(q)]
      /\ LNext' = LNext
  BY <1>1, <1>2, CommitLedger
<1>4. Desk(m, bk, q, slots, sq) BY OwnerHolds DEF q
<1>5. /\ Desk(m, b2, q, s2, market'[m].seq_num)
  <2>1. Desk(m, book'[m], queue'[m], slots', market'[m].seq_num) BY DEF Inv, Good, State, Work
  <2> QED BY <1>3, <2>1
<1>6. Emptied({a}, slots, s2) /\ Foreign(m, slots, s2)
  <2>1. Work(m).slots = slots BY DEF Work
  <2> QED BY <2>1 DEF CancelsTo, Cancelled
<1>7. /\ LResting[m] = OnBook(bk) /\ LLeaving[m] = Freeing(q) BY DEF LResting, LLeaving, q
<1> HIDE DEF bk, b2, s2, sq
<1>8. /\ RestPlaces(b2) \subseteq RestPlaces(bk)
      /\ \A p \in Places : /\ p \in gone => At(s2, p) = Free /\ p[1] \in {a}
                           /\ p \notin gone => At(s2, p) = At(slots, p)
  BY <1>4, <1>5, <1>6, CancelPlaces
<1>9. OnBook(bk) = {Slip(slots, p) : p \in RestPlaces(bk)} BY <1>4, Tenants
<1>10. OnBook(b2) = {Slip(s2, p) : p \in RestPlaces(b2)} BY <1>5, Tenants
<1>11. RestPlaces(bk) \subseteq Places
  <2>1. bk \in Books BY <1>4 DEF Desk
  <2>2. \A o \in bk["bid"] \cup bk["ask"] : o \in OrderSet BY <2>1 DEF Books, Sides
  <2> QED BY <2>2, PlaceParts DEF RestPlaces, OrderSet
<1>12. \A p \in RestPlaces(b2) : Slip(s2, p) = Slip(slots, p)
  <2>1. \A p \in RestPlaces(b2) : p \in Places /\ p \notin gone BY <1>8, <1>11
  <2> QED BY <1>8, <2>1 DEF Slip
<1>13. \A p : Slip(slots, p).place = p BY DEF Slip
<1>14. OnBook(b2) = {Slip(slots, p) : p \in RestPlaces(b2)} BY <1>10, <1>12
<1> HIDE DEF gone
<1>15. S = {Slip(slots, p) : p \in gone}
  <2>1. ASSUME NEW o \in S PROVE o \in {Slip(slots, p) : p \in gone}
    <3>1. PICK p \in RestPlaces(bk) : o = Slip(slots, p) BY <1>9
    <3>2. p \notin RestPlaces(b2) BY <1>14, <3>1
    <3> QED BY <3>1, <3>2 DEF gone
  <2>2. ASSUME NEW p \in gone PROVE Slip(slots, p) \in S
    <3>1. p \in RestPlaces(bk) /\ p \notin RestPlaces(b2) BY DEF gone
    <3>2. Slip(slots, p) \in OnBook(bk) BY <1>9, <3>1
    <3>3. ASSUME Slip(slots, p) \in OnBook(b2) PROVE FALSE
      <4>1. PICK x \in RestPlaces(b2) : Slip(slots, p) = Slip(slots, x) BY <1>14, <3>3
      <4>2. x = p BY <1>13, <4>1
      <4> QED BY <3>1, <4>1, <4>2
    <3> QED BY <3>2, <3>3
  <2> HIDE DEF S
  <2> QED BY <2>1, <2>2
<1>16. OnBook(b2) = OnBook(bk) \ S
  <2>1. OnBook(b2) \subseteq OnBook(bk) BY <1>8, <1>9, <1>14
  <2> QED BY <2>1
<1>17. S \subseteq OnBook(bk) OBVIOUS
<1> HIDE DEF S
<1>18. \A o \in S : o.place[1] = a
  <2> SUFFICES ASSUME NEW o \in S PROVE o.place[1] = a OBVIOUS
  <2>1. PICK p \in gone : o = Slip(slots, p) BY <1>15
  <2>2. p \in Places BY <1>11 DEF gone
  <2> QED BY <1>8, <1>13, <2>1, <2>2
<1>19. \A p \in Places : (\E o \in S : o.place = p) <=> p \in gone BY <1>13, <1>15
<1>20. HeldBy(slots)' = [p \in Places |-> IF \E o \in S : o.place = p THEN Free ELSE HeldBy(slots)[p]]
  <2>1. HeldBy(s2) = [p \in Places |-> Entry(At(s2, p))] BY HeldAt
  <2>2. \A p \in Places : HeldBy(slots)[p] = Entry(At(slots, p)) BY HeldAt
  <2>3. \A p \in Places : Entry(At(s2, p)) = IF \E o \in S : o.place = p THEN Free ELSE HeldBy(slots)[p]
    <3> SUFFICES ASSUME NEW p \in Places
                 PROVE  Entry(At(s2, p)) = IF \E o \in S : o.place = p THEN Free ELSE HeldBy(slots)[p]
      OBVIOUS
    <3>1. CASE p \in gone BY <1>8, <1>19, <3>1 DEF Entry
    <3>2. CASE p \notin gone
      <4>1. Entry(At(s2, p)) = HeldBy(slots)[p] BY <1>8, <2>2, <3>2
      <4> QED BY <1>19, <3>2, <4>1
    <3> QED BY <3>1, <3>2
  <2>4. HeldBy(s2) = [p \in Places |-> IF \E o \in S : o.place = p THEN Free ELSE HeldBy(slots)[p]] BY <2>1, <2>3
  <2> QED BY <1>3, <2>4
<1>21. LResting' = [LResting EXCEPT ![m] = @ \ S] BY <1>3, <1>7, <1>16
<1>22. LLeaving' = LLeaving
  <2>1. LLeaving = [LLeaving EXCEPT ![m] = Freeing(q)] BY <1>7 DEF LLeaving
  <2> QED BY <1>3, <2>1
<1>23. Ledger!Cancel(a, m, S)
  BY <1>3, <1>18, <1>20, <1>21, <1>22 DEF Ledger!Cancel, Ledger!Place, Places, LResting, LLeaving, LNext
<1>24. S \in SUBSET LResting[m] BY <1>7, <1>17
<1> QED BY <1>23, <1>24 DEF Ledger!LedgerNext, LResting

(* Consuming events is consuming what the ledger sees of them, if anything. *)
LEMMA CrankLedger ==
  ASSUME Inv, Inv', NEW m \in Markets, NEW n, NEW w, CranksTo(m, n, w)
  PROVE  Ledger!LedgerNext \/ UNCHANGED Ledger!lvars
<1> DEFINE bk == book[m]
           s2 == w.slots
           q == queue[m]
           s1 == SubSeq(q, 1, n)
           s3 == Drop(q, n)
           sq == market[m].seq_num
           f1 == Freeing(s1)
           f3 == Freeing(s3)
           k == Len(f1)
<1>1. /\ n \in 0..Len(q) /\ Commit(m, w) /\ queue' = [queue EXCEPT ![m] = s3]
      /\ w.book = bk /\ Emptied(Accounts, slots, s2) /\ Foreign(m, slots, s2)
  BY DEF CranksTo, Reached, Work
<1>2. q \in Seq(EventSet) /\ Len(q) \in Nat BY LenProperties DEF Inv, Halls
<1>3. s1 \in Seq(EventSet) /\ s3 \in Seq(EventSet) /\ q = Joined(s1, s3)
  <2> HIDE DEF q
  <2>1. s1 \in Seq(EventSet) /\ Len(s1) = n /\ \A i \in 1..n : s1[i] = q[i]
    <3>1. n \in Nat /\ n <= Len(q) BY <1>1, <1>2
    <3>2. CASE n = 0
      <4>1. s1 = <<>> BY <1>2, <3>2
      <4> QED BY <3>2, <4>1
    <3>3. CASE n > 0
      <4>1. 1 \in 1..Len(q) /\ n \in 1..Len(q) BY <1>2, <3>1, <3>3
      <4> QED BY <1>2, <3>1, <3>3, <4>1, SubSeqProperties
    <3> QED BY <3>1, <3>2, <3>3
  <2>2. s3 \in Seq(EventSet) /\ Len(s3) = Len(q) - n /\ \A i \in 1..(Len(q) - n) : s3[i] = q[n + i]
    BY <1>1, <1>2, Dropping
  <2> DEFINE u == Joined(s1, s3)
  <2> HIDE DEF s1, s3
  <2>3. /\ u \in Seq(EventSet) /\ Len(u) = Len(q)
        /\ \A i \in 1..n : u[i] = s1[i] /\ \A j \in 1..(Len(q) - n) : u[n + j] = s3[j]
    BY <1>1, <1>2, <2>1, <2>2 DEF Joined
  <2>4. \A i \in 1..Len(q) : u[i] = q[i]
    <3> SUFFICES ASSUME NEW i \in 1..Len(q) PROVE u[i] = q[i] OBVIOUS
    <3>1. CASE i \in 1..n BY <2>1, <2>3, <3>1
    <3>2. CASE i \notin 1..n
      <4> DEFINE j == i - n
      <4>1. j \in 1..(Len(q) - n) /\ i = n + j BY <1>1, <1>2, <3>2
      <4> HIDE DEF j
      <4>2. u[n + j] = s3[j] BY <1>1, <1>2, <2>1, <2>2, <4>1 DEF Joined
      <4> QED BY <2>2, <4>1, <4>2
    <3> QED BY <3>1, <3>2
  <2>5. u = q BY <1>2, <2>3, <2>4, SeqEqual
  <2> QED BY <2>1, <2>2, <2>5
<1>4. Desk(m, bk, q, slots, sq) BY OwnerHolds
<1> HIDE DEF q, s1, s3
<1>5. /\ book'[m] = bk /\ slots' = s2 /\ queue'[m] = s3
      /\ LResting' = [LResting EXCEPT ![m] = OnBook(bk)]
      /\ LLeaving' = [LLeaving EXCEPT ![m] = f3]
      /\ LNext' = LNext
  BY <1>1, CommitLedger
<1>6. Desk(m, bk, s3, s2, market'[m].seq_num)
  <2>1. Desk(m, book'[m], queue'[m], slots', market'[m].seq_num) BY DEF Inv, Good, State, Work
  <2> QED BY <1>5, <2>1
<1>7. LResting[m] = OnBook(bk) /\ LLeaving[m] = Freeing(q) BY DEF LResting, LLeaving, q
<1>8. LResting' = LResting
  <2>1. LResting = [LResting EXCEPT ![m] = OnBook(bk)] BY <1>7 DEF LResting
  <2> QED BY <1>5, <2>1
<1> HIDE DEF bk, s2, sq
<1>9. \A p \in Places : At(s2, p) = (IF p \in FreedPlaces(s1) THEN Free ELSE At(slots, p))
  BY <1>1, <1>3, <1>4, <1>6, CrankPlaces
<1>10. Freeing(q) = Cat(f1, f3) BY <1>3, FreeingCat
<1>11. /\ f1 \in Seq(Places) /\ k \in Nat
       /\ \A i \in 1..k : f1[i] \in FreedPlaces(s1)
       /\ \A p \in FreedPlaces(s1) : \E i \in 1..k : f1[i] = p
  BY <1>3, FreeingPlaces
<1>12. f3 \in Seq(Places) BY <1>3, FreeingPlaces
<1> HIDE DEF f1, f3, k
<1> DEFINE l == Cat(f1, f3)
<1>13. /\ l \in Seq(Places) /\ Len(l) = k + Len(f3) /\ Len(f3) \in Nat
       /\ \A i \in 1..k : l[i] = f1[i]
       /\ \A i \in 1..Len(f3) : l[k + i] = f3[i]
  BY <1>11, <1>12, LenProperties DEF Cat, k
<1>14. SubSeq(l, k + 1, Len(l)) = f3
  <2> HIDE DEF l
  <2> DEFINE d == Drop(l, k)
  <2>1. k \in 0..Len(l) BY <1>11, <1>13
  <2>2. d \in Seq(Places) /\ Len(d) = Len(l) - k /\ \A i \in 1..(Len(l) - k) : d[i] = l[k + i] BY <1>13, <2>1, Dropping
  <2> HIDE DEF d
  <2>3. Len(d) = Len(f3) BY <1>11, <1>13, <2>2
  <2>4. \A i \in 1..Len(f3) : d[i] = f3[i] BY <1>11, <1>13, <2>2
  <2>5. d = f3 BY <1>12, <2>2, <2>3, <2>4, SeqEqual
  <2> QED BY <2>5 DEF d, Drop
<1>15. LLeaving[m] = l BY <1>7, <1>10
<1> HIDE DEF l
<1>16. \A p \in Places : (\E i \in 1..k : LLeaving[m][i] = p) <=> p \in FreedPlaces(s1)
  BY <1>11, <1>13, <1>15
<1>17. HeldBy(slots)' = [p \in Places |-> IF \E i \in 1..k : LLeaving[m][i] = p THEN Free ELSE HeldBy(slots)[p]]
  <2>1. HeldBy(s2) = [p \in Places |-> Entry(At(s2, p))] BY HeldAt
  <2>2. \A p \in Places : HeldBy(slots)[p] = Entry(At(slots, p)) BY HeldAt
  <2>3. \A p \in Places : Entry(At(s2, p)) = IF \E i \in 1..k : LLeaving[m][i] = p THEN Free ELSE HeldBy(slots)[p]
    <3> SUFFICES ASSUME NEW p \in Places
                 PROVE  Entry(At(s2, p)) = IF \E i \in 1..k : LLeaving[m][i] = p THEN Free ELSE HeldBy(slots)[p]
      OBVIOUS
    <3>1. CASE p \in FreedPlaces(s1) BY <1>9, <1>16, <3>1 DEF Entry
    <3>2. CASE p \notin FreedPlaces(s1)
      <4>1. Entry(At(s2, p)) = HeldBy(slots)[p] BY <1>9, <2>2, <3>2
      <4> QED BY <1>16, <3>2, <4>1
    <3> QED BY <3>1, <3>2
  <2>4. HeldBy(s2) = [p \in Places |-> IF \E i \in 1..k : LLeaving[m][i] = p THEN Free ELSE HeldBy(slots)[p]]
    BY <2>1, <2>3
  <2> QED BY <1>5, <2>4
<1>18. LLeaving' = [LLeaving EXCEPT ![m] = SubSeq(@, k + 1, Len(@))] BY <1>5, <1>14, <1>15
<1>19. Ledger!Consume(m, k)
  BY <1>5, <1>8, <1>17, <1>18 DEF Ledger!Consume, Ledger!Place, Places, LResting, LLeaving, LNext
<1>20. CASE k > 0
  <2>1. k \in 1..Len(LLeaving[m]) BY <1>11, <1>13, <1>15, <1>20
  <2> QED BY <1>19, <2>1 DEF Ledger!LedgerNext, LLeaving
<1>21. CASE k = 0
  <2>1. 1..k = {} BY <1>21
  <2>2. HeldBy(slots)' = HeldBy(slots)
    <3>1. HeldBy(slots) = [p \in Places |-> HeldBy(slots)[p]] BY HeldAt
    <3> QED BY <1>17, <2>1, <3>1
  <2>3. LLeaving' = LLeaving
    <3>1. f1 = <<>> BY <1>11, <1>21 DEF k
    <3>2. l = f3 BY <1>12, <3>1 DEF l, Cat
    <3>3. LLeaving = [LLeaving EXCEPT ![m] = f3] BY <1>15, <3>2 DEF LLeaving
    <3> QED BY <1>5, <3>3
  <2> QED BY <1>5, <1>8, <2>2, <2>3 DEF Ledger!lvars, LResting, LLeaving, LNext
<1> QED BY <1>11, <1>20, <1>21


(* Every step is one of the ledger's, or changes nothing the ledger sees. *)
LEMMA MovesLedger ==
  ASSUME Inv, Inv', Moves
  PROVE  [Ledger!LedgerNext]_(Ledger!lvars)
<1>1. CASE \E a \in Accounts, m \in Markets : NewOrders(a, m)
  <2>1. PICK a \in Accounts, m \in Markets : NewOrders(a, m) BY <1>1
  <2>d. PICK side \in Sides, price0 \in OrderPrices, base \in Nat, quote \in Quotes :
          \E type : NewOrderFor(a, m, side, price0, base, quote, type)
    BY <2>1 DEF NewOrders
  <2>a. price0 \in Int /\ quote \in Nat BY InputInts
  <2>2. PICK type : NewOrderFor(a, m, side, price0, base, quote, type) BY <2>d
  <2>b. PICK expiry \in Int, limit \in Int, cid \in ClientIds : \E oracle, ref :
          NewOrderOf(a, m, side, price0, base, quote, type, expiry, limit, cid, oracle, ref)
    BY <2>2 DEF NewOrderFor
  <2>3. PICK oracle, ref :
          NewOrderOf(a, m, side, price0, base, quote, type, expiry, limit, cid, oracle, ref)
    BY <2>b
  <2>c. PICK te \in Seq(EventSet) : \E X : TradesTo(m, te, X) BY <2>3, <2>a, NewOrderTrades
  <2>4. PICK X : TradesTo(m, te, X) BY <2>c
  <2>5. Only(m)
    <3>1. /\ base > 0 /\ ref.rate \in Int /\ (ref.to = Nobody \/ ref.to \in Accounts)
          /\ new_order(a, m, side, price0, base, quote, type, expiry, limit, cid, oracle, ref)
      BY <2>3 DEF NewOrderOf
    <3>2. Halls /\ Good(m) BY DEF Inv
    <3> QED BY <2>a, <3>1, <3>2, NewOrderGood
  <2>6. Ledger!LedgerNext BY <2>4, <2>5, TradeLedger
  <2> QED BY <2>6
<1>2. CASE \E a \in Accounts, m \in Markets : Cancels(a, m)
  <2>1. PICK a \in Accounts, m \in Markets : Cancels(a, m) BY <1>2
  <2>2. PICK w : CancelsTo(a, m, w) BY <2>1 DEF Cancels
  <2>3. Ledger!LedgerNext BY <2>2, CancelLedger
  <2> QED BY <2>3
<1>3. CASE \E m \in Markets : \E n, w : CranksTo(m, n, w)
  <2>a. PICK m \in Markets : \E n, w : CranksTo(m, n, w) BY <1>3
  <2>1. PICK n, w : CranksTo(m, n, w) BY <2>a
  <2>2. Ledger!LedgerNext \/ UNCHANGED Ledger!lvars BY <2>1, CrankLedger
  <2> QED BY <2>2
<1>4. CASE MovesNothing
  <2>1. UNCHANGED <<book, queue, slots>> /\ \A m \in Markets : market'[m].seq_num = market[m].seq_num
    BY <1>4 DEF MovesNothing
  <2>2. UNCHANGED Ledger!lvars
    <3>1. HeldBy(slots)' = HeldBy(slots) BY <2>1
    <3>2. LResting' = LResting /\ LLeaving' = LLeaving BY <2>1 DEF LResting, LLeaving
    <3>3. LNext' = LNext BY <2>1 DEF LNext
    <3> QED BY <3>1, <3>2, <3>3 DEF Ledger!lvars, LResting, LLeaving, LNext
  <2> QED BY <2>2
<1> QED BY <1>1, <1>2, <1>3, <1>4 DEF Moves

(* No event, nothing freed.                                                *)
LEMMA FreeingNone == Freeing(<<>>) = <<>>
<1>1. <<>> \in Seq(EventSet) /\ Len(<<>>) = 0 OBVIOUS
<1> DEFINE f == Freeing(<<>>)
<1>2. f \in Seq(Places) /\ Len(f) \in Nat /\ Len(f) <= 0 BY <1>1, FreeingPlaces
<1> HIDE DEF f
<1>3. f = <<>> BY <1>2
<1> QED BY <1>3 DEF f

(* A new ledger.                                                           *)
LEMMA InitLedger == Init => Ledger!LedgerInit
<1> SUFFICES ASSUME Init PROVE Ledger!LedgerInit OBVIOUS
<1>1. \A m \in Markets : book[m] = [s \in Sides |-> {}] /\ queue[m] = <<>> /\ market[m].seq_num = 0
  BY DEF Init
<1>2. \A a \in Accounts, s \in Slot : slots[a][s] = Free BY DEF Init
<1>3. \A p \in Places : Entry(At(slots, p)) = Free BY <1>2, PlaceParts DEF Entry, At
<1>4. HeldBy(slots) = [p \in Places |-> Free] BY <1>3, HeldAt
<1>5. \A m \in Markets : OnBook(book[m]) = {}
  <2>1. "bid" \in Sides /\ "ask" \in Sides BY DEF Sides
  <2>2. \A m \in Markets : book[m]["bid"] \cup book[m]["ask"] = {} BY <1>1, <2>1
  <2> QED BY <2>2 DEF OnBook
<1>6. \A m \in Markets : Freeing(queue[m]) = <<>> BY <1>1, FreeingNone
<1> QED BY <1>1, <1>4, <1>5, <1>6 DEF Ledger!LedgerInit, Ledger!Place, Places

(* PerpMarket implements the order ledger, with and without trigger        *)
(* orders: place, cancel, force-cancel and consume do to the order slots   *)
(* what the ledger allows, and no other instruction touches them.          *)
THEOREM LedgerImplemented == (Spec => ImplementsLedger) /\ (AdvancedSpec => ImplementsLedger)
<1>1. Inv /\ Inv' /\ [Next]_vars => [Ledger!LedgerNext]_(Ledger!lvars) BY NextMoves, MovesLedger
<1>2. AdvancedInv /\ AdvancedInv' /\ [AdvancedNext]_advancedVars => [Ledger!LedgerNext]_(Ledger!lvars)
  BY AdvancedMoves, MovesLedger DEF AdvancedInv
<1>3. Spec => ImplementsLedger
  BY <1>1, InitLedger, MarketsInv, PTL DEF Spec, ImplementsLedger, Ledger!LedgerSpec
<1>4. AdvancedInit => Ledger!LedgerInit BY InitLedger DEF AdvancedInit
<1>5. AdvancedSpec => ImplementsLedger
  BY <1>2, <1>4, AdvancedInvariant, PTL DEF AdvancedSpec, ImplementsLedger, Ledger!LedgerSpec
<1> QED BY <1>3, <1>5

-----------------------------------------------------------------------------
(***************************************************************************)
(* Simulating an order.  The matching loop and the simulation take the     *)
(* same turns as long as neither quote nor fills run out: they are run     *)
(* side by side.  That quote does not run out follows from the prices at   *)
(* which orders can rest; once fills do, the simulation takes more.        *)
(***************************************************************************)


(* A fold, turn by turn: r[i] is what it has come to after i elements. *)
Chained(r, p, base, seq, n) ==
  /\ r[0] = base
  /\ \A i \in 1..n : r[i] = RunStep(p, r[i - 1], seq[i])
  /\ r[n] = Run(p, base, seq)

(* Every fold over a sequence has its turns.                               *)
LEMMA Chainable ==
  ASSUME NEW n \in Nat, NEW seq, DOMAIN seq = 1..n, NEW p, NEW base
  PROVE  \E r : Chained(r, p, base, seq, n)
BY RunChain DEF Chained

(* What the loops of matching and of simulating work on. *)
MatchFields == {"base", "quote", "limit", "drops", "post", "done", "evs", "rest"}
SimFields == {"base", "quote", "crossed", "done"}

SameAmounts(acc, x) == x.base = acc.base /\ x.quote = acc.quote /\ x.limit = acc.limit
Taking(acc, o) == Min({acc.base, o.qty, acc.quote \div o.price})

(* What one turn of the matching loop does to its numbers and flags. *)
Reaches(o, side, price, t) == is_valid(o, t) /\ ~OutOfReach(side, price, o.price)
Refused(acc, o, type) == post_only(type) \/ acc.limit = 0 \/ acc.quote \div o.price = 0
MatchTurned(acc, o, side, type, price, t, x) ==
  /\ DOMAIN x = MatchFields
  /\ acc.done = TRUE \/ ~is_valid(o, t) => SameAmounts(acc, x) /\ x.post = acc.post /\ x.done = acc.done
  /\ acc.done = FALSE /\ is_valid(o, t) /\ OutOfReach(side, price, o.price) =>
       SameAmounts(acc, x) /\ x.post = acc.post /\ x.done = TRUE
  /\ acc.done = FALSE /\ Reaches(o, side, price, t) /\ Refused(acc, o, type) =>
       SameAmounts(acc, x) /\ x.post = FALSE /\ x.done = TRUE
  /\ acc.done = FALSE /\ Reaches(o, side, price, t) /\ ~Refused(acc, o, type) =>
       /\ x.base = acc.base - Taking(acc, o) /\ x.quote = acc.quote - Taking(acc, o) * o.price
       /\ x.limit = acc.limit - 1 /\ x.post = acc.post
       /\ x.done = (Taking(acc, o) = acc.quote \div o.price \/ Taking(acc, o) = acc.base)

(* One turn of the matching loop.                                          *)
LEMMA MatchCases ==
  ASSUME NEW acc, DOMAIN acc = MatchFields, acc.done \in BOOLEAN, NEW o, NEW side, NEW type, NEW price,
         NEW taker, NEW t, NEW x, x = MatchOne(acc, o, side, type, price, taker, t)
  PROVE  MatchTurned(acc, o, side, type, price, t, x)
<1> DEFINE by == acc.quote \div o.price
           qty == Taking(acc, o)
           e1 == Append(acc.evs, OutEvent(o, invert_side(side)))
           e2 == Append(acc.evs, FillEvent(o, side, taker, qty))
           s1 == acc.rest \ {o}
           s2 == (acc.rest \ {o}) \cup AfterFill(o, qty)
           b2 == acc.base - qty
           q2 == acc.quote - qty * o.price
           d2 == qty = by \/ qty = acc.base
<1>1. x = IF acc.done THEN acc
          ELSE IF ~is_valid(o, t) THEN
            IF acc.drops = DropExpiredLimit THEN acc
            ELSE [acc EXCEPT !.drops = @ + 1, !.evs = e1, !.rest = s1]
          ELSE IF OutOfReach(side, price, o.price) THEN [acc EXCEPT !.done = TRUE]
          ELSE IF post_only(type) \/ acc.limit = 0 \/ by = 0 THEN [acc EXCEPT !.done = TRUE, !.post = FALSE]
          ELSE [acc EXCEPT !.base = b2, !.quote = q2, !.limit = @ - 1, !.evs = e2, !.rest = s2, !.done = d2]
  BY DEF MatchOne, Taking
<1> HIDE DEF by, qty, e1, e2, s1, s2, b2, q2, d2
<1>2. CASE acc.done = TRUE
  <2>1. x = acc BY <1>1, <1>2
  <2> QED BY <1>2, <2>1 DEF SameAmounts, MatchFields, MatchTurned
<1>3. CASE acc.done = FALSE /\ ~is_valid(o, t)
  <2>1. x = acc \/ x = [acc EXCEPT !.drops = @ + 1, !.evs = e1, !.rest = s1] BY <1>1, <1>3
  <2> QED BY <1>3, <2>1 DEF SameAmounts, MatchFields, MatchTurned, Reaches
<1>4. CASE acc.done = FALSE /\ is_valid(o, t) /\ OutOfReach(side, price, o.price)
  <2>1. x = [acc EXCEPT !.done = TRUE] BY <1>1, <1>4
  <2> QED BY <1>4, <2>1 DEF SameAmounts, MatchFields, MatchTurned, Reaches
<1>5. CASE acc.done = FALSE /\ is_valid(o, t) /\ ~OutOfReach(side, price, o.price) /\ (post_only(type) \/ acc.limit = 0 \/ by = 0)
  <2>1. x = [acc EXCEPT !.done = TRUE, !.post = FALSE] BY <1>1, <1>5
  <2> QED BY <1>5, <2>1 DEF SameAmounts, MatchFields, MatchTurned, Reaches, Refused, by
<1>6. CASE acc.done = FALSE /\ is_valid(o, t) /\ ~OutOfReach(side, price, o.price) /\ ~(post_only(type) \/ acc.limit = 0 \/ by = 0)
  <2>1. x = [acc EXCEPT !.base = b2, !.quote = q2, !.limit = @ - 1, !.evs = e2, !.rest = s2, !.done = d2]
    BY <1>1, <1>6
  <2>2. DOMAIN x = MatchFields /\ x.base = b2 /\ x.quote = q2 /\ x.limit = acc.limit - 1 /\ x.post = acc.post /\ x.done = d2
    BY <2>1 DEF MatchFields
  <2> QED BY <1>6, <2>2 DEF b2, q2, d2, qty, by, MatchTurned, Reaches, Refused
<1> QED BY <1>2, <1>3, <1>4, <1>5, <1>6 DEF by

(* What one turn of the simulating loop does. *)
SimTurned(acc, o, side, type, price, x) ==
  /\ DOMAIN x = SimFields
  /\ acc.done = TRUE \/ ~is_valid(o, now) => x = acc
  /\ acc.done = FALSE /\ is_valid(o, now) /\ OutOfReach(side, price, o.price) =>
       x.base = acc.base /\ x.quote = acc.quote /\ x.crossed = acc.crossed /\ x.done = TRUE
  /\ acc.done = FALSE /\ Reaches(o, side, price, now) /\ post_only(type) =>
       x.base = acc.base /\ x.quote = acc.quote /\ x.crossed = TRUE /\ x.done = TRUE
  /\ acc.done = FALSE /\ Reaches(o, side, price, now) /\ ~post_only(type) =>
       /\ x.base = acc.base - Taking(acc, o) /\ x.quote = acc.quote - Taking(acc, o) * o.price
       /\ x.crossed = acc.crossed
       /\ x.done = (Taking(acc, o) = acc.quote \div o.price \/ Taking(acc, o) = acc.base)

(* One turn of the simulating loop.                                        *)
LEMMA SimCases ==
  ASSUME NEW acc, DOMAIN acc = SimFields, acc.done \in BOOLEAN, NEW o, NEW side, NEW type, NEW price,
         NEW x, x = SimOne(acc, o, side, type, price)
  PROVE  SimTurned(acc, o, side, type, price, x)
<1> DEFINE by == acc.quote \div o.price
           qty == Taking(acc, o)
           b2 == acc.base - qty
           q2 == acc.quote - qty * o.price
           d2 == qty = by \/ qty = acc.base
<1>1. x = IF acc.done \/ ~is_valid(o, now) THEN acc
          ELSE IF OutOfReach(side, price, o.price) THEN [acc EXCEPT !.done = TRUE]
          ELSE IF post_only(type) THEN [acc EXCEPT !.done = TRUE, !.crossed = TRUE]
          ELSE [acc EXCEPT !.base = b2, !.quote = q2, !.done = d2]
  BY DEF SimOne, Taking
<1> HIDE DEF by, qty, b2, q2, d2
<1>2. CASE acc.done = TRUE \/ ~is_valid(o, now)
  <2>1. x = acc BY <1>1, <1>2
  <2>2. ~(acc.done = FALSE /\ is_valid(o, now)) BY <1>2
  <2>3. DOMAIN x = SimFields BY <2>1
  <2> QED BY <2>1, <2>2, <2>3 DEF SimTurned, Reaches
<1>3. CASE acc.done = FALSE /\ is_valid(o, now) /\ OutOfReach(side, price, o.price)
  <2>1. x = [acc EXCEPT !.done = TRUE] BY <1>1, <1>3
  <2> QED BY <1>3, <2>1 DEF SimFields, SimTurned, Reaches
<1>4. CASE acc.done = FALSE /\ is_valid(o, now) /\ ~OutOfReach(side, price, o.price) /\ post_only(type)
  <2>1. x = [acc EXCEPT !.done = TRUE, !.crossed = TRUE] BY <1>1, <1>4
  <2> QED BY <1>4, <2>1 DEF SimFields, SimTurned, Reaches
<1>5. CASE acc.done = FALSE /\ is_valid(o, now) /\ ~OutOfReach(side, price, o.price) /\ ~post_only(type)
  <2>1. x = [acc EXCEPT !.base = b2, !.quote = q2, !.done = d2] BY <1>1, <1>5
  <2>2. DOMAIN x = SimFields /\ x.base = b2 /\ x.quote = q2 /\ x.crossed = acc.crossed /\ x.done = d2
    BY <2>1 DEF SimFields
  <2> QED BY <1>5, <2>2 DEF b2, q2, d2, qty, by, SimTurned, Reaches
<1> QED BY <1>2, <1>3, <1>4, <1>5

(* Dividing what covers x lots gives at least x.                           *)
LEMMA DivCovers ==
  ASSUME NEW x \in Nat, NEW p \in Lots, NEW y \in Nat, x * p <= y
  PROVE  y \div p >= x
<1> DEFINE d == y \div p
<1>1. d \in Nat /\ y < (d + 1) * p BY DEF Lots
<1> HIDE DEF d
<1>2. SUFFICES ASSUME ~(d >= x) PROVE FALSE BY DEF d
<1>3. d + 1 <= x /\ d + 1 \in Int /\ x \in Int /\ p \in Nat BY <1>1, <1>2 DEF Lots
<1>4. (d + 1) * p <= x * p BY <1>3, Monotone
<1>5. (d + 1) * p \in Int /\ x * p \in Int BY <1>3, ProductInt
<1> QED BY <1>1, <1>4, <1>5

(* The quote left pays for the base left at any price up to P. *)
Ample(base, quote, P) == base \in Nat /\ quote \in Nat /\ base * P <= quote

(* A fill of an order priced at most P: quote never runs out first, and    *)
(* what is left pays for the rest.                                         *)
LEMMA AmpleFill ==
  ASSUME NEW acc, NEW P \in Nat, Ample(acc.base, acc.quote, P), acc.base > 0,
         NEW o, o.price \in Lots, o.price <= P, o.qty \in Lots,
         NEW k, k = Taking(acc, o)
  PROVE  /\ acc.quote \div o.price >= acc.base /\ acc.quote \div o.price # 0
         /\ k \in Nat /\ k > 0 /\ k <= acc.base /\ k <= o.qty
         /\ k \in {acc.base, o.qty, acc.quote \div o.price}
         /\ (k = acc.quote \div o.price => k = acc.base)
         /\ Ample(acc.base - k, acc.quote - k * o.price, P)
<1> DEFINE b == acc.base
           y == acc.quote
           p == o.price
           d == y \div p
<1>1. b \in Nat /\ y \in Nat /\ b * P <= y /\ p \in Nat /\ p \in Lots BY DEF Ample, Lots
<1>2. b * p <= b * P
  <2>1. p * b <= P * b
    <3> HIDE DEF b, p
    <3> QED BY <1>1, Monotone DEF p
  <2>2. p * b = b * p /\ P * b = b * P BY <1>1
  <2> QED BY <2>1, <2>2
<1>3. b * p <= y
  <2>1. b * p \in Int /\ b * P \in Int BY <1>1, ProductInt
  <2> QED BY <1>1, <1>2, <2>1
<1>4. d >= b /\ d \in Nat
  <2> HIDE DEF b, y, p
  <2>1. d \in Nat BY <1>1, DivFacts
  <2> QED BY <1>1, <1>3, <2>1, DivCovers
<1>5. /\ k \in {b, o.qty, d} /\ k <= b /\ k <= o.qty /\ k <= d
  <2>1. b \in Int /\ o.qty \in Int /\ d \in Int BY <1>1, <1>4 DEF Lots
  <2> DEFINE l == o.qty
  <2>2. k = Min({b, l, d}) BY DEF Taking
  <2>3. b \in Int /\ l \in Int /\ d \in Int BY <2>1
  <2> HIDE DEF b, d, l
  <2>4. /\ Min({b, l, d}) \in {b, l, d}
        /\ Min({b, l, d}) <= b /\ Min({b, l, d}) <= l /\ Min({b, l, d}) <= d
    BY <2>3, MinThree
  <2>5. k \in {b, l, d} /\ k <= b /\ k <= l /\ k <= d BY ONLY <2>2, <2>4
  <2> QED BY <2>5 DEF l
<1>6. k \in Nat /\ k > 0 BY <1>1, <1>4, <1>5 DEF Lots
<1>7. k * p <= k * P /\ (b - k) * P = b * P - k * P /\ b - k \in Nat
  <2>1. p * k <= P * k
    <3> HIDE DEF p
    <3> QED BY <1>1, <1>6, Monotone DEF p
  <2>2. p * k = k * p /\ P * k = k * P BY <1>1, <1>6
  <2>3. b - k \in Nat BY <1>1, <1>5, <1>6
  <2>4. (b - k) * P = b * P - k * P BY <1>1, <1>6
  <2> QED BY <2>1, <2>2, <2>3, <2>4
<1>8. (b - k) * P <= y - k * p /\ y - k * p \in Nat
  <2>1. k * p \in Int /\ k * P \in Int /\ b * P \in Int /\ (b - k) * P \in Nat BY <1>1, <1>6, <1>7, ProductInt
  <2>2. b * P - k * P <= y - k * p BY <1>1, <1>7, <2>1
  <2> QED BY <1>1, <1>7, <2>1, <2>2
<1>9. Ample(b - k, y - k * p, P) BY <1>7, <1>8 DEF Ample
<1>10. k = d => k = b BY <1>1, <1>4, <1>5, <1>6
<1>11. d # 0 BY <1>1, <1>4
<1> QED BY <1>4, <1>5, <1>6, <1>9, <1>10, <1>11


(* Matching and simulating have come to the same point. *)
Paired(x, y, P, allowed, type, base, quote) ==
  /\ DOMAIN x = MatchFields /\ DOMAIN y = SimFields
  /\ Ample(x.base, x.quote, P) /\ x.limit \in Nat /\ (post_only(type) => x.limit # 0)
  /\ y.base = x.base /\ y.quote = x.quote /\ y.done = x.done
  /\ x.done \in BOOLEAN /\ (x.done = FALSE => x.base > 0)
  /\ y.crossed \in BOOLEAN /\ x.post = (allowed /\ ~y.crossed) /\ (y.crossed = TRUE => y.done = TRUE)
  /\ post_only(type) \/ y.crossed = TRUE => y.base = base /\ y.quote = quote

(* The matching loop has a fill left for the order. *)
Fillable(x, o, side, price) == x.done = FALSE /\ Reaches(o, side, price, now) => x.limit # 0

(* They stay together over every order priced at most P, unless the        *)
(* matching loop has no fill left for it.                                  *)
LEMMA PairedTurn ==
  ASSUME NEW x, NEW y, NEW P \in Nat, NEW allowed \in BOOLEAN, NEW type, NEW base, NEW quote,
         Paired(x, y, P, allowed, type, base, quote),
         NEW o, o.price \in Lots, o.price <= P, o.qty \in Lots, NEW side, NEW price, NEW taker,
         Fillable(x, o, side, price),
         NEW x2, x2 = MatchOne(x, o, side, type, price, taker, now),
         NEW y2, y2 = SimOne(y, o, side, type, price)
  PROVE  Paired(x2, y2, P, allowed, type, base, quote)
<1>1. /\ DOMAIN x = MatchFields /\ DOMAIN y = SimFields
      /\ Ample(x.base, x.quote, P) /\ x.limit \in Nat /\ (post_only(type) => x.limit # 0)
      /\ y.base = x.base /\ y.quote = x.quote /\ y.done = x.done
      /\ x.done \in BOOLEAN /\ (x.done = FALSE => x.base > 0)
      /\ y.crossed \in BOOLEAN /\ x.post = (allowed /\ ~y.crossed) /\ (y.crossed = TRUE => y.done = TRUE)
      /\ post_only(type) \/ y.crossed = TRUE => y.base = base /\ y.quote = quote
  BY DEF Paired
<1>2. x.base \in Nat /\ x.quote \in Nat BY <1>1 DEF Ample
<1>m. MatchTurned(x, o, side, type, price, now, x2) BY <1>1, MatchCases
<1>s. SimTurned(y, o, side, type, price, y2) BY <1>1, SimCases
<1>3. DOMAIN x2 = MatchFields /\ DOMAIN y2 = SimFields BY <1>m, <1>s DEF MatchTurned, SimTurned
<1>4. CASE x.done = TRUE \/ ~is_valid(o, now)
  <2>1. SameAmounts(x, x2) /\ x2.post = x.post /\ x2.done = x.done
    BY <1>4, <1>m DEF MatchTurned
  <2>2. y2 = y BY <1>1, <1>4, <1>s DEF SimTurned
  <2>3. x2.base = x.base /\ x2.quote = x.quote /\ x2.limit = x.limit BY <2>1 DEF SameAmounts
  <2> QED BY <1>1, <1>3, <2>1, <2>2, <2>3 DEF Paired
<1>5. CASE x.done = FALSE /\ is_valid(o, now) /\ OutOfReach(side, price, o.price)
  <2>0. y.done = FALSE BY <1>1, <1>5
  <2>1. SameAmounts(x, x2) /\ x2.post = x.post /\ x2.done = TRUE BY <1>5, <1>m DEF MatchTurned
  <2>2. y2.base = y.base /\ y2.quote = y.quote /\ y2.crossed = y.crossed /\ y2.done = TRUE BY <1>5, <1>s, <2>0 DEF SimTurned
  <2>3. x2.base = x.base /\ x2.quote = x.quote /\ x2.limit = x.limit BY <2>1 DEF SameAmounts
  <2> QED BY <1>1, <1>3, <2>1, <2>2, <2>3 DEF Paired
<1>6. CASE x.done = FALSE /\ is_valid(o, now) /\ ~OutOfReach(side, price, o.price) /\ post_only(type)
  <2>0. y.done = FALSE BY <1>1, <1>6
  <2>1. SameAmounts(x, x2) /\ x2.post = FALSE /\ x2.done = TRUE BY <1>6, <1>m DEF MatchTurned, Reaches, Refused
  <2>2. y2.base = y.base /\ y2.quote = y.quote /\ y2.crossed = TRUE /\ y2.done = TRUE BY <1>6, <1>s, <2>0 DEF SimTurned, Reaches
  <2>3. x2.base = x.base /\ x2.quote = x.quote /\ x2.limit = x.limit BY <2>1 DEF SameAmounts
  <2>4. y2.base = base /\ y2.quote = quote BY <1>1, <1>6, <2>2
  <2> QED BY <1>1, <1>3, <2>1, <2>2, <2>3, <2>4 DEF Paired
<1>7. CASE x.done = FALSE /\ is_valid(o, now) /\ ~OutOfReach(side, price, o.price) /\ ~post_only(type)
  <2>0. y.done = FALSE /\ x.base > 0 BY <1>1, <1>7
  <2> DEFINE k == Taking(x, o)
             d == x.quote \div o.price
  <2>1. /\ d >= x.base /\ d # 0
        /\ k \in Nat /\ k > 0 /\ k <= x.base /\ (k = d => k = x.base)
        /\ Ample(x.base - k, x.quote - k * o.price, P)
    <3> HIDE DEF k
    <3>1. k = Taking(x, o) BY DEF k
    <3> QED BY <1>1, <2>0, <3>1, AmpleFill
  <2>l. x.limit # 0 BY <1>7 DEF Fillable, Reaches
  <2>2. ~Refused(x, o, type) BY <1>7, <2>1, <2>l DEF Refused
  <2>3. /\ x2.base = x.base - k /\ x2.quote = x.quote - k * o.price
        /\ x2.limit = x.limit - 1 /\ x2.post = x.post
        /\ x2.done = (k = d \/ k = x.base)
    BY <1>7, <1>m, <2>2 DEF MatchTurned, Reaches
  <2>4. Taking(y, o) = k /\ y.quote \div o.price = d BY <1>1 DEF Taking
  <2>5. /\ y2.base = y.base - k /\ y2.quote = y.quote - k * o.price /\ y2.crossed = y.crossed
        /\ y2.done = (k = d \/ k = y.base)
    BY <1>7, <1>s, <2>0, <2>4 DEF SimTurned, Reaches
  <2> HIDE DEF k, d
  <2>6. y2.base = x2.base /\ y2.quote = x2.quote /\ y2.done = x2.done /\ x2.done \in BOOLEAN
    BY <1>1, <2>3, <2>5
  <2>7. Ample(x2.base, x2.quote, P) BY <2>1, <2>3
  <2>8. x2.limit \in Nat BY <1>1, <2>3, <2>l
  <2>9. x2.done = FALSE => x2.base > 0
    <3>1. k = x.base \/ x2.base > 0 BY <1>2, <2>1, <2>3
    <3>2. k = x.base => x2.done = TRUE BY <2>3
    <3> QED BY <3>1, <3>2
  <2>10. y2.crossed \in BOOLEAN /\ x2.post = (allowed /\ ~y2.crossed) BY <1>1, <2>3, <2>5
  <2>11. ~post_only(type) BY <1>7
  <2>12. y2.crossed = FALSE BY <1>1, <1>7, <2>5
  <2> QED BY <1>3, <2>6, <2>7, <2>8, <2>9, <2>10, <2>11, <2>12 DEF Paired
<1> QED BY <1>1, <1>4, <1>5, <1>6, <1>7


(* The orders come best first. *)
Sequenced(v, n, side) == \A h, j \in 1..n : Before(invert_side(side), v[h], v[j]) => h < j

(* From the first order that is out of reach on, all are.                  *)
LEMMA StaysOut ==
  ASSUME NEW n \in Nat, NEW v, NEW side \in Sides, Sequenced(v, n, side), NEW i \in 1..n, NEW j \in 1..n, i <= j,
         v[i].price \in Int, v[j].price \in Int, NEW price \in Int, OutOfReach(side, price, v[i].price)
  PROVE  OutOfReach(side, price, v[j].price)
<1>1. SUFFICES ASSUME ~OutOfReach(side, price, v[j].price) PROVE FALSE OBVIOUS
<1>2. Before(invert_side(side), v[j], v[i])
  <2>1. CASE side = "bid"
    <3>1. invert_side(side) = "ask" BY <2>1 DEF invert_side
    <3>2. v[j].price < v[i].price BY <1>1, <2>1 DEF OutOfReach
    <3> QED BY <3>1, <3>2 DEF Before
  <2>2. CASE side = "ask"
    <3>1. invert_side(side) = "bid" BY <2>2 DEF invert_side
    <3>2. v[j].price > v[i].price BY <1>1, <2>2 DEF OutOfReach
    <3> QED BY <3>1, <3>2 DEF Before
  <2> QED BY <2>1, <2>2 DEF Sides
<1>3. j < i BY <1>2 DEF Sequenced
<1> QED BY <1>3

LeavesBook(acc, o, side, type, price, x) ==
  /\ acc.done = TRUE => x = acc
  /\ acc.done = FALSE /\ ~is_valid(o, now) => x.rest = acc.rest \/ x.rest = acc.rest \ {o}
  /\ acc.done = FALSE /\ is_valid(o, now) /\ OutOfReach(side, price, o.price) => x.rest = acc.rest
  /\ acc.done = FALSE /\ Reaches(o, side, price, now) /\ Refused(acc, o, type) => x.rest = acc.rest
  /\ acc.done = FALSE /\ Reaches(o, side, price, now) /\ ~Refused(acc, o, type) =>
       x.rest = (acc.rest \ {o}) \cup AfterFill(o, Taking(acc, o))

(* What one turn of the matching loop does to the other side.              *)
LEMMA MatchLeaves ==
  ASSUME NEW acc, DOMAIN acc = MatchFields, acc.done \in BOOLEAN, NEW o, NEW side, NEW type, NEW price,
         NEW taker, NEW x, x = MatchOne(acc, o, side, type, price, taker, now)
  PROVE  LeavesBook(acc, o, side, type, price, x)
<1> DEFINE quo == acc.quote \div o.price
           qty == Taking(acc, o)
           e1 == Append(acc.evs, OutEvent(o, invert_side(side)))
           e2 == Append(acc.evs, FillEvent(o, side, taker, qty))
           s1 == acc.rest \ {o}
           s2 == (acc.rest \ {o}) \cup AfterFill(o, qty)
           b2 == acc.base - qty
           q2 == acc.quote - qty * o.price
           d2 == qty = quo \/ qty = acc.base
<1>1. x = IF acc.done THEN acc
          ELSE IF ~is_valid(o, now) THEN
            IF acc.drops = DropExpiredLimit THEN acc
            ELSE [acc EXCEPT !.drops = @ + 1, !.evs = e1, !.rest = s1]
          ELSE IF OutOfReach(side, price, o.price) THEN [acc EXCEPT !.done = TRUE]
          ELSE IF post_only(type) \/ acc.limit = 0 \/ quo = 0 THEN [acc EXCEPT !.done = TRUE, !.post = FALSE]
          ELSE [acc EXCEPT !.base = b2, !.quote = q2, !.limit = @ - 1, !.evs = e2, !.rest = s2, !.done = d2]
  BY DEF MatchOne, Taking
<1>2. Refused(acc, o, type) <=> (post_only(type) \/ acc.limit = 0 \/ quo = 0) BY DEF Refused
<1>3. s1 = acc.rest \ {o} /\ s2 = (acc.rest \ {o}) \cup AfterFill(o, Taking(acc, o)) OBVIOUS
<1> HIDE DEF quo, qty, e1, e2, s1, s2, b2, q2, d2
<1>4. acc.done = TRUE => x = acc BY <1>1
<1>5. acc.done = FALSE /\ ~is_valid(o, now) => x.rest = acc.rest \/ x.rest = s1 BY <1>1 DEF MatchFields
<1>6. acc.done = FALSE /\ is_valid(o, now) /\ OutOfReach(side, price, o.price) => x.rest = acc.rest
  BY <1>1 DEF MatchFields
<1>7. acc.done = FALSE /\ Reaches(o, side, price, now) /\ Refused(acc, o, type) => x.rest = acc.rest
  BY <1>1, <1>2 DEF MatchFields, Reaches
<1>8. acc.done = FALSE /\ Reaches(o, side, price, now) /\ ~Refused(acc, o, type) => x.rest = s2
  BY <1>1, <1>2 DEF MatchFields, Reaches
<1> QED BY <1>3, <1>4, <1>5, <1>6, <1>7, <1>8 DEF LeavesBook

(* While the loop runs, what is left of the other side are the orders that *)
(* come after the i-th, and expired ones.                                  *)
Ahead(v, n, i, rest) ==
  /\ \A j \in (i + 1)..n : v[j] \in rest
  /\ \A q \in rest : is_valid(q, now) => \E j \in (i + 1)..n : q = v[j]

(* The loop has base left, no fill left, and orders it could take. *)
Wanting(x, side, price) == x.limit = 0 /\ x.base > 0 /\ \E o \in x.rest : Reaches(o, side, price, now)

(* The simulation has gone further. *)
Outrun(x, y, P) ==
  /\ x.done = TRUE /\ x.post = FALSE /\ x.base \in Nat /\ DOMAIN x = MatchFields
  /\ DOMAIN y = SimFields /\ Ample(y.base, y.quote, P) /\ y.crossed = FALSE
  /\ y.done \in BOOLEAN /\ (y.done = FALSE => y.base > 0)
  /\ y.base < x.base

(* Where the two loops are after i orders: together and running, together  *)
(* and at the end, or apart for want of fills.                             *)
Along(v, n, i, x, y, side, price, P, allowed, type, base, quote) ==
  \/ Paired(x, y, P, allowed, type, base, quote) /\ x.done = FALSE /\ Ahead(v, n, i, x.rest)
  \/ Paired(x, y, P, allowed, type, base, quote) /\ x.done = TRUE /\ ~Wanting(x, side, price)
  \/ Outrun(x, y, P) /\ Wanting(x, side, price) /\ ~post_only(type)

(* The simulation only takes more.                                         *)
LEMMA OutrunTurn ==
  ASSUME NEW x, NEW y, NEW P \in Nat, Outrun(x, y, P), NEW type, ~post_only(type),
         NEW o, o.price \in Lots, o.price <= P, o.qty \in Lots, NEW side, NEW price,
         NEW y2, y2 = SimOne(y, o, side, type, price)
  PROVE  Outrun(x, y2, P)
<1>1. /\ DOMAIN y = SimFields /\ Ample(y.base, y.quote, P) /\ y.crossed = FALSE
      /\ y.done \in BOOLEAN /\ (y.done = FALSE => y.base > 0) /\ y.base < x.base /\ x.base \in Nat
  BY DEF Outrun
<1>s. SimTurned(y, o, side, type, price, y2) BY <1>1, SimCases
<1>2. DOMAIN y2 = SimFields BY <1>s DEF SimTurned
<1>3. CASE y.done = TRUE \/ ~is_valid(o, now)
  <2>1. y2 = y BY <1>3, <1>s DEF SimTurned
  <2> QED BY <2>1
<1>4. CASE y.done = FALSE /\ is_valid(o, now) /\ OutOfReach(side, price, o.price)
  <2>1. y2.base = y.base /\ y2.quote = y.quote /\ y2.crossed = y.crossed /\ y2.done = TRUE
    BY <1>4, <1>s DEF SimTurned
  <2> QED BY <1>1, <1>2, <2>1 DEF Outrun
<1>5. CASE y.done = FALSE /\ Reaches(o, side, price, now)
  <2> DEFINE k == Taking(y, o)
             d == y.quote \div o.price
  <2>1. /\ k \in Nat /\ k <= y.base /\ (k = d => k = y.base)
        /\ Ample(y.base - k, y.quote - k * o.price, P)
    <3> HIDE DEF k
    <3>1. k = Taking(y, o) BY DEF k
    <3> QED BY <1>1, <1>5, <3>1, AmpleFill
  <2>2. /\ y2.base = y.base - k /\ y2.quote = y.quote - k * o.price /\ y2.crossed = y.crossed
        /\ y2.done = (k = d \/ k = y.base)
    BY <1>5, <1>s DEF SimTurned
  <2> HIDE DEF k, d
  <2>3. y.base \in Nat BY <1>1 DEF Ample
  <2>4. y2.base < x.base BY <1>1, <2>1, <2>2, <2>3
  <2>5. y2.done = FALSE => y2.base > 0
    <3>1. k = y.base \/ y2.base > 0 BY <2>1, <2>2, <2>3
    <3>2. k = y.base => y2.done = TRUE BY <2>2
    <3> QED BY <3>1, <3>2
  <2>6. Ample(y2.base, y2.quote, P) /\ y2.done \in BOOLEAN BY <2>1, <2>2
  <2> QED BY <1>1, <1>2, <2>2, <2>4, <2>5, <2>6 DEF Outrun
<1> QED BY <1>1, <1>3, <1>4, <1>5 DEF Reaches

(* One order further, as long as the loop runs.                            *)
LEMMA AheadTurn ==
  ASSUME NEW n \in Nat, NEW v, NEW i \in 0..(n - 1), NEW rest, Ahead(v, n, i, rest),
         \A g, h \in 1..n : v[g] = v[h] => g = h, NEW r2, r2 = rest \ {v[i + 1]} \/ (r2 = rest /\ ~is_valid(v[i + 1], now))
  PROVE  Ahead(v, n, i + 1, r2)
<1>0. i + 1 \in 1..n /\ i \in Nat OBVIOUS
<1>1. ASSUME NEW j \in (i + 2)..n PROVE v[j] \in r2
  <2>1. j \in (i + 1)..n /\ j \in 1..n /\ j # i + 1 BY <1>0
  <2>2. v[j] \in rest BY <2>1 DEF Ahead
  <2>3. v[j] # v[i + 1] BY <1>0, <2>1
  <2> QED BY <2>2, <2>3
<1>2. ASSUME NEW q \in r2, is_valid(q, now) PROVE \E j \in (i + 2)..n : q = v[j]
  <2>1. q \in rest /\ q # v[i + 1] BY <1>2
  <2>2. PICK j \in (i + 1)..n : q = v[j] BY <1>2, <2>1 DEF Ahead
  <2>3. j # i + 1 BY <2>1, <2>2
  <2>4. j \in (i + 2)..n BY <1>0, <2>3
  <2> QED BY <2>2, <2>4
<1>3. (i + 1) + 1 = i + 2 BY <1>0
<1> QED BY <1>1, <1>2, <1>3 DEF Ahead

(* The orders of the other side, best first, none priced above P. *)
Lined(v, n, side, P) ==
  /\ Sequenced(v, n, side)
  /\ \A g, h \in 1..n : v[g] = v[h] => g = h
  /\ \A h \in 1..n : v[h] \in OrderSet /\ v[h].price <= P

(* Both loops take one order more.                                         *)
LEMMA AlongTurn ==
  ASSUME NEW n \in Nat, NEW v, NEW i \in 0..(n - 1), NEW side \in Sides, NEW P \in Nat, Lined(v, n, side, P),
         NEW price \in Int, NEW allowed \in BOOLEAN, NEW type, NEW base, NEW quote, NEW taker,
         NEW x, NEW y, Along(v, n, i, x, y, side, price, P, allowed, type, base, quote),
         NEW x2, x2 = MatchOne(x, v[i + 1], side, type, price, taker, now),
         NEW y2, y2 = SimOne(y, v[i + 1], side, type, price)
  PROVE  Along(v, n, i + 1, x2, y2, side, price, P, allowed, type, base, quote)
<1> DEFINE o == v[i + 1]
           Pair(a1, a2) == Paired(a1, a2, P, allowed, type, base, quote)
<1>0. i + 1 \in 1..n BY DEF OrderSet
<1>v. /\ Sequenced(v, n, side)
      /\ \A g, h \in 1..n : v[g] = v[h] => g = h
      /\ \A h \in 1..n : v[h] \in OrderSet /\ v[h].price <= P
  BY DEF Lined
<1>o. o \in OrderSet /\ o.price \in Lots /\ o.price \in Int /\ o.price <= P /\ o.qty \in Lots
  BY <1>0, <1>v DEF OrderSet, Lots
<1>m. x2 = MatchOne(x, o, side, type, price, taker, now) /\ y2 = SimOne(y, o, side, type, price) OBVIOUS
<1>n. ASSUME DOMAIN x = MatchFields, x.done \in BOOLEAN PROVE LeavesBook(x, o, side, type, price, x2)
  <2> HIDE DEF o
  <2> QED BY <1>m, <1>n, MatchLeaves
<1>1. CASE Pair(x, y) /\ x.done = TRUE /\ ~Wanting(x, side, price)
  <2>1. /\ DOMAIN x = MatchFields /\ DOMAIN y = SimFields /\ x.done = TRUE /\ y.done = TRUE
    BY <1>1 DEF Paired
  <2>2. x2 = x BY <1>n, <2>1 DEF LeavesBook
  <2>3. SimTurned(y, o, side, type, price, y2) BY <2>1, SimCases
  <2>4. y2 = y BY <2>1, <2>3 DEF SimTurned
  <2> QED BY <1>1, <2>2, <2>4 DEF Along
<1>2. CASE Outrun(x, y, P) /\ Wanting(x, side, price) /\ ~post_only(type)
  <2>1. x.done = TRUE /\ DOMAIN x = MatchFields BY <1>2 DEF Outrun
  <2>2. x2 = x BY <1>n, <2>1 DEF LeavesBook
  <2> HIDE DEF o
  <2>3. y2 = SimOne(y, o, side, type, price) BY DEF o
  <2>4. Outrun(x, y2, P) BY <1>2, <1>o, <2>3, OutrunTurn
  <2> QED BY <1>2, <2>2, <2>4 DEF Along
<1>3. CASE Pair(x, y) /\ x.done = FALSE /\ Ahead(v, n, i, x.rest)
  <2>1. /\ DOMAIN x = MatchFields /\ DOMAIN y = SimFields /\ Ample(x.base, x.quote, P) /\ x.limit \in Nat
        /\ (post_only(type) => x.limit # 0) /\ y.done = FALSE /\ x.base > 0 /\ x.done = FALSE
        /\ y.base = x.base /\ y.quote = x.quote /\ (y.crossed = TRUE => y.done = TRUE) /\ y.crossed \in BOOLEAN
    BY <1>3 DEF Paired
  <2>b. x.base \in Nat /\ x.quote \in Nat BY <2>1 DEF Ample
  <2> HIDE DEF o
  <2>l. LeavesBook(x, o, side, type, price, x2) BY <1>n, <2>1
  <2>m. MatchTurned(x, o, side, type, price, now, x2) BY <1>m, <2>1, MatchCases
  <2>s. SimTurned(y, o, side, type, price, y2) BY <1>m, <2>1, SimCases
  <2>3. ASSUME Reaches(o, side, price, now) => x.limit # 0 PROVE Pair(x2, y2)
    <3>1. Fillable(x, o, side, price) BY <2>3 DEF Fillable
    <3>2. Paired(x, y, P, allowed, type, base, quote) BY <1>3
    <3>3. Paired(x2, y2, P, allowed, type, base, quote) BY <1>m, <1>o, <3>1, <3>2, PairedTurn
    <3> QED BY <3>3
  <2>4. CASE ~is_valid(o, now)
    <3>1. Pair(x2, y2) BY <2>3, <2>4 DEF Reaches
    <3>2. x2.done = FALSE BY <2>1, <2>4, <2>m DEF MatchTurned
    <3>3. x2.rest = x.rest \/ x2.rest = x.rest \ {o} BY <2>1, <2>4, <2>l DEF LeavesBook
    <3>4. x2.rest = x.rest \ {v[i + 1]} \/ (x2.rest = x.rest /\ ~is_valid(v[i + 1], now)) BY <2>4, <3>3 DEF o
    <3>5. Ahead(v, n, i, x.rest) BY <1>3
    <3>6. Ahead(v, n, i + 1, x2.rest) BY <1>v, <3>4, <3>5, AheadTurn
    <3> QED BY <3>1, <3>2, <3>6 DEF Along
  <2>5. CASE is_valid(o, now) /\ OutOfReach(side, price, o.price)
    <3>1. Pair(x2, y2) BY <2>3, <2>5 DEF Reaches
    <3>2. x2.done = TRUE BY <2>1, <2>5, <2>m DEF MatchTurned
    <3>3. x2.rest = x.rest BY <2>1, <2>5, <2>l DEF LeavesBook
    <3>4. ASSUME NEW q \in x.rest, is_valid(q, now) PROVE OutOfReach(side, price, q.price)
      <4>1. PICK j \in (i + 1)..n : q = v[j] BY <1>3, <3>4 DEF Ahead
      <4>2. j \in 1..n /\ i + 1 <= j BY <1>0
      <4>3. v[i + 1].price \in Int /\ v[j].price \in Int BY <1>0, <1>v, <4>2 DEF OrderSet, Lots
      <4>4. OutOfReach(side, price, v[i + 1].price) BY <2>5 DEF o
      <4>5. OutOfReach(side, price, v[j].price) BY <1>0, <1>v, <4>2, <4>3, <4>4, StaysOut
      <4> QED BY <4>1, <4>5
    <3>5. ~Wanting(x2, side, price) BY <3>3, <3>4 DEF Wanting, Reaches
    <3> QED BY <3>1, <3>2, <3>5 DEF Along
  <2>6. CASE Reaches(o, side, price, now) /\ post_only(type)
    <3>1. Pair(x2, y2) BY <2>1, <2>3, <2>6
    <3>2. x2.done = TRUE /\ x2.limit = x.limit BY <2>1, <2>6, <2>m DEF MatchTurned, Refused, SameAmounts
    <3>3. ~Wanting(x2, side, price) BY <2>1, <2>6, <3>2 DEF Wanting
    <3> QED BY <3>1, <3>2, <3>3 DEF Along
  <2> DEFINE k == Taking(x, o)
             d == x.quote \div o.price
  <2>k. /\ d # 0 /\ k \in Nat /\ k > 0 /\ k <= x.base /\ (k = d => k = x.base)
        /\ k \in {x.base, o.qty, d} /\ Ample(x.base - k, x.quote - k * o.price, P)
    <3> HIDE DEF k
    <3>1. k = Taking(x, o) BY DEF k
    <3> QED BY <1>o, <2>1, <3>1, AmpleFill
  <2>7. CASE Reaches(o, side, price, now) /\ ~post_only(type) /\ x.limit # 0
    <3>1. Pair(x2, y2) BY <2>3, <2>7
    <3>2. ~Refused(x, o, type) BY <2>7, <2>k DEF Refused
    <3>3. x2.base = x.base - k /\ x2.done = (k = d \/ k = x.base)
      BY <2>1, <2>7, <2>m, <3>2 DEF MatchTurned
    <3>4. x2.rest = (x.rest \ {o}) \cup AfterFill(o, k) BY <2>1, <2>7, <2>l, <3>2 DEF LeavesBook
    <3> HIDE DEF k, d
    <3>5. CASE k = x.base
      <4>a. x2.base = 0 BY <2>b, <3>3, <3>5
      <4>b. x2.done = TRUE BY <3>3, <3>5
      <4>1. x2.base = 0 /\ x2.done = TRUE BY <4>a, <4>b
      <4>2. ~Wanting(x2, side, price) BY <4>1 DEF Wanting
      <4> QED BY <3>1, <4>1, <4>2 DEF Along
    <3>6. CASE k # x.base
      <4>1. x2.done = FALSE /\ k = o.qty BY <2>k, <3>3, <3>6
      <4>2. AfterFill(o, k) = {} BY <4>1 DEF AfterFill
      <4>3. x2.rest = x.rest \ {v[i + 1]} BY <3>4, <4>2 DEF o
      <4>4. Ahead(v, n, i, x.rest) BY <1>3
      <4>5. Ahead(v, n, i + 1, x2.rest) BY <1>v, <4>3, <4>4, AheadTurn
      <4> QED BY <3>1, <4>1, <4>5 DEF Along
    <3> QED BY <3>5, <3>6
  <2>8. CASE Reaches(o, side, price, now) /\ ~post_only(type) /\ x.limit = 0
    <3>1. Refused(x, o, type) BY <2>8 DEF Refused
    <3>2. /\ x2.base = x.base /\ x2.limit = 0 /\ x2.post = FALSE /\ x2.done = TRUE /\ DOMAIN x2 = MatchFields
      BY <2>1, <2>8, <2>m, <3>1 DEF MatchTurned, SameAmounts
    <3>3. x2.rest = x.rest BY <2>1, <2>8, <2>l, <3>1 DEF LeavesBook
    <3>4. o \in x.rest BY <1>0, <1>3 DEF Ahead, o
    <3>5. Wanting(x2, side, price) BY <2>1, <2>8, <3>2, <3>3, <3>4 DEF Wanting
    <3>6. Taking(y, o) = k /\ y.quote \div o.price = d BY <2>1 DEF Taking
    <3>7. /\ y2.base = y.base - k /\ y2.quote = y.quote - k * o.price /\ y2.crossed = y.crossed
          /\ y2.done = (k = d \/ k = y.base) /\ DOMAIN y2 = SimFields
      BY <2>1, <2>8, <2>s, <3>6 DEF SimTurned
    <3> HIDE DEF k, d
    <3>8. y2.base < x2.base BY <2>1, <2>b, <2>k, <3>2, <3>7
    <3>9. y2.done = FALSE => y2.base > 0
      <4>1. k = y.base \/ y2.base > 0 BY <2>1, <2>b, <2>k, <3>7
      <4>2. k = y.base => y2.done = TRUE BY <3>7
      <4> QED BY <4>1, <4>2
    <3>10. Ample(y2.base, y2.quote, P) /\ y2.done \in BOOLEAN BY <2>1, <2>k, <3>7
    <3>11. y2.crossed = FALSE BY <2>1, <3>7
    <3>12. Outrun(x2, y2, P) BY <2>b, <3>2, <3>7, <3>8, <3>9, <3>10, <3>11 DEF Outrun
    <3> QED BY <2>8, <3>5, <3>12 DEF Along
  <2> QED BY <2>1, <2>4, <2>5, <2>6, <2>7, <2>8 DEF Reaches
<1> QED BY <1>1, <1>2, <1>3 DEF Along

SimStart(base, quote) == [base |-> base, quote |-> quote, crossed |-> FALSE, done |-> FALSE]
SimEnd(S, side, type, price, base, quote) ==
  Run([op |-> "sim", side |-> side, type |-> type, price |-> price], SimStart(base, quote),
      Sorted(invert_side(side), S))

(* Matching and simulating come to the same end, or matching stops for     *)
(* want of fills and simulating takes more.                                *)
LEMMA SimFollows ==
  ASSUME NEW S, Keyed(S), S \subseteq OrderSet, NEW side \in Sides, NEW type, NEW price \in Int, NEW taker,
         NEW base \in Nat, base > 0, NEW quote \in Nat, NEW limit \in Nat, limit # 0,
         NEW allowed \in BOOLEAN, NEW P \in Nat, base * P <= quote, \A o \in S : o.price <= P,
         NEW x, x = Match(side, type, price, base, quote, limit, allowed, taker, S, now),
         NEW y, y = SimEnd(S, side, type, price, base, quote)
  PROVE  \/ Paired(x, y, P, allowed, type, base, quote) /\ ~Wanting(x, side, price)
         \/ Outrun(x, y, P) /\ Wanting(x, side, price)
<1> DEFINE v == Sorted(invert_side(side), S)
           n == Cardinality(S)
           p == [op |-> "match", side |-> side, type |-> type, price |-> price, taker |-> taker, now |-> now]
           p2 == [op |-> "sim", side |-> side, type |-> type, price |-> price]
           x0 == Opening(base, quote, limit, allowed, S)
           y0 == SimStart(base, quote)
           Abreast(i, x1, y1) == Along(v, n, i, x1, y1, side, price, P, allowed, type, base, quote)
<1>0. invert_side(side) \in Sides BY Inverse2
<1>1. n \in Nat /\ DOMAIN v = 1..n /\ (\A i \in 1..n : v[i] \in S) /\ (\A g, h \in 1..n : v[g] = v[h] => g = h)
  BY <1>0, SortedProps
<1>o. (\A q \in S : \E h \in 1..n : v[h] = q) /\ Sequenced(v, n, side)
  <2>1. /\ \A q \in S : \E h \in 1..n : v[h] = q
        /\ \A h, j \in 1..n : Before(invert_side(side), v[h], v[j]) => h < j
    BY <1>0, SortedOrder
  <2> QED BY <2>1 DEF Sequenced
<1>2. x = Run(p, x0, v)
  <2>1. x = (CHOOSE g : RunEq(g, p, x0, v))[DOMAIN v]
    BY DEF Match, FoldLeft, MapThenFoldSet, RunEq, RunStep, Opening
  <2> QED BY <2>1 DEF Run
<1>3. y = Run(p2, y0, v) BY DEF SimEnd
<1>4. /\ p.op = "match" /\ p.side = side /\ p.type = type /\ p.price = price /\ p.taker = taker /\ p.now = now
      /\ p2.op = "sim" /\ p2.side = side /\ p2.type = type /\ p2.price = price
  OBVIOUS
<1>5. Abreast(0, x0, y0)
  <2>1. /\ DOMAIN x0 = MatchFields /\ DOMAIN y0 = SimFields /\ x0.rest = S
        /\ x0.base = base /\ x0.quote = quote /\ x0.limit = limit /\ x0.done = FALSE /\ x0.post = allowed
        /\ y0.base = base /\ y0.quote = quote /\ y0.done = FALSE /\ y0.crossed = FALSE
    BY DEF Opening, SimStart, MatchFields, SimFields
  <2>2. Ample(base, quote, P) BY DEF Ample
  <2> HIDE DEF x0, y0, v, n
  <2>3. Paired(x0, y0, P, allowed, type, base, quote) BY <2>1, <2>2 DEF Paired
  <2>4. Ahead(v, n, 0, S)
    <3>1. 0 + 1 = 1 OBVIOUS
    <3> QED BY <1>1, <1>o, <3>1 DEF Ahead
  <2> QED BY <2>1, <2>3, <2>4 DEF Along
<1> HIDE DEF v, n, p, p2, x0, y0
<1>d. n \in Nat /\ DOMAIN v = 1..n BY <1>1
<1>a. PICK r : Chained(r, p, x0, v, n) BY <1>d, Chainable
<1>6. /\ r[0] = x0
      /\ \A i \in 1..n : r[i] = RunStep(p, r[i - 1], v[i])
      /\ r[n] = Run(p, x0, v)
  BY <1>a DEF Chained
<1>b. PICK s : Chained(s, p2, y0, v, n) BY <1>d, Chainable
<1>7. /\ s[0] = y0
      /\ \A i \in 1..n : s[i] = RunStep(p2, s[i - 1], v[i])
      /\ s[n] = Run(p2, y0, v)
  BY <1>b DEF Chained
<1>8. \A i \in 1..n : r[i] = MatchOne(r[i - 1], v[i], side, type, price, taker, now) BY <1>4, <1>6 DEF RunStep
<1>9. \A i \in 1..n : s[i] = SimOne(s[i - 1], v[i], side, type, price) BY <1>4, <1>7 DEF RunStep
<1>p. Lined(v, n, side, P) BY <1>1, <1>o DEF Lined
<1> HIDE DEF Abreast
<1> DEFINE Q == {i \in Nat : i <= n => Abreast(i, r[i], s[i])}
<1>10. 0 \in Q BY <1>5, <1>6, <1>7
<1>11. ASSUME NEW i \in Nat, i \in Q PROVE i + 1 \in Q
  <2> SUFFICES ASSUME i + 1 <= n PROVE Abreast(i + 1, r[i + 1], s[i + 1]) OBVIOUS
  <2>1. i <= n /\ i + 1 \in 1..n /\ (i + 1) - 1 = i /\ i \in 0..(n - 1) BY <1>1
  <2>2. Abreast(i, r[i], s[i]) BY <1>11, <2>1
  <2> HIDE DEF Q
  <2> DEFINE x1 == r[i]
             y1 == s[i]
             x2 == r[i + 1]
             y2 == s[i + 1]
  <2>3. x2 = MatchOne(x1, v[i + 1], side, type, price, taker, now)
    <3>1. r[i + 1] = MatchOne(r[(i + 1) - 1], v[i + 1], side, type, price, taker, now) BY <1>8, <2>1
    <3> QED BY <2>1, <3>1
  <2>4. y2 = SimOne(y1, v[i + 1], side, type, price)
    <3>1. s[i + 1] = SimOne(s[(i + 1) - 1], v[i + 1], side, type, price) BY <1>9, <2>1
    <3> QED BY <2>1, <3>1
  <2>5. Along(v, n, i, x1, y1, side, price, P, allowed, type, base, quote) BY <2>2 DEF Abreast
  <2> HIDE DEF x1, y1, x2, y2
  <2>6. Along(v, n, i + 1, x2, y2, side, price, P, allowed, type, base, quote)
    BY <1>d, <1>p, <2>1, <2>3, <2>4, <2>5, AlongTurn
  <2> QED BY <2>6 DEF Abreast, x2, y2
<1> HIDE DEF Q
<1>12. \A i \in Nat : i \in Q BY <1>10, <1>11, NatSetInduction
<1>13. Abreast(n, r[n], s[n]) BY <1>1, <1>12 DEF Q
<1>14. Along(v, n, n, x, y, side, price, P, allowed, type, base, quote) BY <1>2, <1>3, <1>6, <1>7, <1>13 DEF Abreast
<1>15. ASSUME Ahead(v, n, n, x.rest) PROVE ~Wanting(x, side, price)
  <2>1. (n + 1)..n = {} BY <1>d
  <2> QED BY <1>15, <2>1 DEF Ahead, Wanting, Reaches
<1> QED BY <1>14, <1>15 DEF Along

(* A price and a quote under which quantity base never runs out of quote.  *)
LEMMA PriceCover ==
  ASSUME NEW S, Keyed(S), S \subseteq OrderSet, NEW base \in Nat, NEW quote \in Nat,
         \A o \in S : base * o.price <= quote
  PROVE  \E P \in Nat : base * P <= quote /\ \A o \in S : o.price <= P
<1>1. CASE S = {}
  <2>1. base * 0 <= quote OBVIOUS
  <2> QED BY <1>1, <2>1
<1>2. CASE S # {}
  <2> DEFINE B == {o.price : o \in S}
             f == [o \in S |-> o.price]
  <2>1. f \in Surjection(S, B) BY DEF Surjection
  <2>2. B \subseteq Nat BY DEF OrderSet, Lots
  <2>3. B # {} BY <1>2
  <2>4. IsFiniteSet(S) BY DEF Keyed
  <2>5. IsFiniteSet(B)
    <3> HIDE DEF f, B
    <3> QED BY <2>1, <2>4, FS_Surjection
  <2>6. PICK P \in B : \A y \in B : P >= y
    <3> HIDE DEF B
    <3>1. B \subseteq Int BY <2>2
    <3> QED BY <2>3, <2>5, <3>1, Extremes
  <2>7. P \in Nat BY <2>2
  <2>8. base * P <= quote BY <2>6
  <2>9. ASSUME NEW o \in S PROVE o.price <= P
    <3>1. o.price \in B OBVIOUS
    <3>2. o.price \in Int BY <2>2, <3>1
    <3>3. P >= o.price BY <2>6, <3>1
    <3> QED BY <2>7, <3>2, <3>3
  <2> QED BY <2>7, <2>8, <2>9
<1> QED BY <1>1, <1>2

(* The simulation of an order tells what placing it takes and leaves,      *)
(* unless the order has no fill left.                                      *)
LEMMA SimExact ==
  ASSUME NEW m \in Markets, NEW side \in Sides, Keyed(book[m][invert_side(side)]),
         book[m][invert_side(side)] \subseteq OrderSet, NEW price0 \in Int, NEW qty \in Nat, qty > 0, NEW type,
         NEW oracle, NEW taker, \A o \in book[m][invert_side(side)] : qty * o.price <= Unbounded,
         NEW limit \in Nat, limit # 0,
         NEW sim, sim = SimNewOrder(m, side, price0, qty, type, oracle),
         NEW real, real = Matching(taker, m, side, price0, qty, Unbounded, type, limit, oracle), real.price > 0
  PROVE  IF LimitReached(side, qty, real) THEN sim.base > real.base /\ real.resting = 0
         ELSE /\ Foreseen(sim, real) /\ real.base \in Int /\ real.quote \in Int /\ real.resting \in Int
<1> DEFINE opp == invert_side(side)
           S == book[m][opp]
           price == EffectivePrice(side, type, price0, S, now)
           allowed == type \notin {"ImmediateOrCancel", "Market"} /\ WithinPriceLimit(m, side, price, oracle)
           x == Match(side, type, price, qty, Unbounded, limit, allowed, taker, S, now)
           y == SimEnd(S, side, type, price, qty, Unbounded)
<1>1. /\ real.base = qty - x.base /\ real.quote = Unbounded - x.quote
      /\ real.resting = IF x.post /\ price > 0 THEN Min({x.base, x.quote \div price}) ELSE 0
      /\ real.price = price /\ real.rest = x.rest /\ real.fills_left = x.limit
  BY DEF Matching
<1>2. sim = IF y.crossed THEN [base |-> 0, quote |-> 0, resting |-> 0]
            ELSE [base |-> qty - y.base, quote |-> Unbounded - y.quote,
                  resting |-> IF allowed /\ price > 0 THEN Min({y.base, y.quote \div price}) ELSE 0]
  <2> DEFINE v == Sorted(opp, S)
             p == [op |-> "sim", side |-> side, type |-> type, price |-> price]
             fold == FoldLeft(LAMBDA acc, o : SimOne(acc, o, side, type, price), SimStart(qty, Unbounded), v)
  <2>1. fold = (CHOOSE g : RunEq(g, p, SimStart(qty, Unbounded), v))[DOMAIN v]
    BY DEF FoldLeft, MapThenFoldSet, RunEq, RunStep
  <2>2. fold = y BY <2>1 DEF Run, SimEnd
  <2>3. sim = IF fold.crossed THEN [base |-> 0, quote |-> 0, resting |-> 0]
              ELSE [base |-> qty - fold.base, quote |-> Unbounded - fold.quote,
                    resting |-> IF allowed /\ price > 0 THEN Min({fold.base, fold.quote \div price}) ELSE 0]
    BY DEF SimNewOrder, SimStart
  <2> HIDE DEF fold, y, allowed, price
  <2> QED BY <2>2, <2>3
<1>3. allowed \in BOOLEAN OBVIOUS
<1>4. Unbounded \in Nat /\ Unbounded \in Int BY BookAssumption
<1>p. price \in Int
  <2> HIDE DEF S
  <2>1. Keyed(S) /\ S \subseteq OrderSet BY DEF S
  <2> QED BY <2>1, PriceInt
<1>5. PICK P \in Nat : qty * P <= Unbounded /\ \A o \in S : o.price <= P
  <2> HIDE DEF S
  <2>1. Keyed(S) /\ S \subseteq OrderSet /\ \A o \in S : qty * o.price <= Unbounded BY DEF S
  <2> QED BY <1>4, <2>1, PriceCover
<1>6. \/ Paired(x, y, P, allowed, type, qty, Unbounded) /\ ~Wanting(x, side, price)
      \/ Outrun(x, y, P) /\ Wanting(x, side, price)
  <2>1. Keyed(S) /\ S \subseteq OrderSet BY DEF S
  <2>2. /\ x = Match(side, type, price, qty, Unbounded, limit, allowed, taker, S, now)
        /\ y = SimEnd(S, side, type, price, qty, Unbounded)
    OBVIOUS
  <2> HIDE DEF S, price, allowed, x, y
  <2> QED BY <1>3, <1>4, <1>5, <1>p, <2>1, <2>2, SimFollows
<1> HIDE DEF x, y, allowed, price, S
<1>7. CASE Outrun(x, y, P) /\ Wanting(x, side, price)
  <2>1. x.post = FALSE /\ y.crossed = FALSE /\ y.base < x.base /\ x.base \in Nat /\ y.base \in Nat
    BY <1>7 DEF Outrun, Ample
  <2>2. real.resting = 0 BY <1>1, <2>1
  <2>3. sim.base = qty - y.base BY <1>2, <2>1
  <2>4. sim.base > real.base BY <1>1, <2>1, <2>3
  <2>5. LimitReached(side, qty, real)
    <3>1. real.fills_left = 0 BY <1>1, <1>7 DEF Wanting
    <3>2. real.base < qty
      <4>1. real.base = qty - x.base /\ y.base < x.base /\ x.base \in Nat /\ y.base \in Nat BY <1>1, <2>1
      <4> QED BY <4>1
    <3>3. \E o \in Valid(real.rest, now) : ~OutOfReach(side, real.price, o.price)
      <4>1. PICK o \in x.rest : Reaches(o, side, price, now) BY <1>7 DEF Wanting
      <4> QED BY <1>1, <4>1 DEF Reaches, Valid
    <3> QED BY <3>1, <3>2, <3>3 DEF LimitReached
  <2> QED BY <2>2, <2>4, <2>5
<1>8. CASE Paired(x, y, P, allowed, type, qty, Unbounded) /\ ~Wanting(x, side, price)
  <2>1. /\ y.base = x.base /\ y.quote = x.quote /\ y.crossed \in BOOLEAN /\ x.post = (allowed /\ ~y.crossed)
        /\ (y.crossed = TRUE => y.base = qty /\ y.quote = Unbounded)
        /\ x.base \in Nat /\ x.quote \in Nat
    BY <1>8 DEF Paired, Ample
  <2>2. ~LimitReached(side, qty, real)
    <3> SUFFICES ASSUME LimitReached(side, qty, real) PROVE FALSE OBVIOUS
    <3>1. x.limit = 0 /\ qty - x.base < qty BY <1>1 DEF LimitReached
    <3>2. x.base > 0 BY <2>1, <3>1
    <3>3. PICK o \in Valid(x.rest, now) : ~OutOfReach(side, price, o.price) BY <1>1 DEF LimitReached
    <3>4. o \in x.rest /\ Reaches(o, side, price, now) BY <3>3 DEF Valid, Reaches
    <3> QED BY <1>8, <3>1, <3>2, <3>4 DEF Wanting
  <2>3. real.base \in Int /\ real.quote \in Int BY <1>1, <1>4, <2>1
  <2>4. real.resting \in Int
    <3> DEFINE d == x.quote \div price
               b == x.base
    <3>1. d \in Int /\ b \in Int BY <1>1, <1>p, <2>1
    <3>2. Min({b, d}) \in Int
      <4> HIDE DEF b, d
      <4> QED BY <3>1, MinTwo
    <3> HIDE DEF b, d
    <3>3. real.resting = Min({b, d}) \/ real.resting = 0 BY <1>1 DEF b, d
    <3> QED BY <3>2, <3>3
  <2>5. CASE y.crossed = TRUE
    <3>1. sim.base = 0 /\ sim.quote = 0 /\ sim.resting = 0 BY <1>2, <2>5
    <3>2. x.base = qty /\ x.quote = Unbounded /\ x.post = FALSE BY <2>1, <2>5
    <3>3. qty - x.base = 0 /\ Unbounded - x.quote = 0 BY <1>4, <3>2
    <3>4. real.resting = 0 BY <1>1, <3>2
    <3> QED BY <1>1, <2>2, <2>3, <2>4, <3>1, <3>3, <3>4 DEF Foreseen
  <2>6. CASE y.crossed = FALSE
    <3>1. /\ sim.base = qty - y.base /\ sim.quote = Unbounded - y.quote
          /\ sim.resting = IF allowed /\ price > 0 THEN Min({y.base, y.quote \div price}) ELSE 0
      BY <1>2, <2>6
    <3>2. x.post = allowed BY <1>3, <2>1, <2>6
    <3>3. Foreseen(sim, real) BY <1>1, <2>1, <3>1, <3>2 DEF Foreseen
    <3> QED BY <2>2, <2>3, <2>4, <3>3
  <2> QED BY <2>1, <2>5, <2>6
<1> QED BY <1>6, <1>7, <1>8

(* An order that may not rest still may not when it has matched.           *)
LEMMA NeverPosts ==
  ASSUME NEW S, Keyed(S), NEW side \in Sides, NEW type, NEW price, NEW taker, NEW base, NEW quote, NEW limit, NEW t
  PROVE  Match(side, type, price, base, quote, limit, FALSE, taker, S, t).post = FALSE
<1> DEFINE v == Sorted(invert_side(side), S)
           n == Cardinality(S)
           p == [op |-> "match", side |-> side, type |-> type, price |-> price, taker |-> taker, now |-> t]
           x0 == Opening(base, quote, limit, FALSE, S)
           M == Match(side, type, price, base, quote, limit, FALSE, taker, S, t)
           Shut(x) == DOMAIN x = MatchFields /\ x.done \in BOOLEAN /\ x.post = FALSE
<1>1. n \in Nat /\ DOMAIN v = 1..n BY Inverse2, SortedProps
<1>2. M = Run(p, x0, v)
  <2>1. M = (CHOOSE g : RunEq(g, p, x0, v))[DOMAIN v]
    BY DEF Match, FoldLeft, MapThenFoldSet, RunEq, RunStep, Opening
  <2> QED BY <2>1 DEF Run
<1>4. p.op = "match" /\ p.side = side /\ p.type = type /\ p.price = price /\ p.taker = taker /\ p.now = t OBVIOUS
<1>5. Shut(x0) BY DEF Opening, MatchFields
<1> HIDE DEF v, n, p, x0, M
<1>a. PICK r : Chained(r, p, x0, v, n) BY <1>1, Chainable
<1>6. /\ r[0] = x0
      /\ \A i \in 1..n : r[i] = RunStep(p, r[i - 1], v[i])
      /\ r[n] = Run(p, x0, v)
  BY <1>a DEF Chained
<1>8. \A i \in 1..n : r[i] = MatchOne(r[i - 1], v[i], side, type, price, taker, t) BY <1>4, <1>6 DEF RunStep
<1>9. ASSUME NEW x, Shut(x), NEW o, NEW y, y = MatchOne(x, o, side, type, price, taker, t) PROVE Shut(y)
  <2>1. MatchTurned(x, o, side, type, price, t, y) BY <1>9, MatchCases
  <2>2. x.done = TRUE \/ x.done = FALSE BY <1>9
  <2>3. CASE x.done = TRUE \/ ~is_valid(o, t) BY <1>9, <2>1, <2>3 DEF MatchTurned
  <2>4. CASE x.done = FALSE /\ is_valid(o, t) /\ OutOfReach(side, price, o.price) BY <1>9, <2>1, <2>4 DEF MatchTurned
  <2>5. CASE x.done = FALSE /\ Reaches(o, side, price, t) /\ Refused(x, o, type) BY <1>9, <2>1, <2>5 DEF MatchTurned
  <2>6. CASE x.done = FALSE /\ Reaches(o, side, price, t) /\ ~Refused(x, o, type) BY <1>9, <2>1, <2>6 DEF MatchTurned
  <2> HIDE DEF Shut
  <2> QED BY <2>2, <2>3, <2>4, <2>5, <2>6 DEF Reaches
<1> HIDE DEF Shut
<1> DEFINE Q == {i \in Nat : i <= n => Shut(r[i])}
<1>10. 0 \in Q BY <1>5, <1>6
<1>11. ASSUME NEW i \in Nat, i \in Q PROVE i + 1 \in Q
  <2> SUFFICES ASSUME i + 1 <= n PROVE Shut(r[i + 1]) OBVIOUS
  <2>1. i <= n /\ i + 1 \in 1..n /\ (i + 1) - 1 = i BY <1>1
  <2>2. Shut(r[i]) BY <1>11, <2>1
  <2> HIDE DEF Q
  <2>3. r[i + 1] = MatchOne(r[i], v[i + 1], side, type, price, taker, t)
    <3>1. r[i + 1] = MatchOne(r[(i + 1) - 1], v[i + 1], side, type, price, taker, t) BY <1>8, <2>1
    <3> QED BY <2>1, <3>1
  <2> QED BY <1>9, <2>2, <2>3
<1> HIDE DEF Q
<1>12. \A i \in Nat : i \in Q BY <1>10, <1>11, NatSetInduction
<1>13. Shut(r[n]) BY <1>1, <1>12 DEF Q
<1> QED BY <1>2, <1>6, <1>13 DEF M, Shut

(* The prices at which an order may rest: one of the prices orders are     *)
(* sent with or less for bids, which slide down, and at most a tick above  *)
(* one for asks, which slide up to the best bid.                           *)
Affordable(side, price) ==
  \E p \in OrderPrices : IF side = "bid" THEN price <= p ELSE price <= p + 1

(* The price of an order that is not a market order is affordable.         *)
LEMMA SlidePrice ==
  ASSUME NEW S, Keyed(S), S \subseteq OrderSet, NEW side \in Sides, NEW type, type # "Market",
         NEW price0 \in OrderPrices, NEW t, side = "ask" => \A o \in S : Affordable("bid", o.price)
  PROVE  Affordable(side, EffectivePrice(side, type, price0, S, t))
<1> DEFINE V == Valid(S, t)
           B == {o.price : o \in V}
           e == EffectivePrice(side, type, price0, S, t)
<1>0. price0 \in Int BY InputInts
<1>1. IsFiniteSet(V) /\ V \subseteq S
  <2>1. V \subseteq S BY DEF Valid
  <2> QED BY <2>1, FS_Subset DEF Keyed
<1>2. IsFiniteSet(B)
  <2> HIDE DEF V
  <2> DEFINE f == [o \in V |-> o.price]
  <2>1. f \in Surjection(V, B) BY DEF Surjection
  <2> HIDE DEF f, B
  <2> QED BY <1>1, <2>1, FS_Surjection
<1>3. B \subseteq Int BY <1>1 DEF OrderSet, Lots
<1>4. B # {} => Min(B) \in Int /\ Max(B) \in B /\ Max(B) \in Int
  <2> HIDE DEF B
  <2> QED BY <1>2, <1>3, MaxMin
<1>5. side = "ask" => \A b \in B : Affordable("bid", b)
  <2> HIDE DEF V
  <2> QED BY <1>1
<1> HIDE DEF V
<1>6. e = IF type = "PostOnlySlide" /\ B # {}
          THEN IF side = "bid" THEN Min({price0, Min(B) - 1}) ELSE Max({price0, Max(B) + 1})
          ELSE price0
  BY DEF EffectivePrice, V
<1> HIDE DEF B, e
<1>7. CASE ~(type = "PostOnlySlide" /\ B # {})
  <2>1. e = price0 BY <1>6, <1>7
  <2>2. price0 <= price0 /\ price0 <= price0 + 1 BY <1>0
  <2> QED BY <2>1, <2>2 DEF Affordable, e
<1>8. CASE type = "PostOnlySlide" /\ B # {} /\ side = "bid"
  <2> DEFINE x == Min(B) - 1
  <2>1. x \in Int BY <1>4, <1>8
  <2>2. e = Min({price0, x}) BY <1>6, <1>8
  <2> HIDE DEF x
  <2>3. e <= price0 BY <1>0, <2>1, <2>2, MinTwo
  <2> QED BY <1>8, <2>3 DEF Affordable, e
<1>9. CASE type = "PostOnlySlide" /\ B # {} /\ side = "ask"
  <2> DEFINE x == Max(B) + 1
  <2>1. x \in Int BY <1>4, <1>9
  <2>2. e = Max({price0, x}) BY <1>6, <1>9
  <2>4. PICK p \in OrderPrices : Max(B) <= p BY <1>4, <1>5, <1>9 DEF Affordable
  <2>5. p \in Int BY InputInts
  <2>6. x <= p + 1 BY <1>4, <1>9, <2>4, <2>5
  <2> HIDE DEF x
  <2>3. e = price0 \/ e = x BY <1>0, <2>1, <2>2, MinTwo
  <2>7. CASE e = price0
    <3>1. e <= price0 + 1 BY <1>0, <2>7
    <3> QED BY <1>9, <3>1 DEF Affordable, e
  <2>8. CASE e = x
    <3>1. e <= p + 1 BY <2>6, <2>8
    <3> QED BY <1>9, <3>1 DEF Affordable, e
  <2> QED BY <2>3, <2>7, <2>8
<1>10. side = "bid" \/ side = "ask" BY DEF Sides
<1> QED BY <1>7, <1>8, <1>9, <1>10

(* Every order an account keeps track of has such a price, ... *)
AffordableIn(sl) == \A a \in Accounts, s \in Slot : sl[a][s] # Free => Affordable(sl[a][s].side, sl[a][s].price)
Priced == AffordableIn(slots)

(* ... so every resting order has.                                         *)
LEMMA BookPriced ==
  ASSUME Inv, Priced, NEW m \in Markets, NEW side \in Sides, NEW o \in book[m][side]
  PROVE  Affordable(side, o.price)
<1>1. Desk(m, book[m], queue[m], slots, market[m].seq_num) BY DEF Inv, Good, State, Work
<1>2. Listed(m, book[m], slots) /\ book[m] \in Books BY <1>1 DEF Desk
<1>3. o.owner \in Accounts /\ o.slot \in Slot BY <1>2 DEF Books, OrderSet
<1>4. /\ slots[o.owner][o.slot] # Free /\ slots[o.owner][o.slot].side = side
      /\ slots[o.owner][o.slot].price = o.price
  BY <1>2 DEF Listed, Mine
<1>5. Affordable(slots[o.owner][o.slot].side, slots[o.owner][o.slot].price)
  BY <1>3, <1>4 DEF Priced, AffordableIn
<1> QED BY <1>4, <1>5

(* A slot keeps its order or becomes free.                                 *)
LEMMA EmptiedPriced ==
  ASSUME NEW A, NEW s1, NEW s2, Emptied(A, s1, s2), AffordableIn(s1)
  PROVE  AffordableIn(s2)
<1> SUFFICES ASSUME NEW a \in Accounts, NEW s \in Slot, s2[a][s] # Free
             PROVE  Affordable(s2[a][s].side, s2[a][s].price)
  BY DEF AffordableIn
<1>1. s2[a][s] = s1[a][s] BY DEF Emptied
<1>2. s1[a][s] # Free => Affordable(s1[a][s].side, s1[a][s].price) BY DEF AffordableIn
<1> QED BY <1>1, <1>2

(* What a new order leaves to rest is affordable.                          *)
LEMMA RestPriced ==
  ASSUME Inv, Priced, NEW a \in Accounts, NEW m \in Markets, NEW side \in Sides, NEW price0 \in OrderPrices,
         NEW base, NEW quote, NEW type, NEW limit, NEW oracle, NEW taken,
         taken = Matching(a, m, side, price0, base, quote, type, limit, oracle), taken.resting > 0
  PROVE  Affordable(side, taken.price)
<1> DEFINE opp == invert_side(side)
           S == book[m][opp]
           price == EffectivePrice(side, type, price0, S, now)
           allowed == type \notin {"ImmediateOrCancel", "Market"} /\ WithinPriceLimit(m, side, price, oracle)
           x == Match(side, type, price, base, quote, limit, allowed, a, S, now)
<1>0. opp \in Sides /\ (side = "ask" => opp = "bid") BY Inverse2 DEF invert_side
<1>1. Keyed(S) /\ S \subseteq OrderSet
  <2>1. Desk(m, book[m], queue[m], slots, market[m].seq_num) BY DEF Inv, Good, State, Work
  <2> QED BY <1>0, <2>1 DEF Desk, Books
<1>2. taken.price = price /\ taken.resting = IF x.post /\ price > 0 THEN Min({x.base, x.quote \div price}) ELSE 0
  BY DEF Matching
<1>3. allowed \in BOOLEAN OBVIOUS
<1>4. type # "Market"
  <2>1. SUFFICES ASSUME type = "Market" PROVE FALSE OBVIOUS
  <2>2. allowed = FALSE BY <2>1
  <2> HIDE DEF allowed, price, S
  <2>3. Match(side, type, price, base, quote, limit, FALSE, a, S, now).post = FALSE BY <1>1, NeverPosts
  <2>4. x.post = FALSE BY <2>2, <2>3
  <2> HIDE DEF x
  <2>5. taken.resting = 0 BY <1>2, <2>4
  <2> QED BY <2>5
<1>5. side = "ask" => \A o \in S : Affordable("bid", o.price) BY <1>0, BookPriced
<1> HIDE DEF S
<1>6. Affordable(side, price) BY <1>1, <1>4, <1>5, SlidePrice
<1> QED BY <1>2, <1>6

(* Every step keeps the prices affordable.                                 *)
LEMMA MovesPriced ==
  ASSUME Inv, Priced, Moves
  PROVE  Priced'
<1>1. CASE \E a \in Accounts, m \in Markets : NewOrders(a, m)
  <2>1. PICK a \in Accounts, m \in Markets : NewOrders(a, m) BY <1>1
  <2>d. PICK side \in Sides, price0 \in OrderPrices, base \in Nat, quote \in Quotes :
          \E type : NewOrderFor(a, m, side, price0, base, quote, type)
    BY <2>1 DEF NewOrders
  <2>2. PICK type : NewOrderFor(a, m, side, price0, base, quote, type) BY <2>d
  <2>b. PICK expiry \in Int, limit \in Int, cid \in ClientIds : \E oracle, ref :
          NewOrderOf(a, m, side, price0, base, quote, type, expiry, limit, cid, oracle, ref)
    BY <2>2 DEF NewOrderFor
  <2>3. PICK oracle, ref :
          NewOrderOf(a, m, side, price0, base, quote, type, expiry, limit, cid, oracle, ref)
    BY <2>b
  <2> DEFINE taken == Matching(a, m, side, price0, base, quote, type, limit, oracle)
             o == OrderOf(a, m, taken, expiry)
             t == EntryOf(a, m, side, taken, cid)
  <2>4. Halls /\ slots \in Tables BY DEF Inv
  <2>5. PlacedIn(a, m, side, taken, expiry, cid, ref)
    <3>1. new_order(a, m, side, price0, base, quote, type, expiry, limit, cid, oracle, ref) BY <2>3 DEF NewOrderOf
    <3> QED BY <2>4, <3>1, NewOrderParts
  <2>6. taken.resting > 0 => Affordable(side, taken.price)
    <3> HIDE DEF taken
    <3>1. taken = Matching(a, m, side, price0, base, quote, type, limit, oracle) BY DEF taken
    <3> QED BY <3>1, RestPriced
  <2>7. slots' = IF taken.resting > 0 THEN Put(slots, a, o.slot, t) ELSE slots BY <2>5 DEF PlacedIn
  <2>8. t.side = side /\ t.price = taken.price BY DEF EntryOf
  <2> HIDE DEF taken, o, t
  <2>9. CASE ~(taken.resting > 0)
    <3>1. slots' = slots BY <2>7, <2>9
    <3> QED BY <3>1 DEF Priced
  <2>10. CASE taken.resting > 0
    <3>1. slots' = Put(slots, a, o.slot, t) BY <2>7, <2>10
    <3>2. \A b \in Accounts, s \in Slot : slots'[b][s] = t \/ slots'[b][s] = slots[b][s]
      BY <2>4, <3>1 DEF Put, Tables
    <3>3. Affordable(t.side, t.price) BY <2>6, <2>8, <2>10
    <3>4. ASSUME NEW b \in Accounts, NEW s \in Slot, slots'[b][s] # Free
          PROVE  Affordable(slots'[b][s].side, slots'[b][s].price)
      <4>1. CASE slots'[b][s] = t BY <3>3, <4>1
      <4>2. CASE slots'[b][s] = slots[b][s]
        <5>1. slots[b][s] # Free BY <3>4, <4>2
        <5>2. Affordable(slots[b][s].side, slots[b][s].price) BY <5>1 DEF Priced, AffordableIn
        <5> QED BY <4>2, <5>2
      <4> QED BY <3>2, <4>1, <4>2
    <3>5. AffordableIn(slots') BY <3>4 DEF AffordableIn
    <3> QED BY <3>5 DEF Priced
  <2> QED BY <2>9, <2>10
<1>2. CASE \E a \in Accounts, m \in Markets : Cancels(a, m)
  <2>1. PICK a \in Accounts, m \in Markets : Cancels(a, m) BY <1>2
  <2>2. PICK w : CancelsTo(a, m, w) BY <2>1 DEF Cancels
  <2>3. Emptied({a}, slots, w.slots) /\ slots' = w.slots
    <3>1. Work(m).slots = slots BY DEF Work
    <3> QED BY <2>2, <3>1 DEF CancelsTo, Cancelled, Commit
  <2>4. AffordableIn(w.slots) BY <2>3, EmptiedPriced DEF Priced
  <2> QED BY <2>3, <2>4 DEF Priced
<1>3. CASE \E m \in Markets : \E n, w : CranksTo(m, n, w)
  <2>a. PICK m \in Markets : \E n, w : CranksTo(m, n, w) BY <1>3
  <2>1. PICK n, w : CranksTo(m, n, w) BY <2>a
  <2>3. Emptied(Accounts, slots, w.slots) /\ slots' = w.slots
    <3>1. Work(m).slots = slots BY DEF Work
    <3> QED BY <2>1, <3>1 DEF CranksTo, Reached, Commit
  <2>4. AffordableIn(w.slots) BY <2>3, EmptiedPriced DEF Priced
  <2> QED BY <2>3, <2>4 DEF Priced
<1>4. CASE MovesNothing
  <2>1. slots' = slots BY <1>4 DEF MovesNothing
  <2> QED BY <2>1 DEF Priced
<1> QED BY <1>1, <1>2, <1>3, <1>4 DEF Moves

(* So they are in every state.                                             *)
LEMMA AlwaysPriced == (Spec => []Priced) /\ (AdvancedSpec => [](AdvancedInv /\ Priced))
<1>1. Init => Priced BY DEF Init, Priced, AffordableIn
<1>2. Inv /\ Priced /\ [Next]_vars => Priced' BY NextMoves, MovesPriced
<1>3. AdvancedInv /\ Priced /\ [AdvancedNext]_advancedVars => Priced'
  BY AdvancedMoves, MovesPriced DEF AdvancedInv
<1>4. AdvancedInit => Priced BY <1>1 DEF AdvancedInit
<1>5. Spec => []Priced BY <1>1, <1>2, MarketsInv, PTL DEF Spec
<1>6. AdvancedSpec => [](AdvancedInv /\ Priced) BY <1>3, <1>4, AdvancedInvariant, PTL DEF AdvancedSpec
<1> QED BY <1>5, <1>6

(* When the amounts are foreseen, so is the health: the account has paid   *)
(* its fees before post_health values it, and sim_post_health values it    *)
(* first and takes the fees off in the end.                                *)
LEMMA HealthSame ==
  ASSUME NEW pa \in PerpSet, NEW side \in Sides, NEW sim, NEW real, Foreseen(sim, real),
         real.base \in Int, real.quote \in Int, real.resting \in Int,
         NEW rate \in Int, NEW funding \in Int, NEW oracle \in Int
  PROVE  sim_post_health(pa, side, sim, rate, funding, oracle)
           = post_health(AfterOrder(pa, side, real, rate), funding, oracle)
<1> DEFINE sign == IF side = "bid" THEN 1 ELSE -1
           fee == real.quote * (TakerFee + rate)
           p1 == [pa EXCEPT !.taker_base = @ + sign * sim.base, !.taker_quote = @ - sign * sim.quote,
                            !.on_orders[side] = @ + sim.resting]
           p2 == AfterOrder(pa, side, real, rate)
           v1 == get_val(p1, funding, oracle)
           v2 == get_val(p2, funding, oracle)
<1>1. /\ pa.quote \in Int /\ pa.base \in Int /\ pa.settled \in Int /\ pa.taker_base \in Int /\ pa.taker_quote \in Int
      /\ pa.on_orders["bid"] \in Int /\ pa.on_orders["ask"] \in Int
  BY DEF PerpSet, Sides
<1>2. sim.base = real.base /\ sim.quote = real.quote /\ sim.resting = real.resting BY DEF Foreseen
<1>3. fee \in Int
  <2>1. TakerFee + rate \in Int BY PerpAssumption
  <2> DEFINE f == TakerFee + rate
  <2> HIDE DEF f
  <2>2. real.quote * f \in Int BY <2>1, ProductInt DEF f
  <2> QED BY <2>2 DEF f
<1>4. /\ p2.base = p1.base /\ p2.settled = p1.settled /\ p2.taker_base = p1.taker_base
      /\ p2.taker_quote = p1.taker_quote /\ p2.on_orders = p1.on_orders
      /\ p2.quote = p1.quote - fee /\ p1.quote = pa.quote
  BY <1>2 DEF AfterOrder, PerpSet
<1>5. /\ p1.base \in Int /\ p1.settled \in Int /\ p1.taker_base \in Int /\ p1.taker_quote \in Int /\ p1.quote \in Int
      /\ p1.on_orders["bid"] \in Int /\ p1.on_orders["ask"] \in Int
  BY <1>1, <1>2 DEF PerpSet, Sides
<1>6. sim_post_health(pa, side, sim, rate, funding, oracle) = HealthOf(v1) - 10000 * sim.quote * (TakerFee + rate)
  BY DEF sim_post_health, sim_get_val
<1>7. 10000 * sim.quote * (TakerFee + rate) = 10000 * fee
  BY <1>2, PerpAssumption
<1> HIDE DEF fee, p1, p2
<1>8. v2.base = v1.base /\ v2.quote = v1.quote - 100 * fee /\ v1.base \in Int /\ v1.quote \in Int
  <2> DEFINE pos == p1.base + p1.taker_base
             bids == pos + p1.on_orders["bid"]
             asks == pos - p1.on_orders["ask"]
             owed == (funding - p1.settled) * p1.base
             q1 == p1.quote - owed + p1.taker_quote
             q2 == (p1.quote - fee) - owed + p1.taker_quote
             ob == p1.on_orders["bid"] * oracle
             oa == p1.on_orders["ask"] * oracle
             nb == bids * oracle
             na == asks * oracle
             far == Abs(bids) > Abs(asks)
  <2>1. owed \in Int /\ ob \in Int /\ oa \in Int /\ nb \in Int /\ na \in Int
    <3>1. funding - p1.settled \in Int /\ bids \in Int /\ asks \in Int BY <1>5
    <3> DEFINE g == funding - p1.settled
    <3> HIDE DEF g, bids, asks
    <3>2. g * p1.base \in Int /\ bids * oracle \in Int /\ asks * oracle \in Int
      BY <1>5, <3>1, ProductInt DEF g
    <3>3. p1.on_orders["bid"] * oracle \in Int /\ p1.on_orders["ask"] * oracle \in Int BY <1>5, ProductInt
    <3> QED BY <3>2, <3>3 DEF g
  <2>2. v1 = IF far THEN [base |-> nb, quote |-> 100 * q1 - ob] ELSE [base |-> na, quote |-> 100 * q1 + oa]
    BY DEF get_val
  <2>3. v2 = IF far THEN [base |-> nb, quote |-> 100 * q2 - ob] ELSE [base |-> na, quote |-> 100 * q2 + oa]
    BY <1>4 DEF get_val
  <2> HIDE DEF owed, ob, oa, nb, na, far, v1, v2
  <2>4. q1 \in Int /\ q2 = q1 - fee BY <1>3, <1>5, <2>1
  <2> HIDE DEF q1, q2
  <2>5. CASE far
    <3>1. v1.base = nb /\ v2.base = nb /\ v1.quote = 100 * q1 - ob /\ v2.quote = 100 * q2 - ob BY <2>2, <2>3, <2>5
    <3> QED BY <1>3, <2>1, <2>4, <3>1
  <2>6. CASE ~far
    <3>1. v1.base = na /\ v2.base = na /\ v1.quote = 100 * q1 + oa /\ v2.quote = 100 * q2 + oa BY <2>2, <2>3, <2>6
    <3> QED BY <1>3, <2>1, <2>4, <3>1
  <2> QED BY <2>5, <2>6
<1> HIDE DEF v1, v2
<1>9. HealthOf(v2) = HealthOf(v1) - 10000 * fee
  <2> DEFINE w == IF v1.base < 0 THEN InitLiabWeight ELSE InitAssetWeight
             h == v1.base * w
  <2>1. h \in Int
    <3>1. w \in Int BY PerpAssumption
    <3> HIDE DEF w
    <3> QED BY <1>8, <3>1, ProductInt
  <2>2. HealthOf(v1) = h + 100 * v1.quote /\ HealthOf(v2) = h + 100 * v2.quote BY <1>8 DEF HealthOf
  <2> HIDE DEF h
  <2> QED BY <1>3, <1>8, <2>1, <2>2
<1>10. post_health(p2, funding, oracle) = HealthOf(v2) BY DEF post_health, v2
<1> QED BY <1>6, <1>7, <1>9, <1>10 DEF p2

(* With affordable prices no order runs out of quote.                      *)
LEMMA PricedSim == Inv /\ Priced => SimulationExact
<1> SUFFICES ASSUME Inv, Priced, NEW m \in Markets, NEW oracle \in OraclePrices, NEW side \in Sides,
                    NEW price \in Prices, NEW qty \in Quantities \ {0}, NEW type \in AllTypes,
                    NEW limit \in 1..MaxFills,
                    Matching(Nobody, m, side, price, qty, Unbounded, type, limit, oracle).price > 0
             PROVE  LET sim  == SimNewOrder(m, side, price, qty, type, oracle)
                        real == Matching(Nobody, m, side, price, qty, Unbounded, type, limit, oracle)
                    IN  IF LimitReached(side, qty, real) THEN sim.base > real.base /\ real.resting = 0
                        ELSE Foreseen(sim, real) /\ HealthForeseen(m, side, sim, real, oracle)
  BY DEF SimulationExact
<1> DEFINE opp == invert_side(side)
           S == book[m][opp]
           sim  == SimNewOrder(m, side, price, qty, type, oracle)
           real == Matching(Nobody, m, side, price, qty, Unbounded, type, limit, oracle)
<1>0. opp \in Sides BY Inverse2
<1>1. Keyed(S) /\ S \subseteq OrderSet
  <2>1. Desk(m, book[m], queue[m], slots, market[m].seq_num) BY DEF Inv, Good, State, Work
  <2> QED BY <1>0, <2>1 DEF Desk, Books
<1>2. qty \in Nat /\ qty > 0 /\ qty \in OrderSizes
  <2>1. Quantities \subseteq Nat BY InputAssumption
  <2>2. qty \in OrderSizes BY DEF OrderSizes
  <2>3. qty \in Nat /\ qty # 0 BY <2>1
  <2> QED BY <2>2, <2>3
<1>3. Unbounded \in Nat /\ limit \in Nat /\ limit # 0 /\ price \in Int /\ oracle \in Int
  BY BookAssumption, PerpAssumption, InputAssumption
<1>4. ASSUME NEW o \in S PROVE qty * o.price <= Unbounded
  <2>1. Affordable(opp, o.price) BY <1>0, BookPriced
  <2>2. PICK p \in OrderPrices : o.price <= p + 1
    <3>1. PICK p \in OrderPrices : IF opp = "bid" THEN o.price <= p ELSE o.price <= p + 1 BY <2>1 DEF Affordable
    <3>2. p \in Int /\ o.price \in Int BY <1>1, <1>4, InputInts DEF OrderSet, Lots
    <3>3. o.price <= p + 1 BY <3>1, <3>2
    <3> QED BY <3>3
  <2> DEFINE c == p + 1
             r == o.price
  <2>3. c \in Int /\ r \in Int /\ r <= c BY <1>1, <2>2, InputInts DEF OrderSet, Lots
  <2>4. qty * c <= Unbounded BY <1>2, AmountsBounded
  <2> HIDE DEF c, r
  <2>5. r * qty <= c * qty BY <1>2, <2>3, Monotone
  <2>6. r * qty = qty * r /\ c * qty = qty * c BY <1>2, <2>3
  <2>7. qty * r \in Int /\ qty * c \in Int BY <1>2, <2>3, ProductInt
  <2>8. qty * r <= Unbounded BY <1>3, <2>4, <2>5, <2>6, <2>7
  <2> QED BY <2>8 DEF r
<1> HIDE DEF sim, real
<1>5. sim = SimNewOrder(m, side, price, qty, type, oracle) BY DEF sim
<1>6. real = Matching(Nobody, m, side, price, qty, Unbounded, type, limit, oracle) /\ real.price > 0 BY DEF real
<1>7. IF LimitReached(side, qty, real) THEN sim.base > real.base /\ real.resting = 0
      ELSE Foreseen(sim, real) /\ real.base \in Int /\ real.quote \in Int /\ real.resting \in Int
  BY <1>1, <1>2, <1>3, <1>4, <1>5, <1>6, SimExact
<1>8. ASSUME ~LimitReached(side, qty, real) PROVE HealthForeseen(m, side, sim, real, oracle)
  <2> SUFFICES ASSUME NEW x \in Accounts, NEW rate \in {0} \cup RefSurcharges
               PROVE  sim_post_health(perp[x][m], side, sim, rate, market[m].funding, oracle)
                        = post_health(AfterOrder(perp[x][m], side, real, rate), market[m].funding, oracle)
    BY DEF HealthForeseen
  <2>1. perp[x][m] \in PerpSet BY DEF Inv, Perps
  <2>2. market[m].funding \in Int BY DEF Inv, Halls, MarketSet
  <2>3. rate \in Int BY PerpAssumption
  <2>4. Foreseen(sim, real) /\ real.base \in Int /\ real.quote \in Int /\ real.resting \in Int BY <1>7, <1>8
  <2> DEFINE pa == perp[x][m]
             f == market[m].funding
  <2>5. pa \in PerpSet /\ f \in Int BY <2>1, <2>2
  <2> HIDE DEF pa, f
  <2>6. sim_post_health(pa, side, sim, rate, f, oracle) = post_health(AfterOrder(pa, side, real, rate), f, oracle)
    BY <1>3, <2>3, <2>4, <2>5, HealthSame
  <2> QED BY <2>6 DEF pa, f
<1> QED BY <1>7, <1>8 DEF sim, real

(* Simulating an order foresees what placing it takes, what it leaves to   *)
(* rest and the health afterwards, in every reachable state of the book,   *)
(* with expired orders on it or not and whatever the limit on fills: the   *)
(* comparison of an executed trigger order with sim_new_bid or sim_new_ask *)
(* fails for want of fills, then always, and for no other reason.          *)
THEOREM SimulationForesees == (Spec => []SimulationExact) /\ (AdvancedSpec => []SimulationExact)
<1>1. Spec => []SimulationExact BY MarketsInv, AlwaysPriced, PricedSim, PTL
<1>2. AdvancedInv /\ Priced => SimulationExact BY PricedSim DEF AdvancedInv
<1>3. AdvancedSpec => []SimulationExact BY <1>2, AlwaysPriced, PTL
<1> QED BY <1>1, <1>3

-----------------------------------------------------------------------------
(***************************************************************************)
(* The book is never crossed.  The matching loop stops for want of base,   *)
(* because it may not post, or when everything valid that is left is out   *)
(* of reach: the orders come best first.                                   *)
(***************************************************************************)


(* What is left of the other side comes from it; all of it is out of reach. *)
Like(q, o) == q.seq = o.seq /\ q.price = o.price /\ q.expiry = o.expiry
Rooted(v, n, rest) == \A q \in rest : \E h \in 1..n : Like(q, v[h])
Beyond(rest, side, price, t) == \A q \in rest : is_valid(q, t) => OutOfReach(side, price, q.price)
Halted(v, n, t, side, price, P, acc) ==
  /\ Rooted(v, n, acc.rest)
  /\ Ample(acc.base, acc.quote, P)
  /\ acc.done => acc.base = 0 \/ acc.post = FALSE \/ Beyond(acc.rest, side, price, t)

(* When the valid orders in front are used up, those left are at or behind i. *)
LEMMA LeftBehind ==
  ASSUME NEW n \in Nat, NEW v, NEW t, NEW rest, NEW i \in 0..n, InFront(v, i, t, rest),
         NEW q \in rest, is_valid(q, t), NEW h \in 1..n, Like(q, v[h])
  PROVE  h > i
<1>1. is_valid(v[h], t) BY DEF is_valid, Like
<1>2. SUFFICES ASSUME h <= i PROVE FALSE OBVIOUS
<1>3. h \in 1..i BY <1>2
<1>4. UsedUp(rest, v[h]) BY <1>1, <1>3 DEF InFront
<1> QED BY <1>4 DEF UsedUp, Like

(* One turn of the loop, when quote cannot run out.                        *)
LEMMA HaltedTurn ==
  ASSUME NEW n \in Nat, NEW v, NEW i \in 1..n, NEW t, NEW side \in Sides, Sequenced(v, n, side),
         \A h \in 1..n : v[h] \in OrderSet, NEW acc \in MatchSet, acc.done \/ acc.base > 0, NEW type, NEW price \in Int,
         NEW taker, Prior(v, n, i - 1, t, side, acc), NEW P \in Nat, v[i].price <= P,
         Halted(v, n, t, side, price, P, acc)
  PROVE  Halted(v, n, t, side, price, P, MatchOne(acc, v[i], side, type, price, taker, t))
<1> DEFINE o == v[i]
           x == MatchOne(acc, o, side, type, price, taker, t)
           quo == acc.quote \div o.price
           qty == Taking(acc, o)
           gone == OutEvent(o, invert_side(side))
           fill == FillEvent(o, side, taker, qty)
           x1 == [acc EXCEPT !.drops = @ + 1, !.evs = Append(@, gone), !.rest = @ \ {o}]
           x2 == [acc EXCEPT !.done = TRUE]
           x3 == [acc EXCEPT !.done = TRUE, !.post = FALSE]
           x4 == [acc EXCEPT !.base = @ - qty,
                       !.quote = @ - qty * o.price,
                       !.limit = @ - 1,
                       !.evs = Append(@, fill),
                       !.rest = (@ \ {o}) \cup AfterFill(o, qty),
                       !.done = qty = quo \/ qty = acc.base]
<1>0. o \in OrderSet /\ acc.base \in Nat /\ acc.quote \in Nat /\ acc.done \in BOOLEAN BY DEF MatchSet
<1>1. \/ x = acc
      \/ x = x1 /\ ~acc.done
      \/ x = x2 /\ ~acc.done /\ OutOfReach(side, price, o.price)
      \/ x = x3
      \/ ~acc.done /\ x = x4
  BY DEF MatchOne, Taking
<1>h. /\ Rooted(v, n, acc.rest) /\ Ample(acc.base, acc.quote, P)
      /\ acc.done => acc.base = 0 \/ acc.post = FALSE \/ Beyond(acc.rest, side, price, t)
  BY DEF Halted
<1>q. /\ x1.base = acc.base /\ x1.quote = acc.quote /\ x1.rest = acc.rest \ {o} /\ x1.done = acc.done
      /\ x2.base = acc.base /\ x2.quote = acc.quote /\ x2.rest = acc.rest
      /\ x3.base = acc.base /\ x3.quote = acc.quote /\ x3.rest = acc.rest /\ x3.post = FALSE
  BY DEF MatchSet
<1>r. /\ x4.base = acc.base - qty /\ x4.quote = acc.quote - qty * o.price
      /\ x4.rest = (acc.rest \ {o}) \cup AfterFill(o, qty) /\ x4.done = (qty = quo \/ qty = acc.base)
  <2> HIDE DEF qty, fill, quo
  <2> QED BY DEF MatchSet
<1> SUFFICES Halted(v, n, t, side, price, P, x) OBVIOUS
<1> HIDE DEF x, x1, x2, x3, x4, qty, quo, fill, gone
<1>2. CASE x = acc BY <1>2
<1>3. CASE x = x1 /\ ~acc.done
  <2>1. Rooted(v, n, x1.rest) BY <1>h, <1>q DEF Rooted
  <2> QED BY <1>3, <1>h, <1>q, <2>1 DEF Halted
<1>4. CASE x = x2 /\ ~acc.done /\ OutOfReach(side, price, o.price)
  <2>1. InFront(v, i - 1, t, acc.rest) /\ i - 1 \in 0..n BY <1>4 DEF Prior
  <2>2. ASSUME NEW q \in acc.rest, is_valid(q, t) PROVE OutOfReach(side, price, q.price)
    <3>1. PICK h \in 1..n : Like(q, v[h]) BY <1>h DEF Rooted
    <3>2. h > i - 1 BY <2>1, <2>2, <3>1, LeftBehind
    <3>3. i <= h /\ v[i].price \in Int /\ v[h].price \in Int BY <3>2 DEF OrderSet, Lots
    <3>4. OutOfReach(side, price, v[h].price) BY <1>4, <3>3, StaysOut
    <3> QED BY <3>1, <3>4 DEF Like
  <2>3. Beyond(x2.rest, side, price, t) BY <1>q, <2>2 DEF Beyond
  <2> QED BY <1>4, <1>h, <1>q, <2>3 DEF Halted
<1>5. CASE x = x3 BY <1>5, <1>h, <1>q DEF Halted
<1>6. CASE ~acc.done /\ x = x4
  <2>1. acc.base > 0 /\ o.price \in Lots /\ o.qty \in Lots BY <1>0, <1>6 DEF OrderSet, Lots
  <2>2. /\ qty \in Nat /\ qty > 0 /\ qty <= acc.base
        /\ (qty = quo => qty = acc.base)
        /\ Ample(acc.base - qty, acc.quote - qty * o.price, P)
    <3>1. qty = Taking(acc, o) /\ quo = acc.quote \div o.price BY DEF qty, quo
    <3>2. o.price <= P OBVIOUS
    <3> HIDE DEF o
    <3> QED BY <1>h, <2>1, <3>1, <3>2, AmpleFill
  <2>3. Ample(x4.base, x4.quote, P) BY <1>r, <2>2
  <2>4. x4.done => x4.base = 0
    <3>1. acc.base - acc.base = 0 BY <1>0
    <3>2. x4.done => qty = acc.base BY <1>r, <2>2
    <3>3. qty = acc.base => x4.base = 0 BY <1>r, <3>1
    <3> QED BY <3>2, <3>3
  <2>5. Rooted(v, n, x4.rest)
    <3> SUFFICES ASSUME NEW q \in x4.rest PROVE \E h \in 1..n : Like(q, v[h]) BY DEF Rooted
    <3>1. q \in acc.rest \/ q \in AfterFill(o, qty) BY <1>r
    <3>2. CASE q \in acc.rest BY <1>h, <3>2 DEF Rooted
    <3>3. CASE q \in AfterFill(o, qty)
      <4>1. q = [o EXCEPT !.qty = @ - qty] BY <3>3 DEF AfterFill
      <4>2. Like(q, o) BY <1>0, <4>1 DEF Like, OrderSet
      <4> QED BY <4>2
    <3> QED BY <3>1, <3>2, <3>3
  <2> QED BY <1>6, <2>3, <2>4, <2>5 DEF Halted
<1> QED BY <1>1, <1>2, <1>3, <1>4, <1>5, <1>6

(* After the loop, an order that still has base and may rest has nothing   *)
(* left to trade with.                                                     *)
LEMMA HaltedAll ==
  ASSUME NEW m, NEW bk, NEW q, NEW sl, NEW sq, NEW pp, Stage(m, bk, q, sl, sq, pp), NEW taker \in Accounts,
         NEW side \in Sides, NEW base \in Nat, base > 0, NEW quote \in Nat, NEW limit \in Int,
         NEW allowed \in BOOLEAN, NEW type, NEW price \in Int, NEW t,
         NEW P \in Nat, base * P <= quote, \A o \in bk[invert_side(side)] : o.price <= P,
         NEW x, x = Match(side, type, price, base, quote, limit, allowed, taker, bk[invert_side(side)], t)
  PROVE  /\ x \in MatchSet
         /\ \A z \in x.rest : \E o \in bk[invert_side(side)] : Like(z, o)
         /\ x.post = TRUE /\ x.base > 0 => Beyond(x.rest, side, price, t)
<1> DEFINE S == bk[invert_side(side)]
           v == Sorted(invert_side(side), S)
           n == Cardinality(S)
<1>0. Keyed(S) /\ invert_side(side) \in Sides /\ S \subseteq OrderSet BY Inverse2 DEF Stage, Desk, Books
<1>1. PICK r : MatchChain(r, m, bk, q, sl, sq, pp, taker, side, base, quote, limit, allowed, type, price, t)
  BY MatchRun
<1>2. /\ r[0] = Opening(base, quote, limit, allowed, S)
      /\ \A i \in 0..n : Matched(m, bk, q, sl, sq, pp, r[i], taker, side, base, quote)
      /\ \A i \in 1..n : /\ v[i] \in r[i - 1].rest
                         /\ r[i] = MatchOne(r[i - 1], v[i], side, type, price, taker, t)
      /\ r[n] = x
  BY <1>1 DEF MatchChain
<1>3. n \in Nat /\ (\A i \in 1..n : v[i] \in S) /\ (\A i, j \in 1..n : v[i] = v[j] => i = j)
  <2> HIDE DEF S
  <2> QED BY <1>0, SortedProps
<1>c. /\ \A o \in S : \E h \in 1..n : v[h] = o
      /\ Sequenced(v, n, side)
  <2> HIDE DEF S
  <2> QED BY <1>0, SortedOrder DEF Sequenced
<1>p. \A o \in S : o.price <= P OBVIOUS
<1> HIDE DEF S, v, n
<1>4. Apiece(v, n) BY <1>0, <1>3 DEF Apiece, Keyed
<1>o. \A h \in 1..n : v[h] \in OrderSet BY <1>0, <1>3
<1> DEFINE Q == {i \in Nat : i <= n => Prior(v, n, i, t, side, r[i]) /\ Halted(v, n, t, side, price, P, r[i])}
<1>5. 0 \in Q
  <2> DEFINE w == Opening(base, quote, limit, allowed, S)
  <2>1. w.evs = <<>> /\ w.rest = S /\ w.base = base /\ w.quote = quote /\ w.done = FALSE BY DEF Opening
  <2> HIDE DEF w
  <2>2. FillsInTurn(v, 0, t, side, w.evs, w.rest) BY <2>1 DEF FillsInTurn
  <2>3. InFront(v, 0, t, w.rest) BY DEF InFront
  <2>4. Behind(v, n, 0, w.rest)
    <3> SUFFICES ASSUME NEW z \in S, NEW h \in 1..n, z.seq = v[h].seq PROVE z = v[h] BY <2>1 DEF Behind
    <3> QED BY <1>0, <1>3 DEF Keyed
  <2>5. Prior(v, n, 0, t, side, w) BY <2>2, <2>3, <2>4 DEF Prior
  <2>6. Rooted(v, n, w.rest) BY <1>c, <2>1 DEF Rooted, Like
  <2>7. Ample(w.base, w.quote, P) BY <2>1 DEF Ample
  <2>8. Halted(v, n, t, side, price, P, w) BY <2>1, <2>6, <2>7 DEF Halted
  <2> QED BY <1>2, <2>5, <2>8 DEF w
<1>6. ASSUME NEW i \in Nat, i \in Q PROVE i + 1 \in Q
  <2> SUFFICES ASSUME i + 1 <= n
               PROVE  Prior(v, n, i + 1, t, side, r[i + 1]) /\ Halted(v, n, t, side, price, P, r[i + 1])
    OBVIOUS
  <2> DEFINE j == i + 1
  <2>1. i <= n /\ j \in 1..n /\ j - 1 = i /\ i \in 0..n BY <1>3
  <2>2. Prior(v, n, i, t, side, r[i]) /\ Halted(v, n, t, side, price, P, r[i]) BY <1>6, <2>1
  <2> HIDE DEF Q, j
  <2>3. /\ v[j] \in r[i].rest /\ r[j] = MatchOne(r[i], v[j], side, type, price, taker, t)
    <3>1. v[j] \in r[j - 1].rest /\ r[j] = MatchOne(r[j - 1], v[j], side, type, price, taker, t) BY <1>2, <2>1
    <3> QED BY <2>1, <3>1
  <2> DEFINE acc == r[i]
  <2>4. acc \in MatchSet /\ (acc.done \/ acc.base > 0) BY <1>2, <2>1 DEF Matched
  <2>5. v[j] \in acc.rest BY <2>3
  <2>6. Prior(v, n, j - 1, t, side, acc) /\ Halted(v, n, t, side, price, P, acc) BY <2>1, <2>2
  <2>a. v[j].price <= P BY <1>3, <1>p, <2>1
  <2> HIDE DEF acc
  <2>7. Prior(v, n, j, t, side, MatchOne(acc, v[j], side, type, price, taker, t))
    BY <1>3, <1>4, <2>1, <2>4, <2>5, <2>6, PriorTurn
  <2>8. Halted(v, n, t, side, price, P, MatchOne(acc, v[j], side, type, price, taker, t))
    BY <1>3, <1>c, <1>o, <2>1, <2>4, <2>6, <2>a, HaltedTurn
  <2> QED BY <2>3, <2>7, <2>8 DEF acc, j
<1> HIDE DEF Q
<1>7. \A i \in Nat : i \in Q BY <1>5, <1>6, NatSetInduction
<1>8. Prior(v, n, n, t, side, x) /\ Halted(v, n, t, side, price, P, x) BY <1>2, <1>3, <1>7 DEF Q
<1>9. \A z \in x.rest : \E o \in S : Like(z, o) BY <1>3, <1>8 DEF Halted, Rooted
<1>10. ASSUME x.post = TRUE, x.base > 0 PROVE Beyond(x.rest, side, price, t)
  <2>1. CASE x.done BY <1>8, <1>10, <2>1 DEF Halted
  <2>2. CASE ~x.done
    <3>1. InFront(v, n, t, x.rest) /\ n \in 0..n BY <1>3, <1>8, <2>2 DEF Prior
    <3>2. ASSUME NEW z \in x.rest, is_valid(z, t) PROVE FALSE
      <4>1. PICK h \in 1..n : Like(z, v[h]) BY <1>8 DEF Halted, Rooted
      <4>2. h > n BY <1>3, <3>1, <3>2, <4>1, LeftBehind
      <4> QED BY <1>3, <4>2
    <3> QED BY <3>2 DEF Beyond
  <2> QED BY <2>1, <2>2
<1>11. x \in MatchSet
  <2>1. n \in 0..n BY <1>3
  <2> QED BY <1>2, <2>1 DEF Matched
<1> QED BY <1>9, <1>10, <1>11 DEF S


(* No quote limit binds: each is worth any order's quantity at any price.  *)
(* AmountsBounded says it of the limit of orders that come without one.    *)
QuotesCover == \A quote \in MaxQuotes, qty \in OrderSizes, price \in OrderPrices : qty * (price + 1) <= quote

(* Then an order's quote pays for its base at every price of the book.     *)
LEMMA QuoteEnough ==
  ASSUME Inv, Priced, QuotesCover, NEW m \in Markets, NEW side \in Sides, NEW o \in book[m][side],
         NEW base \in Nat, Sized(base), NEW quote \in Quotes
  PROVE  base * o.price <= quote
<1>1. PICK qty \in OrderSizes : base <= qty BY DEF Sized
<1>2. qty \in Nat /\ quote \in Nat BY InputInts
<1>3. Affordable(side, o.price) BY BookPriced
<1>4. o.price \in Nat
  <2>1. Desk(m, book[m], queue[m], slots, market[m].seq_num) BY DEF Inv, Good, State, Work
  <2> QED BY <2>1 DEF Desk, Books, OrderSet, Lots
<1>5. PICK p \in OrderPrices : o.price <= p + 1
  <2>1. PICK p \in OrderPrices : IF side = "bid" THEN o.price <= p ELSE o.price <= p + 1 BY <1>3 DEF Affordable
  <2>2. p \in Int BY InputInts
  <2>3. o.price <= p + 1 BY <1>4, <2>1, <2>2
  <2> QED BY <2>3
<1> DEFINE c == p + 1
           r == o.price
<1>6. c \in Nat /\ r \in Nat /\ r <= c
  <2>1. p \in Int BY InputInts
  <2> QED BY <1>4, <1>5, <2>1
<1>7. qty * c <= quote
  <2>1. CASE quote \in MaxQuotes BY <2>1 DEF QuotesCover
  <2>2. CASE quote = Unbounded BY <2>2, AmountsBounded
  <2> QED BY <2>1, <2>2 DEF Quotes
<1> HIDE DEF c, r
<1>8. r * base <= c * base BY <1>6, Monotone
<1>9. base * c <= qty * c BY <1>1, <1>2, <1>6, Monotone
<1>10. r * base = base * r /\ c * base = base * c BY <1>6
<1>11. base * r \in Int /\ base * c \in Int /\ qty * c \in Int BY <1>2, <1>6, ProductInt
<1>12. base * r <= quote BY <1>2, <1>7, <1>8, <1>9, <1>10, <1>11
<1> QED BY <1>12 DEF r

(* What is left to rest of an order has nothing left to trade with.        *)
LEMMA MatchingClears ==
  ASSUME Inv, Priced, QuotesCover, NEW a \in Accounts, NEW m \in Markets, NEW side \in Sides,
         NEW price0 \in OrderPrices, NEW base \in Nat, base > 0, Sized(base), NEW quote \in Quotes, NEW type,
         NEW limit \in Int, NEW oracle, NEW taken,
         taken = Matching(a, m, side, price0, base, quote, type, limit, oracle)
  PROVE  /\ \A z \in taken.rest : \E o \in book[m][invert_side(side)] : Like(z, o)
         /\ taken.resting > 0 => Beyond(taken.rest, side, taken.price, now)
<1> DEFINE opp == invert_side(side)
           S == book[m][opp]
           price == EffectivePrice(side, type, price0, S, now)
           allowed == type \notin {"ImmediateOrCancel", "Market"} /\ WithinPriceLimit(m, side, price, oracle)
           x == Match(side, type, price, base, quote, limit, allowed, a, S, now)
<1>0. opp \in Sides BY Inverse2
<1>1. Stage(m, book[m], queue[m], slots, market[m].seq_num, perp)
  <2>1. Good(m) /\ Halls BY DEF Inv
  <2> QED BY <2>1, GoodParts
<1>2. Keyed(S) /\ S \subseteq OrderSet
  <2>1. Desk(m, book[m], queue[m], slots, market[m].seq_num) BY <1>1 DEF Stage
  <2> QED BY <1>0, <2>1 DEF Desk, Books
<1>3. /\ taken.price = price /\ taken.rest = x.rest
      /\ taken.resting = IF x.post /\ price > 0 THEN Min({x.base, x.quote \div price}) ELSE 0
  BY DEF Matching
<1>4. allowed \in BOOLEAN /\ quote \in Nat /\ price0 \in Int BY InputInts
<1>5. \A o \in S : base * o.price <= quote BY <1>0, QuoteEnough
<1>6. price \in Int
  <2> HIDE DEF S
  <2> QED BY <1>2, <1>4, PriceInt
<1>7. PICK P \in Nat : base * P <= quote /\ \A o \in S : o.price <= P
  <2> HIDE DEF S
  <2> QED BY <1>2, <1>4, <1>5, PriceCover
<1>8. /\ x \in MatchSet
      /\ \A z \in x.rest : \E o \in S : Like(z, o)
      /\ x.post = TRUE /\ x.base > 0 => Beyond(x.rest, side, price, now)
  <2>1. x = Match(side, type, price, base, quote, limit, allowed, a, book[m][invert_side(side)], now) OBVIOUS
  <2>2. \A o \in book[m][invert_side(side)] : o.price <= P BY <1>7
  <2> HIDE DEF x, price, allowed
  <2> QED BY <1>1, <1>4, <1>6, <1>7, <2>1, <2>2, HaltedAll
<1> HIDE DEF x, price
<1>9. x.post \in BOOLEAN /\ x.base \in Nat /\ x.quote \in Nat BY <1>8 DEF MatchSet
<1>10. ASSUME taken.resting > 0 PROVE Beyond(taken.rest, side, taken.price, now)
  <2>1. x.post = TRUE /\ price > 0 /\ taken.resting = Min({x.base, x.quote \div price}) BY <1>3, <1>9, <1>10
  <2> DEFINE k == x.quote \div price
             l == x.base
  <2>2. k \in Int /\ l \in Int BY <1>6, <1>9, <2>1
  <2>3. Min({l, k}) > 0 BY <1>10, <2>1
  <2> HIDE DEF k, l
  <2>4. Min({l, k}) <= l /\ Min({l, k}) \in Int BY <2>2, MinTwo
  <2>5. l > 0 BY <2>2, <2>3, <2>4
  <2>6. x.base > 0 BY <2>5 DEF l
  <2> QED BY <1>3, <1>8, <2>1, <2>6
<1> QED BY <1>3, <1>8, <1>10

(* Two sides are clear of each other: no two valid orders cross. *)
Clear(side, S, T, t) == \A p \in S, q \in T : is_valid(p, t) /\ is_valid(q, t) => OutOfReach(side, p.price, q.price)

Uncrossed(bk, t) == Clear("bid", bk["bid"], bk["ask"], t)

(* It does not matter from which side one looks.                           *)
LEMMA ClearEither ==
  ASSUME NEW bk, NEW t, NEW side \in Sides
  PROVE  Uncrossed(bk, t) <=> Clear(side, bk[side], bk[invert_side(side)], t)
<1>1. CASE side = "bid" BY <1>1 DEF Uncrossed, invert_side
<1>2. CASE side = "ask" BY <1>2 DEF Uncrossed, invert_side, Clear, OutOfReach
<1> QED BY <1>1, <1>2 DEF Sides

(* What BookNotCrossed says of each market.                                *)
LEMMA NotCrossed == BookNotCrossed <=> \A m \in Markets : Uncrossed(book[m], now)
BY DEF BookNotCrossed, Uncrossed, Clear, OutOfReach, Valid

(* An order that is valid later is valid now: fewer orders cross later.    *)
LEMMA UncrossedLater ==
  ASSUME NEW m \in Markets, NEW bk, NEW b2, NEW t \in Int, NEW t2 \in Int, t <= t2, Uncrossed(bk, t), Smaller(bk, b2),
         \A d \in Sides : \A o \in bk[d] : o.expiry \in Int
  PROVE  Uncrossed(b2, t2)
<1> SUFFICES ASSUME NEW p \in b2["bid"], NEW q \in b2["ask"], is_valid(p, t2), is_valid(q, t2)
             PROVE  OutOfReach("bid", p.price, q.price)
  BY DEF Uncrossed, Clear
<1>1. p \in bk["bid"] /\ q \in bk["ask"] BY DEF Smaller, Sides
<1>2. p.expiry \in Int /\ q.expiry \in Int BY <1>1 DEF Sides
<1>3. is_valid(p, t) BY <1>2 DEF is_valid
<1>4. is_valid(q, t) BY <1>2 DEF is_valid
<1> QED BY <1>1, <1>3, <1>4 DEF Uncrossed, Clear

(* A new order leaves no crossed orders.                                   *)
LEMMA PlacedUncrossed ==
  ASSUME Inv, Priced, QuotesCover, BookNotCrossed, NEW a \in Accounts, NEW m \in Markets, NewOrders(a, m)
  PROVE  BookNotCrossed'
<1>d. PICK side \in Sides, price0 \in OrderPrices, base \in Nat, quote \in Quotes :
        \E type : Sized(base) /\ NewOrderFor(a, m, side, price0, base, quote, type)
  BY DEF NewOrders
<1>2. PICK type : Sized(base) /\ NewOrderFor(a, m, side, price0, base, quote, type) BY <1>d
<1>b. PICK expiry \in Int, limit \in Int, cid \in ClientIds : \E oracle, ref :
        NewOrderOf(a, m, side, price0, base, quote, type, expiry, limit, cid, oracle, ref)
  BY <1>2 DEF NewOrderFor
<1>3. PICK oracle, ref :
        NewOrderOf(a, m, side, price0, base, quote, type, expiry, limit, cid, oracle, ref)
  BY <1>b
<1> DEFINE taken == Matching(a, m, side, price0, base, quote, type, limit, oracle)
           o == OrderOf(a, m, taken, expiry)
           opp == invert_side(side)
           b2 == book'[m]
<1>4. Halls /\ now' = now /\ base > 0 BY <1>3 DEF Inv, NewOrderOf
<1>5. PlacedIn(a, m, side, taken, expiry, cid, ref)
  <2>1. new_order(a, m, side, price0, base, quote, type, expiry, limit, cid, oracle, ref) BY <1>3 DEF NewOrderOf
  <2> QED BY <1>4, <2>1, NewOrderParts
<1>6. /\ \A z \in taken.rest : \E y \in book[m][opp] : Like(z, y)
      /\ taken.resting > 0 => Beyond(taken.rest, side, taken.price, now)
  <2> HIDE DEF taken
  <2>1. taken = Matching(a, m, side, price0, base, quote, type, limit, oracle) BY DEF taken
  <2> QED BY <1>2, <1>4, <2>1, MatchingClears
<1>7. o.price = taken.price BY DEF OrderOf
<1> HIDE DEF taken, o
<1>8. /\ b2[opp] = taken.rest
      /\ \A p \in b2[side] : p \in book[m][side] \/ (taken.resting > 0 /\ p = o)
      /\ \A n \in Markets : n # m => book'[n] = book[n]
  <2> DEFINE D == Dropped(taken.resting, side, book[m][side])
             B == Booted(taken.resting, side, book[m][side] \ D)
             own == ((book[m][side] \ D) \ B) \cup (IF taken.resting > 0 THEN {o} ELSE {})
  <2>1. book' = [book EXCEPT ![m] = [book[m] EXCEPT ![opp] = taken.rest, ![side] = own]] BY <1>5 DEF PlacedIn, o
  <2>2. \A p \in own : p \in book[m][side] \/ (taken.resting > 0 /\ p = o) OBVIOUS
  <2> HIDE DEF own
  <2>3. DOMAIN book[m] = Sides /\ book \in [Markets -> Books] BY <1>4 DEF Halls, Books
  <2>4. opp \in Sides /\ opp # side BY Inverse2
  <2>5. b2[opp] = taken.rest /\ b2[side] = own BY <2>1, <2>3, <2>4
  <2>6. \A n \in Markets : n # m => book'[n] = book[n] BY <2>1, <2>3
  <2> QED BY <2>2, <2>5, <2>6
<1> HIDE DEF b2
<1>9. Clear(side, b2[side], b2[opp], now)
  <2> SUFFICES ASSUME NEW p \in b2[side], NEW q \in taken.rest, is_valid(p, now), is_valid(q, now)
               PROVE  OutOfReach(side, p.price, q.price)
    BY <1>8 DEF Clear
  <2>1. CASE taken.resting > 0 /\ p = o
    <3>1. OutOfReach(side, taken.price, q.price) BY <1>6, <2>1 DEF Beyond
    <3> QED BY <1>7, <2>1, <3>1
  <2>2. CASE p \in book[m][side]
    <3>1. PICK y \in book[m][opp] : Like(q, y) BY <1>6
    <3>2. is_valid(y, now) BY <3>1 DEF Like, is_valid
    <3>3. Uncrossed(book[m], now) BY NotCrossed
    <3>4. Clear(side, book[m][side], book[m][opp], now) BY <3>3, ClearEither
    <3>5. OutOfReach(side, p.price, y.price) BY <2>2, <3>2, <3>4 DEF Clear
    <3> QED BY <3>1, <3>5 DEF Like
  <2> QED BY <1>8, <2>1, <2>2
<1>10. Uncrossed(b2, now) BY <1>9, ClearEither
<1>11. ASSUME NEW n \in Markets PROVE Uncrossed(book'[n], now')
  <2>1. CASE n = m BY <1>4, <1>10, <2>1 DEF b2
  <2>2. CASE n # m
    <3>1. Uncrossed(book[n], now) BY NotCrossed
    <3> QED BY <1>4, <1>8, <2>2, <3>1
  <2> QED BY <2>1, <2>2
<1>12. BookNotCrossed' <=> \A n \in Markets : Uncrossed(book'[n], now')
  BY DEF BookNotCrossed, Uncrossed, Clear, OutOfReach, Valid
<1> QED BY <1>11, <1>12

(* Every step keeps the orders uncrossed.                                  *)
LEMMA MovesUncrossed ==
  ASSUME Inv, Priced, QuotesCover, BookNotCrossed, Moves, now' \in Int
  PROVE  BookNotCrossed'
<1>0. Halls /\ now \in Int BY DEF Inv
<1>1. CASE \E a \in Accounts, m \in Markets : NewOrders(a, m) BY <1>1, PlacedUncrossed
<1>2. ASSUME now <= now', \A m \in Markets : Smaller(book[m], book'[m]) PROVE BookNotCrossed'
  <2>1. ASSUME NEW m \in Markets PROVE Uncrossed(book'[m], now')
    <3>1. Uncrossed(book[m], now) BY NotCrossed
    <3>2. \A d \in Sides : \A o \in book[m][d] : o.expiry \in Int BY <1>0 DEF Halls, Books, OrderSet
    <3>3. Smaller(book[m], book'[m]) BY <1>2
    <3> QED BY <1>0, <1>2, <3>1, <3>2, <3>3, UncrossedLater
  <2>2. BookNotCrossed' <=> \A n \in Markets : Uncrossed(book'[n], now')
    BY DEF BookNotCrossed, Uncrossed, Clear, OutOfReach, Valid
  <2> QED BY <2>1, <2>2
<1>3. ASSUME NEW m \in Markets, NEW w, Commit(m, w), Smaller(book[m], w.book), now' = now PROVE BookNotCrossed'
  <2>1. book' = [book EXCEPT ![m] = w.book] BY <1>3 DEF Commit
  <2>2. ASSUME NEW n \in Markets PROVE Smaller(book[n], book'[n])
    <3>1. CASE n = m
      <4>1. book'[n] = w.book BY <1>0, <2>1, <3>1 DEF Halls
      <4> QED BY <1>3, <3>1, <4>1
    <3>2. CASE n # m
      <4>1. book'[n] = book[n] BY <1>0, <2>1, <3>2 DEF Halls
      <4> QED BY <4>1 DEF Smaller
    <3> QED BY <3>1, <3>2
  <2>3. now <= now' BY <1>0, <1>3
  <2> QED BY <1>2, <2>2, <2>3
<1>4. CASE \E a \in Accounts, m \in Markets : Cancels(a, m)
  <2>1. PICK a \in Accounts, m \in Markets : Cancels(a, m) BY <1>4
  <2>2. PICK w : CancelsTo(a, m, w) BY <2>1 DEF Cancels
  <2>3. Work(m).book = book[m] BY DEF Work
  <2>4. Commit(m, w) /\ Smaller(book[m], w.book) /\ now' = now BY <2>2, <2>3 DEF CancelsTo, Cancelled
  <2> QED BY <1>3, <2>4
<1>5. CASE \E m \in Markets : \E n, w : CranksTo(m, n, w)
  <2>a. PICK m \in Markets : \E n, w : CranksTo(m, n, w) BY <1>5
  <2>1. PICK n, w : CranksTo(m, n, w) BY <2>a
  <2>3. Work(m).book = book[m] BY DEF Work
  <2>4. Commit(m, w) /\ w.book = book[m] /\ now' = now BY <2>1, <2>3 DEF CranksTo, Reached
  <2>5. Smaller(book[m], w.book) BY <2>4 DEF Smaller
  <2> QED BY <1>3, <2>4, <2>5
<1>6. CASE MovesNothing
  <2>1. book' = book /\ now <= now' BY <1>6 DEF MovesNothing
  <2>2. \A m \in Markets : Smaller(book[m], book'[m]) BY <2>1 DEF Smaller
  <2> QED BY <1>2, <2>1, <2>2
<1> QED BY <1>1, <1>4, <1>5, <1>6 DEF Moves

(* The book is never crossed, as long as no quote limit binds: whatever    *)
(* still rests of an order has traded with everything in its reach.  That  *)
(* no limit binds is needed: an ask whose quote runs out rests below a bid *)
(* that it reaches (the run ask_crosses).                                  *)
THEOREM BooksNeverCross ==
  QuotesCover => (Spec => []BookNotCrossed) /\ (AdvancedSpec => []BookNotCrossed)
<1> SUFFICES ASSUME QuotesCover PROVE (Spec => []BookNotCrossed) /\ (AdvancedSpec => []BookNotCrossed) OBVIOUS
<1>1. Init => BookNotCrossed
  <2> SUFFICES ASSUME Init, NEW m \in Markets PROVE Uncrossed(book[m], now) BY NotCrossed
  <2>1. book[m]["bid"] = {} BY DEF Init, Sides
  <2> QED BY <2>1 DEF Uncrossed, Clear
<1>2. Inv /\ Inv' /\ Priced /\ BookNotCrossed /\ [Next]_vars => BookNotCrossed'
  <2> SUFFICES ASSUME Inv, Inv', Priced, BookNotCrossed, [Next]_vars PROVE BookNotCrossed' OBVIOUS
  <2>1. now' \in Int BY DEF Inv
  <2> QED BY <2>1, NextMoves, MovesUncrossed
<1>3. AdvancedInv /\ AdvancedInv' /\ Priced /\ BookNotCrossed /\ [AdvancedNext]_advancedVars => BookNotCrossed'
  <2> SUFFICES ASSUME AdvancedInv, AdvancedInv', Priced, BookNotCrossed, [AdvancedNext]_advancedVars
               PROVE  BookNotCrossed'
    OBVIOUS
  <2>1. now' \in Int /\ Inv BY DEF Inv, AdvancedInv
  <2> QED BY <2>1, AdvancedMoves, MovesUncrossed
<1>4. AdvancedInit => BookNotCrossed BY <1>1 DEF AdvancedInit
<1>5. Spec => []BookNotCrossed BY <1>1, <1>2, MarketsInv, AlwaysPriced, PTL DEF Spec
<1>6. AdvancedSpec => []BookNotCrossed BY <1>3, <1>4, AlwaysPriced, PTL DEF AdvancedSpec
<1> QED BY <1>5, <1>6
=============================================================================
