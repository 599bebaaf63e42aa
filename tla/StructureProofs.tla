-------------------------- MODULE StructureProofs --------------------------
(***************************************************************************)
(* Proofs about the data structures the markets rest on: the ring buffer   *)
(* of the event queue (EventQueue), the order slots of accounts            *)
(* (OrderLedger) and the crit-bit tree of an order book side (BookSide),   *)
(* for all sizes.                                                          *)
(***************************************************************************)
EXTENDS EventQueue, OrderLedger, BookSide, Sums, SequenceTheorems, TLAPS

-----------------------------------------------------------------------------
(***************************************************************************)
(* The event queue: the ring buffer's header stays in range, a reader      *)
(* never sees an unwritten slot, and the ring buffer implements the        *)
(* bounded FIFO.                                                           *)
(***************************************************************************)

(* Reduction of an index that has run at most once past the end of the     *)
(* buffer.                                                                 *)
LEMMA ModSum ==
  ASSUME NEW c \in Nat \ {0}, NEW x \in 0 .. c - 1, NEW y \in 0 .. c
  PROVE  (x + y) % c = IF x + y < c THEN x + y ELSE x + y - c
<1>1. CASE x + y < c
  BY <1>1
<1>2. CASE x + y >= c
  BY <1>2
<1> QED BY <1>1, <1>2

(* A remainder is a valid index. *)
LEMMA ModRange ==
  ASSUME NEW c \in Nat \ {0}, NEW x \in Int
  PROVE  x % c \in 0 .. c - 1
  OBVIOUS

(* Type invariant of Queue: head indexes the buffer and count never        *)
(* exceeds its length, whatever is pushed, popped and reverted.            *)
THEOREM QueueTypeCorrect == Spec => []TypeOK
<1>1. Init => TypeOK
  BY CapAssumption, SeqModulusAssumption DEF Init, TypeOK, BufSlots
<1>2. TypeOK /\ [Next]_vars => TypeOK'
  <2> SUFFICES ASSUME TypeOK, [Next]_vars PROVE TypeOK'
    OBVIOUS
  <2> USE CapAssumption, SeqModulusAssumption
  <2>1. ASSUME NEW v \in Items, push_back(v) PROVE TypeOK'
    <3>1. seq_num' \in 0 .. SeqModulus - 1
      BY <2>1, ModRange DEF push_back, TypeOK
    <3>2. buf' \in [BufSlots -> Items \cup {Zero}]
      BY <2>1 DEF push_back, TypeOK
    <3>3. head' \in BufSlots /\ count' \in 0..Cap
      BY <2>1 DEF push_back, full, TypeOK
    <3> QED BY <3>1, <3>2, <3>3 DEF TypeOK
  <2>2. ASSUME pop_front PROVE TypeOK'
    <3>1. head' \in BufSlots
      BY <2>2, ModRange DEF pop_front, TypeOK, BufSlots
    <3> QED BY <2>2, <3>1 DEF pop_front, empty, TypeOK
  <2>3. ASSUME NEW n \in 0..Cap, revert_pushes(n) PROVE TypeOK'
    <3>1. seq_num' \in 0 .. SeqModulus - 1
      BY <2>3, ModRange DEF revert_pushes, TypeOK
    <3> QED BY <2>3, <3>1 DEF revert_pushes, TypeOK
  <2>4. CASE UNCHANGED vars
    BY <2>4 DEF vars, TypeOK
  <2> QED BY <2>1, <2>2, <2>3, <2>4 DEF Next
<1> QED BY <1>1, <1>2, PTL DEF Spec

-----------------------------------------------------------------------------
(***************************************************************************)
(* How each operation changes what the iterator yields.                    *)
(***************************************************************************)

(* Wrapping around the buffer, spelled out. *)
LEMMA SlotAtCases ==
  ASSUME TypeOK, NEW i \in Nat, i <= Cap
  PROVE  /\ SlotAt(i) = IF head + i < Cap THEN head + i ELSE head + i - Cap
         /\ SlotAt(i) \in BufSlots
<1>1. head \in 0 .. Cap - 1 /\ i \in 0 .. Cap
  BY CapAssumption DEF TypeOK, BufSlots
<1>2. (head + i) % Cap = IF head + i < Cap THEN head + i ELSE head + i - Cap
  BY <1>1, ModSum, CapAssumption
<1> QED BY <1>1, <1>2, CapAssumption DEF SlotAt, BufSlots

(* Two events of the queue never share a slot. *)
LEMMA SlotsDistinct ==
  ASSUME TypeOK, NEW i \in Nat, NEW j \in Nat, i < j, j < Cap
  PROVE  SlotAt(i) # SlotAt(j)
<1>1. SlotAt(i) = IF head + i < Cap THEN head + i ELSE head + i - Cap
  BY SlotAtCases, CapAssumption
<1>2. SlotAt(j) = IF head + j < Cap THEN head + j ELSE head + j - Cap
  BY SlotAtCases, CapAssumption
<1> QED BY <1>1, <1>2, CapAssumption DEF TypeOK, BufSlots

(* The iterator yields count values. *)
LEMMA IterIsSeq ==
  ASSUME TypeOK
  PROVE  /\ iter \in Seq(Items \cup {Zero})
         /\ Len(iter) = count
         /\ \A i \in 1..count : iter[i] = buf[SlotAt(i - 1)]
<1>1. \A i \in 1..count : SlotAt(i - 1) \in BufSlots
  BY SlotAtCases, CapAssumption DEF TypeOK
<1> QED BY <1>1 DEF iter, TypeOK

LEMMA IterPush ==
  ASSUME TypeOK, TypeOK', NEW v \in Items, push_back(v)
  PROVE  iter' = Append(iter, v)
<1> DEFINE S == Items \cup {Zero}
<1>1. /\ iter \in Seq(S) /\ Len(iter) = count
      /\ \A i \in 1..count : iter[i] = buf[SlotAt(i - 1)]
  BY IterIsSeq
<1>2. iter' = [i \in 1 .. count + 1 |-> buf'[SlotAt(i - 1)]]
  BY DEF iter, push_back, SlotAt
<1>3. \A i \in 1..count : SlotAt(i - 1) \in BufSlots /\ SlotAt(i - 1) # SlotAt(count)
  <2> TAKE i \in 1..count
  <2>1. i - 1 \in Nat /\ i - 1 < count /\ count < Cap
    BY CapAssumption DEF push_back, full, TypeOK
  <2> QED BY <2>1, SlotAtCases, SlotsDistinct, CapAssumption DEF TypeOK
<1>4. SlotAt(count) \in BufSlots
  BY SlotAtCases, CapAssumption DEF TypeOK
<1>5. \A i \in 1..count : iter'[i] = iter[i]
  BY <1>1, <1>2, <1>3 DEF push_back, TypeOK
<1>6. iter'[count + 1] = v
  BY <1>2, <1>4 DEF push_back, TypeOK
<1>7. iter' \in Seq(S) /\ Len(iter') = count + 1
  <2>1. \A i \in 1 .. count + 1 : iter'[i] \in S
    BY <1>1, <1>5, <1>6 DEF TypeOK
  <2> QED BY <1>2, <2>1 DEF TypeOK
<1>8. /\ Append(iter, v) \in Seq(S) /\ Len(Append(iter, v)) = count + 1
      /\ \A i \in 1..count : Append(iter, v)[i] = iter[i]
      /\ Append(iter, v)[count + 1] = v
  BY <1>1
<1>9. \A i \in 1 .. count + 1 : iter'[i] = Append(iter, v)[i]
  BY <1>5, <1>6, <1>8 DEF TypeOK
<1> HIDE DEF S
<1> QED BY <1>7, <1>8, <1>9, SeqEqual

LEMMA IterPop ==
  ASSUME TypeOK, TypeOK', pop_front
  PROVE  iter # <<>> /\ iter' = Tail(iter)
<1> DEFINE S == Items \cup {Zero}
<1>1. /\ iter \in Seq(S) /\ Len(iter) = count
      /\ \A i \in 1..count : iter[i] = buf[SlotAt(i - 1)]
  BY IterIsSeq
<1>2. iter # <<>>
  BY <1>1 DEF pop_front, empty, TypeOK
<1>3. iter' = [i \in 1 .. count - 1 |-> buf[(head' + (i - 1)) % Cap]]
  BY DEF iter, pop_front, SlotAt
<1>4. \A i \in 1 .. count - 1 : (head' + (i - 1)) % Cap = SlotAt(i)
  <2> TAKE i \in 1 .. count - 1
  <2>1. head' = IF head + 1 < Cap THEN head + 1 ELSE head + 1 - Cap
    BY SlotAtCases, CapAssumption DEF pop_front, SlotAt
  <2>2. SlotAt(i) = IF head + i < Cap THEN head + i ELSE head + i - Cap
    BY SlotAtCases, CapAssumption DEF TypeOK
  <2>3. (head' + (i - 1)) % Cap
          = IF head' + (i - 1) < Cap THEN head' + (i - 1) ELSE head' + (i - 1) - Cap
    <3>1. head' \in 0 .. Cap - 1 /\ i - 1 \in 0 .. Cap
      BY CapAssumption DEF TypeOK, BufSlots
    <3> QED BY <3>1, ModSum, CapAssumption
  <2> QED BY <2>1, <2>2, <2>3, CapAssumption DEF TypeOK, BufSlots
<1>5. \A i \in 1 .. count - 1 : iter'[i] = iter[i + 1]
  BY <1>1, <1>3, <1>4 DEF TypeOK
<1>6. iter' \in Seq(S) /\ Len(iter') = count - 1
  BY <1>1, <1>3, <1>5 DEF TypeOK, pop_front, empty
<1>7. /\ Tail(iter) \in Seq(S) /\ Len(Tail(iter)) = count - 1
      /\ \A i \in 1 .. count - 1 : Tail(iter)[i] = iter[i + 1]
  BY <1>1, <1>2, HeadTailProperties
<1>8. \A i \in 1 .. Len(iter') : iter'[i] = Tail(iter)[i]
  BY <1>5, <1>6, <1>7
<1> HIDE DEF S
<1> QED BY <1>2, <1>6, <1>7, <1>8, SeqEqual

LEMMA IterRevert ==
  ASSUME TypeOK, NEW n \in 0..Cap, revert_pushes(n)
  PROVE  Len(iter) = count /\ iter' = SubSeq(iter, 1, n)
<1>1. /\ iter \in Seq(Items \cup {Zero}) /\ Len(iter) = count
      /\ \A i \in 1..count : iter[i] = buf[SlotAt(i - 1)]
  BY IterIsSeq
<1>2. iter' = [i \in 1 .. n |-> buf[SlotAt(i - 1)]]
  BY DEF iter, revert_pushes, SlotAt
<1>3. SubSeq(iter, 1, n) = [i \in 1 .. n |-> iter[i]]
  BY <1>1 DEF revert_pushes, TypeOK
<1> QED BY <1>1, <1>2, <1>3 DEF revert_pushes, TypeOK

-----------------------------------------------------------------------------
(* peek_front and the iterator only ever return events that were pushed:   *)
(* a slot of zeroed account data is never read as an event.                *)
THEOREM QueueNoUnwrittenEvent == Spec => []NoUnwrittenEvent
<1>1. Init => NoUnwrittenEvent
  BY DEF Init, NoUnwrittenEvent
<1>2. TypeOK /\ TypeOK' /\ NoUnwrittenEvent /\ [Next]_vars => NoUnwrittenEvent'
  <2> SUFFICES ASSUME TypeOK, TypeOK', NoUnwrittenEvent, [Next]_vars
               PROVE  NoUnwrittenEvent'
    OBVIOUS
  <2>1. ASSUME NEW v \in Items, push_back(v) PROVE NoUnwrittenEvent'
    <3>1. iter' = Append(iter, v)
      BY <2>1, IterPush
    <3>2. iter \in Seq(Items \cup {Zero}) /\ Len(iter) = count
      BY IterIsSeq
    <3> QED BY <2>1, <3>1, <3>2 DEF NoUnwrittenEvent, push_back, TypeOK
  <2>2. ASSUME pop_front PROVE NoUnwrittenEvent'
    <3>1. iter # <<>> /\ iter' = Tail(iter)
      BY <2>2, IterPop
    <3>2. iter \in Seq(Items \cup {Zero}) /\ Len(iter) = count
      BY IterIsSeq
    <3>3. \A i \in 1 .. count - 1 : Tail(iter)[i] = iter[i + 1]
      BY <3>1, <3>2, HeadTailProperties
    <3>4. \A i \in 1 .. count - 1 : Tail(iter)[i] \in Items
      <4> TAKE i \in 1 .. count - 1
      <4>1. i + 1 \in 1..count
        BY DEF TypeOK
      <4> QED BY <3>3, <4>1 DEF NoUnwrittenEvent
    <3>5. count' = count - 1
      BY <2>2 DEF pop_front
    <3> QED BY <3>1, <3>4, <3>5 DEF NoUnwrittenEvent
  <2>3. ASSUME NEW n \in 0..Cap, revert_pushes(n) PROVE NoUnwrittenEvent'
    <3>1. iter' = SubSeq(iter, 1, n) /\ Len(iter) = count
      BY <2>3, IterRevert
    <3>2. iter \in Seq(Items \cup {Zero})
      BY IterIsSeq
    <3> QED BY <2>3, <3>1, <3>2 DEF NoUnwrittenEvent, revert_pushes, TypeOK
  <2>4. CASE UNCHANGED vars
    BY <2>4 DEF vars, NoUnwrittenEvent, iter, SlotAt
  <2> QED BY <2>1, <2>2, <2>3, <2>4 DEF Next
<1> QED BY <1>1, <1>2, QueueTypeCorrect, PTL DEF Spec

(* The ring buffer of queue.rs implements the bounded FIFO for every       *)
(* buffer length: whatever the position of head, wrapping never reorders,  *)
(* loses or duplicates an event.                                           *)
THEOREM QueueImplementsFifo == Spec => ImplementsFifo
<1>1. Init => Fifo!FifoInit
  BY DEF Init, Fifo!FifoInit, iter
<1>2. TypeOK /\ TypeOK' /\ [Next]_vars => [Fifo!FifoNext]_(Fifo!fifoVars)
  <2> SUFFICES ASSUME TypeOK, TypeOK', [Next]_vars
               PROVE  [Fifo!FifoNext]_(Fifo!fifoVars)
    OBVIOUS
  <2>1. ASSUME NEW v \in Items, push_back(v) PROVE Fifo!Push(v)
    <3>1. iter' = Append(iter, v)
      BY <2>1, IterPush
    <3>2. Len(iter) = count
      BY IterIsSeq
    <3> QED BY <2>1, <3>1, <3>2, CapAssumption DEF Fifo!Push, push_back, full, TypeOK
  <2>2. ASSUME pop_front PROVE Fifo!Pop
    BY <2>2, IterPop DEF Fifo!Pop, pop_front
  <2>3. ASSUME NEW n \in 0..Cap, revert_pushes(n) PROVE Fifo!Truncate(n)
    BY <2>3, IterRevert DEF Fifo!Truncate, revert_pushes
  <2>4. CASE UNCHANGED vars
    BY <2>4 DEF vars, Fifo!fifoVars, iter, SlotAt
  <2> QED BY <2>1, <2>2, <2>3, <2>4 DEF Next, Fifo!FifoNext
<1> QED BY <1>1, <1>2, QueueTypeCorrect, PTL DEF Spec, ImplementsFifo, Fifo!FifoSpec

-----------------------------------------------------------------------------
(***************************************************************************)
(* The order ledger: SlotDiscipline is an invariant, and with the type     *)
(* invariant it is inductive: each of its five parts is needed for         *)
(* another one.                                                            *)
(***************************************************************************)

IInv == LedgerTypeOK /\ SlotDiscipline

(* The orders a trade takes off the book, as a sequence, and the events    *)
(* pushed for them.                                                        *)
LEMMA EventsAt ==
  ASSUME NEW S \in SUBSET Order, NEW k \in Nat, NEW out \in [1..k -> S]
  PROVE  \A i \in 1..k : Events(out)[i] = out[i].place
BY SeqDef DEF Events

LEMMA OutIsSeq ==
  ASSUME NEW S \in SUBSET Order, NEW k \in Nat, NEW out \in [1..k -> S]
  PROVE  /\ Len(out) = k
         /\ DOMAIN out = 1..k
         /\ Events(out) \in Seq(Place)
         /\ Len(Events(out)) = k
<1>1. Len(out) = k /\ DOMAIN out = 1..k
  BY SeqDef
<1>2. \A i \in 1..k : out[i].place \in Place
  BY DEF Order
<1>3. Events(out) \in [1..k -> Place]
  BY <1>1, <1>2 DEF Events
<1>4. Events(out) \in Seq(Place) /\ Len(Events(out)) = k
  BY <1>3, SeqDef
<1>5. QED
  BY <1>1, <1>4

LEMMA Concatenation ==
  ASSUME NEW S, NEW s \in Seq(S), NEW t \in Seq(S), NEW k \in Nat, Len(t) = k
  PROVE  /\ s \o t \in Seq(S)
         /\ Len(s) \in Nat
         /\ Len(s \o t) = Len(s) + k
         /\ \A i \in 1..Len(s) : (s \o t)[i] = s[i]
         /\ \A i \in 1..k : (s \o t)[Len(s) + i] = t[i]
OBVIOUS

(* The queue after a trade: the old entries, then one for each order. *)
LEMMA QueueAfterTrade ==
  ASSUME LedgerTypeOK, NEW m \in Markets, NEW k \in Nat, NEW out \in [1..k -> resting[m]],
         leaving' = [leaving EXCEPT ![m] = @ \o Events(out)]
  PROVE  /\ leaving' \in [Markets -> Seq(Place)]
         /\ \A x \in Markets \ {m} : leaving'[x] = leaving[x]
         /\ Len(leaving[m]) \in Nat
         /\ Len(leaving'[m]) = Len(leaving[m]) + k
         /\ \A i \in 1..Len(leaving[m]) : leaving'[m][i] = leaving[m][i]
         /\ \A i \in 1..k : leaving'[m][Len(leaving[m]) + i] = out[i].place
<1>1. resting[m] \in SUBSET Order /\ leaving[m] \in Seq(Place)
  BY DEF LedgerTypeOK
<1>2a. Events(out) \in Seq(Place) /\ Len(Events(out)) = k
  BY <1>1, OutIsSeq
<1>2b. \A i \in 1..k : Events(out)[i] = out[i].place
  BY <1>1, EventsAt
<1>3. leaving'[m] = leaving[m] \o Events(out)
  BY DEF LedgerTypeOK
<1>4. /\ leaving'[m] \in Seq(Place)
      /\ Len(leaving[m]) \in Nat
      /\ Len(leaving'[m]) = Len(leaving[m]) + k
      /\ \A i \in 1..Len(leaving[m]) : leaving'[m][i] = leaving[m][i]
      /\ \A i \in 1..k : leaving'[m][Len(leaving[m]) + i] = Events(out)[i]
  BY <1>1, <1>2a, <1>3, Concatenation
<1>5. leaving' \in [Markets -> Seq(Place)] /\ \A x \in Markets \ {m} : leaving'[x] = leaving[x]
  BY <1>3, <1>4 DEF LedgerTypeOK
<1>6. \A i \in 1..k : leaving'[m][Len(leaving[m]) + i] = out[i].place
  BY <1>2b, <1>4
<1>7. QED
  BY <1>4, <1>5, <1>6

(* What a trade leaves on the book of its market. *)
LEMMA BookAfterTrade ==
  ASSUME NEW S \in SUBSET Order, NEW k \in Nat, NEW out \in [1..k -> S]
  PROVE  /\ Remaining(S, out) \subseteq S
         /\ \A i \in 1..k : out[i] \in S /\ out[i] \notin Remaining(S, out)
         /\ \A o \in S \ Remaining(S, out) : \E i \in 1..k : out[i] = o
BY DEF Remaining

(* Orders of one book have different slots. *)
LEMMA RestingDistinct ==
  ASSUME IInv, NEW m \in Markets, NEW o \in resting[m], NEW q \in resting[m], o.place = q.place
  PROVE  o = q
<1>1. o \in Order /\ q \in Order
  BY DEF IInv, LedgerTypeOK
<1>2. [market |-> m, seq |-> o.seq] = [market |-> m, seq |-> q.seq]
  BY DEF IInv, SlotDiscipline, RestingHeld
<1>3. o.seq = q.seq
  BY <1>2
<1>4. QED
  BY <1>1, <1>3 DEF Order

(* The part of the invariant a trade keeps about the queue. *)
LEMMA TradeStep ==
  ASSUME IInv, NEW m \in Markets, NEW k \in 0..QueueCap, NEW out \in [1..k -> resting[m]],
         Trade(m, out)
  PROVE  /\ leaving' \in [Markets -> Seq(Place)]
         /\ next' \in [Markets -> Nat]
         /\ LeavingOnce'
         /\ \A i \in 1..Len(leaving'[m]) :
              \/ i \in 1..Len(leaving[m]) /\ leaving'[m][i] = leaving[m][i]
              \/ \E j \in 1..k : leaving'[m][i] = out[j].place
         /\ \A i \in 1..Len(leaving[m]) :
              i \in 1..Len(leaving'[m]) /\ leaving'[m][i] = leaving[m][i]
         /\ \A j \in 1..k : \E i \in 1..Len(leaving'[m]) : leaving'[m][i] = out[j].place
         /\ \A x \in Markets \ {m} : leaving'[x] = leaving[x]
<1>0. k \in Nat /\ resting[m] \in SUBSET Order /\ LedgerTypeOK
  BY BoundAssumption DEF IInv, LedgerTypeOK
<1>a. leaving' = [leaving EXCEPT ![m] = @ \o Events(out)]
  BY DEF Trade
<1>1. /\ leaving' \in [Markets -> Seq(Place)]
      /\ \A x \in Markets \ {m} : leaving'[x] = leaving[x]
      /\ Len(leaving[m]) \in Nat
      /\ Len(leaving'[m]) = Len(leaving[m]) + k
      /\ \A i \in 1..Len(leaving[m]) : leaving'[m][i] = leaving[m][i]
      /\ \A i \in 1..k : leaving'[m][Len(leaving[m]) + i] = out[i].place
  BY <1>0, <1>a, QueueAfterTrade, ZenonT(60)
<1>2. next' \in [Markets -> Nat]
  BY <1>0 DEF Trade, LedgerTypeOK
<1>3. ASSUME NEW i \in 1..Len(leaving'[m]), i \notin 1..Len(leaving[m])
      PROVE  i - Len(leaving[m]) \in 1..k /\ leaving'[m][i] = out[i - Len(leaving[m])].place
  <2>1. i - Len(leaving[m]) \in 1..k /\ Len(leaving[m]) + (i - Len(leaving[m])) = i
    BY <1>1, <1>3
  <2>2. QED
    BY <1>1, <2>1
<1>4. \A i \in 1..Len(leaving'[m]) :
        \/ i \in 1..Len(leaving[m]) /\ leaving'[m][i] = leaving[m][i]
        \/ \E j \in 1..k : leaving'[m][i] = out[j].place
  BY <1>1, <1>3
<1>5. \A i \in 1..Len(leaving[m]) :
        i \in 1..Len(leaving'[m]) /\ leaving'[m][i] = leaving[m][i]
  BY <1>0, <1>1
<1>6. ASSUME NEW j \in 1..k
      PROVE  \E i \in 1..Len(leaving'[m]) : leaving'[m][i] = out[j].place
  <2>1. Len(leaving[m]) + j \in 1..Len(leaving'[m])
    BY <1>0, <1>1
  <2>2. QED
    BY <1>1, <2>1
<1>7. LeavingOnce'
  <2>1. SUFFICES ASSUME NEW x \in Markets,
                        NEW i \in 1..Len(leaving'[x]), NEW j \in 1..Len(leaving'[x]),
                        leaving'[x][i] = leaving'[x][j]
                 PROVE  i = j
    BY DEF LeavingOnce
  <2>2. CASE x # m
    BY <1>1, <2>1, <2>2 DEF IInv, SlotDiscipline, LeavingOnce
  <2>3. CASE x = m /\ i \in 1..Len(leaving[m]) /\ j \in 1..Len(leaving[m])
    BY <1>5, <2>1, <2>3 DEF IInv, SlotDiscipline, LeavingOnce
  <2>4. ASSUME NEW h \in 1..Len(leaving[m]), NEW n \in 1..k
        PROVE  leaving[m][h] # out[n].place
    BY DEF IInv, SlotDiscipline, LeavingLeft
  <2>5. CASE x = m /\ i \in 1..Len(leaving[m]) /\ j \notin 1..Len(leaving[m])
    BY <1>3, <1>5, <2>1, <2>4, <2>5
  <2>6. CASE x = m /\ i \notin 1..Len(leaving[m]) /\ j \in 1..Len(leaving[m])
    BY <1>3, <1>5, <2>1, <2>4, <2>6
  <2>7. CASE x = m /\ i \notin 1..Len(leaving[m]) /\ j \notin 1..Len(leaving[m])
    <3> DEFINE u == i - Len(leaving[m])
               v == j - Len(leaving[m])
    <3>1. u \in 1..k /\ v \in 1..k /\ out[u].place = out[v].place
      BY <1>3, <2>1, <2>7
    <3>2. out[u] = out[v]
      <4>1. out[u] \in resting[m] /\ out[v] \in resting[m]
        BY <3>1
      <4>2. QED
        BY <3>1, <4>1, RestingDistinct
    <3>3. Len(out) = k
      BY <1>0, OutIsSeq
    <3>4. u = v
      BY <3>1, <3>2, <3>3 DEF Trade
    <3>5. QED
      BY <1>1, <3>4, <2>7
  <2>8. QED
    BY <2>2, <2>3, <2>5, <2>6, <2>7
<1>8. QED
  BY <1>1, <1>2, <1>4, <1>5, <1>6, <1>7

(* The slot of a resting order is occupied. *)
LEMMA RestingOccupied ==
  ASSUME IInv, NEW m \in Markets, NEW o \in resting[m]
  PROVE  holds[o.place] # Free /\ holds[o.place].market = m /\ o.place \in Place
<1>1. o.seq \in Nat /\ o.place \in Place
  BY DEF IInv, LedgerTypeOK, Order
<1>2. holds[o.place] = [market |-> m, seq |-> o.seq]
  BY DEF IInv, SlotDiscipline, RestingHeld
<1>3. [market |-> m, seq |-> o.seq] \in [market : Markets, seq : Nat]
  BY <1>1
<1>4. QED
  BY <1>1, <1>2, <1>3, FreeAssumption

LEMMA TakeStep ==
  ASSUME IInv, NEW m \in Markets, NEW k \in 0..QueueCap, NEW out \in [1..k -> resting[m]],
         Take(m, out)
  PROVE  IInv'
<1>0. k \in Nat /\ resting[m] \in SUBSET Order
  BY BoundAssumption DEF IInv, LedgerTypeOK
<1>1. /\ leaving' \in [Markets -> Seq(Place)]
      /\ next' \in [Markets -> Nat]
      /\ LeavingOnce'
      /\ \A i \in 1..Len(leaving'[m]) :
           \/ i \in 1..Len(leaving[m]) /\ leaving'[m][i] = leaving[m][i]
           \/ \E j \in 1..k : leaving'[m][i] = out[j].place
      /\ \A i \in 1..Len(leaving[m]) :
           i \in 1..Len(leaving'[m]) /\ leaving'[m][i] = leaving[m][i]
      /\ \A j \in 1..k : \E i \in 1..Len(leaving'[m]) : leaving'[m][i] = out[j].place
      /\ \A x \in Markets \ {m} : leaving'[x] = leaving[x]
  <2>1. Trade(m, out)
    BY DEF Take
  <2>2. QED
    BY <2>1, TradeStep, Zenon
<1>2. /\ Remaining(resting[m], out) \subseteq resting[m]
      /\ \A i \in 1..k : out[i] \in resting[m] /\ out[i] \notin Remaining(resting[m], out)
      /\ \A o \in resting[m] \ Remaining(resting[m], out) : \E i \in 1..k : out[i] = o
  BY <1>0, BookAfterTrade
<1>3. /\ holds' = holds
      /\ resting'[m] = Remaining(resting[m], out)
      /\ \A x \in Markets \ {m} : resting'[x] = resting[x]
  BY DEF Take, IInv, LedgerTypeOK
<1>4. LedgerTypeOK'
  <2>1. resting' \in [Markets -> SUBSET Order]
    BY <1>0, <1>2 DEF Take, IInv, LedgerTypeOK
  <2>2. QED
    BY <1>1, <1>3, <2>1 DEF IInv, LedgerTypeOK
<1>5. RestingHeld'
  <2>1. SUFFICES ASSUME NEW x \in Markets, NEW o \in resting'[x]
                 PROVE  holds[o.place] = [market |-> x, seq |-> o.seq]
    BY <1>3 DEF RestingHeld
  <2>2. o \in resting[x]
    BY <1>2, <1>3
  <2>3. QED
    BY <2>2 DEF IInv, SlotDiscipline, RestingHeld
<1>6. LeavingHeld'
  <2>1. SUFFICES ASSUME NEW x \in Markets, NEW i \in 1..Len(leaving'[x])
                 PROVE  holds[leaving'[x][i]] # Free /\ holds[leaving'[x][i]].market = x
    BY <1>3 DEF LeavingHeld
  <2>2. CASE x # m \/ (i \in 1..Len(leaving[m]) /\ leaving'[m][i] = leaving[m][i])
    BY <1>1, <2>2 DEF IInv, SlotDiscipline, LeavingHeld
  <2>3. ASSUME NEW j \in 1..k, x = m, leaving'[m][i] = out[j].place
        PROVE  holds[leaving'[x][i]] # Free /\ holds[leaving'[x][i]].market = x
    <3>1. out[j] \in resting[m]
      OBVIOUS
    <3>2. holds[out[j].place] # Free /\ holds[out[j].place].market = m
      BY <3>1, RestingOccupied
    <3>3. QED
      BY <2>3, <3>2
  <2>4. QED
    BY <1>1, <2>2, <2>3
<1>7. LeavingLeft'
  <2>1. SUFFICES ASSUME NEW x \in Markets, NEW i \in 1..Len(leaving'[x]), NEW o \in resting'[x]
                 PROVE  leaving'[x][i] # o.place
    BY DEF LeavingLeft
  <2>2. o \in resting[x]
    BY <1>2, <1>3
  <2>3. CASE x # m \/ (i \in 1..Len(leaving[m]) /\ leaving'[m][i] = leaving[m][i])
    <3>1. i \in 1..Len(leaving[x]) /\ leaving'[x][i] = leaving[x][i]
      BY <1>1, <2>3
    <3>2. QED
      BY <2>2, <3>1 DEF IInv, SlotDiscipline, LeavingLeft
  <2>4. ASSUME NEW j \in 1..k, x = m, leaving'[m][i] = out[j].place
        PROVE  leaving'[x][i] # o.place
    <3>1. out[j] \in resting[m] /\ out[j] # o
      BY <1>2, <1>3, <2>4
    <3>2. out[j].place # o.place
      BY <2>2, <2>4, <3>1, RestingDistinct
    <3>3. QED
      BY <2>4, <3>2
  <2>5. QED
    BY <1>1, <2>3, <2>4
<1>8. NoLeak'
  <2>1. SUFFICES ASSUME NEW p \in Place, holds[p] # Free
                 PROVE  LET x == holds[p].market
                        IN  \/ \E o \in resting'[x] : o.place = p
                            \/ \E i \in 1..Len(leaving'[x]) : leaving'[x][i] = p
    BY <1>3 DEF NoLeak
  <2> DEFINE x == holds[p].market
  <2>2. x \in Markets
    BY <2>1 DEF IInv, LedgerTypeOK
  <2>3. CASE \E i \in 1..Len(leaving[x]) : leaving[x][i] = p
    BY <1>1, <2>2, <2>3
  <2>4. ASSUME NEW o \in resting[x], o.place = p
        PROVE  \/ \E q \in resting'[x] : q.place = p
               \/ \E i \in 1..Len(leaving'[x]) : leaving'[x][i] = p
    <3>1. CASE o \in resting'[x]
      BY <2>4, <3>1
    <3>2. CASE o \notin resting'[x]
      <4>1. x = m /\ o \in resting[m] \ Remaining(resting[m], out)
        BY <1>3, <2>2, <3>2
      <4>2. PICK j \in 1..k : out[j] = o
        BY <1>2, <4>1
      <4>3. \E i \in 1..Len(leaving'[m]) : leaving'[m][i] = p
        BY <1>1, <2>4, <4>2
      <4>4. QED
        BY <4>1, <4>3
    <3>3. QED
      BY <3>1, <3>2
  <2>5. QED
    BY <2>1, <2>3, <2>4 DEF IInv, SlotDiscipline, NoLeak
<1>9. QED
  BY <1>1, <1>4, <1>5, <1>6, <1>7, <1>8 DEF IInv, SlotDiscipline

LEMMA PostStep ==
  ASSUME IInv, NEW m \in Markets, NEW k \in 0..QueueCap, NEW out \in [1..k -> resting[m]],
         NEW p \in Place, Post(p, m, out)
  PROVE  IInv'
<1> DEFINE new == [seq |-> next[m] + 1, place |-> p]
<1>0. k \in Nat /\ resting[m] \in SUBSET Order /\ next[m] \in Nat /\ new \in Order
  BY BoundAssumption DEF IInv, LedgerTypeOK, Order
<1>1. /\ leaving' \in [Markets -> Seq(Place)]
      /\ next' \in [Markets -> Nat]
      /\ LeavingOnce'
      /\ \A i \in 1..Len(leaving'[m]) :
           \/ i \in 1..Len(leaving[m]) /\ leaving'[m][i] = leaving[m][i]
           \/ \E j \in 1..k : leaving'[m][i] = out[j].place
      /\ \A i \in 1..Len(leaving[m]) :
           i \in 1..Len(leaving'[m]) /\ leaving'[m][i] = leaving[m][i]
      /\ \A j \in 1..k : \E i \in 1..Len(leaving'[m]) : leaving'[m][i] = out[j].place
      /\ \A x \in Markets \ {m} : leaving'[x] = leaving[x]
  <2>1. Trade(m, out)
    BY DEF Post
  <2>2. QED
    BY <2>1, TradeStep, Zenon
<1>2. /\ Remaining(resting[m], out) \subseteq resting[m]
      /\ \A i \in 1..k : out[i] \in resting[m] /\ out[i] \notin Remaining(resting[m], out)
      /\ \A o \in resting[m] \ Remaining(resting[m], out) : \E i \in 1..k : out[i] = o
  BY <1>0, BookAfterTrade
<1>3. /\ holds'[p] = [market |-> m, seq |-> next[m] + 1]
      /\ \A q \in Place \ {p} : holds'[q] = holds[q]
      /\ resting'[m] = Remaining(resting[m], out) \cup {new}
      /\ \A x \in Markets \ {m} : resting'[x] = resting[x]
      /\ holds[p] = Free
  BY DEF Post, IInv, LedgerTypeOK
<1>4. LedgerTypeOK'
  <2>1. resting' \in [Markets -> SUBSET Order]
    BY <1>0, <1>2 DEF Post, IInv, LedgerTypeOK
  <2>2. holds' \in [Place -> {Free} \cup [market : Markets, seq : Nat]]
    BY <1>0 DEF Post, IInv, LedgerTypeOK
  <2>3. QED
    BY <1>1, <2>1, <2>2 DEF LedgerTypeOK
<1>5. \A x \in Markets : \A o \in resting[x] : o.place # p
  BY <1>3, RestingOccupied
<1>6. \A x \in Markets : \A i \in 1..Len(leaving[x]) : leaving[x][i] # p
  BY <1>3 DEF IInv, SlotDiscipline, LeavingHeld
<1>7. \A x \in Markets : \A o \in resting'[x] : o \in resting[x] \/ (x = m /\ o = new)
  BY <1>2, <1>3
<1>8. \A x \in Markets : \A i \in 1..Len(leaving'[x]) :
        \/ i \in 1..Len(leaving[x]) /\ leaving'[x][i] = leaving[x][i]
        \/ x = m /\ \E j \in 1..k : leaving'[x][i] = out[j].place
  BY <1>1
<1>9. \A x \in Markets : \A i \in 1..Len(leaving'[x]) :
        leaving'[x][i] # p /\ leaving'[x][i] \in Place
  <2>1. \A x \in Markets : \A i \in 1..Len(leaving'[x]) : leaving'[x][i] # p
    <3>1. \A j \in 1..k : out[j].place # p
      BY <1>2, <1>5
    <3>2. QED
      BY <1>6, <1>8, <3>1
  <2>2. QED
    BY <1>1, <2>1
<1>10. RestingHeld'
  <2>1. SUFFICES ASSUME NEW x \in Markets, NEW o \in resting'[x]
                 PROVE  holds'[o.place] = [market |-> x, seq |-> o.seq]
    BY DEF RestingHeld
  <2>2. CASE o \in resting[x]
    <3>1. o.place # p /\ o.place \in Place
      BY <1>5, <2>2, RestingOccupied
    <3>2. holds[o.place] = [market |-> x, seq |-> o.seq]
      BY <2>2 DEF IInv, SlotDiscipline, RestingHeld
    <3>3. QED
      BY <1>3, <3>1, <3>2
  <2>3. CASE x = m /\ o = new
    BY <1>3, <2>3
  <2>4. QED
    BY <1>7, <2>2, <2>3
<1>11. LeavingHeld'
  <2>1. SUFFICES ASSUME NEW x \in Markets, NEW i \in 1..Len(leaving'[x])
                 PROVE  holds'[leaving'[x][i]] # Free /\ holds'[leaving'[x][i]].market = x
    BY DEF LeavingHeld
  <2>2. holds'[leaving'[x][i]] = holds[leaving'[x][i]]
    BY <1>3, <1>9
  <2>3. CASE i \in 1..Len(leaving[x]) /\ leaving'[x][i] = leaving[x][i]
    BY <2>2, <2>3 DEF IInv, SlotDiscipline, LeavingHeld
  <2>4. ASSUME NEW j \in 1..k, x = m, leaving'[x][i] = out[j].place
        PROVE  holds'[leaving'[x][i]] # Free /\ holds'[leaving'[x][i]].market = x
    <3>1. out[j] \in resting[m]
      OBVIOUS
    <3>2. holds[out[j].place] # Free /\ holds[out[j].place].market = m
      BY <3>1, RestingOccupied
    <3>3. QED
      BY <2>2, <2>4, <3>2
  <2>5. QED
    BY <1>8, <2>3, <2>4
<1>12. LeavingLeft'
  <2>1. SUFFICES ASSUME NEW x \in Markets, NEW i \in 1..Len(leaving'[x]), NEW o \in resting'[x]
                 PROVE  leaving'[x][i] # o.place
    BY DEF LeavingLeft
  <2>2. CASE o = new
    BY <1>9, <2>2
  <2>3. CASE o # new /\ i \in 1..Len(leaving[x]) /\ leaving'[x][i] = leaving[x][i]
    <3>1. o \in resting[x]
      BY <1>7, <2>3
    <3>2. QED
      BY <2>3, <3>1 DEF IInv, SlotDiscipline, LeavingLeft
  <2>4. ASSUME o # new, NEW j \in 1..k, x = m, leaving'[x][i] = out[j].place
        PROVE  leaving'[x][i] # o.place
    <3>1. out[j] \in resting[m] /\ o \in resting[m] /\ out[j] # o
      BY <1>2, <1>3, <1>7, <2>4
    <3>2. out[j].place # o.place
      BY <3>1, RestingDistinct
    <3>3. QED
      BY <2>4, <3>2
  <2>5. QED
    BY <1>8, <2>2, <2>3, <2>4
<1>13. NoLeak'
  <2>1. SUFFICES ASSUME NEW q \in Place, holds'[q] # Free
                 PROVE  \/ \E o \in resting'[holds'[q].market] : o.place = q
                        \/ \E i \in 1..Len(leaving'[holds'[q].market]) :
                             leaving'[holds'[q].market][i] = q
    BY DEF NoLeak
  <2>2. CASE q = p
    <3>1. holds'[q].market = m /\ new \in resting'[m] /\ new.place = q
      BY <1>3, <2>2
    <3>2. QED
      BY <3>1
  <2>3. CASE q # p
    <3> DEFINE x == holds[q].market
    <3>1. holds'[q] = holds[q] /\ holds[q] # Free
      BY <1>3, <2>1, <2>3
    <3>2. x \in Markets
      BY <3>1 DEF IInv, LedgerTypeOK
    <3>3. ASSUME NEW i \in 1..Len(leaving[x]), leaving[x][i] = q
          PROVE  \E h \in 1..Len(leaving'[x]) : leaving'[x][h] = q
      <4>1. i \in 1..Len(leaving'[x]) /\ leaving'[x][i] = leaving[x][i]
        BY <1>1, <3>2
      <4>2. QED
        BY <3>3, <4>1
    <3>4. ASSUME NEW o \in resting[x], o.place = q
          PROVE  \/ \E u \in resting'[x] : u.place = q
                 \/ \E i \in 1..Len(leaving'[x]) : leaving'[x][i] = q
      <4>1. CASE o \in resting'[x]
        BY <3>4, <4>1
      <4>2. CASE o \notin resting'[x]
        <5>1. x = m /\ o \in resting[m] \ Remaining(resting[m], out)
          BY <1>3, <3>2, <4>2
        <5>2. PICK j \in 1..k : out[j] = o
          BY <1>2, <5>1
        <5>3. \E i \in 1..Len(leaving'[m]) : leaving'[m][i] = q
          BY <1>1, <3>4, <5>2
        <5>4. QED
          BY <5>1, <5>3
      <4>3. QED
        BY <4>1, <4>2
    <3>5. QED
      BY <3>1, <3>3, <3>4 DEF IInv, SlotDiscipline, NoLeak
  <2>4. QED
    BY <2>2, <2>3
<1>14. QED
  BY <1>1, <1>4, <1>10, <1>11, <1>12, <1>13 DEF IInv, SlotDiscipline

LEMMA CancelStep ==
  ASSUME IInv, NEW m \in Markets, NEW a \in Accounts, NEW S \in SUBSET resting[m],
         Cancel(a, m, S)
  PROVE  IInv'
<1>1. /\ leaving' = leaving
      /\ next' = next
      /\ resting'[m] = resting[m] \ S
      /\ \A x \in Markets \ {m} : resting'[x] = resting[x]
      /\ \A p \in Place : holds'[p] = IF \E o \in S : o.place = p THEN Free ELSE holds[p]
  BY DEF Cancel, IInv, LedgerTypeOK
<1>2. LedgerTypeOK'
  BY DEF Cancel, IInv, LedgerTypeOK
<1>3. \A x \in Markets : resting'[x] \subseteq resting[x]
  BY <1>1
<1>4. \A x \in Markets : \A o \in resting'[x] : holds'[o.place] = holds[o.place]
  <2>1. SUFFICES ASSUME NEW x \in Markets, NEW o \in resting'[x], NEW q \in S,
                        q.place = o.place
                 PROVE  FALSE
    BY <1>1, <1>3, RestingOccupied
  <2>2. o \in resting[x] /\ q \in resting[m]
    BY <1>3
  <2>3. x = m
    BY <2>1, <2>2, RestingOccupied
  <2>4. o = q
    BY <2>1, <2>2, <2>3, RestingDistinct
  <2>5. QED
    BY <1>1, <2>3, <2>4
<1>5. RestingHeld'
  BY <1>3, <1>4 DEF IInv, SlotDiscipline, RestingHeld
<1>6. LeavingHeld'
  <2>1. SUFFICES ASSUME NEW x \in Markets, NEW i \in 1..Len(leaving[x])
                 PROVE  holds'[leaving[x][i]] # Free /\ holds'[leaving[x][i]].market = x
    BY <1>1 DEF LeavingHeld
  <2>2. leaving[x][i] \in Place
    BY DEF IInv, LedgerTypeOK
  <2>3. holds[leaving[x][i]] # Free /\ holds[leaving[x][i]].market = x
    BY DEF IInv, SlotDiscipline, LeavingHeld
  <2>4. ASSUME NEW o \in S, o.place = leaving[x][i]
        PROVE  FALSE
    <3>1. o \in resting[m] /\ holds[o.place].market = m
      BY RestingOccupied
    <3>2. x = m
      BY <2>3, <2>4, <3>1
    <3>3. QED
      BY <2>4, <3>1, <3>2 DEF IInv, SlotDiscipline, LeavingLeft
  <2>5. holds'[leaving[x][i]] = holds[leaving[x][i]]
    BY <1>1, <2>2, <2>4
  <2>6. QED
    BY <2>3, <2>5
<1>7. LeavingOnce' /\ LeavingLeft'
  BY <1>1, <1>3 DEF IInv, SlotDiscipline, LeavingOnce, LeavingLeft
<1>8. NoLeak'
  <2>1. SUFFICES ASSUME NEW p \in Place, holds'[p] # Free
                 PROVE  \/ \E o \in resting'[holds'[p].market] : o.place = p
                        \/ \E i \in 1..Len(leaving[holds'[p].market]) :
                             leaving[holds'[p].market][i] = p
    BY <1>1 DEF NoLeak
  <2>2. holds'[p] = holds[p] /\ holds[p] # Free /\ \A o \in S : o.place # p
    BY <1>1, <2>1
  <2>3. holds[p].market \in Markets
    BY <2>2 DEF IInv, LedgerTypeOK
  <2>4. \A o \in resting[holds[p].market] :
          o.place = p => o \in resting'[holds[p].market]
    BY <1>1, <2>2, <2>3
  <2>5. QED
    BY <2>2, <2>4 DEF IInv, SlotDiscipline, NoLeak
<1>9. QED
  BY <1>2, <1>5, <1>6, <1>7, <1>8 DEF IInv, SlotDiscipline

(* What is left of a sequence when its first n elements are gone. *)
LEMMA DropFront ==
  ASSUME NEW S, NEW s \in Seq(S), NEW n \in 1..Len(s)
  PROVE  /\ SubSeq(s, n + 1, Len(s)) \in Seq(S)
         /\ Len(SubSeq(s, n + 1, Len(s))) = Len(s) - n
         /\ \A i \in 1..Len(s) - n : /\ SubSeq(s, n + 1, Len(s))[i] = s[n + i]
                                      /\ n + i \in n + 1 .. Len(s)
         /\ Len(s) \in Nat
OBVIOUS

LEMMA ConsumeStep ==
  ASSUME IInv, NEW m \in Markets, NEW n \in 1..Len(leaving[m]), Consume(m, n)
  PROVE  IInv'
<1>0. leaving[m] \in Seq(Place)
  BY DEF IInv, LedgerTypeOK
<1>1. /\ resting' = resting
      /\ next' = next
      /\ leaving'[m] = SubSeq(leaving[m], n + 1, Len(leaving[m]))
      /\ \A x \in Markets \ {m} : leaving'[x] = leaving[x]
      /\ \A p \in Place :
           holds'[p] = IF \E i \in 1..n : leaving[m][i] = p THEN Free ELSE holds[p]
  BY DEF Consume, IInv, LedgerTypeOK
<1>2. /\ leaving'[m] \in Seq(Place)
      /\ Len(leaving'[m]) = Len(leaving[m]) - n
      /\ \A i \in 1..Len(leaving'[m]) : /\ leaving'[m][i] = leaving[m][n + i]
                                         /\ n + i \in n + 1 .. Len(leaving[m])
      /\ Len(leaving[m]) \in Nat
  BY <1>0, <1>1, DropFront
<1>3. LedgerTypeOK'
  <2>1. leaving' \in [Markets -> Seq(Place)]
    BY <1>1, <1>2 DEF Consume, IInv, LedgerTypeOK
  <2>2. holds' \in [Place -> {Free} \cup [market : Markets, seq : Nat]]
    BY DEF Consume, IInv, LedgerTypeOK
  <2>3. QED
    BY <1>1, <2>1, <2>2 DEF IInv, LedgerTypeOK
<1>4. 1..n \subseteq 1..Len(leaving[m])
  BY <1>2
<1>5. \A i \in 1..n : holds[leaving[m][i]].market = m
  BY <1>4 DEF IInv, SlotDiscipline, LeavingHeld
<1>6. RestingHeld'
  <2>1. SUFFICES ASSUME NEW x \in Markets, NEW o \in resting[x]
                 PROVE  holds'[o.place] = [market |-> x, seq |-> o.seq]
    BY <1>1 DEF RestingHeld
  <2>2. o.place \in Place /\ holds[o.place].market = x
    BY RestingOccupied
  <2>3. \A i \in 1..n : leaving[m][i] # o.place
    BY <1>4, <1>5, <2>2 DEF IInv, SlotDiscipline, LeavingLeft
  <2>4. QED
    BY <1>1, <2>2, <2>3 DEF IInv, SlotDiscipline, RestingHeld
<1>7. LeavingHeld'
  <2>1. SUFFICES ASSUME NEW x \in Markets, NEW i \in 1..Len(leaving'[x])
                 PROVE  holds'[leaving'[x][i]] # Free /\ holds'[leaving'[x][i]].market = x
    BY DEF LeavingHeld
  <2>2. PICK h \in 1..Len(leaving[x]) : leaving'[x][i] = leaving[x][h] /\ (x = m => h > n)
    <3>1. CASE x # m
      BY <1>1, <3>1
    <3>2. CASE x = m
      <4>1. n + i \in 1..Len(leaving[m]) /\ n + i > n /\ leaving'[m][i] = leaving[m][n + i]
        BY <1>2, <3>2
      <4>2. QED
        BY <3>2, <4>1
    <3>3. QED
      BY <3>1, <3>2
  <2>3. leaving[x][h] \in Place
    BY DEF IInv, LedgerTypeOK
  <2>4. holds[leaving[x][h]] # Free /\ holds[leaving[x][h]].market = x
    BY DEF IInv, SlotDiscipline, LeavingHeld
  <2>5. ASSUME NEW j \in 1..n, leaving[m][j] = leaving[x][h]
        PROVE  FALSE
    <3>1. x = m
      BY <1>5, <2>4, <2>5
    <3>2. j = h
      BY <1>4, <2>5, <3>1 DEF IInv, SlotDiscipline, LeavingOnce
    <3>3. QED
      BY <2>2, <3>1, <3>2
  <2>6. holds'[leaving[x][h]] = holds[leaving[x][h]]
    BY <1>1, <2>3, <2>5
  <2>7. QED
    BY <2>2, <2>4, <2>6
<1>8. LeavingOnce'
  <2>1. SUFFICES ASSUME NEW x \in Markets,
                        NEW i \in 1..Len(leaving'[x]), NEW j \in 1..Len(leaving'[x]),
                        leaving'[x][i] = leaving'[x][j]
                 PROVE  i = j
    BY DEF LeavingOnce
  <2>2. CASE x # m
    BY <1>1, <2>1, <2>2 DEF IInv, SlotDiscipline, LeavingOnce
  <2>3. CASE x = m
    <3>1. n + i \in 1..Len(leaving[m]) /\ leaving'[m][i] = leaving[m][n + i]
      BY <1>2, <2>3
    <3>2. n + j \in 1..Len(leaving[m]) /\ leaving'[m][j] = leaving[m][n + j]
      BY <1>2, <2>3
    <3>3. n + i = n + j
      BY <2>1, <2>3, <3>1, <3>2 DEF IInv, SlotDiscipline, LeavingOnce
    <3>4. QED
      BY <1>2, <2>3, <3>3
  <2>4. QED
    BY <2>2, <2>3
<1>9. LeavingLeft'
  <2>1. SUFFICES ASSUME NEW x \in Markets, NEW i \in 1..Len(leaving'[x]), NEW o \in resting[x]
                 PROVE  leaving'[x][i] # o.place
    BY <1>1 DEF LeavingLeft
  <2>2. CASE x # m
    BY <1>1, <2>2 DEF IInv, SlotDiscipline, LeavingLeft
  <2>3. CASE x = m
    <3>1. n + i \in 1..Len(leaving[m]) /\ leaving'[m][i] = leaving[m][n + i]
      BY <1>2, <2>3
    <3>2. QED
      BY <2>3, <3>1 DEF IInv, SlotDiscipline, LeavingLeft
  <2>4. QED
    BY <2>2, <2>3
<1>10. NoLeak'
  <2>1. SUFFICES ASSUME NEW p \in Place, holds'[p] # Free
                 PROVE  \/ \E o \in resting[holds'[p].market] : o.place = p
                        \/ \E i \in 1..Len(leaving'[holds'[p].market]) :
                             leaving'[holds'[p].market][i] = p
    BY <1>1 DEF NoLeak
  <2>2. holds'[p] = holds[p] /\ holds[p] # Free /\ \A i \in 1..n : leaving[m][i] # p
    BY <1>1, <2>1
  <2> DEFINE x == holds[p].market
  <2>3. x \in Markets
    BY <2>2 DEF IInv, LedgerTypeOK
  <2>4. ASSUME NEW i \in 1..Len(leaving[x]), leaving[x][i] = p
        PROVE  \E h \in 1..Len(leaving'[x]) : leaving'[x][h] = p
    <3>1. CASE x # m
      BY <1>1, <2>3, <2>4, <3>1
    <3>2. CASE x = m
      <4>1. i \in Nat /\ i > n
        BY <1>2, <2>2, <2>4, <3>2
      <4>2. i - n \in 1..Len(leaving'[m]) /\ n + (i - n) = i
        BY <1>2, <3>2, <4>1
      <4>3. leaving'[m][i - n] = p
        BY <1>2, <2>4, <3>2, <4>2
      <4>4. QED
        BY <3>2, <4>2, <4>3
    <3>3. QED
      BY <3>1, <3>2
  <2>5. QED
    BY <2>2, <2>4 DEF IInv, SlotDiscipline, NoLeak
<1>11. QED
  BY <1>3, <1>6, <1>7, <1>8, <1>9, <1>10 DEF IInv, SlotDiscipline

LEMMA InitHolds ==
  ASSUME LedgerInit
  PROVE  IInv
<1>1. /\ \A p \in Place : holds[p] = Free
      /\ \A m \in Markets : resting[m] = {} /\ leaving[m] = <<>> /\ next[m] = 0
  BY DEF LedgerInit
<1>2. LedgerTypeOK
  BY DEF LedgerInit, LedgerTypeOK
<1>3. \A m \in Markets : 1..Len(leaving[m]) = {}
  BY <1>1
<1>4. SlotDiscipline
  BY <1>1, <1>3 DEF SlotDiscipline, RestingHeld, LeavingHeld, LeavingOnce, LeavingLeft, NoLeak
<1>5. QED
  BY <1>2, <1>4 DEF IInv

LEMMA StepKeeps ==
  ASSUME IInv, [LedgerNext]_lvars
  PROVE  IInv'
<1>1. CASE UNCHANGED lvars
  BY <1>1 DEF lvars, IInv, LedgerTypeOK, SlotDiscipline, RestingHeld, LeavingHeld,
              LeavingOnce, LeavingLeft, NoLeak
<1>2. ASSUME NEW m \in Markets, NEW k \in 0..QueueCap, NEW out \in [1..k -> resting[m]],
             Take(m, out)
      PROVE  IInv'
  BY <1>2, TakeStep
<1>3. ASSUME NEW m \in Markets, NEW k \in 0..QueueCap, NEW out \in [1..k -> resting[m]],
             NEW p \in Place, Post(p, m, out)
      PROVE  IInv'
  BY <1>3, PostStep
<1>4. ASSUME NEW m \in Markets, NEW a \in Accounts, NEW S \in SUBSET resting[m],
             Cancel(a, m, S)
      PROVE  IInv'
  BY <1>4, CancelStep
<1>5. ASSUME NEW m \in Markets, NEW n \in 1..Len(leaving[m]), Consume(m, n)
      PROVE  IInv'
  BY <1>5, ConsumeStep
<1>6. QED
  BY <1>1, <1>2, <1>3, <1>4, <1>5 DEF LedgerNext

(* The inductive invariant holds in every reachable state. *)
THEOREM LedgerInvariant == LedgerSpec => []IInv
BY InitHolds, StepKeeps, PTL DEF LedgerSpec

(* For any number of accounts, markets, slots and queue entries: orders    *)
(* that share a book, a queue and the order tables of their owners keep    *)
(* the types of the ledger.                                                *)
THEOREM LedgerTypeCorrect == LedgerSpec => []LedgerTypeOK
<1>1. IInv => LedgerTypeOK
  BY DEF IInv
<1>2. QED
  BY <1>1, LedgerInvariant, PTL

(* For any number of accounts, markets, slots and queue entries: every     *)
(* order slot of a MangoAccount that is in use belongs to one resting      *)
(* order or is freed by exactly one queued event, so ConsumeEvents never   *)
(* frees a slot twice and never fails on a slot that is already free.      *)
THEOREM LedgerSlotDiscipline == LedgerSpec => []SlotDiscipline
<1>1. IInv => SlotDiscipline
  BY DEF IInv
<1>2. QED
  BY <1>1, LedgerInvariant, PTL

-----------------------------------------------------------------------------
(***************************************************************************)
(* The book side: no node is lost or handed out twice, every inner node's  *)
(* expiry cache holds the earliest expiry below it, and the side is full   *)
(* exactly when there is no room for two more nodes.  The inductive        *)
(* invariant Sound says that the nodes handed out are the free list (a     *)
(* chain without repetition) and a tree T below root_node, disjoint and    *)
(* together 0 .. bump_index - 1; that ranks fall from a parent to its      *)
(* children, every node but the root has one parent and T has 2n - 1 nodes *)
(* for n leaves; and that every cache agrees with the children's.          *)
(***************************************************************************)

(* The fields of the account. *)
SideFields == {"root_node", "leaf_count", "bump_index", "free_list_len", "free_list_head", "nodes"}

Laid(t) ==
  /\ DOMAIN t = SideFields /\ DOMAIN t.nodes = Handles
  /\ t.bump_index \in Nat /\ t.bump_index <= Len_nodes /\ t.free_list_len \in Nat

(* fl lists the nodes of the free list from its head on. *)
Chain(t, fl) ==
  /\ \A i \in 1..t.free_list_len : fl[i] \in Handles
  /\ \A i, j \in 1..t.free_list_len : fl[i] = fl[j] => i = j
  /\ t.free_list_len > 0 => t.free_list_head = fl[1]
  /\ \A i \in 1..t.free_list_len :
       t.nodes[fl[i]].tag = IF i = t.free_list_len THEN "last_free" ELSE "free"
  /\ \A i \in 1..t.free_list_len : i < t.free_list_len => t.nodes[fl[i]].next = fl[i + 1]

(* The nodes handed out are those of U; the others below bump_index are on *)
(* the free list.                                                          *)
Alloc(t, U, fl) ==
  /\ Laid(t) /\ Chain(t, fl)
  /\ U \subseteq Handles /\ IsFiniteSet(U)
  /\ \A i \in 1..t.free_list_len : fl[i] \notin U
  /\ \A h \in Handles : h < t.bump_index <=> (h \in U \/ \E i \in 1..t.free_list_len : fl[i] = h)
  /\ t.bump_index = Cardinality(U) + t.free_list_len

(* The fields that handing out and taking back nodes does not touch. *)
SameTree(t, t2) == t2.root_node = t.root_node /\ t2.leaf_count = t.leaf_count

(* A node is handed out when not all are.                                  *)
LEMMA InsertAlloc ==
  ASSUME NEW t, NEW U, NEW fl, Alloc(t, U, fl), NEW val, NEW r, r = insert(t, val), Cardinality(U) < Len_nodes
  PROVE  /\ r.ok /\ r.h \in Handles /\ r.h \notin U
         /\ r.t.nodes = [t.nodes EXCEPT ![r.h] = val] /\ SameTree(t, r.t)
         /\ \E f2 : Alloc(r.t, U \cup {r.h}, f2)
<1> DEFINE len == t.free_list_len
           h == IF len = 0 THEN t.bump_index ELSE t.free_list_head
           n == t.nodes[h]
           V == U \cup {h}
           ta == [t EXCEPT !.nodes[h] = val, !.bump_index = @ + 1]
           tb == [t EXCEPT !.nodes[h] = val, !.free_list_head = n.next, !.free_list_len = @ - 1]
<1>0. /\ Laid(t) /\ Chain(t, fl) /\ U \subseteq Handles /\ IsFiniteSet(U) /\ Cardinality(U) \in Nat
      /\ len \in Nat /\ t.bump_index \in Nat /\ t.bump_index <= Len_nodes
      /\ t.bump_index = Cardinality(U) + len /\ Len_nodes \in Nat
  BY FS_CardinalityType, NodesAssumption DEF Alloc, Laid
<1>1. CASE len = 0
  <2>1. h = t.bump_index /\ h < Len_nodes /\ h \in Nat BY <1>0, <1>1
  <2>2. h \in Handles BY <1>0, <2>1 DEF Handles
  <2>3. h \notin U BY <1>1, <2>1, <2>2 DEF Alloc
  <2>4. t.bump_index # Len_nodes BY <1>0, <2>1
  <2>5. r = [ok |-> TRUE, h |-> h, t |-> ta] BY <1>1, <2>4 DEF insert
  <2>6. r.ok /\ r.h = h /\ r.t = ta BY <2>5
  <2> HIDE DEF h
  <2>7. /\ ta.nodes = [t.nodes EXCEPT ![h] = val] /\ ta.bump_index = t.bump_index + 1
        /\ ta.free_list_len = len /\ ta.root_node = t.root_node /\ ta.leaf_count = t.leaf_count
        /\ DOMAIN ta = SideFields /\ DOMAIN ta.nodes = Handles
    BY <1>0 DEF Laid, SideFields
  <2> HIDE DEF ta
  <2>8. Laid(ta) BY <1>0, <1>1, <2>1, <2>7 DEF Laid
  <2>9. Chain(ta, fl)
    <3>1. ta.free_list_len = 0 BY <1>1, <2>7
    <3>2. 1..0 = {} OBVIOUS
    <3> QED BY <3>1, <3>2 DEF Chain
  <2>10. Cardinality(V) = Cardinality(U) + 1 /\ IsFiniteSet(V) BY <1>0, <2>3, FS_AddElement
  <2>11. ASSUME NEW g \in Handles
         PROVE  g < ta.bump_index <=> (g \in V \/ \E i \in 1..ta.free_list_len : fl[i] = g)
    <3>1. g \in Int BY <1>0 DEF Handles
    <3>2. g < t.bump_index <=> (g \in U \/ \E i \in 1..len : fl[i] = g) BY DEF Alloc
    <3>3. g < ta.bump_index <=> (g < t.bump_index \/ g = h) BY <1>0, <2>1, <2>7, <3>1
    <3>4. 1..0 = {} OBVIOUS
    <3> QED BY <1>1, <2>7, <3>2, <3>3, <3>4
  <2>12. Alloc(ta, V, fl)
    <3>1. \A i \in 1..ta.free_list_len : fl[i] \notin V
      <4>1. 1..0 = {} OBVIOUS
      <4> QED BY <1>1, <2>7, <4>1
    <3>2. ta.bump_index = Cardinality(V) + ta.free_list_len BY <1>0, <1>1, <2>7, <2>10
    <3>3. V \subseteq Handles BY <1>0, <2>2
    <3> QED BY <2>8, <2>9, <2>10, <2>11, <3>1, <3>2, <3>3 DEF Alloc
  <2> QED BY <2>2, <2>3, <2>6, <2>7, <2>12 DEF SameTree
<1>2. CASE len # 0
  <2> DEFINE f2 == [i \in 1..len - 1 |-> fl[i + 1]]
  <2>a. len > 0 /\ 1 \in 1..len BY <1>0, <1>2
  <2>1. h = fl[1] /\ h \in Handles BY <1>0, <1>2, <2>a DEF Chain
  <2>2. h \notin U BY <2>a, <2>1 DEF Alloc
  <2>3. n.tag = IF 1 = len THEN "last_free" ELSE "free" BY <1>0, <2>a, <2>1 DEF Chain
  <2>4. \/ n.tag = "free" /\ len > 1
        \/ n.tag = "last_free" /\ len = 1
    BY <1>0, <2>a, <2>3
  <2>5. r = [ok |-> TRUE, h |-> h, t |-> tb] BY <1>2, <2>4 DEF insert
  <2>6. r.ok /\ r.h = h /\ r.t = tb BY <2>5
  <2>b. len > 1 => n.next = fl[2]
    <3>1. ASSUME len > 1 PROVE t.nodes[fl[1]].next = fl[1 + 1] BY <1>0, <2>a, <3>1 DEF Chain
    <3> QED BY <2>1, <3>1
  <2> HIDE DEF h, n
  <2>7. /\ tb.nodes = [t.nodes EXCEPT ![h] = val] /\ tb.bump_index = t.bump_index /\ tb.free_list_head = n.next
        /\ tb.free_list_len = len - 1 /\ tb.root_node = t.root_node /\ tb.leaf_count = t.leaf_count
        /\ DOMAIN tb = SideFields /\ DOMAIN tb.nodes = Handles
    BY <1>0 DEF Laid, SideFields
  <2> HIDE DEF tb
  <2>c. len - 1 \in Nat BY <1>0, <2>a
  <2>8. Laid(tb) BY <1>0, <2>7, <2>c DEF Laid
  <2>d. ASSUME NEW i \in 1..len - 1 PROVE f2[i] = fl[i + 1] /\ i + 1 \in 1..len /\ fl[i + 1] # h /\ fl[i + 1] \in Handles
    <3>1. i + 1 \in 1..len /\ i + 1 # 1 BY <1>0
    <3>2. fl[i + 1] # fl[1] BY <1>0, <2>a, <3>1 DEF Chain
    <3> QED BY <1>0, <2>1, <3>1, <3>2 DEF Chain
  <2> HIDE DEF f2
  <2>9. Chain(tb, f2)
    <3>1. \A i \in 1..len - 1 : f2[i] \in Handles BY <2>d
    <3>2. ASSUME NEW i \in 1..len - 1, NEW j \in 1..len - 1, f2[i] = f2[j] PROVE i = j
      <4>1. fl[i + 1] = fl[j + 1] /\ i + 1 \in 1..len /\ j + 1 \in 1..len BY <2>d, <3>2
      <4>2. i + 1 = j + 1 BY <1>0, <4>1 DEF Chain
      <4> QED BY <4>2
    <3>3. len - 1 > 0 => n.next = f2[1]
      <4>1. SUFFICES ASSUME len - 1 > 0 PROVE n.next = f2[1] OBVIOUS
      <4>2. 1 \in 1..len - 1 /\ len > 1 BY <1>0, <4>1
      <4>3. f2[1] = fl[1 + 1] BY <2>d, <4>2
      <4> QED BY <2>b, <4>2, <4>3
    <3>4. ASSUME NEW i \in 1..len - 1 PROVE tb.nodes[f2[i]] = t.nodes[fl[i + 1]] BY <1>0, <2>7, <2>d DEF Laid
    <3>5. ASSUME NEW i \in 1..len - 1
          PROVE  tb.nodes[f2[i]].tag = IF i = len - 1 THEN "last_free" ELSE "free"
      <4>1. t.nodes[fl[i + 1]].tag = IF i + 1 = len THEN "last_free" ELSE "free" BY <1>0, <2>d DEF Chain
      <4>2. i = len - 1 <=> i + 1 = len BY <1>0
      <4> QED BY <3>4, <4>1, <4>2
    <3>6. ASSUME NEW i \in 1..len - 1, i < len - 1 PROVE tb.nodes[f2[i]].next = f2[i + 1]
      <4>1. i + 1 < len /\ i + 1 \in 1..len - 1 BY <1>0, <3>6
      <4>2. t.nodes[fl[i + 1]].next = fl[i + 1 + 1] BY <1>0, <2>d, <4>1 DEF Chain
      <4>3. f2[i + 1] = fl[i + 1 + 1] BY <2>d, <4>1
      <4> QED BY <3>4, <4>2, <4>3
    <3> QED BY <2>7, <3>1, <3>2, <3>3, <3>5, <3>6 DEF Chain
  <2>10. Cardinality(V) = Cardinality(U) + 1 /\ IsFiniteSet(V) BY <1>0, <2>2, FS_AddElement
  <2>11. ASSUME NEW g \in Handles
         PROVE  g < tb.bump_index <=> (g \in V \/ \E i \in 1..tb.free_list_len : f2[i] = g)
    <3>2. g < t.bump_index <=> (g \in U \/ \E i \in 1..len : fl[i] = g) BY DEF Alloc
    <3>3. (\E i \in 1..len : fl[i] = g) <=> (g = h \/ \E i \in 1..len - 1 : f2[i] = g)
      <4>1. ASSUME NEW i \in 1..len, fl[i] = g PROVE g = h \/ \E j \in 1..len - 1 : f2[j] = g
        <5>1. CASE i = 1 BY <2>1, <4>1, <5>1
        <5>2. CASE i # 1
          <6>1. i - 1 \in 1..len - 1 /\ (i - 1) + 1 = i BY <1>0, <5>2
          <6>2. f2[i - 1] = fl[(i - 1) + 1] BY <2>d, <6>1
          <6> QED BY <4>1, <6>1, <6>2
        <5> QED BY <5>1, <5>2
      <4>2. ASSUME NEW j \in 1..len - 1, f2[j] = g PROVE \E i \in 1..len : fl[i] = g BY <2>d, <4>2
      <4>3. g = h => \E i \in 1..len : fl[i] = g BY <2>a, <2>1
      <4> QED BY <4>1, <4>2, <4>3
    <3> QED BY <2>7, <3>2, <3>3
  <2>12. Alloc(tb, V, f2)
    <3>1. \A i \in 1..len - 1 : f2[i] \notin V
      <4>1. \A i \in 1..len : fl[i] \notin U BY DEF Alloc
      <4> QED BY <2>d, <4>1
    <3>2. tb.bump_index = Cardinality(V) + tb.free_list_len BY <1>0, <2>7, <2>10
    <3>3. V \subseteq Handles BY <1>0, <2>1
    <3> QED BY <2>7, <2>8, <2>9, <2>10, <2>11, <3>1, <3>2, <3>3 DEF Alloc
  <2> QED BY <2>1, <2>2, <2>6, <2>7, <2>12 DEF SameTree
<1> QED BY <1>1, <1>2

(* A node handed out is taken back.                                        *)
LEMMA RemoveAlloc ==
  ASSUME NEW t, NEW U, NEW fl, Alloc(t, U, fl), NEW h \in U
  PROVE  LET t2 == remove(t, h)
         IN  /\ \E v : t2.nodes = [t.nodes EXCEPT ![h] = v] /\ v.tag \in {"free", "last_free"}
             /\ SameTree(t, t2) /\ \E f2 : Alloc(t2, U \ {h}, f2)
<1> DEFINE len == t.free_list_len
           v == [tag |-> IF len = 0 THEN "last_free" ELSE "free", next |-> t.free_list_head]
           t2 == remove(t, h)
           V == U \ {h}
           f2 == [i \in 1..len + 1 |-> IF i = 1 THEN h ELSE fl[i - 1]]
<1>0. /\ Laid(t) /\ Chain(t, fl) /\ U \subseteq Handles /\ IsFiniteSet(U) /\ Cardinality(U) \in Nat
      /\ len \in Nat /\ t.bump_index \in Nat /\ t.bump_index <= Len_nodes
      /\ t.bump_index = Cardinality(U) + len /\ Len_nodes \in Nat /\ h \in Handles
  BY FS_CardinalityType, NodesAssumption DEF Alloc, Laid
<1>1. /\ t2.nodes = [t.nodes EXCEPT ![h] = v] /\ t2.bump_index = t.bump_index /\ t2.free_list_head = h
      /\ t2.free_list_len = len + 1 /\ t2.root_node = t.root_node /\ t2.leaf_count = t.leaf_count
      /\ DOMAIN t2 = SideFields /\ DOMAIN t2.nodes = Handles
  BY <1>0 DEF Laid, SideFields, remove
<1>2. v.tag = IF len = 0 THEN "last_free" ELSE "free" OBVIOUS
<1>3. v.next = t.free_list_head OBVIOUS
<1>a. f2[1] = h /\ \A i \in 1..len + 1 : i # 1 => f2[i] = fl[i - 1] /\ i - 1 \in 1..len
  <2>1. 1 \in 1..len + 1 BY <1>0
  <2>2. \A i \in 1..len + 1 : i # 1 => i - 1 \in 1..len BY <1>0
  <2> QED BY <2>1, <2>2
<1> HIDE DEF v, t2, f2
<1>4. Laid(t2) BY <1>0, <1>1 DEF Laid
<1>5. \A i \in 1..len : fl[i] # h /\ fl[i] \in Handles BY <1>0 DEF Alloc, Chain
<1>6. Chain(t2, f2)
  <2>1. \A i \in 1..len + 1 : f2[i] \in Handles
    <3> SUFFICES ASSUME NEW i \in 1..len + 1 PROVE f2[i] \in Handles OBVIOUS
    <3>1. CASE i = 1 BY <1>0, <1>a, <3>1
    <3>2. CASE i # 1 BY <1>a, <1>5, <3>2
    <3> QED BY <3>1, <3>2
  <2>2. ASSUME NEW i \in 1..len + 1, NEW j \in 1..len + 1, f2[i] = f2[j] PROVE i = j
    <3>1. CASE i = 1 /\ j = 1 BY <3>1
    <3>2. CASE i = 1 /\ j # 1 BY <1>a, <1>5, <2>2, <3>2
    <3>3. CASE i # 1 /\ j = 1 BY <1>a, <1>5, <2>2, <3>3
    <3>4. CASE i # 1 /\ j # 1
      <4>1. i - 1 \in 1..len /\ j - 1 \in 1..len /\ fl[i - 1] = fl[j - 1] BY <1>a, <2>2, <3>4
      <4>2. i - 1 = j - 1 BY <1>0, <4>1 DEF Chain
      <4> QED BY <1>0, <4>2
    <3> QED BY <3>1, <3>2, <3>3, <3>4
  <2>3. t2.free_list_head = f2[1] BY <1>1, <1>a
  <2>4. ASSUME NEW i \in 1..len + 1, i # 1 PROVE t2.nodes[f2[i]] = t.nodes[fl[i - 1]] BY <1>0, <1>1, <1>a, <1>5, <2>4 DEF Laid
  <2>5. t2.nodes[f2[1]] = v BY <1>0, <1>1, <1>a DEF Laid
  <2>6. ASSUME NEW i \in 1..len + 1
        PROVE  t2.nodes[f2[i]].tag = IF i = len + 1 THEN "last_free" ELSE "free"
    <3>1. CASE i = 1
      <4>1. i = len + 1 <=> len = 0 BY <1>0, <3>1
      <4> QED BY <1>2, <2>5, <3>1, <4>1
    <3>2. CASE i # 1
      <4>1. t.nodes[fl[i - 1]].tag = IF i - 1 = len THEN "last_free" ELSE "free" BY <1>0, <1>a, <3>2 DEF Chain
      <4>2. i = len + 1 <=> i - 1 = len BY <1>0
      <4> QED BY <2>4, <3>2, <4>1, <4>2
    <3> QED BY <3>1, <3>2
  <2>7. ASSUME NEW i \in 1..len + 1, i < len + 1 PROVE t2.nodes[f2[i]].next = f2[i + 1]
    <3>0. i + 1 \in 1..len + 1 /\ i + 1 # 1 /\ (i + 1) - 1 = i BY <1>0, <2>7
    <3>1. f2[i + 1] = fl[i]
      <4>1. f2[i + 1] = fl[(i + 1) - 1] BY <1>a, <3>0
      <4> QED BY <3>0, <4>1
    <3>2. CASE i = 1
      <4>1. len > 0 BY <1>0, <2>7, <3>2
      <4>2. t.free_list_head = fl[1] BY <1>0, <4>1 DEF Chain
      <4> QED BY <1>3, <2>5, <3>1, <3>2, <4>2
    <3>3. CASE i # 1
      <4>1. i - 1 < len /\ (i - 1) + 1 = i BY <1>0, <2>7
      <4>2. t.nodes[fl[i - 1]].next = fl[(i - 1) + 1] BY <1>0, <1>a, <3>3, <4>1 DEF Chain
      <4> QED BY <2>4, <3>1, <3>3, <4>1, <4>2
    <3> QED BY <3>2, <3>3
  <2> QED BY <1>1, <2>1, <2>2, <2>3, <2>6, <2>7 DEF Chain
<1>7. Cardinality(V) = Cardinality(U) - 1 /\ IsFiniteSet(V) BY <1>0, FS_RemoveElement
<1>8. ASSUME NEW g \in Handles
      PROVE  g < t2.bump_index <=> (g \in V \/ \E i \in 1..t2.free_list_len : f2[i] = g)
  <2>1. g < t.bump_index <=> (g \in U \/ \E i \in 1..len : fl[i] = g) BY DEF Alloc
  <2>2. ASSUME NEW i \in 1..len PROVE f2[i + 1] = fl[i] /\ i + 1 \in 1..len + 1
    <3>1. i + 1 \in 1..len + 1 /\ i + 1 # 1 /\ (i + 1) - 1 = i BY <1>0
    <3>2. f2[i + 1] = fl[(i + 1) - 1] BY <1>a, <3>1
    <3> QED BY <3>1, <3>2
  <2>3. (\E i \in 1..len + 1 : f2[i] = g) <=> (g = h \/ \E i \in 1..len : fl[i] = g)
    <3>1. ASSUME NEW i \in 1..len + 1, f2[i] = g PROVE g = h \/ \E j \in 1..len : fl[j] = g BY <1>a, <3>1
    <3>2. 1 \in 1..len + 1 BY <1>0
    <3> QED BY <1>a, <2>2, <3>1, <3>2
  <2> QED BY <1>1, <2>1, <2>3
<1>9. \A i \in 1..len + 1 : f2[i] \notin V
  <2>1. \A i \in 1..len : fl[i] \notin U BY DEF Alloc
  <2> SUFFICES ASSUME NEW i \in 1..len + 1 PROVE f2[i] \notin V OBVIOUS
  <2>2. CASE i = 1 BY <1>a, <2>2
  <2>3. CASE i # 1 BY <1>a, <2>1, <2>3
  <2> QED BY <2>2, <2>3
<1>10. t2.bump_index = Cardinality(V) + t2.free_list_len BY <1>0, <1>1, <1>7
<1>11. V \subseteq Handles BY <1>0
<1>12. Alloc(t2, V, f2) BY <1>1, <1>4, <1>6, <1>7, <1>8, <1>9, <1>10, <1>11 DEF Alloc
<1>13. v.tag \in {"free", "last_free"} BY <1>2
<1>14. SameTree(t, t2) BY <1>1 DEF SameTree
<1>15. t2.nodes = [t.nodes EXCEPT ![h] = v] BY <1>1
<1> QED BY <1>12, <1>13, <1>14, <1>15 DEF t2

(* Writing into nodes that are handed out does not concern the free list.  *)
LEMMA WriteAlloc ==
  ASSUME NEW t, NEW U, NEW fl, Alloc(t, U, fl), NEW t2, DOMAIN t2 = SideFields, DOMAIN t2.nodes = Handles,
         t2.bump_index = t.bump_index, t2.free_list_len = t.free_list_len, t2.free_list_head = t.free_list_head,
         \A h \in Handles : h \notin U => t2.nodes[h] = t.nodes[h]
  PROVE  Alloc(t2, U, fl)
<1>1. Laid(t2) BY DEF Alloc, Laid
<1>2. \A i \in 1..t.free_list_len : t2.nodes[fl[i]] = t.nodes[fl[i]] BY DEF Alloc, Chain
<1>3. Chain(t2, fl) BY <1>2 DEF Alloc, Chain
<1> QED BY <1>1, <1>3 DEF Alloc

(* The node h of N is an inner node and c its child on side b. *)
Leads(N, p, b, c) == N[p].tag = "inner" /\ N[p].children[b] = c

(* The nodes of T are a tree with this root: ranks fall from a parent to   *)
(* its children, and every node but the root has one parent.               *)
Grown(N, T, rank) ==
  \A p \in T, b \in 0..1 : N[p].tag = "inner" => N[p].children[b] \in T /\ rank[N[p].children[b]] < rank[p]

Ranked(T, rank, root) == \A h \in T : rank[h] \in Nat /\ rank[h] <= rank[root]

Parented(N, T, root) == \A c \in T : c = root \/ \E p \in T, b \in 0..1 : Leads(N, p, b, c)

OneParent(N, T) ==
  \A p, q \in T, b, d \in 0..1, c \in T : Leads(N, p, b, c) /\ Leads(N, q, d, c) => p = q /\ b = d

Tree(N, root, T, rank) ==
  /\ root \in T /\ T \subseteq Handles
  /\ \A h \in Handles : N[h].tag = "inner" => h \in T
  /\ \A h \in T : N[h].tag = "leaf" \/ N[h].tag = "inner"
  /\ Ranked(T, rank, root) /\ Grown(N, T, rank) /\ Parented(N, T, root) /\ OneParent(N, T)

(* Below, as a function on the nodes. *)
BelowStep(f, N, n) ==
  {n} \cup IF N[n].tag = "inner" THEN f[N[n].children[0]] \cup f[N[n].children[1]] ELSE {}

BelowEq(f, N) == f = [n \in Handles |-> BelowStep(f, N, n)]

BelowAll(N) == CHOOSE f : BelowEq(f, N)

(* A set of nodes that has the children of its nodes. *)
ClosedUnder(N, S) == \A n \in S : N[n].tag = "inner" => N[n].children[0] \in S /\ N[n].children[1] \in S

(* What can be reached from n is such a function.                          *)
LEMMA BelowExists ==
  ASSUME NEW N, NEW root, NEW T, NEW rank, Tree(N, root, T, rank)
  PROVE  BelowEq(BelowAll(N), N)
<1> DEFINE R(n) == {x \in Handles : \A S \in SUBSET Handles : n \in S /\ ClosedUnder(N, S) => x \in S}
           f == [n \in Handles |-> R(n)]
<1>0. \A n \in Handles : N[n].tag = "inner" => N[n].children[0] \in Handles /\ N[n].children[1] \in Handles
  <2> SUFFICES ASSUME NEW n \in Handles, N[n].tag = "inner"
               PROVE  N[n].children[0] \in Handles /\ N[n].children[1] \in Handles
    OBVIOUS
  <2>1. n \in T /\ 0 \in 0..1 /\ 1 \in 0..1 BY DEF Tree
  <2> QED BY <2>1 DEF Tree, Grown
<1>1. ASSUME NEW n \in Handles PROVE ClosedUnder(N, R(n)) /\ n \in R(n)
  <2>1. ASSUME NEW x \in R(n), N[x].tag = "inner", NEW c \in {N[x].children[0], N[x].children[1]} PROVE c \in R(n)
    <3>1. c \in Handles BY <1>0, <2>1
    <3>2. ASSUME NEW S \in SUBSET Handles, n \in S, ClosedUnder(N, S) PROVE c \in S
      <4>1. x \in S BY <3>2
      <4> QED BY <2>1, <3>2, <4>1 DEF ClosedUnder
    <3> QED BY <3>1, <3>2
  <2> HIDE DEF R
  <2>2. ClosedUnder(N, R(n)) BY <2>1 DEF ClosedUnder
  <2> QED BY <2>2 DEF R
<1>2. ASSUME NEW n \in Handles PROVE R(n) = BelowStep(f, N, n)
  <2>1. CASE N[n].tag # "inner"
    <3>1. ClosedUnder(N, {n}) BY <2>1 DEF ClosedUnder
    <3>2. \A x \in R(n) : x \in {n} BY <3>1
    <3>3. R(n) = {n}
      <4> HIDE DEF R
      <4> QED BY <1>1, <3>2
    <3> HIDE DEF R
    <3> QED BY <2>1, <3>3 DEF BelowStep
  <2>2. CASE N[n].tag = "inner"
    <3> DEFINE d == N[n].children[0]
               e == N[n].children[1]
               S == {n} \cup R(d) \cup R(e)
    <3>1. d \in Handles /\ e \in Handles BY <1>0, <2>2
    <3> HIDE DEF d, e
    <3>2. R(d) \subseteq Handles /\ R(e) \subseteq Handles OBVIOUS
    <3>3. ClosedUnder(N, S)
      <4> HIDE DEF R
      <4>1. d \in R(d) /\ e \in R(e) /\ ClosedUnder(N, R(d)) /\ ClosedUnder(N, R(e)) BY <1>1, <3>1
      <4> QED BY <4>1 DEF ClosedUnder, d, e
    <3>4. R(n) \subseteq S
      <4>1. S \in SUBSET Handles /\ n \in S
        <5> HIDE DEF R
        <5> QED BY <3>2
      <4> HIDE DEF S
      <4> QED BY <3>3, <4>1
    <3>5. R(d) \subseteq R(n) /\ R(e) \subseteq R(n)
      <4>1. d \in R(n) /\ e \in R(n)
        <5> HIDE DEF R
        <5> QED BY <1>1, <2>2 DEF ClosedUnder, d, e
      <4>2. ASSUME NEW x \in R(d), NEW U \in SUBSET Handles, n \in U, ClosedUnder(N, U) PROVE x \in U
        <5>1. d \in U BY <4>1, <4>2
        <5> QED BY <4>2, <5>1
      <4>3. ASSUME NEW x \in R(e), NEW U \in SUBSET Handles, n \in U, ClosedUnder(N, U) PROVE x \in U
        <5>1. e \in U BY <4>1, <4>3
        <5> QED BY <4>3, <5>1
      <4> QED BY <3>2, <4>2, <4>3
    <3> HIDE DEF R
    <3>6. R(n) = S BY <1>1, <3>4, <3>5
    <3>7. f[d] = R(d) /\ f[e] = R(e) BY <3>1
    <3> HIDE DEF f
    <3> QED BY <2>2, <3>6, <3>7 DEF BelowStep, d, e
  <2> QED BY <2>1, <2>2
<1>3. BelowEq(f, N)
  <2>1. f = [n \in Handles |-> BelowStep(f, N, n)]
    <3> HIDE DEF R
    <3>1. \A n \in Handles : f[n] = BelowStep(f, N, n) BY <1>2
    <3> HIDE DEF f
    <3>2. f = [n \in Handles |-> f[n]] BY DEF f
    <3> QED BY <3>1, <3>2
  <2> HIDE DEF f
  <2> QED BY <2>1 DEF BelowEq
<1> HIDE DEF f
<1> QED BY <1>3 DEF BelowAll

(* Below the root is the tree.                                             *)
LEMMA BelowTree ==
  ASSUME NEW N, NEW root, NEW T, NEW rank, Tree(N, root, T, rank), NEW f, BelowEq(f, N)
  PROVE  /\ \A h \in T : f[h] \subseteq T /\ h \in f[h] /\ ClosedUnder(N, f[h])
         /\ f[root] = T
<1>0. /\ T \subseteq Handles /\ root \in T /\ Ranked(T, rank, root) /\ Grown(N, T, rank) /\ Parented(N, T, root)
      /\ \A n \in Handles : f[n] = BelowStep(f, N, n)
  BY DEF Tree, BelowEq
<1>k. \A p \in T : N[p].tag = "inner" =>
        /\ N[p].children[0] \in T /\ rank[N[p].children[0]] < rank[p]
        /\ N[p].children[1] \in T /\ rank[N[p].children[1]] < rank[p]
  <2>1. 0 \in 0..1 /\ 1 \in 0..1 OBVIOUS
  <2> QED BY <1>0, <2>1 DEF Grown
<1> DEFINE Fine(h) == f[h] \subseteq T /\ h \in f[h] /\ ClosedUnder(N, f[h])
           Q == {k \in Nat : \A h \in T : rank[h] < k => Fine(h)}
<1>1. 0 \in Q
  <2>1. \A h \in T : ~(rank[h] < 0) BY <1>0 DEF Ranked
  <2> QED BY <2>1
<1>2. ASSUME NEW k \in Nat, k \in Q PROVE k + 1 \in Q
  <2> SUFFICES ASSUME NEW h \in T, rank[h] < k + 1 PROVE Fine(h) OBVIOUS
  <2>0. f[h] = BelowStep(f, N, h) /\ rank[h] \in Nat BY <1>0 DEF Ranked
  <2>1. CASE N[h].tag # "inner"
    <3>1. f[h] = {h} BY <2>0, <2>1 DEF BelowStep
    <3> QED BY <2>1, <3>1 DEF ClosedUnder
  <2>2. CASE N[h].tag = "inner"
    <3> DEFINE d == N[h].children[0]
               e == N[h].children[1]
    <3>1. d \in T /\ e \in T /\ rank[d] < rank[h] /\ rank[e] < rank[h] BY <1>k, <2>2
    <3>2. rank[d] < k /\ rank[e] < k BY <1>0, <2>0, <3>1 DEF Ranked
    <3>3. Fine(d) /\ Fine(e)
      <4> HIDE DEF d, e, Fine
      <4> QED BY <1>2, <3>1, <3>2
    <3>4. f[h] = {h} \cup f[d] \cup f[e] BY <2>0, <2>2 DEF BelowStep
    <3>5. ClosedUnder(N, f[h]) BY <3>3, <3>4 DEF ClosedUnder
    <3> QED BY <3>3, <3>4, <3>5
  <2> QED BY <2>1, <2>2
<1> HIDE DEF Q
<1>3. \A k \in Nat : k \in Q BY <1>1, <1>2, NatSetInduction
<1>4. ASSUME NEW h \in T PROVE Fine(h)
  <2>1. rank[h] + 1 \in Nat /\ rank[h] < rank[h] + 1 BY <1>0 DEF Ranked
  <2>2. rank[h] + 1 \in Q BY <1>3, <2>1
  <2> HIDE DEF Fine
  <2> QED BY <2>1, <2>2 DEF Q
<1> DEFINE D == {k \in Nat : \A x \in T : rank[x] + k >= rank[root] => x \in f[root]}
<1>5. ASSUME NEW x \in T, x # root
      PROVE  \E p \in T : rank[p] > rank[x] /\ (p \in f[root] => x \in f[root])
  <2>1. PICK p \in T, b \in 0..1 : Leads(N, p, b, x) BY <1>0, <1>5 DEF Parented
  <2>2. N[p].tag = "inner" /\ N[p].children[b] = x BY <2>1 DEF Leads
  <2>3. rank[x] < rank[p] BY <1>0, <2>2 DEF Grown
  <2>4. ClosedUnder(N, f[root]) BY <1>0, <1>4
  <2>5. b = 0 \/ b = 1 OBVIOUS
  <2>6. p \in f[root] => x \in f[root] BY <2>2, <2>4, <2>5 DEF ClosedUnder
  <2>7. rank[x] \in Nat /\ rank[p] \in Nat BY <1>0 DEF Ranked
  <2>8. rank[p] > rank[x] BY <2>3, <2>7
  <2> QED BY <2>6, <2>8
<1>6. 0 \in D
  <2> SUFFICES ASSUME NEW x \in T, rank[x] + 0 >= rank[root] PROVE x \in f[root] OBVIOUS
  <2>1. CASE x = root BY <1>0, <1>4, <2>1
  <2>2. CASE x # root
    <3>1. PICK p \in T : rank[p] > rank[x] BY <1>5, <2>2
    <3>2. rank[x] \in Nat /\ rank[p] \in Nat /\ rank[root] \in Nat /\ rank[p] <= rank[root] BY <1>0 DEF Ranked
    <3>3. FALSE BY <3>1, <3>2
    <3> QED BY <3>3
  <2> QED BY <2>1, <2>2
<1>7. ASSUME NEW k \in Nat, k \in D PROVE k + 1 \in D
  <2> SUFFICES ASSUME NEW x \in T, rank[x] + (k + 1) >= rank[root] PROVE x \in f[root] OBVIOUS
  <2>1. CASE x = root BY <1>0, <1>4, <2>1
  <2>2. CASE x # root
    <3>1. PICK p \in T : rank[p] > rank[x] /\ (p \in f[root] => x \in f[root]) BY <1>5, <2>2
    <3>2. rank[x] \in Nat /\ rank[p] \in Nat /\ rank[root] \in Nat BY <1>0 DEF Ranked
    <3>3. rank[p] + k >= rank[root] BY <3>1, <3>2
    <3>4. p \in f[root] BY <1>7, <3>3
    <3> QED BY <3>1, <3>4
  <2> QED BY <2>1, <2>2
<1> HIDE DEF D
<1>8. \A k \in Nat : k \in D BY <1>6, <1>7, NatSetInduction
<1>9. T \subseteq f[root]
  <2> SUFFICES ASSUME NEW x \in T PROVE x \in f[root] OBVIOUS
  <2>1. rank[x] \in Nat /\ rank[root] \in Nat BY <1>0 DEF Ranked
  <2>2. rank[x] + rank[root] >= rank[root] BY <2>1
  <2> QED BY <1>8, <2>1, <2>2 DEF D
<1>10. f[root] \subseteq T BY <1>0, <1>4
<1> QED BY <1>4, <1>9, <1>10

(* A tree whose root is a leaf has no other node.                          *)
LEMMA LeafRoot ==
  ASSUME NEW N, NEW root, NEW T, NEW rank, Tree(N, root, T, rank), N[root].tag # "inner"
  PROVE  T = {root}
<1> DEFINE f == BelowAll(N)
<1>1. BelowEq(f, N) BY BelowExists
<1> HIDE DEF f
<1>2. f[root] = T BY <1>1, BelowTree
<1>3. root \in Handles BY DEF Tree
<1>4. f[root] = BelowStep(f, N, root) BY <1>1, <1>3 DEF BelowEq
<1> QED BY <1>2, <1>4 DEF BelowStep

(* The tree of an account is what is below its root.                       *)
LEMMA BelowSide ==
  ASSUME NEW T, NEW rank, Tree(side.nodes, side.root_node, T, rank)
  PROVE  \A h \in Handles : Below(h) = BelowAll(side.nodes)[h]
BY DEF Below, BelowAll, BelowEq, BelowStep, is_inner

(* The walk towards a key, as a function on the nodes. *)
PathStep(f, t, key, Via, h) ==
  IF h \in Via
  THEN <<[h |-> h, bit |-> walk_down(t, h, key).bit]>> \o f[walk_down(t, h, key).h]
  ELSE <<>>

PathEq(f, t, key, Via) == f = [h \in Handles |-> PathStep(f, t, key, Via, h)]

PathAll(t, key, Via) == CHOOSE f : PathEq(f, t, key, Via)

(* The function is right for the nodes outside Via and the ones of a rank  *)
(* below k.                                                                *)
PathUpTo(f, t, key, Via, rank, k) ==
  /\ f = [h \in Handles |-> f[h]]
  /\ \A h \in Handles : (h \in Via => rank[h] < k) => f[h] = PathStep(f, t, key, Via, h)

(* A step of a walk goes to a child.                                       *)
LEMMA WalkDown ==
  ASSUME NEW t, NEW T, NEW rank, Tree(t.nodes, t.root_node, T, rank), NEW key, NEW h \in Inner(t)
  PROVE  /\ h \in T /\ walk_down(t, h, key).bit \in 0..1 /\ walk_down(t, h, key).h \in T
         /\ Leads(t.nodes, h, walk_down(t, h, key).bit, walk_down(t, h, key).h)
         /\ rank[walk_down(t, h, key).h] < rank[h]
<1> DEFINE b == Bit(key, t.nodes[h].prefix_len)
<1>1. b \in 0..1 BY DEF Bit
<1> HIDE DEF b
<1>2. walk_down(t, h, key) = [h |-> t.nodes[h].children[b], bit |-> b] BY DEF walk_down, b
<1>3. walk_down(t, h, key).bit = b /\ walk_down(t, h, key).h = t.nodes[h].children[b] BY <1>2
<1>4. h \in Handles /\ t.nodes[h].tag = "inner" BY DEF Inner, is_inner
<1>5. h \in T BY <1>4 DEF Tree
<1>6. t.nodes[h].children[b] \in T /\ rank[t.nodes[h].children[b]] < rank[h]
  BY <1>1, <1>4, <1>5 DEF Tree, Grown
<1> QED BY <1>1, <1>3, <1>4, <1>5, <1>6 DEF Leads

(* A walk through inner nodes is well-defined: it goes down.               *)
LEMMA PathExists ==
  ASSUME NEW t, NEW T, NEW rank, Tree(t.nodes, t.root_node, T, rank), NEW key, NEW Via, Via \subseteq Inner(t)
  PROVE  PathEq(PathAll(t, key, Via), t, key, Via)
<1> DEFINE w(h) == walk_down(t, h, key).h
           Step(f, h) == PathStep(f, t, key, Via, h)
           Q == {k \in Nat : \E f : PathUpTo(f, t, key, Via, rank, k)}
<1>0. /\ T \subseteq Handles /\ \A h \in T : rank[h] \in Nat /\ rank[h] <= rank[t.root_node]
      /\ t.root_node \in T
  BY DEF Tree, Ranked
<1>w. \A h \in Via : h \in T /\ w(h) \in T /\ rank[w(h)] < rank[h] BY WalkDown
<1> HIDE DEF w
<1>1. 0 \in Q
  <2> DEFINE f == [h \in Handles |-> <<>>]
  <2>1. ASSUME NEW h \in Handles, h \in Via => rank[h] < 0 PROVE f[h] = Step(f, h)
    <3>1. h \notin Via BY <1>0, <1>w, <2>1
    <3> QED BY <3>1 DEF PathStep
  <2>2. f = [h \in Handles |-> f[h]] OBVIOUS
  <2> HIDE DEF f
  <2>3. PathUpTo(f, t, key, Via, rank, 0) BY <2>1, <2>2 DEF PathUpTo
  <2> QED BY <2>3
<1>2. ASSUME NEW k \in Nat, k \in Q PROVE k + 1 \in Q
  <2>1. PICK f : PathUpTo(f, t, key, Via, rank, k) BY <1>2
  <2> DEFINE g == [h \in Handles |-> IF h \in Via /\ ~(rank[h] < k) THEN Step(f, h) ELSE f[h]]
  <2>2. ASSUME NEW h \in Handles, h \in Via => rank[h] < k + 1 PROVE g[h] = Step(f, h)
    BY <2>1 DEF PathUpTo
  <2>3. ASSUME NEW h \in Handles, h \in Via => rank[h] < k + 1 PROVE Step(f, h) = Step(g, h)
    <3>1. CASE h \notin Via BY <3>1 DEF PathStep
    <3>2. CASE h \in Via
      <4>1. w(h) \in T /\ rank[w(h)] < rank[h] /\ rank[h] < k + 1 BY <1>w, <2>3, <3>2
      <4>2. rank[w(h)] < k BY <1>0, <1>w, <3>2, <4>1
      <4>3. w(h) \in Handles BY <1>0, <4>1
      <4>4. g[w(h)] = f[w(h)] BY <4>2, <4>3
      <4> HIDE DEF g
      <4> QED BY <3>2, <4>4 DEF PathStep, w
    <3> QED BY <3>1, <3>2
  <2>4. g = [h \in Handles |-> g[h]] OBVIOUS
  <2> HIDE DEF g
  <2>5. PathUpTo(g, t, key, Via, rank, k + 1)
    <3>1. ASSUME NEW h \in Handles, h \in Via => rank[h] < k + 1 PROVE g[h] = Step(g, h) BY <2>2, <2>3, <3>1
    <3> QED BY <2>4, <3>1 DEF PathUpTo
  <2> QED BY <2>5
<1> HIDE DEF Q
<1>3. \A k \in Nat : k \in Q BY <1>1, <1>2, NatSetInduction
<1>4. rank[t.root_node] + 1 \in Nat BY <1>0
<1>5. PICK f : PathUpTo(f, t, key, Via, rank, rank[t.root_node] + 1) BY <1>3, <1>4 DEF Q
<1>6. ASSUME NEW h \in Handles PROVE f[h] = Step(f, h)
  <2>1. h \in Via => rank[h] < rank[t.root_node] + 1 BY <1>0, <1>w
  <2> QED BY <1>5, <2>1 DEF PathUpTo
<1>7. f = [h \in Handles |-> f[h]] BY <1>5 DEF PathUpTo
<1>8. PathEq(f, t, key, Via) BY <1>6, <1>7 DEF PathEq
<1> QED BY <1>8 DEF PathAll

(* The stack s leads from h to e through nodes of Via, each below the one  *)
(* before it.                                                              *)
Trail(t, key, Via, rank, h, s, e) ==
  /\ s \in Seq([h : Handles, bit : 0..1])
  /\ h = IF s = <<>> THEN e ELSE s[1].h
  /\ \A i \in 1..Len(s) :
       /\ s[i].h \in Via /\ s[i].bit = walk_down(t, s[i].h, key).bit
       /\ walk_down(t, s[i].h, key).h = IF i = Len(s) THEN e ELSE s[i + 1].h
       /\ rank[s[i].h] <= rank[h]
  /\ \A i, j \in 1..Len(s) : i < j => rank[s[j].h] < rank[s[i].h]

(* Every walk has an end, outside Via.                                     *)
LEMMA WalkEnds ==
  ASSUME NEW t, NEW T, NEW rank, Tree(t.nodes, t.root_node, T, rank), NEW key, NEW Via, Via \subseteq Inner(t),
         NEW f, PathEq(f, t, key, Via)
  PROVE  \A h \in T : \E e \in T : e \notin Via /\ Trail(t, key, Via, rank, h, f[h], e)
<1> DEFINE w(h) == walk_down(t, h, key).h
           Fine(h) == \E e \in T : e \notin Via /\ Trail(t, key, Via, rank, h, f[h], e)
           Q == {k \in Nat : \A h \in T : rank[h] < k => Fine(h)}
<1>0. /\ T \subseteq Handles /\ \A h \in T : rank[h] \in Nat
      /\ \A h \in Handles : f[h] = PathStep(f, t, key, Via, h)
  BY DEF Tree, Ranked, PathEq
<1>w. \A h \in Via : h \in T /\ w(h) \in T /\ rank[w(h)] < rank[h] /\ walk_down(t, h, key).bit \in 0..1
  BY WalkDown
<1> HIDE DEF w
<1>1. 0 \in Q
  <2>1. \A h \in T : ~(rank[h] < 0) BY <1>0
  <2> HIDE DEF Fine
  <2> QED BY <2>1
<1>2. ASSUME NEW k \in Nat, k \in Q PROVE k + 1 \in Q
  <2> SUFFICES ASSUME NEW h \in T, rank[h] < k + 1 PROVE Fine(h)
    <3> HIDE DEF Fine
    <3> QED OBVIOUS
  <2>0. f[h] = PathStep(f, t, key, Via, h) /\ rank[h] \in Nat /\ h \in Handles BY <1>0
  <2>1. CASE h \notin Via
    <3>1. f[h] = <<>> BY <2>0, <2>1 DEF PathStep
    <3>2. Len(<<>>) = 0 /\ 1..0 = {} /\ <<>> \in Seq([h : Handles, bit : 0..1]) OBVIOUS
    <3>3. Trail(t, key, Via, rank, h, <<>>, h) BY <3>2 DEF Trail
    <3> QED BY <2>1, <3>1, <3>3
  <2>2. CASE h \in Via
    <3> DEFINE c == w(h)
               u == f[c]
               x == [h |-> h, bit |-> walk_down(t, h, key).bit]
               s == <<x>> \o u
    <3>1. c \in T /\ rank[c] < rank[h] /\ x.h = h /\ x.bit = walk_down(t, h, key).bit /\ x.bit \in 0..1 BY <1>w, <2>2
    <3>2. rank[c] < k BY <1>0, <3>1
    <3>3. Fine(c)
      <4> HIDE DEF Fine, c
      <4> QED BY <1>2, <3>1, <3>2
    <3>4. PICK e \in T : e \notin Via /\ Trail(t, key, Via, rank, c, u, e) BY <3>3
    <3>5. f[h] = s BY <2>0, <2>2 DEF PathStep, w
    <3>6. u \in Seq([h : Handles, bit : 0..1]) BY <3>4 DEF Trail
    <3>7. x \in [h : Handles, bit : 0..1] BY <2>0, <3>1
    <3>c. walk_down(t, h, key).h = c BY DEF w
    <3> HIDE DEF c, u, x
    <3>8. /\ s \in Seq([h : Handles, bit : 0..1]) /\ Len(s) = Len(u) + 1 /\ s[1] = x /\ Len(u) \in Nat
          /\ \A i \in 1..Len(u) : s[i + 1] = u[i]
      BY <3>6, <3>7
    <3>9. s # <<>> BY <3>8
    <3> HIDE DEF s
    <3>u. /\ c = IF u = <<>> THEN e ELSE u[1].h
          /\ \A i \in 1..Len(u) :
               /\ u[i].h \in Via /\ u[i].bit = walk_down(t, u[i].h, key).bit
               /\ walk_down(t, u[i].h, key).h = IF i = Len(u) THEN e ELSE u[i + 1].h
               /\ rank[u[i].h] <= rank[c]
          /\ \A i, j \in 1..Len(u) : i < j => rank[u[j].h] < rank[u[i].h]
      BY <3>4 DEF Trail
    <3>v. \A i \in 1..Len(u) : rank[u[i].h] \in Nat BY <1>0, <1>w, <3>u
    <3>10. ASSUME NEW i \in 1..Len(s)
           PROVE  /\ s[i].h \in Via /\ s[i].bit = walk_down(t, s[i].h, key).bit
                  /\ walk_down(t, s[i].h, key).h = IF i = Len(s) THEN e ELSE s[i + 1].h
                  /\ rank[s[i].h] <= rank[h]
      <4>1. CASE i = 1
        <5>1. s[i].h = h /\ s[i].bit = walk_down(t, h, key).bit BY <3>1, <3>8, <4>1
        <5>2. c = IF i = Len(s) THEN e ELSE s[i + 1].h
          <6>1. CASE u = <<>>
            <7>1. Len(u) = 0 BY <6>1
            <7> QED BY <3>8, <3>u, <4>1, <6>1, <7>1
          <6>2. CASE u # <<>>
            <7>1. Len(u) # 0 /\ 1 \in 1..Len(u) BY <3>6, <3>8, <6>2
            <7> QED BY <3>8, <3>u, <4>1, <6>2, <7>1
          <6> QED BY <6>1, <6>2
        <5> QED BY <2>0, <2>2, <3>c, <5>1, <5>2
      <4>2. CASE i # 1
        <5> DEFINE j == i - 1
        <5>1. j \in 1..Len(u) /\ s[i] = u[j] /\ (i = Len(s) <=> j = Len(u))
              /\ (j # Len(u) => s[i + 1] = u[j + 1])
          <6>1. j \in 1..Len(u) /\ j + 1 = i /\ (i = Len(s) <=> j = Len(u)) BY <3>8, <4>2
          <6>2. j # Len(u) => j + 1 \in 1..Len(u) /\ (j + 1) + 1 = i + 1 BY <3>8, <6>1
          <6> QED BY <3>8, <6>1, <6>2
        <5> HIDE DEF j
        <5>2. rank[u[j].h] <= rank[c] /\ rank[u[j].h] \in Nat /\ rank[c] \in Nat BY <1>0, <3>1, <3>u, <3>v, <5>1
        <5>3. rank[u[j].h] <= rank[h] BY <2>0, <3>1, <5>2
        <5> QED BY <3>u, <5>1, <5>3
      <4> QED BY <4>1, <4>2
    <3>11. ASSUME NEW i \in 1..Len(s), NEW j \in 1..Len(s), i < j PROVE rank[s[j].h] < rank[s[i].h]
      <4>1. j - 1 \in 1..Len(u) /\ s[(j - 1) + 1] = u[j - 1] /\ (j - 1) + 1 = j BY <3>8, <3>11
      <4>2. s[j] = u[j - 1] BY <4>1
      <4>3. CASE i = 1
        <5>1. s[i].h = h BY <3>1, <3>8, <4>3
        <5>2. rank[u[j - 1].h] <= rank[c] /\ rank[u[j - 1].h] \in Nat /\ rank[c] \in Nat BY <1>0, <3>1, <3>u, <3>v, <4>1
        <5>3. rank[u[j - 1].h] < rank[h] BY <2>0, <3>1, <5>2
        <5> QED BY <4>2, <5>1, <5>3
      <4>4. CASE i # 1
        <5>1. i - 1 \in 1..Len(u) /\ s[(i - 1) + 1] = u[i - 1] /\ (i - 1) + 1 = i /\ i - 1 < j - 1 BY <3>8, <3>11, <4>4
        <5>2. s[i] = u[i - 1] BY <5>1
        <5> QED BY <3>u, <4>1, <4>2, <5>1, <5>2
      <4> QED BY <4>3, <4>4
    <3>12. h = s[1].h BY <3>1, <3>8
    <3>13. Trail(t, key, Via, rank, h, s, e) BY <3>8, <3>9, <3>10, <3>11, <3>12 DEF Trail
    <3> QED BY <3>4, <3>5, <3>13
  <2> QED BY <2>1, <2>2
<1> HIDE DEF Q
<1>3. \A k \in Nat : k \in Q BY <1>1, <1>2, NatSetInduction
<1> SUFFICES ASSUME NEW h \in T PROVE Fine(h) OBVIOUS
<1>4. rank[h] + 1 \in Nat /\ rank[h] < rank[h] + 1 BY <1>0
<1>5. rank[h] + 1 \in Q BY <1>3, <1>4
<1> HIDE DEF Fine
<1> QED BY <1>4, <1>5 DEF Q

(* So the walk from the root leads to the node EndOf tells.                *)
LEMMA PathEnds ==
  ASSUME NEW t, NEW T, NEW rank, Tree(t.nodes, t.root_node, T, rank), NEW key, NEW Via, Via \subseteq Inner(t)
  PROVE  LET s == Path(t, key, Via)
             e == EndOf(t, s, key)
         IN  e \in T /\ e \notin Via /\ Trail(t, key, Via, rank, t.root_node, s, e)
<1> DEFINE f == PathAll(t, key, Via)
           s == Path(t, key, Via)
<1>1. PathEq(f, t, key, Via) BY PathExists
<1>2. Path(t, key, Via) = f[t.root_node] BY DEF Path, PathAll, PathEq, PathStep
<1> HIDE DEF f
<1>3. t.root_node \in T BY DEF Tree
<1>4. PICK e \in T : e \notin Via /\ Trail(t, key, Via, rank, t.root_node, f[t.root_node], e)
  BY <1>1, <1>3, WalkEnds
<1>5. Trail(t, key, Via, rank, t.root_node, s, e) BY <1>2, <1>4
<1> HIDE DEF s
<1>6. EndOf(t, s, key) = e
  <2>1. CASE s = <<>> BY <1>5, <2>1 DEF EndOf, Trail
  <2>2. CASE s # <<>>
    <3>1. s \in Seq([h : Handles, bit : 0..1]) BY <1>5 DEF Trail
    <3>2. Len(s) \in 1..Len(s) BY <2>2, <3>1
    <3>3. walk_down(t, s[Len(s)].h, key).h = e BY <1>5, <3>2 DEF Trail
    <3> QED BY <2>2, <3>3 DEF EndOf, Last
  <2> QED BY <2>1, <2>2
<1> QED BY <1>4, <1>5, <1>6 DEF s

InnerShape(n) ==
  /\ n.tag = "inner" /\ n.child_earliest_expiry \in [0..1 -> Int]
  /\ DOMAIN n = {"tag", "prefix_len", "key", "children", "child_earliest_expiry"}

(* Leaves have an expiry and inner nodes their caches. *)
Shapes(N, T) ==
  /\ N = [h \in Handles |-> N[h]]
  /\ \A h \in T : IF N[h].tag = "inner" THEN InnerShape(N[h]) ELSE N[h].expiry \in Int

(* The cache of p for its child on side b is exact. *)
Fresh(N, p, b) == N[p].child_earliest_expiry[b] = earliest_expiry(N[N[p].children[b]])

Cached(N, T) == \A p \in T, b \in 0..1 : N[p].tag = "inner" => Fresh(N, p, b)

(* All caches but the one for c are. *)
CachedBut(N, T, c) == \A p \in T, b \in 0..1 : N[p].tag = "inner" /\ N[p].children[b] # c => Fresh(N, p, b)

(* M differs from N in caches only. *)
Alike(N, M) ==
  /\ M = [h \in Handles |-> M[h]]
  /\ \A h \in Handles : IF N[h].tag = "inner" THEN InnerShape(M[h]) /\ M[h].children = N[h].children
                        ELSE M[h] = N[h]

(* The stack s leads down to e. *)
Climb(N, T, root, s, e) ==
  /\ s \in Seq([h : Handles, bit : 0..1]) /\ e \in T
  /\ root = IF s = <<>> THEN e ELSE s[1].h
  /\ \A i \in 1..Len(s) :
       s[i].h \in T /\ Leads(N, s[i].h, s[i].bit, IF i = Len(s) THEN e ELSE s[i + 1].h)

(* While the caches above c are brought up to date: only the one for c may *)
(* be wrong, and then it is the outdated value.                            *)
Updating(N, T, acc, c) ==
  /\ acc = [nodes |-> acc.nodes, outdated |-> acc.outdated, new |-> acc.new, stop |-> acc.stop]
  /\ Alike(N, acc.nodes) /\ acc.new \in Int
  /\ acc.stop = TRUE => Cached(acc.nodes, T)
  /\ acc.stop # TRUE =>
       /\ acc.stop = FALSE
       /\ CachedBut(acc.nodes, T, c) /\ acc.new = earliest_expiry(acc.nodes[c])
       /\ \A p \in T, b \in 0..1 : Leads(N, p, b, c) =>
            acc.nodes[p].child_earliest_expiry[b] \in {acc.outdated, acc.new}

(* The earliest expiry of a node is a number.                              *)
LEMMA EarliestInt ==
  ASSUME NEW n, IF n.tag = "inner" THEN InnerShape(n) ELSE n.tag = "leaf" /\ n.expiry \in Int
  PROVE  /\ earliest_expiry(n) \in Int
         /\ n.tag = "inner" => /\ earliest_expiry(n) \in {n.child_earliest_expiry[0], n.child_earliest_expiry[1]}
                               /\ earliest_expiry(n) <= n.child_earliest_expiry[0]
                               /\ earliest_expiry(n) <= n.child_earliest_expiry[1]
<1>1. CASE n.tag = "inner"
  <2> DEFINE x == n.child_earliest_expiry[0]
             y == n.child_earliest_expiry[1]
  <2>1. x \in Int /\ y \in Int
    <3> 0 \in 0..1 /\ 1 \in 0..1 OBVIOUS
    <3> QED BY <1>1 DEF InnerShape
  <2>2. earliest_expiry(n) = Min({x, y}) BY <1>1 DEF earliest_expiry
  <2> HIDE DEF x, y
  <2>3. Min({x, y}) = (IF x <= y THEN x ELSE y) BY <2>1, MinTwo
  <2>4. Min({x, y}) \in Int /\ Min({x, y}) \in {x, y} /\ Min({x, y}) <= x /\ Min({x, y}) <= y BY <2>1, <2>3
  <2> QED BY <2>2, <2>4 DEF x, y
<1>2. CASE n.tag # "inner" BY <1>2 DEF earliest_expiry
<1> QED BY <1>1, <1>2

(* One step of the update, at the parent of c.                             *)
LEMMA UpdateStep ==
  ASSUME NEW N, NEW root, NEW T, NEW rank, Tree(N, root, T, rank), Shapes(N, T),
         NEW acc, NEW c \in T, Updating(N, T, acc, c), NEW p \in T, NEW b \in 0..1, Leads(N, p, b, c),
         NEW x, x.h = p, x.bit = b
  PROVE  Updating(N, T, UpdateOne(acc, x), p)
<1> DEFINE M == acc.nodes
           out == acc.outdated
           up == [M[p] EXCEPT !.child_earliest_expiry[b] = acc.new]
           M2 == [M EXCEPT ![p] = up]
           stopped == [acc EXCEPT !.stop = TRUE]
           moved == [acc EXCEPT !.outdated = earliest_expiry(M[p]), !.nodes[p] = up, !.new = earliest_expiry(up)]
<1>0. /\ T \subseteq Handles /\ N[p].tag = "inner" /\ N[p].children[b] = c /\ Alike(N, M) /\ acc.new \in Int
      /\ \A h \in T : N[h].tag = "leaf" \/ N[h].tag = "inner"
      /\ \A h \in T : rank[h] \in Nat
  BY DEF Tree, Leads, Updating, Ranked
<1>a. acc = [nodes |-> M, outdated |-> out, new |-> acc.new, stop |-> acc.stop] BY DEF Updating
<1>b. p \in Handles /\ c \in Handles /\ InnerShape(M[p]) /\ M[p].children[b] = c /\ M[p].tag = "inner"
  BY <1>0 DEF Alike, InnerShape
<1>c. \A q \in T : M[q].tag = "inner" <=> N[q].tag = "inner" BY <1>0 DEF Alike, InnerShape
<1>d. \A q \in T : M[q].tag = "inner" => InnerShape(M[q]) /\ M[q].children = N[q].children BY <1>0, <1>c DEF Alike
<1>e. \A q \in T, d \in 0..1 : M[q].tag = "inner" /\ M[q].children[d] = c => q = p /\ d = b
  <2> SUFFICES ASSUME NEW q \in T, NEW d \in 0..1, M[q].tag = "inner", M[q].children[d] = c PROVE q = p /\ d = b
    OBVIOUS
  <2>1. Leads(N, q, d, c) BY <1>c, <1>d DEF Leads
  <2> QED BY <2>1 DEF Tree, OneParent
<1>f. c # p
  <2>1. rank[c] < rank[p] BY <1>0 DEF Tree, Grown
  <2>2. rank[c] \in Nat BY <1>0
  <2> QED BY <2>1, <2>2
<1>g. UpdateOne(acc, x) = IF acc.stop \/ M[p].child_earliest_expiry[b] # out THEN stopped ELSE moved
  BY DEF UpdateOne
<1>s. /\ stopped = [nodes |-> M, outdated |-> out, new |-> acc.new, stop |-> TRUE]
      /\ stopped.nodes = M /\ stopped.outdated = out /\ stopped.new = acc.new /\ stopped.stop = TRUE
  <2> DEFINE nw == acc.new
             st == acc.stop
  <2>1. acc = [nodes |-> M, outdated |-> out, new |-> nw, stop |-> st] BY <1>a
  <2>a. stopped = [acc EXCEPT !.stop = TRUE] OBVIOUS
  <2> HIDE DEF M, out, nw, st, stopped
  <2>2. stopped = [nodes |-> M, outdated |-> out, new |-> nw, stop |-> TRUE] BY <2>1, <2>a
  <2>3. /\ stopped.nodes = M /\ stopped.outdated = out /\ stopped.new = nw /\ stopped.stop = TRUE
    BY ONLY <2>2
  <2> QED BY <2>2, <2>3 DEF nw
<1>1. CASE acc.stop = TRUE
  <2>1. UpdateOne(acc, x) = stopped BY <1>1, <1>g
  <2>2. Cached(M, T) BY <1>1 DEF Updating
  <2> HIDE DEF stopped, M, out
  <2> QED BY <1>0, <1>s, <2>1, <2>2 DEF Updating
<1>2. CASE acc.stop # TRUE
  <2>0. /\ acc.stop = FALSE /\ CachedBut(M, T, c) /\ acc.new = earliest_expiry(M[c])
        /\ M[p].child_earliest_expiry[b] \in {out, acc.new}
    BY <1>2 DEF Updating
  <2>1. CASE M[p].child_earliest_expiry[b] # out
    <3>1. UpdateOne(acc, x) = stopped BY <1>g, <2>1
    <3>2. Fresh(M, p, b)
      <4>1. M[p].child_earliest_expiry[b] = acc.new BY <2>0, <2>1
      <4> HIDE DEF M
      <4> QED BY <1>b, <2>0, <4>1 DEF Fresh
    <3>3. Cached(M, T)
      <4> HIDE DEF M
      <4> QED BY <1>e, <2>0, <3>2 DEF Cached, CachedBut
    <3> HIDE DEF stopped, M, out
    <3> QED BY <1>0, <1>s, <3>1, <3>3 DEF Updating
  <2>2. CASE M[p].child_earliest_expiry[b] = out
    <3>1. UpdateOne(acc, x) = moved BY <1>g, <2>0, <2>2
    <3>2. /\ moved = [nodes |-> M2, outdated |-> earliest_expiry(M[p]), new |-> earliest_expiry(up), stop |-> FALSE]
          /\ moved.nodes = M2 /\ moved.outdated = earliest_expiry(M[p]) /\ moved.new = earliest_expiry(up)
          /\ moved.stop = FALSE
      <4> DEFINE nw == acc.new
                 st == acc.stop
                 ep == earliest_expiry(M[p])
                 eu == earliest_expiry(up)
      <4>1. acc = [nodes |-> M, outdated |-> out, new |-> nw, stop |-> st] /\ st = FALSE BY <1>a, <2>0
      <4>2. moved = [acc EXCEPT !.outdated = ep, !.nodes = [M EXCEPT ![p] = up], !.new = eu] OBVIOUS
      <4> HIDE DEF M, out, up, nw, st, ep, eu, moved
      <4>3. moved = [nodes |-> M2, outdated |-> ep, new |-> eu, stop |-> FALSE] BY <4>1, <4>2
      <4>4. moved.nodes = M2 /\ moved.outdated = ep /\ moved.new = eu /\ moved.stop = FALSE
        <5> HIDE DEF M2
        <5> QED BY ONLY <4>3
      <4> QED BY <4>3, <4>4 DEF ep, eu
    <3>3. /\ InnerShape(up) /\ up.tag = "inner" /\ up.children = M[p].children /\ up.child_earliest_expiry[b] = acc.new
          /\ \A d \in 0..1 : d # b => up.child_earliest_expiry[d] = M[p].child_earliest_expiry[d]
      <4> DEFINE n == M[p]
                 cee == [n.child_earliest_expiry EXCEPT ![b] = acc.new]
      <4>1. n.child_earliest_expiry \in [0..1 -> Int] /\ n.tag = "inner"
            /\ DOMAIN n = {"tag", "prefix_len", "key", "children", "child_earliest_expiry"}
        BY <1>b DEF InnerShape
      <4>2. up = [n EXCEPT !.child_earliest_expiry = cee] OBVIOUS
      <4> HIDE DEF n, up
      <4>3. cee \in [0..1 -> Int] /\ cee[b] = acc.new /\ \A d \in 0..1 : d # b => cee[d] = n.child_earliest_expiry[d]
        BY <1>0, <4>1
      <4> HIDE DEF cee
      <4>4. up.tag = "inner" /\ up.children = n.children /\ up.child_earliest_expiry = cee /\ DOMAIN up = DOMAIN n
        BY <4>1, <4>2
      <4> QED BY <4>1, <4>3, <4>4 DEF InnerShape, n
    <3> HIDE DEF up, moved
    <3>4. /\ M2 = [h \in Handles |-> M2[h]] /\ M2[p] = up
          /\ \A h \in Handles : h # p => M2[h] = M[h]
      <4>1. M = [h \in Handles |-> M[h]] BY <1>0 DEF Alike
      <4> HIDE DEF M
      <4>2. M2 = [h \in Handles |-> IF h = p THEN up ELSE M[h]] BY <1>b, <4>1
      <4> HIDE DEF M2
      <4> QED BY <1>b, <4>2
    <3> HIDE DEF M2, M, out
    <3>5. Alike(N, M2)
      <4> SUFFICES ASSUME NEW h \in Handles
                   PROVE  IF N[h].tag = "inner" THEN InnerShape(M2[h]) /\ M2[h].children = N[h].children
                          ELSE M2[h] = N[h]
        BY <3>4 DEF Alike
      <4>1. CASE h = p BY <1>0, <1>b, <1>d, <3>3, <3>4, <4>1
      <4>2. CASE h # p BY <1>0, <3>4, <4>2 DEF Alike
      <4> QED BY <4>1, <4>2
    <3>6. earliest_expiry(up) \in Int BY <3>3, EarliestInt
    <3>7. CachedBut(M2, T, p)
      <4> SUFFICES ASSUME NEW q \in T, NEW d \in 0..1, M2[q].tag = "inner", M2[q].children[d] # p
                   PROVE  Fresh(M2, q, d)
        BY DEF CachedBut
      <4>1. q \in Handles BY <1>0
      <4>2. M[q].tag = "inner" /\ M[q].children = M2[q].children BY <1>b, <3>3, <3>4, <4>1
      <4> DEFINE y == M[q].children[d]
      <4>3. y \in T BY <1>0, <1>c, <1>d, <4>2 DEF Tree, Grown
      <4>4. y # p /\ M2[y] = M[y] BY <1>0, <3>4, <4>2, <4>3
      <4>5. CASE q = p /\ d = b
        <5>1. y = c /\ M2[q].child_earliest_expiry[d] = acc.new BY <1>b, <3>3, <3>4, <4>5
        <5> QED BY <2>0, <4>2, <4>4, <5>1 DEF Fresh
      <4>6. CASE ~(q = p /\ d = b)
        <5>1. y # c BY <1>e, <4>2, <4>6
        <5>2. Fresh(M, q, d) BY <2>0, <4>2, <5>1 DEF CachedBut
        <5>3. M2[q].child_earliest_expiry[d] = M[q].child_earliest_expiry[d] BY <3>3, <3>4, <4>1, <4>6
        <5> QED BY <4>2, <4>4, <5>2, <5>3 DEF Fresh
      <4> QED BY <4>5, <4>6
    <3>8. ASSUME NEW q \in T, NEW d \in 0..1, Leads(N, q, d, p)
          PROVE  M2[q].child_earliest_expiry[d] = earliest_expiry(M[p])
      <4>1. N[q].tag = "inner" /\ N[q].children[d] = p BY <3>8 DEF Leads
      <4>2. rank[p] < rank[q] BY <4>1 DEF Tree, Grown
      <4>3. q # p BY <1>0, <4>2
      <4>4. M[q].tag = "inner" /\ M[q].children[d] = p BY <1>c, <1>d, <4>1
      <4>5. Fresh(M, q, d) BY <1>f, <2>0, <4>4 DEF CachedBut
      <4>6. M2[q] = M[q] BY <1>0, <3>4, <4>3
      <4> QED BY <4>4, <4>5, <4>6 DEF Fresh
    <3> QED BY <3>1, <3>2, <3>4, <3>5, <3>6, <3>7, <3>8 DEF Updating
  <2> QED BY <2>1, <2>2
<1> QED BY <1>1, <1>2

(* The fold of update_parent_earliest_expiry, as a function on the subsets *)
(* of the positions of the stack.                                          *)
LiftEq(g, base, seq) ==
  g = [s \in SUBSET DOMAIN seq |->
         IF s = {} THEN base ELSE UpdateOne(g[s \ {Max(s)}], seq[Max(s)])]

IsLift(g, base, seq, D) ==
  \A s \in D : g[s] = IF s = {} THEN base ELSE UpdateOne(g[s \ {Max(s)}], seq[Max(s)])

Lift(base, seq) == (CHOOSE g : LiftEq(g, base, seq))[DOMAIN seq]

(* That function exists.                                                   *)
LEMMA LiftExists ==
  ASSUME NEW n \in Nat, NEW seq, DOMAIN seq = 1..n, NEW base
  PROVE  \E g : LiftEq(g, base, seq)
<1> DEFINE S == 1..n
           Q == {k \in Nat : \E g : DOMAIN g = Small(S, k) /\ IsLift(g, base, seq, Small(S, k))}
<1>0. IsFiniteSet(S) /\ S \subseteq Int
  <2> 1 \in Int /\ n \in Int OBVIOUS
  <2> QED BY FS_Interval
<1>1. \A s \in SUBSET S :
        IsFiniteSet(s) /\ Cardinality(s) \in Nat /\ Cardinality(s) <= Cardinality(S)
  BY <1>0, FS_Subset, FS_CardinalityType
<1>a. ASSUME NEW s \in SUBSET S, s # {} PROVE Max(s) \in s
  <2> s \subseteq Int BY <1>0
  <2> IsFiniteSet(s) BY <1>1
  <2> QED BY <1>a, MaxMin
<1>0a. Cardinality(S) \in Nat BY <1>0, FS_CardinalityType
<1>0b. DOMAIN seq = S OBVIOUS
<1> HIDE DEF S
<1>2. 0 \in Q
  <2> DEFINE g == [s \in Small(S, 0) |-> base]
  <2>1. \A s \in Small(S, 0) : s = {}
    BY <1>1, FS_EmptySet DEF Small
  <2>2. IsLift(g, base, seq, Small(S, 0)) BY <2>1 DEF IsLift
  <2> QED BY <2>2
<1>3. ASSUME NEW k \in Nat, k \in Q PROVE k + 1 \in Q
  <2>1. PICK g : DOMAIN g = Small(S, k) /\ IsLift(g, base, seq, Small(S, k))
    BY <1>3
  <2> DEFINE D == Small(S, k + 1)
             h == [s \in D |-> IF s = {} THEN base ELSE UpdateOne(g[s \ {Max(s)}], seq[Max(s)])]
  <2>2. ASSUME NEW s \in D, s # {} PROVE s \ {Max(s)} \in Small(S, k) /\ s \ {Max(s)} \in D
    <3>1. IsFiniteSet(s) /\ Cardinality(s) <= k + 1 BY <1>1 DEF Small
    <3>2. Max(s) \in s BY <2>2, <1>a DEF Small
    <3>3. Cardinality(s \ {Max(s)}) = Cardinality(s) - 1
       BY <3>1, <3>2, FS_RemoveElement
    <3> QED BY <3>1, <3>3, <1>1 DEF Small
  <2>3. ASSUME NEW s \in Small(S, k) PROVE h[s] = g[s]
    <3> s \in D BY <1>1 DEF Small
    <3> QED BY <2>1 DEF IsLift
  <2>4. ASSUME NEW s \in D
        PROVE  h[s] = IF s = {} THEN base ELSE UpdateOne(h[s \ {Max(s)}], seq[Max(s)])
    BY <2>2, <2>3
  <2>5. IsLift(h, base, seq, D) BY <2>4 DEF IsLift
  <2>6. DOMAIN h = D OBVIOUS
  <2> HIDE DEF h
  <2> QED BY <2>5, <2>6
<1>4. Cardinality(S) \in Q
  <2> HIDE DEF Q
  <2>1. \A k \in Nat : k \in Q BY <1>2, <1>3, NatSetInduction
  <2> QED BY <2>1, <1>0a
<1>5. Small(S, Cardinality(S)) = SUBSET S BY <1>1 DEF Small
<1>6. PICK g : DOMAIN g = SUBSET S /\ IsLift(g, base, seq, SUBSET S) BY <1>4, <1>5
<1> DEFINE h == [s \in SUBSET S |->
                   IF s = {} THEN base ELSE UpdateOne(g[s \ {Max(s)}], seq[Max(s)])]
<1>7. ASSUME NEW s \in SUBSET S PROVE h[s] = g[s] BY <1>6 DEF IsLift
<1>8. h = [s \in SUBSET S |-> IF s = {} THEN base ELSE UpdateOne(h[s \ {Max(s)}], seq[Max(s)])]
  <2>1. ASSUME NEW s \in SUBSET S PROVE s \ {Max(s)} \in SUBSET S OBVIOUS
  <2>2. ASSUME NEW s \in SUBSET S
        PROVE  h[s] = IF s = {} THEN base ELSE UpdateOne(h[s \ {Max(s)}], seq[Max(s)])
    BY <1>7, <2>1
  <2> QED BY <2>2
<1> HIDE DEF h
<1>9. LiftEq(h, base, seq) BY <1>8, <1>0b DEF LiftEq
<1> QED BY <1>9

(* r lists the results of the steps. *)
Lifted(r, base, seq, n) ==
  /\ r[0] = base /\ r[n] = Lift(base, seq)
  /\ \A i \in 1..n : r[i] = UpdateOne(r[i - 1], seq[i])

(* So the fold is the last of a chain of values.                           *)
LEMMA LiftChain ==
  ASSUME NEW n \in Nat, NEW seq, DOMAIN seq = 1..n, NEW base
  PROVE  \E r : Lifted(r, base, seq, n)
<1> DEFINE g == CHOOSE h : LiftEq(h, base, seq)
           r == [i \in 0..n |-> g[1..i]]
<1>1. LiftEq(g, base, seq) BY LiftExists
<1>2. Lift(base, seq) = g[1..n] BY DEF Lift
<1> HIDE DEF g
<1>3. ASSUME NEW i \in 1..n PROVE r[i] = UpdateOne(r[i - 1], seq[i])
  <2>1. Max(1..i) = i
    <3>1. IsFiniteSet(1..i)
      <4> 1 \in Int /\ i \in Int OBVIOUS
      <4> QED BY FS_Interval
    <3>2. 1..i # {} /\ 1..i \subseteq Int OBVIOUS
    <3>3. Max(1..i) \in 1..i /\ \A y \in 1..i : Max(1..i) >= y BY <3>1, <3>2, MaxMin
    <3>4. i \in 1..i OBVIOUS
    <3>5. Max(1..i) >= i /\ Max(1..i) <= i BY <3>3, <3>4
    <3> QED BY <3>3, <3>5
  <2>2. (1..i) \ {i} = 1..(i - 1) OBVIOUS
  <2>3. 1..i # {} /\ 1..i \in SUBSET DOMAIN seq OBVIOUS
  <2>4. g[1..i] = UpdateOne(g[(1..i) \ {Max(1..i)}], seq[Max(1..i)]) BY <1>1, <2>3 DEF LiftEq
  <2>5. g[1..i] = UpdateOne(g[1..(i - 1)], seq[i]) BY <2>1, <2>2, <2>4
  <2>6. i \in 0..n /\ i - 1 \in 0..n OBVIOUS
  <2> QED BY <2>5, <2>6
<1>4. r[0] = base
  <2> 1..0 = {} OBVIOUS
  <2> g[{}] = base BY <1>1 DEF LiftEq
  <2> 0 \in 0..n OBVIOUS
  <2> QED OBVIOUS
<1>5. r[n] = Lift(base, seq)
  <2> n \in 0..n OBVIOUS
  <2> QED BY <1>2
<1> HIDE DEF r
<1>6. Lifted(r, base, seq, n) BY <1>3, <1>4, <1>5 DEF Lifted
<1> QED BY <1>6

(* The root is nobody's child, so when its cache alone may be wrong none   *)
(* is.                                                                     *)
LEMMA RootCached ==
  ASSUME NEW N, NEW root, NEW T, NEW rank, Tree(N, root, T, rank), NEW M, Alike(N, M), CachedBut(M, T, root)
  PROVE  Cached(M, T)
<1> SUFFICES ASSUME NEW p \in T, NEW b \in 0..1, M[p].tag = "inner" PROVE Fresh(M, p, b) BY DEF Cached
<1>1. p \in Handles BY DEF Tree
<1>2. N[p].tag = "inner" /\ M[p].children = N[p].children BY <1>1 DEF Alike
<1>3. N[p].children[b] \in T /\ rank[N[p].children[b]] < rank[p] BY <1>2 DEF Tree, Grown
<1>4. rank[p] \in Nat /\ rank[root] \in Nat /\ rank[p] <= rank[root] BY DEF Tree, Ranked
<1>5. rank[N[p].children[b]] \in Nat BY <1>3 DEF Tree, Ranked
<1>6. N[p].children[b] # root BY <1>3, <1>4, <1>5
<1> QED BY <1>2, <1>6 DEF CachedBut

(* update_parent_earliest_expiry makes every cache exact again, and        *)
(* changes nothing but caches.                                             *)
LEMMA UpdateFixes ==
  ASSUME NEW N, NEW root, NEW T, NEW rank, Tree(N, root, T, rank), Shapes(N, T),
         NEW s, NEW e, Climb(N, T, root, s, e), CachedBut(N, T, e), NEW outdated,
         \A p \in T, b \in 0..1 : Leads(N, p, b, e) =>
            N[p].child_earliest_expiry[b] \in {outdated, earliest_expiry(N[e])}
  PROVE  LET M == update_parent_earliest_expiry(N, s, outdated, earliest_expiry(N[e]))
         IN  Alike(N, M) /\ Cached(M, T)
<1> DEFINE n == Len(s)
           v == earliest_expiry(N[e])
           base == [nodes |-> N, outdated |-> outdated, new |-> v, stop |-> FALSE]
           seq == Reverse(s)
           at(j) == IF j = 0 THEN e ELSE s[n - j + 1].h
<1>0. s \in Seq([h : Handles, bit : 0..1]) /\ e \in T /\ n \in Nat BY DEF Climb
<1>1. DOMAIN seq = 1..n /\ \A j \in 1..n : seq[j] = s[(n - j) + 1] BY DEF Reverse
<1>2. update_parent_earliest_expiry(N, s, outdated, v) = Lift(base, seq).nodes
  <2>1. update_parent_earliest_expiry(N, s, outdated, v) = (CHOOSE g : LiftEq(g, base, seq))[DOMAIN seq].nodes
    <3> HIDE DEF v
    <3> QED BY DEF update_parent_earliest_expiry, FoldLeft, MapThenFoldSet, LiftEq
  <2> QED BY <2>1 DEF Lift
<1> HIDE DEF base, seq
<1>3. PICK r : Lifted(r, base, seq, n) BY <1>0, <1>1, LiftChain
<1>4. Alike(N, N)
  <2>1. N = [h \in Handles |-> N[h]] BY DEF Shapes
  <2>2. ASSUME NEW h \in Handles PROVE IF N[h].tag = "inner" THEN InnerShape(N[h]) /\ N[h].children = N[h].children
                                        ELSE N[h] = N[h]
    <3>1. N[h].tag = "inner" => h \in T BY DEF Tree
    <3> QED BY <3>1 DEF Shapes
  <2> QED BY <2>1, <2>2 DEF Alike
<1>5. v \in Int
  <2>1. N[e].tag = "leaf" \/ N[e].tag = "inner" BY <1>0 DEF Tree
  <2>2. IF N[e].tag = "inner" THEN InnerShape(N[e]) ELSE N[e].tag = "leaf" /\ N[e].expiry \in Int
    BY <1>0, <2>1 DEF Shapes
  <2> QED BY <2>2, EarliestInt
<1>6. Updating(N, T, base, at(0))
  <2>1. base.nodes = N /\ base.outdated = outdated /\ base.new = v /\ base.stop = FALSE
        /\ base = [nodes |-> N, outdated |-> outdated, new |-> v, stop |-> FALSE]
    <3> HIDE DEF v
    <3> QED BY DEF base
  <2>2. at(0) = e OBVIOUS
  <2> HIDE DEF at, base
  <2> QED BY <1>4, <1>5, <2>1, <2>2 DEF Updating
<1> DEFINE Q == {k \in Nat : k <= n => Updating(N, T, r[k], at(k)) /\ at(k) \in T}
<1>7. 0 \in Q BY <1>0, <1>3, <1>6 DEF Lifted
<1>8. ASSUME NEW k \in Nat, k \in Q PROVE k + 1 \in Q
  <2> SUFFICES ASSUME k + 1 <= n PROVE Updating(N, T, r[k + 1], at(k + 1)) /\ at(k + 1) \in T OBVIOUS
  <2> DEFINE i == n - k
             x == s[i]
  <2>1. i \in 1..n /\ k <= n /\ k + 1 \in 1..n /\ (n - (k + 1)) + 1 = i /\ k + 1 # 0 /\ (k + 1) - 1 = k BY <1>0
  <2>2. at(k + 1) = x.h BY <2>1
  <2>3. at(k) = IF i = n THEN e ELSE s[i + 1].h
    <3>1. k = 0 <=> i = n BY <1>0
    <3>2. n - k + 1 = i + 1 BY <1>0
    <3> QED BY <3>1, <3>2
  <2>4. Updating(N, T, r[k], at(k)) /\ at(k) \in T BY <1>8, <2>1
  <2>5. x \in [h : Handles, bit : 0..1] BY <1>0, <2>1, ElementOfSeq
  <2>6. x.bit \in 0..1 BY <2>5
  <2>7. x.h \in T /\ Leads(N, x.h, x.bit, IF i = n THEN e ELSE s[i + 1].h) BY <2>1 DEF Climb
  <2>8. r[k + 1] = UpdateOne(r[k], x)
    <3>1. r[k + 1] = UpdateOne(r[(k + 1) - 1], seq[k + 1]) BY <1>3, <2>1 DEF Lifted
    <3>2. seq[k + 1] = s[(n - (k + 1)) + 1] BY <1>1, <2>1
    <3> QED BY <2>1, <3>1, <3>2
  <2>9. Leads(N, x.h, x.bit, at(k)) BY <2>3, <2>7
  <2> HIDE DEF at, x
  <2>10. Updating(N, T, UpdateOne(r[k], x), x.h) BY <2>4, <2>6, <2>7, <2>9, UpdateStep
  <2> QED BY <2>2, <2>7, <2>8, <2>10
<1>9. n \in Q
  <2> HIDE DEF Q
  <2> QED BY <1>0, <1>7, <1>8, NatSetInduction
<1>10. Updating(N, T, r[n], at(n)) BY <1>0, <1>9
<1>11. at(n) = root
  <2>1. CASE s = <<>> BY <2>1 DEF Climb
  <2>2. CASE s # <<>>
    <3>1. n # 0 /\ n - n + 1 = 1 BY <1>0, <2>2
    <3> QED BY <2>2, <3>1 DEF Climb
  <2> QED BY <2>1, <2>2
<1>12. r[n].nodes = update_parent_earliest_expiry(N, s, outdated, v) BY <1>2, <1>3 DEF Lifted
<1> DEFINE M == r[n].nodes
<1>13. Alike(N, M) BY <1>10 DEF Updating
<1>14. Cached(M, T)
  <2>1. CASE r[n].stop = TRUE BY <1>10, <2>1 DEF Updating
  <2>2. CASE r[n].stop # TRUE
    <3>1. CachedBut(M, T, root) BY <1>10, <1>11, <2>2 DEF Updating
    <3> HIDE DEF M
    <3> QED BY <1>13, <3>1, RootCached
  <2> QED BY <2>1, <2>2
<1> QED BY <1>12, <1>13, <1>14

(* M has the inner nodes of N and the same nodes below each. *)
SameShape(N, M) ==
  \A h \in Handles : M[h].tag = N[h].tag /\ (N[h].tag = "inner" => M[h].children = N[h].children)

(* A tree is a matter of tags and children.                                *)
LEMMA TreeSame ==
  ASSUME NEW N, NEW root, NEW T, NEW rank, Tree(N, root, T, rank), NEW M, SameShape(N, M)
  PROVE  Tree(M, root, T, rank)
<1>0. T \subseteq Handles BY DEF Tree
<1>1. \A p \in T, b \in 0..1 : \A c : Leads(M, p, b, c) <=> Leads(N, p, b, c) BY <1>0 DEF Leads, SameShape
<1>2. OneParent(M, T)
  <2>1. OneParent(N, T) BY DEF Tree
  <2> QED BY <1>1, <2>1 DEF OneParent
<1>3. Parented(M, T, root)
  <2>1. Parented(N, T, root) BY DEF Tree
  <2> QED BY <1>1, <2>1 DEF Parented
<1>4. Grown(M, T, rank)
  <2>1. Grown(N, T, rank) BY DEF Tree
  <2> QED BY <1>0, <2>1 DEF Grown, SameShape
<1>5. /\ root \in T /\ Ranked(T, rank, root)
      /\ \A h \in Handles : M[h].tag = "inner" => h \in T
      /\ \A h \in T : M[h].tag = "leaf" \/ M[h].tag = "inner"
  BY <1>0 DEF Tree, SameShape
<1> QED BY <1>0, <1>2, <1>3, <1>4, <1>5 DEF Tree

(* New caches leave the tree as it is.                                     *)
LEMMA TreeAlike ==
  ASSUME NEW N, NEW root, NEW T, NEW rank, Tree(N, root, T, rank), Shapes(N, T), NEW M, Alike(N, M)
  PROVE  Tree(M, root, T, rank) /\ Shapes(M, T) /\ \A h \in Handles : h \notin T => M[h] = N[h]
<1>0. T \subseteq Handles /\ \A h \in Handles : N[h].tag = "inner" => h \in T BY DEF Tree
<1>1. SameShape(N, M) BY DEF SameShape, Alike, InnerShape
<1>2. Tree(M, root, T, rank) BY <1>1, TreeSame
<1>3. ASSUME NEW h \in T PROVE IF M[h].tag = "inner" THEN InnerShape(M[h]) ELSE M[h].expiry \in Int
  <2>1. h \in Handles BY <1>0
  <2>2. CASE N[h].tag = "inner"
    <3>1. InnerShape(M[h]) BY <2>1, <2>2 DEF Alike
    <3> QED BY <3>1 DEF InnerShape
  <2>3. CASE N[h].tag # "inner"
    <3>1. M[h] = N[h] BY <2>1, <2>3 DEF Alike
    <3>2. N[h].expiry \in Int BY <2>3 DEF Shapes
    <3> QED BY <2>3, <3>1, <3>2
  <2> QED BY <2>2, <2>3
<1>4. M = [h \in Handles |-> M[h]] BY DEF Alike
<1>5. Shapes(M, T) BY <1>3, <1>4 DEF Shapes
<1>6. \A h \in Handles : h \notin T => M[h] = N[h] BY <1>0 DEF Alike
<1> QED BY <1>2, <1>5, <1>6

(* The stack of a walk leads down the tree.                                *)
LEMMA TrailClimbs ==
  ASSUME NEW t, NEW T, NEW rank, Tree(t.nodes, t.root_node, T, rank), NEW key, NEW Via, Via \subseteq Inner(t),
         NEW s, NEW e \in T, Trail(t, key, Via, rank, t.root_node, s, e)
  PROVE  Climb(t.nodes, T, t.root_node, s, e)
<1>1. ASSUME NEW i \in 1..Len(s)
      PROVE  s[i].h \in T /\ Leads(t.nodes, s[i].h, s[i].bit, IF i = Len(s) THEN e ELSE s[i + 1].h)
  <2>1. /\ s[i].h \in Via /\ s[i].bit = walk_down(t, s[i].h, key).bit
        /\ walk_down(t, s[i].h, key).h = IF i = Len(s) THEN e ELSE s[i + 1].h
    BY DEF Trail
  <2>2. s[i].h \in Inner(t) BY <2>1
  <2>3. s[i].h \in T /\ Leads(t.nodes, s[i].h, walk_down(t, s[i].h, key).bit, walk_down(t, s[i].h, key).h)
    BY <2>2, WalkDown
  <2> QED BY <2>1, <2>3
<1>2. s \in Seq([h : Handles, bit : 0..1]) /\ t.root_node = IF s = <<>> THEN e ELSE s[1].h BY DEF Trail
<1> QED BY <1>1, <1>2 DEF Climb

(* And still does when the nodes on it are kept.                           *)
LEMMA ClimbMoves ==
  ASSUME NEW N, NEW T, NEW root, NEW s, NEW e, Climb(N, T, root, s, e), NEW M, NEW U, e \in U,
         \A i \in 1..Len(s) : s[i].h \in U /\ M[s[i].h] = N[s[i].h]
  PROVE  Climb(M, U, root, s, e)
BY DEF Climb, Leads

(* A leaf g is put in: h becomes the node above g and m, where the node    *)
(* that was h has moved.                                                   *)
SplitAt(N, M, T, h, g, m, d) ==
  /\ h \in T /\ g \in Handles /\ m \in Handles /\ g \notin T /\ m \notin T /\ g # m /\ d \in 0..1
  /\ M[h].tag = "inner" /\ M[h].children[d] = g /\ M[h].children[1 - d] = m
  /\ M[g].tag = "leaf" /\ M[m] = N[h]
  /\ \A x \in Handles : x # h /\ x # g /\ x # m => M[x] = N[x]

SplitRank(rank, h, g, m) ==
  [x \in Handles |-> IF x = g THEN 0 ELSE IF x = m THEN 2 * rank[h] ELSE 2 * rank[x] + 1]

(* The result is a tree with two nodes more.                               *)
LEMMA TreeSplit ==
  ASSUME NEW N, NEW root, NEW T, NEW rank, Tree(N, root, T, rank), NEW M, NEW h, NEW g, NEW m, NEW d,
         SplitAt(N, M, T, h, g, m, d)
  PROVE  Tree(M, root, T \cup {g, m}, SplitRank(rank, h, g, m))
<1> DEFINE U == T \cup {g, m}
           rk == SplitRank(rank, h, g, m)
<1>0. /\ T \subseteq Handles /\ root \in T /\ \A x \in T : rank[x] \in Nat /\ rank[x] <= rank[root]
      /\ \A x \in T : N[x].tag = "leaf" \/ N[x].tag = "inner"
      /\ \A x \in Handles : N[x].tag = "inner" => x \in T
  BY DEF Tree, Ranked
<1>1. /\ h \in T /\ g \in Handles /\ m \in Handles /\ g \notin T /\ m \notin T /\ g # m /\ d \in 0..1
      /\ M[h].tag = "inner" /\ M[h].children[d] = g /\ M[h].children[1 - d] = m
      /\ M[g].tag = "leaf" /\ M[m] = N[h] /\ h # g /\ h # m
      /\ \A x \in Handles : x # h /\ x # g /\ x # m => M[x] = N[x]
  BY DEF SplitAt
<1>2. U \subseteq Handles /\ root \in U BY <1>0, <1>1
<1>3. /\ rk[g] = 0 /\ rk[m] = 2 * rank[h] /\ \A x \in T : rk[x] = 2 * rank[x] + 1
  <2>1. \A x \in T : x \in Handles /\ x # g /\ x # m BY <1>0, <1>1
  <2> QED BY <1>1, <2>1 DEF SplitRank
<1> HIDE DEF rk
<1>4. Ranked(U, rk, root)
  <2> SUFFICES ASSUME NEW x \in U PROVE rk[x] \in Nat /\ rk[x] <= rk[root] BY DEF Ranked
  <2>1. rk[root] = 2 * rank[root] + 1 /\ rank[root] \in Nat /\ rank[h] \in Nat /\ rank[h] <= rank[root] BY <1>0, <1>1, <1>3
  <2>2. CASE x = g BY <1>3, <2>1, <2>2
  <2>3. CASE x = m BY <1>3, <2>1, <2>3
  <2>4. CASE x \in T
    <3>1. rk[x] = 2 * rank[x] + 1 /\ rank[x] \in Nat /\ rank[x] <= rank[root] BY <1>0, <1>3, <2>4
    <3> QED BY <2>1, <3>1
  <2> QED BY <2>2, <2>3, <2>4
(* The edges of M. *)
<1>5. ASSUME NEW p \in U, NEW b \in 0..1, NEW c, Leads(M, p, b, c)
      PROVE  \/ p = h /\ b = d /\ c = g
             \/ p = h /\ b = 1 - d /\ c = m
             \/ p = m /\ Leads(N, h, b, c)
             \/ p \in T /\ p # h /\ Leads(N, p, b, c)
  <2>1. M[p].tag = "inner" /\ M[p].children[b] = c BY <1>5 DEF Leads
  <2>2. CASE p = h
    <3>1. b = d \/ b = 1 - d BY <1>1
    <3> QED BY <1>1, <2>1, <2>2, <3>1
  <2>3. CASE p = g BY <1>1, <2>1, <2>3
  <2>4. CASE p = m BY <1>1, <2>1, <2>4 DEF Leads
  <2>5. CASE p \in T /\ p # h
    <3>1. M[p] = N[p] BY <1>0, <1>1, <2>5
    <3> QED BY <2>1, <2>5, <3>1 DEF Leads
  <2> QED BY <2>2, <2>3, <2>4, <2>5
<1>6. ASSUME NEW p \in T, NEW b \in 0..1, NEW c, Leads(N, p, b, c) PROVE c \in T /\ rank[c] < rank[p] /\ rank[c] \in Nat
  <2>1. N[p].tag = "inner" /\ N[p].children[b] = c BY <1>6 DEF Leads
  <2>2. c \in T /\ rank[c] < rank[p] BY <2>1 DEF Tree, Grown
  <2> QED BY <1>0, <2>2
<1>7. Grown(M, U, rk)
  <2> SUFFICES ASSUME NEW p \in U, NEW b \in 0..1, M[p].tag = "inner"
               PROVE  M[p].children[b] \in U /\ rk[M[p].children[b]] < rk[p]
    BY DEF Grown
  <2> DEFINE c == M[p].children[b]
  <2>1. Leads(M, p, b, c) BY DEF Leads
  <2> HIDE DEF c
  <2>0. rank[h] \in Nat /\ rk[h] = 2 * rank[h] + 1 BY <1>0, <1>1, <1>3
  <2>2. CASE p = h /\ c = g
    <3>1. 0 < 2 * rank[h] + 1 BY <2>0
    <3> QED BY <1>3, <2>0, <2>2, <3>1 DEF c
  <2>3. CASE p = h /\ c = m
    <3>1. 2 * rank[h] < 2 * rank[h] + 1 BY <2>0
    <3> QED BY <1>3, <2>0, <2>3, <3>1 DEF c
  <2>4. CASE p = m /\ Leads(N, h, b, c)
    <3>1. c \in T /\ rank[c] < rank[h] /\ rank[c] \in Nat BY <1>1, <1>6, <2>4
    <3>2. rk[c] = 2 * rank[c] + 1 /\ rk[p] = 2 * rank[h] BY <1>3, <2>4, <3>1
    <3>3. rk[c] < rk[p] BY <2>0, <3>1, <3>2
    <3> QED BY <3>1, <3>3 DEF c
  <2>5. CASE p \in T /\ p # h /\ Leads(N, p, b, c)
    <3>1. c \in T /\ rank[c] < rank[p] /\ rank[c] \in Nat /\ rank[p] \in Nat BY <1>0, <1>6, <2>5
    <3>2. rk[c] = 2 * rank[c] + 1 /\ rk[p] = 2 * rank[p] + 1 BY <1>3, <2>5, <3>1
    <3>3. rk[c] < rk[p] BY <3>1, <3>2
    <3> QED BY <3>1, <3>3 DEF c
  <2> QED BY <1>5, <2>1, <2>2, <2>3, <2>4, <2>5
<1>8. Parented(M, U, root)
  <2> SUFFICES ASSUME NEW c \in U, c # root PROVE \E p \in U, b \in 0..1 : Leads(M, p, b, c) BY DEF Parented
  <2>1. CASE c = g
    <3>1. Leads(M, h, d, c) BY <1>1, <2>1 DEF Leads
    <3> QED BY <1>1, <3>1
  <2>2. CASE c = m
    <3>1. Leads(M, h, 1 - d, c) /\ 1 - d \in 0..1 BY <1>1, <2>2 DEF Leads
    <3> QED BY <1>1, <3>1
  <2>3. CASE c \in T
    <3>1. Parented(N, T, root) BY DEF Tree
    <3>2. PICK p \in T, b \in 0..1 : Leads(N, p, b, c) BY <2>3, <3>1 DEF Parented
    <3>3. CASE p = h
      <4>1. Leads(M, m, b, c) BY <1>1, <3>2, <3>3 DEF Leads
      <4> QED BY <4>1
    <3>4. CASE p # h
      <4>1. M[p] = N[p] BY <1>0, <1>1, <3>4
      <4>2. Leads(M, p, b, c) BY <3>2, <4>1 DEF Leads
      <4> QED BY <4>2
    <3> QED BY <3>3, <3>4
  <2> QED BY <2>1, <2>2, <2>3
<1>9. OneParent(M, U)
  <2> SUFFICES ASSUME NEW p \in U, NEW q \in U, NEW b \in 0..1, NEW f \in 0..1, NEW c \in U,
                      Leads(M, p, b, c), Leads(M, q, f, c)
               PROVE  p = q /\ b = f
    BY DEF OneParent
  <2>1. OneParent(N, T) BY DEF Tree
  <2>p. /\ c = g => p = h /\ b = d
        /\ c = m => p = h /\ b = 1 - d
    <3>1. \A x \in T : \A y \in 0..1 : Leads(N, x, y, c) => c # g /\ c # m BY <1>1, <1>6
    <3> QED BY <1>1, <1>5, <3>1
  <2>q. /\ c = g => q = h /\ f = d
        /\ c = m => q = h /\ f = 1 - d
    <3>1. \A x \in T : \A y \in 0..1 : Leads(N, x, y, c) => c # g /\ c # m BY <1>1, <1>6
    <3> QED BY <1>1, <1>5, <3>1
  <2>2. CASE c = g \/ c = m BY <2>2, <2>p, <2>q
  <2>3. CASE c # g /\ c # m
    <3>0. c \in T BY <2>3
    <3>1. (p = m /\ Leads(N, h, b, c)) \/ (p \in T /\ p # h /\ Leads(N, p, b, c)) BY <1>5, <2>3
    <3>2. (q = m /\ Leads(N, h, f, c)) \/ (q \in T /\ q # h /\ Leads(N, q, f, c)) BY <1>5, <2>3
    <3>3. \A x \in T, y \in T : Leads(N, x, b, c) /\ Leads(N, y, f, c) => x = y /\ b = f BY <2>1, <3>0 DEF OneParent
    <3> QED BY <1>1, <3>1, <3>2, <3>3
  <2> QED BY <2>2, <2>3
<1>10. \A x \in Handles : M[x].tag = "inner" => x \in U BY <1>0, <1>1
<1>11. \A x \in U : M[x].tag = "leaf" \/ M[x].tag = "inner" BY <1>0, <1>1
<1> QED BY <1>2, <1>4, <1>7, <1>8, <1>9, <1>10, <1>11 DEF Tree, rk

(* What is known of the edges of a tree.                                   *)
LEMMA Edges ==
  ASSUME NEW N, NEW root, NEW T, NEW rank, Tree(N, root, T, rank), NEW p \in T, NEW b \in 0..1, NEW c, Leads(N, p, b, c)
  PROVE  /\ c \in T /\ rank[c] < rank[p] /\ rank[c] \in Nat /\ rank[p] \in Nat /\ c # p /\ c # root
         /\ N[p].tag = "inner" /\ N[p].children[b] = c
<1>1. N[p].tag = "inner" /\ N[p].children[b] = c BY DEF Leads
<1>2. c \in T /\ rank[c] < rank[p] BY <1>1 DEF Tree, Grown
<1>3. rank[c] \in Nat /\ rank[p] \in Nat /\ rank[p] <= rank[root] /\ rank[root] \in Nat BY <1>2 DEF Tree, Ranked
<1> QED BY <1>1, <1>2, <1>3

(* The leaf h is taken out: its sibling o takes the place of p, the node   *)
(* above them.                                                             *)
CutAt(N, M, T, p, b, h, o) ==
  /\ p \in T /\ b \in 0..1 /\ Leads(N, p, b, h) /\ Leads(N, p, 1 - b, o) /\ N[h].tag = "leaf"
  /\ M[p] = N[o] /\ M[h].tag \in {"free", "last_free"} /\ M[o].tag \in {"free", "last_free"}
  /\ \A x \in Handles : x # p /\ x # h /\ x # o => M[x] = N[x]

(* The result is a tree with two nodes less.                               *)
LEMMA TreeCut ==
  ASSUME NEW N, NEW root, NEW T, NEW rank, Tree(N, root, T, rank), NEW M, NEW p, NEW b, NEW h, NEW o,
         CutAt(N, M, T, p, b, h, o)
  PROVE  /\ Tree(M, root, T \ {h, o}, rank) /\ p \in T \ {h, o} /\ h \in T /\ o \in T /\ h # o
         /\ rank[h] < rank[p] /\ rank[o] < rank[p]
<1> DEFINE U == T \ {h, o}
<1>0. /\ T \subseteq Handles /\ root \in T /\ \A x \in T : rank[x] \in Nat /\ rank[x] <= rank[root]
      /\ \A x \in T : N[x].tag = "leaf" \/ N[x].tag = "inner"
      /\ \A x \in Handles : N[x].tag = "inner" => x \in T
      /\ OneParent(N, T) /\ Parented(N, T, root)
  BY DEF Tree, Ranked
<1>1. /\ p \in T /\ b \in 0..1 /\ 1 - b \in 0..1 /\ b # 1 - b
      /\ Leads(N, p, b, h) /\ Leads(N, p, 1 - b, o) /\ N[h].tag = "leaf"
      /\ M[p] = N[o] /\ M[h].tag \in {"free", "last_free"} /\ M[o].tag \in {"free", "last_free"}
      /\ \A x \in Handles : x # p /\ x # h /\ x # o => M[x] = N[x]
  BY DEF CutAt
<1>2. h \in T /\ rank[h] < rank[p] /\ h # p /\ h # root BY <1>1, Edges
<1>3. o \in T /\ rank[o] < rank[p] /\ o # p /\ o # root BY <1>1, Edges
<1>4. h # o BY <1>0, <1>1, <1>2 DEF OneParent
<1>5. p \in U /\ root \in U /\ U \subseteq Handles BY <1>0, <1>1, <1>2, <1>3
<1>6. Ranked(U, rank, root) BY <1>0, <1>5 DEF Ranked
(* The edges of M. *)
<1>7. ASSUME NEW q \in U, NEW f \in 0..1, NEW c, Leads(M, q, f, c)
      PROVE  /\ \/ q = p /\ Leads(N, o, f, c)
                \/ q # p /\ Leads(N, q, f, c)
             /\ c \in U /\ rank[c] < rank[q]
  <2>1. M[q].tag = "inner" /\ M[q].children[f] = c BY <1>7 DEF Leads
  <2>2. CASE q = p
    <3>1. Leads(N, o, f, c) BY <1>1, <2>1, <2>2 DEF Leads
    <3>2. c \in T /\ rank[c] < rank[o] /\ rank[c] \in Nat /\ rank[o] \in Nat /\ c # o BY <1>3, <3>1, Edges
    <3>3. c # h BY <1>0, <1>1, <1>2, <1>3, <3>1 DEF OneParent
    <3>4. rank[c] < rank[p] BY <1>0, <1>1, <1>3, <3>2
    <3> QED BY <2>2, <3>1, <3>2, <3>3, <3>4
  <2>3. CASE q # p
    <3>1. M[q] = N[q] BY <1>1, <1>5, <2>3
    <3>2. Leads(N, q, f, c) BY <2>1, <3>1 DEF Leads
    <3>3. c \in T /\ rank[c] < rank[q] BY <3>2, Edges
    <3>4. c # h /\ c # o BY <1>0, <1>1, <1>2, <1>3, <2>3, <3>2 DEF OneParent
    <3> QED BY <2>3, <3>2, <3>3, <3>4
  <2> QED BY <2>2, <2>3
<1>8. Grown(M, U, rank)
  <2> SUFFICES ASSUME NEW q \in U, NEW f \in 0..1, M[q].tag = "inner"
               PROVE  M[q].children[f] \in U /\ rank[M[q].children[f]] < rank[q]
    BY DEF Grown
  <2>1. Leads(M, q, f, M[q].children[f]) BY DEF Leads
  <2> QED BY <1>7, <2>1
<1>9. Parented(M, U, root)
  <2> SUFFICES ASSUME NEW c \in U, c # root PROVE \E q \in U, f \in 0..1 : Leads(M, q, f, c) BY DEF Parented
  <2>1. PICK q \in T, f \in 0..1 : Leads(N, q, f, c) BY <1>0 DEF Parented
  <2>2. q # h
    <3>1. N[q].tag = "inner" BY <2>1 DEF Leads
    <3> QED BY <1>1, <3>1
  <2>3. CASE q = o
    <3>1. Leads(M, p, f, c) BY <1>1, <2>1, <2>3 DEF Leads
    <3> QED BY <1>5, <3>1
  <2>4. CASE q = p
    <3>1. f = b \/ f = 1 - b BY <1>1
    <3>2. c = h \/ c = o BY <1>1, <2>1, <2>4, <3>1 DEF Leads
    <3> QED BY <3>2
  <2>5. CASE q # o /\ q # p
    <3>1. q \in U /\ M[q] = N[q] BY <1>0, <1>1, <2>2, <2>5
    <3>2. Leads(M, q, f, c) BY <2>1, <3>1 DEF Leads
    <3> QED BY <3>1, <3>2
  <2> QED BY <2>3, <2>4, <2>5
<1>10. OneParent(M, U)
  <2> SUFFICES ASSUME NEW q \in U, NEW r \in U, NEW f \in 0..1, NEW g \in 0..1, NEW c \in U,
                      Leads(M, q, f, c), Leads(M, r, g, c)
               PROVE  q = r /\ f = g
    BY DEF OneParent
  <2>1. (q = p /\ Leads(N, o, f, c)) \/ (q # p /\ Leads(N, q, f, c)) BY <1>7
  <2>2. (r = p /\ Leads(N, o, g, c)) \/ (r # p /\ Leads(N, r, g, c)) BY <1>7
  <2>3. \A x \in T, y \in T : Leads(N, x, f, c) /\ Leads(N, y, g, c) => x = y /\ f = g BY <1>0 DEF OneParent
  <2> QED BY <1>3, <2>1, <2>2, <2>3
<1>11. \A x \in Handles : M[x].tag = "inner" => x \in U
  <2> SUFFICES ASSUME NEW x \in Handles, M[x].tag = "inner" PROVE x \in U OBVIOUS
  <2>1. x # h /\ x # o BY <1>1
  <2> QED BY <1>0, <1>1, <1>5, <2>1
<1>12. \A x \in U : M[x].tag = "leaf" \/ M[x].tag = "inner" BY <1>0, <1>1, <1>3, <1>5
<1>13. Tree(M, root, U, rank) BY <1>5, <1>6, <1>8, <1>9, <1>10, <1>11, <1>12 DEF Tree
<1> QED BY <1>2, <1>3, <1>4, <1>5, <1>13

(* Its caches are exact but for the one above p, which is the old one.     *)
LEMMA CutCaches ==
  ASSUME NEW N, NEW root, NEW T, NEW rank, Tree(N, root, T, rank), Shapes(N, T), Cached(N, T),
         NEW M, M = [x \in Handles |-> M[x]], NEW p, NEW b, NEW h, NEW o, CutAt(N, M, T, p, b, h, o)
  PROVE  /\ Shapes(M, T \ {h, o}) /\ CachedBut(M, T \ {h, o}, p)
         /\ \A q \in T \ {h, o}, f \in 0..1 : Leads(M, q, f, p) =>
              M[q].child_earliest_expiry[f] \in {N[h].expiry, earliest_expiry(N[o])}
<1> DEFINE U == T \ {h, o}
<1>0. /\ T \subseteq Handles /\ Tree(M, root, U, rank) /\ p \in U /\ h \in T /\ o \in T /\ h # o
      /\ rank[h] < rank[p] /\ rank[o] < rank[p] /\ OneParent(N, T)
      /\ \A x \in T : N[x].tag = "leaf" \/ N[x].tag = "inner"
  <2>1. Tree(M, root, U, rank) /\ p \in U /\ h \in T /\ o \in T /\ h # o /\ rank[h] < rank[p] /\ rank[o] < rank[p]
    BY TreeCut
  <2>2. T \subseteq Handles /\ OneParent(N, T) /\ \A x \in T : N[x].tag = "leaf" \/ N[x].tag = "inner" BY DEF Tree
  <2> QED BY <2>1, <2>2
<1>1. /\ p \in T /\ b \in 0..1 /\ 1 - b \in 0..1
      /\ Leads(N, p, b, h) /\ Leads(N, p, 1 - b, o) /\ N[h].tag = "leaf" /\ M[p] = N[o]
      /\ \A x \in Handles : x # p /\ x # h /\ x # o => M[x] = N[x]
  BY DEF CutAt
<1>2. Shapes(M, U)
  <2> SUFFICES ASSUME NEW x \in U PROVE IF M[x].tag = "inner" THEN InnerShape(M[x]) ELSE M[x].expiry \in Int
    BY DEF Shapes
  <2>1. M[x] = N[o] \/ M[x] = N[x] BY <1>0, <1>1
  <2>2. \A y \in T : IF N[y].tag = "inner" THEN InnerShape(N[y]) ELSE N[y].expiry \in Int BY DEF Shapes
  <2> QED BY <1>0, <2>1, <2>2
<1>3. CachedBut(M, U, p)
  <2> SUFFICES ASSUME NEW q \in U, NEW f \in 0..1, M[q].tag = "inner", M[q].children[f] # p PROVE Fresh(M, q, f)
    BY DEF CachedBut
  <2> DEFINE c == M[q].children[f]
  <2>1. Leads(M, q, f, c) BY DEF Leads
  <2>2. c \in U BY <1>0, <2>1, Edges
  <2>3. M[c] = N[c] BY <1>0, <1>1, <2>2
  <2>4. PICK r \in T : M[q] = N[r] BY <1>0, <1>1
  <2>5. Fresh(N, r, f) BY <2>4 DEF Cached
  <2> QED BY <2>3, <2>4, <2>5 DEF Fresh
<1>4. ASSUME NEW q \in U, NEW f \in 0..1, Leads(M, q, f, p)
      PROVE  M[q].child_earliest_expiry[f] \in {N[h].expiry, earliest_expiry(N[o])}
  <2>1. M[q].tag = "inner" /\ M[q].children[f] = p /\ q # p BY <1>0, <1>4, Edges
  <2>2. M[q] = N[q] BY <1>0, <1>1, <2>1
  <2>3. Fresh(N, q, f) BY <2>1, <2>2 DEF Cached
  <2>4. M[q].child_earliest_expiry[f] = earliest_expiry(N[p]) BY <2>1, <2>2, <2>3 DEF Fresh
  <2>5. N[p].tag = "inner" /\ N[p].children[b] = h /\ N[p].children[1 - b] = o BY <1>1 DEF Leads
  <2>6. InnerShape(N[p]) BY <1>1, <2>5 DEF Shapes
  <2>7. earliest_expiry(N[p]) \in {N[p].child_earliest_expiry[0], N[p].child_earliest_expiry[1]}
    BY <2>5, <2>6, EarliestInt
  <2>8. Fresh(N, p, b) /\ Fresh(N, p, 1 - b) BY <1>1, <2>5 DEF Cached
  <2>9. N[p].child_earliest_expiry[b] = earliest_expiry(N[h]) /\ N[p].child_earliest_expiry[1 - b] = earliest_expiry(N[o])
    BY <2>5, <2>8 DEF Fresh
  <2>10. earliest_expiry(N[h]) = N[h].expiry BY <1>1 DEF earliest_expiry
  <2>11. (b = 0 /\ 1 - b = 1) \/ (b = 1 /\ 1 - b = 0) BY <1>1
  <2> QED BY <2>4, <2>7, <2>9, <2>10, <2>11
<1> QED BY <1>2, <1>3, <1>4

(* The caches after a split. *)
SplitDone(N, M, T, h, g, m) ==
  /\ Shapes(M, T \cup {g, m}) /\ CachedBut(M, T \cup {g, m}, h)
  /\ \A q \in T \cup {g, m}, f \in 0..1 : Leads(M, q, f, h) =>
       M[q].child_earliest_expiry[f] = earliest_expiry(N[h])
  /\ earliest_expiry(N[h]) \in Int
  /\ earliest_expiry(M[h]) = IF M[g].expiry < earliest_expiry(N[h]) THEN M[g].expiry ELSE earliest_expiry(N[h])

(* After a split the caches are exact but for the one above h, which is    *)
(* the old one.                                                            *)
LEMMA SplitCaches ==
  ASSUME NEW N, NEW root, NEW T, NEW rank, Tree(N, root, T, rank), Shapes(N, T), Cached(N, T),
         NEW M, M = [x \in Handles |-> M[x]], NEW h, NEW g, NEW m, NEW d, SplitAt(N, M, T, h, g, m, d),
         InnerShape(M[h]), M[g].expiry \in Int, M[h].child_earliest_expiry[d] = M[g].expiry,
         M[h].child_earliest_expiry[1 - d] = earliest_expiry(N[h])
  PROVE  SplitDone(N, M, T, h, g, m)
<1> DEFINE U == T \cup {g, m}
           rk == SplitRank(rank, h, g, m)
<1>0. T \subseteq Handles /\ Tree(M, root, U, rk) /\ \A x \in T : N[x].tag = "leaf" \/ N[x].tag = "inner"
  <2>1. Tree(M, root, U, rk) BY TreeSplit
  <2>2. T \subseteq Handles /\ \A x \in T : N[x].tag = "leaf" \/ N[x].tag = "inner" BY DEF Tree
  <2> QED BY <2>1, <2>2
<1> HIDE DEF rk
<1>1. /\ h \in T /\ g \in Handles /\ m \in Handles /\ g \notin T /\ m \notin T /\ g # m /\ d \in 0..1 /\ 1 - d \in 0..1
      /\ M[h].tag = "inner" /\ M[h].children[d] = g /\ M[h].children[1 - d] = m
      /\ M[g].tag = "leaf" /\ M[m] = N[h] /\ h # g /\ h # m
      /\ \A x \in Handles : x # h /\ x # g /\ x # m => M[x] = N[x]
  BY DEF SplitAt
<1>a. \A y \in T : IF N[y].tag = "inner" THEN InnerShape(N[y]) ELSE N[y].tag = "leaf" /\ N[y].expiry \in Int
  BY <1>0 DEF Shapes
<1>2. Shapes(M, U)
  <2> SUFFICES ASSUME NEW x \in U PROVE IF M[x].tag = "inner" THEN InnerShape(M[x]) ELSE M[x].expiry \in Int
    BY DEF Shapes
  <2>1. CASE x = h BY <1>1, <2>1
  <2>2. CASE x = g BY <1>1, <2>2
  <2>3. CASE x = m BY <1>1, <1>a, <2>3
  <2>4. CASE x \in T /\ x # h
    <3>1. M[x] = N[x] BY <1>0, <1>1, <2>4
    <3> QED BY <1>a, <2>4, <3>1
  <2> QED BY <2>1, <2>2, <2>3, <2>4
<1>3. CachedBut(M, U, h)
  <2> SUFFICES ASSUME NEW q \in U, NEW f \in 0..1, M[q].tag = "inner", M[q].children[f] # h PROVE Fresh(M, q, f)
    BY DEF CachedBut
  <2> DEFINE c == M[q].children[f]
  <2>1. CASE q = h
    <3>1. f = d \/ f = 1 - d BY <1>1
    <3>2. earliest_expiry(M[g]) = M[g].expiry BY <1>1 DEF earliest_expiry
    <3> QED BY <1>1, <2>1, <3>1, <3>2 DEF Fresh
  <2>2. CASE q # h
    <3>1. PICK r \in T : M[q] = N[r]
      <4>1. q # g BY <1>1
      <4>2. CASE q = m BY <1>1, <4>2
      <4>3. CASE q \in T BY <1>0, <1>1, <2>2, <4>3
      <4> QED BY <4>1, <4>2, <4>3
    <3>2. Leads(N, r, f, c) BY <3>1 DEF Leads
    <3>3. c \in T BY <3>2, Edges
    <3>4. M[c] = N[c] BY <1>0, <1>1, <3>3
    <3>5. Fresh(N, r, f) BY <3>1 DEF Cached
    <3> QED BY <3>1, <3>4, <3>5 DEF Fresh
  <2> QED BY <2>1, <2>2
<1>4. ASSUME NEW q \in U, NEW f \in 0..1, Leads(M, q, f, h)
      PROVE  M[q].child_earliest_expiry[f] = earliest_expiry(N[h])
  <2>1. M[q].tag = "inner" /\ M[q].children[f] = h /\ q # h BY <1>0, <1>4, Edges
  <2>2. q # g BY <1>1, <2>1
  <2>3. q # m
    <3> SUFFICES ASSUME q = m PROVE FALSE OBVIOUS
    <3>1. Leads(N, h, f, h) BY <1>1, <2>1 DEF Leads
    <3> QED BY <1>1, <3>1, Edges
  <2>4. q \in T /\ M[q] = N[q] BY <1>0, <1>1, <2>1, <2>2, <2>3
  <2>5. Fresh(N, q, f) BY <2>1, <2>4 DEF Cached
  <2> QED BY <2>1, <2>4, <2>5 DEF Fresh
<1>5. earliest_expiry(N[h]) \in Int BY <1>1, <1>a, EarliestInt
<1>6. earliest_expiry(M[h]) = IF M[g].expiry < earliest_expiry(N[h]) THEN M[g].expiry ELSE earliest_expiry(N[h])
  <2> DEFINE x == M[h].child_earliest_expiry[0]
             y == M[h].child_earliest_expiry[1]
             u == M[g].expiry
             v == earliest_expiry(N[h])
  <2>1. earliest_expiry(M[h]) = Min({x, y}) BY <1>1 DEF earliest_expiry
  <2>2. (x = u /\ y = v) \/ (x = v /\ y = u)
    <3>1. (d = 0 /\ 1 - d = 1) \/ (d = 1 /\ 1 - d = 0) BY <1>1
    <3> QED BY <3>1
  <2> HIDE DEF x, y, u, v
  <2>3. u \in Int /\ v \in Int BY <1>5 DEF u, v
  <2>4. x \in Int /\ y \in Int BY <2>2, <2>3
  <2>5. Min({x, y}) = (IF x <= y THEN x ELSE y) BY <2>4, MinTwo
  <2>6. Min({x, y}) = IF u < v THEN u ELSE v BY <2>2, <2>3, <2>5
  <2> QED BY <2>1, <2>6 DEF u, v
<1> QED BY <1>2, <1>3, <1>4, <1>5, <1>6 DEF SplitDone

(* The nodes of T are the tree, with exact caches, and n leaves have n - 1 *)
(* inner nodes above them.                                                 *)
Planted(t, T, rank) ==
  /\ Tree(t.nodes, t.root_node, T, rank) /\ Shapes(t.nodes, T) /\ Cached(t.nodes, T)
  /\ Cardinality(T) = 2 * t.leaf_count - 1

Grove(t, T, fl, rank) ==
  /\ Alloc(t, T, fl) /\ t.leaf_count \in Nat
  /\ \A h \in Handles : t.nodes[h].tag = "inner" => h \in T
  /\ t.leaf_count = 0 => T = {}
  /\ t.leaf_count # 0 => Planted(t, T, rank)

(* The invariant of a side of the book. *)
Sound(t) == \E T, fl, rank : Grove(t, T, fl, rank)

(* A side is full when half of the nodes are leaves, and otherwise has two *)
(* nodes to spare.                                                         *)
LEMMA Room ==
  ASSUME NEW t, NEW T, NEW fl, NEW rank, Grove(t, T, fl, rank)
  PROVE  /\ is_full(t) <=> t.leaf_count = Len_nodes \div 2
         /\ ~is_full(t) => Cardinality(T) + 2 <= Len_nodes
         /\ Cardinality(T) \in Nat
<1> DEFINE L == t.leaf_count
           f == t.free_list_len
           u == t.bump_index
           c == Cardinality(T)
<1>1. L \in Nat /\ f \in Nat /\ u \in Nat /\ u <= Len_nodes /\ u = c + f /\ IsFiniteSet(T)
  BY DEF Grove, Alloc, Laid
<1>2. c \in Nat BY <1>1, FS_CardinalityType
<1>3. PICK n \in Nat : Len_nodes = 2 * n /\ n >= 2
  <2>1. Len_nodes \in Nat /\ Len_nodes >= 4 /\ Len_nodes % 2 = 0 BY NodesAssumption
  <2>2. Len_nodes = 2 * (Len_nodes \div 2) /\ Len_nodes \div 2 \in Nat BY <2>1
  <2>3. Len_nodes \div 2 >= 2 BY <2>1, <2>2
  <2> QED BY <2>2, <2>3
<1>4. Len_nodes \div 2 = n BY <1>3
<1>5. is_full(t) <=> f <= 1 /\ u >= Len_nodes - 1 BY DEF is_full
<1>6. CASE L = 0
  <2>1. c = 0 BY <1>6, FS_EmptySet DEF Grove
  <2> HIDE DEF L, f, u, c
  <2>2. u = f BY <1>1, <2>1
  <2>3. ~(f <= 1 /\ u >= Len_nodes - 1) BY <1>1, <1>3, <2>2
  <2>4. L # n BY <1>3, <1>6
  <2>5. c + 2 <= Len_nodes BY <1>3, <2>1
  <2> QED BY <1>2, <1>4, <1>5, <2>3, <2>4, <2>5 DEF L, c
<1>7. CASE L # 0
  <2>1. c = 2 * L - 1 BY <1>7 DEF Grove, Planted
  <2> HIDE DEF L, f, u, c
  <2>2. (f <= 1 /\ u >= Len_nodes - 1) <=> L = n BY <1>1, <1>2, <1>3, <2>1
  <2>3. L # n => c + 2 <= Len_nodes BY <1>1, <1>2, <1>3, <2>1
  <2> QED BY <1>2, <1>4, <1>5, <2>2, <2>3 DEF L, c
<1> QED BY <1>6, <1>7

(* When the caches have been brought up to date the side is sound again.   *)
LEMMA Finish ==
  ASSUME NEW t, NEW U, NEW fl, Alloc(t, U, fl), NEW root, NEW rank, NEW N, Tree(N, root, U, rank), Shapes(N, U),
         \A x \in Handles : x \notin U => N[x] = t.nodes[x], NEW M, Alike(N, M), Cached(M, U),
         NEW t2, DOMAIN t2 = SideFields, t2.nodes = M, t2.root_node = root,
         t2.bump_index = t.bump_index, t2.free_list_len = t.free_list_len, t2.free_list_head = t.free_list_head,
         t2.leaf_count \in Nat, t2.leaf_count # 0, Cardinality(U) = 2 * t2.leaf_count - 1
  PROVE  Grove(t2, U, fl, rank)
<1>1. Tree(M, root, U, rank) /\ Shapes(M, U) /\ \A h \in Handles : h \notin U => M[h] = N[h] BY TreeAlike
<1>2. DOMAIN M = Handles
  <2>1. M = [h \in Handles |-> M[h]] BY DEF Alike
  <2> QED BY <2>1
<1>3. \A h \in Handles : h \notin U => t2.nodes[h] = t.nodes[h] BY <1>1
<1>4. Alloc(t2, U, fl) BY <1>2, <1>3, WriteAlloc
<1>5. Planted(t2, U, rank) BY <1>1 DEF Planted
<1>6. \A h \in Handles : t2.nodes[h].tag = "inner" => h \in U BY <1>1 DEF Tree
<1> QED BY <1>4, <1>5, <1>6 DEF Grove

(* The first leaf.                                                         *)
LEMMA InsertRootSound ==
  ASSUME NEW t, NEW T, NEW fl, NEW rank, Grove(t, T, fl, rank), t.leaf_count = 0, NEW leaf,
         leaf.tag = "leaf", NEW r, r = InsertRoot(t, leaf)
  PROVE  r.ok /\ (leaf.expiry \in Int => Sound(r.t))
<1> DEFINE new == insert(t, leaf)
           h == new.h
           t2 == [new.t EXCEPT !.root_node = h, !.leaf_count = 1]
           M == new.t.nodes
           U == {h}
           rk == [x \in Handles |-> 0]
<1>0. T = {} /\ Alloc(t, T, fl) /\ \A x \in Handles : t.nodes[x].tag # "inner" BY DEF Grove
<1>1. Cardinality(T) < Len_nodes
  <2>1. Cardinality(T) = 0 BY <1>0, FS_EmptySet
  <2> QED BY <2>1, NodesAssumption
<1>2. /\ new.ok /\ h \in Handles /\ M = [t.nodes EXCEPT ![h] = leaf]
      /\ \E f2 : Alloc(new.t, T \cup {h}, f2)
  BY <1>0, <1>1, InsertAlloc
<1>3. r = [ok |-> TRUE, t |-> t2] BY <1>2 DEF InsertRoot
<1>4. r.ok /\ r.t = t2 BY <1>3
<1> SUFFICES ASSUME leaf.expiry \in Int PROVE Sound(t2) BY <1>4
<1>5. T \cup {h} = U BY <1>0
<1>6. PICK f2 : Alloc(new.t, U, f2) BY <1>2, <1>5
<1>7. DOMAIN new.t = SideFields BY <1>6 DEF Alloc, Laid
<1>8. DOMAIN t.nodes = Handles BY <1>0 DEF Alloc, Laid
<1> HIDE DEF new, M, h
<1>9. /\ M = [x \in Handles |-> M[x]] /\ M[h] = leaf
      /\ \A x \in Handles : x # h => M[x] = t.nodes[x]
  BY <1>2, <1>8
<1>10. /\ DOMAIN t2 = SideFields /\ t2.root_node = h /\ t2.leaf_count = 1 /\ t2.nodes = M
       /\ t2.bump_index = new.t.bump_index /\ t2.free_list_len = new.t.free_list_len
       /\ t2.free_list_head = new.t.free_list_head
  BY <1>7 DEF SideFields, M
<1> HIDE DEF t2
<1>11. Tree(M, h, U, rk)
  <2>1. \A x \in U : rk[x] = 0 BY <1>2
  <2> HIDE DEF rk
  <2>2. Ranked(U, rk, h) BY <2>1 DEF Ranked
  <2>3. \A x \in U : M[x].tag = "leaf" BY <1>9
  <2>4. Grown(M, U, rk) BY <2>3 DEF Grown
  <2>5. Parented(M, U, h) BY DEF Parented
  <2>6. OneParent(M, U) BY <2>3 DEF OneParent, Leads
  <2>7. \A x \in Handles : M[x].tag = "inner" => x \in U BY <1>0, <1>9
  <2> QED BY <1>2, <2>2, <2>3, <2>4, <2>5, <2>6, <2>7 DEF Tree
<1> HIDE DEF rk
<1>12. \A x \in U : M[x].tag = "leaf" /\ M[x].expiry \in Int BY <1>9
<1>13. Shapes(M, U) BY <1>9, <1>12 DEF Shapes
<1>14. Cached(M, U) BY <1>12 DEF Cached
<1>15. Alike(M, M) BY <1>9, <1>11, <1>12 DEF Alike, Tree
<1>16. Cardinality(U) = 1 BY FS_Singleton
<1>17. \A x \in Handles : x \notin U => M[x] = new.t.nodes[x] BY DEF M
<1>18. t2.leaf_count \in Nat /\ t2.leaf_count # 0 /\ Cardinality(U) = 2 * t2.leaf_count - 1 BY <1>10, <1>16
<1>19. Grove(t2, U, f2, rk)
  <2> HIDE DEF U
  <2> DEFINE t1 == new.t
  <2>1. /\ Alloc(t1, U, f2) /\ \A x \in Handles : x \notin U => M[x] = t1.nodes[x]
        /\ t2.bump_index = t1.bump_index /\ t2.free_list_len = t1.free_list_len
        /\ t2.free_list_head = t1.free_list_head
    BY <1>6, <1>10, <1>17
  <2> HIDE DEF t1
  <2> QED BY <1>10, <1>11, <1>13, <1>14, <1>15, <1>18, <2>1, Finish
<1> QED BY <1>19 DEF Sound

(* A leaf over one with the same key.                                      *)
LEMMA ClobberSound ==
  ASSUME NEW t, NEW T, NEW fl, NEW rank, Grove(t, T, fl, rank), t.leaf_count # 0, NEW leaf,
         leaf.tag = "leaf", leaf.expiry \in Int, NEW s, NEW h \in T, Climb(t.nodes, T, t.root_node, s, h),
         t.nodes[h].tag = "leaf", \A i \in 1..Len(s) : s[i].h # h
  PROVE  Sound(Clobber(t, s, h, leaf).t)
<1> DEFINE N == t.nodes
           M == [N EXCEPT ![h] = leaf]
           old == N[h].expiry
           P == update_parent_earliest_expiry(M, s, old, leaf.expiry)
           t2 == [t EXCEPT !.nodes = P]
<1>0. /\ Alloc(t, T, fl) /\ t.leaf_count \in Nat /\ Tree(N, t.root_node, T, rank) /\ Shapes(N, T) /\ Cached(N, T)
      /\ Cardinality(T) = 2 * t.leaf_count - 1
  BY DEF Grove, Planted
<1>1. DOMAIN t = SideFields /\ DOMAIN N = Handles /\ T \subseteq Handles BY <1>0 DEF Alloc, Laid
<1>2. Clobber(t, s, h, leaf).t = t2 BY DEF Clobber
<1>n. N[h].tag = "leaf" /\ Climb(N, T, t.root_node, s, h) OBVIOUS
<1> HIDE DEF N
<1>3. /\ M = [x \in Handles |-> M[x]] /\ M[h] = leaf /\ \A x \in Handles : x # h => M[x] = N[x]
  BY <1>1
<1> HIDE DEF M, P
<1>4. SameShape(N, M) BY <1>3, <1>n DEF SameShape
<1>5. Tree(M, t.root_node, T, rank) BY <1>0, <1>4, TreeSame
<1>6. Shapes(M, T)
  <2> SUFFICES ASSUME NEW x \in T PROVE IF M[x].tag = "inner" THEN InnerShape(M[x]) ELSE M[x].expiry \in Int
    BY <1>3 DEF Shapes
  <2>1. CASE x = h BY <1>3, <2>1
  <2>2. CASE x # h
    <3>1. M[x] = N[x] BY <1>1, <1>3, <2>2
    <3> QED BY <1>0, <3>1 DEF Shapes
  <2> QED BY <2>1, <2>2
<1>7. \A i \in 1..Len(s) : s[i].h \in T /\ M[s[i].h] = N[s[i].h] BY <1>1, <1>3, <1>n DEF Climb
<1>8. Climb(M, T, t.root_node, s, h) BY <1>7, <1>n, ClimbMoves
<1>9. ASSUME NEW p \in T, NEW b \in 0..1, M[p].tag = "inner"
      PROVE  M[p] = N[p] /\ Fresh(N, p, b)
  <2>1. p # h BY <1>3, <1>9
  <2>2. M[p] = N[p] BY <1>1, <1>3, <2>1
  <2> QED BY <1>0, <1>9, <2>2 DEF Cached
<1>10. CachedBut(M, T, h)
  <2> SUFFICES ASSUME NEW p \in T, NEW b \in 0..1, M[p].tag = "inner", M[p].children[b] # h PROVE Fresh(M, p, b)
    BY DEF CachedBut
  <2>1. M[p] = N[p] /\ Fresh(N, p, b) BY <1>9
  <2>2. Leads(M, p, b, M[p].children[b]) BY DEF Leads
  <2>3. M[p].children[b] \in T BY <1>5, <2>2, Edges
  <2>4. M[M[p].children[b]] = N[M[p].children[b]] BY <1>1, <1>3, <2>3
  <2> QED BY <2>1, <2>4 DEF Fresh
<1>11. earliest_expiry(M[h]) = leaf.expiry BY <1>3 DEF earliest_expiry
<1>12. ASSUME NEW p \in T, NEW b \in 0..1, Leads(M, p, b, h) PROVE M[p].child_earliest_expiry[b] = old
  <2>1. M[p].tag = "inner" /\ M[p].children[b] = h BY <1>12 DEF Leads
  <2>2. M[p] = N[p] /\ Fresh(N, p, b) BY <1>9, <2>1
  <2>3. earliest_expiry(N[h]) = old BY <1>n DEF earliest_expiry
  <2> QED BY <2>1, <2>2, <2>3 DEF Fresh
<1>13. Alike(M, P) /\ Cached(P, T)
  <2> HIDE DEF old
  <2>1. \A p \in T, b \in 0..1 : Leads(M, p, b, h) => M[p].child_earliest_expiry[b] \in {old, earliest_expiry(M[h])}
    BY <1>12
  <2>2. P = update_parent_earliest_expiry(M, s, old, earliest_expiry(M[h])) BY <1>11 DEF P
  <2> QED BY <1>5, <1>6, <1>8, <1>10, <2>1, <2>2, UpdateFixes
<1>14. /\ DOMAIN t2 = SideFields /\ t2.root_node = t.root_node /\ t2.leaf_count = t.leaf_count /\ t2.nodes = P
       /\ t2.bump_index = t.bump_index /\ t2.free_list_len = t.free_list_len
       /\ t2.free_list_head = t.free_list_head
  BY <1>1 DEF SideFields
<1> HIDE DEF t2
<1>15. \A x \in Handles : x \notin T => M[x] = t.nodes[x] BY <1>3 DEF N
<1>16. Grove(t2, T, fl, rank) BY <1>0, <1>5, <1>6, <1>13, <1>14, <1>15, Finish
<1> QED BY <1>2, <1>16 DEF Sound

(* What handing out two nodes does: n1 for the leaf, n2 for the node moved. *)
TwoMore(t, T, leaf, old, n1, n2) ==
  /\ n1.ok /\ n2.ok /\ n1.h \in Handles /\ n2.h \in Handles /\ n1.h \notin T /\ n2.h \notin T /\ n1.h # n2.h
  /\ SameTree(t, n2.t) /\ DOMAIN n2.t = SideFields
  /\ Cardinality(T \cup {n1.h, n2.h}) = Cardinality(T) + 2
  /\ DOMAIN n2.t.nodes = Handles /\ n2.t.nodes[n1.h] = leaf /\ n2.t.nodes[n2.h] = old
  /\ \A x \in Handles : x # n1.h /\ x # n2.h => n2.t.nodes[x] = t.nodes[x]
  /\ \E f2 : Alloc(n2.t, T \cup {n1.h, n2.h}, f2)

(* The two nodes a split needs are there, and are new.                     *)
LEMMA SplitNodes ==
  ASSUME NEW t, NEW T, NEW fl, Alloc(t, T, fl), Cardinality(T) + 2 <= Len_nodes, NEW leaf, NEW old,
         NEW n1, n1 = insert(t, leaf), NEW n2, n2 = insert(n1.t, old)
  PROVE  TwoMore(t, T, leaf, old, n1, n2)
<1>0. Cardinality(T) \in Nat /\ IsFiniteSet(T) /\ Len_nodes \in Nat /\ DOMAIN t.nodes = Handles
  BY FS_CardinalityType, NodesAssumption DEF Alloc, Laid
<1>1. Cardinality(T) < Len_nodes BY <1>0
<1>2. /\ n1.ok /\ n1.h \in Handles /\ n1.h \notin T
      /\ n1.t.nodes = [t.nodes EXCEPT ![n1.h] = leaf] /\ SameTree(t, n1.t)
      /\ \E f2 : Alloc(n1.t, T \cup {n1.h}, f2)
  BY <1>1, InsertAlloc
<1> DEFINE V == T \cup {n1.h}
           W == T \cup {n1.h, n2.h}
<1>3. PICK f1 : Alloc(n1.t, V, f1) BY <1>2
<1>4. Cardinality(V) = Cardinality(T) + 1 /\ IsFiniteSet(V) BY <1>0, <1>2, FS_AddElement
<1>5. Cardinality(V) < Len_nodes BY <1>0, <1>4
<1>6. /\ n2.ok /\ n2.h \in Handles /\ n2.h \notin V
      /\ n2.t.nodes = [n1.t.nodes EXCEPT ![n2.h] = old] /\ SameTree(n1.t, n2.t)
      /\ \E f2 : Alloc(n2.t, V \cup {n2.h}, f2)
  <2> HIDE DEF V
  <2> DEFINE t1 == n1.t
  <2>1. Alloc(t1, V, f1) /\ n2 = insert(t1, old) BY <1>3
  <2> HIDE DEF t1
  <2>2. /\ n2.ok /\ n2.h \in Handles /\ n2.h \notin V
        /\ n2.t.nodes = [t1.nodes EXCEPT ![n2.h] = old] /\ SameTree(t1, n2.t)
        /\ \E f2 : Alloc(n2.t, V \cup {n2.h}, f2)
    BY <1>5, <2>1, InsertAlloc
  <2> QED BY <2>2 DEF t1
<1>7. V \cup {n2.h} = W OBVIOUS
<1>8. Cardinality(W) = Cardinality(T) + 2
  <2>1. Cardinality(V \cup {n2.h}) = Cardinality(V) + 1 BY <1>4, <1>6, FS_AddElement
  <2>2. Cardinality(W) = Cardinality(V) + 1 BY <1>7, <2>1
  <2> HIDE DEF V, W
  <2> QED BY <1>0, <1>4, <2>2
<1>9. n1.h # n2.h /\ n2.h \notin T BY <1>6
<1>10. /\ DOMAIN n2.t.nodes = Handles /\ n2.t.nodes[n1.h] = leaf /\ n2.t.nodes[n2.h] = old
       /\ \A x \in Handles : x # n1.h /\ x # n2.h => n2.t.nodes[x] = t.nodes[x]
  <2> DEFINE A == n1.t.nodes
             B == n2.t.nodes
             g == n1.h
             m == n2.h
             N == t.nodes
  <2>1. A = [N EXCEPT ![g] = leaf] /\ B = [A EXCEPT ![m] = old] /\ DOMAIN N = Handles /\ g \in Handles /\ m \in Handles /\ g # m
    BY <1>0, <1>2, <1>6, <1>9
  <2> HIDE DEF A, B, g, m, N
  <2>2. DOMAIN A = Handles /\ A[g] = leaf /\ \A x \in Handles : x # g => A[x] = N[x] BY <2>1
  <2>3. DOMAIN B = Handles /\ B[m] = old /\ \A x \in Handles : x # m => B[x] = A[x] BY <2>1, <2>2
  <2>4. B[g] = leaf /\ \A x \in Handles : x # g /\ x # m => B[x] = N[x] BY <2>1, <2>2, <2>3
  <2> QED BY <2>3, <2>4 DEF A, B, g, m, N
<1>11. PICK f2 : Alloc(n2.t, W, f2) BY <1>6, <1>7
<1>12. DOMAIN n2.t = SideFields BY <1>11 DEF Alloc, Laid
<1>13. SameTree(t, n2.t) BY <1>2, <1>6 DEF SameTree
<1> QED BY <1>2, <1>6, <1>8, <1>9, <1>10, <1>11, <1>12, <1>13 DEF TwoMore

(* A leaf at a new place.                                                  *)
LEMMA SplitSound ==
  ASSUME NEW t, NEW T, NEW fl, NEW rank, Grove(t, T, fl, rank), t.leaf_count # 0, Cardinality(T) + 2 <= Len_nodes,
         NEW leaf, leaf.tag = "leaf", NEW s, NEW h \in T, Climb(t.nodes, T, t.root_node, s, h),
         \A i \in 1..Len(s) : s[i].h # h, NEW r, r = Split(t, s, h, leaf)
  PROVE  r.ok /\ (leaf.expiry \in Int => Sound(r.t))
<1> DEFINE N == t.nodes
           old == N[h]
           prefix == shared_prefix_len(old.key, leaf.key)
           d == Bit(leaf.key, prefix)
           n1 == insert(t, leaf)
           n2 == insert(n1.t, old)
           g == n1.h
           m == n2.h
           v == earliest_expiry(old)
           inner == [tag |-> "inner", prefix_len |-> prefix, key |-> leaf.key,
                     children |-> [b \in 0..1 |-> IF b = d THEN g ELSE m],
                     child_earliest_expiry |-> [b \in 0..1 |-> IF b = d THEN leaf.expiry ELSE v]]
           M == [n2.t.nodes EXCEPT ![h] = inner]
           P == IF leaf.expiry < v THEN update_parent_earliest_expiry(M, s, v, leaf.expiry) ELSE M
           t2 == [n2.t EXCEPT !.leaf_count = @ + 1, !.nodes = P]
           U == T \cup {g, m}
           rk == SplitRank(rank, h, g, m)
<1>0. /\ Alloc(t, T, fl) /\ t.leaf_count \in Nat /\ Tree(N, t.root_node, T, rank) /\ Shapes(N, T) /\ Cached(N, T)
      /\ Cardinality(T) = 2 * t.leaf_count - 1
  BY DEF Grove, Planted
<1>1. T \subseteq Handles BY <1>0 DEF Alloc
<1>2. /\ n1.ok /\ n2.ok /\ g \in Handles /\ m \in Handles /\ g \notin T /\ m \notin T /\ g # m
      /\ SameTree(t, n2.t) /\ DOMAIN n2.t = SideFields
      /\ Cardinality(U) = Cardinality(T) + 2
      /\ DOMAIN n2.t.nodes = Handles /\ n2.t.nodes[g] = leaf /\ n2.t.nodes[m] = old
      /\ \A x \in Handles : x # g /\ x # m => n2.t.nodes[x] = t.nodes[x]
      /\ \E f2 : Alloc(n2.t, U, f2)
  <2> DEFINE x1 == n1
             x2 == n2
  <2>1. x1 = insert(t, leaf) /\ x2 = insert(x1.t, old) OBVIOUS
  <2> HIDE DEF x1, x2, old
  <2>2. TwoMore(t, T, leaf, old, x1, x2) BY <1>0, <2>1, SplitNodes
  <2> QED BY <2>2 DEF TwoMore, x1, x2
<1>3. r = [ok |-> TRUE, t |-> t2]
  <2>1. r = IF ~n1.ok \/ ~n2.ok THEN [ok |-> FALSE] ELSE [ok |-> TRUE, t |-> t2] BY DEF Split
  <2> QED BY <1>2, <2>1
<1>4. r.ok /\ r.t = t2 BY <1>3
<1> SUFFICES ASSUME leaf.expiry \in Int PROVE Sound(t2) BY <1>4
<1>5. PICK f2 : Alloc(n2.t, U, f2) BY <1>2
<1>d. d \in 0..1 /\ 1 - d \in 0..1 /\ d # 1 - d
  <2>1. d \in 0..1 BY DEF Bit
  <2> HIDE DEF d
  <2> QED BY <2>1
<1>n. Climb(N, T, t.root_node, s, h) /\ old = N[h] /\ v = earliest_expiry(N[h]) OBVIOUS
<1> HIDE DEF prefix, d, n1, n2, g, m
<1> DEFINE t1 == n2.t
           K == t1.nodes
<1>6. /\ t1.root_node = t.root_node /\ t1.leaf_count = t.leaf_count /\ DOMAIN t1 = SideFields
      /\ DOMAIN K = Handles /\ K[g] = leaf /\ K[m] = N[h] /\ \A x \in Handles : x # g /\ x # m => K[x] = N[x]
      /\ Alloc(t1, U, f2)
  BY <1>2, <1>5 DEF SameTree
<1>7. M = [K EXCEPT ![h] = inner] OBVIOUS
<1>8. /\ inner.tag = "inner" /\ inner.children[d] = g /\ inner.children[1 - d] = m
      /\ inner.child_earliest_expiry[d] = leaf.expiry /\ inner.child_earliest_expiry[1 - d] = v
      /\ inner.child_earliest_expiry = [b \in 0..1 |-> IF b = d THEN leaf.expiry ELSE v]
      /\ DOMAIN inner = {"tag", "prefix_len", "key", "children", "child_earliest_expiry"}
  <2> HIDE DEF v
  <2> QED BY <1>d
<1> HIDE DEF inner, K, N, M
<1>h. h \in Handles /\ h # g /\ h # m BY <1>1, <1>2
<1>9. /\ M = [x \in Handles |-> M[x]] /\ M[h] = inner /\ M[g] = leaf /\ M[m] = N[h]
      /\ \A x \in Handles : x # h /\ x # g /\ x # m => M[x] = N[x]
      /\ \A x \in Handles : x # h => M[x] = K[x]
  BY <1>2, <1>6, <1>7, <1>h
<1>10. SplitAt(N, M, T, h, g, m, d) BY <1>2, <1>8, <1>9, <1>d DEF SplitAt
<1>11. v \in Int
  <2>1. IF N[h].tag = "inner" THEN InnerShape(N[h]) ELSE N[h].tag = "leaf" /\ N[h].expiry \in Int
    BY <1>0 DEF Shapes, Tree
  <2> HIDE DEF v
  <2>2. earliest_expiry(N[h]) \in Int BY <2>1, EarliestInt
  <2> QED BY <1>n, <2>2
<1> HIDE DEF v
<1>12. InnerShape(M[h])
  <2>1. [b \in 0..1 |-> IF b = d THEN leaf.expiry ELSE v] \in [0..1 -> Int] BY <1>11
  <2> QED BY <1>8, <1>9, <2>1 DEF InnerShape
<1> HIDE DEF P, t2, old
<1>13. Tree(M, t.root_node, U, rk) BY <1>0, <1>10, TreeSplit
<1> HIDE DEF rk, U
<1>14. /\ Shapes(M, U) /\ CachedBut(M, U, h)
       /\ \A q \in U, f \in 0..1 : Leads(M, q, f, h) => M[q].child_earliest_expiry[f] = v
       /\ earliest_expiry(M[h]) = IF leaf.expiry < v THEN leaf.expiry ELSE v
  <2>1. M[g].expiry = leaf.expiry /\ M[g].expiry \in Int /\ M[h].child_earliest_expiry[d] = M[g].expiry
        /\ M[h].child_earliest_expiry[1 - d] = earliest_expiry(N[h])
    BY <1>8, <1>9, <1>n
  <2>2. /\ Shapes(M, T \cup {g, m}) /\ CachedBut(M, T \cup {g, m}, h)
        /\ \A q \in T \cup {g, m}, f \in 0..1 : Leads(M, q, f, h) =>
              M[q].child_earliest_expiry[f] = earliest_expiry(N[h])
        /\ earliest_expiry(M[h]) = IF M[g].expiry < earliest_expiry(N[h]) THEN M[g].expiry ELSE earliest_expiry(N[h])
    <3>1. M = [x \in Handles |-> M[x]] BY <1>9
    <3>2. SplitDone(N, M, T, h, g, m) BY <1>0, <1>10, <1>12, <2>1, <3>1, SplitCaches
    <3> QED BY <3>2 DEF SplitDone
  <2> QED BY <1>n, <2>1, <2>2 DEF U
<1>15. Alike(M, P) /\ Cached(P, U)
  <2>1. CASE leaf.expiry < v
    <3>1. earliest_expiry(M[h]) = leaf.expiry BY <1>14, <2>1
    <3>2. P = update_parent_earliest_expiry(M, s, v, earliest_expiry(M[h])) BY <2>1, <3>1 DEF P
    <3>3. \A i \in 1..Len(s) : s[i].h \in U /\ M[s[i].h] = N[s[i].h]
      <4> SUFFICES ASSUME NEW i \in 1..Len(s) PROVE s[i].h \in U /\ M[s[i].h] = N[s[i].h] OBVIOUS
      <4>1. s[i].h \in T BY <1>n DEF Climb
      <4>2. s[i].h # h /\ s[i].h # g /\ s[i].h # m /\ s[i].h \in Handles BY <1>1, <1>2, <4>1
      <4> QED BY <1>9, <4>1, <4>2 DEF U
    <3>4. h \in U BY DEF U
    <3>5. Climb(M, U, t.root_node, s, h) BY <1>n, <3>3, <3>4, ClimbMoves
    <3>6. \A q \in U, f \in 0..1 : Leads(M, q, f, h) => M[q].child_earliest_expiry[f] \in {v, earliest_expiry(M[h])}
      BY <1>14
    <3> QED BY <1>13, <1>14, <3>2, <3>5, <3>6, UpdateFixes
  <2>2. CASE ~(leaf.expiry < v)
    <3>1. P = M BY <2>2 DEF P
    <3>2. earliest_expiry(M[h]) = v BY <1>14, <2>2
    <3>3. Cached(M, U)
      <4> SUFFICES ASSUME NEW p \in U, NEW b \in 0..1, M[p].tag = "inner" PROVE Fresh(M, p, b) BY DEF Cached
      <4>1. CASE M[p].children[b] = h
        <5>1. Leads(M, p, b, h) BY <4>1 DEF Leads
        <5>2. M[p].child_earliest_expiry[b] = v BY <1>14, <5>1
        <5> QED BY <3>2, <4>1, <5>2 DEF Fresh
      <4>2. CASE M[p].children[b] # h BY <1>14, <4>2 DEF CachedBut
      <4> QED BY <4>1, <4>2
    <3>4. Alike(M, M)
      <4>1. \A x \in Handles : M[x].tag = "inner" => InnerShape(M[x]) BY <1>13, <1>14 DEF Tree, Shapes
      <4> QED BY <1>9, <4>1 DEF Alike
    <3> QED BY <3>1, <3>3, <3>4
  <2> QED BY <2>1, <2>2
<1>16. /\ DOMAIN t2 = SideFields /\ t2.root_node = t1.root_node /\ t2.leaf_count = t1.leaf_count + 1 /\ t2.nodes = P
       /\ t2.bump_index = t1.bump_index /\ t2.free_list_len = t1.free_list_len
       /\ t2.free_list_head = t1.free_list_head
  BY <1>6 DEF SideFields, t2
<1> HIDE DEF t1
<1>17. t2.leaf_count \in Nat /\ t2.leaf_count # 0 /\ Cardinality(U) = 2 * t2.leaf_count - 1
  <2>1. Cardinality(U) = Cardinality(T) + 2 BY <1>2
  <2> QED BY <1>0, <1>6, <1>16, <2>1
<1>18. \A x \in Handles : x \notin U => M[x] = t1.nodes[x] BY <1>9 DEF U, K
<1>19. Alloc(t1, U, f2) /\ t2.root_node = t.root_node BY <1>6, <1>16
<1>20. Grove(t2, U, f2, rk) BY <1>13, <1>14, <1>15, <1>16, <1>17, <1>18, <1>19, Finish
<1> QED BY <1>20 DEF Sound

(* Putting a leaf in, in any of the three ways.                            *)
LEMMA InsertSound ==
  ASSUME NEW t, Sound(t), ~is_full(t), NEW leaf, leaf.tag = "leaf"
  PROVE  insert_leaf(t, leaf).ok /\ (leaf.expiry \in Int => Sound(insert_leaf(t, leaf).t))
<1> DEFINE r == insert_leaf(t, leaf)
           key == leaf.key
           Via == {h \in Inner(t) : shared_prefix_len(t.nodes[h].key, key) >= t.nodes[h].prefix_len}
           s == Path(t, key, Via)
           h == EndOf(t, s, key)
<1>1. PICK T, fl, rank : Grove(t, T, fl, rank) BY DEF Sound
<1>2. Cardinality(T) + 2 <= Len_nodes BY <1>1, Room
<1>3. r = IF t.leaf_count = 0 THEN InsertRoot(t, leaf)
          ELSE IF t.nodes[h].tag = "leaf" /\ t.nodes[h].key = key THEN Clobber(t, s, h, leaf)
          ELSE Split(t, s, h, leaf)
  BY DEF insert_leaf
<1> HIDE DEF r
<1>4. CASE t.leaf_count = 0
  <2>1. r = InsertRoot(t, leaf) BY <1>3, <1>4
  <2> QED BY <1>1, <1>4, <2>1, InsertRootSound DEF r
<1>5. CASE t.leaf_count # 0
  <2>1. Tree(t.nodes, t.root_node, T, rank) BY <1>1, <1>5 DEF Grove, Planted
  <2>2. Via \subseteq Inner(t) OBVIOUS
  <2> HIDE DEF Via
  <2>3. h \in T /\ h \notin Via /\ Trail(t, key, Via, rank, t.root_node, s, h) BY <2>1, <2>2, PathEnds
  <2> HIDE DEF s, h
  <2>4. Climb(t.nodes, T, t.root_node, s, h) BY <2>1, <2>2, <2>3, TrailClimbs
  <2>5. \A i \in 1..Len(s) : s[i].h # h BY <2>3 DEF Trail
  <2>6. CASE t.nodes[h].tag = "leaf" /\ t.nodes[h].key = key
    <3>1. r = Clobber(t, s, h, leaf) BY <1>3, <1>5, <2>6
    <3>2. r.ok BY <3>1 DEF Clobber
    <3>3. leaf.expiry \in Int => Sound(r.t) BY <1>1, <1>5, <2>3, <2>4, <2>5, <2>6, <3>1, ClobberSound
    <3> QED BY <3>2, <3>3 DEF r
  <2>7. CASE ~(t.nodes[h].tag = "leaf" /\ t.nodes[h].key = key)
    <3>1. r = Split(t, s, h, leaf) BY <1>3, <1>5, <2>7
    <3>2. r.ok /\ (leaf.expiry \in Int => Sound(r.t)) BY <1>1, <1>2, <1>5, <2>3, <2>4, <2>5, <3>1, SplitSound
    <3> QED BY <3>2 DEF r
  <2> QED BY <2>6, <2>7
<1> QED BY <1>4, <1>5

(* The last leaf is taken out.                                             *)
LEMMA RemoveRootSound ==
  ASSUME NEW t, NEW T, NEW fl, NEW rank, Grove(t, T, fl, rank), t.leaf_count # 0, t.nodes[t.root_node].tag # "inner"
  PROVE  Sound(remove([t EXCEPT !.root_node = 0, !.leaf_count = 0], t.root_node))
<1> DEFINE h == t.root_node
           t1 == [t EXCEPT !.root_node = 0, !.leaf_count = 0]
           t2 == remove(t1, h)
<1>0. /\ Alloc(t, T, fl) /\ Tree(t.nodes, h, T, rank) /\ DOMAIN t = SideFields /\ DOMAIN t.nodes = Handles
      /\ \A x \in Handles : t.nodes[x].tag = "inner" => x \in T
  BY DEF Grove, Planted, Alloc, Laid
<1>1. T = {h} BY <1>0, LeafRoot
<1>2. /\ DOMAIN t1 = SideFields /\ t1.leaf_count = 0 /\ t1.nodes = t.nodes
      /\ t1.bump_index = t.bump_index /\ t1.free_list_len = t.free_list_len
      /\ t1.free_list_head = t.free_list_head
  BY <1>0 DEF SideFields
<1> HIDE DEF t1, h
<1>3. Alloc(t1, T, fl)
  <2>1. DOMAIN t1.nodes = Handles /\ \A x \in Handles : x \notin T => t1.nodes[x] = t.nodes[x] BY <1>0, <1>2
  <2> QED BY <1>0, <1>2, <2>1, WriteAlloc
<1>4. h \in T BY <1>1
<1>5. /\ \E v : t2.nodes = [t1.nodes EXCEPT ![h] = v] /\ v.tag \in {"free", "last_free"}
      /\ SameTree(t1, t2) /\ \E f2 : Alloc(t2, T \ {h}, f2)
  BY <1>3, <1>4, RemoveAlloc
<1> HIDE DEF t2
<1>6. PICK f2 : Alloc(t2, T \ {h}, f2) BY <1>5
<1>7. T \ {h} = {} BY <1>1
<1>8. Alloc(t2, {}, f2) BY <1>6, <1>7
<1>9. PICK v : t2.nodes = [t1.nodes EXCEPT ![h] = v] /\ v.tag \in {"free", "last_free"} BY <1>5
<1>10. \A x \in Handles : t2.nodes[x].tag # "inner"
  <2> SUFFICES ASSUME NEW x \in Handles PROVE t2.nodes[x].tag # "inner" OBVIOUS
  <2>1. CASE x = h
    <3>1. t2.nodes[x] = v BY <1>0, <1>2, <1>9, <2>1
    <3> QED BY <1>9, <3>1
  <2>2. CASE x # h
    <3>1. t2.nodes[x] = t.nodes[x] BY <1>0, <1>2, <1>9, <2>2
    <3> QED BY <1>0, <1>1, <2>2, <3>1
  <2> QED BY <2>1, <2>2
<1>11. t2.leaf_count = 0 BY <1>2, <1>5 DEF SameTree
<1>12. Grove(t2, {}, f2, rank) BY <1>8, <1>10, <1>11 DEF Grove
<1>13. Sound(t2) BY <1>12 DEF Sound
<1> QED BY <1>13 DEF t2, t1, h

(* The front of a stack leads to the node at its top.                      *)
LEMMA FrontClimbs ==
  ASSUME NEW N, NEW T, NEW root, NEW s, NEW e, Climb(N, T, root, s, e), s # <<>>
  PROVE  /\ Climb(N, T, root, Front(s), Last(s).h) /\ Len(s) \in 1..Len(s)
         /\ Last(s) = s[Len(s)] /\ Last(s).h \in T /\ Last(s).bit \in 0..1 /\ Leads(N, Last(s).h, Last(s).bit, e)
         /\ \A i \in 1..Len(Front(s)) : i \in 1..Len(s) /\ i < Len(s) /\ Front(s)[i] = s[i]
<1> DEFINE R == [h : Handles, bit : 0..1]
           n == Len(s)
           u == Front(s)
<1>0. s \in Seq(R) /\ root = s[1].h /\ \A i \in 1..n :
        s[i].h \in T /\ Leads(N, s[i].h, s[i].bit, IF i = n THEN e ELSE s[i + 1].h)
  BY DEF Climb
<1> HIDE DEF R
<1>1. n \in Nat /\ n # 0 /\ n \in 1..n BY <1>0
<1>2. Last(s) = s[n] BY DEF Last
<1>3. s[n] \in R BY <1>0, <1>1
<1>4. s[n].bit \in 0..1 BY <1>3 DEF R
<1>5. u \in Seq(R) /\ Len(u) = n - 1 /\ \A i \in 1..n - 1 : u[i] = s[i]
  <2> DEFINE k == n - 1
  <2>1. k \in Nat /\ k - 1 + 1 = k BY <1>1
  <2>2. \A i \in 1..k : i \in 1..n /\ s[i] \in R BY <1>0, <1>1
  <2>3. u = SubSeq(s, 1, k) BY DEF Front
  <2> HIDE DEF k, n, u
  <2>4. /\ SubSeq(s, 1, k) \in Seq(R) /\ Len(SubSeq(s, 1, k)) = (IF 1 <= k THEN k - 1 + 1 ELSE 0)
        /\ \A i \in 1..k - 1 + 1 : SubSeq(s, 1, k)[i] = s[1 + i - 1]
    BY <2>1, <2>2, SubSeqProperties
  <2>5. Len(u) = k BY <2>1, <2>3, <2>4
  <2>6. \A i \in 1..k : u[i] = s[i]
    <3> SUFFICES ASSUME NEW i \in 1..k PROVE u[i] = s[i] OBVIOUS
    <3>1. i \in 1..k - 1 + 1 /\ 1 + i - 1 = i BY <2>1
    <3> QED BY <2>3, <2>4, <3>1
  <2> QED BY <2>3, <2>4, <2>5, <2>6 DEF k
<1> HIDE DEF u
<1>6. \A i \in 1..Len(u) : i \in 1..n /\ i < n /\ u[i] = s[i] BY <1>1, <1>5
<1>7. root = IF u = <<>> THEN s[n].h ELSE u[1].h
  <2>1. CASE u = <<>>
    <3>1. n = 1 BY <1>1, <1>5, <2>1
    <3> QED BY <1>0, <2>1, <3>1
  <2>2. CASE u # <<>>
    <3>1. 1 \in 1..Len(u) BY <1>5, <2>2
    <3> QED BY <1>0, <1>6, <2>2, <3>1
  <2> QED BY <2>1, <2>2
<1>8. ASSUME NEW i \in 1..Len(u)
      PROVE  u[i].h \in T /\ Leads(N, u[i].h, u[i].bit, IF i = Len(u) THEN s[n].h ELSE u[i + 1].h)
  <2>1. i \in 1..n /\ i # n /\ u[i] = s[i] BY <1>1, <1>6
  <2>2. s[i].h \in T /\ Leads(N, s[i].h, s[i].bit, s[i + 1].h) BY <1>0, <2>1
  <2>3. i = Len(u) => i + 1 = n BY <1>1, <1>5
  <2>4. i # Len(u) => u[i + 1] = s[i + 1]
    <3>1. i # Len(u) => i + 1 \in 1..Len(u) BY <1>1, <1>5
    <3> QED BY <1>6, <3>1
  <2> QED BY <2>1, <2>2, <2>3, <2>4
<1>9. s[n].h \in T /\ Leads(N, s[n].h, s[n].bit, e) BY <1>0, <1>1
<1>10. Climb(N, T, root, u, s[n].h) BY <1>5, <1>7, <1>8, <1>9 DEF Climb, R
<1> QED BY <1>1, <1>2, <1>4, <1>6, <1>9, <1>10 DEF u

(* A leaf is taken out of a tree of several.                               *)
LEMMA RemoveLeafSound ==
  ASSUME NEW t, NEW T, NEW fl, NEW rank, Grove(t, T, fl, rank), t.leaf_count # 0, NEW s, NEW h \in T,
         Climb(t.nodes, T, t.root_node, s, h), s # <<>>, t.nodes[h].tag = "leaf",
         \A i, j \in 1..Len(s) : i < j => rank[s[j].h] < rank[s[i].h]
  PROVE  Sound(RemoveLeaf(t, s, h))
<1> DEFINE N == t.nodes
           root == t.root_node
           p == Last(s).h
           b == Last(s).bit
           o == N[p].children[1 - b]
           kept == N[o]
           t1 == remove(t, o)
           t1b == [t1 EXCEPT !.nodes[p] = kept, !.leaf_count = @ - 1]
           t2 == remove(t1b, h)
           M == t2.nodes
           u == Front(s)
           out == N[h].expiry
           P == update_parent_earliest_expiry(M, u, out, earliest_expiry(kept))
           t3 == [t2 EXCEPT !.nodes = P]
           U == T \ {h, o}
<1>0. /\ Alloc(t, T, fl) /\ t.leaf_count \in Nat /\ Tree(N, root, T, rank) /\ Shapes(N, T) /\ Cached(N, T)
      /\ Cardinality(T) = 2 * t.leaf_count - 1 /\ IsFiniteSet(T)
  BY DEF Grove, Planted, Alloc
<1>1. T \subseteq Handles /\ DOMAIN N = Handles /\ DOMAIN t = SideFields BY <1>0 DEF Alloc, Laid
<1>2. RemoveLeaf(t, s, h) = t3 BY DEF RemoveLeaf
<1>n. N[h].tag = "leaf" /\ Climb(N, T, root, s, h) OBVIOUS
<1> HIDE DEF N, root
<1>3. /\ Climb(N, T, root, u, p) /\ Len(s) \in 1..Len(s)
      /\ Last(s) = s[Len(s)] /\ p \in T /\ b \in 0..1 /\ Leads(N, p, b, h)
      /\ \A i \in 1..Len(u) : i \in 1..Len(s) /\ i < Len(s) /\ u[i] = s[i]
  BY <1>n, FrontClimbs
<1> HIDE DEF p, b, u
<1>4. 1 - b \in 0..1 /\ b # 1 - b BY <1>3
<1>5. Leads(N, p, 1 - b, o) BY <1>3 DEF Leads
<1>6. o \in T /\ o # p BY <1>0, <1>3, <1>4, <1>5, Edges
<1>7. h # p BY <1>0, <1>3, Edges
<1>8. h # o
  <2>1. OneParent(N, T) BY <1>0 DEF Tree
  <2> QED BY <1>3, <1>4, <1>5, <2>1 DEF OneParent
<1> HIDE DEF o, kept
<1>9. /\ \E v : t1.nodes = [N EXCEPT ![o] = v] /\ v.tag \in {"free", "last_free"}
      /\ SameTree(t, t1) /\ \E f1 : Alloc(t1, T \ {o}, f1)
  <2>1. /\ \E v : t1.nodes = [t.nodes EXCEPT ![o] = v] /\ v.tag \in {"free", "last_free"}
        /\ SameTree(t, t1) /\ \E f1 : Alloc(t1, T \ {o}, f1)
    BY <1>0, <1>6, RemoveAlloc
  <2> QED BY <2>1 DEF N
<1> HIDE DEF t1
<1>10. PICK v1 : t1.nodes = [N EXCEPT ![o] = v1] /\ v1.tag \in {"free", "last_free"} BY <1>9
<1>11. PICK f1 : Alloc(t1, T \ {o}, f1) BY <1>9
<1>12. DOMAIN t1 = SideFields BY <1>11 DEF Alloc, Laid
<1>13. /\ DOMAIN t1b = SideFields /\ t1b.root_node = t1.root_node /\ t1b.leaf_count = t1.leaf_count - 1
       /\ t1b.nodes = [t1.nodes EXCEPT ![p] = kept] /\ t1b.bump_index = t1.bump_index
       /\ t1b.free_list_len = t1.free_list_len /\ t1b.free_list_head = t1.free_list_head
  BY <1>12 DEF SideFields
<1> HIDE DEF t1b
<1>14. p \in Handles /\ o \in Handles /\ h \in Handles BY <1>1, <1>3, <1>6
<1>15. /\ DOMAIN t1b.nodes = Handles /\ t1b.nodes[p] = kept /\ t1b.nodes[o] = v1
       /\ \A x \in Handles : x # p => t1b.nodes[x] = t1.nodes[x]
       /\ \A x \in Handles : x # p /\ x # o => t1b.nodes[x] = N[x]
  <2> DEFINE A == t1.nodes
             B == t1b.nodes
  <2>1. A = [N EXCEPT ![o] = v1] /\ B = [A EXCEPT ![p] = kept] BY <1>10, <1>13
  <2> HIDE DEF A, B
  <2>2. DOMAIN A = Handles /\ A[o] = v1 /\ \A x \in Handles : x # o => A[x] = N[x] BY <1>1, <1>14, <2>1
  <2>3. DOMAIN B = Handles /\ B[p] = kept /\ \A x \in Handles : x # p => B[x] = A[x] BY <1>14, <2>1, <2>2
  <2>4. B[o] = v1 /\ \A x \in Handles : x # p /\ x # o => B[x] = N[x] BY <1>6, <1>14, <2>2, <2>3
  <2> QED BY <2>3, <2>4 DEF A, B
<1>16. Alloc(t1b, T \ {o}, f1)
  <2>1. \A x \in Handles : x \notin T \ {o} => t1b.nodes[x] = t1.nodes[x] BY <1>3, <1>6, <1>15
  <2> QED BY <1>11, <1>13, <1>15, <2>1, WriteAlloc
<1>17. h \in T \ {o} BY <1>8
<1>18. /\ \E v : t2.nodes = [t1b.nodes EXCEPT ![h] = v] /\ v.tag \in {"free", "last_free"}
       /\ SameTree(t1b, t2) /\ \E f2 : Alloc(t2, (T \ {o}) \ {h}, f2)
  BY <1>16, <1>17, RemoveAlloc
<1> HIDE DEF t2
<1>19. (T \ {o}) \ {h} = U OBVIOUS
<1>20. PICK f2 : Alloc(t2, U, f2) BY <1>18, <1>19
<1>21. PICK v2 : M = [t1b.nodes EXCEPT ![h] = v2] /\ v2.tag \in {"free", "last_free"} BY <1>18
<1> HIDE DEF M
<1>22. /\ M = [x \in Handles |-> M[x]] /\ M[h] = v2 /\ M[p] = kept /\ M[o] = v1
       /\ \A x \in Handles : x # p /\ x # h /\ x # o => M[x] = N[x]
  <2> DEFINE B == t1b.nodes
  <2>1. M = [B EXCEPT ![h] = v2] /\ DOMAIN B = Handles /\ B[p] = kept /\ B[o] = v1
        /\ \A x \in Handles : x # p /\ x # o => B[x] = N[x]
    BY <1>15, <1>21
  <2> HIDE DEF B
  <2>2. M = [x \in Handles |-> M[x]] /\ M[h] = v2 /\ \A x \in Handles : x # h => M[x] = B[x] BY <1>14, <2>1
  <2> QED BY <1>7, <1>8, <1>14, <2>1, <2>2
<1>23. CutAt(N, M, T, p, b, h, o) BY <1>3, <1>5, <1>10, <1>21, <1>22, <1>n DEF CutAt, kept
<1>24. Tree(M, root, U, rank) /\ p \in U /\ rank[h] < rank[p] /\ rank[o] < rank[p] BY <1>0, <1>23, TreeCut
<1>25. /\ Shapes(M, U) /\ CachedBut(M, U, p)
       /\ \A q \in U, f \in 0..1 : Leads(M, q, f, p) => M[q].child_earliest_expiry[f] \in {out, earliest_expiry(kept)}
  BY <1>0, <1>22, <1>23, CutCaches DEF kept
<1> HIDE DEF out, P, t3
<1>26. Climb(M, U, root, u, p)
  <2>1. ASSUME NEW i \in 1..Len(u) PROVE u[i].h \in U /\ M[u[i].h] = N[u[i].h]
    <3>1. i \in 1..Len(s) /\ i < Len(s) /\ u[i] = s[i] BY <1>3
    <3>2. rank[s[Len(s)].h] < rank[s[i].h] BY <1>3, <3>1
    <3>3. rank[p] < rank[u[i].h] BY <1>3, <3>1, <3>2 DEF p
    <3>4. u[i].h \in T BY <1>3 DEF Climb
    <3>5. \A x \in T : rank[x] \in Nat BY <1>0 DEF Tree, Ranked
    <3>6. u[i].h # p /\ u[i].h # h /\ u[i].h # o BY <1>3, <1>6, <1>24, <3>3, <3>4, <3>5
    <3> QED BY <1>1, <1>22, <3>4, <3>6
  <2> QED BY <1>3, <1>24, <2>1, ClimbMoves
<1>27. Alike(M, P) /\ Cached(P, U)
  <2>1. earliest_expiry(kept) = earliest_expiry(M[p]) BY <1>22
  <2>2. P = update_parent_earliest_expiry(M, u, out, earliest_expiry(M[p])) BY <2>1 DEF P
  <2>3. \A q \in U, f \in 0..1 : Leads(M, q, f, p) => M[q].child_earliest_expiry[f] \in {out, earliest_expiry(M[p])}
    BY <1>25, <2>1
  <2> HIDE DEF U
  <2> QED BY <1>24, <1>25, <1>26, <2>2, <2>3, UpdateFixes
<1>28. DOMAIN t2 = SideFields BY <1>20 DEF Alloc, Laid
<1>29. /\ DOMAIN t3 = SideFields /\ t3.root_node = t2.root_node /\ t3.leaf_count = t2.leaf_count /\ t3.nodes = P
       /\ t3.bump_index = t2.bump_index /\ t3.free_list_len = t2.free_list_len
       /\ t3.free_list_head = t2.free_list_head
  BY <1>28 DEF SideFields, t3
<1>30. t3.root_node = root /\ t3.leaf_count = t.leaf_count - 1 BY <1>9, <1>13, <1>18, <1>29 DEF SameTree, root
<1>31. Cardinality(U) = Cardinality(T) - 2 /\ Cardinality(U) \in Nat /\ Cardinality(U) # 0
  <2>1. Cardinality(T \ {o}) = Cardinality(T) - 1 /\ IsFiniteSet(T \ {o}) BY <1>0, <1>6, FS_RemoveElement
  <2>2. Cardinality((T \ {o}) \ {h}) = Cardinality(T \ {o}) - 1 /\ IsFiniteSet((T \ {o}) \ {h})
    <3> DEFINE W == T \ {o}
    <3>1. h \in W /\ IsFiniteSet(W) BY <1>17, <2>1
    <3> HIDE DEF W
    <3>2. Cardinality(W \ {h}) = Cardinality(W) - 1 /\ IsFiniteSet(W \ {h}) BY <3>1, FS_RemoveElement
    <3> QED BY <3>2 DEF W
  <2>3. IsFiniteSet(U) /\ Cardinality(U) = Cardinality(T \ {o}) - 1 BY <1>19, <2>2
  <2>4. Cardinality(T) \in Nat /\ Cardinality(U) \in Nat BY <1>0, <2>3, FS_CardinalityType
  <2>5. Cardinality(U) # 0
    <3> HIDE DEF U
    <3> QED BY <1>24, <2>3, FS_EmptySet
  <2> HIDE DEF U
  <2> QED BY <2>1, <2>3, <2>4, <2>5
<1>32. t3.leaf_count \in Nat /\ t3.leaf_count # 0 /\ Cardinality(U) = 2 * t3.leaf_count - 1
  <2> HIDE DEF U
  <2> QED BY <1>0, <1>30, <1>31
<1>33. \A x \in Handles : x \notin U => M[x] = t2.nodes[x] BY DEF M
<1>34. Grove(t3, U, f2, rank)
  <2> HIDE DEF U
  <2> QED BY <1>20, <1>24, <1>25, <1>27, <1>29, <1>30, <1>32, <1>33, Finish
<1> QED BY <1>2, <1>34 DEF Sound

(* Taking a key out, whether it is there or not.                           *)
LEMMA RemoveSound ==
  ASSUME NEW t, Sound(t), NEW key
  PROVE  Sound(remove_by_key(t, key))
<1> DEFINE Via == Inner(t)
           s == Path(t, key, Via)
           h == EndOf(t, s, key)
           r == remove_by_key(t, key)
<1>1. PICK T, fl, rank : Grove(t, T, fl, rank) BY DEF Sound
<1>2. r = IF t.leaf_count = 0 \/ t.nodes[h].key # key THEN t
          ELSE IF s = <<>> THEN remove([t EXCEPT !.root_node = 0, !.leaf_count = 0], h)
          ELSE RemoveLeaf(t, s, h)
  BY DEF remove_by_key
<1> HIDE DEF r
<1>3. CASE t.leaf_count = 0 \/ t.nodes[h].key # key
  <2>1. r = t BY <1>2, <1>3
  <2> QED BY <2>1 DEF r
<1>4. CASE ~(t.leaf_count = 0 \/ t.nodes[h].key # key)
  <2>0. t.leaf_count # 0 BY <1>4
  <2>1. Tree(t.nodes, t.root_node, T, rank) BY <1>1, <2>0 DEF Grove, Planted
  <2>2. h \in T /\ h \notin Inner(t) /\ Trail(t, key, Inner(t), rank, t.root_node, s, h) BY <2>1, PathEnds
  <2> HIDE DEF s, h
  <2>3. Climb(t.nodes, T, t.root_node, s, h) BY <2>1, <2>2, TrailClimbs
  <2>4. t.nodes[h].tag = "leaf" /\ t.nodes[h].tag # "inner" BY <2>1, <2>2 DEF Tree, Inner, is_inner
  <2>5. CASE s = <<>>
    <3>1. h = t.root_node BY <2>2, <2>5 DEF Trail
    <3>2. r = remove([t EXCEPT !.root_node = 0, !.leaf_count = 0], t.root_node) BY <1>2, <1>4, <2>5, <3>1
    <3> QED BY <1>1, <2>0, <2>4, <3>1, <3>2, RemoveRootSound DEF r
  <2>6. CASE s # <<>>
    <3>1. r = RemoveLeaf(t, s, h) BY <1>2, <1>4, <2>6
    <3>2. \A i, j \in 1..Len(s) : i < j => rank[s[j].h] < rank[s[i].h] BY <2>2 DEF Trail
    <3> QED BY <1>1, <2>0, <2>2, <2>3, <2>4, <2>6, <3>1, <3>2, RemoveLeafSound DEF r
  <2> QED BY <2>5, <2>6
<1> QED BY <1>3, <1>4

(* An empty side is sound.                                                 *)
LEMMA InitSound == SideInit => Sound(side)
<1> SUFFICES ASSUME SideInit PROVE Sound(side) OBVIOUS
<1>1. /\ DOMAIN side = SideFields /\ side.leaf_count = 0 /\ side.bump_index = 0 /\ side.free_list_len = 0
      /\ side.nodes = [h \in Handles |-> Unused]
  BY DEF SideInit, SideFields
<1>2. Laid(side) BY <1>1, NodesAssumption DEF Laid
<1>3. 1..0 = {} OBVIOUS
<1>4. Chain(side, <<>>) BY <1>1, <1>3 DEF Chain
<1>5. \A h \in Handles : side.nodes[h].tag # "inner" BY <1>1 DEF Unused
<1>6. Cardinality({}) = 0 /\ IsFiniteSet({}) BY FS_EmptySet
<1>7. \A h \in Handles : ~(h < side.bump_index) BY <1>1, NodesAssumption DEF Handles
<1>8. side.bump_index = Cardinality({}) + side.free_list_len BY <1>1, <1>6
<1>9. Alloc(side, {}, <<>>) BY <1>1, <1>2, <1>3, <1>4, <1>6, <1>7, <1>8 DEF Alloc
<1>10. Grove(side, {}, <<>>, <<>>) BY <1>1, <1>5, <1>9 DEF Grove
<1> QED BY <1>10 DEF Sound

(* And stays so.                                                           *)
LEMMA NextSound == Sound(side) /\ [SideNext]_side => Sound(side')
<1> SUFFICES ASSUME Sound(side), [SideNext]_side PROVE Sound(side') OBVIOUS
<1>1. CASE InsertLeaf
  <2>1. PICK key \in Keys, expiry \in Expiries :
          LET r == insert_leaf(side, LeafNode(key, expiry)) IN r.ok /\ side' = r.t
    BY <1>1 DEF InsertLeaf
  <2> DEFINE leaf == LeafNode(key, expiry)
  <2>2. leaf.tag = "leaf" /\ leaf.expiry \in Int BY ExpiriesAssumption DEF LeafNode
  <2>3. side' = insert_leaf(side, leaf).t BY <2>1
  <2>4. ~is_full(side) BY <1>1 DEF InsertLeaf
  <2> HIDE DEF leaf
  <2> QED BY <2>2, <2>3, <2>4, InsertSound
<1>2. CASE RemoveByKey BY <1>2, RemoveSound DEF RemoveByKey
<1>3. CASE remove_min BY <1>3, RemoveSound DEF remove_min
<1>4. CASE remove_max BY <1>4, RemoveSound DEF remove_max
<1>5. CASE remove_one_expired BY <1>5, RemoveSound DEF remove_one_expired
<1>6. CASE UNCHANGED side BY <1>6
<1> QED BY <1>1, <1>2, <1>3, <1>4, <1>5, <1>6 DEF SideNext

(* is_full and insert_leaf agree on when there is room.                    *)
LEMMA SoundFull == Sound(side) => FullExactly
<1> SUFFICES ASSUME Sound(side) PROVE FullExactly OBVIOUS
<1>1. is_full(side) <=> side.leaf_count = Len_nodes \div 2
  <2>1. PICK T, fl, rank : Grove(side, T, fl, rank) BY DEF Sound
  <2> QED BY <2>1, Room
<1>2. ASSUME ~is_full(side), NEW key \in Keys PROVE insert_leaf(side, LeafNode(key, Min(Expiries))).ok
  <2> DEFINE leaf == LeafNode(key, Min(Expiries))
  <2>1. leaf.tag = "leaf" BY DEF LeafNode
  <2> HIDE DEF leaf
  <2>2. insert_leaf(side, leaf).ok BY <1>2, <2>1, InsertSound
  <2> QED BY <2>2 DEF leaf
<1> QED BY <1>1, <1>2 DEF FullExactly

(* The free list, as a function of its length. *)
ListStep(l, t, n) ==
  IF n = 0 THEN <<>>
  ELSE IF n = 1 THEN <<t.free_list_head>>
  ELSE Append(l[n - 1], t.nodes[Last(l[n - 1])].next)

ListEq(l, t) == l = [n \in 0..Len_nodes |-> ListStep(l, t, n)]

ListAll(t) == CHOOSE l : ListEq(l, t)

ListUpTo(l, t, k) ==
  /\ l = [n \in 0..Len_nodes |-> l[n]]
  /\ \A n \in 0..Len_nodes : n < k => l[n] = ListStep(l, t, n)

(* Walking the free list is well-defined.                                  *)
LEMMA ListExists == ASSUME NEW t PROVE ListEq(ListAll(t), t)
<1> DEFINE Q == {k \in Nat : \E l : ListUpTo(l, t, k)}
<1>0. Len_nodes \in Nat BY NodesAssumption
<1>1. 0 \in Q
  <2> DEFINE l == [n \in 0..Len_nodes |-> <<>>]
  <2>1. l = [n \in 0..Len_nodes |-> l[n]] OBVIOUS
  <2>2. \A n \in 0..Len_nodes : ~(n < 0) BY <1>0
  <2> HIDE DEF l
  <2>3. ListUpTo(l, t, 0) BY <2>1, <2>2 DEF ListUpTo
  <2> QED BY <2>3
<1>2. ASSUME NEW k \in Nat, k \in Q PROVE k + 1 \in Q
  <2>1. PICK l : ListUpTo(l, t, k) BY <1>2
  <2> DEFINE g == [n \in 0..Len_nodes |-> IF n < k THEN l[n] ELSE ListStep(l, t, n)]
  <2>2. ASSUME NEW n \in 0..Len_nodes, n < k + 1 PROVE g[n] = ListStep(l, t, n) BY <2>1 DEF ListUpTo
  <2>3. ASSUME NEW n \in 0..Len_nodes, n < k + 1 PROVE ListStep(l, t, n) = ListStep(g, t, n)
    <3>1. CASE n = 0 BY <3>1 DEF ListStep
    <3>2. CASE n # 0
      <4>1. n - 1 \in 0..Len_nodes /\ n - 1 < k BY <1>0, <2>3, <3>2
      <4>2. g[n - 1] = l[n - 1] BY <4>1
      <4> HIDE DEF g
      <4> QED BY <3>2, <4>2 DEF ListStep
    <3> QED BY <3>1, <3>2
  <2>4. g = [n \in 0..Len_nodes |-> g[n]] OBVIOUS
  <2> HIDE DEF g
  <2>5. ListUpTo(g, t, k + 1) BY <2>2, <2>3, <2>4 DEF ListUpTo
  <2> QED BY <2>5
<1> HIDE DEF Q
<1>3. \A k \in Nat : k \in Q BY <1>1, <1>2, NatSetInduction
<1>4. PICK l : ListUpTo(l, t, Len_nodes + 1)
  <2>1. Len_nodes + 1 \in Q BY <1>0, <1>3
  <2> QED BY <2>1 DEF Q
<1>5. \A n \in 0..Len_nodes : l[n] = ListStep(l, t, n)
  <2>1. \A n \in 0..Len_nodes : n < Len_nodes + 1 BY <1>0
  <2> QED BY <1>4, <2>1 DEF ListUpTo
<1>6. l = [n \in 0..Len_nodes |-> l[n]] BY <1>4 DEF ListUpTo
<1>7. ListEq(l, t) BY <1>5, <1>6 DEF ListEq
<1> QED BY <1>7 DEF ListAll

(* FreeList is the list the invariant speaks of.                           *)
LEMMA FreeListIs ==
  ASSUME NEW U, NEW fl, Alloc(side, U, fl)
  PROVE  /\ DOMAIN FreeList = 1..side.free_list_len /\ Len(FreeList) = side.free_list_len
         /\ \A i \in 1..side.free_list_len : FreeList[i] = fl[i]
<1> DEFINE l == ListAll(side)
           n == side.free_list_len
           Fine(k) == l[k] \in Seq(Handles) /\ Len(l[k]) = k /\ \A i \in 1..k : l[k][i] = fl[i]
           Q == {k \in Nat : k <= n => Fine(k)}
<1>1. FreeList = l[n] BY DEF FreeList, ListAll, ListEq, ListStep
<1>2. ListEq(l, side) BY ListExists
<1> HIDE DEF l
<1>0. n \in Nat /\ n <= Len_nodes /\ Len_nodes \in Nat /\ Chain(side, fl)
  <2>1. IsFiniteSet(U) /\ n \in Nat /\ side.bump_index <= Len_nodes /\ side.bump_index = Cardinality(U) + n /\ Chain(side, fl)
    BY DEF Alloc, Laid
  <2>2. Cardinality(U) \in Nat BY <2>1, FS_CardinalityType
  <2> QED BY <2>1, <2>2, NodesAssumption
<1>3. \A k \in 0..n : l[k] = ListStep(l, side, k)
  <2>1. \A k \in 0..n : k \in 0..Len_nodes BY <1>0
  <2> QED BY <1>2, <2>1 DEF ListEq
<1>4. 0 \in Q
  <2>1. l[0] = <<>> BY <1>0, <1>3 DEF ListStep
  <2>2. 1..0 = {} /\ Len(<<>>) = 0 /\ <<>> \in Seq(Handles) OBVIOUS
  <2> QED BY <2>1, <2>2
<1>5. ASSUME NEW k \in Nat, k \in Q PROVE k + 1 \in Q
  <2> SUFFICES ASSUME k + 1 <= n PROVE Fine(k + 1)
    <3> HIDE DEF Fine
    <3> QED OBVIOUS
  <2> DEFINE j == k + 1
  <2>1. j \in 0..n /\ j \in 1..n /\ k <= n /\ j - 1 = k BY <1>0
  <2>2. l[j] = ListStep(l, side, j) BY <1>3, <2>1
  <2>3. fl[j] \in Handles BY <1>0, <2>1 DEF Chain
  <2>4. CASE k = 0
    <3>1. l[j] = <<side.free_list_head>> BY <2>2, <2>4 DEF ListStep
    <3>2. side.free_list_head = fl[1] BY <1>0, <2>1, <2>4 DEF Chain
    <3>3. l[j] = <<fl[1]>> /\ fl[1] \in Handles /\ j = 1 BY <2>3, <2>4, <3>1, <3>2
    <3>4. Len(<<fl[1]>>) = 1 /\ <<fl[1]>> \in Seq(Handles) /\ \A i \in 1..1 : <<fl[1]>>[i] = fl[i] BY <3>3
    <3> HIDE DEF j
    <3>5. Fine(j) BY <3>3, <3>4
    <3> QED BY <3>5 DEF j
  <2>5. CASE k # 0
    <3>1. Fine(k)
      <4> HIDE DEF Fine
      <4> QED BY <1>5, <2>1
    <3>2. l[j] = Append(l[k], side.nodes[Last(l[k])].next) BY <2>1, <2>2, <2>5 DEF ListStep
    <3>3. k \in 1..n /\ k < n /\ k \in 1..k BY <1>0, <2>1, <2>5
    <3>4. Last(l[k]) = fl[k] BY <3>1, <3>3 DEF Last
    <3>5. side.nodes[fl[k]].next = fl[k + 1] BY <1>0, <3>3 DEF Chain
    <3>6. l[j] = Append(l[k], fl[j]) BY <3>2, <3>4, <3>5
    <3> DEFINE a1 == l[k]
               x == fl[j]
    <3>7. a1 \in Seq(Handles) /\ Len(a1) = k /\ x \in Handles BY <2>3, <3>1
    <3> HIDE DEF a1, x
    <3>8. /\ Append(a1, x) \in Seq(Handles) /\ Len(Append(a1, x)) = k + 1 /\ Append(a1, x)[k + 1] = x
          /\ \A i \in 1..k : Append(a1, x)[i] = a1[i]
      BY <3>7
    <3>9. \A i \in 1..j : i = k + 1 \/ i \in 1..k OBVIOUS
    <3>10. \A i \in 1..j : l[j][i] = fl[i] BY <3>1, <3>6, <3>8, <3>9 DEF a1, x
    <3> QED BY <3>6, <3>8, <3>10 DEF a1, x
  <2> QED BY <2>4, <2>5
<1> HIDE DEF Q
<1>6. \A k \in Nat : k \in Q BY <1>4, <1>5, NatSetInduction
<1>7. Fine(n)
  <2>1. n \in Q /\ n <= n BY <1>0, <1>6
  <2> HIDE DEF Fine
  <2> QED BY <2>1 DEF Q
<1>8. DOMAIN l[n] = 1..n BY <1>7
<1> QED BY <1>1, <1>7, <1>8

(* What is in the tree, on the free list and beyond.                       *)
LEMMA SoundPartitioned == Sound(side) => NodesPartitioned
<1> SUFFICES ASSUME Sound(side) PROVE NodesPartitioned OBVIOUS
<1>1. PICK T, fl, rank : Grove(side, T, fl, rank) BY DEF Sound
<1> DEFINE n == side.free_list_len
           L == FreeList
<1>2. /\ Alloc(side, T, fl) /\ side.leaf_count \in Nat BY <1>1 DEF Grove
<1>3. InTree = T
  <2>1. CASE side.leaf_count = 0 BY <1>1, <2>1 DEF InTree, Grove
  <2>2. CASE side.leaf_count # 0
    <3>1. Tree(side.nodes, side.root_node, T, rank) BY <1>1, <2>2 DEF Grove, Planted
    <3> DEFINE f == BelowAll(side.nodes)
    <3>2. BelowEq(f, side.nodes) BY <3>1, BelowExists
    <3>3. \A h \in Handles : Below(h) = f[h] BY <3>1, BelowSide
    <3> HIDE DEF f
    <3>4. f[side.root_node] = T BY <3>1, <3>2, BelowTree
    <3>5. side.root_node \in Handles BY <3>1 DEF Tree
    <3> QED BY <2>2, <3>3, <3>4, <3>5 DEF InTree
  <2> QED BY <2>1, <2>2
<1>4. DOMAIN L = 1..n /\ Len(L) = n /\ \A i \in 1..n : L[i] = fl[i] BY <1>2, FreeListIs
<1> HIDE DEF L
<1>5. Cardinality(T) = IF side.leaf_count = 0 THEN 0 ELSE 2 * side.leaf_count - 1
  <2>1. CASE side.leaf_count = 0 BY <1>1, <2>1, FS_EmptySet DEF Grove
  <2>2. CASE side.leaf_count # 0 BY <1>1, <2>2 DEF Grove, Planted
  <2> QED BY <2>1, <2>2
<1>6. Chain(side, fl) BY <1>2 DEF Alloc
<1>7. \A i, j \in DOMAIN L : L[i] = L[j] => i = j BY <1>4, <1>6 DEF Chain
<1>8. ToSet(L) = {fl[i] : i \in 1..n} BY <1>4 DEF ToSet
<1>9. T \cap ToSet(L) = {} BY <1>2, <1>8 DEF Alloc
<1>10. T \cup ToSet(L) = 0 .. side.bump_index - 1
  <2>1. /\ T \subseteq Handles /\ \A i \in 1..n : fl[i] \in Handles
        /\ \A h \in Handles : h < side.bump_index <=> (h \in T \/ \E i \in 1..n : fl[i] = h)
        /\ side.bump_index \in Nat /\ side.bump_index <= Len_nodes
    BY <1>2, <1>6 DEF Alloc, Laid, Chain
  <2>2. Len_nodes \in Nat BY NodesAssumption
  <2>3. \A h : h \in 0 .. side.bump_index - 1 <=> h \in Handles /\ h < side.bump_index BY <2>1, <2>2 DEF Handles
  <2>4. \A h : h \in ToSet(L) <=> \E i \in 1..n : fl[i] = h BY <1>8
  <2>5. \A h : h \in T \cup ToSet(L) <=> h \in Handles /\ h < side.bump_index BY <2>1, <2>4
  <2> QED BY <2>3, <2>5
<1>11. \A i \in DOMAIN L : side.nodes[L[i]].tag = IF i = Len(L) THEN "last_free" ELSE "free" BY <1>4, <1>6 DEF Chain
<1> QED BY <1>3, <1>5, <1>7, <1>9, <1>10, <1>11 DEF NodesPartitioned, L

(* The expiries of the leaves among the nodes S. *)
ExpiriesOf(N, S) == {N[n].expiry : n \in {x \in S : N[x].tag = "leaf"}}

(* A cache that is right for the children is right for the leaves.         *)
LEMMA EarliestBelow ==
  ASSUME NEW N, NEW root, NEW T, NEW rank, Tree(N, root, T, rank), Shapes(N, T), Cached(N, T), NEW f, BelowEq(f, N)
  PROVE  \A h \in T : earliest_expiry(N[h]) = Min(ExpiriesOf(N, f[h]))
<1> DEFINE E(h) == ExpiriesOf(N, f[h])
           e(h) == earliest_expiry(N[h])
           Fine(h) == e(h) \in E(h) /\ E(h) \subseteq Int /\ \A y \in E(h) : e(h) <= y
           Q == {k \in Nat : \A h \in T : rank[h] < k => Fine(h)}
<1>0. /\ T \subseteq Handles /\ \A h \in T : rank[h] \in Nat
      /\ \A n \in Handles : f[n] = BelowStep(f, N, n)
      /\ \A h \in T : N[h].tag = "leaf" \/ N[h].tag = "inner"
  BY DEF Tree, BelowEq, Ranked
<1>1. 0 \in Q
  <2>1. \A h \in T : ~(rank[h] < 0) BY <1>0
  <2> HIDE DEF Fine
  <2> QED BY <2>1
<1>2. ASSUME NEW k \in Nat, k \in Q PROVE k + 1 \in Q
  <2> SUFFICES ASSUME NEW h \in T, rank[h] < k + 1 PROVE Fine(h)
    <3> HIDE DEF Fine
    <3> QED OBVIOUS
  <2>0. f[h] = BelowStep(f, N, h) /\ rank[h] \in Nat BY <1>0
  <2>1. CASE N[h].tag = "leaf"
    <3>1. f[h] = {h} BY <2>0, <2>1 DEF BelowStep
    <3>2. E(h) = {N[h].expiry} BY <2>1, <3>1 DEF ExpiriesOf
    <3>3. e(h) = N[h].expiry BY <2>1 DEF earliest_expiry
    <3>4. N[h].expiry \in Int BY <2>1 DEF Shapes
    <3> QED BY <3>2, <3>3, <3>4
  <2>2. CASE N[h].tag = "inner"
    <3> DEFINE c == N[h].children[0]
               d == N[h].children[1]
    <3>1. 0 \in 0..1 /\ 1 \in 0..1 OBVIOUS
    <3>2. Leads(N, h, 0, c) /\ Leads(N, h, 1, d) BY <2>2 DEF Leads
    <3>3. c \in T /\ d \in T /\ rank[c] < rank[h] /\ rank[d] < rank[h] BY <3>1, <3>2, Edges
    <3>4. rank[c] < k /\ rank[d] < k BY <1>0, <2>0, <3>3
    <3>5. Fine(c) /\ Fine(d)
      <4> HIDE DEF Fine, c, d
      <4> QED BY <1>2, <3>3, <3>4
    <3>6. f[h] = {h} \cup f[c] \cup f[d] BY <2>0, <2>2 DEF BelowStep
    <3>7. E(h) = E(c) \cup E(d) BY <2>2, <3>6 DEF ExpiriesOf
    <3>8. Fresh(N, h, 0) /\ Fresh(N, h, 1) BY <2>2, <3>1 DEF Cached
    <3>9. N[h].child_earliest_expiry[0] = e(c) /\ N[h].child_earliest_expiry[1] = e(d) BY <3>8 DEF Fresh
    <3>10. InnerShape(N[h]) BY <2>2 DEF Shapes
    <3>11. /\ e(h) \in Int /\ e(h) \in {N[h].child_earliest_expiry[0], N[h].child_earliest_expiry[1]}
           /\ e(h) <= N[h].child_earliest_expiry[0] /\ e(h) <= N[h].child_earliest_expiry[1]
      BY <2>2, <3>10, EarliestInt
    <3> HIDE DEF e, E, c, d
    <3>12. e(h) \in {e(c), e(d)} /\ e(h) <= e(c) /\ e(h) <= e(d) BY <3>9, <3>11
    <3>13. e(c) \in Int /\ e(d) \in Int BY <3>5
    <3>14. \A y \in E(h) : e(h) <= y
      <4> SUFFICES ASSUME NEW y \in E(h) PROVE e(h) <= y OBVIOUS
      <4>1. y \in Int /\ (e(c) <= y \/ e(d) <= y) BY <3>5, <3>7
      <4> QED BY <3>11, <3>12, <3>13, <4>1
    <3> QED BY <3>5, <3>7, <3>12, <3>14
  <2> QED BY <1>0, <2>1, <2>2
<1> HIDE DEF Q
<1>3. \A k \in Nat : k \in Q BY <1>1, <1>2, NatSetInduction
<1> SUFFICES ASSUME NEW h \in T PROVE e(h) = Min(E(h)) OBVIOUS
<1>4. rank[h] + 1 \in Nat /\ rank[h] < rank[h] + 1 BY <1>0
<1>5. Fine(h)
  <2>1. rank[h] + 1 \in Q BY <1>3, <1>4
  <2> HIDE DEF Fine
  <2> QED BY <1>4, <2>1 DEF Q
<1> HIDE DEF e, E
<1>6. Min(E(h)) \in E(h) /\ \A y \in E(h) : Min(E(h)) <= y BY <1>5 DEF Min
<1>7. e(h) \in Int /\ Min(E(h)) \in Int /\ e(h) <= Min(E(h)) /\ Min(E(h)) <= e(h) BY <1>5, <1>6
<1> QED BY <1>7

(* Every cache tells the first expiry below it.                            *)
LEMMA SoundCached == Sound(side) => ExpiryCacheExact
<1> SUFFICES ASSUME Sound(side) PROVE ExpiryCacheExact OBVIOUS
<1>1. PICK T, fl, rank : Grove(side, T, fl, rank) BY DEF Sound
<1> DEFINE N == side.nodes
<1>2. CASE side.leaf_count = 0 BY <1>2 DEF ExpiryCacheExact, InTree
<1>3. CASE side.leaf_count # 0
  <2>1. Tree(N, side.root_node, T, rank) /\ Shapes(N, T) /\ Cached(N, T) BY <1>1, <1>3 DEF Grove, Planted
  <2> DEFINE f == BelowAll(N)
  <2>2. BelowEq(f, N) BY <2>1, BelowExists
  <2>3. \A h \in Handles : Below(h) = f[h] BY <2>1, BelowSide
  <2> HIDE DEF f
  <2>4. f[side.root_node] = T BY <2>1, <2>2, BelowTree
  <2>5. T \subseteq Handles /\ side.root_node \in T BY <2>1 DEF Tree
  <2>6. InTree = T BY <1>3, <2>3, <2>4, <2>5 DEF InTree
  <2>7. ASSUME NEW h \in T, is_inner(side, h), NEW b \in 0..1
        PROVE  N[h].child_earliest_expiry[b] = Min({N[n].expiry : n \in LeavesBelow(N[h].children[b])})
    <3> DEFINE c == N[h].children[b]
    <3>1. N[h].tag = "inner" BY <2>7 DEF is_inner
    <3>2. Leads(N, h, b, c) BY <3>1 DEF Leads
    <3>3. c \in T BY <2>1, <3>2, Edges
    <3>4. Fresh(N, h, b) BY <2>1, <3>1 DEF Cached
    <3>5. N[h].child_earliest_expiry[b] = earliest_expiry(N[c]) BY <3>4 DEF Fresh
    <3> HIDE DEF c
    <3>6. earliest_expiry(N[c]) = Min(ExpiriesOf(N, f[c])) BY <2>1, <2>2, <3>3, EarliestBelow
    <3>7. Below(c) = f[c] BY <2>3, <2>5, <3>3
    <3>8. {N[n].expiry : n \in LeavesBelow(c)} = ExpiriesOf(N, f[c]) BY <3>7 DEF LeavesBelow, ExpiriesOf
    <3> QED BY <3>5, <3>6, <3>8 DEF c
  <2> QED BY <2>6, <2>7 DEF ExpiryCacheExact
<1> QED BY <1>2, <1>3

(* Inserting and removing orders by key, from either end or by expiry      *)
(* keeps a side sound: the nodes in use are one tree with exact caches,    *)
(* the others that were handed out are on the free list.                   *)
THEOREM SideSound == SideSpec => []Sound(side)
<1>1. SideInit => Sound(side) BY InitSound
<1>2. Sound(side) /\ [SideNext]_side => Sound(side)' BY NextSound
<1> QED BY <1>1, <1>2, PTL DEF SideSpec

(* For any keys, expiries and number of nodes: insert_leaf and             *)
(* remove_by_key never lose a node, never hand out one in use, and leave a *)
(* free list that insert can walk without meeting one of its assertions.   *)
THEOREM NodesNeverLost == SideSpec => []NodesPartitioned
BY SideSound, SoundPartitioned, PTL

(* For any keys, expiries and number of nodes: update_parent_earliest_-    *)
(* expiry, which stops as soon as a cache does not show the outdated       *)
(* value, leaves every cache exact, so remove_one_expired finds an expired *)
(* order when there is one.                                                *)
THEOREM ExpiriesNeverOverlooked == SideSpec => []ExpiryCacheExact
BY SideSound, SoundCached, PTL

(* For any keys, expiries and number of nodes: is_full holds exactly when  *)
(* half of the nodes are leaves, and insert_leaf of any order succeeds on  *)
(* a side that is not full.                                                *)
THEOREM FullWhenItMustBe == SideSpec => []FullExactly
BY SideSound, SoundFull, PTL

=============================================================================
