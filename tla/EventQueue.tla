----------------------------- MODULE EventQueue -----------------------------
(***************************************************************************)
(* The ring buffer of queue.rs: a header (head, count, seq_num) and a      *)
(* fixed buffer of event slots in one Solana account.  Every operation is  *)
(* one call of a method of Queue; a refused call changes nothing and is no *)
(* step.                                                                   *)
(***************************************************************************)
EXTENDS Integers, Sequences

CONSTANTS
  Cap,       \* buf.len(), fixed when the account is created
  Items,     \* the events that can be pushed
  Zero,      \* the content of a slot nobody has written: zeroed account data
  SeqModulus \* 2^64: seq_num is a usize and wraps in the release build

ASSUME CapAssumption == Cap \in Nat \ {0}
ASSUME SeqModulusAssumption == SeqModulus \in Nat \ {0}

VARIABLES head, count, seq_num, buf

vars == <<head, count, seq_num, buf>>

BufSlots == 0 .. Cap - 1

(* The buffer index of the i-th event counted from the front.  Both        *)
(* push_back and the iterator compute it this way.                         *)
SlotAt(i) == (head + i) % Cap

full == count = Cap

empty == count = 0

(* load_and_init: a fresh, zeroed account. *)
Init ==
  /\ head = 0
  /\ count = 0
  /\ seq_num = 0
  /\ buf = [s \in BufSlots |-> Zero]

(* A faulty form: writes at count, as if head were still 0. *)
push_back_at_count(v) ==
  /\ ~full
  /\ buf' = [buf EXCEPT ![count] = v]
  /\ count' = count + 1
  /\ seq_num' = (seq_num + 1) % SeqModulus
  /\ UNCHANGED head

push_back(v) ==
  /\ ~full
  /\ buf' = [buf EXCEPT ![SlotAt(count)] = v]
  /\ count' = count + 1
  /\ seq_num' = (seq_num + 1) % SeqModulus
  /\ UNCHANGED head

(* A faulty form: head wraps one slot late. *)
pop_front_late ==
  /\ ~empty
  /\ count' = count - 1
  /\ head' = (head + 1) % (Cap + 1)
  /\ UNCHANGED <<seq_num, buf>>

pop_front ==
  /\ ~empty
  /\ count' = count - 1
  /\ head' = (head + 1) % Cap
  /\ UNCHANGED <<seq_num, buf>>

(* A public method that no instruction calls. *)
revert_pushes(desired_len) ==
  /\ desired_len <= count
  /\ count' = desired_len
  /\ seq_num' = (seq_num - (count - desired_len)) % SeqModulus
  /\ UNCHANGED <<head, buf>>

Next ==
  \/ \E v \in Items : push_back(v)
  \/ pop_front
  \/ \E n \in 0..Cap : revert_pushes(n)

Spec == Init /\ [][Next]_vars

(* What QueueIterator yields, front to back; its first element is what     *)
(* peek_front returns.                                                     *)
iter == [i \in 1..count |-> buf[SlotAt(i - 1)]]

(* Type invariant: the header indexes the buffer. *)
TypeOK ==
  /\ head \in BufSlots
  /\ count \in 0..Cap
  /\ seq_num \in 0 .. SeqModulus - 1
  /\ buf \in [BufSlots -> Items \cup {Zero}]

(* No slot that was never written is ever handed to a reader: zeroed bytes *)
(* would decode as an EventType::Fill of the zero account, and             *)
(* ConsumeEvents would stop at it for ever.                                *)
NoUnwrittenEvent == \A i \in 1..count : iter[i] \in Items

(* The ring buffer implements the bounded FIFO: wrapping of head around    *)
(* the end of the buffer never reorders, loses or duplicates an event.     *)
Fifo == INSTANCE EventFifo WITH events <- iter
ImplementsFifo == Fifo!FifoSpec
=============================================================================
