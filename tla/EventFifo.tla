----------------------------- MODULE EventFifo -----------------------------
(***************************************************************************)
(* What an EventQueue promises its users: a bounded first-in first-out     *)
(* list of events.  The matching engine appends at the back, ConsumeEvents *)
(* reads and removes at the front, a push into a full list is refused, and *)
(* the newest pushes can be taken back.  `seq_num' identifies the next     *)
(* event to be pushed; it is a machine word and wraps at SeqModulus.       *)
(***************************************************************************)
EXTENDS Integers, Sequences

CONSTANTS
  Cap,       \* number of slots of the buffer, buf.len()
  Items,     \* the events that can be pushed
  SeqModulus \* 2^64 in the code: the width of seq_num

VARIABLES events, seq_num

fifoVars == <<events, seq_num>>

FifoInit ==
  /\ events = <<>>
  /\ seq_num = 0

(* Append at the back; refused when the list is full. *)
Push(v) ==
  /\ Len(events) < Cap
  /\ events' = Append(events, v)
  /\ seq_num' = (seq_num + 1) % SeqModulus

(* Remove the oldest event. *)
Pop ==
  /\ events # <<>>
  /\ events' = Tail(events)
  /\ UNCHANGED seq_num

(* Take back the newest events, keeping the n oldest. *)
Truncate(n) ==
  /\ n <= Len(events)
  /\ events' = SubSeq(events, 1, n)
  /\ seq_num' = (seq_num - (Len(events) - n)) % SeqModulus

FifoNext ==
  \/ \E v \in Items : Push(v)
  \/ Pop
  \/ \E n \in 0..Cap : Truncate(n)

FifoSpec == FifoInit /\ [][FifoNext]_fifoVars
=============================================================================
