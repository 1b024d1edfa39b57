------------------------------ MODULE ByteQueue ------------------------------
(***************************************************************************)
(* What a buffer of a character device promises: a bounded queue.  Bytes   *)
(* are offered at one end and accepted in their order, some at a time, as  *)
(* far as there is room; they leave at the other end in the same order.    *)
(* The queue may be emptied, and what is not accepted may be lost when the *)
(* queue is full, or withdrawn.                                            *)
(***************************************************************************)
EXTENDS Naturals, Sequences

CONSTANTS
  Capacity,     \* how many bytes there is room for
  MayWithdraw   \* whether an offer may be taken back at any time

VARIABLES
  in,      \* the bytes offered
  queue,   \* the bytes in the queue
  out      \* the bytes taken from it and not used yet

queueVars == <<in, queue, out>>

QueueInit == in = <<>> /\ queue = <<>> /\ out = <<>>

Offer == in = <<>> /\ UNCHANGED <<queue, out>>

Accept(n) ==
  /\ n <= Len(in) /\ Len(queue) + n <= Capacity
  /\ queue' = queue \o SubSeq(in, 1, n)
  /\ in' = SubSeq(in, n + 1, Len(in))
  /\ UNCHANGED out

Lose ==
  /\ MayWithdraw \/ Len(queue) = Capacity
  /\ in' = <<>>
  /\ UNCHANGED <<queue, out>>

Take(n) ==
  /\ n <= Len(queue)
  /\ out' = SubSeq(queue, 1, n)
  /\ queue' = SubSeq(queue, n + 1, Len(queue))
  /\ UNCHANGED in

Use == out' = <<>> /\ UNCHANGED <<in, queue>>

Empty == in' = <<>> /\ queue' = <<>> /\ UNCHANGED out

QueueNext ==
  \/ Offer \/ Lose \/ Use \/ Empty
  \/ \E n \in 1..Capacity : Accept(n) \/ Take(n)

QueueSpec == QueueInit /\ [][QueueNext]_queueVars

=============================================================================
