---------------------------- MODULE BoundedFifo ----------------------------
(***************************************************************************)
(* What journal/ring_buffer.rs promises to its callers: a queue of at most *)
(* Bound items whose pushes and pops take effect one at a time, in order,  *)
(* each item handed out once.  RingBuffer implements it (RingBuffer!Fifo). *)
(***************************************************************************)
EXTENDS Naturals, Sequences

CONSTANTS Items,   \* what may be queued
          Bound    \* RingBuffer::max_size()

VARIABLES queue,   \* the items pushed and not yet popped, oldest first
          handed   \* how many items have been handed to the consumer

fifoVars == <<queue, handed>>

Init == queue = <<>> /\ handed = 0

\* A try_push that returns true.
Push(item) ==
  /\ Len(queue) < Bound
  /\ queue' = Append(queue, item)
  /\ UNCHANGED handed

\* A pop that returns Some(Head(queue)).
Pop ==
  /\ queue # <<>>
  /\ queue' = Tail(queue)
  /\ handed' = handed + 1

\* clear(), and the loop of Drop: every remaining item is popped.
Drain ==
  /\ queue' = <<>>
  /\ handed' = handed + Len(queue)

Next == (\E item \in Items : Push(item)) \/ Pop \/ Drain

Spec == Init /\ [][Next]_fifoVars
=============================================================================
