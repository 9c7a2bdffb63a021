----------------------- MODULE NonBlockingFifoQueue -----------------------
(***************************************************************************)
(* The bounded, lossy FIFO between a pusher and its publisher              *)
(* (publisher/nonblockingfifoqueue.go).  Enqueue and Dequeue both run      *)
(* under the queue's mutex, so each is one atomic operator on the list.    *)
(***************************************************************************)
EXTENDS Integers, Sequences

CONSTANT MaxSize        \* NewNonBlockingFifoQueue(size)

(* The constructor panics on a size that is not positive. *)
ASSUME MaxSizeAssumption == MaxSize \in Nat \ {0}

(* What Enqueue removes to make room: the front, when the list is full. *)
Evicted(q) == IF Len(q) = MaxSize THEN {Head(q)} ELSE {}

(* Mutants of Enqueue: the size is not checked; PushFront for PushBack.    *)
EnqueueUnbounded(q, value) == Append(q, value)
EnqueueAtFront(q, value) == <<value>> \o (IF Len(q) = MaxSize THEN Tail(q) ELSE q)

(* The list after Enqueue(value): evict the front if full, push back. *)
Enqueue(q, value) == Append(IF Len(q) = MaxSize THEN Tail(q) ELSE q, value)

(* Dequeue on a non-empty list returns its front and leaves the rest. *)
DequeueValue(q) == Head(q)
DequeueRest(q)  == Tail(q)

=============================================================================
