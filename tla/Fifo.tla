-------------------------------- MODULE Fifo --------------------------------
(***************************************************************************)
(* What the users of LockFreeCircularQueueSPSC may count on: a bounded     *)
(* first-in first-out queue, one producer, one consumer, every call atomic. *)
(* A refused push found the queue full, a failed pop found it empty.       *)
(***************************************************************************)
EXTENDS Naturals, Sequences

CONSTANTS Items, Nothing, Cap

VARIABLES
  q,           \* the items in the queue, oldest first
  pushed,      \* what the last push returned
  popped       \* what the last pop returned: an item, or Nothing

Init == q = <<>> /\ pushed = TRUE /\ popped = Nothing

Push(x) == Len(q) < Cap /\ q' = Append(q, x) /\ pushed' = TRUE /\ UNCHANGED popped

PushRefused == Len(q) = Cap /\ pushed' = FALSE /\ UNCHANGED <<q, popped>>

Pop == q # <<>> /\ q' = Tail(q) /\ popped' = Head(q) /\ UNCHANGED pushed

PopFailed == q = <<>> /\ popped' = Nothing /\ UNCHANGED <<q, pushed>>

Next == (\E x \in Items : Push(x)) \/ PushRefused \/ Pop \/ PopFailed

Spec == Init /\ [][Next]_<<q, pushed, popped>>

=============================================================================
