---------------------------- MODULE BoundedFifo -----------------------------
(***************************************************************************)
(* What an LFQueue promises: values come out once, in the order they went  *)
(* in, and at most Size of them are in the queue.                          *)
(***************************************************************************)
EXTENDS Integers, Sequences

CONSTANTS Values, Size

VARIABLES
    queue,  \* the values pushed and not yet popped
    out     \* the value of the last pop

Init == queue = <<>> /\ out \in Values

Push ==
    /\ Len(queue) < Size
    /\ \E v \in Values : queue' = Append(queue, v)
    /\ UNCHANGED out

Pop ==
    /\ queue # <<>>
    /\ out' = Head(queue)
    /\ queue' = Tail(queue)

Spec == Init /\ [][Push \/ Pop]_<<queue, out>>

=============================================================================
