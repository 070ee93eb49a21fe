--------------------------- MODULE MCFixedSlotPool ---------------------------
(* A small pool: two request types compete for the first allocation.       *)
EXTENDS FixedSlotPool

MCRequests ==
    {[bytes |-> 2, alignment |-> 2], [bytes |-> 4, alignment |-> 4],
     [bytes |-> 0, alignment |-> 1], [bytes |-> 16, alignment |-> 1]}

MCPointers == -1..10

=============================================================================
