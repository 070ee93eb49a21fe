------------------------- MODULE OrderBookRefinement -------------------------
(***************************************************************************)
(* The books as built implement the books as promised.                     *)
(***************************************************************************)
EXTENDS OrderBook

Abstract == INSTANCE LimitBook WITH
    books <- [o \in Objects |-> Contents(books[o])]

\* Every call does to the queues exactly what LimitBook says, with the result
\* it says; in particular a call that fails half way changes nothing, and a
\* move hands over the queues as they were.
ImplementsLimitBook == Abstract!Spec

=============================================================================
