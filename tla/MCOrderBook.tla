---------------------------- MODULE MCOrderBook -----------------------------
(* OrderBook for TLC. *)
EXTENDS OrderBookRefinement, TLC

CONSTANTS o1, o2, id1, id2

MCObjects == {o1, o2}

MCOrderIds == {id1, id2}

\* Two levels, two sizes, and each kind of argument the book refuses.
MCTerms ==
    {[side |-> "Bid", price |-> 1, quantity |-> 2],
     [side |-> "Bid", price |-> 2, quantity |-> 1],
     [side |-> "Bid", price |-> 0, quantity |-> 1],
     [side |-> "Bid", price |-> 1, quantity |-> 0],
     [side |-> "?",   price |-> 1, quantity |-> 1]}

Symmetry == Permutations(OrderIds) \cup Permutations(Objects)

=============================================================================
