----------------------------- MODULE BookViews ------------------------------
(***************************************************************************)
(* What is read off a book as a whole: its best prices and its orders in   *)
(* priority.                                                               *)
(***************************************************************************)
EXTENDS PriceTimeBook, SequencesExt

Occupied(b, side) == {price \in Prices : b[side][price] # <<>>}

\* best_bid and best_ask; 0 when the side is empty.
Best(b, side) ==
    CASE Occupied(b, side) = {} -> 0
      [] Occupied(b, side) # {} /\ side = "Bid" -> Max(Occupied(b, side))
      [] Occupied(b, side) # {} /\ side = "Ask" -> Min(Occupied(b, side))

Crossed(b) ==
    /\ Best(b, "Bid") # 0 /\ Best(b, "Ask") # 0
    /\ Best(b, "Bid") >= Best(b, "Ask")

\* for_each_order: the orders of a side, best price first and the
\* oldest first within a price.
ByPriority(b, side) ==
    LET price(k) == IF side = "Ask" THEN k ELSE (MaxPrice + 1) - k
        Views(p) == [i \in DOMAIN b[side][p] |->
                        [order_id |-> b[side][p][i].order_id,
                         side     |-> side,
                         price    |-> p,
                         quantity |-> b[side][p][i].quantity]]
    IN  FlattenSeq([k \in Prices |-> Views(price(k))])

\* snapshot
snapshot(b) == ByPriority(b, "Bid") \o ByPriority(b, "Ask")

=============================================================================
