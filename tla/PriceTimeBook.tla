--------------------------- MODULE PriceTimeBook ----------------------------
(***************************************************************************)
(* What an OrderBook holds and what its calls return, without the lists,   *)
(* the index and the pool it is built from: for each side and price the    *)
(* queue of the orders resting there, oldest first.                        *)
(*                                                                         *)
(* Each call is an operator from a book to [result, book].  OrderBook is   *)
(* shown to implement these calls; the matching engine and the market      *)
(* replica are built on them.                                              *)
(***************************************************************************)
EXTENDS Integers, Sequences, FiniteSets, Functions, Lists

CONSTANT MaxPrice   \* prices are 1..MaxPrice; a price of 0 is refused

ASSUME MaxPriceAssumption == MaxPrice \in Nat \ {0}

Sides == {"Bid", "Ask"}

Prices == 1..MaxPrice

Opposite(side) == IF side = "Bid" THEN "Ask" ELSE "Bid"

EmptyBook == [side \in Sides |-> [price \in Prices |-> <<>>]]

-----------------------------------------------------------------------------
(* Reading a book *)

IdsAt(b, side, price) == {b[side][price][i].order_id : i \in DOMAIN b[side][price]}

Ids(b) == UNION {IdsAt(b, side, price) : side \in Sides, price \in Prices}

order_count(b) == Cardinality(Ids(b))

Place(b, id) == CHOOSE at \in Sides \X Prices : id \in IdsAt(b, at[1], at[2])

\* order(id), for an id of the book.
Order(b, id) ==
    LET side == Place(b, id)[1]
        price == Place(b, id)[2]
        entry == CHOOSE e \in Range(b[side][price]) : e.order_id = id
    IN  [order_id |-> id, side |-> side, price |-> price, quantity |-> entry.quantity]

-----------------------------------------------------------------------------
(* The calls *)

Enqueue(b, e) ==
    [b EXCEPT ![e.side][e.price] =
        Append(@, [order_id |-> e.order_id, quantity |-> e.quantity])]

Dequeue(b, id) ==
    LET at == Place(b, id)
    IN  [b EXCEPT ![at[1]][at[2]] = Erased(@, CHOOSE i \in DOMAIN @ : @[i].order_id = id)]

SetQuantity(b, id, quantity) ==
    LET at == Place(b, id)
    IN  [b EXCEPT ![at[1]][at[2]] =
            [i \in DOMAIN @ |-> IF @[i].order_id = id
                                THEN [@[i] EXCEPT !.quantity = quantity]
                                ELSE @[i]]]

Outcome(b, result, next) ==
    [result |-> result, book |-> IF result = "Ok" THEN next ELSE b]

\* apply(AddOrder); room says whether the storage for the order can be had.
Add(b, e, room) ==
    LET result ==
          IF e.quantity = 0 THEN "InvalidQuantity"
          ELSE IF e.price = 0 THEN "InvalidPrice"
          ELSE IF e.order_id \in Ids(b) THEN "DuplicateOrder"
          ELSE IF e.side \notin Sides THEN "UnknownOrder"
          ELSE IF ~room THEN "AllocationFailed"
          ELSE "Ok"
    IN  Outcome(b, result, Enqueue(b, e))

\* apply(CancelOrder)
Cancel(b, id) ==
    Outcome(b, IF id \in Ids(b) THEN "Ok" ELSE "UnknownOrder", Dequeue(b, id))

\* apply(ExecuteOrder)
Execute(b, id, quantity) ==
    LET result ==
          IF id \notin Ids(b) THEN "UnknownOrder"
          ELSE IF quantity = 0 THEN "InvalidQuantity"
          ELSE IF Order(b, id).quantity < quantity THEN "QuantityExceedsRemaining"
          ELSE "Ok"
    IN  Outcome(b, result,
            IF Order(b, id).quantity = quantity
            THEN Dequeue(b, id)
            ELSE SetQuantity(b, id, Order(b, id).quantity - quantity))

\* replace(old_id, next, maintain_priority)
Replace(b, old_id, e, maintain_priority, room) ==
    LET result ==
          IF old_id \notin Ids(b) THEN "UnknownOrder"
          ELSE IF e.quantity = 0 THEN "InvalidQuantity"
          ELSE IF e.price = 0 THEN "InvalidPrice"
          ELSE IF e.side # Order(b, old_id).side THEN "UnknownOrder"
          ELSE IF e.order_id # old_id /\ e.order_id \in Ids(b) THEN "DuplicateOrder"
          ELSE IF maintain_priority
               THEN IF e.price # Order(b, old_id).price \/ e.order_id # old_id
                    THEN "InvalidPrice" ELSE "Ok"
          ELSE IF ~room THEN "AllocationFailed"
          ELSE "Ok"
    IN  Outcome(b, result,
            IF maintain_priority
            THEN SetQuantity(b, old_id, e.quantity)
            ELSE Enqueue(Dequeue(b, old_id), e))

=============================================================================
