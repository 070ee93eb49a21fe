----------------------------- MODULE LimitBook ------------------------------
(***************************************************************************)
(* The abstract specification of core::OrderBook: the calls of             *)
(* PriceTimeBook on a set of book objects.  A call that does not return Ok *)
(* leaves the book as it was; an order can be refused for want of storage  *)
(* at any time.                                                            *)
(***************************************************************************)
EXTENDS PriceTimeBook

CONSTANTS
    Objects,        \* the OrderBook objects
    OrderIds,       \* the ids callers use
    Terms,          \* the [side, price, quantity] callers ask for, valid or not
    MaxQuantity     \* the quantities callers use are 0..MaxQuantity

VARIABLES
    books,      \* the content of each object
    result      \* what the last call returned

vars == <<books, result>>

AddOrders ==
    {[order_id |-> id, side |-> t.side, price |-> t.price, quantity |-> t.quantity] :
        id \in OrderIds, t \in Terms}

\* One call on object o.
Apply(o) ==
    \E b \in {books[o]}, outcome \in {[result |-> result', book |-> books'[o]]} :
        /\ \A p \in Objects \ {o} : books'[p] = books[p]
        /\ \/ \E e \in AddOrders, room \in BOOLEAN : outcome = Add(b, e, room)
           \/ \E id \in OrderIds : outcome = Cancel(b, id)
           \/ \E id \in OrderIds, quantity \in 0..MaxQuantity : outcome = Execute(b, id, quantity)
           \/ \E id \in OrderIds, e \in AddOrders, maintain_priority, room \in BOOLEAN :
                outcome = Replace(b, id, e, maintain_priority, room)

Init ==
    /\ books = [o \in Objects |-> EmptyBook]
    /\ result = "Ok"

Reset(o) ==
    /\ books' = [books EXCEPT ![o] = EmptyBook]
    /\ UNCHANGED result

\* to = std::move(from)
Move(from, to) ==
    /\ from # to
    /\ books' = [books EXCEPT ![to] = books[from], ![from] = EmptyBook]
    /\ UNCHANGED result

Next ==
    \E o \in Objects : Apply(o) \/ Reset(o) \/ \E to \in Objects : Move(o, to)

Spec == Init /\ [][Next]_vars

=============================================================================
