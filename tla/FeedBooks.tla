----------------------------- MODULE FeedBooks ------------------------------
(***************************************************************************)
(* feed::Books: the books rebuilt from the normalised events of exchange   *)
(* feeds, next to a table of the live orders that routes the events that   *)
(* name no symbol.  A filter keeps only the books of one symbol, and all   *)
(* the routes.  The first error makes an object useless.                   *)
(*                                                                         *)
(* An object is a record, and a call an operator from objects to objects;  *)
(* FeedReplay runs them.  Feed prices and quantities are wider than those  *)
(* of the core book.                                                       *)
(***************************************************************************)
EXTENDS BookViews, Functions

CONSTANT MaxQuantity    \* the largest quantity of the core book

ASSUME FeedAssumption == MaxQuantity \in Nat \ {0}

\* The normalised event; most types leave most fields at their defaults.
Event(type, channel, id) ==
    [type |-> type, channel |-> channel, sequence |-> 0, symbol |-> "", order_id |-> id,
     new_order_id |-> 0, side |-> "Bid", price |-> 0, quantity |-> 0, remaining |-> 0,
     maintain_priority |-> FALSE]

\* updated: the selected books have been updated at least once.
NewBooks == [valid |-> TRUE, updated |-> FALSE, books |-> <<>>, orders |-> <<>>]

Without(f, keys) == [k \in DOMAIN f \ keys |-> f[k]]

OrderKey(venue, e) == <<venue, e.channel, e.order_id>>

\* selected: an empty filter keeps every book.
Selected(filter, symbol) == filter \in {"", symbol}

\* A price and a quantity the core book can represent.
Fits(price, quantity) == price \in 1..MaxPrice /\ quantity \in 1..MaxQuantity

-----------------------------------------------------------------------------
(* apply, one operator per type of event; Thrown is an exception *)

Thrown(o) == [o EXCEPT !.valid = FALSE]

\* Fault: the routes of the books that go are kept.
ApplyClear_Books(o, venue, e) ==
    [o EXCEPT !.books = Without(@, {k \in DOMAIN @ : k.venue = venue /\ k.channel = e.channel})]

ApplyClear(o, venue, e) ==
    [o EXCEPT !.orders = Without(@, {k \in DOMAIN @ : k[1] = venue /\ k[2] = e.channel}),
              !.books = Without(@, {k \in DOMAIN @ : k.venue = venue /\ k.channel = e.channel})]

\* The book of a selected symbol is created; an order of another one is routed.
ApplyAdd(o, filter, venue, e, room) ==
    LET key == OrderKey(venue, e)
        book == [venue |-> venue, channel |-> e.channel, symbol |-> e.symbol]
        before == IF book \in DOMAIN o.books THEN o.books[book] ELSE EmptyBook
        added == Add(before, e, room)
        selected == Selected(filter, e.symbol)
    IN  IF \/ key \in DOMAIN o.orders \/ e.price = 0 \/ e.quantity = 0
           \/ selected /\ ~Fits(e.price, e.quantity)
        THEN Thrown(o)
        ELSE IF selected /\ added.result # "Ok"
        THEN Thrown([o EXCEPT !.books = (book :> before) @@ @])
        ELSE [o EXCEPT !.updated = @ \/ selected,
                       !.books = IF selected THEN (book :> added.book) @@ @ ELSE @,
                       !.orders = (key :> [book |-> book, side |-> e.side, price |-> e.price,
                                           quantity |-> e.quantity]) @@ @]

\* Fault: an order whose book is not kept is left as it was.
Reroute_Held(o, key, next, tracked) ==
    LET routes == Without(o.orders, {key}) IN
    CASE o.orders[key].book \notin DOMAIN o.books -> o.orders
      [] OTHER -> IF tracked.quantity = 0 THEN routes ELSE (next :> tracked) @@ routes

\* The order key becomes next, with tracked as its route; none when it is gone.
Reroute(o, key, next, tracked) ==
    LET routes == Without(o.orders, {key}) IN
    IF tracked.quantity = 0 THEN routes ELSE (next :> tracked) @@ routes

\* The outcome of the core call is the new book, if the book is kept.
Rerouted(o, key, next, tracked, outcome) ==
    LET book == o.orders[key].book
        held == book \in DOMAIN o.books
    IN  IF held /\ outcome.result # "Ok"
        THEN Thrown(o)
        ELSE [o EXCEPT !.updated = @ \/ held,
                       !.books = IF held THEN (book :> outcome.book) @@ @ ELSE @,
                       !.orders = Reroute(o, key, next, tracked)]

BookOf(o, key) ==
    LET book == o.orders[key].book
    IN  IF book \in DOMAIN o.books THEN o.books[book] ELSE EmptyBook

ApplyDelete(o, key, e) ==
    Rerouted(o, key, key, [o.orders[key] EXCEPT !.quantity = 0], Cancel(BookOf(o, key), e.order_id))

\* Reduce and Execute
ApplyDecrement(o, key, e) ==
    LET old == o.orders[key] IN
    IF e.quantity \notin 1..old.quantity
    THEN Thrown(o)
    ELSE Rerouted(o, key, key, [old EXCEPT !.quantity = @ - e.quantity],
                  Execute(BookOf(o, key), e.order_id, e.quantity))

\* What remains is said by the feed and may be more than the difference.
ApplyExecuteRemaining(o, key, e, room) ==
    LET old == o.orders[key]
        b == BookOf(o, key)
        next == [order_id |-> e.order_id, side |-> old.side, price |-> old.price,
                 quantity |-> e.remaining]
    IN  IF e.quantity = 0 \/ e.remaining > MaxQuantity
        THEN Thrown(o)
        ELSE Rerouted(o, key, key, [old EXCEPT !.quantity = e.remaining],
                      IF e.remaining = 0 THEN Cancel(b, e.order_id)
                      ELSE Replace(b, e.order_id, next, TRUE, room))

ApplyReplace(o, venue, key, e, room) ==
    LET old == o.orders[key]
        next == <<venue, e.channel, e.new_order_id>>
        order == [order_id |-> e.new_order_id, side |-> old.side, price |-> e.price,
                  quantity |-> e.quantity]
    IN  IF \/ next # key /\ next \in DOMAIN o.orders
           \/ e.price = 0 \/ e.quantity = 0
           \/ e.maintain_priority /\ ~(next = key /\ e.price = old.price)
           \/ old.book \in DOMAIN o.books /\ ~Fits(e.price, e.quantity)
        THEN Thrown(o)
        ELSE Rerouted(o, key, next, [old EXCEPT !.price = e.price, !.quantity = e.quantity],
                      Replace(BookOf(o, key), e.order_id, order, e.maintain_priority, room))

\* The events about an order that is there; a symbol is not always named.
ApplyKnown(o, venue, e, room) ==
    LET key == OrderKey(venue, e) IN
    IF \/ key \notin DOMAIN o.orders
       \/ e.symbol # "" /\ o.orders[key].book.symbol # e.symbol
    THEN Thrown(o)
    ELSE CASE e.type = "Delete" -> ApplyDelete(o, key, e)
           [] e.type \in {"Reduce", "Execute"} -> ApplyDecrement(o, key, e)
           [] e.type = "ExecuteRemaining" -> ApplyExecuteRemaining(o, key, e, room)
           [] e.type = "Replace" -> ApplyReplace(o, venue, key, e, room)

\* consume: an object that has thrown before throws again.
consume(o, filter, venue, e, room) ==
    IF ~o.valid THEN o
    ELSE CASE e.type \in {"Metadata", "Directory", "Trade"} -> o
           [] e.type = "Clear" -> ApplyClear(o, venue, e)
           [] e.type = "Add" -> ApplyAdd(o, filter, venue, e, room)
           [] OTHER -> ApplyKnown(o, venue, e, room)

=============================================================================
