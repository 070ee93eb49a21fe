----------------------------- MODULE OrderBook ------------------------------
(***************************************************************************)
(* core::OrderBook as it is built: price levels holding lists of nodes, an *)
(* index from order id to the node, and the nodes themselves in a          *)
(* FixedSlotPool that moves with the book.                                 *)
(*                                                                         *)
(* An add or a replace allocates up to three times: a level in the map, a  *)
(* node in the pool, an entry in the index.  fail names the one that       *)
(* throws bad_alloc if it is reached; the pool throws by itself when it    *)
(* has no slot left.                                                       *)
(***************************************************************************)
EXTENDS Integers, Sequences, FiniteSets, Functions, Lists

CONSTANTS
    Objects,        \* the OrderBook objects
    OrderIds,       \* the ids callers use
    MaxPrice,       \* the prices callers use are 0..MaxPrice
    MaxQuantity,    \* the quantities callers use are 0..MaxQuantity
    Terms,          \* the [side, price, quantity] callers ask for, valid or not
    Capacity        \* the nodes that fit in a pool

ASSUME OrderBookAssumption ==
    /\ {MaxPrice, MaxQuantity, Capacity} \subseteq Nat \ {0}
    /\ \A t \in Terms : t.price \in 0..MaxPrice /\ t.quantity \in 0..MaxQuantity

VARIABLES
    books,      \* the members of each object
    result      \* what the last call returned

vars == <<books, result>>

\* A node is one unit of memory; b is an object.
Node == [bytes |-> 1, alignment |-> 1]

Pool(b) == INSTANCE FixedSlotPool WITH
    CapacityBytes <- Capacity, Base <- 0, Requests <- {Node}, Pointers <- 0..(Capacity - 1),
    pool <- b.pool, held <- DOMAIN b.nodes

Heap == {"none", "level", "pool", "index"}

Sides == {"Bid", "Ask"}

\* levels[side] is bids_ or asks_: a function from prices to price levels;
\* nodes is the memory the lists' nodes live in.
NewBook ==
    [owns_pool    |-> TRUE,
     pool         |-> Pool([pool |-> 0, nodes |-> <<>>])!EmptyPool,
     nodes        |-> <<>>,
     levels       |-> [side \in Sides |-> <<>>],
     orders_by_id |-> <<>>]

\* What other is left with when its members are moved from.
MovedFrom == [NewBook EXCEPT !.owns_pool = FALSE]

Drop(f, k) == Restrict(f, DOMAIN f \ {k})

Put(f, k, v) == [x \in DOMAIN f \cup {k} |-> IF x = k THEN v ELSE f[x]]

\* std::prev(orders.end())
Back(orders) == orders[Len(orders)]

-----------------------------------------------------------------------------
(* Lists, levels and the index *)

\* levels.try_emplace(price, order_alloc_)
EmplaceLevel(b, side, price) ==
    IF price \in DOMAIN b.levels[side] THEN b
    ELSE [b EXCEPT !.levels[side] =
            Put(@, price, [orders |-> <<>>, aggregate_quantity |-> 0])]

EraseLevel(b, side, price) == [b EXCEPT !.levels[side] = Drop(@, price)]

\* orders.emplace_back(order_id, quantity), the pool having a slot
EmplaceBack(b, e) ==
    LET p == Pool(b)!Ready(b.pool, Node)
        node == Pool(b)!Block(p)
    IN  [b EXCEPT !.pool = Pool(b)!Take(p),
                  !.nodes = Put(@, node, [order_id |-> e.order_id,
                                          remaining_quantity |-> e.quantity]),
                  !.levels[e.side][e.price].orders = Append(@, node)]

\* orders.erase(node)
EraseNode(b, side, price, node) ==
    [b EXCEPT !.pool = Pool(b)!Deallocate(@, node, Node.bytes),
              !.nodes = Drop(@, node),
              !.levels[side][price].orders = Erased(@, CHOOSE i \in DOMAIN @ : @[i] = node)]

EraseIfEmpty(b, side, price) ==
    IF b.levels[side][price].orders = <<>> THEN EraseLevel(b, side, price) ELSE b

AddAggregate(b, side, price, quantity) ==
    [b EXCEPT !.levels[side][price].aggregate_quantity = @ + quantity]

Index(b, e) ==
    [b EXCEPT !.orders_by_id =
        Put(@, e.order_id, [side |-> e.side, price |-> e.price,
                            iterator |-> Back(b.levels[e.side][e.price].orders)])]

-----------------------------------------------------------------------------
(* The calls: each maps a book to [result, book] *)

Done(res, b) == [result |-> res, book |-> b]

\* Fault: a failed insertion leaves the level it created.
Undo_KeepsLevel(b, e, created, node) ==
    IF node THEN EraseNode(b, e.side, e.price, Back(b.levels[e.side][e.price].orders)) ELSE b

\* The catch block of add_to and move_to.
Undo(b, e, created, node) ==
    LET popped == IF node
                  THEN EraseNode(b, e.side, e.price, Back(b.levels[e.side][e.price].orders))
                  ELSE b
    IN  IF created THEN EraseLevel(popped, e.side, e.price) ELSE popped

\* The part of add_to and move_to that can throw: the level, the node and, for
\* a new id, the index entry.
Insert(b, e, index, fail) ==
    LET created == e.price \notin DOMAIN b.levels[e.side]
        leveled == EmplaceLevel(b, e.side, e.price)
        queued == EmplaceBack(leveled, e)
    IN  IF created /\ fail = "level" THEN Done("AllocationFailed", b)
        ELSE IF Pool(b)!Refuses(leveled.pool, Node, fail # "pool")
             THEN Done("AllocationFailed", Undo(leveled, e, created, FALSE))
        ELSE IF index /\ fail = "index"
             THEN Done("AllocationFailed", Undo(queued, e, created, TRUE))
        ELSE Done("Ok", IF index THEN Index(queued, e) ELSE queued)

\* apply(AddOrder)
Add(b, e, fail) ==
    IF e.quantity = 0 THEN Done("InvalidQuantity", b)
    ELSE IF e.price = 0 THEN Done("InvalidPrice", b)
    ELSE IF e.order_id \in DOMAIN b.orders_by_id THEN Done("DuplicateOrder", b)
    ELSE IF e.side \notin Sides THEN Done("UnknownOrder", b)
    ELSE IF ~b.owns_pool THEN Done("AllocationFailed", b)
    ELSE LET inserted == Insert(b, e, TRUE, fail)
         IN  IF inserted.result # "Ok" THEN inserted
             ELSE Done("Ok", AddAggregate(inserted.book, e.side, e.price, e.quantity))

\* The order at loc leaves its level.
Detach(b, loc) ==
    LET remaining == b.nodes[loc.iterator].remaining_quantity
        reduced == AddAggregate(b, loc.side, loc.price, -remaining)
    IN  EraseIfEmpty(EraseNode(reduced, loc.side, loc.price, loc.iterator), loc.side, loc.price)

Unindex(b, id) == [b EXCEPT !.orders_by_id = Drop(@, id)]

\* apply(CancelOrder)
Cancel(b, id) ==
    IF id \notin DOMAIN b.orders_by_id THEN Done("UnknownOrder", b)
    ELSE LET loc == b.orders_by_id[id]
         IN  IF loc.price \notin DOMAIN b.levels[loc.side] THEN Done("UnknownOrder", b)
             ELSE Done("Ok", Unindex(Detach(b, loc), id))

\* apply(ExecuteOrder)
Execute(b, id, quantity) ==
    IF id \notin DOMAIN b.orders_by_id THEN Done("UnknownOrder", b)
    ELSE IF quantity = 0 THEN Done("InvalidQuantity", b)
    ELSE LET loc == b.orders_by_id[id]
             reduced == [AddAggregate(b, loc.side, loc.price, -quantity)
                            EXCEPT !.nodes[loc.iterator].remaining_quantity = @ - quantity]
         IN  IF b.nodes[loc.iterator].remaining_quantity < quantity
                THEN Done("QuantityExceedsRemaining", b)
             ELSE IF loc.price \notin DOMAIN b.levels[loc.side] THEN Done("UnknownOrder", b)
             ELSE IF b.nodes[loc.iterator].remaining_quantity > quantity THEN Done("Ok", reduced)
             ELSE Done("Ok", Unindex(Detach(reduced, loc), id))

\* replace, keeping the order's place in its queue
Adjust(b, loc, quantity) ==
    [AddAggregate(b, loc.side, loc.price, quantity - b.nodes[loc.iterator].remaining_quantity)
        EXCEPT !.nodes[loc.iterator].remaining_quantity = quantity]

\* Fault: the old node goes before the new one is in place.
MoveTo_EraseFirst(b, old_id, e, fail) ==
    LET erased == Unindex(Detach(b, b.orders_by_id[old_id]), old_id)
        inserted == Insert(erased, e, TRUE, fail)
    IN  IF inserted.result # "Ok" THEN inserted
        ELSE Done("Ok", AddAggregate(inserted.book, e.side, e.price, e.quantity))

\* replace, moving to the back of the queue at the new price: the new node is
\* in place before the old one goes.
MoveTo(b, old_id, e, fail) ==
    LET old == b.orders_by_id[old_id]
        inserted == Insert(b, e, e.order_id # old_id, fail)
        counted == AddAggregate(inserted.book, e.side, e.price, e.quantity)
        indexed == IF e.order_id = old_id THEN Index(counted, e) ELSE Unindex(counted, old_id)
    IN  IF inserted.result # "Ok" THEN inserted ELSE Done("Ok", Detach(indexed, old))

Replace(b, old_id, e, maintain_priority, fail) ==
    IF old_id \notin DOMAIN b.orders_by_id THEN Done("UnknownOrder", b)
    ELSE LET old == b.orders_by_id[old_id]
         IN  IF e.quantity = 0 THEN Done("InvalidQuantity", b)
             ELSE IF e.price = 0 THEN Done("InvalidPrice", b)
             ELSE IF e.side # old.side THEN Done("UnknownOrder", b)
             ELSE IF e.order_id # old_id /\ e.order_id \in DOMAIN b.orders_by_id
                  THEN Done("DuplicateOrder", b)
             ELSE IF ~maintain_priority THEN MoveTo(b, old_id, e, fail)
             ELSE IF e.price # old.price \/ e.order_id # old_id THEN Done("InvalidPrice", b)
             ELSE Done("Ok", Adjust(b, old, e.quantity))

-----------------------------------------------------------------------------
(* The objects *)

AddOrders ==
    {[order_id |-> id, side |-> t.side, price |-> t.price, quantity |-> t.quantity] :
        id \in OrderIds, t \in Terms}

Returns(o, outcome) ==
    /\ books' = [books EXCEPT ![o] = outcome.book]
    /\ result' = outcome.result

Init ==
    /\ books = [o \in Objects |-> NewBook]
    /\ result = "Ok"

\* The calls, with whatever arguments: a set of outcomes each.
ApplyAdd(o) ==
    \E outcome \in {Add(books[o], e, fail) : e \in AddOrders, fail \in Heap} : Returns(o, outcome)

ApplyCancel(o) ==
    \E outcome \in {Cancel(books[o], id) : id \in OrderIds} : Returns(o, outcome)

ApplyExecute(o) ==
    \E outcome \in {Execute(books[o], id, quantity) :
                       id \in OrderIds, quantity \in 0..MaxQuantity} : Returns(o, outcome)

ApplyReplace(o) ==
    \E outcome \in {Replace(books[o], id, e, maintain_priority, fail) :
                       id \in OrderIds, e \in AddOrders,
                       maintain_priority \in BOOLEAN, fail \in Heap} : Returns(o, outcome)

\* Fault: the nodes are forgotten instead of returned to the pool.
Cleared_Leaks(b, freed) ==
    [b EXCEPT !.nodes = <<>>, !.levels = [side \in Sides |-> <<>>], !.orders_by_id = <<>>]

\* bids_.clear(), asks_.clear() and orders_by_id_.clear(), the nodes freed in
\* the order freed.
Cleared(b, freed) ==
    LET left[i \in 0..Len(freed)] ==
          IF i = 0 THEN b.pool ELSE Pool(b)!Deallocate(left[i - 1], freed[i], Node.bytes)
    IN  [b EXCEPT !.pool = left[Len(freed)],
                  !.nodes = <<>>,
                  !.levels = [side \in Sides |-> <<>>],
                  !.orders_by_id = <<>>]

\* The order in which a map frees its levels is not specified.
Orderings(nodes) == Bijection(1..Cardinality(nodes), nodes)

Reset(o) ==
    \E freed \in Orderings(DOMAIN books[o].nodes) :
        /\ books' = [books EXCEPT ![o] = Cleared(books[o], freed)]
        /\ UNCHANGED result

\* to = std::move(from): what to had is freed with its pool.
Move(from, to) ==
    /\ from # to
    /\ books' = [books EXCEPT ![to] = books[from], ![from] = MovedFrom]
    /\ UNCHANGED result

Next ==
    \E o \in Objects :
        \/ ApplyAdd(o) \/ ApplyCancel(o) \/ ApplyExecute(o) \/ ApplyReplace(o)
        \/ Reset(o)
        \/ \E to \in Objects : Move(o, to)

Spec == Init /\ [][Next]_vars

-----------------------------------------------------------------------------
(* Properties *)

Queued(b) ==
    UNION {Range(b.levels[at[1]][at[2]].orders) :
              at \in {at \in Sides \X (1..MaxPrice) : at[2] \in DOMAIN b.levels[at[1]]}}

Aggregate(b, orders) == ListSum([i \in DOMAIN orders |-> b.nodes[orders[i]].remaining_quantity])

\* validate_invariants
validate_invariants(b) ==
    /\ \A side \in Sides : \A price \in DOMAIN b.levels[side] :
          LET level == b.levels[side][price] IN
          /\ price # 0 /\ level.orders # <<>>
          /\ \A i \in DOMAIN level.orders :
                LET entry == b.nodes[level.orders[i]] IN
                /\ entry.remaining_quantity # 0
                /\ entry.order_id \in DOMAIN b.orders_by_id
                /\ b.orders_by_id[entry.order_id] =
                      [side |-> side, price |-> price, iterator |-> level.orders[i]]
          /\ level.aggregate_quantity = Aggregate(b, level.orders)
    /\ {b.nodes[n].order_id : n \in Queued(b)} = DOMAIN b.orders_by_id

\* The levels, the lists and the index describe the same orders after every
\* sequence of calls, whichever allocation failed in between: what
\* validate_invariants checks in tests holds of every reachable book.
BooksAreConsistent == \A o \in Objects : validate_invariants(books[o])

\* The nodes in the lists are exactly the slots taken from the pool: no call,
\* failed or not, leaks a slot, frees one that is still queued or leaves an
\* iterator to a freed one.
NodesAreThePoolsSlots ==
    \A o \in Objects :
        /\ Queued(books[o]) = DOMAIN books[o].nodes
        /\ Pool(books[o])!TypeOK
        /\ Pool(books[o])!FreeOrHeld

\* What the lists of an object hold, as queues.
Contents(b) ==
    [side \in Sides |-> [price \in 1..MaxPrice |->
        IF price \notin DOMAIN b.levels[side] THEN <<>>
        ELSE LET orders == b.levels[side][price].orders
             IN  [i \in DOMAIN orders |->
                    [order_id |-> b.nodes[orders[i]].order_id,
                     quantity |-> b.nodes[orders[i]].remaining_quantity]]]]

=============================================================================
