--------------------------- MODULE OrderBookShape ---------------------------
(***************************************************************************)
(* The shape of a book: its levels, lists, index and pool built from one table *)
(* of lists, one of nodes, an index and a pool.  Good states when these fit *)
(* together; the forms below are what the calls make of them.              *)
(***************************************************************************)
EXTENDS OrderBook

(* Numbers, lists and sums *)

\* Induction over the numbers, for sets of them.  Its proof needs the library
\* of well-founded relations, without which the proofs below are much lighter:
\* they take it from what they assume of the lists, and OrderBookTheorems
\* proves it.
Inductive ==
    \A T : 0 \in T /\ (\A n \in Nat : n \in T => n + 1 \in T) => \A n \in Nat : n \in T

\* The partial sums of a sequence.
IsSum(s, q) == DOMAIN s = 0..Len(q) /\ s[0] = 0 /\ \A i \in 1..Len(q) : s[i] = s[i - 1] + q[i]

\* r is q but for element k.
Changed(q, r, k) == Len(r) = Len(q) /\ \A i \in 1..Len(q) : i # k => r[i] = q[i]

\* r is q without element k.
Without(q, r, k) == Len(r) = Len(q) - 1 /\ \A i \in 1..Len(r) : r[i] = IF i < k THEN q[i] ELSE q[i + 1]

\* Every element of r is an element of q other than the k-th, and was there.
Remains(q, r, k) ==
    \A i \in 1..Len(r) : \E j \in 1..Len(q) :
        j # k /\ r[i] = q[j] /\ j = IF i < k THEN i ELSE i + 1

-----------------------------------------------------------------------------
(* The shape of a book *)

Prices == 1..MaxPrice

Slots == 0..(Capacity - 1)

\* The levels at the prices d, with the lists l and the aggregates a.
Levels(d, l, a) ==
    [s \in Sides |-> [p \in d[s] |-> [orders |-> l[s][p], aggregate_quantity |-> a[s][p]]]]

Book(own, pool, nodes, d, l, a, index) ==
    [owns_pool    |-> own,
     pool         |-> pool,
     nodes        |-> nodes,
     levels       |-> Levels(d, l, a),
     orders_by_id |-> index]

\* Between calls a level is there for every list that is not empty, and its
\* aggregate is the sum over the list.
Sizes(nodes, q) == [i \in DOMAIN q |-> nodes[q[i]].remaining_quantity]

Filled(l) == [s \in Sides |-> {p \in Prices : l[s][p] # <<>>}]

Sums(l, nodes) == [s \in Sides |-> [p \in Prices |-> ListSum(Sizes(nodes, l[s][p]))]]

Rest(own, pool, nodes, l, index) ==
    Book(own, pool, nodes, Filled(l), l, Sums(l, nodes), index)

\* The lists hold the nodes, each in one place.
Entries == [order_id : OrderIds, remaining_quantity : Nat \ {0}]

Once(l) ==
    \A s, t \in Sides, p, r \in Prices :
        \A i \in 1..Len(l[s][p]), j \in 1..Len(l[t][r]) :
            l[s][p][i] = l[t][r][j] => s = t /\ p = r /\ i = j

ListsInv(l, nodes) ==
    /\ Inductive
    /\ DOMAIN nodes \subseteq Slots
    /\ nodes \in [DOMAIN nodes -> Entries]
    /\ l \in [Sides -> [Prices -> Seq(DOMAIN nodes)]]
    /\ Once(l)

\* The index has the place of every node, and no other.
In(n, l, s, p) == \E i \in 1..Len(l[s][p]) : l[s][p][i] = n

IndexInv(l, nodes, index) ==
    /\ index \in [DOMAIN index -> [side : Sides, price : Prices, iterator : DOMAIN nodes]]
    /\ DOMAIN index \subseteq OrderIds
    /\ \A n \in DOMAIN nodes :
          /\ nodes[n].order_id \in DOMAIN index
          /\ index[nodes[n].order_id].iterator = n
    /\ \A id \in DOMAIN index :
          /\ nodes[index[id].iterator].order_id = id
          /\ In(index[id].iterator, l, index[id].side, index[id].price)

\* The index has the node at place i of a list, at that list.
IndexedAt(l, nodes, index, s, p, i) ==
    LET n == l[s][p][i]
    IN  /\ n \in DOMAIN nodes /\ nodes[n].order_id \in DOMAIN index
        /\ index[nodes[n].order_id] = [side |-> s, price |-> p, iterator |-> n]

\* The pool is fresh, or cut into slots of one node of which the nodes of the
\* book are the ones in use.
PoolOf(f, fs, iu, c, z, g, x, y) ==
    [first_init        |-> f,
     free_slots        |-> fs,
     in_uses           |-> iu,
     free_count        |-> c,
     slot_sz           |-> z,
     slot_alignment    |-> g,
     first_valid_start |-> x,
     last_valid_start  |-> y]

CutPool(fs, iu, c) == PoolOf(TRUE, fs, iu, c, 1, 1, 0, Capacity - 1)

\* How the sets of slots are counted: like Inductive, proved in
\* OrderBookTheorems from the library.
Countable ==
    /\ Cardinality({}) = 0
    /\ Cardinality(Slots) = Capacity
    /\ \A h \in SUBSET Slots : Cardinality(h) \in Nat
    /\ \A h \in SUBSET Slots : \A n \in Slots \ h : Cardinality(h \cup {n}) = Cardinality(h) + 1

StackInv(fs, iu, c, h) ==
    /\ fs \in [Slots -> Slots] /\ iu \in [Slots -> BOOLEAN] /\ c \in 0..Capacity
    /\ h = {k \in Slots : iu[k]} /\ c + Cardinality(h) = Capacity
    /\ \A i, j \in 0..(c - 1) : fs[i] = fs[j] => i = j
    /\ \A i \in 0..(c - 1) : ~iu[fs[i]]
    /\ \A k \in Slots : ~iu[k] => \E i \in 0..(c - 1) : fs[i] = k

PoolInv(p, h) ==
    /\ Countable
    /\ \/ p = NewBook.pool /\ h = {}
       \/ \E fs, iu, c : p = CutPool(fs, iu, c) /\ StackInv(fs, iu, c, h)

Good(b) ==
    \E own, pool, nodes, l, index :
        /\ own \in BOOLEAN /\ b = Rest(own, pool, nodes, l, index)
        /\ ListsInv(l, nodes) /\ IndexInv(l, nodes, index) /\ PoolInv(pool, DOMAIN nodes)

-----------------------------------------------------------------------------
(* Changes of the shape *)

Typed(d, l, a) ==
    /\ d \in [Sides -> SUBSET Prices]
    /\ l \in [Sides -> [Prices -> Seq(Int)]]
    /\ a \in [Sides -> [Prices -> Int]]

Set(f, s, p, v) == [f EXCEPT ![s][p] = v]

WithOrders(f, s, p, v) == [f EXCEPT ![s][p].orders = v]

WithAggregate(f, s, p, v) == [f EXCEPT ![s][p].aggregate_quantity = v]

\* The calls on a pool do not depend on the book it is in.
Readied(p) == Pool(NewBook)!Ready(p, Node)

Top(p) == Pool(NewBook)!Block(Readied(p))

Taken(p) == Pool(NewBook)!Take(Readied(p))

Freed(p, n) == Pool(NewBook)!Deallocate(p, n, 1)

Refused(p, heap) == Pool(NewBook)!Refuses(p, Node, heap)

Entry(e) == [order_id |-> e.order_id, remaining_quantity |-> e.quantity]

At(e, n) == [side |-> e.side, price |-> e.price, iterator |-> n]

Place(q, n) == CHOOSE i \in DOMAIN q : q[i] = n

\* The remaining quantity of a node.
Resized(nodes, n, q) == [nodes EXCEPT ![n].remaining_quantity = q]

\* All the lists but one are the same lists of the same orders.
Elsewhere(l, nodes, m, more, s, p) ==
    \A t \in Sides, r \in Prices : (t # s \/ r # p) =>
        /\ m[t][r] = l[t][r]
        /\ \A i \in DOMAIN l[t][r] : more[l[t][r][i]] = nodes[l[t][r][i]]

\* One list changes, and its sum by x.
Grows(l, nodes, m, more, s, p, x) ==
    /\ s \in Sides /\ p \in Prices /\ x \in Int
    /\ Sums(l, nodes) \in [Sides -> [Prices -> Int]]
    /\ Sums(m, more) \in [Sides -> [Prices -> Int]]
    /\ ListSum(Sizes(more, m[s][p])) = ListSum(Sizes(nodes, l[s][p])) + x
    /\ Elsewhere(l, nodes, m, more, s, p)

\* The lists without the k-th node of one of them.
Shorter(l, s, p, k) == Set(l, s, p, Erased(l[s][p], k))

\* Nodes stay in their lists when another one comes or goes.
Keeps(l, m, S) ==
    \A t \in Sides, r \in Prices, x \in S : In(x, l, t, r) => In(x, m, t, r)

\* The parts of a book between calls.
Parts(own, pool, nodes, l, index) ==
    /\ own \in BOOLEAN /\ ListsInv(l, nodes) /\ IndexInv(l, nodes, index)
    /\ PoolInv(pool, DOMAIN nodes)

\* An order that add_to and move_to accept.
Valid(e) ==
    /\ e.side \in Sides /\ e.price \in Prices
    /\ e.quantity \in Nat \ {0} /\ e.order_id \in OrderIds

Leveled(l, e) == [Filled(l) EXCEPT ![e.side] = @ \cup {e.price}]

Longer(l, e, n) == Set(l, e.side, e.price, Append(l[e.side][e.price], n))

\* The list with a new node n.
Lengthened(nodes, l, e, n) ==
    LET m == Longer(l, e, n)
        more == Put(nodes, n, Entry(e))
    IN  /\ ListsInv(m, more) /\ Filled(m) = Leveled(l, e)
        /\ Typed(Leveled(l, e), m, Sums(l, nodes)) /\ Typed(Leveled(l, e), l, Sums(l, nodes))
        /\ e.price \in Leveled(l, e)[e.side]
        /\ Sums(m, more) = Set(Sums(l, nodes), e.side, e.price,
                               Sums(l, nodes)[e.side][e.price] + e.quantity)
        /\ m[e.side][e.price] = Append(l[e.side][e.price], n)

\* The same, for an entry v of the list of side s and price p.
Joined(nodes, l, s, p, n, v) ==
    LET m == Set(l, s, p, Append(l[s][p], n))
        more == Put(nodes, n, v)
    IN  /\ ListsInv(m, more)
        /\ m[s][p] = Append(l[s][p], n)
        /\ Filled(m) = [Filled(l) EXCEPT ![s] = @ \cup {p}]
        /\ Sums(m, more) = Set(Sums(l, nodes), s, p, Sums(l, nodes)[s][p] + v.remaining_quantity)

CanTake(pool) == \E heap : ~Refused(pool, heap)

\* The book with a new node that is not yet counted.
Uncounted(own, pool, nodes, l, index, e) ==
    Book(own, Taken(pool), Put(nodes, Top(pool), Entry(e)), Leveled(l, e), Longer(l, e, Top(pool)),
         Sums(l, nodes), index)

\* A call that fails for want of memory: the book is as it was, but for the
\* order of the pool's free slots.
Fails(own, nodes, l, index, outcome) ==
    \E pool : /\ PoolInv(pool, DOMAIN nodes)
              /\ outcome = Done("AllocationFailed", Rest(own, pool, nodes, l, index))

\* The book with a new order.
Added(own, pool, nodes, l, index, e) ==
    Rest(own, Taken(pool), Put(nodes, Top(pool), Entry(e)), Longer(l, e, Top(pool)), index)

Inserts(own, pool, nodes, l, index, e, ix, outcome) ==
    \/ Fails(own, nodes, l, index, outcome)
    \/ /\ CanTake(pool)
       /\ outcome = Done("Ok", Uncounted(own, pool, nodes, l,
                            IF ix THEN Put(index, e.order_id, At(e, Top(pool))) ELSE index, e))

Removed(own, pool, nodes, l, index, s, p, k) ==
    Rest(own, Freed(pool, l[s][p][k]), Drop(nodes, l[s][p][k]), Shorter(l, s, p, k), index)

\* Its quantity has left the aggregate.
Reduced(own, pool, N, nodes, l, index, s, p, k) ==
    Book(own, pool, N, Filled(l), l, Sums(Shorter(l, s, p, k), Drop(nodes, l[s][p][k])), index)

Shortened(nodes, l, s, p, k) ==
    LET n == l[s][p][k]
        m == Shorter(l, s, p, k)
    IN  /\ ListsInv(m, Drop(nodes, n)) /\ m[s][p] = Erased(l[s][p], k)
        /\ Filled(m) = [Filled(l) EXCEPT ![s] = IF m[s][p] = <<>> THEN @ \ {p} ELSE @]
        /\ Sums(m, Drop(nodes, n)) = Set(Sums(l, nodes), s, p,
                                         Sums(l, nodes)[s][p] + (-nodes[n].remaining_quantity))

\* The order id is the k-th in its list.
Located(l, index, id, k) ==
    /\ index[id].side \in Sides /\ index[id].price \in Prices
    /\ k \in 1..Len(l[index[id].side][index[id].price])
    /\ l[index[id].side][index[id].price][k] = index[id].iterator

\* entry.remaining_quantity = q and entry.remaining_quantity -= q
WithQuantity(b, n, q) == [b EXCEPT !.nodes[n].remaining_quantity = q]

LessQuantity(b, n, q) == [b EXCEPT !.nodes[n].remaining_quantity = @ - q]

\* The index in which an order has moved, and the book.
Reindexed(index, old_id, e, n) == Put(Drop(index, old_id), e.order_id, At(e, n))

Moved(own, pool, nodes, l, index, old_id, e, k) ==
    Removed(own, Taken(pool), Put(nodes, Top(pool), Entry(e)), Longer(l, e, Top(pool)),
            Reindexed(index, old_id, e, Top(pool)), index[old_id].side, index[old_id].price, k)

\* replace, moving to the back of the queue at the new price
Moves(own, pool, nodes, l, index, old_id, e, outcome) ==
    \/ Fails(own, nodes, l, index, outcome)
    \/ /\ CanTake(pool)
       /\ \E k : /\ Located(l, index, old_id, k)
                 /\ outcome = Done("Ok", Moved(own, pool, nodes, l, index, old_id, e, k))

\* An object without orders.
Bare(own, pool) ==
    [owns_pool    |-> own,
     pool         |-> pool,
     nodes        |-> <<>>,
     levels       |-> [side \in Sides |-> <<>>],
     orders_by_id |-> <<>>]

\* The pools that freeing the slots one after the other leaves.
Frees(left, p, freed) ==
    /\ left[0] = p
    /\ \A i \in 1..Len(freed) : left[i] = Freed(left[i - 1], freed[i])

\* The parts after an order came, left, got another quantity or moved.
PartsAdded(own, pool, nodes, l, index, e) ==
    Parts(own, Taken(pool), Put(nodes, Top(pool), Entry(e)), Longer(l, e, Top(pool)),
          Put(index, e.order_id, At(e, Top(pool))))

PartsRemoved(own, pool, nodes, l, index, id, k) ==
    Parts(own, Freed(pool, index[id].iterator), Drop(nodes, index[id].iterator),
          Shorter(l, index[id].side, index[id].price, k), Drop(index, id))

PartsResized(own, pool, nodes, l, index, id, q) ==
    Parts(own, pool, Resized(nodes, index[id].iterator, q), l, index)

PartsMoved(own, pool, nodes, l, index, old_id, e, k) ==
    Parts(own, Freed(Taken(pool), index[old_id].iterator),
          Drop(Put(nodes, Top(pool), Entry(e)), index[old_id].iterator),
          Shorter(Longer(l, e, Top(pool)), index[old_id].side, index[old_id].price, k),
          Reindexed(index, old_id, e, Top(pool)))

-----------------------------------------------------------------------------
(* What the calls on a book with these parts return *)

\* apply(AddOrder)
AddAnswers(own, pool, nodes, l, index, e, outcome) ==
    LET b == Rest(own, pool, nodes, l, index)
    IN  \/ e.quantity = 0 /\ outcome = Done("InvalidQuantity", b)
        \/ e.quantity # 0 /\ e.price = 0 /\ outcome = Done("InvalidPrice", b)
        \/ /\ e.quantity # 0 /\ e.price # 0 /\ e.order_id \in DOMAIN index
           /\ outcome = Done("DuplicateOrder", b)
        \/ /\ e.quantity # 0 /\ e.price # 0 /\ e.order_id \notin DOMAIN index
           /\ e.side \notin Sides /\ outcome = Done("UnknownOrder", b)
        \/ Valid(e) /\ e.order_id \notin DOMAIN index /\ Fails(own, nodes, l, index, outcome)
        \/ /\ Valid(e) /\ e.order_id \notin DOMAIN index /\ CanTake(pool)
           /\ outcome = Done("Ok", Added(own, pool, nodes, l, Put(index, e.order_id, At(e, Top(pool))), e))
           /\ PartsAdded(own, pool, nodes, l, index, e)

\* The order at place k of its list leaves.
Leaves(own, pool, nodes, l, index, id, k, outcome) ==
    /\ Located(l, index, id, k)
    /\ outcome = Done("Ok", Removed(own, pool, nodes, l, Drop(index, id), index[id].side, index[id].price, k))
    /\ PartsRemoved(own, pool, nodes, l, index, id, k)

\* apply(CancelOrder)
CancelAnswers(own, pool, nodes, l, index, id, outcome) ==
    \/ id \notin DOMAIN index /\ outcome = Done("UnknownOrder", Rest(own, pool, nodes, l, index))
    \/ id \in DOMAIN index /\ \E k : Leaves(own, pool, nodes, l, index, id, k, outcome)

\* The order keeps its place with quantity q.
Stays(own, pool, nodes, l, index, id, q, outcome) ==
    /\ q \in Nat \ {0}
    /\ outcome = Done("Ok", Rest(own, pool, Resized(nodes, index[id].iterator, q), l, index))
    /\ PartsResized(own, pool, nodes, l, index, id, q)

\* apply(ExecuteOrder)
ExecuteAnswers(own, pool, nodes, l, index, id, q, outcome) ==
    LET b == Rest(own, pool, nodes, l, index)
        left == nodes[index[id].iterator].remaining_quantity
    IN  \/ id \notin DOMAIN index /\ outcome = Done("UnknownOrder", b)
        \/ id \in DOMAIN index /\ q = 0 /\ outcome = Done("InvalidQuantity", b)
        \/ id \in DOMAIN index /\ q # 0 /\ left < q /\ outcome = Done("QuantityExceedsRemaining", b)
        \/ /\ id \in DOMAIN index /\ q # 0 /\ left > q
           /\ Stays(own, pool, nodes, l, index, id, left - q, outcome)
        \/ /\ id \in DOMAIN index /\ q # 0 /\ left = q
           /\ \E k : Leaves(own, pool, nodes, l, index, id, k, outcome)

\* replace, moving to the back of the queue at the new price
MovesAway(own, pool, nodes, l, index, old_id, e, k, outcome) ==
    /\ Located(l, index, old_id, k)
    /\ outcome = Done("Ok", Moved(own, pool, nodes, l, index, old_id, e, k))
    /\ PartsRemoved(own, pool, nodes, l, index, old_id, k)
    /\ PartsMoved(own, pool, nodes, l, index, old_id, e, k)

\* replace
ReplaceAnswers(own, pool, nodes, l, index, old_id, e, keep, outcome) ==
    LET b == Rest(own, pool, nodes, l, index)
        old == index[old_id]
        known == old_id \in DOMAIN index
        asked == known /\ e.quantity # 0
        priced == asked /\ e.price # 0
        sided == priced /\ e.side = old.side
        taken == e.order_id # old_id /\ e.order_id \in DOMAIN index
        ok == sided /\ ~taken /\ Valid(e)
    IN  \/ ~known /\ outcome = Done("UnknownOrder", b)
        \/ known /\ e.quantity = 0 /\ outcome = Done("InvalidQuantity", b)
        \/ asked /\ e.price = 0 /\ outcome = Done("InvalidPrice", b)
        \/ priced /\ e.side # old.side /\ outcome = Done("UnknownOrder", b)
        \/ sided /\ taken /\ outcome = Done("DuplicateOrder", b)
        \/ /\ ok /\ keep /\ (e.price # old.price \/ e.order_id # old_id)
           /\ outcome = Done("InvalidPrice", b)
        \/ /\ ok /\ keep /\ e.price = old.price /\ e.order_id = old_id
           /\ Stays(own, pool, nodes, l, index, old_id, e.quantity, outcome)
        \/ ok /\ ~keep /\ Fails(own, nodes, l, index, outcome)
        \/ /\ ok /\ ~keep /\ CanTake(pool)
           /\ \E k : MovesAway(own, pool, nodes, l, index, old_id, e, k, outcome)

=============================================================================
