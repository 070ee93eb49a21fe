--------------------- MODULE OrderBookRefinementProofs ----------------------
(***************************************************************************)
(* What a caller sees of a book of the shape of OrderBookShape, before and *)
(* after a call, and that a call that answers as stated there leaves a     *)
(* good book and does to the queues what LimitBook says; then the sums     *)
(* over the lists, and what the operations on levels and on books do to    *)
(* the shape.  OrderBookProofs and OrderBookTheorems show that the calls   *)
(* answer so.                                                              *)
(***************************************************************************)
EXTENDS OrderBookRefinement, OrderBookShape, TLAPS

\* A leaf that names no other prover is proved by Zenon.
USE ZenonT(30)

(* Lists *)

\* A set of numbers that contains 0 and with a number the next one contains all.
LEMMA Induction ==
    ASSUME Inductive, NEW T, 0 \in T, \A n \in Nat : n \in T => n + 1 \in T
    PROVE  \A n \in Nat : n \in T
  BY DEF Inductive

\* A function on 1..n is a list.
LEMMA IsList ==
    ASSUME NEW S, NEW n \in Nat, NEW f \in [1..n -> S]
    PROVE  f \in Seq(S) /\ Len(f) = n
  BY SMTT(30)

\* The elements of a list.
LEMMA ListElements ==
    ASSUME NEW S, NEW q \in Seq(S)
    PROVE  /\ Len(q) \in Nat
           /\ DOMAIN q = 1..Len(q)
           /\ \A i \in 1..Len(q) : q[i] \in S
  BY SMTT(30)

\* A list is a list of any wider set.
LEMMA WiderList ==
    ASSUME NEW S, NEW T, S \subseteq T, NEW q \in Seq(S)
    PROVE  q \in Seq(T)
  <1>1. q \in [1..Len(q) -> T] /\ Len(q) \in Nat
    BY SMTT(30)
  <1> QED
    BY <1>1, SMTT(30)

\* Two lists with the same elements are one.
LEMMA SameList ==
    ASSUME NEW S, NEW q \in Seq(S), NEW r \in Seq(S), Len(q) = Len(r),
           \A i \in 1..Len(q) : q[i] = r[i]
    PROVE  q = r
  BY SMTT(30)

\* A list with one more element at its end.
LEMMA Appended ==
    ASSUME NEW S, NEW q \in Seq(S), NEW x \in S
    PROVE  /\ Append(q, x) \in Seq(S)
           /\ Len(Append(q, x)) = Len(q) + 1
           /\ \A i \in 1..Len(q) : Append(q, x)[i] = q[i]
           /\ Append(q, x)[Len(q) + 1] = x
  BY SMTT(30)

\* A list that loses an element.
LEMMA ErasedIs ==
    ASSUME NEW S, NEW q \in Seq(S), NEW k \in 1..Len(q)
    PROVE  /\ Erased(q, k) \in Seq(S) /\ Len(Erased(q, k)) = Len(q) - 1
           /\ \A i \in 1..(Len(q) - 1) : Erased(q, k)[i] = IF i < k THEN q[i] ELSE q[i + 1]
  <1>1. Len(q) - 1 \in Nat
    BY SMTT(30)
  <1>2. \A i \in 1..(Len(q) - 1) : q[i] \in S /\ q[i + 1] \in S
    BY ListElements, SMTT(30)
  <1>3. Erased(q, k) \in [1..(Len(q) - 1) -> S]
    BY <1>2 DEF Erased
  <1> QED
    BY <1>1, <1>3, IsList DEF Erased

\* A pool has at least one slot and a book at least one price.
LEMMA CapacityIs ==
    Capacity \in Nat \ {0} /\ MaxPrice \in Nat \ {0}
  BY OrderBookAssumption

\* The lists hold nodes, which are slot numbers.
LEMMA ListFacts ==
    ASSUME NEW l, NEW nodes, ListsInv(l, nodes)
    PROVE  /\ \A s \in Sides, p \in Prices :
                 /\ l[s][p] \in Seq(DOMAIN nodes) /\ Len(l[s][p]) \in Nat
                 /\ DOMAIN l[s][p] = 1..Len(l[s][p])
                 /\ \A i \in 1..Len(l[s][p]) : l[s][p][i] \in DOMAIN nodes
           /\ DOMAIN nodes \subseteq Int
           /\ l \in [Sides -> [Prices -> Seq(Int)]]
  <1>1. ASSUME NEW s \in Sides, NEW p \in Prices
        PROVE  /\ l[s][p] \in Seq(DOMAIN nodes) /\ Len(l[s][p]) \in Nat
               /\ DOMAIN l[s][p] = 1..Len(l[s][p])
               /\ \A i \in 1..Len(l[s][p]) : l[s][p][i] \in DOMAIN nodes
    <2>1. l[s][p] \in Seq(DOMAIN nodes)
      BY DEF ListsInv
    <2> QED
      BY <2>1, ListElements
  <1>2. DOMAIN nodes \subseteq Int
    BY CapacityIs, SMTT(30) DEF ListsInv, Slots
  <1>3. \A s \in Sides, p \in Prices : l[s][p] \in Seq(Int)
    BY <1>1, <1>2, WiderList
  <1>4. l \in [Sides -> [Prices -> Seq(Int)]]
    BY <1>3 DEF ListsInv
  <1> QED
    BY <1>1, <1>2, <1>4

\* A node whose quantity changes.
LEMMA ResizedIs ==
    ASSUME NEW nodes, nodes \in [DOMAIN nodes -> Entries], NEW n \in DOMAIN nodes, NEW q \in Nat \ {0}
    PROVE  /\ Resized(nodes, n, q) \in [DOMAIN nodes -> Entries]
           /\ DOMAIN Resized(nodes, n, q) = DOMAIN nodes
           /\ Resized(nodes, n, q)[n].remaining_quantity = q
           /\ \A x \in DOMAIN nodes : Resized(nodes, n, q)[x].order_id = nodes[x].order_id
           /\ \A x \in DOMAIN nodes : x # n => Resized(nodes, n, q)[x] = nodes[x]
  BY DEF Resized, Entries

\* What orders_by_id_ says of an order is where it is: its node is in the list
\* of its side and price, and the level of that price is there.
LEMMA LocatedIs ==
    ASSUME NEW l, NEW nodes, NEW index, IndexInv(l, nodes, index), NEW id \in DOMAIN index
    PROVE  /\ \E k : Located(l, index, id, k)
           /\ index[id].iterator \in DOMAIN nodes /\ nodes[index[id].iterator].order_id = id
           /\ index[id].price \in Filled(l)[index[id].side]
  <1>1. /\ index[id].side \in Sides /\ index[id].price \in Prices /\ index[id].iterator \in DOMAIN nodes
        /\ nodes[index[id].iterator].order_id = id
        /\ In(index[id].iterator, l, index[id].side, index[id].price)
    BY DEF IndexInv
  <1>2. PICK k \in 1..Len(l[index[id].side][index[id].price]) :
                l[index[id].side][index[id].price][k] = index[id].iterator
    BY <1>1 DEF In
  <1>3. l[index[id].side][index[id].price] # <<>>
    BY <1>2, SMTT(30)
  <1> QED
    BY <1>1, <1>2, <1>3 DEF Located, Filled

\* The order that goes is where it was in the longer lists.
LEMMA StillLocated ==
    ASSUME NEW nodes, NEW l, NEW index, ListsInv(l, nodes), NEW e, Valid(e), NEW n \in Int,
           NEW id, NEW k, Located(l, index, id, k)
    PROVE  Located(Longer(l, e, n), index, id, k)
  <1> DEFINE s == index[id].side
             p == index[id].price
             q == l[e.side][e.price]
             w == Append(q, n)
             m == Longer(l, e, n)
  <1>1. l \in [Sides -> [Prices -> Seq(Int)]] /\ q \in Seq(Int) /\ Len(q) \in Nat
    BY ListFacts, SMTT(30) DEF Valid
  <1>2. w \in Seq(Int) /\ Len(w) = Len(q) + 1 /\ \A i \in 1..Len(q) : w[i] = q[i]
    BY <1>1, Appended, SMTT(30)
  <1>3. e.side \in Sides /\ e.price \in Prices
    BY DEF Valid
  <1>4. s \in Sides /\ p \in Prices /\ k \in 1..Len(l[s][p]) /\ l[s][p][k] = index[id].iterator
    BY DEF Located
  <1> HIDE DEF s, p, w
  <1>5. m[e.side][e.price] = w /\ \A t \in Sides, r \in Prices : (t # e.side \/ r # e.price) => m[t][r] = l[t][r]
    BY <1>1, <1>2, <1>3 DEF Longer, Set, w
  <1> HIDE DEF m
  <1>6. CASE s = e.side /\ p = e.price
    <2>1. m[s][p] = w /\ l[s][p] = q
      BY <1>5, <1>6
    <2> HIDE DEF q
    <2>2. k \in 1..Len(w) /\ w[k] = q[k]
      BY <1>1, <1>2, <1>4, <2>1, SMTT(30)
    <2>3. k \in 1..Len(m[s][p]) /\ m[s][p][k] = index[id].iterator
      BY <1>4, <2>1, <2>2
    <2> QED
      BY <1>4, <2>3 DEF Located, s, p, m
  <1>7. CASE s # e.side \/ p # e.price
    <2>1. m[s][p] = l[s][p]
      BY <1>4, <1>5, <1>7
    <2> QED
      BY <1>4, <2>1 DEF Located, s, p, m
  <1> QED
    BY <1>6, <1>7

\* The index says of every queued order where it is.
LEMMA Indexed ==
    ASSUME NEW l, NEW nodes, NEW index, ListsInv(l, nodes), IndexInv(l, nodes, index),
           NEW s \in Sides, NEW p \in Prices, NEW i \in 1..Len(l[s][p])
    PROVE  IndexedAt(l, nodes, index, s, p, i)
  <1> DEFINE n == l[s][p][i]
             at == index[nodes[n].order_id]
  <1>1. n \in DOMAIN nodes
    BY ListFacts
  <1>2. nodes[n].order_id \in DOMAIN index /\ at.iterator = n
    BY <1>1 DEF IndexInv
  <1>3. In(n, l, at.side, at.price) /\ at \in [side : Sides, price : Prices, iterator : DOMAIN nodes]
    BY <1>2 DEF IndexInv
  <1>4. at.side = s /\ at.price = p
    <2> DEFINE t == at.side
               r == at.price
    <2>1. t \in Sides /\ r \in Prices /\ Once(l)
      BY <1>3 DEF ListsInv
    <2>2. \E j \in 1..Len(l[t][r]) : l[t][r][j] = n
      BY <1>3 DEF In
    <2>3. n = l[s][p][i]
      OBVIOUS
    <2> HIDE DEF t, r, n
    <2>4. t = s /\ r = p
      BY <2>1, <2>2, <2>3, SMTT(30) DEF Once
    <2> QED
      BY <2>4 DEF t, r
  <1> HIDE DEF at, n
  <1>5. at = [side |-> s, price |-> p, iterator |-> n]
    BY <1>2, <1>3, <1>4
  <1> QED
    BY <1>1, <1>2, <1>5 DEF IndexedAt, at, n

\* The arguments callers pass.
LEMMA Arguments ==
    ASSUME NEW e \in AddOrders
    PROVE  e.order_id \in OrderIds /\ e.price \in 0..MaxPrice /\ e.quantity \in 0..MaxQuantity
  BY OrderBookAssumption, SMTT(30) DEF AddOrders

-----------------------------------------------------------------------------
(* The pool of a book *)

\* The operations of FixedSlotPool that a book uses, on the parts of the pool.
LEMMA SamePool ==
    ASSUME NEW b, NEW p, NEW n, NEW heap
    PROVE  /\ Pool(b)!Ready(p, Node) = Readied(p)
           /\ Pool(b)!Block(Readied(p)) = Top(p)
           /\ Pool(b)!Take(Readied(p)) = Taken(p)
           /\ Pool(b)!Deallocate(p, n, Node.bytes) = Freed(p, n)
           /\ Pool(b)!Refuses(p, Node, heap) = Refused(p, heap)
  <1>1. Node.bytes = 1
    BY DEF Node
  <1>2. Pool(b)!Ready(p, Node) = Readied(p)
    BY DEF Readied, Pool!Ready, Pool!Cut, Pool!SlotCount, Pool!Padding
  <1>3. Pool(b)!Block(Readied(p)) = Top(p)
    BY DEF Top, Pool!Block
  <1>4. Pool(b)!Take(Readied(p)) = Taken(p)
    BY DEF Taken, Pool!Take, Pool!IndexOf, Pool!Block
  <1>5. Pool(b)!Deallocate(p, n, 1) = Freed(p, n)
    BY DEF Freed, Pool!Deallocate, Pool!IndexOf, Pool!Accepts
  <1>6. Pool(b)!Refuses(p, Node, heap) = Refused(p, heap)
    BY DEF Refused, Pool!Refuses, Pool!Fits, Pool!Padding
  <1> QED
    BY <1>1, <1>2, <1>3, <1>4, <1>5, <1>6

\* A pool that does not refuse has a free slot once it is cut.
LEMMA PoolReady ==
    ASSUME NEW p, NEW h, PoolInv(p, h), NEW heap, ~Refused(p, heap)
    PROVE  \E fs, iu, c : Readied(p) = CutPool(fs, iu, c) /\ StackInv(fs, iu, c, h) /\ c # 0
  <1>1. CASE p = NewBook.pool /\ h = {}
    <2> DEFINE fs == [i \in Slots |-> i]
               iu == [i \in Slots |-> FALSE]
    <2>1. ~p.first_init
      BY <1>1 DEF NewBook, Pool!EmptyPool
    <2>2. 0 % 1 = 0 /\ (1 - 0) % 1 = 0 /\ (Capacity - 0) \div 1 = Capacity
      BY CapacityIs, SMTT(30)
    <2>3. Pool(NewBook)!Padding(Node) = 0 /\ Pool(NewBook)!SlotCount(Node) = Capacity
      BY <2>2 DEF Pool!Padding, Pool!SlotCount, Node
    <2>4. Readied(p) = Pool(NewBook)!Cut(Node)
      BY <2>1 DEF Readied, Pool!Ready
    <2>5. [i \in 0..(Capacity - 1) |-> 0 + i * 1] = fs
      BY CapacityIs, SMTT(30) DEF Slots
    <2>6. Readied(p) = CutPool(fs, iu, Capacity)
      <3> DEFINE X(k, z) == [first_init        |-> TRUE,
                             free_slots        |-> [i \in 0..(k - 1) |-> z + i * 1],
                             in_uses           |-> [i \in 0..(k - 1) |-> FALSE],
                             free_count        |-> k,
                             slot_sz           |-> 1,
                             slot_alignment    |-> 1,
                             first_valid_start |-> z,
                             last_valid_start  |-> z + (k - 1) * 1]
      <3>1. Node.bytes = 1 /\ Node.alignment = 1
        BY DEF Node
      <3>2. Readied(p) = X(Pool(NewBook)!SlotCount(Node), Pool(NewBook)!Padding(Node))
        BY <2>4, <3>1 DEF Pool!Cut
      <3>3. 0 + (Capacity - 1) * 1 = Capacity - 1
        BY CapacityIs, SMTT(30)
      <3>4. X(Capacity, 0) = CutPool(fs, iu, Capacity)
        BY <2>5, <3>3 DEF CutPool, PoolOf, Slots
      <3> HIDE DEF X
      <3> QED
        BY <2>3, <3>2, <3>4
    <2>7. StackInv(fs, iu, Capacity, h)
      <3>1. Cardinality(h) = 0
        BY <1>1 DEF PoolInv, Countable
      <3> QED
        BY <1>1, <3>1, CapacityIs, SMTT(30) DEF StackInv, Slots
    <2> QED
      BY <2>6, <2>7, CapacityIs
  <1>2. CASE \E fs, iu, c : p = CutPool(fs, iu, c) /\ StackInv(fs, iu, c, h)
    <2>1. PICK fs, iu, c : p = CutPool(fs, iu, c) /\ StackInv(fs, iu, c, h)
      BY <1>2
    <2>2. p.first_init /\ p.free_count = c
      BY <2>1 DEF CutPool, PoolOf
    <2>3. c # 0
      BY <2>2 DEF Refused, Pool!Refuses
    <2>4. Readied(p) = p
      BY <2>2 DEF Readied, Pool!Ready
    <2> QED
      BY <2>1, <2>3, <2>4
  <1> QED
    BY <1>1, <1>2 DEF PoolInv

\* The slot handed out is not in use yet.
LEMMA PoolTake ==
    ASSUME NEW p, NEW h, PoolInv(p, h), NEW heap, ~Refused(p, heap)
    PROVE  /\ Top(p) \in Slots /\ Top(p) \notin h
           /\ PoolInv(Taken(p), h \cup {Top(p)})
  <1>1. PICK fs, iu, c : Readied(p) = CutPool(fs, iu, c) /\ StackInv(fs, iu, c, h) /\ c # 0
    BY PoolReady
  <1> DEFINE n == fs[c - 1]
             iv == [iu EXCEPT ![n] = TRUE]
  <1>2. c \in 1..Capacity /\ c - 1 \in Slots /\ c - 1 \in 0..(c - 1)
    BY <1>1, CapacityIs, SMTT(30) DEF StackInv, Slots
  <1>3. Top(p) = n
    BY <1>1, SMTT(30) DEF Top, Pool!Block, CutPool, PoolOf
  <1>4. n \in Slots /\ ~iu[n] /\ n \notin h
    BY <1>1, <1>2 DEF StackInv
  <1>5. Taken(p) = CutPool(fs, iv, c - 1)
    <2>1. (n - 0) \div 1 = n
      BY <1>4, CapacityIs, SMTT(30) DEF Slots
    <2>2. Pool(NewBook)!IndexOf(Readied(p), Pool(NewBook)!Block(Readied(p))) = n
      BY <1>1, <2>1, SMTT(30) DEF Pool!IndexOf, Pool!Block, CutPool, PoolOf
    <2> DEFINE r == Readied(p)
               k == c - 1
               w == [r EXCEPT !.free_count = k]
               f == TRUE
               z == 1
               x == 0
               y == Capacity - 1
    <2>3. r = PoolOf(f, fs, iu, c, z, z, x, y) /\ CutPool(fs, iv, c - 1) = PoolOf(f, fs, iv, k, z, z, x, y)
      BY <1>1 DEF CutPool
    <2>4. r.free_count = c
      BY <2>3, SMTT(30) DEF PoolOf
    <2>5. Taken(p) = [w EXCEPT !.in_uses[n] = TRUE]
      BY <2>2, <2>4 DEF Taken, Pool!Take
    <2> HIDE DEF r, n, k, f, z, x, y
    <2>6. w = PoolOf(f, fs, iu, k, z, z, x, y)
      BY <2>3, SMTT(30) DEF PoolOf
    <2> HIDE DEF w
    <2>7. w.in_uses = iu
      BY <2>6 DEF PoolOf
    <2>8. Taken(p) = [w EXCEPT !.in_uses = iv]
      BY <2>5, <2>7
    <2> HIDE DEF iv
    <2>9. [w EXCEPT !.in_uses = iv] = PoolOf(f, fs, iv, k, z, z, x, y)
      BY <2>6, SMTT(30) DEF PoolOf
    <2> QED
      BY <2>3, <2>8, <2>9
  <1>6. StackInv(fs, iv, c - 1, h \cup {n})
    <2>1. h \subseteq Slots
      BY <1>1 DEF StackInv
    <2>2. Cardinality(h \cup {n}) = Cardinality(h) + 1 /\ Cardinality(h) \in Nat
      <3> HIDE DEF n
      <3> QED
        BY <1>4, <2>1 DEF PoolInv, Countable
    <2>3. fs \in [Slots -> Slots] /\ iv \in [Slots -> BOOLEAN] /\ c - 1 \in 0..Capacity
      BY <1>1, <1>2, CapacityIs, SMTT(30) DEF StackInv
    <2>4. h \cup {n} = {k \in Slots : iv[k]}
      BY <1>1, <1>4, SMTT(30) DEF StackInv
    <2>5. (c - 1) + Cardinality(h \cup {n}) = Capacity
      BY <1>1, <1>2, <2>2, CapacityIs, SMTT(30) DEF StackInv
    <2>6. \A i, j \in 0..((c - 1) - 1) : fs[i] = fs[j] => i = j
      BY <1>1, <1>2, SMTT(30) DEF StackInv
    <2>7. \A i \in 0..((c - 1) - 1) : ~iv[fs[i]]
      <3> SUFFICES ASSUME NEW i \in 0..((c - 1) - 1) PROVE ~iv[fs[i]]
        OBVIOUS
      <3>1. i \in 0..(c - 1) /\ i # c - 1 /\ i \in Slots
        BY <1>2, CapacityIs, SMTT(30) DEF Slots
      <3>2. fs[i] # n /\ ~iu[fs[i]] /\ fs[i] \in Slots
        BY <1>1, <1>2, <3>1 DEF StackInv
      <3> QED
        BY <1>1, <3>2 DEF StackInv
    <2>8. \A k \in Slots : ~iv[k] => \E i \in 0..((c - 1) - 1) : fs[i] = k
      <3> SUFFICES ASSUME NEW k \in Slots, ~iv[k] PROVE \E i \in 0..((c - 1) - 1) : fs[i] = k
        OBVIOUS
      <3>1. k # n /\ ~iu[k]
        BY <1>1, <1>4 DEF StackInv
      <3>2. PICK i \in 0..(c - 1) : fs[i] = k
        BY <1>1, <3>1 DEF StackInv
      <3>3. i \in 0..((c - 1) - 1)
        BY <1>2, <3>1, <3>2, SMTT(30)
      <3> QED
        BY <3>2, <3>3
    <2> HIDE DEF iv, n
    <2> QED
      BY <2>3, <2>4, <2>5, <2>6, <2>7, <2>8 DEF StackInv
  <1> QED
    BY <1>3, <1>4, <1>5, <1>6 DEF PoolInv

\* A slot that is in use is taken back.
LEMMA PoolFree ==
    ASSUME NEW p, NEW h, PoolInv(p, h), NEW n \in h
    PROVE  PoolInv(Freed(p, n), h \ {n})
  <1>1. PICK fs, iu, c : p = CutPool(fs, iu, c) /\ StackInv(fs, iu, c, h)
    BY DEF PoolInv
  <1> DEFINE fv == [fs EXCEPT ![c] = n]
             iv == [iu EXCEPT ![n] = FALSE]
  <1>2. n \in Slots /\ iu[n] /\ h \subseteq Slots
    BY <1>1 DEF StackInv
  <1>3. Cardinality(h \ {n}) = Cardinality(h) - 1 /\ Cardinality(h) \in Nat /\ Cardinality(h) # 0
    <2> DEFINE g == h \ {n}
    <2>1. g \in SUBSET Slots /\ n \in Slots \ g /\ h = g \cup {n}
      BY <1>2
    <2> HIDE DEF g
    <2>2. Cardinality(g) \in Nat /\ Cardinality(g \cup {n}) = Cardinality(g) + 1
      BY <2>1 DEF PoolInv, Countable
    <2> QED
      BY <2>1, <2>2, SMTT(30) DEF g
  <1>4. c \in 0..(Capacity - 1)
    BY <1>1, <1>3, CapacityIs, SMTT(30) DEF StackInv
  <1>5. Freed(p, n) = CutPool(fv, iv, c + 1)
    <2>1. (n - 0) \div 1 = n /\ (n - 0) % 1 = 0 /\ (0 + n) % 1 = 0 /\ n >= 0 /\ n <= Capacity - 1
      BY <1>2, CapacityIs, SMTT(30) DEF Slots
    <2>2. Pool(NewBook)!IndexOf(p, n) = n
      BY <1>1, <2>1 DEF Pool!IndexOf, CutPool, PoolOf
    <2>3. Pool(NewBook)!Accepts(p, n, 1)
      BY <1>1, <1>2, <2>1, <2>2, SMTT(30) DEF Pool!Accepts, CutPool, PoolOf
    <2>4. Freed(p, n) = [p EXCEPT !.in_uses[n] = FALSE, !.free_slots[p.free_count] = n, !.free_count = @ + 1]
      BY <2>2, <2>3 DEF Freed, Pool!Deallocate
    <2> QED
      BY <1>1, <2>4 DEF CutPool, PoolOf
  <1>6. StackInv(fv, iv, c + 1, h \ {n})
    <2>a. c \in Slots
      BY <1>4 DEF Slots
    <2>b. c + 1 \in 0..Capacity
      BY <1>4, CapacityIs, SMTT(30)
    <2>1. fv \in [Slots -> Slots] /\ iv \in [Slots -> BOOLEAN] /\ c + 1 \in 0..Capacity
      BY <1>1, <1>2, <2>a, <2>b DEF StackInv
    <2>2. h \ {n} = {k \in Slots : iv[k]}
      BY <1>1, <1>2 DEF StackInv
    <2>3. (c + 1) + Cardinality(h \ {n}) = Capacity
      BY <1>1, <1>3, <1>4, CapacityIs, SMTT(30) DEF StackInv
    <2>4. \A i \in 0..((c + 1) - 1) : i \in Slots /\ (i = c \/ i \in 0..(c - 1))
      BY <1>4, CapacityIs, SMTT(30) DEF Slots
    <2>5. fv[c] = n /\ \A i \in 0..(c - 1) : fv[i] = fs[i] /\ fs[i] # n /\ ~iu[fs[i]] /\ fs[i] \in Slots
      BY <1>1, <1>2, <1>4, <2>4, SMTT(30) DEF StackInv, Slots
    <2>6. \A i, j \in 0..((c + 1) - 1) : fv[i] = fv[j] => i = j
      BY <1>1, <2>4, <2>5 DEF StackInv
    <2>7. \A i \in 0..((c + 1) - 1) : ~iv[fv[i]]
      BY <1>1, <1>2, <2>4, <2>5 DEF StackInv
    <2>8. \A k \in Slots : ~iv[k] => \E i \in 0..((c + 1) - 1) : fv[i] = k
      <3> SUFFICES ASSUME NEW k \in Slots, ~iv[k] PROVE \E i \in 0..((c + 1) - 1) : fv[i] = k
        OBVIOUS
      <3>1. CASE k = n
        BY <1>4, <2>5, <3>1, SMTT(30)
      <3>2. CASE k # n
        <4>1. PICK i \in 0..(c - 1) : fs[i] = k
          BY <1>1, <3>2 DEF StackInv
        <4>2. i \in 0..((c + 1) - 1) /\ fv[i] = k
          BY <1>4, <2>5, <4>1, SMTT(30)
        <4> QED
          BY <4>2
      <3> QED
        BY <3>1, <3>2
    <2> HIDE DEF iv, fv
    <2> QED
      BY <2>1, <2>2, <2>3, <2>6, <2>7, <2>8 DEF StackInv
  <1> QED
    BY <1>5, <1>6 DEF PoolInv

-----------------------------------------------------------------------------
(* Good books *)

\* A book with these parts is good, and a good book has such parts.
LEMMA PartsGood ==
    ASSUME NEW own, NEW pool, NEW nodes, NEW l, NEW index, Parts(own, pool, nodes, l, index)
    PROVE  Good(Rest(own, pool, nodes, l, index))
  BY DEF Parts, Good

\* A good book is made of parts that agree.
LEMMA GoodParts ==
    ASSUME NEW b, Good(b)
    PROVE  \E own, pool, nodes, l, index :
              Parts(own, pool, nodes, l, index) /\ b = Rest(own, pool, nodes, l, index)
  BY DEF Parts, Good

\* What a call returns with such parts is good.
LEMMA DoneGood ==
    ASSUME NEW own, NEW pool, NEW nodes, NEW l, NEW index, Parts(own, pool, nodes, l, index), NEW r
    PROVE  Good(Done(r, Rest(own, pool, nodes, l, index)).book)
  <1> DEFINE b == Rest(own, pool, nodes, l, index)
  <1>1. Good(b)
    BY PartsGood
  <1> HIDE DEF b
  <1> QED
    BY <1>1 DEF Done, b

\* A call that failed for want of memory leaves the orders as they were.
LEMMA FailsGood ==
    ASSUME NEW own, NEW pool, NEW nodes, NEW l, NEW index, Parts(own, pool, nodes, l, index),
           NEW outcome, Fails(own, nodes, l, index, outcome)
    PROVE  Good(outcome.book)
  <1>1. PICK left : /\ PoolInv(left, DOMAIN nodes)
                    /\ outcome = Done("AllocationFailed", Rest(own, left, nodes, l, index))
    BY DEF Fails
  <1>2. Parts(own, left, nodes, l, index)
    BY <1>1 DEF Parts
  <1> QED
    BY <1>1, <1>2, DoneGood

\* apply(AddOrder)
LEMMA AddGood ==
    ASSUME NEW own, NEW pool, NEW nodes, NEW l, NEW index, Parts(own, pool, nodes, l, index),
           NEW e, NEW outcome, AddAnswers(own, pool, nodes, l, index, e, outcome)
    PROVE  Good(outcome.book)
  <1> DEFINE P == Taken(pool)
             N == Put(nodes, Top(pool), Entry(e))
             m == Longer(l, e, Top(pool))
             places == Put(index, e.order_id, At(e, Top(pool)))
  <1>1. \/ \E r : outcome = Done(r, Rest(own, pool, nodes, l, index))
        \/ Fails(own, nodes, l, index, outcome)
        \/ outcome = Done("Ok", Rest(own, P, N, m, places)) /\ Parts(own, P, N, m, places)
    BY DEF AddAnswers, Added, PartsAdded
  <1> HIDE DEF P, N, m, places
  <1> QED
    BY <1>1, DoneGood, FailsGood

\* A node is erased.
LEMMA LeavesGood ==
    ASSUME NEW own, NEW pool, NEW nodes, NEW l, NEW index, NEW id, NEW k,
           NEW outcome, Leaves(own, pool, nodes, l, index, id, k, outcome)
    PROVE  Good(outcome.book)
  <1> DEFINE P == Freed(pool, index[id].iterator)
             N == Drop(nodes, index[id].iterator)
             m == Shorter(l, index[id].side, index[id].price, k)
             places == Drop(index, id)
  <1>1. l[index[id].side][index[id].price][k] = index[id].iterator
    BY DEF Leaves, Located
  <1>2. outcome = Done("Ok", Rest(own, P, N, m, places)) /\ Parts(own, P, N, m, places)
    BY <1>1 DEF Leaves, Removed, PartsRemoved
  <1> HIDE DEF P, N, m, places
  <1> QED
    BY <1>2, DoneGood

\* apply(CancelOrder)
LEMMA CancelGood ==
    ASSUME NEW own, NEW pool, NEW nodes, NEW l, NEW index, Parts(own, pool, nodes, l, index),
           NEW id, NEW outcome, CancelAnswers(own, pool, nodes, l, index, id, outcome)
    PROVE  Good(outcome.book)
  BY DoneGood, LeavesGood DEF CancelAnswers

\* An order's remaining quantity is set.
LEMMA StaysGood ==
    ASSUME NEW own, NEW pool, NEW nodes, NEW l, NEW index, NEW id, NEW q,
           NEW outcome, Stays(own, pool, nodes, l, index, id, q, outcome)
    PROVE  Good(outcome.book)
  <1> DEFINE N == Resized(nodes, index[id].iterator, q)
  <1>1. outcome = Done("Ok", Rest(own, pool, N, l, index)) /\ Parts(own, pool, N, l, index)
    BY DEF Stays, PartsResized
  <1> HIDE DEF N
  <1> QED
    BY <1>1, DoneGood

\* apply(ExecuteOrder)
LEMMA ExecuteGood ==
    ASSUME NEW own, NEW pool, NEW nodes, NEW l, NEW index, Parts(own, pool, nodes, l, index),
           NEW id, NEW q, NEW outcome, ExecuteAnswers(own, pool, nodes, l, index, id, q, outcome)
    PROVE  Good(outcome.book)
  <1>1. \/ \E r : outcome = Done(r, Rest(own, pool, nodes, l, index))
        \/ \E x : Stays(own, pool, nodes, l, index, id, x, outcome)
        \/ \E k : Leaves(own, pool, nodes, l, index, id, k, outcome)
    BY DEF ExecuteAnswers
  <1> QED
    BY <1>1, DoneGood, StaysGood, LeavesGood

\* An order is queued anew and its old node erased.
LEMMA MovesAwayGood ==
    ASSUME NEW own, NEW pool, NEW nodes, NEW l, NEW index, Parts(own, pool, nodes, l, index),
           NEW e, Valid(e), CanTake(pool), NEW old_id, NEW k,
           NEW outcome, MovesAway(own, pool, nodes, l, index, old_id, e, k, outcome)
    PROVE  Good(outcome.book)
  <1> DEFINE t == Top(pool)
             s == index[old_id].side
             p == index[old_id].price
             n == index[old_id].iterator
             m == Longer(l, e, t)
             P == Freed(Taken(pool), n)
             N == Drop(Put(nodes, t, Entry(e)), n)
             x == Shorter(m, s, p, k)
             places == Reindexed(index, old_id, e, t)
  <1>1. ListsInv(l, nodes) /\ PoolInv(pool, DOMAIN nodes)
    BY DEF Parts
  <1>2. t \in Int
    <2>1. t \in Slots
      BY <1>1, PoolTake DEF CanTake
    <2> HIDE DEF t
    <2> QED
      BY <2>1, CapacityIs, SMTT(30) DEF Slots
  <1>3. Located(m, index, old_id, k)
    BY <1>1, <1>2, StillLocated DEF MovesAway
  <1>4. m[s][p][k] = n
    BY <1>3 DEF Located
  <1>5. outcome = Done("Ok", Rest(own, P, N, x, places)) /\ Parts(own, P, N, x, places)
    BY <1>4 DEF MovesAway, Moved, Removed, PartsMoved
  <1> HIDE DEF P, N, x, places
  <1> QED
    BY <1>5, DoneGood

\* replace
LEMMA ReplaceGood ==
    ASSUME NEW own, NEW pool, NEW nodes, NEW l, NEW index, Parts(own, pool, nodes, l, index),
           NEW old_id, NEW e, NEW keep,
           NEW outcome, ReplaceAnswers(own, pool, nodes, l, index, old_id, e, keep, outcome)
    PROVE  Good(outcome.book)
  <1>1. \/ \E r : outcome = Done(r, Rest(own, pool, nodes, l, index))
        \/ \E q : Stays(own, pool, nodes, l, index, old_id, q, outcome)
        \/ Fails(own, nodes, l, index, outcome)
        \/ /\ Valid(e) /\ CanTake(pool)
           /\ \E k : MovesAway(own, pool, nodes, l, index, old_id, e, k, outcome)
    BY DEF ReplaceAnswers
  <1> QED
    BY <1>1, DoneGood, StaysGood, FailsGood, MovesAwayGood

\* The book that the constructors and a move leave, without orders, is good.
LEMMA BareGood ==
    ASSUME Inductive, NEW own \in BOOLEAN, NEW pool, PoolInv(pool, {})
    PROVE  Good(Bare(own, pool))
  <1> DEFINE l == [s \in Sides |-> [p \in Prices |-> <<>>]]
  <1>1. DOMAIN <<>> = {} /\ Len(<<>>) = 0
    BY SMTT(30)
  <1>2. ListsInv(l, <<>>)
    <2>1. l \in [Sides -> [Prices -> Seq({})]]
      BY SMTT(30)
    <2>2. Once(l)
      BY <1>1, SMTT(30) DEF Once
    <2>3. <<>> \in [{} -> Entries]
      BY SMTT(30)
    <2> HIDE DEF l
    <2> QED
      BY <1>1, <2>1, <2>2, <2>3 DEF ListsInv
  <1>3. IndexInv(l, <<>>, <<>>)
    BY <1>1, SMTT(30) DEF IndexInv
  <1>4. Filled(l) = [s \in Sides |-> {}]
    BY DEF Filled
  <1>5. Levels(Filled(l), l, Sums(l, <<>>)) = [s \in Sides |-> <<>>]
    <2> DEFINE a == Sums(l, <<>>)
    <2> HIDE DEF l, a
    <2> QED
      BY <1>4, SMTT(30) DEF Levels, a
  <1>6. Bare(own, pool) = Rest(own, pool, <<>>, l, <<>>)
    <2> HIDE DEF l
    <2> QED
      BY <1>5 DEF Bare, Rest, Book
  <1>7. Parts(own, pool, <<>>, l, <<>>)
    <2> HIDE DEF l
    <2> QED
      BY <1>1, <1>2, <1>3 DEF Parts
  <1> HIDE DEF l
  <1> QED
    BY <1>6, <1>7, PartsGood

\* A new object, and one that was moved from.
LEMMA NewGood ==
    ASSUME Inductive, Countable
    PROVE  Good(NewBook) /\ Good(MovedFrom)
  <1> DEFINE P == NewBook.pool
  <1>1. PoolInv(P, {})
    BY DEF PoolInv
  <1>2. NewBook = Bare(TRUE, P) /\ MovedFrom = Bare(FALSE, P)
    <2> DEFINE E == Pool([pool |-> 0, nodes |-> <<>>])!EmptyPool
               none == <<>>
               L == [side \in Sides |-> <<>>]
               yes == TRUE
               no == FALSE
    <2>1. NewBook = [owns_pool |-> yes, pool |-> E, nodes |-> none, levels |-> L, orders_by_id |-> none]
      BY DEF NewBook
    <2>2. \A own : Bare(own, P) = [owns_pool |-> own, pool |-> P, nodes |-> none, levels |-> L,
                                  orders_by_id |-> none]
      BY DEF Bare
    <2>3. MovedFrom = [NewBook EXCEPT !.owns_pool = no]
      BY DEF MovedFrom
    <2> HIDE DEF E, none, L, yes, no
    <2>4. P = E
      BY <2>1
    <2> HIDE DEF P
    <2>5. NewBook = Bare(yes, P) /\ MovedFrom = Bare(no, P)
      BY <2>1, <2>2, <2>3, <2>4, SMTT(30)
    <2> QED
      BY <2>5 DEF yes, no
  <1> HIDE DEF P
  <1> QED
    BY <1>1, <1>2, BareGood

\* Clearing the containers frees the nodes one after the other.
LEMMA ClearedIs ==
    ASSUME Inductive, NEW b, NEW freed, Len(freed) \in Nat
    PROVE  \E left : /\ Frees(left, b.pool, freed)
                     /\ Cleared(b, freed) = [b EXCEPT !.pool = left[Len(freed)],
                                                      !.nodes = <<>>,
                                                      !.levels = [side \in Sides |-> <<>>],
                                                      !.orders_by_id = <<>>]
  <1> DEFINE c == Len(freed)
             Next1(f, i) == Pool(b)!Deallocate(f[i - 1], freed[i], Node.bytes)
             Is(f, n) == f = [i \in 0..n |-> IF i = 0 THEN b.pool ELSE Next1(f, i)]
             T == {n \in Nat : \E f : Is(f, n)}
  <1>1. 0 \in T
    <2>1. Is([i \in 0..0 |-> b.pool], 0)
      <3> HIDE DEF Next1
      <3> QED
        BY SMTT(30)
    <2> QED
      BY <2>1
  <1>2. ASSUME NEW n \in Nat, n \in T PROVE n + 1 \in T
    <2>1. PICK f : Is(f, n)
      BY <1>2
    <2> DEFINE D(x, y) == Pool(b)!Deallocate(x, y, Node.bytes)
               g == [i \in 0..(n + 1) |-> IF i <= n THEN f[i] ELSE D(f[n], freed[n + 1])]
    <2>2. Is(g, n + 1)
      <3>1. \A h, i : Next1(h, i) = D(h[i - 1], freed[i])
        OBVIOUS
      <3>2. f = [i \in 0..n |-> IF i = 0 THEN b.pool ELSE D(f[i - 1], freed[i])]
        BY <2>1
      <3> HIDE DEF D
      <3>3. g = [i \in 0..(n + 1) |-> IF i = 0 THEN b.pool ELSE D(g[i - 1], freed[i])]
        BY <3>2, SMTT(30)
      <3> QED
        BY <3>3 DEF D
    <2>3. n + 1 \in Nat
      BY SMTT(30)
    <2> HIDE DEF Is, g
    <2> QED
      BY <2>2, <2>3
  <1>3. \A n \in Nat : n \in T
    <2> HIDE DEF T
    <2> QED
      BY <1>1, <1>2, Induction
  <1> DEFINE left == CHOOSE f : Is(f, c)
  <1>4. Is(left, c)
    <2>1. \E f : Is(f, c)
      <3> HIDE DEF Is
      <3> QED
        BY <1>3
    <2> HIDE DEF Is
    <2> QED
      BY <2>1
  <1>5. Cleared(b, freed) = [b EXCEPT !.pool = left[Len(freed)],
                                      !.nodes = <<>>,
                                      !.levels = [side \in Sides |-> <<>>],
                                      !.orders_by_id = <<>>]
    BY DEF Cleared
  <1>6. Frees(left, b.pool, freed)
    <2> HIDE DEF left
    <2>1. \A i \in 0..c : left[i] = IF i = 0 THEN b.pool ELSE Next1(left, i)
      <3> HIDE DEF Next1
      <3> QED
        BY <1>4
    <2>2. left[0] = b.pool
      <3> HIDE DEF Next1
      <3> QED
        BY <2>1, SMTT(30)
    <2>3. ASSUME NEW i \in 1..c PROVE left[i] = Freed(left[i - 1], freed[i])
      <3>1. left[i] = Next1(left, i)
        <4> HIDE DEF Next1
        <4> QED
          BY <2>1, SMTT(30)
      <3> DEFINE x == left[i - 1]
                 y == freed[i]
      <3>2. Pool(b)!Deallocate(x, y, Node.bytes) = Freed(x, y)
        <4> HIDE DEF x, y
        <4> QED
          BY SamePool
      <3>3. Next1(left, i) = Freed(left[i - 1], freed[i])
        BY <3>2
      <3> HIDE DEF Next1
      <3> QED
        BY <3>1, <3>3
    <2> QED
      BY <2>2, <2>3 DEF Frees
  <1> HIDE DEF left
  <1> QED
    BY <1>5, <1>6

\* Every slot the nodes took is free once they are all freed.
LEMMA AllFreed ==
    ASSUME Inductive, NEW p, NEW h, PoolInv(p, h), h \subseteq Slots, NEW freed \in Orderings(h),
           NEW left, Frees(left, p, freed)
    PROVE  Len(freed) \in Nat /\ PoolInv(left[Len(freed)], {})
  <1> DEFINE c == Cardinality(h)
  <1>1. c \in Nat
    BY DEF PoolInv, Countable
  <1>2. /\ freed \in [1..c -> h]
        /\ \A i, j \in 1..c : freed[i] = freed[j] => i = j
        /\ \A n \in h : \E i \in 1..c : freed[i] = n
    BY DEF Orderings, Bijection, Injection, Surjection, IsInjective
  <1> HIDE DEF c
  <1>3. Len(freed) = c
    BY <1>1, <1>2, IsList
  <1> DEFINE Out(i) == {freed[j] : j \in 1..i}
             T == {i \in Nat : i <= c => PoolInv(left[i], h \ Out(i))}
  <1>4. 0 \in T
    <2>1. h \ Out(0) = h
      BY SMTT(30)
    <2>2. left[0] = p
      BY DEF Frees
    <2> HIDE DEF Out
    <2> QED
      BY <2>1, <2>2
  <1>5. ASSUME NEW n \in Nat, n \in T PROVE n + 1 \in T
    <2> SUFFICES ASSUME n + 1 <= c PROVE PoolInv(left[n + 1], h \ Out(n + 1))
      BY SMTT(30)
    <2> DEFINE x == left[n]
               y == freed[n + 1]
               g == h \ Out(n)
    <2>1. PoolInv(x, g)
      BY <1>1, <1>5, SMTT(30)
    <2>2. n + 1 \in 1..c /\ n + 1 - 1 = n
      BY <1>1, SMTT(30)
    <2>3. y \in g
      BY <1>1, <1>2, <2>2, SMTT(30)
    <2>4. left[n + 1] = Freed(x, y)
      <3>1. left[n + 1] = Freed(left[n + 1 - 1], freed[n + 1])
        BY <1>3, <2>2, SMTT(30) DEF Frees
      <3> QED
        BY <2>2, <3>1
    <2>5. h \ Out(n + 1) = g \ {y}
      BY <1>1, <2>2, SMTT(30)
    <2>6. PoolInv(Freed(x, y), g \ {y})
      <3> HIDE DEF x, y, g
      <3> QED
        BY <2>1, <2>3, PoolFree
    <2> HIDE DEF x, y, g, Out
    <2> QED
      BY <2>4, <2>5, <2>6
  <1>6. \A n \in Nat : n \in T
    <2> HIDE DEF T
    <2> QED
      BY <1>4, <1>5, Induction
  <1>7. PoolInv(left[c], h \ Out(c))
    <2> HIDE DEF Out
    <2> QED
      BY <1>1, <1>6, SMTT(30)
  <1>8. h \ Out(c) = {}
    BY <1>1, <1>2, SMTT(30)
  <1> QED
    BY <1>1, <1>3, <1>7, <1>8

\* reset
LEMMA ClearedGood ==
    ASSUME NEW b, Good(b), NEW freed \in Orderings(DOMAIN b.nodes)
    PROVE  Good(Cleared(b, freed))
  <1>1. PICK own, pool, nodes, l, index :
          Parts(own, pool, nodes, l, index) /\ b = Rest(own, pool, nodes, l, index)
    BY GoodParts
  <1>2. b.pool = pool /\ b.nodes = nodes
    BY <1>1 DEF Rest, Book
  <1>3. PoolInv(pool, DOMAIN nodes) /\ DOMAIN nodes \subseteq Slots /\ own \in BOOLEAN /\ Inductive
    BY <1>1 DEF Parts, ListsInv
  <1>4. Len(freed) \in Nat
    <2> DEFINE c == Cardinality(DOMAIN nodes)
    <2>1. c \in Nat
      BY <1>3 DEF PoolInv, Countable
    <2>2. freed \in [1..c -> DOMAIN nodes]
      BY <1>2 DEF Orderings, Bijection, Injection
    <2> HIDE DEF c
    <2> QED
      BY <2>1, <2>2, IsList
  <1>5. PICK left : /\ Frees(left, b.pool, freed)
                    /\ Cleared(b, freed) = [b EXCEPT !.pool = left[Len(freed)],
                                                     !.nodes = <<>>,
                                                     !.levels = [side \in Sides |-> <<>>],
                                                     !.orders_by_id = <<>>]
    BY <1>3, <1>4, ClearedIs
  <1> DEFINE P == left[Len(freed)]
             none == <<>>
             L == [side \in Sides |-> <<>>]
  <1>6. PoolInv(P, {})
    BY <1>2, <1>3, <1>5, AllFreed
  <1>7. Cleared(b, freed) = Bare(own, P)
    <2>1. Cleared(b, freed) = [b EXCEPT !.pool = P, !.nodes = none, !.levels = L, !.orders_by_id = none]
      BY <1>5
    <2>2. Bare(own, P) = [owns_pool |-> own, pool |-> P, nodes |-> none, levels |-> L,
                          orders_by_id |-> none]
      BY DEF Bare
    <2> HIDE DEF P, none, L
    <2> QED
      BY <1>1, <2>1, <2>2 DEF Rest, Book
  <1> HIDE DEF P
  <1> QED
    BY <1>3, <1>6, <1>7, BareGood

\* A good book is what validate_invariants asks for.
LEMMA GoodIsConsistent ==
    ASSUME NEW b, Good(b)
    PROVE  validate_invariants(b) /\ Queued(b) = DOMAIN b.nodes
  <1>1. PICK own, pool, nodes, l, index :
          Parts(own, pool, nodes, l, index) /\ b = Rest(own, pool, nodes, l, index)
    BY GoodParts
  <1>2. ListsInv(l, nodes) /\ IndexInv(l, nodes, index)
    BY <1>1 DEF Parts
  <1>3. b.nodes = nodes /\ b.orders_by_id = index /\ b.levels = Levels(Filled(l), l, Sums(l, nodes))
    BY <1>1 DEF Rest, Book
  <1>4. ASSUME NEW s \in Sides
        PROVE  /\ DOMAIN b.levels[s] = Filled(l)[s]
               /\ Filled(l)[s] = {p \in Prices : l[s][p] # <<>>}
               /\ \A p \in Filled(l)[s] : /\ b.levels[s][p].orders = l[s][p]
                                          /\ b.levels[s][p].aggregate_quantity = Sums(l, nodes)[s][p]
    BY <1>3, SMTT(30) DEF Levels, Filled
  <1>5. ASSUME NEW s \in Sides, NEW p \in Prices
        PROVE  /\ DOMAIN l[s][p] = 1..Len(l[s][p])
               /\ \A i \in 1..Len(l[s][p]) : l[s][p][i] \in DOMAIN nodes
               /\ Sums(l, nodes)[s][p] = ListSum(Sizes(nodes, l[s][p]))
    BY <1>2, ListFacts DEF Sums
  <1>6. ASSUME NEW n \in DOMAIN nodes
        PROVE  nodes[n].remaining_quantity # 0 /\ nodes[n].order_id \in DOMAIN index
               /\ index[nodes[n].order_id].iterator = n
    BY <1>2 DEF ListsInv, Entries, IndexInv
  <1>7. ASSUME NEW s \in Sides, NEW p \in Prices, NEW i \in 1..Len(l[s][p])
        PROVE  index[nodes[l[s][p][i]].order_id] = [side |-> s, price |-> p, iterator |-> l[s][p][i]]
    <2>1. IndexedAt(l, nodes, index, s, p, i)
      BY <1>2, Indexed
    <2> QED
      BY <2>1 DEF IndexedAt
  <1>8. Queued(b) = DOMAIN nodes
    <2>1. ASSUME NEW n \in Queued(b) PROVE n \in DOMAIN nodes
      <3>1. PICK at \in Sides \X (1..MaxPrice) : /\ at[2] \in DOMAIN b.levels[at[1]]
                                                 /\ n \in Range(b.levels[at[1]][at[2]].orders)
        BY <2>1 DEF Queued
      <3> DEFINE s == at[1]
                 p == at[2]
      <3>2. s \in Sides /\ p \in Prices
        BY <3>1 DEF Prices
      <3>3. n \in Range(l[s][p])
        BY <1>4, <3>1, <3>2, SMTT(30)
      <3> QED
        BY <1>5, <3>2, <3>3, SMTT(30) DEF Range
    <2>2. ASSUME NEW n \in DOMAIN nodes PROVE n \in Queued(b)
      <3> DEFINE at == index[nodes[n].order_id]
                 s == at.side
                 p == at.price
      <3>1. nodes[n].order_id \in DOMAIN index /\ at.iterator = n
        BY <1>6
      <3>2. s \in Sides /\ p \in Prices /\ In(n, l, s, p)
        BY <1>2, <3>1 DEF IndexInv
      <3> HIDE DEF s, p
      <3>3. PICK i \in 1..Len(l[s][p]) : l[s][p][i] = n
        BY <3>2 DEF In
      <3>4. n \in Range(l[s][p]) /\ l[s][p] # <<>>
        BY <1>5, <3>2, <3>3, SMTT(30) DEF Range
      <3>5. p \in DOMAIN b.levels[s] /\ b.levels[s][p].orders = l[s][p]
        BY <1>4, <3>2, <3>4
      <3> DEFINE place == <<s, p>>
      <3>6. place \in Sides \X (1..MaxPrice) /\ place[1] = s /\ place[2] = p
        BY <3>2 DEF Prices
      <3> HIDE DEF place
      <3>7. place[2] \in DOMAIN b.levels[place[1]] /\ n \in Range(b.levels[place[1]][place[2]].orders)
        BY <3>4, <3>5, <3>6
      <3> QED
        BY <3>6, <3>7 DEF Queued
    <2> QED
      BY <2>1, <2>2
  <1>9. {b.nodes[n].order_id : n \in Queued(b)} = DOMAIN b.orders_by_id
    BY <1>2, <1>3, <1>8, SMTT(30) DEF IndexInv
  <1>10. ASSUME NEW s \in Sides, NEW p \in DOMAIN b.levels[s]
         PROVE  LET level == b.levels[s][p] IN
                /\ p # 0 /\ level.orders # <<>>
                /\ \A i \in DOMAIN level.orders :
                      LET entry == b.nodes[level.orders[i]] IN
                      /\ entry.remaining_quantity # 0
                      /\ entry.order_id \in DOMAIN b.orders_by_id
                      /\ b.orders_by_id[entry.order_id] =
                            [side |-> s, price |-> p, iterator |-> level.orders[i]]
                /\ level.aggregate_quantity = Aggregate(b, level.orders)
    <2>1. p \in Prices /\ l[s][p] # <<>> /\ b.levels[s][p].orders = l[s][p]
          /\ b.levels[s][p].aggregate_quantity = Sums(l, nodes)[s][p]
      BY <1>4, SMTT(30)
    <2>2. p # 0
      BY <2>1, CapacityIs, SMTT(30) DEF Prices
    <2>3. b.levels[s][p].aggregate_quantity = Aggregate(b, b.levels[s][p].orders)
      BY <1>3, <1>5, <2>1 DEF Aggregate, Sizes
    <2>4. ASSUME NEW i \in DOMAIN l[s][p]
          PROVE  /\ nodes[l[s][p][i]].remaining_quantity # 0
                 /\ nodes[l[s][p][i]].order_id \in DOMAIN index
                 /\ index[nodes[l[s][p][i]].order_id] = [side |-> s, price |-> p, iterator |-> l[s][p][i]]
      <3>1. i \in 1..Len(l[s][p]) /\ l[s][p][i] \in DOMAIN nodes
        BY <1>5, <2>1
      <3> QED
        BY <1>6, <1>7, <2>1, <3>1
    <2> QED
      BY <1>3, <2>1, <2>2, <2>3, <2>4
  <1> QED
    BY <1>3, <1>8, <1>9, <1>10 DEF validate_invariants

\* The slots of a good book's nodes are the ones its pool has handed out.
LEMMA GoodIsPooled ==
    ASSUME NEW b, Good(b)
    PROVE  Pool(b)!TypeOK /\ Pool(b)!FreeOrHeld
  <1>0. \A S : Pool(b)!Cardinality(S) = Cardinality(S)
    BY DEF Pool!Cardinality, Cardinality
  <1>1. PICK own, pool, nodes, l, index :
          Parts(own, pool, nodes, l, index) /\ b = Rest(own, pool, nodes, l, index)
    BY GoodParts
  <1>2. b.pool = pool /\ b.nodes = nodes
    BY <1>1 DEF Rest, Book
  <1> DEFINE h == DOMAIN nodes
  <1>3. PoolInv(pool, h)
    BY <1>1 DEF Parts
  <1>4. CASE pool = NewBook.pool /\ h = {}
    <2> DEFINE E == Pool(b)!EmptyPool
    <2>1. pool = E
      BY <1>4 DEF NewBook, Pool!EmptyPool
    <2>2. Pool(b)!TypeOK
      BY <1>2, <1>4, <2>1 DEF Pool!TypeOK, Pool!EmptyPool
    <2>3. pool.free_count = 0 /\ pool.in_uses = <<>>
      BY <2>1 DEF Pool!EmptyPool
    <2>4. Cardinality({}) = 0 /\ DOMAIN <<>> = {}
      BY <1>3, SMTT(30) DEF PoolInv, Countable
    <2>5. 0..(0 - 1) = {} /\ 0 + 0 = 0
      BY SMTT(30)
    <2> HIDE DEF h
    <2>6. Pool(b)!FreeStarts(pool) = {} /\ Pool(b)!AllStarts(pool) = {}
      BY <2>3, <2>4, <2>5 DEF Pool!FreeStarts, Pool!AllStarts
    <2>7. Pool(b)!FreeOrHeld
      BY <1>0, <1>2, <1>4, <2>3, <2>4, <2>5, <2>6 DEF Pool!FreeOrHeld, h
    <2> QED
      BY <2>2, <2>7
  <1>5. ASSUME NEW fs, NEW iu, NEW c, pool = CutPool(fs, iu, c), StackInv(fs, iu, c, h)
        PROVE  Pool(b)!TypeOK /\ Pool(b)!FreeOrHeld
    <2>1. /\ pool.first_init = TRUE /\ pool.free_slots = fs /\ pool.in_uses = iu /\ pool.free_count = c
          /\ pool.slot_sz = 1 /\ pool.slot_alignment = 1 /\ pool.first_valid_start = 0
          /\ pool.last_valid_start = Capacity - 1
      BY <1>5 DEF CutPool, PoolOf
    <2>2. fs \in [Slots -> Slots] /\ iu \in [Slots -> BOOLEAN] /\ c \in 0..Capacity
          /\ h \subseteq Slots /\ Capacity \in Nat \ {0}
      BY <1>5, CapacityIs DEF StackInv
    <2>3. Cardinality(Slots) = Capacity
      BY <1>3 DEF PoolInv, Countable
    <2>4. Pool(b)!FreeStarts(pool) = {fs[i] : i \in 0..(c - 1)}
      BY <2>1 DEF Pool!FreeStarts
    <2>5. Pool(b)!AllStarts(pool) = Slots
      <3>1. \A i \in Slots : 0 + i * 1 = i
        BY <2>2, SMTT(30) DEF Slots
      <3>2. DOMAIN iu = Slots
        BY <2>2
      <3> QED
        BY <2>1, <3>1, <3>2, SMTT(30) DEF Pool!AllStarts
    <2>6. Pool(b)!FreeOrHeld
      <3>1. {fs[i] : i \in 0..(c - 1)} \cap h = {}
        BY <1>5, SMTT(30) DEF StackInv
      <3>2. {fs[i] : i \in 0..(c - 1)} \cup h = Slots
        <4>1. 0..(c - 1) \subseteq Slots
          BY <2>2, SMTT(30) DEF Slots
        <4> QED
          BY <1>5, <2>2, <4>1, SMTT(30) DEF StackInv
      <3>3. c + Cardinality(h) = Cardinality(DOMAIN iu)
        BY <1>5, <2>2, <2>3 DEF StackInv
      <3> QED
        BY <1>0, <1>2, <2>1, <2>4, <2>5, <3>1, <3>2, <3>3 DEF Pool!FreeOrHeld
    <2>7. Pool(b)!TypeOK
      <3>1. Pool(b)!Padding(Node) = 0
        BY SMTT(30) DEF Pool!Padding, Node
      <3>2. Pool(b)!SlotCount(Node) = Capacity
        BY <2>2, <3>1, SMTT(30) DEF Pool!SlotCount, Node
      <3>3. Pool(b)!Fits(Node)
        BY <2>2, <3>1, SMTT(30) DEF Pool!Fits, Node
      <3>a. Pool(b)!StartsFor(Node) = Slots
        <4>1. \A i \in Slots : 0 + i * Node.bytes = i
          BY <2>2, SMTT(30) DEF Slots, Node
        <4> HIDE DEF Slots
        <4> QED
          BY <3>1, <3>2, <4>1, SMTT(30) DEF Pool!StartsFor, Slots
      <3>4. pool \in Pool(b)!PoolsFor(Node)
        <4> DEFINE t == TRUE
                   y == Capacity - 1
        <4>1. Node.bytes = 1 /\ Node.alignment = 1 /\ 0 + (Capacity - 1) * 1 = y
          BY <2>2, SMTT(30) DEF Node
        <4>2. pool = [first_init |-> t, free_slots |-> fs, in_uses |-> iu, free_count |-> c, slot_sz |-> 1,
                      slot_alignment |-> 1, first_valid_start |-> 0, last_valid_start |-> y]
          BY <1>5 DEF CutPool, PoolOf
        <4>3. Pool(b)!PoolsFor(Node) =
                 [first_init : {t}, free_slots : [Slots -> Slots], in_uses : [Slots -> BOOLEAN],
                  free_count : 0..Capacity, slot_sz : {1}, slot_alignment : {1},
                  first_valid_start : {0}, last_valid_start : {y}]
          BY <3>1, <3>2, <3>a, <4>1 DEF Pool!PoolsFor, Slots
        <4> HIDE DEF t, y
        <4> QED
          BY <2>2, <4>2, <4>3
      <3>5. h \subseteq Pool(b)!StartsFor(Node)
        BY <2>2, <3>1, <3>2, SMTT(30) DEF Pool!StartsFor, Node, Slots
      <3>6. Node.bytes # 0
        BY SMTT(30) DEF Node
      <3> HIDE DEF h
      <3> QED
        BY <1>2, <3>3, <3>4, <3>5, <3>6 DEF Pool!TypeOK, h
    <2> QED
      BY <2>6, <2>7
  <1> QED
    BY <1>3, <1>4, <1>5 DEF PoolInv

-----------------------------------------------------------------------------
(* The queues of a book made of these lists and nodes *)

Item(x) == [order_id |-> x.order_id, quantity |-> x.remaining_quantity]

Queue(nodes, q) == [i \in DOMAIN q |-> Item(nodes[q[i]])]

View(l, nodes) == [s \in Sides |-> [p \in Prices |-> Queue(nodes, l[s][p])]]

\* The two modules mean the same sides, prices and lists.
LEMMA SameNames ==
    /\ Abstract!Sides = Sides /\ Abstract!Prices = Prices
    /\ \A q, k : Abstract!Erased(q, k) = Erased(q, k)
    /\ \A q : Abstract!Range(q) = Range(q)
    /\ Abstract!AddOrders = AddOrders
  BY SMTT(30) DEF Abstract!Sides, Sides, Abstract!Prices, Prices, Abstract!Erased, Erased,
         Abstract!Range, Range, Abstract!AddOrders, AddOrders

\* What a book holds is seen in its lists.
LEMMA ContentsIs ==
    ASSUME NEW own, NEW pool, NEW nodes, NEW l, NEW index, ListsInv(l, nodes)
    PROVE  Contents(Rest(own, pool, nodes, l, index)) = View(l, nodes)
  <1> DEFINE b == Rest(own, pool, nodes, l, index)
             At1(s, p) == IF p \notin DOMAIN b.levels[s] THEN <<>>
                          ELSE LET orders == b.levels[s][p].orders
                               IN  [i \in DOMAIN orders |->
                                      [order_id |-> b.nodes[orders[i]].order_id,
                                       quantity |-> b.nodes[orders[i]].remaining_quantity]]
  <1>1. b.nodes = nodes /\ b.levels = Levels(Filled(l), l, Sums(l, nodes))
    BY DEF Rest, Book
  <1>2. ASSUME NEW s \in Sides, NEW p \in Prices
        PROVE  At1(s, p) = Queue(nodes, l[s][p])
    <2>1. DOMAIN b.levels[s] = Filled(l)[s] /\ (p \in Filled(l)[s] <=> l[s][p] # <<>>)
      BY <1>1, SMTT(30) DEF Levels, Filled
    <2>2. CASE l[s][p] = <<>>
      <3>1. Queue(nodes, <<>>) = <<>>
        BY SMTT(30) DEF Queue
      <3> HIDE DEF b
      <3> QED
        BY <2>1, <2>2, <3>1
    <2>3. CASE l[s][p] # <<>>
      <3>1. b.levels[s][p].orders = l[s][p]
        BY <1>1, <2>1, <2>3, SMTT(30) DEF Levels
      <3> HIDE DEF b
      <3> QED
        BY <1>1, <2>1, <2>3, <3>1 DEF Queue, Item
    <2> QED
      BY <2>2, <2>3
  <1>3. Contents(b) = [s \in Sides |-> [p \in Prices |-> At1(s, p)]]
    <2> HIDE DEF b
    <2> QED
      BY DEF Contents, Prices
  <1> HIDE DEF b, At1
  <1>4. [s \in Sides |-> [p \in Prices |-> At1(s, p)]] = View(l, nodes)
    BY <1>2 DEF View
  <1> QED
    BY <1>3, <1>4 DEF b

\* Reading a queue.
LEMMA ViewIs ==
    ASSUME NEW l, NEW nodes, ListsInv(l, nodes), NEW s \in Sides, NEW p \in Prices
    PROVE  /\ View(l, nodes)[s][p] = Queue(nodes, l[s][p])
           /\ DOMAIN View(l, nodes)[s][p] = 1..Len(l[s][p])
           /\ \A i \in 1..Len(l[s][p]) :
                 /\ View(l, nodes)[s][p][i] = Item(nodes[l[s][p][i]])
                 /\ View(l, nodes)[s][p][i].order_id = nodes[l[s][p][i]].order_id
                 /\ View(l, nodes)[s][p][i].quantity = nodes[l[s][p][i]].remaining_quantity
  <1>1. View(l, nodes)[s][p] = Queue(nodes, l[s][p])
    BY DEF View
  <1>2. DOMAIN l[s][p] = 1..Len(l[s][p])
    BY ListFacts
  <1>3. DOMAIN Queue(nodes, l[s][p]) = 1..Len(l[s][p])
        /\ \A i \in 1..Len(l[s][p]) : Queue(nodes, l[s][p])[i] = Item(nodes[l[s][p][i]])
    BY <1>2 DEF Queue
  <1> QED
    BY <1>1, <1>3, SMTT(30) DEF Item

\* The orders queued at a price are the ones the index places there.
LEMMA IdsAtIs ==
    ASSUME NEW l, NEW nodes, NEW index, ListsInv(l, nodes), IndexInv(l, nodes, index),
           NEW s \in Sides, NEW p \in Prices
    PROVE  Abstract!IdsAt(View(l, nodes), s, p)
             = {id \in DOMAIN index : index[id].side = s /\ index[id].price = p}
  <1> DEFINE V == View(l, nodes)
  <1>1. Abstract!IdsAt(V, s, p) = {nodes[l[s][p][i]].order_id : i \in 1..Len(l[s][p])}
    <2>1. Abstract!IdsAt(V, s, p) = {V[s][p][i].order_id : i \in DOMAIN V[s][p]}
      BY DEF Abstract!IdsAt
    <2>2. DOMAIN V[s][p] = 1..Len(l[s][p])
          /\ \A i \in 1..Len(l[s][p]) : V[s][p][i].order_id = nodes[l[s][p][i]].order_id
      BY ViewIs, SMTT(30)
    <2> HIDE DEF V
    <2> QED
      BY <2>1, <2>2, SMTT(30)
  <1>2. ASSUME NEW i \in 1..Len(l[s][p])
        PROVE  LET id == nodes[l[s][p][i]].order_id
               IN  id \in DOMAIN index /\ index[id].side = s /\ index[id].price = p
    <2> DEFINE n == l[s][p][i]
               at == index[nodes[n].order_id]
    <2>1. nodes[n].order_id \in DOMAIN index /\ at = [side |-> s, price |-> p, iterator |-> n]
      <3>1. IndexedAt(l, nodes, index, s, p, i)
        BY Indexed
      <3> QED
        BY <3>1 DEF IndexedAt
    <2> HIDE DEF at
    <2>2. at.side = s /\ at.price = p
      BY <2>1
    <2> QED
      BY <2>1, <2>2 DEF at
  <1>3. ASSUME NEW id \in DOMAIN index, index[id].side = s, index[id].price = p
        PROVE  \E i \in 1..Len(l[s][p]) : nodes[l[s][p][i]].order_id = id
    <2>1. PICK k : Located(l, index, id, k)
      BY LocatedIs
    <2>2. k \in 1..Len(l[s][p]) /\ l[s][p][k] = index[id].iterator
      BY <1>3, <2>1 DEF Located
    <2>3. nodes[index[id].iterator].order_id = id
      BY DEF IndexInv
    <2> QED
      BY <2>2, <2>3
  <1> DEFINE Y == 1..Len(l[s][p])
             O(i) == nodes[l[s][p][i]].order_id
             Here(id) == index[id].side = s /\ index[id].price = p
  <1>4. /\ Abstract!IdsAt(V, s, p) = {O(i) : i \in Y}
        /\ \A i \in Y : O(i) \in DOMAIN index /\ Here(O(i))
        /\ \A id \in DOMAIN index : Here(id) => \E i \in Y : O(i) = id
    BY <1>1, <1>2, <1>3
  <1> HIDE DEF V, Y, O, Here
  <1>5. Abstract!IdsAt(V, s, p) = {id \in DOMAIN index : Here(id)}
    BY <1>4
  <1> QED
    BY <1>5 DEF V, Here

\* The ids of the queues are the ids of the index.
LEMMA IdsAre ==
    ASSUME NEW l, NEW nodes, NEW index, ListsInv(l, nodes), IndexInv(l, nodes, index)
    PROVE  Abstract!Ids(View(l, nodes)) = DOMAIN index
  <1> DEFINE V == View(l, nodes)
             W(s, p) == Abstract!IdsAt(V, s, p)
  <1>1. Abstract!Ids(V) = UNION {W(s, p) : s \in Sides, p \in Prices}
    BY SameNames, SMTT(30) DEF Abstract!Ids
  <1>2. \A s \in Sides, p \in Prices :
           W(s, p) = {id \in DOMAIN index : index[id].side = s /\ index[id].price = p}
    BY IdsAtIs, SMTT(30)
  <1>3. \A id \in DOMAIN index : index[id].side \in Sides /\ index[id].price \in Prices
    BY DEF IndexInv
  <1> HIDE DEF V, W
  <1>4. ASSUME NEW id \in Abstract!Ids(V) PROVE id \in DOMAIN index
    BY <1>1, <1>2, SMTT(30)
  <1>5. ASSUME NEW id \in DOMAIN index PROVE id \in Abstract!Ids(V)
    <2> DEFINE s == index[id].side
               p == index[id].price
    <2>1. s \in Sides /\ p \in Prices
      BY <1>3
    <2>2. id \in W(s, p)
      BY <1>2, <2>1
    <2> HIDE DEF s, p
    <2> QED
      BY <1>1, <2>1, <2>2, SMTT(30)
  <1>6. Abstract!Ids(V) = DOMAIN index
    BY <1>4, <1>5
  <1> QED
    BY <1>6 DEF V

\* The order id is the k-th in the queue at this side and price, and nowhere else.
Found(V, id, s, p, k) ==
    /\ Abstract!Place(V, id) = <<s, p>>
    /\ k \in DOMAIN V[s][p]
    /\ \A i \in DOMAIN V[s][p] : V[s][p][i].order_id = id <=> i = k

\* The index finds an order where its queue has it.
LEMMA FoundIs ==
    ASSUME NEW l, NEW nodes, NEW index, ListsInv(l, nodes), IndexInv(l, nodes, index),
           NEW id \in DOMAIN index, NEW k, Located(l, index, id, k)
    PROVE  Found(View(l, nodes), id, index[id].side, index[id].price, k)
  <1> DEFINE V == View(l, nodes)
             s == index[id].side
             p == index[id].price
             n == index[id].iterator
  <1>1. s \in Sides /\ p \in Prices /\ k \in 1..Len(l[s][p]) /\ l[s][p][k] = n
    BY DEF Located
  <1>2. Abstract!Place(V, id) = <<s, p>>
    <2> DEFINE Has(at) == id \in Abstract!IdsAt(V, at[1], at[2])
    <2>1. ASSUME NEW t \in Sides, NEW r \in Prices
          PROVE  id \in Abstract!IdsAt(V, t, r) <=> t = s /\ r = p
      BY IdsAtIs, SMTT(30)
    <2>2. <<s, p>> \in Sides \X Prices /\ Has(<<s, p>>)
      <3> HIDE DEF V, s, p
      <3> QED
        BY <1>1, <2>1
    <2>3. ASSUME NEW at \in Sides \X Prices, Has(at)
          PROVE  at = <<s, p>>
      <3> HIDE DEF V, s, p
      <3>1. at[1] = s /\ at[2] = p /\ at = <<at[1], at[2]>>
        BY <2>1, <2>3, SMTT(30)
      <3> QED
        BY <3>1
    <2>4. Abstract!Place(V, id) = CHOOSE at \in Sides \X Prices : Has(at)
      BY SameNames DEF Abstract!Place
    <2> HIDE DEF Has, V, s, p
    <2> QED
      BY <2>2, <2>3, <2>4
  <1>3. DOMAIN V[s][p] = 1..Len(l[s][p])
        /\ \A i \in 1..Len(l[s][p]) : V[s][p][i].order_id = nodes[l[s][p][i]].order_id
    <2> HIDE DEF s, p
    <2> QED
      BY <1>1, ViewIs, SMTT(30)
  <1>4. nodes[n].order_id = id
    BY LocatedIs, SMTT(30)
  <1>5. ASSUME NEW i \in 1..Len(l[s][p]), nodes[l[s][p][i]].order_id = id PROVE i = k
    <2> DEFINE x == l[s][p][i]
    <2>1. x \in DOMAIN nodes
      <3> HIDE DEF s, p
      <3> QED
        BY <1>1, ListFacts
    <2>2. index[nodes[x].order_id].iterator = x
      <3> HIDE DEF x
      <3> QED
        BY <2>1 DEF IndexInv
    <2>3. x = l[s][p][k]
      BY <1>1, <1>5, <2>2
    <2>4. Once(l)
      BY DEF ListsInv
    <2> HIDE DEF s, p
    <2> QED
      BY <1>1, <2>3, <2>4, SMTT(30) DEF Once
  <1> HIDE DEF V, s, p, n
  <1>6. Found(V, id, s, p, k)
    BY <1>1, <1>2, <1>3, <1>4, <1>5 DEF Found
  <1> QED
    BY <1>6 DEF V, s, p

\* What order(id) returns.
LEMMA OrderIs ==
    ASSUME NEW V, NEW id, NEW s, NEW p, NEW k, Found(V, id, s, p, k)
    PROVE  Abstract!Order(V, id) = [order_id |-> id, side |-> s, price |-> p, quantity |-> V[s][p][k].quantity]
  <1> DEFINE W == V[s][p]
             entry == CHOOSE e \in Range(W) : e.order_id = id
  <1>1. Abstract!Place(V, id)[1] = s /\ Abstract!Place(V, id)[2] = p
    BY SMTT(30) DEF Found
  <1>2. k \in DOMAIN W /\ \A i \in DOMAIN W : W[i].order_id = id <=> i = k
    BY DEF Found
  <1>3. W[k] \in Range(W) /\ W[k].order_id = id
    <2> HIDE DEF W
    <2> QED
      BY <1>2 DEF Range
  <1>4. \A e \in Range(W) : e.order_id = id => e = W[k]
    <2> HIDE DEF W
    <2> QED
      BY <1>2 DEF Range
  <1>5. entry = W[k]
    <2> HIDE DEF W
    <2> QED
      BY <1>3, <1>4
  <1>6. Abstract!Order(V, id) = [order_id |-> id, side |-> s, price |-> p, quantity |-> entry.quantity]
    BY <1>1, SameNames DEF Abstract!Order
  <1> QED
    BY <1>5, <1>6

\* An order that leaves its queue.
LEMMA DequeueIs ==
    ASSUME NEW V, NEW id, NEW s, NEW p, NEW k, Found(V, id, s, p, k)
    PROVE  Abstract!Dequeue(V, id) = Set(V, s, p, Erased(V[s][p], k))
  <1> DEFINE W == V[s][p]
             j == CHOOSE i \in DOMAIN W : W[i].order_id = id
  <1>1. Abstract!Place(V, id)[1] = s /\ Abstract!Place(V, id)[2] = p
    BY SMTT(30) DEF Found
  <1>2. j = k
    <2> HIDE DEF W
    <2> QED
      BY DEF Found, W
  <1>3. Abstract!Dequeue(V, id) = [V EXCEPT ![s][p] = Erased(W, j)]
    BY <1>1, SameNames DEF Abstract!Dequeue
  <1> HIDE DEF j
  <1> QED
    BY <1>2, <1>3 DEF Set

\* An order whose quantity changes in place.
Altered(W, k, q) == [i \in DOMAIN W |-> IF i = k THEN [W[i] EXCEPT !.quantity = q] ELSE W[i]]

\* SetQuantity alters the entry where the order is found.
LEMMA SetQuantityIs ==
    ASSUME NEW V, NEW id, NEW s, NEW p, NEW k, Found(V, id, s, p, k), NEW q
    PROVE  Abstract!SetQuantity(V, id, q) = Set(V, s, p, Altered(V[s][p], k, q))
  <1> DEFINE W == V[s][p]
             X == [i \in DOMAIN W |-> IF W[i].order_id = id THEN [W[i] EXCEPT !.quantity = q] ELSE W[i]]
  <1>1. Abstract!Place(V, id)[1] = s /\ Abstract!Place(V, id)[2] = p
    BY SMTT(30) DEF Found
  <1>2. \A i \in DOMAIN W : W[i].order_id = id <=> i = k
    BY DEF Found
  <1>3. X = Altered(W, k, q)
    <2> HIDE DEF W
    <2> QED
      BY <1>2 DEF Altered
  <1>4. Abstract!SetQuantity(V, id, q) = [V EXCEPT ![s][p] = X]
    BY <1>1 DEF Abstract!SetQuantity
  <1> HIDE DEF X
  <1> QED
    BY <1>3, <1>4 DEF Set

\* A view changes where the lists and the nodes in them change.
LEMMA ViewSet ==
    ASSUME NEW l, NEW nodes, NEW m, NEW more, NEW s \in Sides, NEW p \in Prices,
           Elsewhere(l, nodes, m, more, s, p)
    PROVE  View(m, more) = Set(View(l, nodes), s, p, Queue(more, m[s][p]))
  <1>1. ASSUME NEW t \in Sides, NEW r \in Prices, t # s \/ r # p
        PROVE  Queue(more, m[t][r]) = Queue(nodes, l[t][r])
    BY <1>1, SMTT(30) DEF Queue, Elsewhere
  <1> DEFINE Q(t, r) == Queue(nodes, l[t][r])
             R(t, r) == Queue(more, m[t][r])
  <1>2. View(m, more) = [t \in Sides |-> [r \in Prices |-> R(t, r)]]
        /\ View(l, nodes) = [t \in Sides |-> [r \in Prices |-> Q(t, r)]]
    BY DEF View
  <1>3. \A t \in Sides, r \in Prices : t # s \/ r # p => R(t, r) = Q(t, r)
    BY <1>1
  <1> HIDE DEF Q, R
  <1>4. View(m, more) = Set(View(l, nodes), s, p, R(s, p))
    BY <1>2, <1>3, SMTT(30) DEF Set
  <1> QED
    BY <1>4 DEF R

\* Queueing a new node is Enqueue.
LEMMA EnqueueView ==
    ASSUME NEW l, NEW nodes, ListsInv(l, nodes), NEW e, Valid(e), NEW n, n \notin DOMAIN nodes
    PROVE  View(Longer(l, e, n), Put(nodes, n, Entry(e))) = Abstract!Enqueue(View(l, nodes), e)
  <1> DEFINE s == e.side
             p == e.price
             q == l[s][p]
             m == Longer(l, e, n)
             more == Put(nodes, n, Entry(e))
             V == View(l, nodes)
             item == [order_id |-> e.order_id, quantity |-> e.quantity]
  <1>1. s \in Sides /\ p \in Prices
    BY DEF Valid
  <1>2. q \in Seq(DOMAIN nodes) /\ Len(q) \in Nat
        /\ \A i \in 1..Len(q) : q[i] \in DOMAIN nodes
    BY <1>1, ListFacts
  <1>3. l \in [Sides -> [Prices -> Seq(DOMAIN nodes)]]
    BY DEF ListsInv
  <1>4. m[s][p] = Append(q, n) /\ \A t \in Sides, r \in Prices : (t # s \/ r # p) => m[t][r] = l[t][r]
    <2> DEFINE v == Append(q, n)
    <2>1. m = Set(l, s, p, v)
      BY DEF Longer
    <2> HIDE DEF v, m, s, p
    <2>2. m[s][p] = v /\ \A t \in Sides, r \in Prices : (t # s \/ r # p) => m[t][r] = l[t][r]
      BY <1>1, <1>3, <2>1 DEF Set
    <2> QED
      BY <2>2 DEF v
  <1>5. more[n] = Entry(e) /\ \A x \in DOMAIN nodes : more[x] = nodes[x]
    BY DEF Put
  <1>6. Elsewhere(l, nodes, m, more, s, p)
    <2>1. \A t \in Sides, r \in Prices : \A i \in DOMAIN l[t][r] : l[t][r][i] \in DOMAIN nodes
      BY ListFacts
    <2> HIDE DEF m, more, s, p
    <2> QED
      BY <1>4, <1>5, <2>1 DEF Elsewhere
  <1>7. View(m, more) = Set(V, s, p, Queue(more, m[s][p]))
    <2> HIDE DEF m, more, s, p
    <2> QED
      BY <1>1, <1>6, ViewSet, SMTT(30)
  <1>8. V[s][p] = Queue(nodes, q) /\ DOMAIN q = 1..Len(q)
    BY <1>1, ViewIs, ListFacts, SMTT(30)
  <1>9. Item(Entry(e)) = item
    BY DEF Item, Entry
  <1>10. Queue(more, Append(q, n)) = Append(Queue(nodes, q), item)
    <2> DEFINE w == Append(q, n)
               Q == Queue(nodes, q)
               R == Queue(more, w)
    <2>1. Len(w) = Len(q) + 1 /\ DOMAIN w = 1..(Len(q) + 1) /\ w[Len(q) + 1] = n
          /\ \A i \in 1..Len(q) : w[i] = q[i]
      <3> HIDE DEF q
      <3> QED
        BY <1>2, Appended, SMTT(30)
    <2>2. DOMAIN Q = 1..Len(q) /\ \A i \in 1..Len(q) : Q[i] = Item(nodes[q[i]])
      <3> HIDE DEF q
      <3> QED
        BY <1>8 DEF Queue
    <2>3. R = [i \in 1..(Len(q) + 1) |-> Item(more[w[i]])]
      <3> HIDE DEF w, more
      <3> QED
        BY <2>1 DEF Queue
    <2>4. Q \in Seq({Q[i] : i \in 1..Len(q)}) /\ Len(Q) = Len(q)
      <3> DEFINE S == {Q[i] : i \in 1..Len(q)}
                 c == Len(q)
      <3>1. c \in Nat /\ Q \in [1..c -> S]
        <4> HIDE DEF q
        <4>1. Q = [i \in 1..c |-> Q[i]]
          BY <2>2, <1>8 DEF Queue
        <4> HIDE DEF Q
        <4> QED
          BY <1>2, <2>2, <4>1
      <3> HIDE DEF Q, S, c
      <3>2. Q \in Seq(S) /\ Len(Q) = c
        BY <3>1, IsList
      <3> QED
        BY <3>2 DEF S, c
    <2> DEFINE c == Len(q)
    <2>5. Append(Q, item) = [i \in 1..(c + 1) |-> IF i <= c THEN Q[i] ELSE item]
      <3> DEFINE S == {Q[i] : i \in 1..Len(q)}
                 it == item
      <3>1. Q \in Seq(S) /\ Len(Q) = c
        BY <2>4
      <3> HIDE DEF Q, S, c, it
      <3>2. Q \in Seq(S \cup {it}) /\ it \in S \cup {it} /\ c \in Nat
        BY <3>1, SMTT(30)
      <3> DEFINE A == Append(Q, it)
      <3>3. A \in Seq(S \cup {it}) /\ Len(A) = c + 1 /\ A[c + 1] = it
            /\ \A i \in 1..c : A[i] = Q[i]
        BY <3>1, <3>2, Appended, SMTT(30)
      <3> HIDE DEF A
      <3>4. A = [i \in 1..(c + 1) |-> A[i]]
        BY <3>3, SMTT(30)
      <3>5. \A i \in 1..(c + 1) : A[i] = IF i <= c THEN Q[i] ELSE it
        BY <3>2, <3>3, SMTT(30)
      <3>6. A = [i \in 1..(c + 1) |-> IF i <= c THEN Q[i] ELSE it]
        BY <3>4, <3>5
      <3> QED
        BY <3>6 DEF A, it
    <2>6. ASSUME NEW i \in 1..(c + 1)
          PROVE  Item(more[w[i]]) = IF i <= c THEN Q[i] ELSE item
      <3>1. CASE i <= c
        <4>1. i \in 1..c
          BY <1>2, <3>1, SMTT(30)
        <4>2. w[i] = q[i] /\ q[i] \in DOMAIN nodes
          BY <1>2, <2>1, <4>1
        <4>3. more[w[i]] = nodes[q[i]]
          BY <1>5, <4>2, SMTT(30)
        <4> QED
          BY <2>2, <3>1, <4>1, <4>3
      <3>2. CASE ~(i <= c)
        <4>1. i = c + 1
          BY <1>2, <3>2, SMTT(30)
        <4>2. more[w[i]] = Entry(e)
          BY <1>5, <2>1, <4>1
        <4> QED
          BY <1>9, <3>2, <4>2
      <3> QED
        BY <3>1, <3>2
    <2> HIDE DEF c, w, Q, R, more, item
    <2>7. R = Append(Q, item)
      BY <2>3, <2>5, <2>6 DEF c
    <2> QED
      BY <2>7 DEF w, Q, R
  <1>11. Abstract!Enqueue(V, e) = Set(V, s, p, Append(V[s][p], item))
    BY DEF Abstract!Enqueue, Set
  <1> HIDE DEF m, more, V, item, s, p, q
  <1>12. View(m, more) = Abstract!Enqueue(V, e)
    BY <1>4, <1>7, <1>8, <1>10, <1>11
  <1> QED
    BY <1>12 DEF m, more, V

\* Dropping the k-th node of a queue drops its k-th order.
LEMMA DequeueView ==
    ASSUME NEW l, NEW nodes, ListsInv(l, nodes), NEW s \in Sides, NEW p \in Prices,
           NEW k \in 1..Len(l[s][p])
    PROVE  View(Shorter(l, s, p, k), Drop(nodes, l[s][p][k]))
             = Set(View(l, nodes), s, p, Erased(View(l, nodes)[s][p], k))
  <1> DEFINE q == l[s][p]
             n == q[k]
             m == Shorter(l, s, p, k)
             less == Drop(nodes, n)
             V == View(l, nodes)
             w == Erased(q, k)
             Q == Queue(nodes, q)
  <1>1. q \in Seq(DOMAIN nodes) /\ Len(q) \in Nat /\ DOMAIN q = 1..Len(q)
        /\ \A i \in 1..Len(q) : q[i] \in DOMAIN nodes
    BY ListFacts
  <1>2. l \in [Sides -> [Prices -> Seq(DOMAIN nodes)]] /\ Once(l)
    BY DEF ListsInv
  <1>3. m[s][p] = w /\ \A t \in Sides, r \in Prices : (t # s \/ r # p) => m[t][r] = l[t][r]
    <2>1. m = Set(l, s, p, w)
      BY DEF Shorter
    <2> HIDE DEF w, m
    <2> QED
      BY <1>2, <2>1 DEF Set
  <1>4. \A x \in DOMAIN nodes : x # n => less[x] = nodes[x]
    BY DEF Drop, Restrict
  <1>5. \A t \in Sides, r \in Prices : \A i \in 1..Len(l[t][r]) :
           (t # s \/ r # p \/ i # k) => l[t][r][i] # n
    BY <1>2, SMTT(30) DEF Once
  <1>6. Elsewhere(l, nodes, m, less, s, p)
    <2>1. \A t \in Sides, r \in Prices :
             /\ DOMAIN l[t][r] = 1..Len(l[t][r])
             /\ \A i \in DOMAIN l[t][r] : l[t][r][i] \in DOMAIN nodes
      BY ListFacts, SMTT(30)
    <2> HIDE DEF m, less, n
    <2> QED
      BY <1>3, <1>4, <1>5, <2>1, SMTT(30) DEF Elsewhere
  <1>7. View(m, less) = Set(V, s, p, Queue(less, m[s][p]))
    <2> HIDE DEF m, less
    <2> QED
      BY <1>6, ViewSet, SMTT(30)
  <1>8. V[s][p] = Q /\ DOMAIN Q = 1..Len(q) /\ \A i \in 1..Len(q) : Q[i] = Item(nodes[q[i]])
    BY <1>1, ViewIs, SMTT(30) DEF Queue
  <1>9. Queue(less, w) = Erased(Q, k)
    <2> DEFINE c == Len(q)
               j(i) == IF i < k THEN i ELSE i + 1
    <2>1. c \in Nat /\ k \in 1..c /\ Len(Q) = c
      <3> DEFINE S == {Q[i] : i \in 1..c}
      <3>1. Q \in [1..c -> S]
        <4>1. Q = [i \in 1..c |-> Q[i]]
          BY <1>1 DEF Queue
        <4> HIDE DEF Q, c
        <4> QED
          BY <4>1
      <3>2. c \in Nat
        BY <1>1
      <3> HIDE DEF Q, S, c
      <3>3. Len(Q) = c
        BY <3>1, <3>2, IsList
      <3> QED
        BY <3>2, <3>3 DEF c
    <2>2. DOMAIN w = 1..(c - 1) /\ \A i \in 1..(c - 1) : w[i] = q[j(i)]
      BY DEF Erased
    <2>3. Erased(Q, k) = [i \in 1..(c - 1) |-> Q[j(i)]]
      <3> HIDE DEF Q, c
      <3> QED
        BY <2>1 DEF Erased
    <2>4. Queue(less, w) = [i \in 1..(c - 1) |-> Item(less[w[i]])]
      <3> HIDE DEF w, less, c
      <3> QED
        BY <2>2 DEF Queue
    <2>5. ASSUME NEW i \in 1..(c - 1) PROVE Item(less[w[i]]) = Q[j(i)]
      <3>1. j(i) \in 1..c /\ j(i) # k
        <4> HIDE DEF c
        <4> QED
          BY <2>1, SMTT(30)
      <3>2. w[i] = q[j(i)] /\ q[j(i)] \in DOMAIN nodes
        BY <1>1, <2>2, <3>1
      <3>3. q[j(i)] # n
        BY <1>5, <3>1
      <3>4. less[w[i]] = nodes[q[j(i)]]
        <4> HIDE DEF less, w, j, n, q
        <4> QED
          BY <1>4, <3>2, <3>3
      <3>5. Q[j(i)] = Item(nodes[q[j(i)]])
        <4> HIDE DEF Q, j, q
        <4> QED
          BY <1>8, <3>1 DEF c
      <3> QED
        BY <3>4, <3>5
    <2> HIDE DEF c, w, Q, less, j
    <2> QED
      BY <2>3, <2>4, <2>5
  <1> HIDE DEF m, less, V, w, Q
  <1>10. View(m, less) = Set(V, s, p, Erased(V[s][p], k))
    BY <1>3, <1>7, <1>8, <1>9
  <1> QED
    BY <1>10 DEF m, less, V

\* Setting the quantity of the k-th node sets that of the k-th order.
LEMMA ResizeView ==
    ASSUME NEW l, NEW nodes, ListsInv(l, nodes), NEW s \in Sides, NEW p \in Prices,
           NEW k \in 1..Len(l[s][p]), NEW x \in Nat \ {0}
    PROVE  View(l, Resized(nodes, l[s][p][k], x))
             = Set(View(l, nodes), s, p, Altered(View(l, nodes)[s][p], k, x))
  <1> DEFINE q == l[s][p]
             n == q[k]
             more == Resized(nodes, n, x)
             V == View(l, nodes)
             Q == Queue(nodes, q)
  <1>1. DOMAIN q = 1..Len(q) /\ \A i \in 1..Len(q) : q[i] \in DOMAIN nodes
    BY ListFacts
  <1>2. nodes \in [DOMAIN nodes -> Entries] /\ Once(l)
    BY DEF ListsInv
  <1>3. /\ \A y \in DOMAIN nodes : y # n => more[y] = nodes[y]
        /\ more[n].remaining_quantity = x /\ more[n].order_id = nodes[n].order_id
    <2>1. n \in DOMAIN nodes
      BY <1>1
    <2> HIDE DEF n
    <2> QED
      BY <1>2, <2>1, ResizedIs, SMTT(30)
  <1>4. \A t \in Sides, r \in Prices : \A i \in 1..Len(l[t][r]) :
           (t # s \/ r # p \/ i # k) => l[t][r][i] # n
    BY <1>2, SMTT(30) DEF Once
  <1>5. Elsewhere(l, nodes, l, more, s, p)
    <2>1. \A t \in Sides, r \in Prices :
             /\ DOMAIN l[t][r] = 1..Len(l[t][r])
             /\ \A i \in DOMAIN l[t][r] : l[t][r][i] \in DOMAIN nodes
      BY ListFacts, SMTT(30)
    <2> HIDE DEF more, n
    <2> QED
      BY <1>3, <1>4, <2>1 DEF Elsewhere
  <1>6. View(l, more) = Set(V, s, p, Queue(more, q))
    <2> HIDE DEF more
    <2> QED
      BY <1>5, ViewSet, SMTT(30)
  <1>7. V[s][p] = Q /\ DOMAIN Q = 1..Len(q) /\ \A i \in 1..Len(q) : Q[i] = Item(nodes[q[i]])
    BY <1>1, ViewIs, SMTT(30) DEF Queue
  <1>8. Queue(more, q) = Altered(Q, k, x)
    <2>1. Queue(more, q) = [i \in 1..Len(q) |-> Item(more[q[i]])]
      <3> HIDE DEF more, q
      <3> QED
        BY <1>1 DEF Queue
    <2>2. Altered(Q, k, x) = [i \in 1..Len(q) |-> IF i = k THEN [Q[i] EXCEPT !.quantity = x] ELSE Q[i]]
      <3> HIDE DEF Q, q
      <3> QED
        BY <1>7 DEF Altered
    <2>3. ASSUME NEW i \in 1..Len(q)
          PROVE  Item(more[q[i]]) = IF i = k THEN [Q[i] EXCEPT !.quantity = x] ELSE Q[i]
      <3>1. CASE i = k
        <4>1. Q[i] = Item(nodes[n]) /\ q[i] = n
          BY <1>7, <3>1
        <4>2. Item(more[n]) = [Item(nodes[n]) EXCEPT !.quantity = x]
          <5> HIDE DEF more, n
          <5> QED
            BY <1>3, SMTT(30) DEF Item
        <4> HIDE DEF Q, q, n, more
        <4> QED
          BY <3>1, <4>1, <4>2
      <3>2. CASE i # k
        <4>1. q[i] # n /\ q[i] \in DOMAIN nodes
          BY <1>1, <1>4, <3>2
        <4>2. more[q[i]] = nodes[q[i]]
          <5> HIDE DEF more, n, q
          <5> QED
            BY <1>3, <4>1
        <4> HIDE DEF Q, q, n, more
        <4> QED
          BY <1>7, <3>2, <4>2
      <3> QED
        BY <3>1, <3>2
    <2> HIDE DEF Q, q, more
    <2> QED
      BY <2>1, <2>2, <2>3
  <1> HIDE DEF more, V, Q
  <1>9. View(l, more) = Set(V, s, p, Altered(V[s][p], k, x))
    BY <1>6, <1>7, <1>8
  <1> QED
    BY <1>9 DEF more, V

\* It does not matter whether a node is queued before or after another is dropped.
LEMMA ErasedAppend ==
    ASSUME NEW S, NEW q \in Seq(S), NEW n \in S, NEW k \in 1..Len(q)
    PROVE  Erased(Append(q, n), k) = Append(Erased(q, k), n)
  <1> DEFINE c == Len(q)
             w == Append(q, n)
             r == Erased(q, k)
             x == Erased(w, k)
             y == Append(r, n)
  <1>1. c \in Nat /\ k \in 1..c
    BY SMTT(30)
  <1>2. w \in Seq(S) /\ Len(w) = c + 1 /\ w[c + 1] = n /\ \A i \in 1..c : w[i] = q[i]
    BY Appended, SMTT(30)
  <1>3. r \in Seq(S) /\ Len(r) = c - 1 /\ \A i \in 1..(c - 1) : r[i] = IF i < k THEN q[i] ELSE q[i + 1]
    BY ErasedIs
  <1>4. k \in 1..Len(w)
    BY <1>1, <1>2, SMTT(30)
  <1>5. x \in Seq(S) /\ Len(x) = Len(w) - 1
        /\ \A i \in 1..(Len(w) - 1) : x[i] = IF i < k THEN w[i] ELSE w[i + 1]
    <2> HIDE DEF w
    <2> QED
      BY <1>2, <1>4, ErasedIs
  <1>6. y \in Seq(S) /\ Len(y) = Len(r) + 1 /\ y[Len(r) + 1] = n /\ \A i \in 1..Len(r) : y[i] = r[i]
    <2> HIDE DEF r
    <2> QED
      BY <1>3, Appended, SMTT(30)
  <1> HIDE DEF c, w, r, x, y
  <1>7. Len(x) = c /\ Len(y) = c
    BY <1>1, <1>2, <1>3, <1>5, <1>6, SMTT(30)
  <1>8. ASSUME NEW i \in 1..c PROVE x[i] = y[i]
    <2>1. x[i] = IF i < k THEN w[i] ELSE w[i + 1]
      BY <1>1, <1>2, <1>5, SMTT(30)
    <2>2. CASE i = c
      <3>1. x[i] = n
        BY <1>1, <1>2, <2>1, <2>2, SMTT(30)
      <3>2. y[i] = n
        BY <1>1, <1>3, <1>6, <2>2, SMTT(30)
      <3> QED
        BY <3>1, <3>2
    <2>3. CASE i # c
      <3>1. i \in 1..(c - 1) /\ i + 1 \in 1..c
        BY <1>1, <2>3, SMTT(30)
      <3>2. x[i] = IF i < k THEN q[i] ELSE q[i + 1]
        BY <1>2, <2>1, <3>1
      <3>3. y[i] = r[i]
        BY <1>3, <1>6, <3>1
      <3> QED
        BY <1>3, <3>1, <3>2, <3>3
    <2> QED
      BY <2>2, <2>3
  <1>9. x = [i \in 1..c |-> x[i]] /\ y = [i \in 1..c |-> y[i]]
    BY <1>5, <1>6, <1>7, SMTT(30)
  <1>10. x = y
    BY <1>8, <1>9
  <1> QED
    BY <1>10 DEF x, y, w, r

\* A table with an entry for each side and price.
Table(f) == f = [t \in Sides |-> [r \in Prices |-> f[t][r]]]

Writes(g, f, s, p, v) ==
    Table(g) /\ \A t \in Sides, r \in Prices : g[t][r] = IF t = s /\ r = p THEN v ELSE f[t][r]

\* Setting one entry leaves the other entries of a table.
LEMMA SetWrites ==
    ASSUME NEW f, Table(f), NEW s \in Sides, NEW p \in Prices, NEW v
    PROVE  Writes(Set(f, s, p, v), f, s, p, v)
  <1> DEFINE F(t, r) == f[t][r]
  <1>1. f = [t \in Sides |-> [r \in Prices |-> F(t, r)]]
    BY DEF Table
  <1> HIDE DEF F
  <1>2. Set(f, s, p, v) = [t \in Sides |-> [r \in Prices |-> IF t = s /\ r = p THEN v ELSE F(t, r)]]
    BY <1>1 DEF Set
  <1>3. \A t \in Sides, r \in Prices : F(t, r) = f[t][r]
    BY DEF F
  <1> QED
    BY <1>2, <1>3, SMTT(30) DEF Writes, Table

\* Tables with the same entries are equal.
LEMMA TablesAgree ==
    ASSUME NEW f, NEW g, Table(f), Table(g), \A t \in Sides, r \in Prices : f[t][r] = g[t][r]
    PROVE  f = g
  BY DEF Table

\* Two entries of a table are set in either order.
LEMMA SetTwice ==
    ASSUME NEW f, Table(f), NEW s \in Sides, NEW p \in Prices, NEW v,
           NEW t \in Sides, NEW r \in Prices, NEW w, s # t \/ p # r
    PROVE  /\ Set(Set(f, s, p, v), t, r, w) = Set(Set(f, t, r, w), s, p, v)
           /\ Set(f, s, p, v)[t][r] = f[t][r] /\ Set(f, t, r, w)[s][p] = f[s][p]
  <1> DEFINE g == Set(f, s, p, v)
             h == Set(f, t, r, w)
             x == Set(g, t, r, w)
             y == Set(h, s, p, v)
  <1>1. Writes(g, f, s, p, v) /\ Writes(h, f, t, r, w)
    BY SetWrites
  <1>2. Table(g) /\ Table(h)
    BY <1>1 DEF Writes
  <1> HIDE DEF g, h
  <1>3. Writes(x, g, t, r, w) /\ Writes(y, h, s, p, v)
    BY <1>2, SetWrites
  <1> HIDE DEF x, y
  <1>4. Table(x) /\ Table(y) /\ \A a \in Sides, b \in Prices : x[a][b] = y[a][b]
    BY <1>1, <1>3, SMTT(30) DEF Writes
  <1>5. x = y
    BY <1>4, TablesAgree
  <1>6. g[t][r] = f[t][r] /\ h[s][p] = f[s][p]
    BY <1>1 DEF Writes
  <1> QED
    BY <1>5, <1>6 DEF x, y, g, h

\* One entry is set twice.
LEMMA SetAgain ==
    ASSUME NEW f, Table(f), NEW s \in Sides, NEW p \in Prices, NEW v, NEW w
    PROVE  Set(Set(f, s, p, v), s, p, w) = Set(f, s, p, w) /\ Set(f, s, p, v)[s][p] = v
  <1> DEFINE g == Set(f, s, p, v)
             x == Set(g, s, p, w)
             y == Set(f, s, p, w)
  <1>1. Writes(g, f, s, p, v) /\ Writes(y, f, s, p, w)
    BY SetWrites
  <1>2. Table(g)
    BY <1>1 DEF Writes
  <1> HIDE DEF g
  <1>3. Writes(x, g, s, p, w)
    BY <1>2, SetWrites
  <1> HIDE DEF x, y
  <1>4. Table(x) /\ Table(y) /\ \A a \in Sides, b \in Prices : x[a][b] = y[a][b]
    BY <1>1, <1>3, SMTT(30) DEF Writes
  <1>5. x = y
    BY <1>4, TablesAgree
  <1>6. g[s][p] = v
    BY <1>1 DEF Writes
  <1> QED
    BY <1>5, <1>6 DEF x, y, g

\* Queueing and dropping commute.
LEMMA LongerShorter ==
    ASSUME NEW l, NEW nodes, ListsInv(l, nodes), NEW e, Valid(e), NEW n,
           NEW s \in Sides, NEW p \in Prices, NEW k \in 1..Len(l[s][p])
    PROVE  Shorter(Longer(l, e, n), s, p, k) = Longer(Shorter(l, s, p, k), e, n)
  <1> DEFINE t == e.side
             r == e.price
             v == Append(l[t][r], n)
             w == Erased(l[s][p], k)
  <1>0. l \in [Sides -> [Prices -> Seq(DOMAIN nodes)]]
    BY DEF ListsInv
  <1>1. Table(l) /\ t \in Sides /\ r \in Prices
    BY <1>0 DEF Table, Valid
  <1>2. Longer(l, e, n) = Set(l, t, r, v) /\ Shorter(l, s, p, k) = Set(l, s, p, w)
    BY DEF Longer, Shorter
  <1>3. CASE s # t \/ p # r
    <2>1. /\ Set(Set(l, s, p, w), t, r, v) = Set(Set(l, t, r, v), s, p, w)
          /\ Set(l, s, p, w)[t][r] = l[t][r] /\ Set(l, t, r, v)[s][p] = l[s][p]
      <3> HIDE DEF v, w, t, r
      <3> QED
        BY <1>1, <1>3, SetTwice, SMTT(30)
    <2>2. Shorter(Longer(l, e, n), s, p, k) = Set(Set(l, t, r, v), s, p, w)
      BY <1>2, <2>1 DEF Shorter
    <2>3. Longer(Shorter(l, s, p, k), e, n) = Set(Set(l, s, p, w), t, r, v)
      BY <1>2, <2>1 DEF Longer
    <2> HIDE DEF v, w, t, r
    <2> QED
      BY <2>1, <2>2, <2>3
  <1>4. CASE s = t /\ p = r
    <2> DEFINE x == Erased(v, k)
               y == Append(w, n)
    <2>1. Set(Set(l, s, p, v), s, p, x) = Set(l, s, p, x) /\ Set(l, s, p, v)[s][p] = v
      <3> HIDE DEF v, w, t, r, x
      <3> QED
        BY <1>1, SetAgain, SMTT(30)
    <2>2. Set(Set(l, s, p, w), s, p, y) = Set(l, s, p, y) /\ Set(l, s, p, w)[s][p] = w
      <3> HIDE DEF v, w, t, r, y
      <3> QED
        BY <1>1, SetAgain, SMTT(30)
    <2>3. x = y
      <3> DEFINE q == l[s][p]
                 U == DOMAIN nodes \cup {n}
      <3>1. q \in Seq(U) /\ n \in U /\ k \in 1..Len(q)
        BY <1>0, SMTT(30)
      <3>2. v = Append(q, n)
        BY <1>4
      <3> HIDE DEF q, U, v
      <3>3. Erased(Append(q, n), k) = Append(Erased(q, k), n)
        BY <3>1, ErasedAppend
      <3> QED
        BY <3>2, <3>3 DEF q
    <2>4. Shorter(Longer(l, e, n), s, p, k) = Set(Set(l, s, p, v), s, p, x)
      <3>1. Longer(l, e, n) = Set(l, s, p, v)
        BY <1>2, <1>4
      <3> HIDE DEF v
      <3> QED
        BY <2>1, <3>1 DEF Shorter
    <2>5. Longer(Shorter(l, s, p, k), e, n) = Set(Set(l, s, p, w), s, p, y)
      <3> HIDE DEF w
      <3> QED
        BY <1>2, <1>4, <2>2 DEF Longer
    <2> HIDE DEF v, w, x, y
    <2> QED
      BY <2>1, <2>2, <2>3, <2>4, <2>5
  <1> QED
    BY <1>3, <1>4

-----------------------------------------------------------------------------
(* The calls *)

\* What a call returned and what the book then holds.
Shown(outcome) == [result |-> outcome.result, book |-> Contents(outcome.book)]

\* What a caller sees of a call that returns these parts.
LEMMA DoneShown ==
    ASSUME NEW own, NEW pool, NEW nodes, NEW l, NEW index, ListsInv(l, nodes), NEW r
    PROVE  Shown(Done(r, Rest(own, pool, nodes, l, index))) = [result |-> r, book |-> View(l, nodes)]
  <1> DEFINE b == Rest(own, pool, nodes, l, index)
  <1>1. Contents(b) = View(l, nodes)
    BY ContentsIs
  <1> HIDE DEF b
  <1> QED
    BY <1>1 DEF Shown, Done, b

\* A call that failed for want of memory shows the book it was given.
LEMMA FailsShown ==
    ASSUME NEW own, NEW nodes, NEW l, NEW index, ListsInv(l, nodes),
           NEW outcome, Fails(own, nodes, l, index, outcome)
    PROVE  Shown(outcome) = [result |-> "AllocationFailed", book |-> View(l, nodes)]
  <1>1. PICK pool : outcome = Done("AllocationFailed", Rest(own, pool, nodes, l, index))
    BY DEF Fails
  <1> QED
    BY <1>1, DoneShown, SMTT(30)

\* A refused call of the abstract book.
Refusal(V, r) == [result |-> r, book |-> V]

\* An abstract call that does not return Ok leaves the book.
LEMMA RefusalIs ==
    ASSUME NEW V, NEW r, r # "Ok", NEW next
    PROVE  Abstract!Outcome(V, r, next) = Refusal(V, r)
  BY DEF Abstract!Outcome, Refusal

\* An abstract call that returns Ok moves on.
LEMMA AcceptedIs ==
    ASSUME NEW V, NEW next
    PROVE  Abstract!Outcome(V, "Ok", next) = [result |-> "Ok", book |-> next]
  BY DEF Abstract!Outcome

\* apply(AddOrder)
LEMMA AddShown ==
    ASSUME NEW own, NEW pool, NEW nodes, NEW l, NEW index, Parts(own, pool, nodes, l, index),
           NEW e \in AddOrders, NEW outcome, AddAnswers(own, pool, nodes, l, index, e, outcome)
    PROVE  \E room \in BOOLEAN : Shown(outcome) = Abstract!Add(View(l, nodes), e, room)
  <1> DEFINE b == Rest(own, pool, nodes, l, index)
  <1>1. Parts(own, pool, nodes, l, index) /\ b = Rest(own, pool, nodes, l, index)
    OBVIOUS
  <1> HIDE DEF b
  <1>2. ListsInv(l, nodes) /\ IndexInv(l, nodes, index) /\ PoolInv(pool, DOMAIN nodes)
    BY <1>1 DEF Parts
  <1> DEFINE V == View(l, nodes)
             n == Top(pool)
             places == Put(index, e.order_id, At(e, n))
             res(room) == IF e.quantity = 0 THEN "InvalidQuantity"
                          ELSE IF e.price = 0 THEN "InvalidPrice"
                          ELSE IF e.order_id \in DOMAIN index THEN "DuplicateOrder"
                          ELSE IF e.side \notin Sides THEN "UnknownOrder"
                          ELSE IF ~room THEN "AllocationFailed"
                          ELSE "Ok"
             next == Abstract!Enqueue(V, e)
  <1>4. \A room : Abstract!Add(V, e, room) = Abstract!Outcome(V, res(room), next)
    <2>1. Abstract!Ids(V) = DOMAIN index
      BY <1>2, IdsAre
    <2> HIDE DEF V
    <2> QED
      BY <2>1, SameNames DEF Abstract!Add
  <1>5. \A r : Shown(Done(r, b)) = Refusal(V, r)
    BY <1>1, <1>2, DoneShown, SMTT(30) DEF Refusal
  <1>6. \/ e.quantity = 0 /\ outcome = Done("InvalidQuantity", b)
        \/ e.quantity # 0 /\ e.price = 0 /\ outcome = Done("InvalidPrice", b)
        \/ /\ e.quantity # 0 /\ e.price # 0 /\ e.order_id \in DOMAIN index
           /\ outcome = Done("DuplicateOrder", b)
        \/ /\ e.quantity # 0 /\ e.price # 0 /\ e.order_id \notin DOMAIN index
           /\ e.side \notin Sides /\ outcome = Done("UnknownOrder", b)
        \/ Valid(e) /\ e.order_id \notin DOMAIN index /\ Fails(own, nodes, l, index, outcome)
        \/ /\ Valid(e) /\ e.order_id \notin DOMAIN index /\ CanTake(pool)
           /\ outcome = Done("Ok", Added(own, pool, nodes, l, places, e))
           /\ PartsAdded(own, pool, nodes, l, index, e)
    BY DEF AddAnswers, b
  <1>7. CASE \/ e.quantity = 0 /\ outcome = Done("InvalidQuantity", b)
             \/ e.quantity # 0 /\ e.price = 0 /\ outcome = Done("InvalidPrice", b)
             \/ /\ e.quantity # 0 /\ e.price # 0 /\ e.order_id \in DOMAIN index
                /\ outcome = Done("DuplicateOrder", b)
             \/ /\ e.quantity # 0 /\ e.price # 0 /\ e.order_id \notin DOMAIN index
                /\ e.side \notin Sides /\ outcome = Done("UnknownOrder", b)
    <2>1. outcome = Done(res(TRUE), b) /\ res(TRUE) # "Ok"
      BY <1>7
    <2> DEFINE r == res(TRUE)
    <2> HIDE DEF r, res, V, next
    <2>2. Shown(outcome) = Refusal(V, r)
      BY <1>5, <2>1 DEF r
    <2>3. Abstract!Outcome(V, r, next) = Refusal(V, r)
      BY <2>1, RefusalIs DEF r
    <2>4. Shown(outcome) = Abstract!Add(V, e, TRUE)
      BY <1>4, <2>2, <2>3 DEF r
    <2> QED
      BY <2>4 DEF V
  <1>8. CASE Valid(e) /\ e.order_id \notin DOMAIN index /\ Fails(own, nodes, l, index, outcome)
    <2>1. res(FALSE) = "AllocationFailed"
      <3>1. e.quantity # 0 /\ e.price # 0 /\ e.side \in Sides
        BY <1>8, CapacityIs, SMTT(30) DEF Valid, Prices
      <3> QED
        BY <1>8, <3>1
    <2> HIDE DEF V, next, res
    <2>2. Shown(outcome) = Refusal(V, "AllocationFailed")
      BY <1>2, <1>8, FailsShown DEF Refusal, V
    <2>3. Abstract!Outcome(V, "AllocationFailed", next) = Refusal(V, "AllocationFailed")
      BY RefusalIs
    <2>4. Shown(outcome) = Abstract!Add(V, e, FALSE)
      BY <1>4, <2>1, <2>2, <2>3
    <2> QED
      BY <2>4 DEF V
  <1>9. CASE /\ Valid(e) /\ e.order_id \notin DOMAIN index /\ CanTake(pool)
             /\ outcome = Done("Ok", Added(own, pool, nodes, l, places, e))
             /\ PartsAdded(own, pool, nodes, l, index, e)
    <2>1. res(TRUE) = "Ok"
      <3>1. e.quantity # 0 /\ e.price # 0 /\ e.side \in Sides
        BY <1>9, CapacityIs, SMTT(30) DEF Valid, Prices
      <3> QED
        BY <1>9, <3>1
    <2> DEFINE m == Longer(l, e, n)
               N == Put(nodes, n, Entry(e))
               P == Taken(pool)
    <2>2. PICK heap : ~Refused(pool, heap)
      BY <1>9 DEF CanTake
    <2>3. n \notin DOMAIN nodes /\ ListsInv(m, N)
      <3>1. n \notin DOMAIN nodes
        BY <1>2, <2>2, PoolTake
      <3>2. ListsInv(m, N)
        BY <1>9 DEF PartsAdded, Parts
      <3> QED
        BY <3>1, <3>2
    <2>4. View(m, N) = next
      BY <1>2, <1>9, <2>3, EnqueueView, SMTT(30)
    <2>5. Shown(Done("Ok", Rest(own, P, N, m, places))) = [result |-> "Ok", book |-> View(m, N)]
      <3> DEFINE ok == "Ok"
      <3> HIDE DEF m, N, P, places, ok
      <3>1. Shown(Done(ok, Rest(own, P, N, m, places))) = [result |-> ok, book |-> View(m, N)]
        BY <2>3, DoneShown, SMTT(30)
      <3> QED
        BY <3>1 DEF ok
    <2>6. Added(own, pool, nodes, l, places, e) = Rest(own, P, N, m, places)
      BY DEF Added
    <2> HIDE DEF V, next, res, m, N, P, places
    <2>7. Abstract!Outcome(V, "Ok", next) = [result |-> "Ok", book |-> next]
      BY AcceptedIs
    <2>8. Shown(outcome) = Abstract!Add(V, e, TRUE)
      BY <1>4, <1>9, <2>1, <2>4, <2>5, <2>6, <2>7
    <2> QED
      BY <2>8 DEF V
  <1> QED
    BY <1>6, <1>7, <1>8, <1>9

\* What the index says of an order is what the queues say of it.
Known(V, nodes, index, id, k) ==
    /\ Found(V, id, index[id].side, index[id].price, k)
    /\ Abstract!Order(V, id) = [order_id |-> id, side |-> index[id].side, price |-> index[id].price,
                                quantity |-> nodes[index[id].iterator].remaining_quantity]

\* What order(id) of the abstract book looks up is what orders_by_id_ has.
LEMMA KnownIs ==
    ASSUME NEW l, NEW nodes, NEW index, ListsInv(l, nodes), IndexInv(l, nodes, index),
           NEW id \in DOMAIN index, NEW k, Located(l, index, id, k)
    PROVE  Known(View(l, nodes), nodes, index, id, k)
  <1> DEFINE V == View(l, nodes)
             s == index[id].side
             p == index[id].price
  <1>1. Found(V, id, s, p, k)
    BY FoundIs
  <1>2. s \in Sides /\ p \in Prices /\ k \in 1..Len(l[s][p]) /\ l[s][p][k] = index[id].iterator
    BY DEF Located
  <1>3. V[s][p][k].quantity = nodes[index[id].iterator].remaining_quantity
    <2> HIDE DEF s, p
    <2>1. V[s][p][k].quantity = nodes[l[s][p][k]].remaining_quantity
      BY <1>2, ViewIs, SMTT(30)
    <2> QED
      BY <1>2, <2>1
  <1> HIDE DEF V, s, p
  <1>4. Abstract!Order(V, id) = [order_id |-> id, side |-> s, price |-> p, quantity |-> V[s][p][k].quantity]
    BY <1>1, OrderIs, SMTT(30)
  <1> QED
    BY <1>1, <1>3, <1>4 DEF Known, V, s, p

\* A node erased is an order dequeued.
Dequeues(own, pool, nodes, l, index, places, id, k) ==
    Shown(Done("Ok", Removed(own, pool, nodes, l, places, index[id].side, index[id].price, k)))
      = [result |-> "Ok", book |-> Abstract!Dequeue(View(l, nodes), id)]

\* Erasing the node, as cancel and execute do, dequeues the order.
LEMMA RemovedShown ==
    ASSUME NEW own, NEW pool, NEW nodes, NEW l, NEW index, NEW places,
           ListsInv(l, nodes), IndexInv(l, nodes, index),
           NEW id \in DOMAIN index, NEW k, Located(l, index, id, k),
           PartsRemoved(own, pool, nodes, l, index, id, k)
    PROVE  Dequeues(own, pool, nodes, l, index, places, id, k)
  <1> DEFINE V == View(l, nodes)
             s == index[id].side
             p == index[id].price
             n == l[s][p][k]
             m == Shorter(l, s, p, k)
             N == Drop(nodes, n)
             P == Freed(pool, n)
             ok == "Ok"
  <1>1. s \in Sides /\ p \in Prices /\ k \in 1..Len(l[s][p]) /\ n = index[id].iterator
    BY DEF Located
  <1>0. ListsInv(m, N)
    BY <1>1 DEF PartsRemoved, Parts
  <1>2. Found(V, id, s, p, k)
    BY FoundIs
  <1>3. Abstract!Dequeue(V, id) = Set(V, s, p, Erased(V[s][p], k))
    <2> HIDE DEF V, s, p
    <2> QED
      BY <1>2, DequeueIs, SMTT(30)
  <1>4. View(m, N) = Set(V, s, p, Erased(V[s][p], k)) /\ ListsInv(m, N)
    <2> HIDE DEF s, p
    <2> QED
      BY <1>0, <1>1, DequeueView, SMTT(30)
  <1>5. Removed(own, pool, nodes, l, places, s, p, k) = Rest(own, P, N, m, places)
    BY DEF Removed
  <1> HIDE DEF V, s, p, n, m, N, P, ok
  <1>6. Shown(Done(ok, Rest(own, P, N, m, places))) = [result |-> ok, book |-> View(m, N)]
    BY <1>4, DoneShown, SMTT(30)
  <1> QED
    BY <1>3, <1>4, <1>5, <1>6 DEF V, s, p, ok, Dequeues

\* A quantity set in place.
Resizes(own, pool, nodes, l, index, id, x) ==
    Shown(Done("Ok", Rest(own, pool, Resized(nodes, index[id].iterator, x), l, index)))
      = [result |-> "Ok", book |-> Abstract!SetQuantity(View(l, nodes), id, x)]

\* Setting remaining_quantity in the node sets the quantity of the order.
LEMMA ResizedShown ==
    ASSUME NEW own, NEW pool, NEW nodes, NEW l, NEW index,
           ListsInv(l, nodes), IndexInv(l, nodes, index),
           NEW id \in DOMAIN index, NEW x \in Nat \ {0},
           PartsResized(own, pool, nodes, l, index, id, x)
    PROVE  Resizes(own, pool, nodes, l, index, id, x)
  <1> DEFINE V == View(l, nodes)
             s == index[id].side
             p == index[id].price
             n == index[id].iterator
             N == Resized(nodes, n, x)
             ok == "Ok"
  <1>0. PICK k : Located(l, index, id, k)
    BY LocatedIs
  <1>1. s \in Sides /\ p \in Prices /\ k \in 1..Len(l[s][p]) /\ l[s][p][k] = n
    BY <1>0 DEF Located
  <1>2. Found(V, id, s, p, k)
    BY <1>0, FoundIs
  <1>3. Abstract!SetQuantity(V, id, x) = Set(V, s, p, Altered(V[s][p], k, x))
    <2> HIDE DEF V, s, p
    <2> QED
      BY <1>2, SetQuantityIs, SMTT(30)
  <1>4. View(l, N) = Set(V, s, p, Altered(V[s][p], k, x)) /\ ListsInv(l, N)
    <2>2. ListsInv(l, N)
      BY DEF PartsResized, Parts
    <2> HIDE DEF s, p, n
    <2>1. View(l, Resized(nodes, l[s][p][k], x)) = Set(V, s, p, Altered(V[s][p], k, x))
      BY <1>1, ResizeView, SMTT(30)
    <2> QED
      BY <1>1, <2>1, <2>2
  <1> HIDE DEF V, s, p, n, N, ok
  <1>5. Shown(Done(ok, Rest(own, pool, N, l, index))) = [result |-> ok, book |-> View(l, N)]
    BY <1>4, DoneShown, SMTT(30)
  <1> QED
    BY <1>3, <1>4, <1>5 DEF V, n, N, ok, Resizes

\* apply(CancelOrder)
LEMMA CancelShown ==
    ASSUME NEW own, NEW pool, NEW nodes, NEW l, NEW index, Parts(own, pool, nodes, l, index),
           NEW id, NEW outcome, CancelAnswers(own, pool, nodes, l, index, id, outcome)
    PROVE  Shown(outcome) = Abstract!Cancel(View(l, nodes), id)
  <1> DEFINE b == Rest(own, pool, nodes, l, index)
  <1>1. Parts(own, pool, nodes, l, index) /\ b = Rest(own, pool, nodes, l, index)
    OBVIOUS
  <1> HIDE DEF b
  <1>2. ListsInv(l, nodes) /\ IndexInv(l, nodes, index)
    BY <1>1 DEF Parts
  <1> DEFINE V == View(l, nodes)
             gone(k) == Removed(own, pool, nodes, l, Drop(index, id),
                                index[id].side, index[id].price, k)
             next == Abstract!Dequeue(V, id)
  <1>4. Abstract!Cancel(V, id)
          = Abstract!Outcome(V, IF id \in DOMAIN index THEN "Ok" ELSE "UnknownOrder", next)
    <2>1. Abstract!Ids(V) = DOMAIN index
      BY <1>2, IdsAre
    <2> HIDE DEF V
    <2> QED
      BY <2>1 DEF Abstract!Cancel
  <1>5. \/ id \notin DOMAIN index /\ outcome = Done("UnknownOrder", b)
        \/ id \in DOMAIN index /\ \E k : Leaves(own, pool, nodes, l, index, id, k, outcome)
    BY DEF CancelAnswers, b
  <1>6. CASE id \notin DOMAIN index /\ outcome = Done("UnknownOrder", b)
    <2>1. Shown(Done("UnknownOrder", b)) = Refusal(V, "UnknownOrder")
      BY <1>1, <1>2, DoneShown, SMTT(30) DEF Refusal
    <2> HIDE DEF V, next
    <2>2. Abstract!Outcome(V, "UnknownOrder", next) = Refusal(V, "UnknownOrder")
      BY RefusalIs
    <2>3. Shown(outcome) = Abstract!Cancel(V, id)
      BY <1>4, <1>6, <2>1, <2>2
    <2> QED
      BY <2>3 DEF V
  <1>7. CASE id \in DOMAIN index /\ \E k : Leaves(own, pool, nodes, l, index, id, k, outcome)
    <2>1. PICK k : /\ Located(l, index, id, k) /\ outcome = Done("Ok", gone(k))
                   /\ PartsRemoved(own, pool, nodes, l, index, id, k)
      BY <1>7 DEF Leaves
    <2>2. Shown(Done("Ok", gone(k))) = [result |-> "Ok", book |-> next]
      <3> DEFINE places == Drop(index, id)
      <3>1. id \in DOMAIN index /\ Located(l, index, id, k) /\ PartsRemoved(own, pool, nodes, l, index, id, k)
        BY <1>7, <2>1
      <3> HIDE DEF places
      <3>2. Dequeues(own, pool, nodes, l, index, places, id, k)
        BY <1>2, <3>1, RemovedShown
      <3> QED
        BY <3>2 DEF places, Dequeues
    <2> HIDE DEF V, next, gone
    <2>3. Abstract!Outcome(V, "Ok", next) = [result |-> "Ok", book |-> next]
      BY AcceptedIs
    <2>4. Shown(outcome) = Abstract!Cancel(V, id)
      BY <1>4, <1>7, <2>1, <2>2, <2>3
    <2> QED
      BY <2>4 DEF V
  <1> QED
    BY <1>5, <1>6, <1>7

\* apply(ExecuteOrder)
LEMMA ExecuteShown ==
    ASSUME NEW own, NEW pool, NEW nodes, NEW l, NEW index, Parts(own, pool, nodes, l, index),
           NEW id, NEW q \in 0..MaxQuantity,
           NEW outcome, ExecuteAnswers(own, pool, nodes, l, index, id, q, outcome)
    PROVE  Shown(outcome) = Abstract!Execute(View(l, nodes), id, q)
  <1> DEFINE b == Rest(own, pool, nodes, l, index)
  <1>1. Parts(own, pool, nodes, l, index) /\ b = Rest(own, pool, nodes, l, index)
    OBVIOUS
  <1> HIDE DEF b
  <1>2. ListsInv(l, nodes) /\ IndexInv(l, nodes, index)
    BY <1>1 DEF Parts
  <1> DEFINE V == View(l, nodes)
             n == index[id].iterator
             left == nodes[n].remaining_quantity
             held == Abstract!Order(V, id).quantity
             r == left - q
             less == Rest(own, pool, Resized(nodes, n, r), l, index)
             gone(k) == Removed(own, pool, nodes, l, Drop(index, id),
                                index[id].side, index[id].price, k)
             res == IF id \notin DOMAIN index THEN "UnknownOrder"
                    ELSE IF q = 0 THEN "InvalidQuantity"
                    ELSE IF held < q THEN "QuantityExceedsRemaining"
                    ELSE "Ok"
             next == IF held = q THEN Abstract!Dequeue(V, id)
                     ELSE Abstract!SetQuantity(V, id, held - q)
  <1>4. Abstract!Execute(V, id, q) = Abstract!Outcome(V, res, next)
    <2>1. Abstract!Ids(V) = DOMAIN index
      BY <1>2, IdsAre
    <2> HIDE DEF V
    <2> QED
      BY <2>1 DEF Abstract!Execute
  <1>5. ASSUME id \in DOMAIN index
        PROVE  held = left /\ left \in Nat
    <2>1. PICK k : Located(l, index, id, k)
      BY <1>2, <1>5, LocatedIs
    <2>2. Known(V, nodes, index, id, k)
      BY <1>2, <1>5, <2>1, KnownIs
    <2>3. held = left
      <3> HIDE DEF V
      <3> QED
        BY <2>2, SMTT(30) DEF Known
    <2>4. n \in DOMAIN nodes
      BY <1>2, <1>5, LocatedIs
    <2>5. left \in Nat
      BY <1>2, <2>4 DEF ListsInv, Entries
    <2> QED
      BY <2>3, <2>5
  <1>6. \/ id \notin DOMAIN index /\ outcome = Done("UnknownOrder", b)
        \/ id \in DOMAIN index /\ q = 0 /\ outcome = Done("InvalidQuantity", b)
        \/ id \in DOMAIN index /\ q # 0 /\ left < q /\ outcome = Done("QuantityExceedsRemaining", b)
        \/ id \in DOMAIN index /\ q # 0 /\ left > q /\ Stays(own, pool, nodes, l, index, id, r, outcome)
        \/ /\ id \in DOMAIN index /\ q # 0 /\ left = q
           /\ \E k : Leaves(own, pool, nodes, l, index, id, k, outcome)
    BY DEF ExecuteAnswers, b
  <1>7. CASE \/ id \notin DOMAIN index /\ outcome = Done("UnknownOrder", b)
             \/ id \in DOMAIN index /\ q = 0 /\ outcome = Done("InvalidQuantity", b)
             \/ id \in DOMAIN index /\ q # 0 /\ left < q /\ outcome = Done("QuantityExceedsRemaining", b)
    <2>1. outcome = Done(res, b) /\ res # "Ok"
      <3> HIDE DEF held, left
      <3> QED
        BY <1>5, <1>7
    <2>2. Shown(Done(res, b)) = Refusal(V, res)
      <3> HIDE DEF res
      <3> QED
        BY <1>1, <1>2, DoneShown, SMTT(30) DEF Refusal
    <2> HIDE DEF V, next, res
    <2>3. Abstract!Outcome(V, res, next) = Refusal(V, res)
      BY <2>1, RefusalIs
    <2>4. Shown(outcome) = Abstract!Execute(V, id, q)
      BY <1>4, <2>1, <2>2, <2>3
    <2> QED
      BY <2>4 DEF V
  <1>8. CASE id \in DOMAIN index /\ q # 0 /\ left > q /\ Stays(own, pool, nodes, l, index, id, r, outcome)
    <2>0. outcome = Done("Ok", less) /\ PartsResized(own, pool, nodes, l, index, id, r)
      BY <1>8 DEF Stays
    <2>1. res = "Ok" /\ next = Abstract!SetQuantity(V, id, r) /\ r \in Nat \ {0}
      <3>1. held = left /\ left \in Nat /\ q \in Nat
        BY <1>5, <1>8, SMTT(30)
      <3> HIDE DEF held, left, V
      <3>2. ~(held < q) /\ held # q /\ held - q = r /\ r \in Nat \ {0}
        BY <1>8, <3>1, SMTT(30)
      <3> QED
        BY <1>8, <3>2
    <2>2. Shown(Done("Ok", less)) = [result |-> "Ok", book |-> Abstract!SetQuantity(V, id, r)]
      <3>1. id \in DOMAIN index
        BY <1>8
      <3>2. r \in Nat \ {0} /\ PartsResized(own, pool, nodes, l, index, id, r)
        BY <2>0, <2>1
      <3> HIDE DEF r
      <3>3. Resizes(own, pool, nodes, l, index, id, r)
        BY <1>2, <3>1, <3>2, ResizedShown
      <3> QED
        BY <3>3 DEF Resizes
    <2> HIDE DEF V, next, res, less, r
    <2>3. Abstract!Outcome(V, "Ok", next) = [result |-> "Ok", book |-> next]
      BY AcceptedIs
    <2>4. Shown(outcome) = Abstract!Execute(V, id, q)
      BY <1>4, <2>0, <2>1, <2>2, <2>3
    <2> QED
      BY <2>4 DEF V
  <1>9. CASE /\ id \in DOMAIN index /\ q # 0 /\ left = q
             /\ \E k : Leaves(own, pool, nodes, l, index, id, k, outcome)
    <2>1. PICK k : /\ Located(l, index, id, k) /\ outcome = Done("Ok", gone(k))
                   /\ PartsRemoved(own, pool, nodes, l, index, id, k)
      BY <1>9 DEF Leaves
    <2>2. res = "Ok" /\ next = Abstract!Dequeue(V, id)
      <3>1. held = left /\ left \in Nat /\ q \in Nat
        BY <1>5, <1>9
      <3> HIDE DEF held, left, V
      <3>2. ~(held < q) /\ held = q
        BY <1>9, <3>1, SMTT(30)
      <3> QED
        BY <1>9, <3>2
    <2>3. Shown(Done("Ok", gone(k))) = [result |-> "Ok", book |-> Abstract!Dequeue(V, id)]
      <3> DEFINE places == Drop(index, id)
      <3>1. id \in DOMAIN index /\ Located(l, index, id, k) /\ PartsRemoved(own, pool, nodes, l, index, id, k)
        BY <1>9, <2>1
      <3> HIDE DEF places
      <3>2. Dequeues(own, pool, nodes, l, index, places, id, k)
        BY <1>2, <3>1, RemovedShown
      <3> QED
        BY <3>2 DEF places, Dequeues
    <2> HIDE DEF V, next, res, gone
    <2>4. Abstract!Outcome(V, "Ok", next) = [result |-> "Ok", book |-> next]
      BY AcceptedIs
    <2>5. Shown(outcome) = Abstract!Execute(V, id, q)
      BY <1>4, <2>1, <2>2, <2>3, <2>4
    <2> QED
      BY <2>5 DEF V
  <1> QED
    BY <1>6, <1>7, <1>8, <1>9

\* An order moved to the back of another queue is dequeued and enqueued.
MovesTo(own, pool, nodes, l, index, old_id, e, k) ==
    Shown(Done("Ok", Moved(own, pool, nodes, l, index, old_id, e, k)))
      = [result |-> "Ok",
         book |-> Abstract!Enqueue(Abstract!Dequeue(View(l, nodes), old_id), e)]

\* move_order, when it gets a node: the view of the books after it.
LEMMA MovedShown ==
    ASSUME NEW own, NEW pool, NEW nodes, NEW l, NEW index, Parts(own, pool, nodes, l, index),
           NEW e, Valid(e), CanTake(pool),
           NEW old_id \in DOMAIN index, NEW k, Located(l, index, old_id, k),
           PartsRemoved(own, pool, nodes, l, index, old_id, k),
           PartsMoved(own, pool, nodes, l, index, old_id, e, k)
    PROVE  MovesTo(own, pool, nodes, l, index, old_id, e, k)
  <1> DEFINE t == Top(pool)
             n == index[old_id].iterator
             s == index[old_id].side
             p == index[old_id].price
             v == Entry(e)
             V == View(l, nodes)
             m == Longer(l, e, t)
             N == Put(nodes, t, v)
             short == Shorter(l, s, p, k)
             left == Drop(nodes, n)
             x == Shorter(m, s, p, k)
             Y == Drop(N, n)
             P == Freed(Taken(pool), n)
             places == Reindexed(index, old_id, e, t)
             ok == "Ok"
  <1>1. PICK heap : ~Refused(pool, heap)
    BY DEF CanTake
  <1>2. ListsInv(l, nodes) /\ IndexInv(l, nodes, index) /\ PoolInv(pool, DOMAIN nodes)
    BY DEF Parts
  <1>3. t \notin DOMAIN nodes /\ t \in Int
    <2>1. t \in Slots /\ t \notin DOMAIN nodes
      BY <1>1, <1>2, PoolTake
    <2> HIDE DEF t
    <2> QED
      BY <2>1, CapacityIs, SMTT(30) DEF Slots
  <1>13. ListsInv(short, left) /\ ListsInv(x, Y)
    BY DEF PartsRemoved, PartsMoved, Parts
  <1>4. s \in Sides /\ p \in Prices /\ k \in 1..Len(l[s][p]) /\ l[s][p][k] = n
    BY DEF Located
  <1>5. n \in DOMAIN nodes
    BY <1>2, LocatedIs
  <1>6. Located(m, index, old_id, k)
    BY <1>2, <1>3, StillLocated
  <1>7. k \in 1..Len(m[s][p]) /\ m[s][p][k] = n
    BY <1>6 DEF Located
  <1>8. Found(V, old_id, s, p, k)
    BY <1>2, FoundIs
  <1>9. Moved(own, pool, nodes, l, index, old_id, e, k) = Rest(own, P, Y, x, places)
    BY <1>7 DEF Moved, Removed
  <1>10. Y = Put(left, t, v) /\ t \notin DOMAIN left
    <2> HIDE DEF t, n, v
    <2> QED
      BY <1>3, <1>5 DEF Put, Drop, Restrict
  <1> HIDE DEF t, n, s, p
  <1>11. x = Longer(short, e, t)
    BY <1>2, <1>4, LongerShorter, SMTT(30)
  <1>12. ListsInv(short, left) /\ View(short, left) = Set(V, s, p, Erased(V[s][p], k))
    <2>1. View(short, Drop(nodes, l[s][p][k])) = Set(V, s, p, Erased(V[s][p], k))
      BY <1>2, <1>4, DequeueView, SMTT(30)
    <2> QED
      BY <1>4, <1>13, <2>1
  <1>14. Abstract!Dequeue(V, old_id) = Set(V, s, p, Erased(V[s][p], k))
    <2> HIDE DEF V
    <2> QED
      BY <1>8, DequeueIs, SMTT(30)
  <1>15. View(Longer(short, e, t), Put(left, t, v)) = Abstract!Enqueue(View(short, left), e)
    <2> HIDE DEF short, left
    <2> QED
      BY <1>10, <1>12, EnqueueView, SMTT(30)
  <1> HIDE DEF V, v, m, N, short, left, x, Y, P, places, ok
  <1>16. View(x, Y) = Abstract!Enqueue(Abstract!Dequeue(V, old_id), e)
    BY <1>10, <1>11, <1>12, <1>14, <1>15
  <1>17. Shown(Done(ok, Rest(own, P, Y, x, places))) = [result |-> ok, book |-> View(x, Y)]
    BY <1>13, DoneShown, SMTT(30)
  <1> QED
    BY <1>9, <1>16, <1>17 DEF MovesTo, V, ok

\* What LimitBook's replace returns, in terms of the index.
Answer(index, old_id, e, keep, room) ==
    IF old_id \notin DOMAIN index THEN "UnknownOrder"
    ELSE IF e.quantity = 0 THEN "InvalidQuantity"
    ELSE IF e.price = 0 THEN "InvalidPrice"
    ELSE IF e.side # index[old_id].side THEN "UnknownOrder"
    ELSE IF e.order_id # old_id /\ e.order_id \in DOMAIN index THEN "DuplicateOrder"
    ELSE IF keep
         THEN IF e.price # index[old_id].price \/ e.order_id # old_id THEN "InvalidPrice" ELSE "Ok"
    ELSE IF ~room THEN "AllocationFailed"
    ELSE "Ok"

Turn(V, old_id, e, keep) ==
    IF keep THEN Abstract!SetQuantity(V, old_id, e.quantity)
    ELSE Abstract!Enqueue(Abstract!Dequeue(V, old_id), e)

\* LimitBook's replace looks up the side and the price the index has.
LEMMA AnswerIs ==
    ASSUME NEW l, NEW nodes, NEW index, ListsInv(l, nodes), IndexInv(l, nodes, index),
           NEW old_id, NEW e, NEW keep, NEW room
    PROVE  Abstract!Replace(View(l, nodes), old_id, e, keep, room)
             = Abstract!Outcome(View(l, nodes), Answer(index, old_id, e, keep, room),
                                Turn(View(l, nodes), old_id, e, keep))
  <1> DEFINE V == View(l, nodes)
             s == Abstract!Order(V, old_id).side
             p == Abstract!Order(V, old_id).price
             looked == IF old_id \notin DOMAIN index THEN "UnknownOrder"
                       ELSE IF e.quantity = 0 THEN "InvalidQuantity"
                       ELSE IF e.price = 0 THEN "InvalidPrice"
                       ELSE IF e.side # s THEN "UnknownOrder"
                       ELSE IF e.order_id # old_id /\ e.order_id \in DOMAIN index THEN "DuplicateOrder"
                       ELSE IF keep
                            THEN IF e.price # p \/ e.order_id # old_id THEN "InvalidPrice" ELSE "Ok"
                       ELSE IF ~room THEN "AllocationFailed"
                       ELSE "Ok"
             next == Turn(V, old_id, e, keep)
  <1>1. Abstract!Ids(V) = DOMAIN index
    BY IdsAre
  <1>2. Abstract!Replace(V, old_id, e, keep, room) = Abstract!Outcome(V, looked, next)
    <2> HIDE DEF V
    <2> QED
      BY <1>1 DEF Abstract!Replace, Turn
  <1>3. ASSUME old_id \in DOMAIN index
        PROVE  s = index[old_id].side /\ p = index[old_id].price
    <2>1. PICK k : Located(l, index, old_id, k)
      BY <1>3, LocatedIs
    <2>2. Known(V, nodes, index, old_id, k)
      BY <1>3, <2>1, KnownIs
    <2> HIDE DEF V
    <2> QED
      BY <2>2, SMTT(30) DEF Known
  <1>4. looked = Answer(index, old_id, e, keep, room)
    <2> HIDE DEF s, p
    <2>1. CASE old_id \notin DOMAIN index
      BY <2>1 DEF Answer
    <2>2. CASE old_id \in DOMAIN index
      BY <1>3, <2>2 DEF Answer
    <2> QED
      BY <2>1, <2>2
  <1> HIDE DEF V, looked, next
  <1> QED
    BY <1>2, <1>4 DEF V, next

\* replace
LEMMA ReplaceShown ==
    ASSUME NEW own, NEW pool, NEW nodes, NEW l, NEW index, Parts(own, pool, nodes, l, index),
           NEW old_id, NEW e \in AddOrders, NEW keep \in BOOLEAN,
           NEW outcome, ReplaceAnswers(own, pool, nodes, l, index, old_id, e, keep, outcome)
    PROVE  \E room \in BOOLEAN : Shown(outcome) = Abstract!Replace(View(l, nodes), old_id, e, keep, room)
  <1> DEFINE b == Rest(own, pool, nodes, l, index)
  <1>1. Parts(own, pool, nodes, l, index) /\ b = Rest(own, pool, nodes, l, index)
    OBVIOUS
  <1> HIDE DEF b
  <1>2. ListsInv(l, nodes) /\ IndexInv(l, nodes, index)
    BY <1>1 DEF Parts
  <1> DEFINE V == View(l, nodes)
             old == index[old_id]
             taken == e.order_id # old_id /\ e.order_id \in DOMAIN index
             ok == old_id \in DOMAIN index /\ e.side = old.side /\ ~taken /\ Valid(e)
             less == Rest(own, pool, Resized(nodes, old.iterator, e.quantity), l, index)
             answer(room) == Answer(index, old_id, e, keep, room)
             next == Turn(V, old_id, e, keep)
  <1>4. \A room : Abstract!Replace(V, old_id, e, keep, room) = Abstract!Outcome(V, answer(room), next)
    BY <1>2, AnswerIs, SMTT(30)
  <1>5. \/ outcome = Done(answer(TRUE), b) /\ answer(TRUE) # "Ok"
        \/ /\ ok /\ keep /\ e.price = old.price /\ e.order_id = old_id
           /\ Stays(own, pool, nodes, l, index, old_id, e.quantity, outcome)
        \/ ok /\ ~keep /\ Fails(own, nodes, l, index, outcome)
        \/ /\ ok /\ ~keep /\ CanTake(pool)
           /\ \E k : MovesAway(own, pool, nodes, l, index, old_id, e, k, outcome)
    <2>3. ok => e.quantity # 0 /\ e.price # 0
      BY CapacityIs, SMTT(30) DEF Valid, Prices
    <2> DEFINE known == old_id \in DOMAIN index
               asked == known /\ e.quantity # 0
               priced == asked /\ e.price # 0
               sided == priced /\ e.side = old.side
    <2>4. \/ ~known /\ outcome = Done("UnknownOrder", b)
          \/ known /\ e.quantity = 0 /\ outcome = Done("InvalidQuantity", b)
          \/ asked /\ e.price = 0 /\ outcome = Done("InvalidPrice", b)
          \/ priced /\ e.side # old.side /\ outcome = Done("UnknownOrder", b)
          \/ sided /\ taken /\ outcome = Done("DuplicateOrder", b)
          \/ /\ ok /\ keep /\ (e.price # old.price \/ e.order_id # old_id)
             /\ outcome = Done("InvalidPrice", b)
          \/ /\ ok /\ keep /\ e.price = old.price /\ e.order_id = old_id
             /\ Stays(own, pool, nodes, l, index, old_id, e.quantity, outcome)
          \/ ok /\ ~keep /\ Fails(own, nodes, l, index, outcome)
          \/ /\ ok /\ ~keep /\ CanTake(pool)
             /\ \E k : MovesAway(own, pool, nodes, l, index, old_id, e, k, outcome)
      BY DEF ReplaceAnswers, b
    <2>5. CASE ~known /\ outcome = Done("UnknownOrder", b)
      BY <2>5 DEF Answer
    <2>6. CASE known /\ e.quantity = 0 /\ outcome = Done("InvalidQuantity", b)
      BY <2>6 DEF Answer
    <2>7. CASE asked /\ e.price = 0 /\ outcome = Done("InvalidPrice", b)
      BY <2>7 DEF Answer
    <2>8. CASE priced /\ e.side # old.side /\ outcome = Done("UnknownOrder", b)
      BY <2>8 DEF Answer
    <2>9. CASE sided /\ taken /\ outcome = Done("DuplicateOrder", b)
      BY <2>9 DEF Answer
    <2>10. CASE /\ ok /\ keep /\ (e.price # old.price \/ e.order_id # old_id)
                /\ outcome = Done("InvalidPrice", b)
      BY <2>3, <2>10 DEF Answer
    <2> HIDE DEF known, asked, priced, sided, ok, taken, less, answer
    <2> QED
      BY <2>4, <2>5, <2>6, <2>7, <2>8, <2>9, <2>10
  <1>6. CASE outcome = Done(answer(TRUE), b) /\ answer(TRUE) # "Ok"
    <2> DEFINE r == answer(TRUE)
    <2>1. Abstract!Replace(V, old_id, e, keep, TRUE) = Abstract!Outcome(V, r, next)
      BY <1>4
    <2> HIDE DEF r, next, answer
    <2>2. Shown(Done(r, b)) = Refusal(V, r)
      BY <1>1, <1>2, DoneShown, SMTT(30) DEF Refusal
    <2> HIDE DEF V
    <2>3. outcome = Done(r, b) /\ r # "Ok"
      BY <1>6 DEF r
    <2>4. Abstract!Outcome(V, r, next) = Refusal(V, r)
      BY <2>3, RefusalIs
    <2>5. Shown(outcome) = Abstract!Replace(V, old_id, e, keep, TRUE)
      BY <2>1, <2>2, <2>3, <2>4
    <2> QED
      BY <2>5 DEF V
  <1>7. ASSUME ok PROVE e.quantity # 0 /\ e.price # 0 /\ old_id \in DOMAIN index /\ Valid(e)
    BY <1>7, CapacityIs, SMTT(30) DEF Valid, Prices
  <1>8. CASE /\ ok /\ keep /\ e.price = old.price /\ e.order_id = old_id
             /\ Stays(own, pool, nodes, l, index, old_id, e.quantity, outcome)
    <2>1. answer(TRUE) = "Ok"
      BY <1>7, <1>8 DEF Answer
    <2>2. next = Abstract!SetQuantity(V, old_id, e.quantity)
      BY <1>8 DEF Turn
    <2>3. Shown(Done("Ok", less)) = [result |-> "Ok", book |-> Abstract!SetQuantity(V, old_id, e.quantity)]
      <3> DEFINE q == e.quantity
      <3>1. old_id \in DOMAIN index /\ q \in Nat \ {0} /\ PartsResized(own, pool, nodes, l, index, old_id, q)
        BY <1>7, <1>8 DEF Stays
      <3> HIDE DEF q
      <3>2. Resizes(own, pool, nodes, l, index, old_id, q)
        BY <1>2, <3>1, ResizedShown
      <3> QED
        BY <3>2 DEF q, Resizes
    <2>4. Abstract!Replace(V, old_id, e, keep, TRUE) = Abstract!Outcome(V, answer(TRUE), next)
      BY <1>4
    <2>5. outcome = Done("Ok", less)
      BY <1>8 DEF Stays
    <2> HIDE DEF V, next, answer, less
    <2>6. Abstract!Outcome(V, "Ok", next) = [result |-> "Ok", book |-> next]
      BY AcceptedIs
    <2>7. Shown(outcome) = Abstract!Replace(V, old_id, e, keep, TRUE)
      BY <2>1, <2>2, <2>3, <2>4, <2>5, <2>6
    <2> QED
      BY <2>7 DEF V
  <1>9. CASE ok /\ ~keep /\ Fails(own, nodes, l, index, outcome)
    <2>1. answer(FALSE) = "AllocationFailed"
      BY <1>7, <1>9 DEF Answer
    <2>2. Shown(outcome) = Refusal(V, "AllocationFailed")
      BY <1>2, <1>9, FailsShown DEF Refusal
    <2>3. Abstract!Replace(V, old_id, e, keep, FALSE) = Abstract!Outcome(V, answer(FALSE), next)
      BY <1>4
    <2> HIDE DEF V, next, answer
    <2>4. Abstract!Outcome(V, "AllocationFailed", next) = Refusal(V, "AllocationFailed")
      BY RefusalIs
    <2>5. Shown(outcome) = Abstract!Replace(V, old_id, e, keep, FALSE)
      BY <2>1, <2>2, <2>3, <2>4
    <2> QED
      BY <2>5 DEF V
  <1>10. CASE /\ ok /\ ~keep /\ CanTake(pool)
              /\ \E k : MovesAway(own, pool, nodes, l, index, old_id, e, k, outcome)
    <2>0. PICK k : MovesAway(own, pool, nodes, l, index, old_id, e, k, outcome)
      BY <1>10
    <2> DEFINE to == Abstract!Enqueue(Abstract!Dequeue(V, old_id), e)
               moved == Moved(own, pool, nodes, l, index, old_id, e, k)
    <2>1. answer(TRUE) = "Ok"
      BY <1>7, <1>10 DEF Answer
    <2>2. next = to
      BY <1>10 DEF Turn
    <2>3. Shown(Done("Ok", moved)) = [result |-> "Ok", book |-> to]
      <3>1. /\ Valid(e) /\ old_id \in DOMAIN index /\ CanTake(pool) /\ Located(l, index, old_id, k)
            /\ PartsRemoved(own, pool, nodes, l, index, old_id, k)
            /\ PartsMoved(own, pool, nodes, l, index, old_id, e, k)
        BY <1>7, <1>10, <2>0 DEF MovesAway
      <3>2. MovesTo(own, pool, nodes, l, index, old_id, e, k)
        BY <1>1, <3>1, MovedShown
      <3> QED
        BY <3>2 DEF MovesTo
    <2>4. Abstract!Replace(V, old_id, e, keep, TRUE) = Abstract!Outcome(V, answer(TRUE), next)
      BY <1>4
    <2>5. outcome = Done("Ok", moved)
      BY <2>0 DEF MovesAway
    <2> HIDE DEF V, next, answer, moved, to
    <2>6. Abstract!Outcome(V, "Ok", next) = [result |-> "Ok", book |-> next]
      BY AcceptedIs
    <2>7. Shown(outcome) = Abstract!Replace(V, old_id, e, keep, TRUE)
      BY <2>1, <2>2, <2>3, <2>4, <2>5, <2>6
    <2> QED
      BY <2>7 DEF V
  <1> HIDE DEF ok, answer
  <1> QED
    BY <1>5, <1>6, <1>8, <1>9, <1>10

\* A book without levels holds what an empty LimitBook holds.
LEMMA EmptyShown ==
    ASSUME NEW b, b.levels = [side \in Sides |-> <<>>]
    PROVE  Contents(b) = Abstract!EmptyBook
  <1>1. \A side \in Sides : DOMAIN b.levels[side] = {}
    BY SMTT(30)
  <1>2. Contents(b) = [side \in Sides |-> [price \in 1..MaxPrice |-> <<>>]]
    BY <1>1 DEF Contents
  <1>3. Abstract!EmptyBook = [side \in Sides |-> [price \in 1..MaxPrice |-> <<>>]]
    BY SameNames DEF Abstract!EmptyBook, Prices
  <1> QED
    BY <1>2, <1>3

\* A new object, one that was moved from and one that was reset are empty.
LEMMA NoneShown ==
    /\ Contents(NewBook) = Abstract!EmptyBook
    /\ Contents(MovedFrom) = Abstract!EmptyBook
    /\ \A b, freed : Good(b) => Contents(Cleared(b, freed)) = Abstract!EmptyBook
  <1>1. NewBook.levels = [side \in Sides |-> <<>>] /\ MovedFrom.levels = [side \in Sides |-> <<>>]
    BY DEF NewBook, MovedFrom
  <1>2. ASSUME NEW b, NEW freed, Good(b)
        PROVE  Cleared(b, freed).levels = [side \in Sides |-> <<>>]
    <2>1. PICK own, pool, nodes, l, index : b = Rest(own, pool, nodes, l, index)
      BY <1>2, GoodParts, SMTT(30)
    <2>2. "levels" \in DOMAIN b
      BY <2>1 DEF Rest, Book
    <2> QED
      BY <2>2 DEF Cleared
  <1> QED
    BY <1>1, <1>2, EmptyShown

-----------------------------------------------------------------------------
(* Sums *)

\* There are partial sums, and the last of them is the sum.
LEMMA SumExists ==
    ASSUME Inductive, NEW q \in Seq(Int)
    PROVE  \E s : IsSum(s, q) /\ s \in [0..Len(q) -> Int] /\ ListSum(q) = s[Len(q)]
  <1> DEFINE Is(f, n) == f = [i \in 0..n |-> IF i = 0 THEN 0 ELSE f[i - 1] + q[i]]
             T == {n \in Nat : \E f : Is(f, n)}
  <1>1. 0 \in T
    <2>1. Is([i \in 0..0 |-> 0], 0)
      BY SMTT(30)
    <2> QED
      BY <2>1
  <1>2. ASSUME NEW n \in Nat, n \in T PROVE n + 1 \in T
    <2>1. PICK f : Is(f, n)
      BY <1>2
    <2> DEFINE g == [i \in 0..(n + 1) |-> IF i <= n THEN f[i] ELSE f[n] + q[n + 1]]
    <2>2. Is(g, n + 1)
      BY <2>1, SMTT(30)
    <2>3. n + 1 \in Nat
      BY SMTT(30)
    <2> HIDE DEF Is, g
    <2> QED
      BY <2>2, <2>3
  <1>3. \A n \in Nat : n \in T
    BY <1>1, <1>2, Induction
  <1>4. Len(q) \in Nat
    BY SMTT(30)
  <1> DEFINE s == CHOOSE f : Is(f, Len(q))
  <1>5. Is(s, Len(q)) /\ ListSum(q) = s[Len(q)]
    BY <1>3, <1>4 DEF ListSum
  <1> HIDE DEF s
  <1>6. IsSum(s, q)
    <2> DEFINE G(i) == IF i = 0 THEN 0 ELSE s[i - 1] + q[i]
    <2>0. s = [i \in 0..Len(q) |-> G(i)]
      BY <1>5
    <2> HIDE DEF G
    <2>1. DOMAIN s = 0..Len(q) /\ \A i \in 0..Len(q) : s[i] = G(i)
      BY <2>0
    <2>2. s[0] = 0
      BY <1>4, <2>1, SMTT(30) DEF G
    <2>3. ASSUME NEW i \in 1..Len(q) PROVE s[i] = s[i - 1] + q[i]
      <3>1. i \in 0..Len(q) /\ i # 0
        BY <1>4, SMTT(30)
      <3> QED
        BY <2>1, <3>1 DEF G
    <2> QED
      BY <2>1, <2>2, <2>3 DEF IsSum
  <1> HIDE DEF Is, T
  <1>7. \A n \in Nat : n \in {m \in Nat : m <= Len(q) => s[m] \in Int}
    <2> DEFINE U == {m \in Nat : m <= Len(q) => s[m] \in Int}
    <2>1. 0 \in U
      BY <1>6, SMTT(30) DEF IsSum
    <2>2. ASSUME NEW n \in Nat, n \in U PROVE n + 1 \in U
      <3> SUFFICES ASSUME n + 1 <= Len(q) PROVE s[n + 1] \in Int
        BY SMTT(30)
      <3>1. s[n + 1] = s[n] + q[n + 1] /\ q[n + 1] \in Int /\ s[n] \in Int
        BY <1>4, <1>6, <2>2, ListElements, SMTT(30) DEF IsSum
      <3> QED
        BY <3>1, SMTT(30)
    <2> HIDE DEF U
    <2>3. \A n \in Nat : n \in U
      BY <2>1, <2>2, Induction
    <2> QED
      BY <2>3 DEF U
  <1>8. s \in [0..Len(q) -> Int]
    <2>1. s = [i \in 0..Len(q) |-> s[i]]
      BY <1>5 DEF Is
    <2>2. \A i \in 0..Len(q) : s[i] \in Int
      BY <1>4, <1>7, SMTT(30)
    <2> QED
      BY <2>1, <2>2
  <1> QED
    BY <1>5, <1>6, <1>8

\* The partial sums of a sequence are unique.
LEMMA SumUnique ==
    ASSUME Inductive, NEW q \in Seq(Int), NEW s, IsSum(s, q)
    PROVE  ListSum(q) = s[Len(q)] /\ s[Len(q)] \in Int
  <1>1. PICK t : IsSum(t, q) /\ t \in [0..Len(q) -> Int] /\ ListSum(q) = t[Len(q)]
    BY SumExists
  <1> DEFINE U == {m \in Nat : m <= Len(q) => s[m] = t[m]}
  <1>2. 0 \in U
    BY <1>1 DEF IsSum
  <1>3. ASSUME NEW n \in Nat, n \in U PROVE n + 1 \in U
    <2> SUFFICES ASSUME n + 1 <= Len(q) PROVE s[n + 1] = t[n + 1]
      BY SMTT(30)
    <2>1. s[n + 1] = s[n] + q[n + 1] /\ t[n + 1] = t[n] + q[n + 1] /\ s[n] = t[n]
      BY <1>1, <1>3, SMTT(30) DEF IsSum
    <2> QED
      BY <2>1
  <1> HIDE DEF U
  <1>4. \A n \in Nat : n \in U
    BY <1>2, <1>3, Induction
  <1>5. Len(q) \in Nat /\ Len(q) <= Len(q)
    BY SMTT(30)
  <1>6. s[Len(q)] = t[Len(q)]
    BY <1>4, <1>5 DEF U
  <1> QED
    BY <1>1, <1>5, <1>6, SMTT(30)

\* A partial sum from the one before.
LEMMA SumStep ==
    ASSUME NEW q \in Seq(Int), NEW s \in [0..Len(q) -> Int], IsSum(s, q), NEW i \in 1..Len(q)
    PROVE  /\ s[i] = s[i - 1] + q[i]
           /\ s[i] \in Int /\ s[i - 1] \in Int /\ q[i] \in Int
  <1>1. s[i] = s[i - 1] + q[i]
    BY DEF IsSum
  <1>2. Len(q) \in Nat /\ i \in 0..Len(q) /\ i - 1 \in 0..Len(q)
    BY SMTT(30)
  <1>3. s[i] \in Int /\ s[i - 1] \in Int
    BY <1>2
  <1>4. q[i] \in Int
    BY ListElements
  <1> QED
    BY <1>1, <1>3, <1>4

\* The sum of a longer list.
LEMMA SumAppend ==
    ASSUME Inductive, NEW q \in Seq(Int), NEW r \in Seq(Int), Len(r) = Len(q) + 1,
           \A i \in 1..Len(q) : r[i] = q[i]
    PROVE  ListSum(r) = ListSum(q) + r[Len(r)]
  <1>1. Len(q) \in Nat /\ Len(r) \in 1..Len(r) /\ Len(r) - 1 = Len(q)
    BY SMTT(30)
  <1>2. PICK t : IsSum(t, r) /\ t \in [0..Len(r) -> Int] /\ ListSum(r) = t[Len(r)]
    BY SumExists
  <1> DEFINE s == [i \in 0..Len(q) |-> t[i]]
  <1>3. IsSum(s, q)
    <2>1. DOMAIN s = 0..Len(q) /\ s[0] = 0
      BY <1>1, <1>2, SMTT(30) DEF IsSum
    <2>2. ASSUME NEW i \in 1..Len(q) PROVE s[i] = s[i - 1] + q[i]
      <3>1. i \in 1..Len(r)
        BY <1>1, SMTT(30)
      <3>2. t[i] = t[i - 1] + r[i]
        BY <1>2, <3>1, SumStep
      <3> QED
        BY <1>1, <3>2, SMTT(30)
    <2> HIDE DEF s
    <2> QED
      BY <2>1, <2>2 DEF IsSum
  <1>4. ListSum(q) = t[Len(q)]
    BY <1>1, <1>3, SumUnique, SMTT(30)
  <1>5. t[Len(r)] = t[Len(q)] + r[Len(r)]
    BY <1>1, <1>2, SumStep
  <1> QED
    BY <1>2, <1>4, <1>5

\* Terms of a sum in another order.
LEMMA Regroup ==
    ASSUME NEW a \in Int, NEW x \in Int, NEW d \in Int
    PROVE  (a + x) + d = (a + d) + x
  BY SMTT(30)

\* Arithmetic: the aggregate takes an order in and another one out in either order.
LEMMA RegroupMinus ==
    ASSUME NEW a \in Int, NEW x \in Int, NEW d \in Int
    PROVE  (a + x) - d = (a - d) + x
  BY SMTT(30)

\* Arithmetic: what is added and taken off again cancels out.
LEMMA Cancels ==
    ASSUME NEW a \in Int, NEW x \in Int, NEW d \in Int
    PROVE  ((a + d) + x) - d = a + x
  BY SMTT(30)

\* The sum of a list of which one element changes.
LEMMA SumChange ==
    ASSUME Inductive, NEW q \in Seq(Int), NEW r \in Seq(Int), NEW k \in 1..Len(q), Changed(q, r, k)
    PROVE  ListSum(r) = ListSum(q) + (r[k] - q[k])
  <1>1. Len(q) \in Nat /\ q[k] \in Int /\ r[k] \in Int /\ Len(r) = Len(q)
    BY ListElements DEF Changed
  <1>2. PICK s : IsSum(s, q) /\ s \in [0..Len(q) -> Int] /\ ListSum(q) = s[Len(q)]
    BY SumExists
  <1> DEFINE t == [i \in 0..Len(q) |-> IF i < k THEN s[i] ELSE s[i] + (r[k] - q[k])]
  <1>3. IsSum(t, r)
    <2>1. DOMAIN t = 0..Len(r) /\ t[0] = 0
      BY <1>1, <1>2, SMTT(30) DEF IsSum
    <2>2. ASSUME NEW i \in 1..Len(r) PROVE t[i] = t[i - 1] + r[i]
      <3>1. s[i] = s[i - 1] + q[i] /\ s[i] \in Int /\ s[i - 1] \in Int /\ q[i] \in Int
        BY <1>1, <1>2, SumStep
      <3>2. i \in 0..Len(q) /\ i - 1 \in 0..Len(q) /\ (i # k => r[i] = q[i])
        BY <1>1, SMTT(30) DEF Changed
      <3>3. t[i] = (IF i < k THEN s[i] ELSE s[i] + (r[k] - q[k]))
            /\ t[i - 1] = (IF i - 1 < k THEN s[i - 1] ELSE s[i - 1] + (r[k] - q[k]))
        BY <3>2
      <3> HIDE DEF t
      <3>4. CASE i < k
        BY <3>1, <3>2, <3>3, <3>4, SMTT(30)
      <3>5. CASE i = k
        BY <1>1, <3>1, <3>3, <3>5, SMTT(30)
      <3>6. CASE i > k
        <4> DEFINE d == r[k] - q[k]
        <4>1. ~(i < k) /\ ~(i - 1 < k) /\ i # k
          BY <3>6, SMTT(30)
        <4>2. t[i] = (s[i - 1] + q[i]) + d /\ t[i - 1] = s[i - 1] + d /\ r[i] = q[i]
          BY <3>1, <3>2, <3>3, <4>1
        <4>3. d \in Int
          BY <1>1, SMTT(30)
        <4> HIDE DEF d
        <4>4. (s[i - 1] + q[i]) + d = (s[i - 1] + d) + q[i]
          BY <3>1, <4>3, Regroup
        <4> QED
          BY <4>2, <4>4
      <3> QED
        BY <3>4, <3>5, <3>6, SMTT(30)
    <2> HIDE DEF t
    <2> QED
      BY <2>1, <2>2 DEF IsSum
  <1>4. ListSum(r) = t[Len(q)]
    BY <1>1, <1>3, SumUnique
  <1>5. t[Len(q)] = s[Len(q)] + (r[k] - q[k])
    BY <1>1, <1>2, SMTT(30)
  <1> QED
    BY <1>2, <1>4, <1>5

\* The sum of a list that loses an element.
LEMMA SumRemove ==
    ASSUME Inductive, NEW q \in Seq(Int), NEW r \in Seq(Int), NEW k \in 1..Len(q), Without(q, r, k)
    PROVE  ListSum(r) = ListSum(q) - q[k]
  <1>1. Len(q) \in Nat /\ Len(r) \in Nat /\ q[k] \in Int /\ Len(r) = Len(q) - 1
    BY ListElements DEF Without
  <1>2. PICK s : IsSum(s, q) /\ s \in [0..Len(q) -> Int] /\ ListSum(q) = s[Len(q)]
    BY SumExists
  <1> DEFINE t == [i \in 0..Len(r) |-> IF i < k THEN s[i] ELSE s[i + 1] - q[k]]
  <1>3. IsSum(t, r)
    <2>1. DOMAIN t = 0..Len(r) /\ t[0] = 0
      BY <1>1, <1>2, SMTT(30) DEF IsSum
    <2>2. ASSUME NEW i \in 1..Len(r) PROVE t[i] = t[i - 1] + r[i]
      <3>1. s[i] = s[i - 1] + q[i] /\ s[i] \in Int /\ s[i - 1] \in Int /\ q[i] \in Int
        <4>1. i \in 1..Len(q)
          BY <1>1, SMTT(30)
        <4> QED
          BY <1>2, <4>1, SumStep
      <3>2. i + 1 \in 1..Len(q) /\ (i + 1) - 1 = i
        BY <1>1, SMTT(30)
      <3>3. s[i + 1] = s[i] + q[i + 1] /\ s[i + 1] \in Int /\ q[i + 1] \in Int
        <4> DEFINE j == i + 1
        <4>1. j \in 1..Len(q) /\ j - 1 = i
          BY <3>2
        <4> HIDE DEF j
        <4>2. s[j] = s[j - 1] + q[j] /\ s[j] \in Int /\ q[j] \in Int
          BY <4>1, <1>2, SumStep
        <4> QED
          BY <4>1, <4>2 DEF j
      <3>4. r[i] = IF i < k THEN q[i] ELSE q[i + 1]
        BY DEF Without
      <3>5. t[i] = (IF i < k THEN s[i] ELSE s[i + 1] - q[k])
            /\ t[i - 1] = (IF i - 1 < k THEN s[i - 1] ELSE s[i] - q[k])
        BY <1>1, SMTT(30)
      <3> HIDE DEF t
      <3>6. CASE i < k
        BY <3>1, <3>4, <3>5, <3>6, SMTT(30)
      <3>7. CASE i = k
        <4>1. i - 1 < k /\ ~(i < k) /\ i \in Int
          BY <3>7, SMTT(30)
        <4>2. t[i] = s[i + 1] - q[k] /\ t[i - 1] = s[i - 1] /\ r[i] = q[i + 1] /\ q[k] = q[i]
          BY <4>1, <3>4, <3>5, <3>7
        <4>3. t[i] = ((s[i - 1] + q[i]) + q[i + 1]) - q[i]
          BY <3>1, <3>3, <4>2
        <4>4. ((s[i - 1] + q[i]) + q[i + 1]) - q[i] = s[i - 1] + q[i + 1]
          BY <3>1, <3>3, Cancels
        <4> QED
          BY <4>2, <4>3, <4>4
      <3>8. CASE i > k
        <4>1. ~(i - 1 < k) /\ ~(i < k)
          BY <3>8, SMTT(30)
        <4>2. t[i] = s[i + 1] - q[k] /\ t[i - 1] = s[i] - q[k] /\ r[i] = q[i + 1]
          BY <4>1, <3>4, <3>5
        <4>3. t[i] = (s[i] + q[i + 1]) - q[k]
          BY <3>3, <4>2
        <4>4. s[i] \in Int /\ q[i + 1] \in Int /\ q[k] \in Int
          BY <1>1, <3>1, <3>3, SMTT(30)
        <4>5. (s[i] + q[i + 1]) - q[k] = (s[i] - q[k]) + q[i + 1]
          BY <4>4, RegroupMinus
        <4> QED
          BY <4>2, <4>3, <4>5
      <3> QED
        BY <3>6, <3>7, <3>8, SMTT(30)
    <2> HIDE DEF t
    <2> QED
      BY <2>1, <2>2 DEF IsSum
  <1>4. ListSum(r) = t[Len(r)]
    BY <1>1, <1>3, SumUnique
  <1>5. t[Len(r)] = s[Len(q)] - q[k]
    <2>1. CASE Len(r) < k
      <3>1. k = Len(q) /\ k - 1 = Len(r) /\ Len(q) \in 1..Len(q)
        BY <1>1, <2>1, SMTT(30)
      <3>2. s[Len(q)] = s[k - 1] + q[k] /\ s[k - 1] \in Int
        BY <1>2, <3>1, SumStep
      <3> QED
        BY <1>1, <2>1, <3>1, <3>2, SMTT(30)
    <2>2. CASE ~(Len(r) < k)
      BY <1>1, <2>2, SMTT(30)
    <2> QED
      BY <2>1, <2>2
  <1> QED
    BY <1>2, <1>4, <1>5

-----------------------------------------------------------------------------
(* What the operations on levels do to the shape *)

\* Two functions that agree everywhere are one.
LEMMA SameTable ==
    ASSUME NEW T, NEW f \in [Sides -> [Prices -> T]], NEW g \in [Sides -> [Prices -> T]],
           \A s \in Sides, p \in Prices : f[s][p] = g[s][p]
    PROVE  f = g
  <1>1. ASSUME NEW s \in Sides PROVE f[s] = g[s]
    BY SMTT(30)
  <1> QED
    BY <1>1, SMTT(30)

\* Writing the list of a level.
LEMMA LevelsOrders ==
    ASSUME NEW d, NEW l, NEW a, Typed(d, l, a), NEW s \in Sides, NEW p \in d[s], NEW v \in Seq(Int)
    PROVE  WithOrders(Levels(d, l, a), s, p, v) = Levels(d, Set(l, s, p, v), a)
  <1> DEFINE L == Levels(d, l, a)
             M == [L EXCEPT ![s][p].orders = v]
             N == Levels(d, Set(l, s, p, v), a)
  <1>1. p \in Prices
    BY DEF Typed
  <1>2. ASSUME NEW t \in Sides, NEW r \in d[t] PROVE M[t][r] = N[t][r]
    <2>1. r \in Prices
      BY DEF Typed
    <2>2. L[t][r] = [orders |-> l[t][r], aggregate_quantity |-> a[t][r]]
      BY DEF Levels
    <2>3. N[t][r] = [orders |-> Set(l, s, p, v)[t][r], aggregate_quantity |-> a[t][r]]
      BY DEF Levels
    <2>4. CASE t = s /\ r = p
      <3>1. M[t][r] = [L[t][r] EXCEPT !.orders = v]
        BY <2>4 DEF Levels
      <3>2. Set(l, s, p, v)[t][r] = v
        BY <1>1, <2>4 DEF Set, Typed
      <3> QED
        BY <2>2, <2>3, <3>1, <3>2, SMTT(30)
    <2>5. CASE ~(t = s /\ r = p)
      <3>1. M[t][r] = L[t][r]
        BY <2>5 DEF Levels
      <3>2. Set(l, s, p, v)[t][r] = l[t][r]
        BY <1>1, <2>1, <2>5 DEF Set, Typed
      <3> QED
        BY <2>2, <2>3, <3>1, <3>2
    <2> QED
      BY <2>4, <2>5
  <1>3. /\ M = [t \in Sides |-> M[t]] /\ N = [t \in Sides |-> N[t]]
        /\ \A t \in Sides : M[t] = [r \in d[t] |-> M[t][r]] /\ N[t] = [r \in d[t] |-> N[t][r]]
    BY DEF Levels
  <1> HIDE DEF M, N
  <1>4. ASSUME NEW t \in Sides PROVE M[t] = N[t]
    BY <1>2, <1>3
  <1> QED
    BY <1>3, <1>4 DEF M, N, WithOrders

\* Writing the aggregate of a level.
LEMMA LevelsAggregate ==
    ASSUME NEW d, NEW l, NEW a, Typed(d, l, a), NEW s \in Sides, NEW p \in d[s], NEW v \in Int
    PROVE  WithAggregate(Levels(d, l, a), s, p, v) = Levels(d, l, Set(a, s, p, v))
  <1> DEFINE L == Levels(d, l, a)
             M == [L EXCEPT ![s][p].aggregate_quantity = v]
             N == Levels(d, l, Set(a, s, p, v))
  <1>1. p \in Prices
    BY DEF Typed
  <1>2. ASSUME NEW t \in Sides, NEW r \in d[t] PROVE M[t][r] = N[t][r]
    <2>1. r \in Prices
      BY DEF Typed
    <2>2. L[t][r] = [orders |-> l[t][r], aggregate_quantity |-> a[t][r]]
      BY DEF Levels
    <2>3. N[t][r] = [orders |-> l[t][r], aggregate_quantity |-> Set(a, s, p, v)[t][r]]
      BY DEF Levels
    <2>4. CASE t = s /\ r = p
      <3>1. M[t][r] = [L[t][r] EXCEPT !.aggregate_quantity = v]
        BY <2>4 DEF Levels
      <3>2. Set(a, s, p, v)[t][r] = v
        BY <1>1, <2>4 DEF Set, Typed
      <3> QED
        BY <2>2, <2>3, <3>1, <3>2, SMTT(30)
    <2>5. CASE ~(t = s /\ r = p)
      <3>1. M[t][r] = L[t][r]
        BY <2>5 DEF Levels
      <3>2. Set(a, s, p, v)[t][r] = a[t][r]
        BY <1>1, <2>1, <2>5 DEF Set, Typed
      <3> QED
        BY <2>2, <2>3, <3>1, <3>2
    <2> QED
      BY <2>4, <2>5
  <1>3. /\ M = [t \in Sides |-> M[t]] /\ N = [t \in Sides |-> N[t]]
        /\ \A t \in Sides : M[t] = [r \in d[t] |-> M[t][r]] /\ N[t] = [r \in d[t] |-> N[t][r]]
    BY DEF Levels
  <1> HIDE DEF M, N
  <1>4. ASSUME NEW t \in Sides PROVE M[t] = N[t]
    BY <1>2, <1>3
  <1> QED
    BY <1>3, <1>4 DEF M, N, WithAggregate

\* A level that is emplaced is empty: no order, aggregate 0.
LEMMA LevelsPut ==
    ASSUME NEW d, NEW l, NEW a, Typed(d, l, a), NEW s \in Sides, NEW p \in Prices,
           l[s][p] = <<>>, a[s][p] = 0
    PROVE  [Levels(d, l, a) EXCEPT ![s] = Put(@, p, [orders |-> <<>>, aggregate_quantity |-> 0])]
              = Levels([d EXCEPT ![s] = @ \cup {p}], l, a)
  BY DEF Levels, Put, Typed

\* A level that is erased leaves the others.
LEMMA LevelsDrop ==
    ASSUME NEW d, NEW l, NEW a, Typed(d, l, a), NEW s \in Sides, NEW p
    PROVE  [Levels(d, l, a) EXCEPT ![s] = Drop(@, p)] = Levels([d EXCEPT ![s] = @ \ {p}], l, a)
  BY DEF Levels, Drop, Restrict, Typed

-----------------------------------------------------------------------------
(* What the operations on books do to the shape *)

\* levels.try_emplace(price): the level is there afterwards, whether it was or not.
LEMMA BookEmplaceLevel ==
    ASSUME NEW own, NEW pool, NEW nodes, NEW d, NEW l, NEW a, NEW index, Typed(d, l, a),
           NEW s \in Sides, NEW p \in Prices, p \notin d[s] => l[s][p] = <<>> /\ a[s][p] = 0
    PROVE  EmplaceLevel(Book(own, pool, nodes, d, l, a, index), s, p)
              = Book(own, pool, nodes, [d EXCEPT ![s] = @ \cup {p}], l, a, index)
  <1> DEFINE b == Book(own, pool, nodes, d, l, a, index)
  <1>1. b.levels = Levels(d, l, a) /\ DOMAIN b.levels[s] = d[s]
    BY DEF Book, Levels
  <1>2. CASE p \in d[s]
    <2>1. [d EXCEPT ![s] = @ \cup {p}] = d
      BY <1>2 DEF Typed
    <2> QED
      BY <1>1, <1>2, <2>1 DEF EmplaceLevel
  <1>3. CASE p \notin d[s]
    <2> DEFINE L == [Levels(d, l, a) EXCEPT ![s] = Put(@, p, [orders |-> <<>>, aggregate_quantity |-> 0])]
    <2>1. L = Levels([d EXCEPT ![s] = @ \cup {p}], l, a)
      BY <1>3, LevelsPut, SMTT(30)
    <2>2. EmplaceLevel(b, s, p) = [b EXCEPT !.levels = L]
      BY <1>1, <1>3 DEF EmplaceLevel
    <2> HIDE DEF L
    <2> QED
      BY <2>1, <2>2 DEF Book
  <1> QED
    BY <1>2, <1>3

\* levels.erase(level)
LEMMA BookEraseLevel ==
    ASSUME NEW own, NEW pool, NEW nodes, NEW d, NEW l, NEW a, NEW index, Typed(d, l, a),
           NEW s \in Sides, NEW p
    PROVE  EraseLevel(Book(own, pool, nodes, d, l, a, index), s, p)
              = Book(own, pool, nodes, [d EXCEPT ![s] = @ \ {p}], l, a, index)
  <1> DEFINE b == Book(own, pool, nodes, d, l, a, index)
             L == [Levels(d, l, a) EXCEPT ![s] = Drop(@, p)]
  <1>1. L = Levels([d EXCEPT ![s] = @ \ {p}], l, a)
    BY LevelsDrop, SMTT(30)
  <1>2. EraseLevel(b, s, p) = [b EXCEPT !.levels = L]
    BY DEF EraseLevel, Book
  <1> HIDE DEF L
  <1> QED
    BY <1>1, <1>2 DEF Book

\* orders.emplace_back: a node is taken from the pool and goes to the end of its
\* level.
LEMMA BookEmplaceBack ==
    ASSUME NEW own, NEW pool, NEW nodes, NEW d, NEW l, NEW a, NEW index, Typed(d, l, a),
           NEW e, e.side \in Sides, e.price \in d[e.side], Top(pool) \in Int
    PROVE  EmplaceBack(Book(own, pool, nodes, d, l, a, index), e)
              = Book(own, Taken(pool), Put(nodes, Top(pool), Entry(e)), d,
                     Set(l, e.side, e.price, Append(l[e.side][e.price], Top(pool))), a, index)
  <1> DEFINE b == Book(own, pool, nodes, d, l, a, index)
             n == Top(pool)
             v == Append(l[e.side][e.price], n)
             L == WithOrders(Levels(d, l, a), e.side, e.price, v)
             N == Put(nodes, n, Entry(e))
             P == Taken(pool)
  <1>1. l[e.side][e.price] \in Seq(Int) /\ v \in Seq(Int)
    BY SMTT(30) DEF Typed
  <1>2. L = Levels(d, Set(l, e.side, e.price, v), a)
    <2> HIDE DEF v
    <2> QED
      BY <1>1, LevelsOrders, SMTT(30)
  <1>3. b.levels[e.side][e.price].orders = l[e.side][e.price] /\ b.pool = pool
    BY DEF Book, Levels
  <1>4. EmplaceBack(b, e) = [b EXCEPT !.pool = P, !.nodes = N, !.levels = L]
    <2>1. /\ Pool(b)!Ready(pool, Node) = Readied(pool)
          /\ Pool(b)!Block(Readied(pool)) = n
          /\ Pool(b)!Take(Readied(pool)) = P
      BY SamePool
    <2> HIDE DEF n, P
    <2> QED
      BY <1>3, <2>1 DEF EmplaceBack, Book, Entry, WithOrders
  <1> HIDE DEF L, N, P, v
  <1> QED
    BY <1>2, <1>4 DEF Book, N, P, v

\* orders.erase(iterator): the node leaves its level and returns to the pool.
LEMMA BookEraseNode ==
    ASSUME NEW own, NEW pool, NEW nodes, NEW d, NEW l, NEW a, NEW index, Typed(d, l, a),
           NEW s \in Sides, NEW p \in d[s], NEW n, Erased(l[s][p], Place(l[s][p], n)) \in Seq(Int)
    PROVE  EraseNode(Book(own, pool, nodes, d, l, a, index), s, p, n)
              = Book(own, Freed(pool, n), Drop(nodes, n), d,
                     Set(l, s, p, Erased(l[s][p], Place(l[s][p], n))), a, index)
  <1> DEFINE b == Book(own, pool, nodes, d, l, a, index)
             v == Erased(l[s][p], Place(l[s][p], n))
             L == WithOrders(Levels(d, l, a), s, p, v)
             N == Drop(nodes, n)
             P == Freed(pool, n)
  <1>2. L = Levels(d, Set(l, s, p, v), a)
    <2>1. v \in Seq(Int)
      OBVIOUS
    <2> HIDE DEF v
    <2> QED
      BY <2>1, LevelsOrders, SMTT(30)
  <1>3. b.levels[s][p].orders = l[s][p] /\ b.pool = pool /\ b.levels = Levels(d, l, a) /\ b.nodes = nodes
    BY DEF Book, Levels
  <1>4. EraseNode(b, s, p, n) = [b EXCEPT !.pool = P, !.nodes = N, !.levels = L]
    <2>1. Pool(b)!Deallocate(pool, n, Node.bytes) = P
      BY SamePool
    <2>2. EraseNode(b, s, p, n) =
             [b EXCEPT !.pool = P, !.nodes = N, !.levels[s][p].orders = v]
      <3> HIDE DEF b, P
      <3> QED
        BY <1>3, <2>1 DEF EraseNode, Place
    <2> HIDE DEF v, N, P
    <2> QED
      BY <2>2 DEF Book, WithOrders
  <1> HIDE DEF L, N, P, v
  <1> QED
    BY <1>2, <1>4 DEF Book, N, P, v

\* aggregate_quantity += q, or -= for a negative q.
LEMMA BookAddAggregate ==
    ASSUME NEW own, NEW pool, NEW nodes, NEW d, NEW l, NEW a, NEW index, Typed(d, l, a),
           NEW s \in Sides, NEW p \in d[s], NEW q \in Int
    PROVE  AddAggregate(Book(own, pool, nodes, d, l, a, index), s, p, q)
              = Book(own, pool, nodes, d, l, Set(a, s, p, a[s][p] + q), index)
  <1> DEFINE b == Book(own, pool, nodes, d, l, a, index)
             v == a[s][p] + q
             L == WithAggregate(Levels(d, l, a), s, p, v)
  <1>1. v \in Int
    BY SMTT(30) DEF Typed
  <1>2. L = Levels(d, l, Set(a, s, p, v))
    <2> HIDE DEF v
    <2> QED
      BY <1>1, LevelsAggregate, SMTT(30)
  <1>3. b.levels[s][p].aggregate_quantity = a[s][p] /\ b.levels = Levels(d, l, a)
    BY DEF Book, Levels
  <1>4. AddAggregate(b, s, p, q) = [b EXCEPT !.levels = L]
    <2>1. AddAggregate(b, s, p, q) = [b EXCEPT !.levels[s][p].aggregate_quantity = v]
      <3> HIDE DEF b
      <3> QED
        BY <1>3 DEF AddAggregate
    <2> HIDE DEF v
    <2> QED
      BY <2>1 DEF Book, WithAggregate
  <1> HIDE DEF L, v
  <1> QED
    BY <1>2, <1>4 DEF Book, v

\* orders_by_id_ refers to the order at the back of the level.
LEMMA BookIndex ==
    ASSUME NEW own, NEW pool, NEW nodes, NEW d, NEW l, NEW a, NEW index,
           NEW e, e.side \in Sides, e.price \in d[e.side]
    PROVE  Index(Book(own, pool, nodes, d, l, a, index), e)
              = Book(own, pool, nodes, d, l, a,
                     Put(index, e.order_id, At(e, Back(l[e.side][e.price]))))
  <1> DEFINE b == Book(own, pool, nodes, d, l, a, index)
             X == Put(index, e.order_id, At(e, Back(l[e.side][e.price])))
  <1>1. b.levels[e.side][e.price].orders = l[e.side][e.price] /\ b.orders_by_id = index
    BY DEF Book, Levels
  <1>2. Index(b, e) = [b EXCEPT !.orders_by_id = X]
    <2> HIDE DEF b
    <2> QED
      BY <1>1 DEF Index, At
  <1> HIDE DEF X
  <1> QED
    BY <1>2 DEF Book, X

\* orders_by_id_.erase(order_id)
LEMMA BookUnindex ==
    ASSUME NEW own, NEW pool, NEW nodes, NEW d, NEW l, NEW a, NEW index, NEW id
    PROVE  Unindex(Book(own, pool, nodes, d, l, a, index), id)
              = Book(own, pool, nodes, d, l, a, Drop(index, id))
  BY SMTT(30) DEF Unindex, Book

\* orders_by_id_.erase(order_id) once the order has left its level.
LEMMA RemovedUnindex ==
    ASSUME NEW own, NEW pool, NEW nodes, NEW l, NEW index, NEW s, NEW p, NEW k, NEW id
    PROVE  Unindex(Removed(own, pool, nodes, l, index, s, p, k), id)
              = Removed(own, pool, nodes, l, Drop(index, id), s, p, k)
  <1> DEFINE P == Freed(pool, l[s][p][k])
             N == Drop(nodes, l[s][p][k])
             m == Shorter(l, s, p, k)
             d == Filled(m)
             a == Sums(m, N)
  <1> HIDE DEF P, N, m, d, a
  <1>1. Unindex(Book(own, P, N, d, m, a, index), id) = Book(own, P, N, d, m, a, Drop(index, id))
    BY BookUnindex, SMTT(30)
  <1> QED
    BY <1>1 DEF Removed, Rest, P, N, m, d, a

\* The order enqueued last is the one at the back of its level.
LEMMA BackAppended ==
    ASSUME NEW q \in Seq(Int), NEW n \in Int
    PROVE  Back(Append(q, n)) = n
  <1>1. Len(Append(q, n)) = Len(q) + 1 /\ Append(q, n)[Len(q) + 1] = n
    BY Appended, SMTT(30)
  <1> QED
    BY <1>1 DEF Back

\* The remaining quantity of a node is written.
LEMMA BookResize ==
    ASSUME NEW own, NEW pool, NEW nodes, NEW d, NEW l, NEW a, NEW index, NEW n, NEW q
    PROVE  [Book(own, pool, nodes, d, l, a, index) EXCEPT !.nodes[n].remaining_quantity = q]
              = Book(own, pool, Resized(nodes, n, q), d, l, a, index)
  BY SMTT(30) DEF Resized, Book

=============================================================================
