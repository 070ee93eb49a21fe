------------------------- MODULE OrderBookTheorems --------------------------
(***************************************************************************)
(* What holds of the books, for any objects, ids, prices, quantities and   *)
(* capacities and whichever allocation fails: the lists, the index, the    *)
(* aggregates and the pool of every book agree, and the books implement    *)
(* LimitBook.                                                              *)
(***************************************************************************)
EXTENDS OrderBookProofs, FiniteSetTheorems, TLAPS

\* A leaf that names no other prover is proved by Zenon.
USE ZenonT(30)

(* apply(ExecuteOrder) and apply(ReplaceOrder), in closed form *)

\* apply(ExecuteOrder)
LEMMA ExecuteIs ==
    ASSUME NEW own, NEW pool, NEW nodes, NEW l, NEW index, Parts(own, pool, nodes, l, index),
           NEW id, NEW q \in Nat
    PROVE  ExecuteAnswers(own, pool, nodes, l, index, id, q, Execute(Rest(own, pool, nodes, l, index), id, q))
  <1> DEFINE b == Rest(own, pool, nodes, l, index)
             s == index[id].side
             p == index[id].price
             n == index[id].iterator
             left == nodes[n].remaining_quantity
             reduced == [AddAggregate(b, s, p, -q) EXCEPT !.nodes[n].remaining_quantity = @ - q]
  <1>a. ASSUME id \in DOMAIN index, NEW k, Located(l, index, id, k)
        PROVE  PartsRemoved(own, pool, nodes, l, index, id, k)
    BY <1>a, RemovedParts
  <1>b. ASSUME id \in DOMAIN index, left > q
        PROVE  left - q \in Nat \ {0} /\ PartsResized(own, pool, nodes, l, index, id, left - q)
    <2> DEFINE r == left - q
    <2>1. n \in DOMAIN nodes /\ left \in Nat
      BY <1>b DEF Parts, IndexInv, ListsInv, Entries
    <2>2. r \in Nat \ {0}
      <3> HIDE DEF left
      <3> QED
        BY <1>b, <2>1, SMTT(30)
    <2> HIDE DEF r
    <2>3. PartsResized(own, pool, nodes, l, index, id, r)
      BY <1>b, <2>2, ResizedParts
    <2> QED
      BY <2>2, <2>3 DEF r
  <1> SUFFICES \/ id \notin DOMAIN index /\ Execute(b, id, q) = Done("UnknownOrder", b)
               \/ id \in DOMAIN index /\ q = 0 /\ Execute(b, id, q) = Done("InvalidQuantity", b)
               \/ /\ id \in DOMAIN index /\ q # 0 /\ left < q
                  /\ Execute(b, id, q) = Done("QuantityExceedsRemaining", b)
               \/ /\ id \in DOMAIN index /\ q # 0 /\ left > q
                  /\ Execute(b, id, q) = Done("Ok", Rest(own, pool, Resized(nodes, n, left - q), l, index))
               \/ /\ id \in DOMAIN index /\ q # 0 /\ left = q
                  /\ \E k : /\ Located(l, index, id, k)
                            /\ Execute(b, id, q) = Done("Ok", Removed(own, pool, nodes, l, Drop(index, id),
                                                            index[id].side, index[id].price, k))
    BY <1>a, <1>b DEF ExecuteAnswers, Stays, Leaves
  <1>1. own \in BOOLEAN /\ ListsInv(l, nodes) /\ IndexInv(l, nodes, index) /\ PoolInv(pool, DOMAIN nodes)
    BY DEF Parts
  <1>2. b.orders_by_id = index /\ b.nodes = nodes
    BY DEF Rest, Book
  <1>3. CASE id \notin DOMAIN index \/ q = 0
    <2> HIDE DEF b
    <2> QED
      BY <1>2, <1>3 DEF Execute, b
  <1>4. CASE id \in DOMAIN index /\ q # 0
    <2>1. PICK k : Located(l, index, id, k)
      BY <1>1, <1>4, LocatedIs
    <2>2. s \in Sides /\ p \in Prices /\ k \in 1..Len(l[s][p]) /\ l[s][p][k] = n
      BY <2>1 DEF Located
    <2>3. p \in Filled(l)[s] /\ n \in DOMAIN nodes
      BY <1>1, <1>4, LocatedIs
    <2>4. p \in DOMAIN b.levels[s]
      BY <2>2, <2>3 DEF Rest, Book, Levels
    <2>5. left \in Nat
      BY <1>1, <2>3 DEF ListsInv, Entries
    <2>6. Execute(b, id, q) =
            IF left < q THEN Done("QuantityExceedsRemaining", b)
            ELSE IF left > q THEN Done("Ok", reduced)
            ELSE Done("Ok", Unindex(Detach(reduced, index[id]), id))
      <3> HIDE DEF b
      <3> QED
        BY <1>2, <1>4, <2>4 DEF Execute
    <2>7. CASE left < q
      <3> HIDE DEF b, reduced, left
      <3> QED
        BY <1>4, <2>6, <2>7 DEF b, left
    <2>8. CASE left > q
      <3> DEFINE r == left - q
                 x == -q
      <3>1. r \in Nat \ {0} /\ x \in Int /\ x = r - left
        <4> HIDE DEF left
        <4> QED
          BY <2>5, <2>8, SMTT(30)
      <3>2. (AddAggregate(b, s, p, x)).nodes = nodes
        BY <1>2, SMTT(30) DEF AddAggregate
      <3>3. reduced = WithQuantity(AddAggregate(b, s, p, x), n, r)
        <4> HIDE DEF b, x
        <4> QED
          BY <3>2 DEF x, WithQuantity
      <3>4. WithQuantity(AddAggregate(b, s, p, x), n, r)
              = Rest(own, pool, Resized(nodes, n, r), l, index)
        <4> HIDE DEF r, x, s, p, n
        <4> QED
          BY <1>1, <2>2, <3>1, AdjustIs, SMTT(30)
      <3>5. ~(left < q)
        <4> HIDE DEF left
        <4> QED
          BY <2>5, <2>8, SMTT(30)
      <3> HIDE DEF b, reduced, left, r
      <3>6. Execute(b, id, q) = Done("Ok", Rest(own, pool, Resized(nodes, n, r), l, index))
        BY <2>6, <2>8, <3>3, <3>4, <3>5
      <3> QED
        BY <1>4, <2>8, <3>6 DEF b, left, r
    <2>9. CASE left = q
      <3>1. Detach(reduced, index[id]) = Removed(own, pool, nodes, l, index, s, p, k)
        <4> DEFINE loc == index[id]
        <4>1. loc.side = s /\ loc.price = p /\ loc.iterator = n /\ q = nodes[loc.iterator].remaining_quantity
          BY <2>9
        <4> HIDE DEF loc, s, p, n
        <4>2. Detach(LessQuantity(AddAggregate(b, s, p, -q), loc.iterator, q), loc)
                = Removed(own, pool, nodes, l, index, s, p, k)
          BY <1>1, <2>2, <4>1, UsedUp, SMTT(30)
        <4> QED
          BY <4>1, <4>2 DEF loc, LessQuantity
      <3>2. Unindex(Removed(own, pool, nodes, l, index, s, p, k), id)
              = Removed(own, pool, nodes, l, Drop(index, id), s, p, k)
        <4> HIDE DEF s, p
        <4> QED
          BY RemovedUnindex, SMTT(30)
      <3>3. ~(left < q) /\ ~(left > q)
        <4> HIDE DEF left
        <4> QED
          BY <2>5, <2>9, SMTT(30)
      <3> HIDE DEF b, reduced, left, s, p
      <3>4. Execute(b, id, q) = Done("Ok", Removed(own, pool, nodes, l, Drop(index, id), s, p, k))
        BY <2>6, <3>1, <3>2, <3>3
      <3> QED
        BY <1>4, <2>1, <2>9, <3>4 DEF b, left, s, p
    <2>10. left < q \/ left > q \/ left = q
      <3> HIDE DEF left
      <3> QED
        BY <2>5, SMTT(30)
    <2> QED
      BY <2>7, <2>8, <2>9, <2>10
  <1> QED
    BY <1>3, <1>4

\* The index after a replace, whether the order keeps its id or not.
LEMMA ReindexedIs ==
    ASSUME NEW index, NEW old_id \in DOMAIN index, NEW e, NEW n
    PROVE  /\ e.order_id = old_id => Put(index, e.order_id, At(e, n)) = Reindexed(index, old_id, e, n)
           /\ e.order_id # old_id => Drop(Put(index, e.order_id, At(e, n)), old_id)
                                       = Reindexed(index, old_id, e, n)
  <1> DEFINE at == At(e, n)
             id == e.order_id
  <1> HIDE DEF at, id
  <1>1. id = old_id => Put(index, id, at) = Put(Drop(index, old_id), id, at)
    BY DEF Put, Drop, Restrict
  <1>2. id # old_id => Drop(Put(index, id, at), old_id) = Put(Drop(index, old_id), id, at)
    BY SMTT(30) DEF Put, Drop, Restrict
  <1> QED
    BY <1>1, <1>2 DEF Reindexed, at, id

\* A book in which an order moved is a book.
LEMMA MovedParts ==
    ASSUME NEW own, NEW pool, NEW nodes, NEW l, NEW index, Parts(own, pool, nodes, l, index),
           NEW e, Valid(e), CanTake(pool),
           NEW old_id \in DOMAIN index, e.order_id = old_id \/ e.order_id \notin DOMAIN index,
           NEW k, Located(l, index, old_id, k)
    PROVE  PartsMoved(own, pool, nodes, l, index, old_id, e, k)
  <1> DEFINE n == Top(pool)
             o == index[old_id].iterator
             s == index[old_id].side
             p == index[old_id].price
             v == Entry(e)
             at == At(e, n)
             m == Longer(l, e, n)
             N == Put(nodes, n, v)
             g == Shorter(m, s, p, k)
             left == Drop(nodes, o)
             places == Drop(index, old_id)
  <1>1. PICK heap : ~Refused(pool, heap)
    BY DEF CanTake
  <1>2. own \in BOOLEAN /\ ListsInv(l, nodes) /\ IndexInv(l, nodes, index) /\ PoolInv(pool, DOMAIN nodes)
    BY DEF Parts
  <1>3. /\ Lengthened(nodes, l, e, n) /\ n \in Slots /\ n \notin DOMAIN nodes /\ n \in Int
        /\ PoolInv(Taken(pool), DOMAIN nodes \cup {n})
    BY <1>1, <1>2, LongerIs
  <1>4. ListsInv(m, N)
    BY <1>3 DEF Lengthened
  <1>5. o \in DOMAIN nodes
    BY <1>2, LocatedIs
  <1>6. DOMAIN N = DOMAIN nodes \cup {n} /\ DOMAIN Drop(N, o) = (DOMAIN nodes \cup {n}) \ {o}
        /\ DOMAIN left = DOMAIN nodes \ {o} /\ DOMAIN places = DOMAIN index \ {old_id}
    BY DEF Put, Drop, Restrict
  <1>7. Drop(N, o) = Put(left, n, v)
    <2> HIDE DEF n, o, v
    <2> QED
      BY <1>3, <1>5, SMTT(30) DEF Put, Drop, Restrict
  <1>8. Located(m, index, old_id, k)
    BY <1>2, <1>3, StillLocated
  <1>9. s \in Sides /\ p \in Prices /\ k \in 1..Len(m[s][p]) /\ m[s][p][k] = o
    BY <1>8 DEF Located
  <1>10. e.side \in Sides /\ e.price \in Prices /\ v \in Entries /\ v.order_id = e.order_id
    BY DEF Valid, Entry, Entries
  <1>11. at \in [side : Sides, price : Prices, iterator : {n}] /\ at.side = e.side /\ at.price = e.price
    BY <1>10 DEF At
  <1>12. In(n, m, e.side, e.price) /\ Keeps(l, m, DOMAIN nodes)
    BY <1>2, <1>3, <1>10, AddIn DEF Longer
  <1> HIDE DEF n, o, s, p, v, at, m, N
  <1>13. Shortened(N, m, s, p, k)
    BY <1>4, <1>9, ShorterIs
  <1>14. ListsInv(g, Drop(N, o))
    BY <1>9, <1>13 DEF Shortened
  <1>15. Keeps(m, g, DOMAIN N \ {o})
    <2>1. Keeps(m, g, DOMAIN N \ {m[s][p][k]})
      BY <1>4, <1>9, RemoveIn
    <2> QED
      BY <1>9, <2>1
  <1> HIDE DEF g
  <1>16. In(n, g, e.side, e.price) /\ Keeps(l, g, DOMAIN left)
    BY <1>3, <1>5, <1>6, <1>10, <1>12, <1>15 DEF Keeps
  <1>17. PoolInv(Freed(Taken(pool), o), (DOMAIN nodes \cup {n}) \ {o})
    BY <1>3, <1>5, PoolFree
  <1>18. IndexInv(l, left, places)
    <2>1. Keeps(l, l, DOMAIN nodes \ {index[old_id].iterator})
      BY DEF Keeps
    <2> QED
      BY <1>2, <2>1, IndexRemove DEF o
  <1>19. n \notin DOMAIN left /\ v.order_id \notin DOMAIN places
    BY <1>3, <1>6, <1>10
  <1> HIDE DEF left, places
  <1>20. IndexInv(g, Put(left, n, v), Put(places, v.order_id, at))
    BY <1>10, <1>11, <1>16, <1>18, <1>19, IndexAdd
  <1>21. Put(places, v.order_id, at) = Reindexed(index, old_id, e, n)
    BY <1>10 DEF Reindexed, places, at
  <1>22. Parts(own, Freed(Taken(pool), o), Drop(N, o), g, Reindexed(index, old_id, e, n))
    BY <1>2, <1>6, <1>7, <1>14, <1>17, <1>20, <1>21 DEF Parts
  <1> QED
    BY <1>22 DEF PartsMoved, n, o, s, p, v, m, N, g

\* The branch of apply(ReplaceOrder) that gives up the place in the queue.
LEMMA MoveToIs ==
    ASSUME NEW own, NEW pool, NEW nodes, NEW l, NEW index, Parts(own, pool, nodes, l, index),
           NEW e, Valid(e), NEW old_id \in DOMAIN index, NEW fail
    PROVE  Moves(own, pool, nodes, l, index, old_id, e,
                 MoveTo(Rest(own, pool, nodes, l, index), old_id, e, fail))
  <1> DEFINE b == Rest(own, pool, nodes, l, index)
             old == index[old_id]
             ix == e.order_id # old_id
             inserted == Insert(b, e, ix, fail)
             counted == AddAggregate(inserted.book, e.side, e.price, e.quantity)
             indexed == IF e.order_id = old_id THEN Index(counted, e) ELSE Unindex(counted, old_id)
             outcome == MoveTo(b, old_id, e, fail)
             n == Top(pool)
             m == Longer(l, e, n)
             N == Put(nodes, n, Entry(e))
             places == IF ix THEN Put(index, e.order_id, At(e, n)) ELSE index
             moved == Reindexed(index, old_id, e, n)
  <1>1. own \in BOOLEAN /\ ListsInv(l, nodes) /\ IndexInv(l, nodes, index) /\ PoolInv(pool, DOMAIN nodes)
    BY DEF Parts
  <1>2. outcome = IF inserted.result # "Ok" THEN inserted ELSE Done("Ok", Detach(indexed, old))
    <2>1. b.orders_by_id = index
      BY DEF Rest, Book
    <2> HIDE DEF b
    <2> QED
      BY <2>1 DEF MoveTo
  <1>3. Inserts(own, pool, nodes, l, index, e, ix, inserted)
    <2>1. ix \in BOOLEAN
      OBVIOUS
    <2> HIDE DEF ix
    <2> QED
      BY <1>1, <2>1, InsertIs
  <1>4. CASE Fails(own, nodes, l, index, inserted)
    <2>1. inserted.result # "Ok"
      <3> HIDE DEF inserted
      <3> QED
        BY <1>4, SMTT(30) DEF Fails, Done
    <2>2. outcome = inserted
      <3> HIDE DEF inserted, outcome
      <3> QED
        BY <1>2, <2>1
    <2> HIDE DEF outcome, inserted
    <2>3. Moves(own, pool, nodes, l, index, old_id, e, outcome)
      BY <1>4, <2>2 DEF Moves
    <2> QED
      BY <2>3 DEF outcome
  <1>5. CASE CanTake(pool) /\ inserted = Done("Ok", Uncounted(own, pool, nodes, l, places, e))
    <2> DEFINE u == Uncounted(own, pool, nodes, l, places, e)
    <2>1. inserted.result = "Ok" /\ inserted.book = u
      <3> HIDE DEF inserted, u
      <3> QED
        BY <1>5 DEF Done, u
    <2>2. AddAggregate(u, e.side, e.price, e.quantity) = Added(own, pool, nodes, l, places, e)
      <3> HIDE DEF places
      <3> QED
        BY <1>1, <1>5, CountedIs, SMTT(30)
    <2>3. counted = Added(own, pool, nodes, l, places, e)
      <3> HIDE DEF inserted, u
      <3> QED
        BY <2>1, <2>2
    <2>4. PICK heap : ~Refused(pool, heap)
      BY <1>5 DEF CanTake
    <2>5. Lengthened(nodes, l, e, n) /\ n \in Int
      BY <1>1, <2>4, LongerIs
    <2>6. ListsInv(m, N) /\ e.price \in Filled(m)[e.side] /\ m[e.side][e.price] = Append(l[e.side][e.price], n)
          /\ l[e.side][e.price] \in Seq(Int)
      BY <2>5 DEF Lengthened, Typed, Valid
    <2>7. indexed = Added(own, pool, nodes, l, moved, e)
      <3>1. CASE e.order_id = old_id
        <4>1. places = index /\ indexed = Index(counted, e)
          BY <3>1
        <4>2. Back(m[e.side][e.price]) = n
          BY <2>5, <2>6, BackAppended
        <4>3. e.side \in Sides /\ e.price \in Filled(m)[e.side]
          BY <2>6 DEF Valid
        <4>4. Index(Rest(own, Taken(pool), N, m, index), e)
                = Rest(own, Taken(pool), N, m, Put(index, e.order_id, At(e, Back(m[e.side][e.price]))))
          <5> HIDE DEF N, m
          <5> QED
            BY <4>3, BookIndex, SMTT(30) DEF Rest
        <4>5. Put(index, e.order_id, At(e, n)) = moved
          BY <3>1, ReindexedIs
        <4> HIDE DEF counted, indexed, places, moved
        <4> QED
          BY <2>3, <4>1, <4>2, <4>4, <4>5 DEF Added
      <3>2. CASE e.order_id # old_id
        <4>1. places = Put(index, e.order_id, At(e, n)) /\ indexed = Unindex(counted, old_id)
          BY <3>2
        <4>2. Unindex(Rest(own, Taken(pool), N, m, places), old_id)
                = Rest(own, Taken(pool), N, m, Drop(places, old_id))
          BY BookUnindex, SMTT(30) DEF Rest
        <4>3. Drop(Put(index, e.order_id, At(e, n)), old_id) = moved
          BY <3>2, ReindexedIs
        <4> HIDE DEF counted, indexed, places, moved
        <4> QED
          BY <2>3, <4>1, <4>2, <4>3 DEF Added
      <3> QED
        BY <3>1, <3>2
    <2>8. PICK k : Located(l, index, old_id, k)
      BY <1>1, LocatedIs
    <2>9. Located(m, index, old_id, k)
      BY <1>1, <2>5, <2>8, StillLocated
    <2> DEFINE s == old.side
               p == old.price
    <2>10. s \in Sides /\ p \in Prices /\ k \in 1..Len(m[s][p]) /\ m[s][p][k] = old.iterator
      BY <2>9 DEF Located
    <2>11. Detach(Rest(own, Taken(pool), N, m, moved), old) = Removed(own, Taken(pool), N, m, moved, s, p, k)
      <3>1. old.side = s /\ old.price = p
        OBVIOUS
      <3> HIDE DEF N, m, moved, s, p, old
      <3> QED
        BY <2>6, <2>10, <3>1, DetachIs, SMTT(30)
    <2>12. outcome = Done("Ok", Moved(own, pool, nodes, l, index, old_id, e, k))
      <3>1. Removed(own, Taken(pool), N, m, moved, s, p, k) = Moved(own, pool, nodes, l, index, old_id, e, k)
        BY DEF Moved
      <3>2. Added(own, pool, nodes, l, moved, e) = Rest(own, Taken(pool), N, m, moved)
        BY DEF Added
      <3> HIDE DEF outcome, inserted, indexed, N, m, moved, s, p, old
      <3> QED
        BY <1>2, <2>1, <2>7, <2>11, <3>1, <3>2
    <2> HIDE DEF outcome
    <2>13. Moves(own, pool, nodes, l, index, old_id, e, outcome)
      BY <1>5, <2>8, <2>12 DEF Moves
    <2> QED
      BY <2>13 DEF outcome
  <1> QED
    BY <1>3, <1>4, <1>5 DEF Inserts

\* replace
LEMMA ReplaceIs ==
    ASSUME NEW own, NEW pool, NEW nodes, NEW l, NEW index, Parts(own, pool, nodes, l, index),
           NEW old_id, NEW e, e.order_id \in OrderIds, e.price \in 0..MaxPrice,
           e.quantity \in 0..MaxQuantity, NEW keep \in BOOLEAN, NEW fail
    PROVE  ReplaceAnswers(own, pool, nodes, l, index, old_id, e, keep,
                          Replace(Rest(own, pool, nodes, l, index), old_id, e, keep, fail))
  <1> DEFINE b == Rest(own, pool, nodes, l, index)
             outcome == Replace(b, old_id, e, keep, fail)
             old == index[old_id]
             known == old_id \in DOMAIN index
             asked == known /\ e.quantity # 0
             priced == asked /\ e.price # 0
             sided == priced /\ e.side = old.side
             taken == e.order_id # old_id /\ e.order_id \in DOMAIN index
             ok == /\ old_id \in DOMAIN index /\ e.quantity # 0 /\ e.price # 0
                   /\ e.side = old.side /\ ~taken
  <1>a. ASSUME old_id \in DOMAIN index, Valid(e), ~taken, CanTake(pool), NEW k, Located(l, index, old_id, k)
        PROVE  /\ PartsRemoved(own, pool, nodes, l, index, old_id, k)
               /\ PartsMoved(own, pool, nodes, l, index, old_id, e, k)
    BY <1>a, RemovedParts, MovedParts
  <1>b. ASSUME old_id \in DOMAIN index, Valid(e)
        PROVE  e.quantity \in Nat \ {0} /\ PartsResized(own, pool, nodes, l, index, old_id, e.quantity)
    <2> DEFINE q == e.quantity
    <2>1. q \in Nat \ {0}
      BY <1>b DEF Valid
    <2> HIDE DEF q
    <2>2. PartsResized(own, pool, nodes, l, index, old_id, q)
      BY <1>b, <2>1, ResizedParts
    <2> QED
      BY <2>1, <2>2 DEF q
  <1> SUFFICES \/ ~known /\ outcome = Done("UnknownOrder", b)
               \/ known /\ e.quantity = 0 /\ outcome = Done("InvalidQuantity", b)
               \/ asked /\ e.price = 0 /\ outcome = Done("InvalidPrice", b)
               \/ priced /\ e.side # old.side /\ outcome = Done("UnknownOrder", b)
               \/ sided /\ taken /\ outcome = Done("DuplicateOrder", b)
               \/ /\ ok /\ Valid(e) /\ keep /\ (e.price # old.price \/ e.order_id # old_id)
                  /\ outcome = Done("InvalidPrice", b)
               \/ /\ ok /\ Valid(e) /\ keep /\ e.price = old.price /\ e.order_id = old_id
                  /\ outcome = Done("Ok", Rest(own, pool, Resized(nodes, old.iterator, e.quantity), l, index))
               \/ ok /\ Valid(e) /\ ~keep /\ Moves(own, pool, nodes, l, index, old_id, e, outcome)
    BY <1>a, <1>b DEF ReplaceAnswers, Stays, MovesAway, Moves
  <1>1. own \in BOOLEAN /\ ListsInv(l, nodes) /\ IndexInv(l, nodes, index) /\ PoolInv(pool, DOMAIN nodes)
    BY DEF Parts
  <1>2. b.orders_by_id = index /\ b.nodes = nodes
    BY DEF Rest, Book
  <1>3. CASE ~ok
    <2> HIDE DEF b, old
    <2>1. b = b
      OBVIOUS
    <2> QED
      BY <1>2, <1>3 DEF Replace, b, old
  <1>4. CASE ok
    <2>1. PICK k : Located(l, index, old_id, k)
      BY <1>1, <1>4, LocatedIs
    <2> DEFINE s == old.side
               p == old.price
               n == old.iterator
    <2>2. s \in Sides /\ p \in Prices /\ k \in 1..Len(l[s][p]) /\ l[s][p][k] = n
      BY <2>1 DEF Located
    <2>3. Valid(e)
      BY <1>4, <2>2, OrderBookAssumption, SMTT(30) DEF Valid, Prices
    <2>4. outcome = IF ~keep THEN MoveTo(b, old_id, e, fail)
                    ELSE IF e.price # old.price \/ e.order_id # old_id THEN Done("InvalidPrice", b)
                    ELSE Done("Ok", Adjust(b, old, e.quantity))
      <3> HIDE DEF b
      <3> QED
        BY <1>2, <1>4 DEF Replace
    <2>5. CASE ~keep
      <3>1. Moves(own, pool, nodes, l, index, old_id, e, MoveTo(b, old_id, e, fail))
        BY <1>4, <2>3, MoveToIs
      <3>2. outcome = MoveTo(b, old_id, e, fail)
        <4> HIDE DEF b, outcome
        <4> QED
          BY <2>4, <2>5
      <3> QED
        BY <1>4, <2>3, <2>5, <3>1, <3>2
    <2>6. CASE keep /\ (e.price # old.price \/ e.order_id # old_id)
      <3>1. outcome = Done("InvalidPrice", b)
        <4> HIDE DEF b, outcome
        <4> QED
          BY <2>4, <2>6
      <3> QED
        BY <1>4, <2>3, <2>6, <3>1
    <2>7. CASE keep /\ ~(e.price # old.price \/ e.order_id # old_id)
      <3> DEFINE q == e.quantity
                 x == q - nodes[n].remaining_quantity
      <3>1. n \in DOMAIN nodes
        BY <1>1, <1>4, LocatedIs
      <3>2. nodes[n].remaining_quantity \in Nat
        BY <1>1, <3>1 DEF ListsInv, Entries
      <3>3. q \in Nat \ {0} /\ x \in Int
        BY <2>3, <3>2, SMTT(30) DEF Valid
      <3>4. Adjust(b, old, q) = WithQuantity(AddAggregate(b, s, p, x), n, q)
        <4> HIDE DEF b
        <4> QED
          BY <1>2 DEF Adjust, WithQuantity
      <3>5. WithQuantity(AddAggregate(b, s, p, x), n, q) = Rest(own, pool, Resized(nodes, n, q), l, index)
        <4>1. x = q - nodes[n].remaining_quantity
          OBVIOUS
        <4> HIDE DEF q, x, s, p, n
        <4>2. ListsInv(l, nodes) /\ n = l[s][p][k]
          BY <1>1, <2>2
        <4> QED
          BY <2>2, <3>3, <4>1, <4>2, AdjustIs, SMTT(30)
      <3>6. outcome = Done("Ok", Rest(own, pool, Resized(nodes, n, q), l, index))
        <4> HIDE DEF b, outcome, x, s, p
        <4> QED
          BY <2>4, <2>7, <3>4, <3>5
      <3> QED
        BY <1>4, <2>3, <2>7, <3>6
    <2> QED
      BY <2>5, <2>6, <2>7
  <1> QED
    BY <1>3, <1>4

-----------------------------------------------------------------------------
(* What the lemmas assume of numbers and of finite sets *)

\* Induction over sets of numbers: a set that does not contain all of them
\* lacks a least one.
LEMMA Inductively == Inductive
  <1> SUFFICES ASSUME NEW T, 0 \in T, \A n \in Nat : n \in T => n + 1 \in T,
                      NEW m \in Nat, m \notin T
               PROVE  FALSE
    BY DEF Inductive
  <1> DEFINE U == {n \in Nat : n \notin T}
  <1>1. U \subseteq Nat /\ U # {}
    OBVIOUS
  <1>2. PICK x \in U : \A y \in U : <<y, x>> \notin OpToRel(<, Nat)
    BY <1>1, NatLessThanWellFounded, WFMin
  <1>3. \A y \in U : ~(y < x)
    BY <1>2 DEF OpToRel
  <1>4. x # 0 /\ x - 1 \in Nat /\ x - 1 < x
    BY SMTT(30)
  <1> QED
    BY <1>3, <1>4, SMTT(30)

\* The slots of a pool are finitely many, and so are those handed out.
LEMMA Counts == Countable
  <1> DEFINE last == Capacity - 1
  <1>1. last \in Int /\ 0 \in Int /\ Capacity \in Nat \ {0}
    BY CapacityIs, SMTT(30)
  <1>2. Slots = 0..last
    BY DEF Slots
  <1>3. IsFiniteSet(Slots) /\ Cardinality(Slots) = IF 0 > last THEN 0 ELSE last - 0 + 1
    <2> HIDE DEF last
    <2> QED
      BY <1>1, <1>2, FS_Interval
  <1>4. Cardinality(Slots) = Capacity
    BY <1>1, <1>3, SMTT(30)
  <1>5. ASSUME NEW h \in SUBSET Slots
        PROVE  IsFiniteSet(h) /\ Cardinality(h) \in Nat
    BY <1>3, FS_Subset, FS_CardinalityType
  <1>6. ASSUME NEW h \in SUBSET Slots, NEW n \in Slots \ h
        PROVE  Cardinality(h \cup {n}) = Cardinality(h) + 1
    BY <1>5, FS_AddElement
  <1> QED
    BY <1>4, <1>5, <1>6, FS_EmptySet DEF Countable

-----------------------------------------------------------------------------
(* The calls on a good book *)

\* apply(AddOrder) leaves a good book, and does what LimitBook says.
LEMMA AddDone ==
    ASSUME NEW b, Good(b), NEW e \in AddOrders, NEW fail
    PROVE  /\ Good(Add(b, e, fail).book)
           /\ \E room \in BOOLEAN : Shown(Add(b, e, fail)) = Abstract!Add(Contents(b), e, room)
  <1>1. PICK own, pool, nodes, l, index :
          Parts(own, pool, nodes, l, index) /\ b = Rest(own, pool, nodes, l, index)
    BY GoodParts
  <1> DEFINE outcome == Add(b, e, fail)
  <1>2. AddAnswers(own, pool, nodes, l, index, e, outcome)
    BY <1>1, Arguments, AddIs
  <1>3. Contents(b) = View(l, nodes)
    BY <1>1, ContentsIs, SMTT(30) DEF Parts
  <1> HIDE DEF outcome
  <1>4. Good(outcome.book)
    BY <1>1, <1>2, AddGood
  <1>5. \E room \in BOOLEAN : Shown(outcome) = Abstract!Add(View(l, nodes), e, room)
    BY <1>1, <1>2, AddShown, SMTT(30)
  <1> QED
    BY <1>3, <1>4, <1>5 DEF outcome

\* apply(CancelOrder) leaves a good book, and does what LimitBook says.
LEMMA CancelDone ==
    ASSUME NEW b, Good(b), NEW id
    PROVE  /\ Good(Cancel(b, id).book)
           /\ Shown(Cancel(b, id)) = Abstract!Cancel(Contents(b), id)
  <1>1. PICK own, pool, nodes, l, index :
          Parts(own, pool, nodes, l, index) /\ b = Rest(own, pool, nodes, l, index)
    BY GoodParts
  <1> DEFINE outcome == Cancel(b, id)
  <1>2. CancelAnswers(own, pool, nodes, l, index, id, outcome)
    BY <1>1, CancelIs
  <1>3. Contents(b) = View(l, nodes)
    BY <1>1, ContentsIs, SMTT(30) DEF Parts
  <1> HIDE DEF outcome
  <1>4. Good(outcome.book)
    BY <1>1, <1>2, CancelGood
  <1>5. Shown(outcome) = Abstract!Cancel(View(l, nodes), id)
    BY <1>1, <1>2, CancelShown, SMTT(30)
  <1> QED
    BY <1>3, <1>4, <1>5 DEF outcome

\* apply(ExecuteOrder) leaves a good book, and does what LimitBook says.
LEMMA ExecuteDone ==
    ASSUME NEW b, Good(b), NEW id, NEW q \in 0..MaxQuantity
    PROVE  /\ Good(Execute(b, id, q).book)
           /\ Shown(Execute(b, id, q)) = Abstract!Execute(Contents(b), id, q)
  <1>1. PICK own, pool, nodes, l, index :
          Parts(own, pool, nodes, l, index) /\ b = Rest(own, pool, nodes, l, index)
    BY GoodParts
  <1> DEFINE outcome == Execute(b, id, q)
  <1>2. ExecuteAnswers(own, pool, nodes, l, index, id, q, outcome)
    <2>1. q \in Nat
      BY SMTT(30)
    <2> QED
      BY <1>1, <2>1, ExecuteIs
  <1>3. Contents(b) = View(l, nodes)
    BY <1>1, ContentsIs, SMTT(30) DEF Parts
  <1> HIDE DEF outcome
  <1>4. Good(outcome.book)
    BY <1>1, <1>2, ExecuteGood
  <1>5. Shown(outcome) = Abstract!Execute(View(l, nodes), id, q)
    BY <1>1, <1>2, ExecuteShown, SMTT(30)
  <1> QED
    BY <1>3, <1>4, <1>5 DEF outcome

\* replace leaves a good book, and does what LimitBook says.
LEMMA ReplaceDone ==
    ASSUME NEW b, Good(b), NEW old_id, NEW e \in AddOrders, NEW keep \in BOOLEAN, NEW fail
    PROVE  /\ Good(Replace(b, old_id, e, keep, fail).book)
           /\ \E room \in BOOLEAN : Shown(Replace(b, old_id, e, keep, fail))
                                      = Abstract!Replace(Contents(b), old_id, e, keep, room)
  <1>1. PICK own, pool, nodes, l, index :
          Parts(own, pool, nodes, l, index) /\ b = Rest(own, pool, nodes, l, index)
    BY GoodParts
  <1> DEFINE outcome == Replace(b, old_id, e, keep, fail)
  <1>2. ReplaceAnswers(own, pool, nodes, l, index, old_id, e, keep, outcome)
    BY <1>1, Arguments, ReplaceIs
  <1>3. Contents(b) = View(l, nodes)
    BY <1>1, ContentsIs, SMTT(30) DEF Parts
  <1> HIDE DEF outcome
  <1>4. Good(outcome.book)
    BY <1>1, <1>2, ReplaceGood
  <1>5. \E room \in BOOLEAN : Shown(outcome) = Abstract!Replace(View(l, nodes), old_id, e, keep, room)
    BY <1>1, <1>2, ReplaceShown, SMTT(30)
  <1> QED
    BY <1>3, <1>4, <1>5 DEF outcome

-----------------------------------------------------------------------------
(* The books are consistent *)

\* The inductive invariant.
AllGood ==
    /\ books = [o \in Objects |-> books[o]]
    /\ \A o \in Objects : Good(books[o])

\* Every call, on whatever object and with whatever arguments, keeps all books good.
LEMMA StepGood ==
    ASSUME AllGood, Next
    PROVE  AllGood'
  <1>1. ASSUME NEW o \in Objects, NEW outcome, Good(outcome.book), Returns(o, outcome)
        PROVE  AllGood'
    <2> DEFINE B == outcome.book
    <2>1. books' = [books EXCEPT ![o] = B]
      BY <1>1 DEF Returns
    <2>2. Good(B)
      BY <1>1
    <2> HIDE DEF B
    <2> QED
      BY <2>1, <2>2 DEF AllGood
  <1>2. ASSUME NEW o \in Objects, ApplyAdd(o) PROVE AllGood'
    <2>1. PICK e \in AddOrders, fail \in Heap : Returns(o, Add(books[o], e, fail))
      BY <1>2, SMTT(30) DEF ApplyAdd
    <2> DEFINE outcome == Add(books[o], e, fail)
    <2>2. Good(outcome.book)
      BY AddDone DEF AllGood
    <2> HIDE DEF outcome
    <2>3. Returns(o, outcome)
      BY <2>1 DEF outcome
    <2> QED
      BY <1>1, <2>2, <2>3
  <1>3. ASSUME NEW o \in Objects, ApplyCancel(o) PROVE AllGood'
    <2>1. PICK id \in OrderIds : Returns(o, Cancel(books[o], id))
      BY <1>3 DEF ApplyCancel
    <2> DEFINE outcome == Cancel(books[o], id)
    <2>2. Good(outcome.book)
      BY CancelDone DEF AllGood
    <2> HIDE DEF outcome
    <2>3. Returns(o, outcome)
      BY <2>1 DEF outcome
    <2> QED
      BY <1>1, <2>2, <2>3
  <1>4. ASSUME NEW o \in Objects, ApplyExecute(o) PROVE AllGood'
    <2>1. PICK id \in OrderIds, q \in 0..MaxQuantity : Returns(o, Execute(books[o], id, q))
      BY <1>4, SMTT(30) DEF ApplyExecute
    <2> DEFINE outcome == Execute(books[o], id, q)
    <2>2. Good(outcome.book)
      BY ExecuteDone DEF AllGood
    <2> HIDE DEF outcome
    <2>3. Returns(o, outcome)
      BY <2>1 DEF outcome
    <2> QED
      BY <1>1, <2>2, <2>3
  <1>5. ASSUME NEW o \in Objects, ApplyReplace(o) PROVE AllGood'
    <2>1. PICK id \in OrderIds, e \in AddOrders, keep \in BOOLEAN, fail \in Heap :
             Returns(o, Replace(books[o], id, e, keep, fail))
      BY <1>5, SMTT(30) DEF ApplyReplace
    <2> DEFINE outcome == Replace(books[o], id, e, keep, fail)
    <2>2. Good(outcome.book)
      BY ReplaceDone DEF AllGood
    <2> HIDE DEF outcome
    <2>3. Returns(o, outcome)
      BY <2>1 DEF outcome
    <2> QED
      BY <1>1, <2>2, <2>3
  <1>6. ASSUME NEW o \in Objects, Reset(o) PROVE AllGood'
    <2>1. PICK freed \in Orderings(DOMAIN books[o].nodes) :
             books' = [books EXCEPT ![o] = Cleared(books[o], freed)]
      BY <1>6 DEF Reset
    <2> DEFINE B == Cleared(books[o], freed)
    <2>2. Good(B)
      BY ClearedGood DEF AllGood
    <2>3. books' = [books EXCEPT ![o] = B]
      BY <2>1
    <2> HIDE DEF B
    <2> QED
      BY <2>2, <2>3 DEF AllGood
  <1>7. ASSUME NEW o \in Objects, NEW to \in Objects, Move(o, to) PROVE AllGood'
    BY <1>7, Inductively, Counts, NewGood DEF Move, AllGood
  <1> QED
    BY <1>2, <1>3, <1>4, <1>5, <1>6, <1>7 DEF Next

\* After any sequence of calls every object has levels, lists, an index and a
\* pool that fit together (the inductive invariant).
THEOREM BooksAreGood == Spec => []AllGood
  <1>1. Init => AllGood
    BY Inductively, Counts, NewGood DEF Init, AllGood
  <1>2. AllGood /\ [Next]_vars => AllGood'
    <2>1. AllGood /\ UNCHANGED vars => AllGood'
      BY DEF AllGood, vars
    <2> QED
      BY <2>1, StepGood
  <1> QED
    BY <1>1, <1>2, PTL DEF Spec

\* validate_invariants holds of every object after any sequence of calls,
\* whichever allocation failed in between, for every number of objects, ids,
\* prices, quantities and slots.
THEOREM ConsistentBooks == Spec => []BooksAreConsistent
  <1>1. AllGood => BooksAreConsistent
    BY GoodIsConsistent DEF AllGood, BooksAreConsistent
  <1> QED
    BY <1>1, BooksAreGood, PTL

\* The nodes in the lists are exactly the slots the pool has handed out: apply,
\* reset and the moves neither leak a slot nor free one that is queued.
THEOREM PooledNodes == Spec => []NodesAreThePoolsSlots
  <1>1. AllGood => NodesAreThePoolsSlots
    <2> SUFFICES ASSUME AllGood, NEW o \in Objects
                 PROVE  /\ Queued(books[o]) = DOMAIN books[o].nodes
                        /\ Pool(books[o])!TypeOK
                        /\ Pool(books[o])!FreeOrHeld
      BY DEF NodesAreThePoolsSlots
    <2>1. Good(books[o])
      BY DEF AllGood
    <2> QED
      BY <2>1, GoodIsConsistent, GoodIsPooled
  <1> QED
    BY <1>1, BooksAreGood, PTL

-----------------------------------------------------------------------------
(* The books implement LimitBook *)

\* What each object holds before and after a call on o that returned outcome.
LEMMA ReturnsShown ==
    ASSUME AllGood, NEW o \in Objects, NEW outcome, Returns(o, outcome)
    PROVE  /\ [result |-> result', book |-> [p \in Objects |-> Contents(books'[p])][o]] = Shown(outcome)
           /\ \A p \in Objects \ {o} : [q \in Objects |-> Contents(books'[q])][p]
                                         = [q \in Objects |-> Contents(books[q])][p]
  <1> DEFINE B == outcome.book
  <1>1. books' = [books EXCEPT ![o] = B] /\ result' = outcome.result
    BY DEF Returns
  <1> HIDE DEF B
  <1>2. books'[o] = B /\ \A p \in Objects \ {o} : books'[p] = books[p]
    BY <1>1 DEF AllGood
  <1>3. Shown(outcome) = [result |-> outcome.result, book |-> Contents(B)]
    BY DEF Shown, B
  <1> QED
    BY <1>1, <1>2, <1>3, SMTT(30)

\* A call whose outcome is one of the abstract book's is a step of LimitBook.
Promised(V, shown) ==
    \/ \E e \in AddOrders, room \in BOOLEAN : shown = Abstract!Add(V, e, room)
    \/ \E id \in OrderIds : shown = Abstract!Cancel(V, id)
    \/ \E id \in OrderIds, q \in 0..MaxQuantity : shown = Abstract!Execute(V, id, q)
    \/ \E id \in OrderIds, e \in AddOrders, keep, room \in BOOLEAN :
         shown = Abstract!Replace(V, id, e, keep, room)

\* The call that returned outcome is that step.
LEMMA ApplyShown ==
    ASSUME AllGood, NEW o \in Objects, NEW outcome, Returns(o, outcome),
           Promised(Contents(books[o]), Shown(outcome))
    PROVE  Abstract!Apply(o)
  <1> DEFINE A == [p \in Objects |-> Contents(books[p])]
             N == [p \in Objects |-> Contents(books'[p])]
             V == Contents(books[o])
             shown == Shown(outcome)
  <1>1. A[o] = V
    OBVIOUS
  <1>2. [result |-> result', book |-> N[o]] = shown /\ \A p \in Objects \ {o} : N[p] = A[p]
    BY ReturnsShown
  <1>3. Promised(V, shown)
    OBVIOUS
  <1> SUFFICES \E b \in {A[o]}, x \in {[result |-> result', book |-> N[o]]} :
                  /\ \A p \in Objects \ {o} : N[p] = A[p]
                  /\ \/ \E e \in Abstract!AddOrders, room \in BOOLEAN : x = Abstract!Add(b, e, room)
                     \/ \E id \in OrderIds : x = Abstract!Cancel(b, id)
                     \/ \E id \in OrderIds, q \in 0..MaxQuantity : x = Abstract!Execute(b, id, q)
                     \/ \E id \in OrderIds, e \in Abstract!AddOrders, keep, room \in BOOLEAN :
                          x = Abstract!Replace(b, id, e, keep, room)
    BY DEF Abstract!Apply
  <1> HIDE DEF A, N, V, shown
  <1> QED
    BY <1>1, <1>2, <1>3, SameNames DEF Promised

\* Every step on the objects is a step of LimitBook on what they hold.
LEMMA StepShown ==
    ASSUME AllGood, Next
    PROVE  Abstract!Next
  <1>1. ASSUME NEW o \in Objects, ApplyAdd(o) PROVE Abstract!Apply(o)
    <2>1. PICK e \in AddOrders, fail \in Heap : Returns(o, Add(books[o], e, fail))
      BY <1>1, SMTT(30) DEF ApplyAdd
    <2>2. Good(books[o])
      BY DEF AllGood
    <2>3. \E room \in BOOLEAN : Shown(Add(books[o], e, fail)) = Abstract!Add(Contents(books[o]), e, room)
      BY <2>2, AddDone
    <2>4. Promised(Contents(books[o]), Shown(Add(books[o], e, fail)))
      BY <2>3 DEF Promised
    <2> QED
      BY <2>1, <2>4, ApplyShown
  <1>2. ASSUME NEW o \in Objects, ApplyCancel(o) PROVE Abstract!Apply(o)
    <2>1. PICK id \in OrderIds : Returns(o, Cancel(books[o], id))
      BY <1>2 DEF ApplyCancel
    <2>2. Good(books[o])
      BY DEF AllGood
    <2>3. Shown(Cancel(books[o], id)) = Abstract!Cancel(Contents(books[o]), id)
      BY <2>2, CancelDone
    <2>4. Promised(Contents(books[o]), Shown(Cancel(books[o], id)))
      BY <2>3 DEF Promised
    <2> QED
      BY <2>1, <2>4, ApplyShown
  <1>3. ASSUME NEW o \in Objects, ApplyExecute(o) PROVE Abstract!Apply(o)
    <2>1. PICK id \in OrderIds, q \in 0..MaxQuantity : Returns(o, Execute(books[o], id, q))
      BY <1>3, SMTT(30) DEF ApplyExecute
    <2>2. Good(books[o])
      BY DEF AllGood
    <2>3. Shown(Execute(books[o], id, q)) = Abstract!Execute(Contents(books[o]), id, q)
      BY <2>2, ExecuteDone
    <2>4. Promised(Contents(books[o]), Shown(Execute(books[o], id, q)))
      BY <2>3 DEF Promised
    <2> QED
      BY <2>1, <2>4, ApplyShown
  <1>4. ASSUME NEW o \in Objects, ApplyReplace(o) PROVE Abstract!Apply(o)
    <2>1. PICK id \in OrderIds, e \in AddOrders, keep \in BOOLEAN, fail \in Heap :
             Returns(o, Replace(books[o], id, e, keep, fail))
      BY <1>4, SMTT(30) DEF ApplyReplace
    <2>2. Good(books[o])
      BY DEF AllGood
    <2>3. \E room \in BOOLEAN : Shown(Replace(books[o], id, e, keep, fail))
                                  = Abstract!Replace(Contents(books[o]), id, e, keep, room)
      BY <2>2, ReplaceDone
    <2>4. Promised(Contents(books[o]), Shown(Replace(books[o], id, e, keep, fail)))
      BY <2>3 DEF Promised
    <2> QED
      BY <2>1, <2>4, ApplyShown
  <1>5. ASSUME NEW o \in Objects, Reset(o) PROVE Abstract!Reset(o)
    <2>1. PICK freed : books' = [books EXCEPT ![o] = Cleared(books[o], freed)] /\ result' = result
      BY <1>5 DEF Reset
    <2>2. Contents(Cleared(books[o], freed)) = Abstract!EmptyBook
      BY NoneShown DEF AllGood
    <2> DEFINE B == Cleared(books[o], freed)
               E == Abstract!EmptyBook
    <2> HIDE DEF B, E
    <2>3. books' = [books EXCEPT ![o] = B] /\ Contents(B) = E
      BY <2>1, <2>2 DEF B, E
    <2>4. [p \in Objects |-> Contents(books'[p])] = [[p \in Objects |-> Contents(books[p])] EXCEPT ![o] = E]
      BY <2>3 DEF AllGood
    <2> QED
      BY <2>1, <2>4 DEF Abstract!Reset, E
  <1>6. ASSUME NEW o \in Objects, NEW to \in Objects, Move(o, to) PROVE Abstract!Move(o, to)
    <2> DEFINE F == MovedFrom
               E == Abstract!EmptyBook
    <2>1. o # to /\ books' = [books EXCEPT ![to] = books[o], ![o] = F] /\ result' = result
      BY <1>6 DEF Move
    <2>2. Contents(F) = E
      BY NoneShown
    <2> HIDE DEF F, E
    <2>3. [p \in Objects |-> Contents(books'[p])]
            = [[p \in Objects |-> Contents(books[p])]
                 EXCEPT ![to] = [p \in Objects |-> Contents(books[p])][o], ![o] = E]
      BY <2>1, <2>2 DEF AllGood
    <2> QED
      BY <2>1, <2>3 DEF Abstract!Move, E
  <1> QED
    BY <1>1, <1>2, <1>3, <1>4, <1>5, <1>6 DEF Next, Abstract!Next

\* The books as built implement the books as promised: every call of add, cancel,
\* execute, replace, reset or a move does to the queues exactly what LimitBook
\* says and returns what it says, for every number of objects, ids, prices,
\* quantities and slots and whichever allocation fails.
THEOREM BooksImplementLimitBook == Spec => ImplementsLimitBook
  <1>1. Init => Abstract!Init
    BY NoneShown DEF Init, Abstract!Init
  <1>2. AllGood /\ [Next]_vars => [Abstract!Next]_(Abstract!vars)
    <2>1. ASSUME UNCHANGED vars PROVE UNCHANGED Abstract!vars
      BY <2>1 DEF vars, Abstract!vars
    <2> QED
      BY <2>1, StepShown
  <1> QED
    BY <1>1, <1>2, BooksAreGood, PTL DEF Spec, ImplementsLimitBook, Abstract!Spec

=============================================================================
