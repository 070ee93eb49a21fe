-------------------------- MODULE OrderBookProofs ---------------------------
(***************************************************************************)
(* What the steps of a call do to a book of the shape of OrderBookShape,   *)
(* its lists, their sums, its index and its pool; and what apply(AddOrder) *)
(* and apply(CancelOrder) return.                                          *)
(***************************************************************************)
EXTENDS OrderBookRefinementProofs

\* A leaf that names no other prover is proved by Zenon.
USE ZenonT(30)

(* Lists of nodes *)

\* The quantities of a list of nodes.
LEMMA SizesIs ==
    ASSUME Inductive, NEW nodes, nodes \in [DOMAIN nodes -> Entries], NEW q \in Seq(DOMAIN nodes)
    PROVE  /\ Sizes(nodes, q) \in Seq(Int) /\ Len(Sizes(nodes, q)) = Len(q)
           /\ \A i \in 1..Len(q) : Sizes(nodes, q)[i] = nodes[q[i]].remaining_quantity
           /\ \A i \in 1..Len(q) : nodes[q[i]].remaining_quantity \in Nat \ {0}
           /\ ListSum(Sizes(nodes, q)) \in Int
  <1>1. Len(q) \in Nat /\ DOMAIN q = 1..Len(q)
    BY ListElements
  <1>2. \A i \in 1..Len(q) : nodes[q[i]].remaining_quantity \in Nat \ {0}
    <2> SUFFICES ASSUME NEW i \in 1..Len(q) PROVE nodes[q[i]].remaining_quantity \in Nat \ {0}
      OBVIOUS
    <2>1. q[i] \in DOMAIN nodes
      BY ListElements
    <2> QED
      BY <2>1 DEF Entries
  <1>3. Sizes(nodes, q) \in [1..Len(q) -> Int]
    BY <1>1, <1>2, SMTT(30) DEF Sizes
  <1>4. Sizes(nodes, q) \in Seq(Int) /\ Len(Sizes(nodes, q)) = Len(q)
    BY <1>1, <1>3, IsList
  <1>5. ListSum(Sizes(nodes, q)) \in Int
    <2>1. PICK s : IsSum(s, Sizes(nodes, q))
      BY <1>4, SumExists
    <2> QED
      BY <1>4, <2>1, SumUnique
  <1> QED
    BY <1>1, <1>2, <1>4, <1>5 DEF Sizes

\* The levels, the lists and the sums are tables over the sides and prices.
LEMMA TypedLists ==
    ASSUME NEW l, NEW nodes, ListsInv(l, nodes)
    PROVE  Typed(Filled(l), l, Sums(l, nodes))
  <1>1. Filled(l) \in [Sides -> SUBSET Prices]
    BY DEF Filled
  <1>2. l \in [Sides -> [Prices -> Seq(Int)]] /\ \A s \in Sides, p \in Prices : l[s][p] \in Seq(DOMAIN nodes)
    BY ListFacts
  <1>3. \A s \in Sides, p \in Prices : ListSum(Sizes(nodes, l[s][p])) \in Int
    BY <1>2, SizesIs DEF ListsInv
  <1>4. Sums(l, nodes) \in [Sides -> [Prices -> Int]]
    BY <1>3 DEF Sums
  <1> QED
    BY <1>1, <1>2, <1>4 DEF Typed

\* Quantities that are read from nodes that do not change.
LEMMA SameSizes ==
    ASSUME NEW nodes, NEW more, NEW q, \A i \in DOMAIN q : more[q[i]] = nodes[q[i]]
    PROVE  Sizes(more, q) = Sizes(nodes, q)
  BY DEF Sizes

\* An index into a longer list that is not its last one.
LEMMA Below ==
    ASSUME NEW n \in Nat, NEW k \in 1..(n + 1), k # n + 1
    PROVE  k \in 1..n
  BY SMTT(30)

\* A table that changes in one place.
LEMMA SumsChange ==
    ASSUME NEW l, NEW nodes, NEW m, NEW more, NEW s, NEW p, NEW x, Grows(l, nodes, m, more, s, p, x)
    PROVE  Sums(m, more) = Set(Sums(l, nodes), s, p, Sums(l, nodes)[s][p] + x)
  <1> DEFINE A == Sums(l, nodes)
             B == Sums(m, more)
             C == Set(A, s, p, A[s][p] + x)
  <1> USE DEF Grows
  <1>1. A[s][p] + x \in Int
    BY SMTT(30)
  <1>2. /\ C \in [Sides -> [Prices -> Int]] /\ C[s][p] = A[s][p] + x
        /\ \A t \in Sides, r \in Prices : (t # s \/ r # p) => C[t][r] = A[t][r]
    <2> HIDE DEF A
    <2> QED
      BY <1>1 DEF Set, A
  <1>3. ASSUME NEW t \in Sides, NEW r \in Prices PROVE B[t][r] = C[t][r]
    <2>1. B[t][r] = ListSum(Sizes(more, m[t][r])) /\ A[t][r] = ListSum(Sizes(nodes, l[t][r]))
      BY DEF Sums
    <2> HIDE DEF A, B, C
    <2>2. CASE t = s /\ r = p
      BY <1>2, <2>1, <2>2
    <2>3. CASE t # s \/ r # p
      <3>1. Sizes(more, m[t][r]) = Sizes(nodes, l[t][r])
        BY <2>3, SameSizes, SMTT(30) DEF Elsewhere
      <3> QED
        BY <1>2, <2>1, <2>3, <3>1
    <2> QED
      BY <2>2, <2>3
  <1> HIDE DEF A, B, C
  <1>4. B = C
    BY <1>2, <1>3, SameTable, SMTT(30) DEF B
  <1> QED
    BY <1>4 DEF A, B, C

\* A new node at the end of a list.
LEMMA AddLists ==
    ASSUME NEW l, NEW nodes, ListsInv(l, nodes), NEW s \in Sides, NEW p \in Prices,
           NEW n \in Slots, n \notin DOMAIN nodes, NEW v \in Entries
    PROVE  Joined(nodes, l, s, p, n, v)
  <1>z. Inductive
    BY DEF ListsInv
  <1> DEFINE q == l[s][p]
             w == Append(q, n)
             m == Set(l, s, p, w)
             more == Put(nodes, n, v)
  <1>1. DOMAIN more = DOMAIN nodes \cup {n} /\ more[n] = v /\ \A x \in DOMAIN nodes : more[x] = nodes[x]
    BY DEF Put
  <1>2. DOMAIN more \subseteq Slots /\ more \in [DOMAIN more -> Entries]
    <2>1. DOMAIN more \subseteq Slots
      BY <1>1 DEF ListsInv
    <2>2. \A x \in DOMAIN more : more[x] \in Entries
      BY <1>1 DEF ListsInv
    <2>3. more = [x \in DOMAIN more |-> more[x]]
      BY DEF Put
    <2> QED
      BY <2>1, <2>2, <2>3
  <1> HIDE DEF more
  <1>3. \A t \in Sides, r \in Prices :
           /\ l[t][r] \in Seq(DOMAIN nodes) /\ l[t][r] \in Seq(DOMAIN more)
           /\ Len(l[t][r]) \in Nat /\ DOMAIN l[t][r] = 1..Len(l[t][r])
           /\ \A i \in 1..Len(l[t][r]) : l[t][r][i] \in DOMAIN nodes
    BY <1>1, ListFacts, WiderList, SMTT(30)
  <1>4. w \in Seq(DOMAIN more) /\ Len(w) = Len(q) + 1 /\ w[Len(q) + 1] = n
        /\ (\A i \in 1..Len(q) : w[i] = q[i]) /\ w # <<>> /\ DOMAIN w = 1..(Len(q) + 1)
    <2>1. q \in Seq(DOMAIN more) /\ n \in DOMAIN more
      BY <1>1, <1>3
    <2> HIDE DEF q
    <2>2. /\ w \in Seq(DOMAIN more) /\ Len(w) = Len(q) + 1 /\ w[Len(q) + 1] = n
          /\ \A i \in 1..Len(q) : w[i] = q[i]
      BY <2>1, Appended, SMTT(30)
    <2> HIDE DEF w
    <2>3. Len(q) \in Nat
      BY <2>1, SMTT(30)
    <2>4. w # <<>> /\ DOMAIN w = 1..(Len(q) + 1)
      BY <2>2, <2>3, SMTT(30)
    <2> QED
      BY <2>2, <2>4
  <1>q. /\ q \in Seq(DOMAIN nodes) /\ Len(q) \in Nat /\ q = l[s][p]
        /\ \A i \in 1..Len(q) : q[i] \in DOMAIN nodes
    BY <1>3
  <1> HIDE DEF w, q
  <1>5. l \in [Sides -> [Prices -> Seq(DOMAIN more)]]
    BY <1>3 DEF ListsInv
  <1>6. /\ m \in [Sides -> [Prices -> Seq(DOMAIN more)]] /\ m[s][p] = w
        /\ \A t \in Sides, r \in Prices : (t # s \/ r # p) => m[t][r] = l[t][r]
    BY <1>4, <1>5 DEF Set
  <1> HIDE DEF m
  <1>7. Once(m)
    <2> SUFFICES ASSUME NEW t \in Sides, NEW u \in Sides, NEW r \in Prices, NEW x \in Prices,
                        NEW i \in 1..Len(m[t][r]), NEW j \in 1..Len(m[u][x]),
                        m[t][r][i] = m[u][x][j]
                 PROVE  t = u /\ r = x /\ i = j
      BY DEF Once
    <2> DEFINE New(y, z, k) == y = s /\ z = p /\ k = Len(q) + 1
    <2>1. ASSUME NEW y \in Sides, NEW z \in Prices, NEW k \in 1..Len(m[y][z]), New(y, z, k)
          PROVE  m[y][z][k] = n
      BY <1>4, <1>6, <2>1
    <2>2. ASSUME NEW y \in Sides, NEW z \in Prices, NEW k \in 1..Len(m[y][z]), ~New(y, z, k)
          PROVE  k \in 1..Len(l[y][z]) /\ m[y][z][k] = l[y][z][k] /\ m[y][z][k] # n
      <3>1. CASE y = s /\ z = p
        <4>1. m[y][z] = w /\ l[y][z] = q /\ k # Len(q) + 1
          BY <1>6, <1>q, <2>2, <3>1
        <4>2. k \in 1..(Len(q) + 1)
          BY <1>4, <4>1
        <4>3. k \in 1..Len(q)
          BY <1>q, <4>1, <4>2, Below
        <4> QED
          BY <1>q, <1>4, <4>1, <4>3
      <3>2. CASE y # s \/ z # p
        <4>1. m[y][z] = l[y][z]
          BY <1>6, <3>2
        <4>2. \A i_1 \in 1..Len(l[y][z]) : l[y][z][i_1] \in DOMAIN nodes
          BY <1>3
        <4> QED
          BY <4>1, <4>2
      <3> QED
        BY <3>1, <3>2
    <2>3. CASE New(t, r, i) /\ New(u, x, j)
      BY <2>3
    <2>4. CASE New(t, r, i) # New(u, x, j)
      BY <2>1, <2>2, <2>4, SMTT(30)
    <2>5. CASE ~New(t, r, i) /\ ~New(u, x, j)
      <3>1. i \in 1..Len(l[t][r]) /\ j \in 1..Len(l[u][x]) /\ l[t][r][i] = l[u][x][j]
        BY <2>2, <2>5
      <3> QED
        BY <3>1, SMTT(30) DEF ListsInv, Once
    <2> QED
      BY <2>3, <2>4, <2>5
  <1>8. ListsInv(m, more)
    BY <1>2, <1>6, <1>7 DEF ListsInv
  <1>9. Filled(m) = [Filled(l) EXCEPT ![s] = @ \cup {p}]
    <2>1. \A r \in Prices : m[s][r] # <<>> <=> (l[s][r] # <<>> \/ r = p)
      BY <1>4, <1>6
    <2>2. \A t \in Sides : t # s => m[t] = l[t]
      <3> SUFFICES ASSUME NEW t \in Sides, t # s PROVE m[t] = l[t]
        OBVIOUS
      <3>1. m[t] \in [Prices -> Seq(DOMAIN more)] /\ l[t] \in [Prices -> Seq(DOMAIN more)]
        BY <1>5, <1>6
      <3>2. \A r \in Prices : m[t][r] = l[t][r]
        BY <1>6
      <3> QED
        BY <3>1, <3>2, SMTT(30)
    <2>3. {r \in Prices : m[s][r] # <<>>} = {r \in Prices : l[s][r] # <<>>} \cup {p}
      BY <2>1
    <2> QED
      BY <2>2, <2>3 DEF Filled
  <1>10. Sums(m, more) = Set(Sums(l, nodes), s, p, Sums(l, nodes)[s][p] + v.remaining_quantity)
    <2>1. v.remaining_quantity \in Int
      BY SMTT(30) DEF Entries
    <2>2. Sums(l, nodes) \in [Sides -> [Prices -> Int]] /\ Sums(m, more) \in [Sides -> [Prices -> Int]]
      BY <1>8, TypedLists DEF Typed
    <2>3. ListSum(Sizes(more, w)) = ListSum(Sizes(nodes, q)) + v.remaining_quantity
      <3> DEFINE a == Sizes(nodes, q)
                 b == Sizes(more, w)
      <3>1. /\ a \in Seq(Int) /\ Len(a) = Len(q)
            /\ \A i \in 1..Len(q) : a[i] = nodes[q[i]].remaining_quantity
        <4>1. nodes \in [DOMAIN nodes -> Entries]
          BY DEF ListsInv
        <4> QED
          BY <1>z, <1>q, <4>1, SizesIs, SMTT(30)
      <3>2. /\ b \in Seq(Int) /\ Len(b) = Len(q) + 1
            /\ \A i \in 1..(Len(q) + 1) : b[i] = more[w[i]].remaining_quantity
        BY <1>z, <1>2, <1>4, SizesIs, SMTT(30)
      <3> HIDE DEF a, b
      <3>3. \A i \in 1..Len(a) : b[i] = a[i]
        <4> SUFFICES ASSUME NEW i \in 1..Len(q) PROVE b[i] = a[i]
          BY <3>1
        <4>1. i \in 1..(Len(q) + 1)
          BY <1>q, SMTT(30)
        <4>2. w[i] = q[i] /\ q[i] \in DOMAIN nodes
          BY <1>q, <1>4
        <4> QED
          BY <1>1, <3>1, <3>2, <4>1, <4>2
      <3>4. b[Len(b)] = v.remaining_quantity
        BY <1>1, <1>q, <1>4, <3>2, SMTT(30)
      <3> QED
        BY <1>z, <3>1, <3>2, <3>3, <3>4, SumAppend DEF a, b
    <2>4. \A t \in Sides, r \in Prices : \A i \in DOMAIN l[t][r] : more[l[t][r][i]] = nodes[l[t][r][i]]
      BY <1>1, <1>3
    <2>5. ListSum(Sizes(more, m[s][p])) = ListSum(Sizes(nodes, l[s][p])) + v.remaining_quantity
      BY <1>6, <1>q, <2>3
    <2>6. Elsewhere(l, nodes, m, more, s, p)
      BY <1>6, <2>4 DEF Elsewhere
    <2>7. Grows(l, nodes, m, more, s, p, v.remaining_quantity)
      BY <2>1, <2>2, <2>5, <2>6 DEF Grows
    <2> QED
      BY <2>7, SumsChange, SMTT(30)
  <1> QED
    BY <1>6, <1>8, <1>9, <1>10 DEF Joined, m, w, more, q

\* A list that one element leaves: what is left, and where it was.
LEMMA ErasedElements ==
    ASSUME NEW S, NEW q \in Seq(S), NEW k \in 1..Len(q)
    PROVE  /\ Remains(q, Erased(q, k), k)
           /\ \A j \in 1..Len(q) : j # k => \E i \in 1..Len(Erased(q, k)) : Erased(q, k)[i] = q[j]
  <1> DEFINE r == Erased(q, k)
  <1>1. /\ Len(r) = Len(q) - 1
        /\ \A i \in 1..(Len(q) - 1) : r[i] = IF i < k THEN q[i] ELSE q[i + 1]
    BY ErasedIs
  <1>2. Len(q) \in Nat
    BY ListElements
  <1> HIDE DEF r
  <1>3. ASSUME NEW i \in 1..Len(r)
        PROVE  \E j \in 1..Len(q) : j # k /\ r[i] = q[j] /\ j = IF i < k THEN i ELSE i + 1
    <2>1. CASE i < k
      BY <1>1, <1>2, <2>1, SMTT(30)
    <2>2. CASE ~(i < k)
      BY <1>1, <1>2, <2>2, SMTT(30)
    <2> QED
      BY <2>1, <2>2
  <1>4. ASSUME NEW j \in 1..Len(q), j # k
        PROVE  \E i \in 1..Len(r) : r[i] = q[j]
    <2>1. CASE j < k
      <3>1. j \in 1..Len(r) /\ r[j] = q[j]
        BY <1>1, <1>2, <2>1, SMTT(30)
      <3> QED
        BY <3>1
    <2>2. CASE ~(j < k)
      <3>1. j - 1 \in 1..Len(r) /\ ~(j - 1 < k) /\ (j - 1) + 1 = j
        BY <1>1, <1>2, <1>4, <2>2, SMTT(30)
      <3>2. r[j - 1] = q[(j - 1) + 1]
        BY <1>1, <3>1
      <3> QED
        BY <3>1, <3>2
    <2> QED
      BY <2>1, <2>2
  <1> QED
    BY <1>3, <1>4 DEF Remains, r

\* Every other element is still in the list.
LEMMA ErasedKeeps ==
    ASSUME NEW S, NEW q \in Seq(S), NEW k \in 1..Len(q), NEW j \in 1..Len(q), j # k
    PROVE  \E i \in 1..Len(Erased(q, k)) : Erased(q, k)[i] = q[j]
  BY ErasedElements

\* A node that leaves its list.
LEMMA RemoveLists ==
    ASSUME NEW l, NEW nodes, ListsInv(l, nodes), NEW s \in Sides, NEW p \in Prices,
           NEW k \in 1..Len(l[s][p])
    PROVE  LET n == l[s][p][k]
               m == Set(l, s, p, Erased(l[s][p], k))
               less == Drop(nodes, n)
           IN  /\ ListsInv(m, less)
               /\ m[s][p] = Erased(l[s][p], k)
               /\ \A t \in Sides, r \in Prices : (t # s \/ r # p) => m[t][r] = l[t][r]
               /\ Filled(m) = [Filled(l) EXCEPT ![s] = IF m[s][p] = <<>> THEN @ \ {p} ELSE @]
               /\ Sums(m, less) = Set(Sums(l, nodes), s, p,
                                      Sums(l, nodes)[s][p] + (-nodes[n].remaining_quantity))
  <1>z. Inductive
    BY DEF ListsInv
  <1> DEFINE q == l[s][p]
             n == q[k]
             w == Erased(q, k)
             m == Set(l, s, p, w)
             less == Drop(nodes, n)
  <1>3. \A t \in Sides, r \in Prices :
           /\ l[t][r] \in Seq(DOMAIN nodes)
           /\ Len(l[t][r]) \in Nat /\ DOMAIN l[t][r] = 1..Len(l[t][r])
           /\ \A i \in 1..Len(l[t][r]) : l[t][r][i] \in DOMAIN nodes
    BY ListFacts
  <1>q. /\ q \in Seq(DOMAIN nodes) /\ Len(q) \in Nat /\ q = l[s][p] /\ k \in 1..Len(q)
        /\ \A i \in 1..Len(q) : q[i] \in DOMAIN nodes
    BY <1>3
  <1> HIDE DEF q
  <1>n. n \in DOMAIN nodes
    BY <1>q
  <1>1. DOMAIN less = DOMAIN nodes \ {n} /\ \A x \in DOMAIN less : less[x] = nodes[x]
    BY DEF Drop, Restrict
  <1>2. DOMAIN less \subseteq Slots /\ less \in [DOMAIN less -> Entries]
    BY <1>1 DEF ListsInv, Drop, Restrict
  <1> HIDE DEF less
  <1>w. /\ w \in Seq(DOMAIN nodes) /\ Len(w) = Len(q) - 1 /\ DOMAIN w = 1..Len(w)
        /\ \A i \in 1..(Len(q) - 1) : w[i] = IF i < k THEN q[i] ELSE q[i + 1]
    BY <1>q, ErasedIs, ListElements
  <1>4. \A i \in 1..Len(w) : \E j \in 1..Len(q) : j # k /\ w[i] = q[j] /\ j = IF i < k THEN i ELSE i + 1
    <2>1. Remains(q, w, k)
      BY <1>q, ErasedElements
    <2> HIDE DEF w
    <2> QED
      BY <2>1 DEF Remains
  <1> HIDE DEF w
  <1>5. \A t \in Sides, r \in Prices : (t # s \/ r # p) =>
           \A i \in 1..Len(l[t][r]) : l[t][r][i] \in DOMAIN less
    <2> SUFFICES ASSUME NEW t \in Sides, NEW r \in Prices, t # s \/ r # p, NEW i \in 1..Len(l[t][r])
                 PROVE  l[t][r][i] # n
      BY <1>1, <1>3, SMTT(30)
    <2> QED
      BY <1>q, SMTT(30) DEF ListsInv, Once
  <1>6. \A i \in 1..Len(w) : w[i] \in DOMAIN less
    <2> SUFFICES ASSUME NEW i \in 1..Len(w) PROVE w[i] \in DOMAIN nodes /\ w[i] # n
      BY <1>1
    <2>1. PICK j \in 1..Len(q) : j # k /\ w[i] = q[j]
      BY <1>4
    <2>2. q[j] # q[k]
      BY <1>q, <2>1, SMTT(30) DEF ListsInv, Once
    <2> QED
      BY <1>q, <2>1, <2>2
  <1>7. \A t \in Sides, r \in Prices : (t # s \/ r # p) => l[t][r] \in Seq(DOMAIN less)
    <2> SUFFICES ASSUME NEW t \in Sides, NEW r \in Prices, t # s \/ r # p
                 PROVE  l[t][r] \in Seq(DOMAIN less)
      OBVIOUS
    <2>1. l[t][r] \in Seq(DOMAIN nodes) /\ Len(l[t][r]) \in Nat
          /\ \A i \in 1..Len(l[t][r]) : l[t][r][i] \in DOMAIN less
      BY <1>3, <1>5
    <2>2. l[t][r] \in [1..Len(l[t][r]) -> DOMAIN less]
      BY <2>1, ListElements, SMTT(30)
    <2> QED
      BY <2>1, <2>2, IsList
  <1>8. w \in Seq(DOMAIN less)
    <2>1. Len(w) \in Nat /\ w \in [1..Len(w) -> DOMAIN less]
      BY <1>6, <1>w, ListElements, SMTT(30)
    <2> QED
      BY <2>1, IsList
  <1>9. /\ m \in [Sides -> [Prices -> Seq(DOMAIN less)]] /\ m[s][p] = w
        /\ \A t \in Sides, r \in Prices : (t # s \/ r # p) => m[t][r] = l[t][r]
    <2>1. l \in [Sides -> [Prices -> Seq(DOMAIN nodes)]]
      BY DEF ListsInv
    <2>2. /\ m \in [Sides -> [Prices -> Seq(DOMAIN nodes)]] /\ m[s][p] = w
          /\ \A t \in Sides, r \in Prices : (t # s \/ r # p) => m[t][r] = l[t][r]
      BY <1>w, <2>1 DEF Set
    <2> HIDE DEF m
    <2>3. \A t \in Sides, r \in Prices : m[t][r] \in Seq(DOMAIN less)
      BY <1>7, <1>8, <2>2
    <2> QED
      BY <2>2, <2>3
  <1> HIDE DEF m
  <1>10. Once(m)
    <2> SUFFICES ASSUME NEW t \in Sides, NEW u \in Sides, NEW r \in Prices, NEW x \in Prices,
                        NEW i \in 1..Len(m[t][r]), NEW j \in 1..Len(m[u][x]),
                        m[t][r][i] = m[u][x][j]
                 PROVE  t = u /\ r = x /\ i = j
      BY DEF Once
    <2>1. ASSUME NEW y \in Sides, NEW z \in Prices, NEW g \in 1..Len(m[y][z])
          PROVE  \E h \in 1..Len(l[y][z]) :
                    /\ m[y][z][g] = l[y][z][h]
                    /\ h = IF y = s /\ z = p /\ ~(g < k) THEN g + 1 ELSE g
      <3>1. CASE y = s /\ z = p
        <4>1. m[y][z] = w /\ l[y][z] = q
          BY <1>9, <1>q, <3>1
        <4>2. PICK h \in 1..Len(q) : w[g] = q[h] /\ h = IF g < k THEN g ELSE g + 1
          BY <1>4, <4>1
        <4> QED
          BY <3>1, <4>1, <4>2
      <3>2. CASE y # s \/ z # p
        BY <1>9, <3>2
      <3> QED
        BY <3>1, <3>2
    <2>2. PICK h \in 1..Len(l[t][r]) : /\ m[t][r][i] = l[t][r][h]
                                       /\ h = IF t = s /\ r = p /\ ~(i < k) THEN i + 1 ELSE i
      BY <2>1
    <2>3. PICK g \in 1..Len(l[u][x]) : /\ m[u][x][j] = l[u][x][g]
                                       /\ g = IF u = s /\ x = p /\ ~(j < k) THEN j + 1 ELSE j
      BY <2>1
    <2>4. t = u /\ r = x /\ h = g
      <3>1. Once(l)
        BY DEF ListsInv
      <3>2. l[t][r][h] = l[u][x][g]
        BY <2>2, <2>3
      <3> QED
        BY <3>1, <3>2, SMTT(30) DEF Once
    <2>5. i \in Int /\ j \in Int /\ k \in Int
      BY SMTT(30)
    <2> QED
      BY <2>2, <2>3, <2>4, <2>5, SMTT(30)
  <1>11. ListsInv(m, less)
    BY <1>2, <1>9, <1>10 DEF ListsInv
  <1>12. Filled(m) = [Filled(l) EXCEPT ![s] = IF m[s][p] = <<>> THEN @ \ {p} ELSE @]
    <2> DEFINE f == Filled(l)
               E == IF m[s][p] = <<>> THEN f[s] \ {p} ELSE f[s]
    <2>1. q # <<>>
      BY <1>q, SMTT(30)
    <2>2. \A t \in Sides : t # s => m[t] = l[t]
      <3> SUFFICES ASSUME NEW t \in Sides, t # s PROVE m[t] = l[t]
        OBVIOUS
      <3>1. DOMAIN m[t] = Prices /\ DOMAIN l[t] = Prices
        BY <1>9 DEF ListsInv
      <3>2. m[t] = [x \in Prices |-> m[t][x]] /\ l[t] = [x \in Prices |-> l[t][x]]
        BY <1>9 DEF ListsInv
      <3>3. \A r \in Prices : m[t][r] = l[t][r]
        BY <1>9
      <3> QED
        BY <3>2, <3>3
    <2>3. {r \in Prices : m[s][r] # <<>>} = E
      <3>1. \A r \in Prices : r # p => m[s][r] = l[s][r]
        BY <1>9
      <3>2. f[s] = {r \in Prices : l[s][r] # <<>>} /\ l[s][p] # <<>>
        BY <1>q, <2>1 DEF Filled
      <3>3. CASE m[s][p] = <<>>
        BY <3>1, <3>2, <3>3
      <3>4. CASE m[s][p] # <<>>
        BY <3>1, <3>2, <3>4
      <3> QED
        BY <3>3, <3>4
    <2>4. Filled(m) = [f EXCEPT ![s] = E]
      <3> HIDE DEF E
      <3> QED
        BY <2>2, <2>3 DEF Filled
    <2> QED
      BY <2>4
  <1>13. Sums(m, less) = Set(Sums(l, nodes), s, p, Sums(l, nodes)[s][p] + (-nodes[n].remaining_quantity))
    <2> DEFINE x == nodes[n].remaining_quantity
    <2>1. x \in Int /\ -x \in Int
      <3>1. x \in Nat
        BY <1>n DEF ListsInv, Entries
      <3> HIDE DEF x
      <3> QED
        BY <3>1, SMTT(30)
    <2>2. Sums(l, nodes) \in [Sides -> [Prices -> Int]] /\ Sums(m, less) \in [Sides -> [Prices -> Int]]
      BY <1>11, TypedLists DEF Typed
    <2>3. ListSum(Sizes(less, w)) = ListSum(Sizes(nodes, q)) + (-x)
      <3> DEFINE a == Sizes(nodes, q)
                 b == Sizes(less, w)
      <3>1. /\ a \in Seq(Int) /\ Len(a) = Len(q) /\ ListSum(a) \in Int
            /\ \A i \in 1..Len(q) : a[i] = nodes[q[i]].remaining_quantity
        <4>1. nodes \in [DOMAIN nodes -> Entries]
          BY DEF ListsInv
        <4> QED
          BY <1>z, <1>q, <4>1, SizesIs, SMTT(30)
      <3>2. /\ b \in Seq(Int) /\ Len(b) = Len(w)
            /\ \A i \in 1..Len(w) : b[i] = less[w[i]].remaining_quantity
        BY <1>z, <1>2, <1>8, SizesIs
      <3> HIDE DEF a, b
      <3>3. Without(a, b, k)
        <4> SUFFICES ASSUME NEW i \in 1..Len(w) PROVE b[i] = IF i < k THEN a[i] ELSE a[i + 1]
          BY <1>w, <3>1, <3>2 DEF Without
        <4>1. PICK j \in 1..Len(q) : w[i] = q[j] /\ j = IF i < k THEN i ELSE i + 1
          BY <1>4
        <4>2. b[i] = nodes[q[j]].remaining_quantity
          BY <1>1, <1>6, <3>2, <4>1
        <4>3. b[i] = a[j]
          BY <3>1, <4>1, <4>2
        <4> QED
          BY <4>1, <4>3
      <3>4. a[k] = x
        BY <1>q, <3>1
      <3>5. ListSum(b) = ListSum(a) - a[k]
        BY <1>z, <1>q, <3>1, <3>2, <3>3, SumRemove
      <3> HIDE DEF x
      <3>6. ListSum(a) - x = ListSum(a) + (-x)
        BY <2>1, <3>1
      <3> QED
        BY <3>4, <3>5, <3>6 DEF a, b
    <2>5. ListSum(Sizes(less, m[s][p])) = ListSum(Sizes(nodes, l[s][p])) + (-x)
      BY <1>9, <1>q, <2>3
    <2>6. Elsewhere(l, nodes, m, less, s, p)
      BY <1>1, <1>3, <1>5, <1>9, SMTT(30) DEF Elsewhere
    <2> HIDE DEF x
    <2>7. Grows(l, nodes, m, less, s, p, -x)
      BY <2>1, <2>2, <2>5, <2>6 DEF Grows
    <2>8. Sums(m, less) = Set(Sums(l, nodes), s, p, Sums(l, nodes)[s][p] + (-x))
      BY <2>7, SumsChange, SMTT(30)
    <2> QED
      BY <2>8 DEF x
  <1> QED
    BY <1>9, <1>11, <1>12, <1>13 DEF m, w, less, q

\* A node with another quantity: the lists stand, and one sum changes by the
\* difference.
LEMMA ResizeLists ==
    ASSUME NEW l, NEW nodes, ListsInv(l, nodes), NEW s \in Sides, NEW p \in Prices,
           NEW k \in 1..Len(l[s][p]), NEW q \in Nat \ {0}
    PROVE  LET n == l[s][p][k]
               less == Resized(nodes, n, q)
           IN  /\ ListsInv(l, less)
               /\ Sums(l, less) = Set(Sums(l, nodes), s, p,
                                      Sums(l, nodes)[s][p] + (q - nodes[n].remaining_quantity))
  <1>z. Inductive
    BY DEF ListsInv
  <1> DEFINE w == l[s][p]
             n == w[k]
             less == Resized(nodes, n, q)
             x == nodes[n].remaining_quantity
  <1>1. \A t \in Sides, r \in Prices :
           /\ l[t][r] \in Seq(DOMAIN nodes)
           /\ Len(l[t][r]) \in Nat /\ DOMAIN l[t][r] = 1..Len(l[t][r])
           /\ \A i \in 1..Len(l[t][r]) : l[t][r][i] \in DOMAIN nodes
    BY ListFacts
  <1>2. /\ w \in Seq(DOMAIN nodes) /\ Len(w) \in Nat /\ w = l[s][p] /\ k \in 1..Len(w)
        /\ \A i \in 1..Len(w) : w[i] \in DOMAIN nodes
    BY <1>1
  <1> HIDE DEF w
  <1>3. n \in DOMAIN nodes /\ nodes \in [DOMAIN nodes -> Entries]
    BY <1>2 DEF ListsInv
  <1> HIDE DEF n
  <1>4. /\ less \in [DOMAIN nodes -> Entries] /\ DOMAIN less = DOMAIN nodes
        /\ less[n].remaining_quantity = q
        /\ \A y \in DOMAIN nodes : y # n => less[y] = nodes[y]
    BY <1>3, ResizedIs, SMTT(30)
  <1> HIDE DEF less
  <1>5. ListsInv(l, less)
    BY <1>4 DEF ListsInv
  <1>6. x \in Int /\ q - x \in Int
    <2>1. x \in Nat
      BY <1>3 DEF Entries
    <2> HIDE DEF x
    <2> QED
      BY <2>1, SMTT(30)
  <1>7. Sums(l, nodes) \in [Sides -> [Prices -> Int]] /\ Sums(l, less) \in [Sides -> [Prices -> Int]]
    BY <1>5, TypedLists DEF Typed
  <1>8. ListSum(Sizes(less, w)) = ListSum(Sizes(nodes, w)) + (q - x)
    <2> DEFINE a == Sizes(nodes, w)
               b == Sizes(less, w)
    <2>1. /\ a \in Seq(Int) /\ Len(a) = Len(w)
          /\ \A i \in 1..Len(w) : a[i] = nodes[w[i]].remaining_quantity
      BY <1>z, <1>2, <1>3, SizesIs, SMTT(30)
    <2>2. w \in Seq(DOMAIN less) /\ less \in [DOMAIN less -> Entries]
      BY <1>2, <1>4
    <2>3. /\ b \in Seq(Int) /\ Len(b) = Len(w)
          /\ \A i \in 1..Len(w) : b[i] = less[w[i]].remaining_quantity
      BY <1>z, <2>2, SizesIs
    <2> HIDE DEF a, b
    <2>4. \A i \in 1..Len(w) : i # k => w[i] # n
      BY <1>2, SMTT(30) DEF ListsInv, Once, n
    <2>5. Changed(a, b, k)
      <3> SUFFICES ASSUME NEW i \in 1..Len(w), i # k PROVE b[i] = a[i]
        BY <2>1, <2>3 DEF Changed
      <3>1. w[i] \in DOMAIN nodes /\ w[i] # n
        BY <1>2, <2>4
      <3>2. less[w[i]] = nodes[w[i]]
        BY <1>4, <3>1
      <3> QED
        BY <2>1, <2>3, <3>2
    <2>6. a[k] = x /\ b[k] = q
      BY <1>2, <1>4, <2>1, <2>3 DEF n
    <2>7. ListSum(b) = ListSum(a) + (b[k] - a[k])
      BY <1>z, <1>2, <2>1, <2>3, <2>5, SumChange
    <2> HIDE DEF x
    <2> QED
      BY <2>6, <2>7 DEF a, b
  <1>9. Elsewhere(l, nodes, l, less, s, p)
    <2> SUFFICES ASSUME NEW t \in Sides, NEW r \in Prices, t # s \/ r # p, NEW i \in DOMAIN l[t][r]
                 PROVE  less[l[t][r][i]] = nodes[l[t][r][i]]
      BY DEF Elsewhere
    <2>2. i \in 1..Len(l[t][r])
      BY <1>1
    <2>1. l[t][r][i] # n
      BY <1>2, <2>2, SMTT(30) DEF ListsInv, Once, n
    <2> QED
      BY <1>1, <1>4, <2>1, <2>2
  <1> HIDE DEF x
  <1>10. Grows(l, nodes, l, less, s, p, q - x)
    BY <1>2, <1>6, <1>7, <1>8, <1>9 DEF Grows
  <1>11. Sums(l, less) = Set(Sums(l, nodes), s, p, Sums(l, nodes)[s][p] + (q - x))
    BY <1>10, SumsChange, SMTT(30)
  <1> QED
    BY <1>5, <1>11 DEF less, x, n, w

\* A node that is added is in its list, and the others stay in theirs.
LEMMA AddIn ==
    ASSUME NEW l, NEW nodes, ListsInv(l, nodes), NEW s \in Sides, NEW p \in Prices, NEW n \in Int
    PROVE  LET m == Set(l, s, p, Append(l[s][p], n))
           IN  In(n, m, s, p) /\ Keeps(l, m, DOMAIN nodes)
  <1> DEFINE q == l[s][p]
             w == Append(q, n)
             m == Set(l, s, p, w)
  <1>1. q \in Seq(Int) /\ Len(q) \in Nat /\ l \in [Sides -> [Prices -> Seq(Int)]] /\ q = l[s][p]
    BY ListFacts, SMTT(30)
  <1> HIDE DEF q
  <1>2. w \in Seq(Int) /\ Len(w) = Len(q) + 1 /\ w[Len(q) + 1] = n /\ \A i \in 1..Len(q) : w[i] = q[i]
    BY <1>1, Appended, SMTT(30)
  <1> HIDE DEF w
  <1>3. m[s][p] = w /\ \A t \in Sides, r \in Prices : (t # s \/ r # p) => m[t][r] = l[t][r]
    BY <1>1, <1>2 DEF Set
  <1> HIDE DEF m
  <1>4. In(n, m, s, p)
    BY <1>1, <1>2, <1>3, SMTT(30) DEF In
  <1>5. Keeps(l, m, DOMAIN nodes)
    <2> SUFFICES ASSUME NEW t \in Sides, NEW r \in Prices, NEW x \in DOMAIN nodes, In(x, l, t, r)
                 PROVE  In(x, m, t, r)
      BY DEF Keeps
    <2>i. PICK i \in 1..Len(l[t][r]) : l[t][r][i] = x
      BY DEF In
    <2> SUFFICES \E j \in 1..Len(m[t][r]) : m[t][r][j] = l[t][r][i]
      BY <2>i DEF In
    <2>1. CASE t = s /\ r = p
      <3>1. l[t][r] = q /\ m[t][r] = w
        BY <1>1, <1>3, <2>1
      <3>2. i \in 1..Len(w) /\ w[i] = q[i]
        BY <1>1, <1>2, <3>1, SMTT(30)
      <3> QED
        BY <3>1, <3>2
    <2>2. CASE t # s \/ r # p
      BY <1>3, <2>2
    <2> QED
      BY <2>1, <2>2
  <1> QED
    BY <1>4, <1>5 DEF m, w, q

\* When a node leaves, the others stay in their lists.
LEMMA RemoveIn ==
    ASSUME NEW l, NEW nodes, ListsInv(l, nodes), NEW s \in Sides, NEW p \in Prices,
           NEW k \in 1..Len(l[s][p])
    PROVE  Keeps(l, Shorter(l, s, p, k), DOMAIN nodes \ {l[s][p][k]})
  <1> DEFINE q == l[s][p]
             w == Erased(q, k)
             m == Set(l, s, p, w)
  <1>1. q \in Seq(Int) /\ l \in [Sides -> [Prices -> Seq(Int)]] /\ q = l[s][p] /\ k \in 1..Len(q)
    BY ListFacts, SMTT(30)
  <1> HIDE DEF q
  <1>2. w \in Seq(Int) /\ \A j \in 1..Len(q) : j # k => \E i \in 1..Len(w) : w[i] = q[j]
    <2>1. w \in Seq(Int)
      BY <1>1, ErasedIs
    <2>2. \A j \in 1..Len(q) : j # k => \E i \in 1..Len(w) : w[i] = q[j]
      <3> SUFFICES ASSUME NEW j \in 1..Len(q), j # k PROVE \E i \in 1..Len(w) : w[i] = q[j]
        OBVIOUS
      <3> QED
        BY <1>1, ErasedKeeps
    <2> QED
      BY <2>1, <2>2
  <1> HIDE DEF w
  <1>3. m[s][p] = w /\ \A t \in Sides, r \in Prices : (t # s \/ r # p) => m[t][r] = l[t][r]
    BY <1>1, <1>2 DEF Set
  <1> HIDE DEF m
  <1>4. ASSUME NEW t \in Sides, NEW r \in Prices, NEW i \in 1..Len(l[t][r]), l[t][r][i] # q[k]
        PROVE  \E j \in 1..Len(m[t][r]) : m[t][r][j] = l[t][r][i]
    <2>1. CASE t = s /\ r = p
      <3>1. l[t][r] = q /\ m[t][r] = w
        BY <1>1, <1>3, <2>1
      <3>2. i \in 1..Len(q) /\ i # k
        BY <1>4, <3>1
      <3>3. \E j \in 1..Len(w) : w[j] = q[i]
        BY <1>2, <3>2
      <3> QED
        BY <3>1, <3>3
    <2>2. CASE t # s \/ r # p
      BY <1>3, <2>2
    <2> QED
      BY <2>1, <2>2
  <1>5. Keeps(l, m, DOMAIN nodes \ {q[k]})
    BY <1>4, SMTT(30) DEF Keeps, In
  <1> QED
    BY <1>5 DEF m, w, q, Shorter

-----------------------------------------------------------------------------
(* The index *)

\* An entry for a new node.
LEMMA IndexAdd ==
    ASSUME NEW l, NEW nodes, NEW index, IndexInv(l, nodes, index), NEW m, NEW n, NEW v,
           NEW at \in [side : Sides, price : Prices, iterator : {n}],
           n \notin DOMAIN nodes, v \in Entries, v.order_id \notin DOMAIN index,
           In(n, m, at.side, at.price), Keeps(l, m, DOMAIN nodes)
    PROVE  IndexInv(m, Put(nodes, n, v), Put(index, v.order_id, at))
  <1> DEFINE more == Put(nodes, n, v)
             id == v.order_id
             places == Put(index, id, at)
  <1>1. DOMAIN more = DOMAIN nodes \cup {n} /\ more[n] = v /\ \A x \in DOMAIN nodes : more[x] = nodes[x]
    BY DEF Put
  <1>2. DOMAIN places = DOMAIN index \cup {id} /\ places[id] = at
        /\ \A x \in DOMAIN index : places[x] = index[x]
    BY DEF Put
  <1>3. places = [x \in DOMAIN places |-> places[x]]
    BY DEF Put
  <1>4. id \in OrderIds
    BY DEF Entries
  <1> HIDE DEF more, places
  <1>5. \A x \in DOMAIN index :
           /\ index[x] \in [side : Sides, price : Prices, iterator : DOMAIN nodes]
           /\ nodes[index[x].iterator].order_id = x
           /\ In(index[x].iterator, l, index[x].side, index[x].price)
    BY DEF IndexInv
  <1>6. at \in [side : Sides, price : Prices, iterator : DOMAIN more] /\ at.iterator = n
    BY <1>1
  <1>7. \A x \in DOMAIN places : places[x] \in [side : Sides, price : Prices, iterator : DOMAIN more]
    <2>1. \A x \in DOMAIN index : index[x] \in [side : Sides, price : Prices, iterator : DOMAIN more]
      BY <1>1, <1>5
    <2> QED
      BY <1>2, <1>6, <2>1
  <1>8. places \in [DOMAIN places -> [side : Sides, price : Prices, iterator : DOMAIN more]]
    BY <1>3, <1>7
  <1>9. DOMAIN places \subseteq OrderIds
    BY <1>2, <1>4 DEF IndexInv
  <1>10. \A x \in DOMAIN more : more[x].order_id \in DOMAIN places /\ places[more[x].order_id].iterator = x
    BY <1>1, <1>2, <1>6, SMTT(30) DEF IndexInv
  <1>11. ASSUME NEW x \in DOMAIN places
         PROVE  /\ more[places[x].iterator].order_id = x
                /\ In(places[x].iterator, m, places[x].side, places[x].price)
    <2>1. CASE x = id
      BY <1>1, <1>2, <1>6, <2>1
    <2>2. CASE x # id
      <3>1. x \in DOMAIN index /\ places[x] = index[x]
        BY <1>2, <2>2
      <3>2. index[x].side \in Sides /\ index[x].price \in Prices /\ index[x].iterator \in DOMAIN nodes
        BY <1>5, <3>1
      <3>3. more[index[x].iterator] = nodes[index[x].iterator]
        BY <1>1, <3>2
      <3>4. In(index[x].iterator, m, index[x].side, index[x].price)
        BY <1>5, <3>1, <3>2 DEF Keeps
      <3> QED
        BY <1>5, <3>1, <3>3, <3>4
    <2> QED
      BY <2>1, <2>2
  <1>12. IndexInv(m, more, places)
    BY <1>8, <1>9, <1>10, <1>11 DEF IndexInv
  <1> QED
    BY <1>12 DEF more, places

\* The entry of a node that goes.
LEMMA IndexRemove ==
    ASSUME NEW l, NEW nodes, NEW index, IndexInv(l, nodes, index), NEW m,
           NEW id \in DOMAIN index, Keeps(l, m, DOMAIN nodes \ {index[id].iterator})
    PROVE  IndexInv(m, Drop(nodes, index[id].iterator), Drop(index, id))
  <1> DEFINE n == index[id].iterator
             less == Drop(nodes, n)
             places == Drop(index, id)
  <1>1. DOMAIN less = DOMAIN nodes \ {n} /\ \A x \in DOMAIN less : less[x] = nodes[x]
    BY DEF Drop, Restrict
  <1>2. DOMAIN places = DOMAIN index \ {id} /\ \A x \in DOMAIN places : places[x] = index[x]
    BY DEF Drop, Restrict
  <1>3. places = [x \in DOMAIN places |-> places[x]]
    BY DEF Drop, Restrict
  <1> HIDE DEF less, places
  <1>5. \A x \in DOMAIN index :
           /\ index[x] \in [side : Sides, price : Prices, iterator : DOMAIN nodes]
           /\ nodes[index[x].iterator].order_id = x
           /\ In(index[x].iterator, l, index[x].side, index[x].price)
    BY DEF IndexInv
  <1>6. \A x \in DOMAIN places : index[x].iterator # n
    BY <1>2, <1>5
  <1>7. \A x \in DOMAIN places : places[x] \in [side : Sides, price : Prices, iterator : DOMAIN less]
    BY <1>1, <1>2, <1>5, <1>6
  <1>8. places \in [DOMAIN places -> [side : Sides, price : Prices, iterator : DOMAIN less]]
    BY <1>3, <1>7
  <1>9. DOMAIN places \subseteq OrderIds
    BY <1>2 DEF IndexInv
  <1>10. \A x \in DOMAIN less : less[x].order_id \in DOMAIN places /\ places[less[x].order_id].iterator = x
    BY <1>1, <1>2, SMTT(30) DEF IndexInv
  <1>11. ASSUME NEW x \in DOMAIN places
         PROVE  /\ less[places[x].iterator].order_id = x
                /\ In(places[x].iterator, m, places[x].side, places[x].price)
    <2>1. x \in DOMAIN index /\ places[x] = index[x]
      BY <1>2
    <2>2. index[x].side \in Sides /\ index[x].price \in Prices /\ index[x].iterator \in DOMAIN nodes \ {n}
      BY <1>5, <1>6, <2>1
    <2>3. less[index[x].iterator] = nodes[index[x].iterator]
      BY <1>1, <2>2
    <2>4. In(index[x].iterator, m, index[x].side, index[x].price)
      BY <1>5, <2>1, <2>2 DEF Keeps
    <2> QED
      BY <1>5, <2>1, <2>3, <2>4
  <1>12. IndexInv(m, less, places)
    BY <1>8, <1>9, <1>10, <1>11 DEF IndexInv
  <1> QED
    BY <1>12 DEF less, places

\* The index does not see quantities.
LEMMA IndexResize ==
    ASSUME NEW l, NEW nodes, NEW index, IndexInv(l, nodes, index), ListsInv(l, nodes),
           NEW n \in DOMAIN nodes, NEW q \in Nat \ {0}
    PROVE  IndexInv(l, Resized(nodes, n, q), index)
  <1> DEFINE less == Resized(nodes, n, q)
  <1>1. DOMAIN less = DOMAIN nodes /\ \A x \in DOMAIN nodes : less[x].order_id = nodes[x].order_id
    BY ResizedIs DEF ListsInv
  <1> HIDE DEF less
  <1>2. \A id \in DOMAIN index : index[id].iterator \in DOMAIN nodes
    BY DEF IndexInv
  <1>3. IndexInv(l, less, index)
    BY <1>1, <1>2 DEF IndexInv
  <1> QED
    BY <1>3 DEF less

-----------------------------------------------------------------------------
(* Adding and undoing *)

\* A list without elements has sum 0.
LEMMA EmptySum ==
    ASSUME Inductive, NEW nodes
    PROVE  ListSum(Sizes(nodes, <<>>)) = 0
  <1>1. Sizes(nodes, <<>>) = <<>>
    BY SMTT(30) DEF Sizes
  <1>2. <<>> \in Seq(Int) /\ Len(<<>>) = 0
    BY SMTT(30)
  <1>3. PICK s : IsSum(s, <<>>)
    BY <1>2, SumExists
  <1>4. ListSum(<<>>) = s[Len(<<>>)]
    BY <1>2, <1>3, SumUnique
  <1>5. s[0] = 0
    BY <1>3 DEF IsSum
  <1> QED
    BY <1>1, <1>2, <1>4, <1>5

\* The place of a node that is in a list once.
LEMMA PlaceIs ==
    ASSUME NEW q \in Seq(Int), NEW k \in 1..Len(q), \A i \in 1..Len(q) : q[i] = q[k] => i = k
    PROVE  Place(q, q[k]) = k
  <1>1. DOMAIN q = 1..Len(q)
    BY ListElements
  <1> QED
    BY <1>1 DEF Place

\* A node is found at the one place where it is.
LEMMA PlaceOnce ==
    ASSUME NEW l, NEW nodes, ListsInv(l, nodes), NEW s \in Sides, NEW p \in Prices,
           NEW k \in 1..Len(l[s][p])
    PROVE  Place(l[s][p], l[s][p][k]) = k
  <1>1. l[s][p] \in Seq(Int)
    BY ListFacts, SMTT(30)
  <1>2. \A i \in 1..Len(l[s][p]) : l[s][p][i] = l[s][p][k] => i = k
    BY SMTT(30) DEF ListsInv, Once
  <1> QED
    BY <1>1, <1>2, PlaceIs

\* The last element of a list, added and erased again.
LEMMA AppendErased ==
    ASSUME NEW q \in Seq(Int), NEW n \in Int, \A i \in 1..Len(q) : q[i] # n
    PROVE  /\ Back(Append(q, n)) = n
           /\ Place(Append(q, n), n) = Len(q) + 1
           /\ Erased(Append(q, n), Len(q) + 1) = q
  <1> DEFINE w == Append(q, n)
             r == Erased(w, Len(q) + 1)
  <1>1. /\ w \in Seq(Int) /\ Len(w) = Len(q) + 1 /\ w[Len(q) + 1] = n
        /\ \A i \in 1..Len(q) : w[i] = q[i]
    BY Appended, SMTT(30)
  <1>2. Len(q) \in Nat
    BY ListElements
  <1> HIDE DEF w
  <1>3. Back(w) = n
    BY <1>1 DEF Back
  <1>4. Len(q) + 1 \in 1..Len(w)
    BY <1>1, <1>2, SMTT(30)
  <1>5. Place(w, n) = Len(q) + 1
    <2>1. \A i \in 1..Len(w) : w[i] = n => i = Len(q) + 1
      BY <1>1, <1>2, Below
    <2> QED
      BY <1>1, <1>4, <2>1, PlaceIs
  <1>6. r \in Seq(Int) /\ Len(r) = Len(q)
        /\ \A i \in 1..Len(q) : r[i] = w[i]
    <2>1. /\ r \in Seq(Int) /\ Len(r) = Len(w) - 1
          /\ \A i \in 1..(Len(w) - 1) : r[i] = IF i < Len(q) + 1 THEN w[i] ELSE w[i + 1]
      BY <1>1, <1>4, ErasedIs
    <2> HIDE DEF r
    <2>2. Len(w) - 1 = Len(q) /\ \A i \in 1..Len(q) : i < Len(q) + 1
      BY <1>1, <1>2, SMTT(30)
    <2> QED
      BY <2>1, <2>2
  <1> HIDE DEF r
  <1>7. r = q
    BY <1>1, <1>6, SameList
  <1> QED
    BY <1>3, <1>5, <1>7 DEF w, r

\* Something put in that was not there, and dropped again.
LEMMA PutDrop ==
    ASSUME NEW f, NEW k, NEW v, f = [x \in DOMAIN f |-> f[x]], k \notin DOMAIN f
    PROVE  Drop(Put(f, k, v), k) = f
  BY DEF Drop, Put, Restrict

\* Writing a list and then the old one again changes nothing.
LEMMA SetBack ==
    ASSUME NEW l \in [Sides -> [Prices -> Seq(Int)]], NEW s \in Sides, NEW p \in Prices, NEW w \in Seq(Int)
    PROVE  Set(Set(l, s, p, w), s, p, l[s][p]) = l
  <1> DEFINE m == Set(l, s, p, w)
             g == Set(m, s, p, l[s][p])
  <1>1. m \in [Sides -> [Prices -> Seq(Int)]]
        /\ \A t \in Sides, r \in Prices : (t # s \/ r # p) => m[t][r] = l[t][r]
    BY DEF Set
  <1> HIDE DEF m
  <1>2. g \in [Sides -> [Prices -> Seq(Int)]] /\ g[s][p] = l[s][p]
        /\ \A t \in Sides, r \in Prices : (t # s \/ r # p) => g[t][r] = m[t][r]
    BY <1>1 DEF Set
  <1> HIDE DEF g
  <1>3. \A t \in Sides, r \in Prices : g[t][r] = l[t][r]
    BY <1>1, <1>2
  <1>4. g = l
    BY <1>2, <1>3, SameTable, SMTT(30)
  <1> QED
    BY <1>4 DEF g, m

\* The level is there for the order that comes.
LEMMA LeveledIs ==
    ASSUME NEW own, NEW pool, NEW nodes, NEW l, NEW index, ListsInv(l, nodes), NEW e, Valid(e)
    PROVE  EmplaceLevel(Rest(own, pool, nodes, l, index), e.side, e.price)
              = Book(own, pool, nodes, Leveled(l, e), l, Sums(l, nodes), index)
  <1>z. Inductive
    BY DEF ListsInv
  <1>1. Typed(Filled(l), l, Sums(l, nodes))
    BY TypedLists
  <1>2. e.price \notin Filled(l)[e.side] =>
            l[e.side][e.price] = <<>> /\ Sums(l, nodes)[e.side][e.price] = 0
    BY <1>z, EmptySum DEF Valid, Filled, Sums
  <1> QED
    BY <1>1, <1>2, BookEmplaceLevel, SMTT(30) DEF Rest, Valid, Leveled

\* With a node from the pool at the end of its level the lists are in order.
LEMMA LongerIs ==
    ASSUME NEW pool, NEW nodes, NEW l, ListsInv(l, nodes), NEW e, Valid(e),
           PoolInv(pool, DOMAIN nodes), NEW heap, ~Refused(pool, heap)
    PROVE  /\ Top(pool) \in Slots /\ Top(pool) \notin DOMAIN nodes /\ Top(pool) \in Int
           /\ PoolInv(Taken(pool), DOMAIN nodes \cup {Top(pool)})
           /\ Lengthened(nodes, l, e, Top(pool))
  <1> DEFINE n == Top(pool)
             m == Longer(l, e, n)
  <1>1. Typed(Filled(l), l, Sums(l, nodes))
    BY TypedLists
  <1>2. n \in Slots /\ n \notin DOMAIN nodes /\ PoolInv(Taken(pool), DOMAIN nodes \cup {n})
    BY PoolTake
  <1> HIDE DEF n
  <1>3. n \in Int
    BY <1>2, CapacityIs, SMTT(30) DEF Slots
  <1>4. Entry(e) \in Entries /\ Entry(e).remaining_quantity = e.quantity
    BY DEF Valid, Entry, Entries
  <1>5. /\ ListsInv(m, Put(nodes, n, Entry(e))) /\ Filled(m) = Leveled(l, e)
        /\ Sums(m, Put(nodes, n, Entry(e)))
             = Set(Sums(l, nodes), e.side, e.price, Sums(l, nodes)[e.side][e.price] + e.quantity)
        /\ m[e.side][e.price] = Append(l[e.side][e.price], n)
    <2> DEFINE t == e.side
               p == e.price
               v == Entry(e)
    <2>1. t \in Sides /\ p \in Prices /\ v \in Entries /\ v.remaining_quantity = e.quantity
      BY <1>4 DEF Valid
    <2> HIDE DEF t, p, v
    <2>2. Joined(nodes, l, t, p, n, v)
      BY <1>2, <2>1, AddLists
    <2> QED
      BY <2>1, <2>2 DEF Joined, Longer, Leveled, t, p, v
  <1>6. m \in [Sides -> [Prices -> Seq(Int)]]
    BY <1>5, ListFacts
  <1>7. Leveled(l, e) \in [Sides -> SUBSET Prices] /\ e.price \in Leveled(l, e)[e.side]
    BY <1>1 DEF Typed, Valid, Leveled
  <1>8. Typed(Leveled(l, e), m, Sums(l, nodes)) /\ Typed(Leveled(l, e), l, Sums(l, nodes))
    BY <1>1, <1>6, <1>7 DEF Typed
  <1> QED
    BY <1>2, <1>3, <1>5, <1>7, <1>8 DEF n, Lengthened

\* The new node is not yet counted in the aggregate.
LEMMA QueuedIs ==
    ASSUME NEW own, NEW pool, NEW nodes, NEW l, NEW index, ListsInv(l, nodes), NEW e, Valid(e),
           PoolInv(pool, DOMAIN nodes), NEW heap, ~Refused(pool, heap)
    PROVE  EmplaceBack(Book(own, pool, nodes, Leveled(l, e), l, Sums(l, nodes), index), e)
             = Uncounted(own, pool, nodes, l, index, e)
  <1>1. Lengthened(nodes, l, e, Top(pool)) /\ Top(pool) \in Int
    BY LongerIs
  <1> DEFINE A == Sums(l, nodes)
             d == Leveled(l, e)
  <1>2. Typed(d, l, A) /\ e.price \in d[e.side]
    BY <1>1 DEF Lengthened
  <1>3. e.side \in Sides
    BY DEF Valid
  <1> HIDE DEF A, d
  <1>4. EmplaceBack(Book(own, pool, nodes, d, l, A, index), e)
          = Book(own, Taken(pool), Put(nodes, Top(pool), Entry(e)), d,
                 Set(l, e.side, e.price, Append(l[e.side][e.price], Top(pool))), A, index)
    BY <1>1, <1>2, <1>3, BookEmplaceBack, SMTT(30)
  <1> QED
    BY <1>4 DEF Longer, Uncounted, A, d

\* The catch block gives back the book as it was, but for the order of the
\* pool's free slots.
LEMMA UndoneIs ==
    ASSUME NEW own, NEW pool, NEW nodes, NEW l, NEW index, ListsInv(l, nodes), NEW e, Valid(e),
           PoolInv(pool, DOMAIN nodes), NEW heap, ~Refused(pool, heap)
    PROVE  LET b == Uncounted(own, pool, nodes, l, index, e)
               free == Freed(Taken(pool), Top(pool))
           IN  /\ EraseNode(b, e.side, e.price, Top(pool))
                    = Book(own, free, nodes, Leveled(l, e), l, Sums(l, nodes), index)
               /\ Back(b.levels[e.side][e.price].orders) = Top(pool)
               /\ PoolInv(free, DOMAIN nodes)
  <1> DEFINE n == Top(pool)
             q == l[e.side][e.price]
             m == Longer(l, e, n)
             d == Leveled(l, e)
             N == Put(nodes, n, Entry(e))
             b == Book(own, Taken(pool), N, d, m, Sums(l, nodes), index)
  <1>0. Lengthened(nodes, l, e, n)
    BY LongerIs
  <1>1. Typed(d, m, Sums(l, nodes)) /\ e.price \in d[e.side]
    BY <1>0 DEF Lengthened
  <1>2. /\ n \in Slots /\ n \notin DOMAIN nodes /\ n \in Int
        /\ PoolInv(Taken(pool), DOMAIN nodes \cup {n})
    BY LongerIs
  <1>3. PoolInv(Freed(Taken(pool), n), (DOMAIN nodes \cup {n}) \ {n})
    BY <1>2, PoolFree
  <1>4. (DOMAIN nodes \cup {n}) \ {n} = DOMAIN nodes
    BY <1>2
  <1>5. /\ q \in Seq(Int) /\ l \in [Sides -> [Prices -> Seq(Int)]]
        /\ \A i \in 1..Len(q) : q[i] # n
    BY <1>2, ListFacts, SMTT(30) DEF Valid
  <1>6. nodes = [x \in DOMAIN nodes |-> nodes[x]]
    BY DEF ListsInv
  <1> HIDE DEF n, q
  <1>7. Back(Append(q, n)) = n /\ Place(Append(q, n), n) = Len(q) + 1
        /\ Erased(Append(q, n), Len(q) + 1) = q
    BY <1>2, <1>5, AppendErased
  <1>8. Append(q, n) \in Seq(Int)
    BY <1>2, <1>5, SMTT(30)
  <1>9. m[e.side][e.price] = Append(q, n)
    BY <1>5, <1>8 DEF Longer, Set, Valid, q
  <1>10. Set(m, e.side, e.price, q) = l
    BY <1>5, <1>8, SetBack DEF Longer, Valid, q
  <1>11. Drop(N, n) = nodes
    BY <1>2, <1>6, PutDrop
  <1>12. b.levels[e.side][e.price].orders = m[e.side][e.price]
    BY <1>1 DEF Book, Levels, Valid
  <1> HIDE DEF N, m, d
  <1>13. EraseNode(b, e.side, e.price, n)
           = Book(own, Freed(Taken(pool), n), Drop(N, n), d,
                  Set(m, e.side, e.price, Erased(m[e.side][e.price], Place(m[e.side][e.price], n))),
                  Sums(l, nodes), index)
    <2>1. Erased(m[e.side][e.price], Place(m[e.side][e.price], n)) \in Seq(Int)
      BY <1>5, <1>7, <1>9
    <2> QED
      BY <1>1, <2>1, BookEraseNode, SMTT(30) DEF Valid
  <1>14. EraseNode(b, e.side, e.price, n)
           = Book(own, Freed(Taken(pool), n), nodes, d, l, Sums(l, nodes), index)
    BY <1>7, <1>9, <1>10, <1>11, <1>13
  <1> QED
    BY <1>3, <1>4, <1>7, <1>9, <1>12, <1>14 DEF N, d, m, n, Uncounted

-----------------------------------------------------------------------------
(* apply(AddOrder), in closed form *)

\* The level that a failed insertion created is erased, and no other.
LEMMA EraseCreated ==
    ASSUME NEW own, NEW pool, NEW nodes, NEW l, NEW index, ListsInv(l, nodes), NEW e, Valid(e)
    PROVE  LET b == Book(own, pool, nodes, Leveled(l, e), l, Sums(l, nodes), index)
               created == e.price \notin Filled(l)[e.side]
           IN  (IF created THEN EraseLevel(b, e.side, e.price) ELSE b)
                  = Rest(own, pool, nodes, l, index)
  <1> DEFINE A == Sums(l, nodes)
             d == Leveled(l, e)
             b == Book(own, pool, nodes, d, l, A, index)
  <1>1. Typed(Filled(l), l, A) /\ e.side \in Sides /\ e.price \in Prices
    BY TypedLists DEF Valid
  <1>2. Typed(d, l, A)
    BY <1>1 DEF Typed, Leveled
  <1>3. CASE e.price \notin Filled(l)[e.side]
    <2>1. [d EXCEPT ![e.side] = @ \ {e.price}] = Filled(l)
      BY <1>1, <1>3 DEF Leveled, Typed
    <2> HIDE DEF A, d
    <2>2. EraseLevel(b, e.side, e.price)
            = Book(own, pool, nodes, [d EXCEPT ![e.side] = @ \ {e.price}], l, A, index)
      BY <1>1, <1>2, BookEraseLevel, SMTT(30)
    <2> QED
      BY <1>3, <2>1, <2>2 DEF Rest, A, d
  <1>4. CASE e.price \in Filled(l)[e.side]
    <2>1. d = Filled(l)
      BY <1>1, <1>4 DEF Leveled, Typed
    <2> QED
      BY <1>4, <2>1 DEF Rest
  <1> QED
    BY <1>3, <1>4

\* The part of add_to and move_to that can throw.
LEMMA InsertIs ==
    ASSUME NEW own, NEW pool, NEW nodes, NEW l, NEW index, ListsInv(l, nodes), NEW e, Valid(e),
           PoolInv(pool, DOMAIN nodes), NEW ix \in BOOLEAN, NEW fail
    PROVE  Inserts(own, pool, nodes, l, index, e, ix, Insert(Rest(own, pool, nodes, l, index), e, ix, fail))
  <1> DEFINE A == Sums(l, nodes)
             d == Leveled(l, e)
             b == Rest(own, pool, nodes, l, index)
             s == e.side
             p == e.price
             n == Top(pool)
             m == Longer(l, e, n)
             N == Put(nodes, n, Entry(e))
             created == p \notin DOMAIN b.levels[s]
             leveled == Book(own, pool, nodes, d, l, A, index)
             queued == Uncounted(own, pool, nodes, l, index, e)
             indexed == Uncounted(own, pool, nodes, l, Put(index, e.order_id, At(e, n)), e)
             outcome == Insert(b, e, ix, fail)
  <1> SUFFICES \/ Fails(own, nodes, l, index, outcome)
               \/ /\ CanTake(pool)
                  /\ outcome = Done("Ok", IF ix THEN indexed ELSE queued)
    <2>1. CASE ix
      BY <2>1 DEF Inserts
    <2>2. CASE ~ix
      BY <2>2 DEF Inserts
    <2> QED
      BY <2>1, <2>2
  <1>1. s \in Sides /\ p \in Prices
    BY DEF Valid
  <1>2. created <=> p \notin Filled(l)[s]
    BY <1>1 DEF Rest, Book, Levels
  <1>3. EmplaceLevel(b, s, p) = leveled /\ leveled.pool = pool
    BY LeveledIs, SMTT(30) DEF Book
  <1>4. Pool(b)!Refuses(pool, Node, fail # "pool") = Refused(pool, fail # "pool")
    BY SamePool
  <1>5. outcome =
          IF created /\ fail = "level" THEN Done("AllocationFailed", b)
          ELSE IF Refused(pool, fail # "pool")
               THEN Done("AllocationFailed", Undo(leveled, e, created, FALSE))
          ELSE IF ix /\ fail = "index"
               THEN Done("AllocationFailed", Undo(EmplaceBack(leveled, e), e, created, TRUE))
          ELSE Done("Ok", IF ix THEN Index(EmplaceBack(leveled, e), e) ELSE EmplaceBack(leveled, e))
    <2> HIDE DEF leveled, b
    <2> QED
      BY <1>3, <1>4 DEF Insert
  <1>6. CASE created /\ fail = "level"
    BY <1>5, <1>6 DEF Fails
  <1>7. CASE ~(created /\ fail = "level") /\ Refused(pool, fail # "pool")
    <2>1. outcome = Done("AllocationFailed", Undo(leveled, e, created, FALSE))
      <3> HIDE DEF outcome, leveled, created
      <3> QED
        BY <1>5, <1>7
    <2>2. Undo(leveled, e, created, FALSE) = IF created THEN EraseLevel(leveled, s, p) ELSE leveled
      BY DEF Undo
    <2>3. (IF p \notin Filled(l)[s] THEN EraseLevel(leveled, s, p) ELSE leveled) = b
      BY EraseCreated
    <2> HIDE DEF outcome, leveled, created, b
    <2>4. outcome = Done("AllocationFailed", b)
      BY <1>2, <2>1, <2>2, <2>3
    <2> QED
      BY <2>4 DEF Fails, b
  <1>8. CASE ~(created /\ fail = "level") /\ ~Refused(pool, fail # "pool")
    <2>0. CanTake(pool)
      BY <1>8 DEF CanTake
    <2>1. EmplaceBack(leveled, e) = queued
      BY <1>8, QueuedIs
    <2>2. Lengthened(nodes, l, e, n) /\ n \in Int
      BY <1>8, LongerIs
    <2>3. Filled(m) = d /\ p \in d[s] /\ m[s][p] = Append(l[s][p], n) /\ l[s][p] \in Seq(Int)
      BY <2>2 DEF Lengthened, Typed, Valid
    <2>4. CASE ix /\ fail = "index"
      <3> DEFINE Q == Freed(Taken(pool), n)
                 popped == EraseNode(queued, s, p, n)
      <3>1. outcome = Done("AllocationFailed", Undo(queued, e, created, TRUE))
        <4> HIDE DEF outcome, leveled, created, queued
        <4> QED
          BY <1>5, <1>8, <2>1, <2>4
      <3>2. /\ popped = Book(own, Q, nodes, d, l, A, index) /\ PoolInv(Q, DOMAIN nodes)
            /\ Back(queued.levels[s][p].orders) = n
        BY <1>8, UndoneIs, SMTT(30)
      <3>3. Undo(queued, e, created, TRUE) = IF created THEN EraseLevel(popped, s, p) ELSE popped
        BY <3>2 DEF Undo
      <3>4. (IF p \notin Filled(l)[s] THEN EraseLevel(popped, s, p) ELSE popped)
              = Rest(own, Q, nodes, l, index)
        BY <3>2, EraseCreated
      <3> HIDE DEF outcome, leveled, created, queued, popped, Q
      <3>5. outcome = Done("AllocationFailed", Rest(own, Q, nodes, l, index))
        BY <1>2, <3>1, <3>3, <3>4
      <3> QED
        BY <3>2, <3>5 DEF Fails
    <2>5. CASE ~(ix /\ fail = "index")
      <3>1. outcome = Done("Ok", IF ix THEN Index(queued, e) ELSE queued)
        <4> HIDE DEF outcome, leveled, created, queued
        <4> QED
          BY <1>5, <1>8, <2>1, <2>5
      <3>2. Index(queued, e) = indexed
        <4>1. Back(m[s][p]) = n
          BY <2>2, <2>3, Appended, SMTT(30) DEF Back
        <4>2. p \in d[s]
          BY <2>3
        <4> HIDE DEF N, d, m, A
        <4>3. Index(Book(own, Taken(pool), N, d, m, A, index), e)
                = Book(own, Taken(pool), N, d, m, A, Put(index, e.order_id, At(e, Back(m[s][p]))))
          BY <1>1, <4>2, BookIndex, SMTT(30)
        <4> QED
          BY <4>1, <4>3 DEF Uncounted, N, d, m, A
      <3> HIDE DEF outcome, queued, indexed
      <3> QED
        BY <2>0, <3>1, <3>2
    <2> QED
      BY <2>4, <2>5
  <1> QED
    BY <1>6, <1>7, <1>8

\* The new order is counted.
LEMMA CountedIs ==
    ASSUME NEW own, NEW pool, NEW nodes, NEW l, NEW index, ListsInv(l, nodes), NEW e, Valid(e),
           PoolInv(pool, DOMAIN nodes), CanTake(pool)
    PROVE  AddAggregate(Uncounted(own, pool, nodes, l, index, e), e.side, e.price, e.quantity)
              = Added(own, pool, nodes, l, index, e)
  <1> DEFINE A == Sums(l, nodes)
             d == Leveled(l, e)
             n == Top(pool)
             m == Longer(l, e, n)
             N == Put(nodes, n, Entry(e))
             s == e.side
             p == e.price
             q == e.quantity
  <1>1. PICK heap : ~Refused(pool, heap)
    BY DEF CanTake
  <1>2. Lengthened(nodes, l, e, n)
    BY <1>1, LongerIs
  <1>3. Typed(d, m, A) /\ p \in d[s] /\ Filled(m) = d /\ Sums(m, N) = Set(A, s, p, A[s][p] + q)
    BY <1>2 DEF Lengthened
  <1>4. s \in Sides /\ q \in Int
    BY SMTT(30) DEF Valid
  <1>5. AddAggregate(Book(own, Taken(pool), N, d, m, A, index), s, p, q)
           = Book(own, Taken(pool), N, d, m, Set(A, s, p, A[s][p] + q), index)
    <2> HIDE DEF A, d, m, N, s, p, q
    <2> QED
      BY <1>3, <1>4, BookAddAggregate, SMTT(30)
  <1> QED
    BY <1>3, <1>5 DEF Uncounted, Added, Rest

\* A book with a new order is a book.
LEMMA AddedParts ==
    ASSUME NEW own, NEW pool, NEW nodes, NEW l, NEW index, Parts(own, pool, nodes, l, index),
           NEW e, Valid(e), CanTake(pool), e.order_id \notin DOMAIN index
    PROVE  PartsAdded(own, pool, nodes, l, index, e)
  <1> DEFINE n == Top(pool)
             m == Longer(l, e, n)
             N == Put(nodes, n, Entry(e))
             s == e.side
             p == e.price
             v == Entry(e)
             at == At(e, n)
  <1>1. PICK heap : ~Refused(pool, heap)
    BY DEF CanTake
  <1>2. own \in BOOLEAN /\ ListsInv(l, nodes) /\ IndexInv(l, nodes, index) /\ PoolInv(pool, DOMAIN nodes)
    BY DEF Parts
  <1>3. /\ Lengthened(nodes, l, e, n) /\ n \in Slots /\ n \notin DOMAIN nodes /\ n \in Int
        /\ PoolInv(Taken(pool), DOMAIN nodes \cup {n})
    BY <1>1, <1>2, LongerIs
  <1>4. ListsInv(m, N)
    BY <1>3 DEF Lengthened
  <1>5. DOMAIN N = DOMAIN nodes \cup {n}
    BY DEF Put
  <1>6. s \in Sides /\ p \in Prices /\ v \in Entries /\ v.order_id = e.order_id
    BY DEF Valid, Entry, Entries
  <1>7. at \in [side : Sides, price : Prices, iterator : {n}] /\ at.side = s /\ at.price = p
    BY <1>6 DEF At
  <1> HIDE DEF s, p, v, at, n
  <1>8. In(n, m, s, p) /\ Keeps(l, m, DOMAIN nodes)
    BY <1>2, <1>3, <1>6, AddIn DEF Longer, s, p
  <1> HIDE DEF m
  <1>9. IndexInv(m, Put(nodes, n, v), Put(index, v.order_id, at))
    BY <1>2, <1>3, <1>6, <1>7, <1>8, IndexAdd
  <1> QED
    BY <1>2, <1>3, <1>4, <1>5, <1>6, <1>9 DEF PartsAdded, Parts, m, v, at, n

\* apply(AddOrder)
LEMMA AddIs ==
    ASSUME NEW own, NEW pool, NEW nodes, NEW l, NEW index, Parts(own, pool, nodes, l, index),
           NEW e, e.order_id \in OrderIds, e.price \in 0..MaxPrice, e.quantity \in 0..MaxQuantity,
           NEW fail
    PROVE  AddAnswers(own, pool, nodes, l, index, e, Add(Rest(own, pool, nodes, l, index), e, fail))
  <1> DEFINE b == Rest(own, pool, nodes, l, index)
             outcome == Add(b, e, fail)
             added == Put(index, e.order_id, At(e, Top(pool)))
             inserted == Insert(b, e, TRUE, fail)
  <1>0. Valid(e) /\ e.order_id \notin DOMAIN index /\ CanTake(pool) => PartsAdded(own, pool, nodes, l, index, e)
    BY AddedParts
  <1> SUFFICES \/ e.quantity = 0 /\ outcome = Done("InvalidQuantity", b)
               \/ e.quantity # 0 /\ e.price = 0 /\ outcome = Done("InvalidPrice", b)
               \/ /\ e.quantity # 0 /\ e.price # 0 /\ e.order_id \in DOMAIN index
                  /\ outcome = Done("DuplicateOrder", b)
               \/ /\ e.quantity # 0 /\ e.price # 0 /\ e.order_id \notin DOMAIN index
                  /\ e.side \notin Sides /\ outcome = Done("UnknownOrder", b)
               \/ Valid(e) /\ e.order_id \notin DOMAIN index /\ Fails(own, nodes, l, index, outcome)
               \/ /\ Valid(e) /\ e.order_id \notin DOMAIN index /\ CanTake(pool)
                  /\ outcome = Done("Ok", Added(own, pool, nodes, l,
                                                Put(index, e.order_id, At(e, Top(pool))), e))
    BY <1>0 DEF AddAnswers
  <1>1. b.orders_by_id = index /\ b.owns_pool = own
    BY DEF Rest, Book
  <1>2. own \in BOOLEAN /\ ListsInv(l, nodes) /\ IndexInv(l, nodes, index) /\ PoolInv(pool, DOMAIN nodes)
    BY DEF Parts
  <1>3. CASE e.quantity = 0 \/ e.price = 0 \/ e.order_id \in DOMAIN index \/ e.side \notin Sides
    <2> HIDE DEF b
    <2> QED
      BY <1>1, <1>3 DEF Add, b
  <1>4. CASE ~(e.quantity = 0 \/ e.price = 0 \/ e.order_id \in DOMAIN index \/ e.side \notin Sides)
    <2>1. Valid(e)
      BY <1>4, OrderBookAssumption, SMTT(30) DEF Valid, Prices
    <2>2. CASE ~own
      <3>1. outcome = Done("AllocationFailed", b)
        <4> HIDE DEF b
        <4> QED
          BY <1>1, <1>4, <2>2 DEF Add
      <3>2. Fails(own, nodes, l, index, outcome)
        BY <1>2, <3>1 DEF Fails
      <3> QED
        BY <1>4, <2>1, <3>2
    <2>3. CASE own
      <3>1. outcome = IF inserted.result # "Ok" THEN inserted
                      ELSE Done("Ok", AddAggregate(inserted.book, e.side, e.price, e.quantity))
        <4> HIDE DEF b
        <4> QED
          BY <1>1, <1>4, <2>3 DEF Add
      <3>2. \/ Fails(own, nodes, l, index, inserted)
            \/ CanTake(pool) /\ inserted = Done("Ok", Uncounted(own, pool, nodes, l, added, e))
        <4> DEFINE ix == TRUE
        <4>1. ix \in BOOLEAN /\ ix
          OBVIOUS
        <4> HIDE DEF ix
        <4>2. Inserts(own, pool, nodes, l, index, e, ix, Insert(b, e, ix, fail))
          BY <1>2, <2>1, <4>1, InsertIs
        <4> QED
          BY <4>2 DEF ix, Inserts
      <3>3. CASE Fails(own, nodes, l, index, inserted)
        <4>1. inserted.result # "Ok"
          <5> HIDE DEF inserted
          <5> QED
            BY <3>3, SMTT(30) DEF Fails, Done
        <4>2. outcome = inserted
          <5> HIDE DEF inserted, outcome
          <5> QED
            BY <3>1, <4>1
        <4> QED
          BY <1>4, <2>1, <3>3, <4>2
      <3>4. CASE CanTake(pool) /\ inserted = Done("Ok", Uncounted(own, pool, nodes, l, added, e))
        <4> DEFINE u == Uncounted(own, pool, nodes, l, added, e)
        <4>1. outcome = Done("Ok", AddAggregate(u, e.side, e.price, e.quantity))
          <5> HIDE DEF inserted, outcome, u
          <5> QED
            BY <3>1, <3>4 DEF Done, u
        <4>2. AddAggregate(u, e.side, e.price, e.quantity) = Added(own, pool, nodes, l, added, e)
          BY <1>2, <2>1, <3>4, CountedIs, SMTT(30)
        <4> HIDE DEF u
        <4> QED
          BY <1>4, <2>1, <3>4, <4>1, <4>2
      <3> QED
        BY <3>2, <3>3, <3>4
    <2> QED
      BY <1>2, <2>2, <2>3
  <1> QED
    BY <1>3, <1>4

-----------------------------------------------------------------------------
(* Removing, and apply(CancelOrder) in closed form *)

\* Without one of their nodes the lists are in order.
LEMMA ShorterIs ==
    ASSUME NEW nodes, NEW l, ListsInv(l, nodes), NEW s \in Sides, NEW p \in Prices,
           NEW k \in 1..Len(l[s][p])
    PROVE  Shortened(nodes, l, s, p, k)
  BY RemoveLists, SMTT(30) DEF Shortened, Shorter

\* A node goes whose quantity has left the aggregate, and its level with the
\* last node.
LEMMA EraseIs ==
    ASSUME NEW own, NEW pool, NEW nodes, NEW l, NEW index, ListsInv(l, nodes),
           NEW s \in Sides, NEW p \in Prices, NEW k \in 1..Len(l[s][p]),
           NEW N, Drop(N, l[s][p][k]) = Drop(nodes, l[s][p][k])
    PROVE  EraseIfEmpty(EraseNode(Reduced(own, pool, N, nodes, l, index, s, p, k), s, p, l[s][p][k]), s, p)
              = Removed(own, pool, nodes, l, index, s, p, k)
  <1> DEFINE q == l[s][p]
             n == q[k]
             d == Filled(l)
             m == Shorter(l, s, p, k)
             less == Drop(nodes, n)
             a == Sums(m, less)
             b == Book(own, pool, N, d, l, a, index)
             c == Book(own, Freed(pool, n), less, d, m, a, index)
  <1>1. Typed(d, l, Sums(l, nodes)) /\ q \in Seq(Int) /\ Len(q) \in Nat
    BY TypedLists, SMTT(30) DEF Typed
  <1>2. Shortened(nodes, l, s, p, k)
    BY ShorterIs
  <1>3. ListsInv(m, less) /\ m[s][p] = Erased(q, k) /\ m = Set(l, s, p, Erased(q, k))
        /\ Filled(m) = [d EXCEPT ![s] = IF m[s][p] = <<>> THEN @ \ {p} ELSE @]
    BY <1>2 DEF Shorter, Shortened
  <1>4. Typed(Filled(m), m, a)
    BY <1>3, TypedLists
  <1>5. Typed(d, l, a) /\ Typed(d, m, a)
    BY <1>1, <1>4 DEF Typed
  <1>6. p \in d[s]
    <2>1. q # <<>>
      BY <1>1, SMTT(30)
    <2> QED
      BY <2>1 DEF Filled
  <1>7. Place(q, n) = k
    BY PlaceOnce
  <1>8. Erased(q, k) \in Seq(Int)
    BY <1>1, ErasedIs
  <1> HIDE DEF q, n, d, m, less, a
  <1>9. EraseNode(b, s, p, n) = Book(own, Freed(pool, n), Drop(N, n), d,
                                     Set(l, s, p, Erased(l[s][p], Place(l[s][p], n))), a, index)
    BY <1>5, <1>6, <1>7, <1>8, BookEraseNode, SMTT(30) DEF q
  <1>10. EraseNode(b, s, p, n) = c
    BY <1>3, <1>7, <1>9 DEF q, n, less
  <1>11. c.levels[s][p].orders = m[s][p]
    BY <1>6 DEF Book, Levels
  <1>12. CASE m[s][p] = <<>>
    <2>1. EraseIfEmpty(c, s, p) = EraseLevel(c, s, p)
      BY <1>11, <1>12 DEF EraseIfEmpty
    <2>2. EraseLevel(c, s, p) = Book(own, Freed(pool, n), less, [d EXCEPT ![s] = @ \ {p}], m, a, index)
      BY <1>5, BookEraseLevel, SMTT(30)
    <2>3. [d EXCEPT ![s] = @ \ {p}] = Filled(m)
      BY <1>3, <1>12
    <2> QED
      BY <1>10, <2>1, <2>2, <2>3 DEF Removed, Reduced, Rest, q, n, d, m, less, a
  <1>13. CASE m[s][p] # <<>>
    <2>1. EraseIfEmpty(c, s, p) = c
      BY <1>11, <1>13 DEF EraseIfEmpty
    <2>2. d = Filled(m)
      BY <1>3, <1>5, <1>13 DEF Typed
    <2> QED
      BY <1>10, <2>1, <2>2 DEF Removed, Reduced, Rest, q, n, d, m, less, a
  <1> QED
    BY <1>12, <1>13

\* The aggregate of the level of a node that goes.
LEMMA ReducedIs ==
    ASSUME NEW own, NEW pool, NEW nodes, NEW l, NEW index, ListsInv(l, nodes),
           NEW s \in Sides, NEW p \in Prices, NEW k \in 1..Len(l[s][p])
    PROVE  LET n == l[s][p][k]
           IN  /\ n \in DOMAIN nodes /\ nodes[n].remaining_quantity \in Nat \ {0}
               /\ AddAggregate(Rest(own, pool, nodes, l, index), s, p, -nodes[n].remaining_quantity)
                    = Reduced(own, pool, nodes, nodes, l, index, s, p, k)
  <1> DEFINE q == l[s][p]
             n == q[k]
             x == nodes[n].remaining_quantity
             d == Filled(l)
             A == Sums(l, nodes)
             a == Sums(Shorter(l, s, p, k), Drop(nodes, n))
  <1>1. Typed(d, l, A) /\ q \in Seq(Int) /\ Len(q) \in Nat /\ n \in DOMAIN nodes
    BY ListFacts, TypedLists, SMTT(30) DEF Typed
  <1>2. x \in Nat \ {0}
    BY <1>1 DEF ListsInv, Entries
  <1>3. p \in d[s]
    <2>1. q # <<>>
      BY <1>1, SMTT(30)
    <2> QED
      BY <2>1 DEF Filled
  <1>4. Shortened(nodes, l, s, p, k)
    BY ShorterIs
  <1>5. a = Set(A, s, p, A[s][p] + (-x))
    BY <1>4 DEF Shortened
  <1> HIDE DEF q, n, x, d, A, a
  <1>6. -x \in Int
    BY <1>2, SMTT(30)
  <1>7. AddAggregate(Book(own, pool, nodes, d, l, A, index), s, p, -x)
          = Book(own, pool, nodes, d, l, Set(A, s, p, A[s][p] + (-x)), index)
    BY <1>1, <1>3, <1>6, BookAddAggregate, SMTT(30)
  <1> QED
    BY <1>1, <1>2, <1>5, <1>7 DEF Rest, Reduced, q, n, x, d, A, a

\* The order at loc leaves its level.
LEMMA DetachIs ==
    ASSUME NEW own, NEW pool, NEW nodes, NEW l, NEW index, ListsInv(l, nodes),
           NEW s \in Sides, NEW p \in Prices, NEW k \in 1..Len(l[s][p]),
           NEW loc, loc.side = s, loc.price = p, loc.iterator = l[s][p][k]
    PROVE  Detach(Rest(own, pool, nodes, l, index), loc) = Removed(own, pool, nodes, l, index, s, p, k)
  <1> DEFINE b == Rest(own, pool, nodes, l, index)
             n == l[s][p][k]
             x == nodes[n].remaining_quantity
             c == Reduced(own, pool, nodes, nodes, l, index, s, p, k)
  <1>1. AddAggregate(b, s, p, -x) = c
    BY ReducedIs, SMTT(30)
  <1>2. b.nodes = nodes
    BY DEF Rest, Book
  <1>3. Detach(b, loc) = EraseIfEmpty(EraseNode(AddAggregate(b, s, p, -x), s, p, n), s, p)
    <2> HIDE DEF b
    <2> QED
      BY <1>2 DEF Detach
  <1>4. EraseIfEmpty(EraseNode(c, s, p, n), s, p) = Removed(own, pool, nodes, l, index, s, p, k)
    BY EraseIs, SMTT(30)
  <1> HIDE DEF b, c, x, n
  <1> QED
    BY <1>1, <1>3, <1>4 DEF b

\* A book that an order left is a book.
LEMMA RemovedParts ==
    ASSUME NEW own, NEW pool, NEW nodes, NEW l, NEW index, Parts(own, pool, nodes, l, index),
           NEW id \in DOMAIN index, NEW k, Located(l, index, id, k)
    PROVE  PartsRemoved(own, pool, nodes, l, index, id, k)
  <1> DEFINE s == index[id].side
             p == index[id].price
             n == index[id].iterator
             m == Shorter(l, s, p, k)
  <1>1. own \in BOOLEAN /\ ListsInv(l, nodes) /\ IndexInv(l, nodes, index) /\ PoolInv(pool, DOMAIN nodes)
    BY DEF Parts
  <1>2. s \in Sides /\ p \in Prices /\ k \in 1..Len(l[s][p]) /\ l[s][p][k] = n
    BY DEF Located
  <1>3. n \in DOMAIN nodes
    BY <1>1, LocatedIs
  <1>4. DOMAIN Drop(nodes, n) = DOMAIN nodes \ {n}
    BY DEF Drop, Restrict
  <1> HIDE DEF s, p
  <1>5. Shortened(nodes, l, s, p, k)
    BY <1>1, <1>2, ShorterIs
  <1>6. ListsInv(m, Drop(nodes, n))
    BY <1>2, <1>5 DEF Shortened
  <1>7. PoolInv(Freed(pool, n), DOMAIN nodes \ {n})
    BY <1>1, <1>3, PoolFree
  <1>8. Keeps(l, m, DOMAIN nodes \ {n})
    <2>1. Keeps(l, m, DOMAIN nodes \ {l[s][p][k]})
      BY <1>1, <1>2, RemoveIn
    <2> QED
      BY <1>2, <2>1
  <1> HIDE DEF m
  <1>9. IndexInv(m, Drop(nodes, n), Drop(index, id))
    BY <1>1, <1>8, IndexRemove
  <1> QED
    BY <1>1, <1>4, <1>6, <1>7, <1>9 DEF PartsRemoved, Parts, m, s, p

\* apply(CancelOrder)
LEMMA CancelIs ==
    ASSUME NEW own, NEW pool, NEW nodes, NEW l, NEW index, Parts(own, pool, nodes, l, index), NEW id
    PROVE  CancelAnswers(own, pool, nodes, l, index, id, Cancel(Rest(own, pool, nodes, l, index), id))
  <1> DEFINE b == Rest(own, pool, nodes, l, index)
             s == index[id].side
             p == index[id].price
             n == index[id].iterator
  <1>0. ASSUME id \in DOMAIN index, NEW k, Located(l, index, id, k)
        PROVE  PartsRemoved(own, pool, nodes, l, index, id, k)
    BY <1>0, RemovedParts
  <1> SUFFICES \/ id \notin DOMAIN index /\ Cancel(b, id) = Done("UnknownOrder", b)
               \/ /\ id \in DOMAIN index
                  /\ \E k : /\ Located(l, index, id, k)
                            /\ Cancel(b, id) = Done("Ok", Removed(own, pool, nodes, l, Drop(index, id),
                                                        index[id].side, index[id].price, k))
    BY <1>0 DEF CancelAnswers, Leaves
  <1>1. own \in BOOLEAN /\ ListsInv(l, nodes) /\ IndexInv(l, nodes, index) /\ PoolInv(pool, DOMAIN nodes)
    BY DEF Parts
  <1>2. b.orders_by_id = index
    BY DEF Rest, Book
  <1>3. CASE id \notin DOMAIN index
    <2> HIDE DEF b
    <2> QED
      BY <1>2, <1>3 DEF Cancel, b
  <1>4. CASE id \in DOMAIN index
    <2>1. PICK k : Located(l, index, id, k)
      BY <1>1, <1>4, LocatedIs
    <2>2. s \in Sides /\ p \in Prices /\ k \in 1..Len(l[s][p]) /\ l[s][p][k] = n
      BY <2>1 DEF Located
    <2>3. p \in Filled(l)[s]
      BY <1>1, <1>4, LocatedIs
    <2>4. p \in DOMAIN b.levels[s]
      BY <2>2, <2>3 DEF Rest, Book, Levels
    <2>5. Detach(b, index[id]) = Removed(own, pool, nodes, l, index, s, p, k)
      BY <1>1, <2>2, DetachIs, SMTT(30)
    <2>6. Cancel(b, id) = Done("Ok", Unindex(Detach(b, index[id]), id))
      <3> HIDE DEF b
      <3> QED
        BY <1>2, <1>4, <2>4 DEF Cancel
    <2>7. Unindex(Removed(own, pool, nodes, l, index, s, p, k), id)
            = Removed(own, pool, nodes, l, Drop(index, id), s, p, k)
      <3> HIDE DEF s, p
      <3> QED
        BY RemovedUnindex, SMTT(30)
    <2> HIDE DEF b, s, p
    <2>8. Cancel(b, id) = Done("Ok", Removed(own, pool, nodes, l, Drop(index, id), s, p, k))
      BY <2>5, <2>6, <2>7
    <2> QED
      BY <1>4, <2>1, <2>8 DEF b, s, p
  <1> QED
    BY <1>3, <1>4

\* The order keeps its place with another quantity.
LEMMA AdjustIs ==
    ASSUME NEW own, NEW pool, NEW nodes, NEW l, NEW index, ListsInv(l, nodes),
           NEW s \in Sides, NEW p \in Prices, NEW k \in 1..Len(l[s][p]), NEW n, n = l[s][p][k],
           NEW q \in Nat \ {0}, NEW x \in Int, x = q - nodes[n].remaining_quantity
    PROVE  WithQuantity(AddAggregate(Rest(own, pool, nodes, l, index), s, p, x), n, q)
              = Rest(own, pool, Resized(nodes, n, q), l, index)
  <1> DEFINE d == Filled(l)
             A == Sums(l, nodes)
             N == Resized(nodes, n, q)
  <1>1. Typed(d, l, A) /\ l[s][p] \in Seq(Int)
    BY TypedLists, SMTT(30) DEF Typed
  <1>2. p \in d[s]
    <2>1. l[s][p] # <<>>
      BY <1>1, SMTT(30)
    <2> QED
      BY <2>1 DEF Filled
  <1>3. Sums(l, N) = Set(A, s, p, A[s][p] + x)
    BY ResizeLists, SMTT(30)
  <1> HIDE DEF A, d, N
  <1>4. AddAggregate(Book(own, pool, nodes, d, l, A, index), s, p, x)
          = Book(own, pool, nodes, d, l, Set(A, s, p, A[s][p] + x), index)
    BY <1>1, <1>2, BookAddAggregate, SMTT(30)
  <1>5. [Book(own, pool, nodes, d, l, Sums(l, N), index) EXCEPT !.nodes[n].remaining_quantity = q]
          = Book(own, pool, Resized(nodes, n, q), d, l, Sums(l, N), index)
    <2> DEFINE B == Sums(l, N)
    <2> HIDE DEF B
    <2>1. [Book(own, pool, nodes, d, l, B, index) EXCEPT !.nodes[n].remaining_quantity = q]
            = Book(own, pool, Resized(nodes, n, q), d, l, B, index)
      BY BookResize, SMTT(30)
    <2> QED
      BY <2>1 DEF B
  <1> QED
    BY <1>3, <1>4, <1>5 DEF Rest, WithQuantity, A, d, N

\* The parts of a book agree after a partial execution or a reduction in place.
LEMMA ResizedParts ==
    ASSUME NEW own, NEW pool, NEW nodes, NEW l, NEW index, Parts(own, pool, nodes, l, index),
           NEW id \in DOMAIN index, NEW q \in Nat \ {0}
    PROVE  PartsResized(own, pool, nodes, l, index, id, q)
  <1> DEFINE s == index[id].side
             p == index[id].price
             n == index[id].iterator
  <1>1. own \in BOOLEAN /\ ListsInv(l, nodes) /\ IndexInv(l, nodes, index) /\ PoolInv(pool, DOMAIN nodes)
    BY DEF Parts
  <1>2. PICK k : Located(l, index, id, k)
    BY <1>1, LocatedIs
  <1>3. s \in Sides /\ p \in Prices /\ k \in 1..Len(l[s][p]) /\ l[s][p][k] = n
    BY <1>2 DEF Located
  <1>4. n \in DOMAIN nodes
    BY <1>1, LocatedIs
  <1> HIDE DEF s, p, n
  <1>5. ListsInv(l, Resized(nodes, n, q))
    BY <1>1, <1>3, ResizeLists
  <1>6. IndexInv(l, Resized(nodes, n, q), index)
    BY <1>1, <1>4, IndexResize
  <1>7. DOMAIN Resized(nodes, n, q) = DOMAIN nodes
    BY <1>1, <1>4, ResizedIs DEF ListsInv
  <1> QED
    BY <1>1, <1>5, <1>6, <1>7 DEF PartsResized, Parts, n

\* A node with nothing left goes.
LEMMA UsedUp ==
    ASSUME NEW own, NEW pool, NEW nodes, NEW l, NEW index, ListsInv(l, nodes),
           NEW s \in Sides, NEW p \in Prices, NEW k \in 1..Len(l[s][p]),
           NEW loc, loc.side = s, loc.price = p, loc.iterator = l[s][p][k],
           NEW q, q = nodes[loc.iterator].remaining_quantity
    PROVE  Detach(LessQuantity(AddAggregate(Rest(own, pool, nodes, l, index), s, p, -q), loc.iterator, q), loc)
              = Removed(own, pool, nodes, l, index, s, p, k)
  <1> DEFINE n == l[s][p][k]
             b == Rest(own, pool, nodes, l, index)
             z == 0
             N == Resized(nodes, n, z)
             d == Filled(l)
             m == Shorter(l, s, p, k)
             less == Drop(nodes, n)
             a == Sums(m, less)
             c == Reduced(own, pool, nodes, nodes, l, index, s, p, k)
             u == Reduced(own, pool, N, nodes, l, index, s, p, k)
  <1>1. n \in DOMAIN nodes /\ q \in Nat \ {0} /\ AddAggregate(b, s, p, -q) = c
    <2>1. AddAggregate(b, s, p, -nodes[n].remaining_quantity) = c
      BY ReducedIs, SMTT(30)
    <2>2. n \in DOMAIN nodes
      BY ListFacts
    <2>3. nodes[n].remaining_quantity \in Nat \ {0}
      BY <2>2 DEF ListsInv, Entries
    <2>4. q = nodes[n].remaining_quantity
      OBVIOUS
    <2> HIDE DEF n, b, c
    <2> QED
      BY <2>1, <2>2, <2>3, <2>4
  <1>2. c.nodes[n].remaining_quantity - q = z
    BY <1>1, SMTT(30) DEF Reduced, Book
  <1>3. [c EXCEPT !.nodes[n].remaining_quantity = z] = u
    <2> HIDE DEF n, z, d, m, less, a
    <2>1. [Book(own, pool, nodes, d, l, a, index) EXCEPT !.nodes[n].remaining_quantity = z]
            = Book(own, pool, N, d, l, a, index)
      BY BookResize, SMTT(30)
    <2> QED
      BY <2>1 DEF Reduced, n, d, m, less, a
  <1>4. [AddAggregate(b, s, p, -q) EXCEPT !.nodes[n].remaining_quantity = @ - q] = u
    <2> HIDE DEF b, c, u, z
    <2> QED
      BY <1>1, <1>2, <1>3
  <1>5. Drop(N, n) = less /\ N[n].remaining_quantity = z
    <2> HIDE DEF z, n
    <2>1. nodes[n] \in Entries /\ nodes \in [DOMAIN nodes -> Entries]
      BY <1>1 DEF ListsInv
    <2>2. DOMAIN N = DOMAIN nodes /\ \A x \in DOMAIN nodes : x # n => N[x] = nodes[x]
      BY DEF Resized
    <2>3. N[n].remaining_quantity = z
      BY <1>1, <2>1 DEF Resized, Entries
    <2> QED
      BY <2>2, <2>3 DEF Drop, Restrict
  <1>6. Shortened(nodes, l, s, p, k)
    BY ShorterIs
  <1>7. Typed(Filled(m), m, a) /\ Typed(d, l, Sums(l, nodes)) /\ l[s][p] \in Seq(Int)
    <2>1. ListsInv(m, less)
      BY <1>6 DEF Shortened
    <2> HIDE DEF m, less
    <2>2. Typed(Filled(m), m, a)
      BY <2>1, TypedLists
    <2>3. Typed(d, l, Sums(l, nodes))
      BY TypedLists
    <2>4. l[s][p] \in Seq(Int)
      BY <2>3 DEF Typed
    <2> QED
      BY <2>2, <2>3, <2>4
  <1>8. Typed(d, l, a) /\ p \in d[s]
    <2>1. l[s][p] # <<>>
      BY <1>7, SMTT(30)
    <2> QED
      BY <1>7, <2>1 DEF Filled, Typed
  <1>9. AddAggregate(u, s, p, -z) = u
    <2> DEFINE f == -z
    <2>1. f \in Int /\ \A y \in Int : y + f = y
      BY SMTT(30)
    <2>2. a \in [Sides -> [Prices -> Int]] /\ p \in Prices
      BY <1>8 DEF Typed
    <2> HIDE DEF f, N, d, a
    <2>3. AddAggregate(Book(own, pool, N, d, l, a, index), s, p, f)
            = Book(own, pool, N, d, l, Set(a, s, p, a[s][p] + f), index)
      BY <1>8, <2>1, BookAddAggregate, SMTT(30)
    <2>4. Set(a, s, p, a[s][p] + f) = a
      <3>1. a[s][p] + f = a[s][p]
        BY <2>1, <2>2
      <3>2. Set(a, s, p, a[s][p]) = a
        BY <2>2 DEF Set
      <3> QED
        BY <3>1, <3>2
    <2> QED
      BY <2>3, <2>4 DEF Reduced, f, d, a
  <1>10. u.nodes = N
    BY DEF Reduced, Book
  <1>11. Detach(u, loc) = EraseIfEmpty(EraseNode(AddAggregate(u, s, p, -z), s, p, n), s, p)
    <2>1. loc.iterator = n
      OBVIOUS
    <2> HIDE DEF u, z, n, N
    <2> QED
      BY <1>5, <1>10, <2>1 DEF Detach
  <1>12. EraseIfEmpty(EraseNode(u, s, p, n), s, p) = Removed(own, pool, nodes, l, index, s, p, k)
    BY <1>5, EraseIs, SMTT(30)
  <1>13. loc.iterator = n
    OBVIOUS
  <1> HIDE DEF u, z, n, N, b
  <1> QED
    BY <1>4, <1>9, <1>11, <1>12, <1>13, SMTT(30) DEF b, LessQuantity

=============================================================================
