------------------------ MODULE FixedSlotPoolProofs -------------------------
(***************************************************************************)
(* FreeOrHeld and HeldSlotsAreUsable hold of the pool for every capacity,  *)
(* base address, set of request types and set of freed pointers.           *)
(***************************************************************************)
EXTENDS FixedSlotPool, FiniteSetTheorems, TLAPS

-----------------------------------------------------------------------------
(* Arithmetic of slots *)

\* Dividing a multiple gives the factor back: IndexOf inverts the offset of a slot.
LEMMA DivExact ==
    ASSUME NEW k \in Nat, NEW b \in Nat \ {0}
    PROVE  (k * b) \div b = k
  OBVIOUS

\* Euclidean division, as the SMT backend needs it spelled out.
LEMMA DivMod ==
    ASSUME NEW x \in Nat, NEW b \in Nat \ {0}
    PROVE  /\ x \div b \in Nat
           /\ x % b \in 0..(b - 1)
           /\ x = b * (x \div b) + (x % b)
  OBVIOUS

\* Slots of different indices do not overlap.
LEMMA MulStep ==
    ASSUME NEW k \in Nat, NEW j \in Nat, NEW b \in Nat \ {0}, k < j
    PROVE  k * b + b <= j * b
  OBVIOUS

\* Slots at the same offset have the same index.
LEMMA MulInjective ==
    ASSUME NEW k \in Nat, NEW j \in Nat, NEW b \in Nat \ {0}, k * b = j * b
    PROVE  k = j
  OBVIOUS

\* The order of offsets is the order of indices.
LEMMA MulCancel ==
    ASSUME NEW k \in Nat, NEW j \in Nat, NEW b \in Nat \ {0}, k * b <= j * b
    PROVE  k <= j
  OBVIOUS

\* A remainder is not changed by adding multiples of the divisor.
LEMMA ModAddMultiple ==
    ASSUME NEW q \in Nat, NEW b \in Nat \ {0}, NEW x \in Nat
    PROVE  (q * b + x) % b = x % b
<1> DEFINE t == x \div b
           y == x % b
<1>1. t \in Nat /\ y \in 0..(b - 1) /\ x = b * t + y
  BY DivMod, Zenon
<1>2. \A u \in Nat : (u * b + y) % b = y
  BY <1>1
<1> HIDE DEF t, y
<1>3. q * b + x = (q + t) * b + y
  BY <1>1
<1>4. (q + t) \in Nat
  BY <1>1
<1>5. ((q + t) * b + y) % b = y
  BY <1>2, <1>4, Zenon
<1> QED
  BY <1>3, <1>5 DEF y

-----------------------------------------------------------------------------
(* A request that fits *)

Fitting(r) == r \in Requests /\ r.bytes # 0 /\ Fits(r)

Start(r, k) == Padding(r) + k * r.bytes

\* A fitting request cuts at least one slot, and all its slots lie in the
\* storage.
LEMMA CutFacts ==
    ASSUME NEW r, Fitting(r)
    PROVE  /\ r.bytes \in Nat \ {0}
           /\ r.alignment \in Nat \ {0}
           /\ Padding(r) \in Nat
           /\ SlotCount(r) \in Nat \ {0}
           /\ Padding(r) + SlotCount(r) * r.bytes <= CapacityBytes
<1>1. r.bytes \in Nat \ {0} /\ r.alignment \in Nat \ {0}
  BY PoolAssumption DEF Fitting
<1>2. Base % r.alignment \in 0..(r.alignment - 1)
  BY <1>1, DivMod, PoolAssumption
<1>3. Padding(r) \in 0..(r.alignment - 1)
  <2>1. r.alignment - (Base % r.alignment) \in Nat
    BY <1>1, <1>2
  <2> QED
    BY <1>1, <2>1, DivMod, SMTT(30) DEF Padding
<1>4. CapacityBytes - Padding(r) \in Nat /\ CapacityBytes - Padding(r) >= r.bytes
  BY <1>1, <1>3, PoolAssumption DEF Fitting, Fits
<1> DEFINE space == CapacityBytes - Padding(r)
<1>5. /\ SlotCount(r) \in Nat
      /\ space % r.bytes \in 0..(r.bytes - 1)
      /\ space = r.bytes * SlotCount(r) + (space % r.bytes)
  BY <1>1, <1>4, DivMod, Zenon DEF SlotCount
<1>6. SlotCount(r) # 0
  BY <1>1, <1>4, <1>5
<1>7. SlotCount(r) * r.bytes <= space
  BY <1>1, <1>5
<1> QED
  BY <1>1, <1>3, <1>5, <1>6, <1>7, PoolAssumption

\* The offsets of the slots are in one-to-one correspondence with the indices.
LEMMA StartFacts ==
    ASSUME NEW r, Fitting(r), NEW k \in 0..(SlotCount(r) - 1)
    PROVE  /\ Start(r, k) \in Nat
           /\ Start(r, k) \in StartsFor(r)
           /\ (Start(r, k) - Padding(r)) \div r.bytes = k
           /\ \A j \in 0..(SlotCount(r) - 1) : Start(r, k) = Start(r, j) => k = j
<1>1. r.bytes \in Nat \ {0} /\ Padding(r) \in Nat /\ SlotCount(r) \in Nat \ {0}
  BY CutFacts
<1>2. k \in Nat /\ k * r.bytes \in Nat
  BY <1>1
<1>3. Start(r, k) - Padding(r) = k * r.bytes
  BY <1>1, <1>2 DEF Start
<1>4. ASSUME NEW j \in 0..(SlotCount(r) - 1), Start(r, k) = Start(r, j)
      PROVE  k = j
  <2>1. j \in Nat /\ j * r.bytes \in Nat
    BY <1>1
  <2>2. k * r.bytes = j * r.bytes
    BY <1>1, <1>2, <1>4, <2>1 DEF Start
  <2> QED
    BY <1>1, <1>2, <2>1, <2>2, MulInjective
<1>5. Start(r, k) \in Nat
  BY <1>1, <1>2 DEF Start
<1>6. Start(r, k) \in StartsFor(r)
  BY DEF Start, StartsFor
<1> QED
  BY <1>1, <1>2, <1>3, <1>4, <1>5, <1>6, DivExact

\* The pointers that pass deallocate's range and stride checks are slots.
LEMMA AcceptedIsStart ==
    ASSUME NEW r, Fitting(r), NEW s \in Int,
           s >= Padding(r),
           s <= Padding(r) + (SlotCount(r) - 1) * r.bytes,
           (s - Padding(r)) % r.bytes = 0
    PROVE  \E k \in 0..(SlotCount(r) - 1) : s = Start(r, k)
<1> DEFINE x == s - Padding(r)
           k == x \div r.bytes
           n == SlotCount(r)
<1>1. r.bytes \in Nat \ {0} /\ Padding(r) \in Nat /\ n \in Nat \ {0}
  BY CutFacts
<1>2. x \in Nat
  BY <1>1
<1>3. k \in Nat /\ x = r.bytes * k + 0
  BY <1>1, <1>2, DivMod, Zenon
<1>4. k * r.bytes <= (n - 1) * r.bytes
  <2>1. x <= (n - 1) * r.bytes
    BY <1>1, <1>2
  <2> QED
    BY <1>1, <1>3, <2>1
<1> HIDE DEF x, k
<1>5. k <= n - 1
  BY <1>1, <1>3, <1>4, MulCancel
<1>6. k \in 0..(SlotCount(r) - 1)
  BY <1>1, <1>3, <1>5
<1>7. s = Start(r, k)
  BY <1>1, <1>3, <1>6 DEF Start, x
<1> QED
  BY <1>6, <1>7

-----------------------------------------------------------------------------
(* The calls of the pool *)

\* A cut pool, field by field.
Shape(p, r) ==
    /\ p = [first_init        |-> TRUE,
            free_slots        |-> p.free_slots,
            in_uses           |-> p.in_uses,
            free_count        |-> p.free_count,
            slot_sz           |-> r.bytes,
            slot_alignment    |-> r.alignment,
            first_valid_start |-> Padding(r),
            last_valid_start  |-> Padding(r) + (SlotCount(r) - 1) * r.bytes]
    /\ p.free_slots \in [0..(SlotCount(r) - 1) -> StartsFor(r)]
    /\ p.in_uses \in [0..(SlotCount(r) - 1) -> BOOLEAN]
    /\ p.free_count \in 0..SlotCount(r)

\* A pool of that shape is one of PoolsFor.
LEMMA ShapeIsType ==
    ASSUME NEW p, NEW r, Shape(p, r)
    PROVE  p \in PoolsFor(r)
<1> DEFINE fs == p.free_slots
           iu == p.in_uses
           c == p.free_count
<1>1. p = [first_init        |-> TRUE,
           free_slots        |-> fs,
           in_uses           |-> iu,
           free_count        |-> c,
           slot_sz           |-> r.bytes,
           slot_alignment    |-> r.alignment,
           first_valid_start |-> Padding(r),
           last_valid_start  |-> Padding(r) + (SlotCount(r) - 1) * r.bytes]
  BY DEF Shape
<1>2. /\ fs \in [0..(SlotCount(r) - 1) -> StartsFor(r)]
      /\ iu \in [0..(SlotCount(r) - 1) -> BOOLEAN]
      /\ c \in 0..SlotCount(r)
  BY DEF Shape
<1> HIDE DEF fs, iu, c
<1> QED
  BY <1>1, <1>2 DEF PoolsFor

\* PoolInv of a pool that is known to be cut for request r, with its slots
\* named by their indices: the stack fs[0 .. c - 1], the bits iu, the
\* clients' slots h.
StackInv(fs, iu, c, h, r) ==
    /\ \A i, j \in 0..(c - 1) : fs[i] = fs[j] => i = j
    /\ \A i \in 0..(c - 1), k \in 0..(SlotCount(r) - 1) :
          fs[i] = Start(r, k) => ~iu[k]
    /\ \A k \in 0..(SlotCount(r) - 1) :
          ~iu[k] => \E i \in 0..(c - 1) : fs[i] = Start(r, k)
    /\ h = {Start(r, k) : k \in {x \in 0..(SlotCount(r) - 1) : iu[x]}}

CutInv(p, h, r) ==
    Shape(p, r) /\ StackInv(p.free_slots, p.in_uses, p.free_count, h, r)

\* Cutting the storage puts every slot on the free stack, once.
LEMMA CutCorrect ==
    ASSUME NEW r, Fitting(r)
    PROVE  CutInv(Cut(r), {}, r)
<1> DEFINE Slots == 0..(SlotCount(r) - 1)
           fs == [i \in Slots |-> Padding(r) + i * r.bytes]
           iu == [i \in Slots |-> FALSE]
<1>1. SlotCount(r) \in Nat \ {0} /\ r.bytes \in Nat \ {0} /\ Padding(r) \in Nat
  BY CutFacts
<1>2. Shape(Cut(r), r)
  BY <1>1 DEF Cut, Shape, StartsFor
<1>3. \A i \in Slots : fs[i] = Start(r, i) /\ ~iu[i]
  BY DEF Start
<1>4. \A i, j \in Slots : Start(r, i) = Start(r, j) => i = j
  BY StartFacts
<1>5. StackInv(fs, iu, SlotCount(r), {}, r)
  <2> HIDE DEF fs, iu
  <2> QED
    BY <1>3, <1>4 DEF StackInv
<1>6. Cut(r).free_slots = fs /\ Cut(r).in_uses = iu /\ Cut(r).free_count = SlotCount(r)
  BY DEF Cut
<1> QED
  BY <1>2, <1>5, <1>6 DEF CutInv

\* Taking the top of a nonempty stack moves that slot to the clients.
LEMMA TakeCorrect ==
    ASSUME NEW r, Fitting(r), NEW p, NEW h, CutInv(p, h, r), p.free_count # 0
    PROVE  CutInv(Take(p), h \cup {Block(p)}, r)
<1> DEFINE Slots == 0..(SlotCount(r) - 1)
           c == p.free_count
           fs == p.free_slots
           iu == p.in_uses
<1>1. /\ SlotCount(r) \in Nat \ {0}
      /\ c \in 1..SlotCount(r)
      /\ fs \in [Slots -> StartsFor(r)]
      /\ iu \in [Slots -> BOOLEAN]
      /\ p.first_valid_start = Padding(r) /\ p.slot_sz = r.bytes
  <2>1. SlotCount(r) \in Nat \ {0}
    BY CutFacts
  <2>2. Shape(p, r)
    BY DEF CutInv
  <2> QED
    BY <2>1, <2>2 DEF Shape
<1>2. PICK b \in Slots : Block(p) = Start(r, b)
  <2>1. c - 1 \in Slots
    BY <1>1
  <2>2. fs[c - 1] \in StartsFor(r)
    BY <1>1, <2>1
  <2> QED
    BY <2>2 DEF StartsFor, Start, Block
<1>3. IndexOf(p, Block(p)) = b
  BY <1>1, <1>2, StartFacts DEF IndexOf
<1>4. /\ Shape(Take(p), r)
      /\ Take(p).free_count = c - 1
      /\ Take(p).free_slots = fs
      /\ Take(p).in_uses = [iu EXCEPT ![b] = TRUE]
  <2>1. p = [first_init        |-> TRUE,
             free_slots        |-> fs,
             in_uses           |-> iu,
             free_count        |-> c,
             slot_sz           |-> r.bytes,
             slot_alignment    |-> r.alignment,
             first_valid_start |-> Padding(r),
             last_valid_start  |-> Padding(r) + (SlotCount(r) - 1) * r.bytes]
    BY DEF CutInv, Shape
  <2>2. Take(p) = [first_init  |-> TRUE,
             free_slots        |-> fs,
             in_uses           |-> [iu EXCEPT ![b] = TRUE],
             free_count        |-> c - 1,
             slot_sz           |-> r.bytes,
             slot_alignment    |-> r.alignment,
             first_valid_start |-> Padding(r),
             last_valid_start  |-> Padding(r) + (SlotCount(r) - 1) * r.bytes]
    <3> DEFINE bk == IndexOf(p, Block(p))
    <3>1. Take(p) = [p EXCEPT !.free_count = c - 1, !.in_uses = [iu EXCEPT ![bk] = TRUE]]
      BY <2>1, Zenon DEF Take
    <3> HIDE DEF fs, iu, c
    <3> QED
      BY <1>3, <2>1, <3>1, ZenonT(30)
  <2>3. [iu EXCEPT ![b] = TRUE] \in [Slots -> BOOLEAN] /\ c - 1 \in 0..SlotCount(r)
    BY <1>1
  <2> HIDE DEF fs, iu, c
  <2> QED
    BY <1>1, <2>2, <2>3 DEF Shape
<1>5. \A i, j \in Slots : Start(r, i) = Start(r, j) => i = j
  BY StartFacts
<1>6. fs[c - 1] = Start(r, b)
  BY <1>2 DEF Block
<1>7. StackInv(fs, iu, c, h, r)
  BY DEF CutInv
<1>8. StackInv(fs, [iu EXCEPT ![b] = TRUE], c - 1, h \cup {Start(r, b)}, r)
  <2> HIDE DEF fs, iu, c
  <2>1. \A i, j \in 0..(c - 1 - 1) : fs[i] = fs[j] => i = j
    BY <1>1, <1>7, SMTT(30) DEF StackInv
  <2>2. \A i \in 0..(c - 1 - 1), k \in Slots :
            fs[i] = Start(r, k) => ~[iu EXCEPT ![b] = TRUE][k]
    BY <1>1, <1>6, <1>7 DEF StackInv
  <2>3. \A k \in Slots : ~[iu EXCEPT ![b] = TRUE][k] =>
            \E i \in 0..(c - 1 - 1) : fs[i] = Start(r, k)
    BY <1>1, <1>5, <1>6, <1>7 DEF StackInv
  <2>4. h \cup {Start(r, b)} =
            {Start(r, k) : k \in {x \in Slots : [iu EXCEPT ![b] = TRUE][x]}}
    BY <1>1, <1>7 DEF StackInv
  <2> QED
    BY <2>1, <2>2, <2>3, <2>4 DEF StackInv
<1> QED
  BY <1>2, <1>4, <1>8 DEF CutInv

\* The stack and the clients' slots add up to all the slots: both are images
\* of a half of in_uses_ under a bijection.
LEMMA StackCount ==
    ASSUME NEW r, Fitting(r), NEW p, NEW h, CutInv(p, h, r)
    PROVE  /\ IsFiniteSet(h)
           /\ p.free_count + Cardinality(h) = SlotCount(r)
           /\ h # {} => p.free_count < SlotCount(r)
<1> DEFINE Slots == 0..(SlotCount(r) - 1)
           c == p.free_count
           fs == p.free_slots
           iu == p.in_uses
           Clear == {x \in Slots : ~iu[x]}
           Marked == {x \in Slots : iu[x]}
           g == [i \in 0..(c - 1) |-> CHOOSE k \in Slots : fs[i] = Start(r, k)]
           m == [k \in Marked |-> Start(r, k)]
<1>1. SlotCount(r) \in Nat \ {0} /\ c \in 0..SlotCount(r) /\ fs \in [Slots -> StartsFor(r)]
  BY CutFacts DEF CutInv, Shape
<1>2. StackInv(fs, iu, c, h, r)
  BY DEF CutInv
<1>3. \A i, j \in Slots : Start(r, i) = Start(r, j) => i = j
  BY StartFacts
<1>4. \A i \in 0..(c - 1) : g[i] \in Slots /\ fs[i] = Start(r, g[i])
  <2> SUFFICES ASSUME NEW i \in 0..(c - 1)
               PROVE  \E k \in Slots : fs[i] = Start(r, k)
    BY Zenon
  <2>1. i \in Slots
    BY <1>1
  <2>2. fs[i] \in StartsFor(r)
    BY <1>1, <2>1
  <2> QED
    BY <2>2 DEF StartsFor, Start
<1>5. DOMAIN g = 0..(c - 1)
  OBVIOUS
<1> HIDE DEF fs, iu, c, g
<1>6. g \in Bijection(0..(c - 1), Clear)
  <2>1. \A i \in 0..(c - 1) : g[i] \in Clear
    BY <1>2, <1>4 DEF StackInv
  <2>2. \A i, j \in 0..(c - 1) : g[i] = g[j] => i = j
    BY <1>2, <1>4 DEF StackInv
  <2>3. \A k \in Clear : \E i \in 0..(c - 1) : g[i] = k
    BY <1>2, <1>3, <1>4 DEF StackInv
  <2>4. g = [i \in 0..(c - 1) |-> g[i]]
    BY DEF g
  <2> QED
    BY <2>1, <2>2, <2>3, <2>4 DEF Bijection, Injection, IsInjective, Surjection
<1>7. m \in Bijection(Marked, h)
  <2>1. h = {Start(r, k) : k \in Marked}
    BY <1>2 DEF StackInv
  <2> QED
    BY <1>3, <2>1 DEF Bijection, Injection, IsInjective, Surjection
<1>8. IsFiniteSet(Slots) /\ Cardinality(Slots) = SlotCount(r)
  BY <1>1, FS_Interval, SMTT(30)
<1>9. IsFiniteSet(Clear) /\ IsFiniteSet(Marked)
  BY <1>8, FS_Subset, Zenon
<1>10. IsFiniteSet(0..(c - 1)) /\ Cardinality(0..(c - 1)) = c
  <2>1. c \in Nat /\ c - 1 \in Int /\ 0 \in Int
    BY <1>1
  <2>2. /\ IsFiniteSet(0..(c - 1))
        /\ Cardinality(0..(c - 1)) = IF 0 > c - 1 THEN 0 ELSE c - 1 - 0 + 1
    BY <2>1, FS_Interval, Zenon
  <2> QED
    BY <2>1, <2>2
<1>11. Cardinality(Clear) = c
  BY <1>6, <1>10, FS_Bijection DEF ExistsBijection
<1>12. IsFiniteSet(h) /\ Cardinality(h) = Cardinality(Marked)
  BY <1>7, <1>9, FS_Bijection DEF ExistsBijection
<1>13. Cardinality(Clear \cup Marked) =
           Cardinality(Clear) + Cardinality(Marked) - Cardinality(Clear \cap Marked)
  BY <1>9, FS_Union
<1>14. Clear \cup Marked = Slots /\ Clear \cap Marked = {}
  OBVIOUS
<1>15. Cardinality(h) \in Nat /\ c + Cardinality(h) = SlotCount(r)
  <2>1. Cardinality(Clear \cap Marked) = 0
    BY <1>14, FS_EmptySet
  <2>2. Cardinality(Clear \cup Marked) = SlotCount(r)
    BY <1>8, <1>14, Zenon
  <2>3. Cardinality(h) \in Nat
    BY <1>12, FS_CardinalityType
  <2> HIDE DEF Clear, Marked
  <2> QED
    BY <1>1, <1>11, <1>12, <1>13, <2>1, <2>2, <2>3
<1>16. h # {} => Cardinality(h) # 0
  BY <1>12, FS_EmptySet
<1> QED
  BY <1>1, <1>12, <1>15, <1>16 DEF c

\* Every slot is aligned: std::align aligned the first one, and the size is a
\* multiple of the alignment.
LEMMA StartAligned ==
    ASSUME NEW r, Fitting(r), NEW k \in 0..(SlotCount(r) - 1)
    PROVE  (Base + Start(r, k)) % r.alignment = 0
<1> DEFINE a == r.alignment
           bm == Base % a
           qb == Base \div a
<1>1. a \in Nat \ {0} /\ r.bytes \in Nat /\ SlotCount(r) \in Nat /\ k \in Nat
  BY CutFacts
<1>2. bm \in 0..(a - 1) /\ qb \in Nat /\ Base = a * qb + bm
  BY <1>1, DivMod, PoolAssumption, Zenon
<1>3. Padding(r) = (a - bm) % a
  BY DEF Padding
<1>4. PICK z \in Nat : r.bytes = z * a
  BY <1>1, SizesAreAligned DEF Fitting
<1> HIDE DEF a, bm, qb
<1>5. PICK m \in Nat : Base + Padding(r) = m * a
  <2>1. CASE bm = 0
    <3>1. Padding(r) = 0
      BY <1>1, <1>3, <2>1
    <3> QED
      BY <1>1, <1>2, <2>1, <3>1
  <2>2. CASE bm # 0
    <3>1. Padding(r) = a - bm
      BY <1>1, <1>2, <1>3, <2>2
    <3>2. Base + Padding(r) = (qb + 1) * a
      BY <1>1, <1>2, <3>1
    <3> QED
      BY <1>2, <3>2
  <2> QED
    BY <2>1, <2>2
<1>6. k * z \in Nat /\ k * r.bytes = (k * z) * a
  BY <1>1, <1>4
<1>7. Base + Start(r, k) = m * a + (k * z) * a
  <2>1. Start(r, k) = Padding(r) + (k * z) * a
    BY <1>6 DEF Start
  <2>2. Padding(r) \in Nat /\ Base \in Nat /\ (k * z) * a \in Nat
    BY <1>1, <1>6, CutFacts, PoolAssumption
  <2> QED
    BY <1>5, <2>1, <2>2
<1>8. m * a + (k * z) * a = (m + k * z) * a + 0
  BY <1>1, <1>5, <1>6
<1>9. m + k * z \in Nat
  BY <1>6
<1>10. ((m + k * z) * a + 0) % a = 0 % a
  BY <1>1, <1>9, ModAddMultiple
<1> QED
  BY <1>1, <1>7, <1>8, <1>10 DEF a

\* Freeing puts an accepted slot back on the stack; what deallocate ignores
\* was not held.
LEMMA DeallocateCorrect ==
    ASSUME NEW r, Fitting(r), NEW p, NEW h, CutInv(p, h, r),
           NEW s \in Int, NEW bytes
    PROVE  CutInv(Deallocate(p, s, bytes),
                  IF bytes = p.slot_sz THEN h \ {s} ELSE h, r)
<1> DEFINE Slots == 0..(SlotCount(r) - 1)
           c == p.free_count
           fs == p.free_slots
           iu == p.in_uses
           last == Padding(r) + (SlotCount(r) - 1) * r.bytes
<1>1. /\ SlotCount(r) \in Nat \ {0} /\ r.bytes \in Nat \ {0} /\ Padding(r) \in Nat
      /\ c \in 0..SlotCount(r)
      /\ fs \in [Slots -> StartsFor(r)]
      /\ iu \in [Slots -> BOOLEAN]
  BY CutFacts, SMTT(30) DEF CutInv, Shape
<1>2. p = [first_init        |-> TRUE,
           free_slots        |-> fs,
           in_uses           |-> iu,
           free_count        |-> c,
           slot_sz           |-> r.bytes,
           slot_alignment    |-> r.alignment,
           first_valid_start |-> Padding(r),
           last_valid_start  |-> last]
  BY DEF CutInv, Shape
<1>3. StackInv(fs, iu, c, h, r)
  BY DEF CutInv
<1>4. \A i, j \in Slots : Start(r, i) = Start(r, j) => i = j
  BY StartFacts
<1>5. \A k \in Slots : IndexOf(p, Start(r, k)) = k
  <2>1. p.first_valid_start = Padding(r) /\ p.slot_sz = r.bytes
    BY <1>2
  <2> QED
    BY <2>1, StartFacts DEF IndexOf
<1>6. CASE Accepts(p, s, bytes)
  <2>1. /\ s >= Padding(r) /\ s <= last /\ (s - Padding(r)) % r.bytes = 0
        /\ bytes = p.slot_sz /\ iu[IndexOf(p, s)]
    <3> HIDE DEF fs, c, iu, last
    <3> QED
      BY <1>2, <1>6 DEF Accepts
  <2>2. PICK b \in Slots : s = Start(r, b)
    BY <2>1, AcceptedIsStart
  <2>3. IndexOf(p, s) = b /\ iu[b]
    BY <1>5, <2>1, <2>2
  <2>4. s \in h
    BY <1>3, <2>2, <2>3 DEF StackInv
  <2>5. c \in Slots
    BY <1>1, <2>4, StackCount
  <2>6. Deallocate(p, s, bytes) =
          [first_init        |-> TRUE,
           free_slots        |-> [fs EXCEPT ![c] = s],
           in_uses           |-> [iu EXCEPT ![b] = FALSE],
           free_count        |-> c + 1,
           slot_sz           |-> r.bytes,
           slot_alignment    |-> r.alignment,
           first_valid_start |-> Padding(r),
           last_valid_start  |-> last]
    <3>1. Deallocate(p, s, bytes) =
            [p EXCEPT !.in_uses = [iu EXCEPT ![b] = FALSE],
                      !.free_slots = [fs EXCEPT ![c] = s],
                      !.free_count = c + 1]
      BY <1>2, <1>6, <2>3, Zenon DEF Deallocate
    <3> HIDE DEF fs, c, iu, last
    <3> QED
      BY <1>2, <3>1, ZenonT(30)
  <2>7. /\ [fs EXCEPT ![c] = s] \in [Slots -> StartsFor(r)]
        /\ [iu EXCEPT ![b] = FALSE] \in [Slots -> BOOLEAN]
        /\ c + 1 \in 0..SlotCount(r)
    BY <1>1, <2>2, <2>5, StartFacts, SMTT(30)
  <2>8. StackInv([fs EXCEPT ![c] = s], [iu EXCEPT ![b] = FALSE], c + 1, h \ {s}, r)
    <3> HIDE DEF fs, c, iu, last
    <3> DEFINE nf == [fs EXCEPT ![c] = s]
               nu == [iu EXCEPT ![b] = FALSE]
    <3>1. \A i \in 0..((c + 1) - 1) : i \in Slots /\ (i = c \/ i \in 0..(c - 1))
      BY <1>1, <2>5
    <3>2. nf[c] = s /\ \A i \in 0..(c - 1) : nf[i] = fs[i]
      BY <1>1, <2>5
    <3>3. ~nu[b] /\ \A k \in Slots : k # b => nu[k] = iu[k]
      BY <1>1
    <3>4. \A i \in 0..(c - 1) : fs[i] # s
      BY <1>3, <2>2, <2>3 DEF StackInv
    <3> HIDE DEF nf, nu
    <3>5. \A i, j \in 0..((c + 1) - 1) : nf[i] = nf[j] => i = j
      BY <1>3, <3>1, <3>2, <3>4 DEF StackInv
    <3>6. \A i \in 0..((c + 1) - 1), k \in Slots : nf[i] = Start(r, k) => ~nu[k]
      BY <1>3, <1>4, <2>2, <3>1, <3>2, <3>3, SMTT(30) DEF StackInv
    <3>7. \A k \in Slots : ~nu[k] => \E i \in 0..((c + 1) - 1) : nf[i] = Start(r, k)
      <4>1. c \in 0..((c + 1) - 1) /\ \A i \in 0..(c - 1) : i \in 0..((c + 1) - 1)
        BY <1>1
      <4> QED
        BY <1>3, <2>2, <3>2, <3>3, <4>1 DEF StackInv
    <3>8. h \ {s} = {Start(r, k) : k \in {x \in Slots : nu[x]}}
      BY <1>3, <1>4, <2>2, <3>3, SMTT(30) DEF StackInv
    <3>9. StackInv(nf, nu, c + 1, h \ {s}, r)
      BY <3>5, <3>6, <3>7, <3>8 DEF StackInv
    <3> QED
      BY <3>9 DEF nf, nu
  <2> HIDE DEF fs, c, iu
  <2> QED
    BY <2>1, <2>6, <2>7, <2>8 DEF CutInv, Shape
<1>7. CASE ~Accepts(p, s, bytes)
  <2>1. Deallocate(p, s, bytes) = p
    BY <1>7 DEF Deallocate
  <2>2. ASSUME bytes = p.slot_sz, s \in h
        PROVE  FALSE
    <3>1. PICK k \in Slots : s = Start(r, k) /\ iu[k]
      BY <1>3, <2>2 DEF StackInv
    <3>2. IndexOf(p, s) = k
      BY <1>5, <3>1, SMTT(30)
    <3>3. s >= Padding(r) /\ s <= last /\ (s - Padding(r)) % r.bytes = 0
      <4>1. k \in Nat /\ k * r.bytes \in Nat /\ k <= SlotCount(r) - 1
        BY <1>1
      <4>2. s - Padding(r) = k * r.bytes
        BY <1>1, <3>1, <4>1, SMTT(30) DEF Start
      <4>3. k * r.bytes <= (SlotCount(r) - 1) * r.bytes
        BY <1>1, <4>1, SMTT(30)
      <4>4. (k * r.bytes + 0) % r.bytes = 0 % r.bytes
        BY <1>1, <4>1, ModAddMultiple, ZenonT(30)
      <4> QED
        BY <1>1, <4>1, <4>2, <4>3, <4>4, SMTT(30)
    <3>4. (Base + s) % r.alignment = 0
      BY <3>1, StartAligned
    <3>5. bytes # 0
      BY <1>1, <1>2, <2>2
    <3> HIDE DEF fs, c, iu, last
    <3> QED
      BY <1>2, <1>7, <2>2, <3>1, <3>2, <3>3, <3>4, <3>5, SMTT(30) DEF Accepts
  <2> QED
    BY <2>1, <2>2
<1> QED
  BY <1>6, <1>7

-----------------------------------------------------------------------------
(* The invariant of the state machine *)

\* The pool is untouched, or cut for one request.
IInv ==
    \/ pool = EmptyPool /\ held = {}
    \/ \E r \in Requests : Fitting(r) /\ CutInv(pool, held, r)

\* Every allocation and every free, accepted or not, keeps the invariant.
LEMMA NextPreservesIInv ==
    IInv /\ [Next]_vars => IInv'
<1> SUFFICES ASSUME IInv, [Next]_vars PROVE IInv'
  OBVIOUS
<1>1. ASSUME NEW q \in Requests, NEW heap \in BOOLEAN, TryAllocate(q, heap)
      PROVE  IInv'
  <2>1. CASE Refuses(pool, q, heap)
    BY <1>1, <2>1 DEF TryAllocate, IInv, CutInv, vars
  <2>2. CASE ~Refuses(pool, q, heap) /\ pool = EmptyPool /\ held = {}
    <3>1. Fitting(q) /\ Ready(pool, q) = Cut(q)
      BY <2>2 DEF Refuses, Fitting, EmptyPool, Ready
    <3>2. CutInv(Cut(q), held, q) /\ Cut(q).free_count # 0
      BY <2>2, <3>1, CutCorrect, CutFacts, Zenon DEF Cut
    <3>3. CutInv(Take(Cut(q)), held \cup {Block(Cut(q))}, q)
      BY <3>1, <3>2, TakeCorrect
    <3>4. pool' = Take(Cut(q)) /\ held' = held \cup {Block(Cut(q))}
      BY <1>1, <2>2, <3>1 DEF TryAllocate
    <3>5. CutInv(pool', held', q)
      BY <3>3, <3>4
    <3> QED
      BY <3>1, <3>5 DEF IInv, CutInv
  <2>3. ASSUME ~Refuses(pool, q, heap), NEW r \in Requests, Fitting(r), CutInv(pool, held, r)
        PROVE  IInv'
    <3>1. pool.first_init /\ pool.free_count # 0
      BY <2>3 DEF Refuses, CutInv, Shape
    <3>2. pool' = Take(pool) /\ held' = held \cup {Block(pool)}
      BY <1>1, <2>3, <3>1 DEF TryAllocate, Ready
    <3>3. CutInv(pool', held', r)
      BY <2>3, <3>1, <3>2, TakeCorrect
    <3> QED
      BY <2>3, <3>3 DEF IInv, CutInv
  <2> QED
    BY <2>1, <2>2, <2>3 DEF IInv
<1>2. ASSUME NEW s \in Pointers, NEW q \in Requests, Free(s, q.bytes)
      PROVE  IInv'
  <2>1. CASE pool = EmptyPool /\ held = {}
    <3>1. ~Accepts(pool, s, q.bytes)
      BY <2>1 DEF Accepts, EmptyPool
    <3> QED
      BY <1>2, <2>1, <3>1 DEF Free, Deallocate, IInv
  <2>2. ASSUME NEW r \in Requests, Fitting(r), CutInv(pool, held, r)
        PROVE  IInv'
    <3>1. s \in Int
      BY PoolAssumption
    <3>2. CutInv(pool', held', r)
      BY <1>2, <2>2, <3>1, DeallocateCorrect DEF Free
    <3> QED
      BY <2>2, <3>2 DEF IInv, CutInv
  <2> QED
    BY <2>1, <2>2 DEF IInv
<1>3. CASE UNCHANGED vars
  BY <1>3 DEF vars, IInv, CutInv
<1> QED
  BY <1>1, <1>2, <1>3 DEF Next

\* The invariant holds in every state any client can bring the pool into.
LEMMA PoolInvariant ==
    Spec => []IInv
<1>1. Init => IInv
  BY DEF Init, IInv
<1> QED
  BY <1>1, NextPreservesIInv, PTL DEF Spec

\* Every index deallocate and allocate compute lies inside the vectors, and
\* the free stack never outgrows them.
THEOREM PoolTypeCorrect ==
    Spec => []TypeOK
<1>1. IInv => TypeOK
  <2>1. ASSUME NEW r \in Requests, Fitting(r), CutInv(pool, held, r)
        PROVE  TypeOK
    <3>1. pool \in PoolsFor(r)
      BY <2>1, ShapeIsType DEF CutInv
    <3>2. held \subseteq StartsFor(r)
      BY <2>1 DEF CutInv, StackInv, StartsFor, Start
    <3> QED
      BY <2>1, <3>1, <3>2 DEF TypeOK, Fitting
  <2> QED
    BY <2>1 DEF IInv, TypeOK
<1> QED
  BY <1>1, PoolInvariant, PTL

\* No slot is lost or handed out twice, whatever is freed and how often.
THEOREM PoolFreeOrHeld ==
    Spec => []FreeOrHeld
<1>1. ASSUME pool = EmptyPool, held = {}
      PROVE  FreeOrHeld
  <2>1. pool.free_count = 0 /\ DOMAIN pool.in_uses = {}
    BY <1>1 DEF EmptyPool
  <2>2. 0..(0 - 1) = {}
    OBVIOUS
  <2>3. FreeStarts(pool) = {} /\ AllStarts(pool) = {}
    BY <2>1, <2>2 DEF FreeStarts, AllStarts
  <2> QED
    BY <1>1, <2>1, <2>3, FS_EmptySet DEF FreeOrHeld
<1>2. ASSUME NEW r \in Requests, Fitting(r), CutInv(pool, held, r)
      PROVE  FreeOrHeld
  <2> DEFINE Slots == 0..(SlotCount(r) - 1)
             c == pool.free_count
             fs == pool.free_slots
             iu == pool.in_uses
  <2>1. /\ SlotCount(r) \in Nat \ {0} /\ c \in 0..SlotCount(r)
        /\ fs \in [Slots -> StartsFor(r)]
        /\ DOMAIN iu = Slots
        /\ pool.first_valid_start = Padding(r) /\ pool.slot_sz = r.bytes
    BY <1>2, CutFacts DEF CutInv, Shape
  <2>2. StackInv(fs, iu, c, held, r)
    BY <1>2 DEF CutInv
  <2>3. AllStarts(pool) = {Start(r, k) : k \in Slots}
    BY <2>1, SMTT(30) DEF AllStarts, Start
  <2>4. FreeStarts(pool) = {Start(r, k) : k \in {x \in Slots : ~iu[x]}}
    <3>1. \A i \in 0..(c - 1) : \E k \in Slots : fs[i] = Start(r, k)
      <4>1. \A i \in 0..(c - 1) : i \in Slots
        BY <2>1
      <4> QED
        BY <2>1, <4>1 DEF StartsFor, Start
    <3>2. FreeStarts(pool) = {fs[i] : i \in 0..(c - 1)}
      BY DEF FreeStarts
    <3> HIDE DEF fs, iu, c
    <3> QED
      BY <2>2, <3>1, <3>2 DEF StackInv
  <2>5. \A i, j \in Slots : Start(r, i) = Start(r, j) => i = j
    BY <1>2, StartFacts
  <2>6. held = {Start(r, k) : k \in {x \in Slots : iu[x]}}
    BY <2>2 DEF StackInv
  <2>7. FreeStarts(pool) \cap held = {} /\ FreeStarts(pool) \cup held = AllStarts(pool)
    <3> HIDE DEF fs, iu, c
    <3> QED
      BY <2>3, <2>4, <2>5, <2>6
  <2>8. c + Cardinality(held) = SlotCount(r)
    BY <1>2, StackCount
  <2>9. Cardinality(Slots) = SlotCount(r)
    BY <2>1, FS_Interval
  <2> QED
    BY <2>1, <2>7, <2>8, <2>9 DEF FreeOrHeld
<1>3. IInv => FreeOrHeld
  BY <1>1, <1>2, SMTT(30) DEF IInv
<1> QED
  BY <1>3, PoolInvariant, PTL

\* What a client holds is inside the storage, aligned, and its own.
THEOREM PoolHeldSlotsAreUsable ==
    Spec => []HeldSlotsAreUsable
<1>1. ASSUME NEW r \in Requests, Fitting(r), CutInv(pool, held, r)
      PROVE  HeldSlotsAreUsable
  <2> DEFINE Slots == 0..(SlotCount(r) - 1)
  <2>1. /\ SlotCount(r) \in Nat \ {0} /\ r.bytes \in Nat \ {0} /\ Padding(r) \in Nat
        /\ Padding(r) + SlotCount(r) * r.bytes <= CapacityBytes
    BY <1>1, CutFacts
  <2>2. pool.slot_sz = r.bytes /\ pool.slot_alignment = r.alignment
    BY <1>1 DEF CutInv, Shape
  <2>3. \A s \in held : \E k \in Slots : s = Start(r, k)
    BY <1>1 DEF CutInv, StackInv
  <2>4. ASSUME NEW k \in Slots
        PROVE  /\ Start(r, k) \in Nat
               /\ Start(r, k) + r.bytes <= CapacityBytes
               /\ (Base + Start(r, k)) % r.alignment = 0
    <3>1. Start(r, k) \in Nat
      BY <1>1, StartFacts
    <3>2. (Base + Start(r, k)) % r.alignment = 0
      BY <1>1, StartAligned
    <3>3. k \in Nat /\ k < SlotCount(r)
      BY <2>1
    <3>4. k * r.bytes + r.bytes <= SlotCount(r) * r.bytes
      BY <2>1, <3>3, MulStep
    <3>5. k * r.bytes \in Nat /\ SlotCount(r) * r.bytes \in Nat
      BY <2>1, <3>3
    <3> QED
      BY <2>1, <3>1, <3>2, <3>4, <3>5, PoolAssumption, SMTT(30) DEF Start
  <2>5. ASSUME NEW k \in Slots, NEW j \in Slots, Start(r, k) < Start(r, j)
        PROVE  Start(r, k) + r.bytes <= Start(r, j)
    <3>1. k \in Nat /\ j \in Nat /\ k * r.bytes \in Nat /\ j * r.bytes \in Nat
      BY <2>1
    <3>2. k * r.bytes < j * r.bytes
      BY <2>1, <2>5, <3>1 DEF Start
    <3>3. k < j
      <4>1. ~(j <= k)
        <5>1. j <= k => j * r.bytes <= k * r.bytes
          BY <2>1, <3>1
        <5> QED
          BY <3>1, <3>2, <5>1
      <4> QED
        BY <3>1, <4>1
    <3>4. k * r.bytes + r.bytes <= j * r.bytes
      BY <2>1, <3>1, <3>3, MulStep
    <3> QED
      BY <2>1, <3>1, <3>4 DEF Start
  <2> QED
    BY <2>2, <2>3, <2>4, <2>5 DEF HeldSlotsAreUsable
<1>2. IInv => HeldSlotsAreUsable
  BY <1>1 DEF IInv, HeldSlotsAreUsable
<1> QED
  BY <1>2, PoolInvariant, PTL

=============================================================================
