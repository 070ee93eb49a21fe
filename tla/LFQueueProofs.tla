--------------------------- MODULE LFQueueProofs ----------------------------
(***************************************************************************)
(* LFQueue is free of data races and implements BoundedFifo, for every     *)
(* size and every width of the indices.                                    *)
(***************************************************************************)
EXTENDS LFQueue, TLAPS

(* Arithmetic of wrapping indices *)

\* An Index can tell an empty ring from a full one.
LEMMA SizeBelowModulus == Size < Modulus /\ Modulus \in Nat \ {0}
  <1>1. PICK k \in 2..Modulus : Modulus = k * Size
    BY LFQueueAssumption
  <1>2. k * Size >= 2 * Size
    BY <1>1, LFQueueAssumption
  <1> QED
    BY <1>1, <1>2, LFQueueAssumption

\* Quotient and remainder.
LEMMA Division ==
    ASSUME NEW m \in Nat \ {0}, NEW n \in Nat
    PROVE  /\ n % m \in 0..(m - 1)
           /\ n \div m \in Nat
           /\ n = m * (n \div m) + (n % m)
  OBVIOUS

\* A remainder is determined by its range.
LEMMA Remainder ==
    ASSUME NEW m \in Nat \ {0}, NEW q \in Int, NEW r \in 0..(m - 1)
    PROVE  (m * q + r) % m = r
  OBVIOUS

\* Whole turns do not change a remainder.
LEMMA WholeTurns ==
    ASSUME NEW m \in Nat \ {0}, NEW x \in Int, NEW y \in Nat
    PROVE  (m * x + y) % m = y % m
  <1> DEFINE q == y \div m
             r == y % m
  <1>1. q \in Nat /\ r \in 0..(m - 1) /\ y = m * q + r
    BY Division, Zenon
  <1> HIDE DEF q, r
  <1>2. m * x + y = m * (x + q) + r
    BY <1>1
  <1>3. (m * (x + q) + r) % m = r
    BY <1>1, Remainder
  <1> QED
    BY <1>2, <1>3 DEF r

\* prod - cons, wrapped, is the number of values between the two counts.
LEMMA WrappedDifference ==
    ASSUME NEW p \in Nat, NEW c \in Nat, c <= p, p - c < Modulus
    PROVE  ((p % Modulus) - (c % Modulus)) % Modulus = p - c
  <1> DEFINE qp == p \div Modulus
             rp == p % Modulus
             qc == c \div Modulus
             rc == c % Modulus
  <1>1. /\ qp \in Nat /\ rp \in Nat /\ p = Modulus * qp + rp
        /\ qc \in Nat /\ rc \in Nat /\ c = Modulus * qc + rc
        /\ Modulus \in Nat \ {0}
    <2>1. Modulus \in Nat \ {0}
      BY SizeBelowModulus
    <2> QED
      BY <2>1
  <1> HIDE DEF qp, rp, qc, rc
  <1>2. rp - rc = Modulus * (qc - qp) + (p - c)
    BY <1>1
  <1>3. qc - qp \in Int /\ p - c \in 0..(Modulus - 1)
    BY <1>1
  <1>4. (Modulus * (qc - qp) + (p - c)) % Modulus = p - c
    BY <1>1, <1>3, Remainder, Zenon
  <1> QED
    BY <1>2, <1>4 DEF rp, rc

\* A wrapped index names the same slot as the count it stands for.
LEMMA SlotOfCount ==
    ASSUME NEW n \in Nat
    PROVE  Slot(n % Modulus) = n % Size
  <1>1. PICK k \in 2..Modulus : Modulus = k * Size
    BY LFQueueAssumption
  <1> DEFINE q == n \div Modulus
             r == n % Modulus
  <1>2. q \in Nat /\ r \in Nat /\ n = Modulus * q + r
    <2>1. Modulus \in Nat \ {0}
      BY SizeBelowModulus
    <2> QED
      BY <2>1
  <1> HIDE DEF q, r
  <1>3. n = Size * (k * q) + r /\ k * q \in Int
    BY <1>1, <1>2, LFQueueAssumption
  <1>4. (Size * (k * q) + r) % Size = r % Size
    BY <1>2, <1>3, WholeTurns, LFQueueAssumption, Zenon
  <1> QED
    BY <1>3, <1>4 DEF Slot, r

\* The index after the last one is zero.
LEMMA NextIndex ==
    ASSUME NEW n \in Nat
    PROVE  ((n % Modulus) + 1) % Modulus = (n + 1) % Modulus
  <1> DEFINE q == n \div Modulus
             r == n % Modulus
  <1>1. q \in Nat /\ r \in Nat /\ n = Modulus * q + r /\ Modulus \in Nat \ {0}
    <2>1. Modulus \in Nat \ {0}
      BY SizeBelowModulus
    <2> QED
      BY <2>1
  <1> HIDE DEF q, r
  <1>2. n + 1 = Modulus * q + (r + 1) /\ q \in Int /\ r + 1 \in Nat
    BY <1>1
  <1>3. (Modulus * q + (r + 1)) % Modulus = (r + 1) % Modulus
    BY <1>1, <1>2, WholeTurns, Zenon
  <1> QED
    BY <1>2, <1>3 DEF r

\* Counts less than Size apart have slots of their own.
LEMMA SlotsApart ==
    ASSUME NEW m \in Nat, NEW n \in Nat, m < n, n - m < Size
    PROVE  m % Size # n % Size
  <1> SUFFICES ASSUME m % Size = n % Size PROVE FALSE
    OBVIOUS
  <1> DEFINE d == (n \div Size) - (m \div Size)
  <1>1. d \in Int /\ n - m = Size * d
    BY Division, LFQueueAssumption
  <1> HIDE DEF d
  <1>2. d > 0
    BY <1>1, LFQueueAssumption
  <1>3. Size * d >= Size
    BY <1>1, <1>2, LFQueueAssumption
  <1> QED
    BY <1>1, <1>3, LFQueueAssumption

-----------------------------------------------------------------------------
(* The invariant *)

\* The conjuncts of Inv that speak of the counts and of where the calls are.
Counts ==
    /\ prod_idx = pushed % Modulus /\ cons_idx = popped % Modulus
    /\ Len(sent) = pushed
    /\ p_seen <= popped /\ popped <= c_seen /\ c_seen <= pushed
    /\ pushed - p_seen <= Size
    /\ push # "idle" => pushed - p_seen < Size
    /\ pop # "idle" => popped < c_seen

\* The conjuncts of Inv that speak of the values.
Contents ==
    /\ \A n \in popped..(pushed - 1) : buffers[n % Size] = sent[n + 1]
    /\ push = "written" => buffers[pushed % Size] = p_data
    /\ pop = "read" => c_data = sent[popped + 1]

\* Inv in three parts.
LEMMA InvParts == Inv <=> TypeOK /\ Counts /\ Contents
  BY DEF Inv, Counts, Contents

\* A new queue is empty and nobody has begun.
LEMMA InitEstablishesInv == Init => Inv
  <1> SUFFICES ASSUME Init PROVE Inv
    OBVIOUS
  <1>1. 0 % Modulus = 0 /\ 0 \in 0..(Modulus - 1) /\ Size \in Nat
    BY SizeBelowModulus, LFQueueAssumption
  <1> QED
    BY <1>1 DEF Init, Inv, TypeOK

\* try_push finds room by an index that may be out of date, but never too new.
LEMMA PushLoadPreservesInv ==
    ASSUME Inv, NEW v \in Values, PushLoad(v)
    PROVE  Inv'
  <1> USE InvParts
  <1>1. PICK n \in p_seen..popped :
            /\ p_seen' = n
            /\ push' = IF is_full(prod_idx, n % Modulus) THEN "idle" ELSE "writing"
    BY DEF PushLoad
  <1>2. is_full(prod_idx, n % Modulus) <=> pushed - n = Size
    <2>1. n \in Nat /\ n <= pushed /\ pushed - n < Modulus
      BY SizeBelowModulus, LFQueueAssumption, SMTT(30) DEF TypeOK, Counts
    <2>2. ((pushed % Modulus) - (n % Modulus)) % Modulus = pushed - n
      BY <2>1, WrappedDifference, SMTT(30) DEF TypeOK
    <2> QED
      BY <2>2 DEF is_full, Counts
  <1>3. TypeOK'
    BY <1>1 DEF TypeOK, PushLoad, consumer
  <1>4. Counts'
    <2>1. UNCHANGED <<prod_idx, cons_idx, sent, pushed, popped, c_seen, pop>>
      BY DEF PushLoad, consumer
    <2>2. prod_idx' = pushed' % Modulus /\ cons_idx' = popped' % Modulus /\ Len(sent') = pushed'
          /\ popped' <= c_seen' /\ c_seen' <= pushed' /\ (pop' # "idle" => popped' < c_seen')
      BY <2>1 DEF Counts
    <2>3. {p_seen, popped, pushed, Size, n} \subseteq Nat /\ pushed - p_seen <= Size
          /\ p_seen <= n /\ n <= popped
      BY LFQueueAssumption DEF TypeOK, Counts
    <2>4. pushed - n <= Size /\ (pushed - n # Size => pushed - n < Size)
      BY <2>3
    <2>5. p_seen' = n /\ (push' # "idle" => pushed - n # Size)
      BY <1>1, <1>2
    <2> QED
      BY <2>1, <2>2, <2>3, <2>4, <2>5 DEF Counts
  <1>5. Contents'
    BY <1>1 DEF Contents, PushLoad, consumer
  <1> QED
    BY <1>3, <1>4, <1>5 DEF Inv, Counts, Contents

\* The write goes to a slot that holds nothing still to be popped.
LEMMA PushWritePreservesInv == ASSUME Inv, PushWrite PROVE Inv'
  <1> USE InvParts
  <1>1. Slot(prod_idx) = pushed % Size /\ pushed % Size \in 0..(Size - 1)
    BY SlotOfCount, Division, LFQueueAssumption, Zenon DEF TypeOK, Counts
  <1>2. buffers' = [buffers EXCEPT ![pushed % Size] = p_data]
    BY <1>1 DEF PushWrite
  <1>3. TypeOK'
    BY <1>1, <1>2 DEF TypeOK, PushWrite, consumer
  <1>4. Counts'
    BY DEF Counts, PushWrite, consumer
  <1>5. ASSUME NEW n \in popped..(pushed - 1)
        PROVE  buffers'[n % Size] = sent[n + 1]
    <2>1. n \in Nat /\ n < pushed /\ pushed - n < Size
      BY LFQueueAssumption, SMTT(30) DEF TypeOK, Counts, PushWrite
    <2>2. n % Size # pushed % Size
      BY <2>1, SlotsApart DEF TypeOK
    <2>3. buffers[n % Size] = sent[n + 1]
      BY DEF Contents
    <2>4. n % Size \in 0..(Size - 1)
      BY <2>1, Division, LFQueueAssumption
    <2> QED
      BY <1>2, <2>2, <2>3, <2>4 DEF TypeOK
  <1>6. Contents'
    BY <1>1, <1>2, <1>5 DEF TypeOK, Contents, PushWrite, consumer
  <1> QED
    BY <1>3, <1>4, <1>6 DEF Inv, Counts, Contents

\* Publishing adds the value just written to what is still to be popped.
LEMMA PushPublishPreservesInv == ASSUME Inv, PushPublish PROVE Inv'
  <1> USE InvParts
  <1>1. /\ push = "written" /\ push' = "idle" /\ pushed' = pushed + 1
        /\ UNCHANGED <<p_data, p_seen, cons_idx, pop, c_data, out, popped, c_seen, buffers>>
    BY DEF PushPublish, consumer
  <1>2. prod_idx' = (pushed + 1) % Modulus /\ prod_idx' \in 0..(Modulus - 1)
    <2>1. prod_idx' = ((pushed % Modulus) + 1) % Modulus /\ pushed + 1 \in Nat
      BY SMTT(30) DEF TypeOK, Counts, PushPublish
    <2>2. prod_idx' = (pushed + 1) % Modulus
      BY <2>1, NextIndex DEF TypeOK
    <2> QED
      BY <2>1, <2>2, SizeBelowModulus
  <1>3. /\ sent' \in Seq(Values) /\ Len(sent') = pushed + 1
        /\ sent'[pushed + 1] = p_data
        /\ \A i \in 1..pushed : sent'[i] = sent[i]
    BY SMTT(30) DEF TypeOK, Counts, PushPublish
  <1>4. TypeOK'
    BY <1>1, <1>2, <1>3 DEF TypeOK
  <1>5. Counts'
    <2>1. (prod_idx = pushed % Modulus /\ cons_idx = popped % Modulus)'
      BY <1>1, <1>2, Zenon DEF Counts
    <2>2. /\ p_seen <= popped /\ popped <= c_seen /\ c_seen <= pushed + 1
          /\ (pushed + 1) - p_seen <= Size
          /\ pop # "idle" => popped < c_seen
      BY <1>1, LFQueueAssumption, SMTT(30) DEF TypeOK, Counts
    <2> QED
      BY <1>1, <1>3, <2>1, <2>2, Zenon DEF Counts
  <1>6. ASSUME NEW n \in popped..pushed
        PROVE  buffers[n % Size] = sent'[n + 1]
    <2>1. CASE n = pushed
      BY <2>1, <1>1, <1>3 DEF Contents
    <2>2. CASE n # pushed
      BY <2>2, <1>3, SMTT(30) DEF TypeOK, Contents
    <2> QED
      BY <2>1, <2>2
  <1>7. pop = "read" => c_data = sent'[popped + 1]
    BY <1>3, SMTT(30) DEF TypeOK, Counts, Contents
  <1>8. Contents'
    <2>1. popped'..(pushed' - 1) = popped..pushed
      BY <1>1 DEF TypeOK
    <2> QED
      BY <1>1, <1>6, <1>7, <2>1, Zenon DEF Contents
  <1> QED
    BY <1>4, <1>5, <1>8 DEF Inv, Counts, Contents

\* try_pop finds a value by an index that may be out of date, but never too new.
LEMMA PopLoadPreservesInv == ASSUME Inv, PopLoad PROVE Inv'
  <1> USE InvParts
  <1>1. PICK n \in c_seen..pushed :
            /\ c_seen' = n
            /\ pop' = IF is_empty(n % Modulus, cons_idx) THEN "idle" ELSE "reading"
    BY DEF PopLoad
  <1>2. n = popped => is_empty(n % Modulus, cons_idx)
    BY DEF is_empty, Counts
  <1>3. TypeOK'
    BY <1>1 DEF TypeOK, PopLoad, producer
  <1>4. Counts'
    BY <1>1, <1>2 DEF TypeOK, Counts, PopLoad, producer
  <1>5. Contents'
    BY <1>1 DEF Contents, PopLoad, producer
  <1> QED
    BY <1>3, <1>4, <1>5 DEF Inv, Counts, Contents

\* The copy is the oldest value still to be popped.
LEMMA PopReadPreservesInv == ASSUME Inv, PopRead PROVE Inv'
  <1> USE InvParts
  <1>1. Slot(cons_idx) = popped % Size /\ popped % Size \in 0..(Size - 1)
    BY SlotOfCount, Division, LFQueueAssumption, Zenon DEF TypeOK, Counts
  <1>2. c_data' = sent[popped + 1]
    BY <1>1, SMTT(30) DEF TypeOK, Counts, Contents, PopRead
  <1>3. TypeOK'
    BY <1>1 DEF TypeOK, PopRead, producer
  <1>4. Counts'
    BY DEF Counts, PopRead, producer
  <1>5. Contents'
    BY <1>2 DEF Contents, PopRead, producer
  <1> QED
    BY <1>3, <1>4, <1>5 DEF Inv, Counts, Contents

\* Publishing gives the slot back to the producer.
LEMMA PopPublishPreservesInv == ASSUME Inv, PopPublish PROVE Inv'
  <1> USE InvParts
  <1>1. cons_idx' = (popped + 1) % Modulus /\ cons_idx' \in 0..(Modulus - 1)
    <2>1. cons_idx' = ((popped % Modulus) + 1) % Modulus /\ popped + 1 \in Nat
      BY SMTT(30) DEF TypeOK, Counts, PopPublish
    <2>2. cons_idx' = (popped + 1) % Modulus
      BY <2>1, NextIndex, SMTT(30) DEF TypeOK
    <2> QED
      BY <2>1, <2>2, SizeBelowModulus
  <1>2. TypeOK'
    BY <1>1, SMTT(30) DEF TypeOK, PopPublish, producer
  <1>3. Counts'
    BY <1>1, SMTT(30) DEF TypeOK, Counts, PopPublish, producer
  <1>4. Contents'
    BY SMTT(30) DEF TypeOK, Contents, PopPublish, producer
  <1> QED
    BY <1>2, <1>3, <1>4 DEF Inv, Counts, Contents

\* Every step of either thread keeps Inv.
LEMMA NextPreservesInv == Inv /\ [Next]_vars => Inv'
  <1> SUFFICES ASSUME Inv, [Next]_vars PROVE Inv'
    OBVIOUS
  <1>1. CASE \E v \in Values : PushLoad(v)
    BY <1>1, PushLoadPreservesInv
  <1>2. CASE PushWrite
    BY <1>2, PushWritePreservesInv
  <1>3. CASE PushPublish
    BY <1>3, PushPublishPreservesInv
  <1>4. CASE PopLoad
    BY <1>4, PopLoadPreservesInv
  <1>5. CASE PopRead
    BY <1>5, PopReadPreservesInv
  <1>6. CASE PopPublish
    BY <1>6, PopPublishPreservesInv
  <1>7. CASE UNCHANGED vars
    BY <1>7 DEF vars, producer, consumer, Inv, TypeOK
  <1> QED
    BY <1>1, <1>2, <1>3, <1>4, <1>5, <1>6, <1>7 DEF Next

\* The counts stay within a ring of each other, and the slots between them hold
\* the values pushed: the inductive invariant of the indices of LFQueue.
THEOREM QueueInvariant == Spec => []Inv
  BY InitEstablishesInv, NextPreservesInv, PTL DEF Spec

\* What the invariant says of two calls that are both at their slots.
LEMMA InvExcludesRaces == Inv => NoDataRace
  <1> SUFFICES ASSUME Inv, push = "writing", pop = "reading",
                      Slot(prod_idx) = Slot(cons_idx)
               PROVE  FALSE
    BY DEF NoDataRace
  <1> USE InvParts
  <1>1. popped \in Nat /\ pushed \in Nat /\ popped < pushed /\ pushed - popped < Size
    BY LFQueueAssumption, SMTT(30) DEF TypeOK, Counts
  <1>2. popped % Size = pushed % Size
    BY SlotOfCount DEF TypeOK, Counts
  <1> QED
    BY <1>1, <1>2, SlotsApart

\* try_push and try_pop never touch the same slot at the same time.
THEOREM QueueNoDataRace == Spec => []NoDataRace
  BY QueueInvariant, InvExcludesRaces, PTL

-----------------------------------------------------------------------------
(* The refinement *)

\* The values between two counts are a sequence.
LEMMA WindowIsASequence ==
    ASSUME NEW s \in Seq(Values), NEW p \in Nat, NEW c \in Nat, c <= p, Len(s) = p
    PROVE  LET w == [i \in 1..(p - c) |-> s[c + i]]
           IN  /\ w \in Seq(Values) /\ Len(w) = p - c
               /\ \A i \in 1..(p - c) : w[i] = s[c + i]
  <1>1. \A i \in 1..(p - c) : s[c + i] \in Values
    OBVIOUS
  <1> QED
    BY <1>1

\* The mapped queue is one.
LEMMA QueueIsASequence ==
    ASSUME Inv
    PROVE  /\ Queue \in Seq(Values) /\ Len(Queue) = pushed - popped
           /\ \A i \in 1..(pushed - popped) : Queue[i] = sent[popped + i]
  <1>1. /\ sent \in Seq(Values) /\ pushed \in Nat /\ popped \in Nat
        /\ popped <= pushed /\ Len(sent) = pushed
    BY DEF Inv, TypeOK
  <1> QED
    BY <1>1, WindowIsASequence, ZenonT(30) DEF Queue

\* Sequences are equal when their lengths and their elements are.
LEMMA SameSequence ==
    ASSUME NEW s \in Seq(Values), NEW t \in Seq(Values), Len(s) = Len(t),
           \A i \in 1..Len(s) : s[i] = t[i]
    PROVE  s = t
  OBVIOUS

\* A new queue is an empty FIFO.
LEMMA InitRefines == Init => Fifo!Init
  <1> SUFFICES ASSUME Init PROVE Fifo!Init
    OBVIOUS
  <1>1. Inv
    BY InitEstablishesInv
  <1>2. Queue \in Seq(Values) /\ Len(Queue) = 0
    BY <1>1, QueueIsASequence DEF Init
  <1>3. Queue = <<>>
    BY <1>2
  <1> QED
    BY <1>3 DEF Init, Fifo!Init

\* The store of prod_idx_ is the push of the FIFO.
LEMMA PushPublishRefines ==
    ASSUME Inv, Inv', PushPublish
    PROVE  Fifo!Push
  <1>1. /\ pushed \in Nat /\ popped \in Nat /\ popped <= pushed
        /\ p_data \in Values /\ Len(sent) = pushed /\ sent \in Seq(Values)
    BY DEF Inv, TypeOK
  <1>2. /\ pushed' = pushed + 1 /\ popped' = popped /\ out' = out
        /\ sent' = Append(sent, p_data)
    BY DEF PushPublish, consumer
  <1>3. /\ Queue \in Seq(Values) /\ Len(Queue) = pushed - popped
        /\ \A i \in 1..(pushed - popped) : Queue[i] = sent[popped + i]
    BY QueueIsASequence
  <1>4. /\ Queue' \in Seq(Values) /\ Len(Queue') = (pushed + 1) - popped
        /\ \A i \in 1..((pushed + 1) - popped) : Queue'[i] = Append(sent, p_data)[popped + i]
    <2>1. /\ Queue' \in Seq(Values) /\ Len(Queue') = pushed' - popped'
          /\ \A i \in 1..(pushed' - popped') : Queue'[i] = sent'[popped' + i]
      <3>1. /\ sent' \in Seq(Values) /\ pushed' \in Nat /\ popped' \in Nat
            /\ popped' <= pushed' /\ Len(sent') = pushed'
        BY DEF Inv, TypeOK
      <3> QED
        BY <3>1, WindowIsASequence, ZenonT(30) DEF Queue
    <2> QED
      BY <2>1, <1>2, Zenon
  <1>5. Len(Queue) < Size
    BY <1>1, <1>3, LFQueueAssumption DEF Inv, TypeOK, PushPublish
  <1>6. Queue' = Append(Queue, p_data)
    <2>1. Append(Queue, p_data) \in Seq(Values) /\ Len(Append(Queue, p_data)) = Len(Queue')
      BY <1>1, <1>3, <1>4, SMTT(30)
    <2>2. ASSUME NEW i \in 1..Len(Queue')
          PROVE  Queue'[i] = Append(Queue, p_data)[i]
      <3>1. CASE i = (pushed + 1) - popped
        BY <3>1, <1>1, <1>3, <1>4
      <3>2. CASE i # (pushed + 1) - popped
        BY <3>2, <1>1, <1>3, <1>4, SMTT(30)
      <3> QED
        BY <3>1, <3>2, Zenon
    <2> HIDE DEF Queue
    <2> QED
      BY <2>1, <2>2, <1>4, SameSequence
  <1> QED
    BY <1>1, <1>2, <1>5, <1>6 DEF Fifo!Push

\* The store of cons_idx_ is the pop of the FIFO.
LEMMA PopPublishRefines ==
    ASSUME Inv, Inv', PopPublish
    PROVE  Fifo!Pop
  <1>1. /\ pushed \in Nat /\ popped \in Nat /\ popped < pushed
        /\ c_data = sent[popped + 1] /\ Len(sent) = pushed /\ sent \in Seq(Values)
    BY DEF Inv, TypeOK, PopPublish
  <1>2. /\ pushed' = pushed /\ popped' = popped + 1 /\ out' = c_data /\ sent' = sent
    BY DEF PopPublish, producer
  <1>3. /\ Queue \in Seq(Values) /\ Len(Queue) = pushed - popped
        /\ \A i \in 1..(pushed - popped) : Queue[i] = sent[popped + i]
    BY QueueIsASequence
  <1>4. /\ Queue' \in Seq(Values) /\ Len(Queue') = pushed - (popped + 1)
        /\ \A i \in 1..(pushed - (popped + 1)) : Queue'[i] = sent[(popped + 1) + i]
    <2>1. /\ Queue' \in Seq(Values) /\ Len(Queue') = pushed' - popped'
          /\ \A i \in 1..(pushed' - popped') : Queue'[i] = sent'[popped' + i]
      <3>1. /\ sent' \in Seq(Values) /\ pushed' \in Nat /\ popped' \in Nat
            /\ popped' <= pushed' /\ Len(sent') = pushed'
        BY DEF Inv, TypeOK
      <3> QED
        BY <3>1, WindowIsASequence, Zenon DEF Queue
    <2> QED
      BY <2>1, <1>2, Zenon
  <1>5. Queue # <<>> /\ Head(Queue) = c_data
    BY <1>1, <1>3
  <1>6. Queue' = Tail(Queue)
    <2>1. Tail(Queue) \in Seq(Values) /\ Len(Tail(Queue)) = Len(Queue')
      BY <1>1, <1>3, <1>4, <1>5
    <2>2. ASSUME NEW i \in 1..Len(Queue')
          PROVE  Queue'[i] = Tail(Queue)[i]
      BY <1>1, <1>3, <1>4, <1>5
    <2> QED
      BY <2>1, <2>2, <1>4, SameSequence
  <1> QED
    BY <1>2, <1>5, <1>6 DEF Fifo!Pop

\* Every step of either thread is a push, a pop or invisible.
LEMMA NextRefines ==
    Inv /\ Inv' /\ [Next]_vars => [Fifo!Push \/ Fifo!Pop]_<<Queue, out>>
  <1> SUFFICES ASSUME Inv, Inv', [Next]_vars
               PROVE  Fifo!Push \/ Fifo!Pop \/ UNCHANGED <<Queue, out>>
    OBVIOUS
  <1>1. CASE PushPublish
    BY <1>1, PushPublishRefines
  <1>2. CASE PopPublish
    BY <1>2, PopPublishRefines
  <1>3. CASE \/ \E v \in Values : PushLoad(v)
             \/ PushWrite \/ PopLoad \/ PopRead \/ UNCHANGED vars
    <2>1. UNCHANGED <<pushed, popped, sent, out>>
      BY <1>3 DEF PushLoad, PushWrite, PopLoad, PopRead, vars, producer, consumer
    <2> QED
      BY <2>1 DEF Queue
  <1> QED
    BY <1>1, <1>2, <1>3 DEF Next

\* The ring is a FIFO of at most Size values, however the two threads interleave
\* and whatever old index values their loads return.
THEOREM QueueIsBoundedFifo == Spec => IsBoundedFifo
  BY QueueInvariant, InitRefines, NextRefines, PTL DEF Spec, IsBoundedFifo, Fifo!Spec

=============================================================================
