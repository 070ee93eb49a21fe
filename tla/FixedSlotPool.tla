---------------------------- MODULE FixedSlotPool ----------------------------
(***************************************************************************)
(* memory::FixedSlotPool: one block of raw storage cut into equal slots on *)
(* the first allocation.  free_slots_[0 .. free_count_ - 1] is a stack of  *)
(* the byte offsets of the free slots, in_uses_ holds one bit per slot.    *)
(*                                                                         *)
(* The pool is a record so that a client (OrderBook) can make several pool *)
(* calls in one step.  Allocate and Deallocate are the two calls; the      *)
(* state machine at the end is an arbitrary client, which also passes      *)
(* pointers and sizes that are not its own, and frees twice.               *)
(***************************************************************************)
EXTENDS Integers, FiniteSets

CONSTANTS
    CapacityBytes,  \* capacity_bytes_
    Base,           \* the address of storage_
    Requests,       \* the [bytes, alignment] pairs clients allocate with
    Pointers        \* the pointers clients free, as offsets from storage_

ASSUME PoolAssumption ==
    /\ CapacityBytes \in Nat \ {0}
    /\ Base \in Nat
    /\ Pointers \subseteq Int
    /\ Requests \subseteq [bytes : Nat, alignment : Nat \ {0}]

\* AllocatorAdaptor passes sizeof(T) and alignof(T): a size is a multiple of
\* its alignment.
ASSUME SizesAreAligned ==
    \A r \in Requests : \E k \in 0..r.bytes : r.bytes = k * r.alignment

VARIABLES
    pool,   \* the members of the pool
    held    \* the offsets handed out and not yet returned (history)

vars == <<pool, held>>

-----------------------------------------------------------------------------
(* The pool's calls *)

EmptyPool ==
    [first_init        |-> FALSE,
     free_slots        |-> <<>>,
     in_uses           |-> <<>>,
     free_count        |-> 0,
     slot_sz           |-> 0,
     slot_alignment    |-> 0,
     first_valid_start |-> 0,
     last_valid_start  |-> 0]

\* What std::align skips to reach the first aligned byte of the storage.
Padding(r) == (r.alignment - (Base % r.alignment)) % r.alignment

\* std::align succeeds: one slot fits behind the padding.
Fits(r) == Padding(r) + r.bytes <= CapacityBytes

\* Fault: the padding is not subtracted from the space that is cut.
SlotCount_NoPadding(r) == CapacityBytes \div r.bytes

SlotCount(r) == (CapacityBytes - Padding(r)) \div r.bytes

\* The slots are cut for the first request, all of them free.
Cut(r) ==
    LET n == SlotCount(r) IN
    [first_init        |-> TRUE,
     free_slots        |-> [i \in 0..(n - 1) |-> Padding(r) + i * r.bytes],
     in_uses           |-> [i \in 0..(n - 1) |-> FALSE],
     free_count        |-> n,
     slot_sz           |-> r.bytes,
     slot_alignment    |-> r.alignment,
     first_valid_start |-> Padding(r),
     last_valid_start  |-> Padding(r) + (n - 1) * r.bytes]

\* allocate returns no slot: a zero size, storage too small, no heap for the
\* two vectors, no slot left, or a size other than the first one.
Refuses(p, r, heap) ==
    \/ r.bytes = 0
    \/ ~p.first_init /\ (~Fits(r) \/ ~heap)
    \/ p.first_init /\ p.free_count = 0
    \/ p.first_init /\ (p.slot_sz # r.bytes \/ p.slot_alignment # r.alignment)

Ready(p, r) == IF p.first_init THEN p ELSE Cut(r)

IndexOf(p, start) == (start - p.first_valid_start) \div p.slot_sz

\* The slot on top of the free stack.
Block(p) == p.free_slots[p.free_count - 1]

\* Fault: the slot is not marked as used.
Take_Unmarked(p) == [p EXCEPT !.free_count = @ - 1]

Take(p) ==
    [p EXCEPT !.free_count = @ - 1,
              !.in_uses[IndexOf(p, Block(p))] = TRUE]

\* deallocate ignores every pointer and size it did not hand out.
Accepts(p, start, bytes) ==
    /\ p.first_init
    /\ bytes # 0 /\ bytes = p.slot_sz
    /\ start >= p.first_valid_start /\ start <= p.last_valid_start
    /\ (start - p.first_valid_start) % p.slot_sz = 0
    /\ (Base + start) % p.slot_alignment = 0
    /\ p.in_uses[IndexOf(p, start)]

Deallocate(p, start, bytes) ==
    IF Accepts(p, start, bytes)
    THEN [p EXCEPT !.in_uses[IndexOf(p, start)] = FALSE,
                   !.free_slots[p.free_count] = start,
                   !.free_count = @ + 1]
    ELSE p

-----------------------------------------------------------------------------
(* An arbitrary client of the pool *)

Init ==
    /\ pool = EmptyPool
    /\ held = {}

\* allocate and try_allocate: they differ in how they report a refusal.
TryAllocate(r, heap) ==
    IF Refuses(pool, r, heap)
    THEN UNCHANGED vars
    ELSE LET p == Ready(pool, r) IN
         /\ pool' = Take(p)
         /\ held' = held \cup {Block(p)}

Free(start, bytes) ==
    /\ pool' = Deallocate(pool, start, bytes)
    /\ held' = IF bytes = pool.slot_sz THEN held \ {start} ELSE held

Next ==
    \/ \E r \in Requests, heap \in BOOLEAN : TryAllocate(r, heap)
    \/ \E start \in Pointers, r \in Requests : Free(start, r.bytes)

Spec == Init /\ [][Next]_vars

-----------------------------------------------------------------------------
(* Properties *)

StartsFor(r) == {Padding(r) + i * r.bytes : i \in 0..(SlotCount(r) - 1)}

\* The states of a pool cut for request r.
PoolsFor(r) ==
    LET Slots == 0..(SlotCount(r) - 1) IN
    [first_init        : {TRUE},
     free_slots        : [Slots -> StartsFor(r)],
     in_uses           : [Slots -> BOOLEAN],
     free_count        : 0..SlotCount(r),
     slot_sz           : {r.bytes},
     slot_alignment    : {r.alignment},
     first_valid_start : {Padding(r)},
     last_valid_start  : {Padding(r) + (SlotCount(r) - 1) * r.bytes}]

\* The pool is untouched, or cut for a request that fits, with the free stack
\* inside the vector of slots.
TypeOK ==
    \/ pool = EmptyPool /\ held = {}
    \/ \E r \in Requests :
          /\ r.bytes # 0 /\ Fits(r)
          /\ pool \in PoolsFor(r)
          /\ held \subseteq StartsFor(r)

FreeStarts(p) == {p.free_slots[i] : i \in 0..(p.free_count - 1)}

AllStarts(p) == {p.first_valid_start + i * p.slot_sz : i \in DOMAIN p.in_uses}

\* Every slot is either on the free stack, once, or held by a client: after
\* any mix of allocations, frees, double frees and frees of foreign pointers
\* no slot is lost, and none can be handed out while a client still holds it.
FreeOrHeld ==
    /\ FreeStarts(pool) \cap held = {}
    /\ FreeStarts(pool) \cup held = AllStarts(pool)
    /\ pool.free_count + Cardinality(held) = Cardinality(DOMAIN pool.in_uses)

\* The memory of two clients never overlaps, stays inside the storage and is
\* aligned for the type it was allocated for.
HeldSlotsAreUsable ==
    \A s \in held :
        /\ s >= 0 /\ s + pool.slot_sz <= CapacityBytes
        /\ (Base + s) % pool.slot_alignment = 0
        /\ \A t \in held : s < t => s + pool.slot_sz <= t

=============================================================================
