------------------------------ MODULE LFQueue -------------------------------
(***************************************************************************)
(* core::LFQueue, the single-producer single-consumer ring between the     *)
(* threads of the exchange, of the client and of the logger.               *)
(*                                                                         *)
(* try_push and try_pop are cut where the other thread can come between:   *)
(* after the indices are read, after the slot is copied, after the index   *)
(* is published.  An acquire load may return an old value of the other     *)
(* thread's index, though none older than the last one it returned.  The   *)
(* indices wrap at Modulus (2^64 in the code).                             *)
(*                                                                         *)
(* pushed and popped count what the indices count without wrapping, and    *)
(* sent is all that was ever pushed; the code has none of the three.       *)
(***************************************************************************)
EXTENDS Integers, Sequences

CONSTANTS
    Values,     \* what is sent
    Size,       \* SIZE
    Modulus,    \* the number of values of an Index
    MaxPushes   \* bound on the pushes

ASSUME LFQueueAssumption ==
    /\ Values # {}
    /\ Size \in Nat \ {0}
    /\ Modulus \in Nat
    /\ \E k \in 2..Modulus : Modulus = k * Size
    /\ MaxPushes \in Nat

VARIABLES
    prod_idx, cons_idx, buffers,
    push,       \* "idle", "writing" or "written": where try_push is
    p_data,     \* its argument
    pop,        \* "idle", "reading" or "read": where try_pop is
    c_data,     \* the copy it made
    out,        \* what the last successful try_pop returned
    pushed, popped, sent,
    p_seen,     \* the pops the producer has seen, as a count
    c_seen      \* the pushes the consumer has seen, as a count

producer == <<prod_idx, push, p_data, pushed, sent, p_seen>>
consumer == <<cons_idx, pop, c_data, out, popped, c_seen>>
vars == <<producer, consumer, buffers>>

-----------------------------------------------------------------------------

is_empty(prod, cons) == prod = cons

\* Fault: one more value than there are slots is let in.
is_full_OneMore(prod, cons) == (prod - cons) % Modulus = Size + 1

is_full(prod, cons) == (prod - cons) % Modulus = Size

\* index & MASK
Slot(index) == index % Size

Init ==
    /\ prod_idx = 0 /\ cons_idx = 0
    /\ buffers \in [0..(Size - 1) -> Values]
    /\ push = "idle" /\ p_data \in Values
    /\ pop = "idle" /\ c_data \in Values /\ out = c_data
    /\ pushed = 0 /\ popped = 0 /\ sent = <<>>
    /\ p_seen = 0 /\ c_seen = 0

\* try_push(v) reads the indices and returns false if the queue is full.
PushLoad(v) ==
    /\ push = "idle"
    /\ pushed < MaxPushes
    /\ \E n \in p_seen..popped :
          /\ p_seen' = n
          /\ push' = IF is_full(prod_idx, n % Modulus) THEN "idle" ELSE "writing"
    /\ p_data' = v
    /\ UNCHANGED <<prod_idx, pushed, sent, consumer, buffers>>

PushWrite ==
    /\ push = "writing"
    /\ buffers' = [buffers EXCEPT ![Slot(prod_idx)] = p_data]
    /\ push' = "written"
    /\ UNCHANGED <<prod_idx, p_data, pushed, sent, p_seen, consumer>>

PushPublish ==
    /\ push = "written"
    /\ prod_idx' = (prod_idx + 1) % Modulus
    /\ push' = "idle"
    /\ pushed' = pushed + 1
    /\ sent' = Append(sent, p_data)
    /\ UNCHANGED <<p_data, p_seen, consumer, buffers>>

\* Fault: only the consumer's own index is looked at.
PopLoad_Blind ==
    /\ pop = "idle"
    /\ popped < MaxPushes
    /\ pop' = "reading"
    /\ UNCHANGED <<c_seen, cons_idx, c_data, out, popped, producer, buffers>>

\* try_pop reads the indices and returns false if the queue is empty.
PopLoad ==
    /\ pop = "idle"
    /\ \E n \in c_seen..pushed :
          /\ c_seen' = n
          /\ pop' = IF is_empty(n % Modulus, cons_idx) THEN "idle" ELSE "reading"
    /\ UNCHANGED <<cons_idx, c_data, out, popped, producer, buffers>>

PopRead ==
    /\ pop = "reading"
    /\ c_data' = buffers[Slot(cons_idx)]
    /\ pop' = "read"
    /\ UNCHANGED <<cons_idx, out, popped, c_seen, producer, buffers>>

PopPublish ==
    /\ pop = "read"
    /\ cons_idx' = (cons_idx + 1) % Modulus
    /\ pop' = "idle"
    /\ out' = c_data
    /\ popped' = popped + 1
    /\ UNCHANGED <<c_data, c_seen, producer, buffers>>

Next ==
    \/ \E v \in Values : PushLoad(v)
    \/ PushWrite
    \/ PushPublish
    \/ PopLoad
    \/ PopRead
    \/ PopPublish

Spec == Init /\ [][Next]_vars

-----------------------------------------------------------------------------
(* Properties *)

TypeOK ==
    /\ prod_idx \in 0..(Modulus - 1) /\ cons_idx \in 0..(Modulus - 1)
    /\ buffers \in [0..(Size - 1) -> Values]
    /\ push \in {"idle", "writing", "written"} /\ p_data \in Values
    /\ pop \in {"idle", "reading", "read"} /\ c_data \in Values /\ out \in Values
    /\ pushed \in Nat /\ popped \in Nat /\ sent \in Seq(Values)
    /\ p_seen \in Nat /\ c_seen \in Nat

\* The producer never writes a slot while the consumer copies it: the copies of
\* buffers_[...] outside the atomics are free of data races, also when an index
\* has just wrapped and the other thread's index is out of date.
NoDataRace ==
    ~(push = "writing" /\ pop = "reading" /\ Slot(prod_idx) = Slot(cons_idx))

Queue == [i \in 1..(pushed - popped) |-> sent[popped + i]]

Fifo == INSTANCE BoundedFifo WITH queue <- Queue

\* No value is lost, duplicated, reordered or overwritten, and what try_pop
\* returns is what was pushed: the ring is a FIFO of at most Size values.
IsBoundedFifo == Fifo!Spec

\* What makes the two hold: how far the counts can be apart, and which slots
\* hold values that are still to be popped.
Inv ==
    /\ TypeOK
    /\ prod_idx = pushed % Modulus /\ cons_idx = popped % Modulus
    /\ Len(sent) = pushed
    /\ p_seen <= popped /\ popped <= c_seen /\ c_seen <= pushed
    /\ pushed - p_seen <= Size
    /\ push # "idle" => pushed - p_seen < Size
    /\ pop # "idle" => popped < c_seen
    /\ \A n \in popped..(pushed - 1) : buffers[n % Size] = sent[n + 1]
    /\ push = "written" => buffers[pushed % Size] = p_data
    /\ pop = "read" => c_data = sent[popped + 1]

=============================================================================
