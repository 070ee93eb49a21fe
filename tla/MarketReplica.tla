--------------------------- MODULE MarketReplica ----------------------------
(***************************************************************************)
(* trading::MarketReplica, the books a subscriber rebuilds from a snapshot *)
(* and the deltas that follow it.  A replica is a record; restore and      *)
(* consume are its two calls.                                              *)
(***************************************************************************)
EXTENDS BookViews, TradingMessages

CONSTANT Capacity   \* the orders a book has room for

NewReplica == [synchronized |-> FALSE, epoch |-> 0, sequence |-> 0, books |-> <<>>]

\* books_[instrument], which creates the book
BookOf(books, instrument) ==
    IF instrument \in DOMAIN books THEN books[instrument] ELSE EmptyBook

AsAddOrder(m) ==
    [order_id |-> m.exchange_id, side |-> m.side, price |-> m.price, quantity |-> m.quantity]

HasRoom(b) == order_count(b) < Capacity

\* snapshot: the rows of the engine's and of the replica's snapshot.
SnapshotRows(books, epoch, sequence) ==
    LET row == [EmptyMessage EXCEPT !.epoch = epoch, !.sequence = sequence]
        total == MapThenSumSet(LAMBDA i : order_count(books[i]), DOMAIN books)
        Rows(i) == LET orders == snapshot(books[i]) IN
                   [n \in DOMAIN orders |->
                      [row EXCEPT !.kind = "SnapshotOrder", !.instrument_id = i,
                                  !.exchange_id = orders[n].order_id, !.side = orders[n].side,
                                  !.price = orders[n].price, !.quantity = orders[n].quantity]]
        instruments == SetToSortSeq(DOMAIN books, <)
    IN  <<[row EXCEPT !.kind = "SnapshotBegin", !.quantity = total]>>
        \o FlattenSeq([k \in DOMAIN instruments |-> Rows(instruments[k])])
        \o <<[row EXCEPT !.kind = "SnapshotEnd", !.quantity = total]>>

\* One SnapshotOrder row is applied; ok turns false when it cannot be.
RestoreRow(acc, m) ==
    LET added == Add(BookOf(acc.books, m.instrument_id), AsAddOrder(m),
                     HasRoom(BookOf(acc.books, m.instrument_id)))
    IN  [ok    |-> /\ acc.ok /\ m.kind = "SnapshotOrder"
                   /\ m.instrument_id # 0 /\ m.exchange_id \notin acc.ids \cup {0}
                   /\ added.result = "Ok",
         ids   |-> acc.ids \cup {m.exchange_id},
         books |-> Put(acc.books, m.instrument_id, added.book)]

\* restore throws, and leaves the replica unsynchronized, unless the rows are a
\* complete snapshot of uncrossed books.
restore(r, rows) ==
    LET first == Head(rows)
        enveloped == /\ Len(rows) >= 2
                     /\ first.kind = "SnapshotBegin" /\ Last(rows).kind = "SnapshotEnd"
                     /\ first.epoch # 0
                     /\ Len(rows) - 2 = first.quantity /\ Last(rows).quantity = first.quantity
                     /\ \A m \in ToSet(rows) : m.epoch = first.epoch /\ m.sequence = first.sequence
        applied == FoldLeft(RestoreRow, [ok |-> TRUE, ids |-> {}, books |-> <<>>],
                            SubSeq(rows, 2, Len(rows) - 1))
    IN  IF enveloped /\ applied.ok /\ \A i \in DOMAIN applied.books : ~Crossed(applied.books[i])
        THEN [synchronized |-> TRUE, epoch |-> first.epoch, sequence |-> first.sequence,
              books |-> applied.books]
        ELSE [r EXCEPT !.synchronized = FALSE]

\* A delta as a call on the book of its instrument.
ApplyDelta(books, m) ==
    LET b == BookOf(books, m.instrument_id) IN
    CASE m.update = "Add" -> Add(b, AsAddOrder(m), HasRoom(b))
      [] m.update # "Add" /\ m.instrument_id \notin DOMAIN books ->
            Outcome(b, "UnknownInstrument", b)
      [] m.update = "Cancel" /\ m.instrument_id \in DOMAIN books -> Cancel(b, m.exchange_id)
      [] m.update = "Execute" /\ m.instrument_id \in DOMAIN books ->
            Execute(b, m.exchange_id, m.quantity)
      [] m.update = "Reduce" /\ m.instrument_id \in DOMAIN books ->
            IF \/ m.exchange_id \notin Ids(b)
               \/ m.quantity = 0
               \/ m.quantity >= Order(b, m.exchange_id).quantity
            THEN Outcome(b, "InvalidQuantity", b)
            ELSE Execute(b, m.exchange_id, Order(b, m.exchange_id).quantity - m.quantity)
      [] OTHER -> Outcome(b, "ParseError", b)

\* Fault: a delta is not compared with what has been applied already.
consume_Again(r, m) ==
    LET lost == [r EXCEPT !.synchronized = FALSE]
        applied == ApplyDelta(r.books, m)
    IN  IF ~r.synchronized THEN r
        ELSE IF m.epoch # r.epoch THEN lost
        ELSE IF m.kind = "Heartbeat" THEN IF m.sequence > r.sequence THEN lost ELSE r
        ELSE IF m.kind # "Delta" \/ m.sequence > r.sequence + 1 THEN lost
        ELSE IF m.update = "Trade" THEN [r EXCEPT !.sequence = m.sequence]
        ELSE IF applied.result # "Ok" THEN lost
        ELSE [r EXCEPT !.sequence = m.sequence,
                       !.books = Put(@, m.instrument_id, applied.book)]

consume(r, m) ==
    LET lost == [r EXCEPT !.synchronized = FALSE]
        applied == ApplyDelta(r.books, m)
    IN  IF ~r.synchronized THEN r
        ELSE IF m.epoch # r.epoch THEN lost
        ELSE IF m.kind = "Heartbeat" THEN IF m.sequence > r.sequence THEN lost ELSE r
        ELSE IF m.kind # "Delta" THEN lost
        ELSE IF m.sequence <= r.sequence THEN r
        ELSE IF m.sequence # r.sequence + 1 THEN lost
        ELSE IF m.update = "Trade" THEN [r EXCEPT !.sequence = m.sequence]
        ELSE IF applied.result # "Ok"
             THEN IF m.update = "Add"
                  THEN [lost EXCEPT !.books = Put(@, m.instrument_id, applied.book)] ELSE lost
        ELSE [r EXCEPT !.sequence = m.sequence,
                       !.books = Put(@, m.instrument_id, applied.book)]

=============================================================================
