----------------------------- MODULE FeedReplay -----------------------------
(***************************************************************************)
(* The programs that read an exchange's archive: replay_market_data, once  *)
(* without and once with a symbol filter, and extract_itch_sample, which   *)
(* copies one symbol's records to an archive of its own, replayed in turn. *)
(* Each of them reads the same records, and stops at its first error.      *)
(*                                                                         *)
(* The records are any that a file may hold.  A PITCH archive is a capture *)
(* of what the units sent: packets are missing, repeated, out of order or  *)
(* damaged, and every one carries the numbers its unit gave it.            *)
(***************************************************************************)
EXTENDS FeedDecoders

CONSTANTS
    Units,          \* the units of a PITCH exchange
    Locates,        \* the stock locates of an ITCH archive, 0 for none
    Symbols, OrderIds,
    Terms,          \* the [symbol, side, price, quantity] of orders
    Filter,         \* the symbol that is selected
    Totals,         \* how many messages each unit may send in the session
    Pairs,          \* the packets of two messages, kinds of any position
    MaxOrders       \* bound on the orders that rest at a time

ASSUME ReplayAssumption == Filter \in Symbols /\ MaxOrders \in Nat

VARIABLES
    format,         \* --format: "itch50" or "pitch"
    total,          \* the number of messages each unit sends in the session
    started,        \* a record has been read
    itch, pitch,    \* the decoders of the replays of the archive
    all, one,       \* the books of the replays, without and with the filter
    heard,          \* the numbers of the messages that reached the books, by unit
    extraction,     \* the state of the extraction
    sample,         \* the replay of what was extracted
    result          \* how each program ended

archive == <<format, total>>

vars == <<format, total, started, itch, pitch, all, one, heard, extraction, sample, result>>

venue == IF format = "itch50" THEN "nasdaq" ELSE "cboe-bzx"

Running == [all |-> "", one |-> "", sample |-> "", extraction |-> ""]

Init ==
    /\ format \in {"itch50", "pitch"}
    /\ total \in IF format = "pitch" THEN Totals ELSE {[c \in Units |-> 0]}
    /\ started = FALSE
    /\ itch = NewItch50 /\ pitch = NewPitch(Units)
    /\ all = NewBooks /\ one = NewBooks
    /\ heard = [c \in Units |-> <<>>]
    /\ extraction = [failed |-> FALSE, selected_locate |-> 0, ended |-> FALSE]
    /\ sample = [decoder |-> NewItch50, books |-> NewBooks]
    /\ result = Running

\* The loop's consume of each event; an exception ends it.  Storage may run out.
Consumed(o, filter, events, room) ==
    FoldLeft(LAMBDA books, e : consume(books, filter, venue, e, room), o, events)

\* Whether a call finds storage: only these events need any.
Room(events) ==
    IF \E i \in DOMAIN events : events[i].type \in {"Add", "ExecuteRemaining", "Replace"}
    THEN BOOLEAN ELSE {TRUE}

\* A bound of the model.
Bounded(o, events) ==
    Cardinality(DOMAIN o.orders) + Len(SelectSeq(events, LAMBDA e : e.type = "Add")) <= MaxOrders

-----------------------------------------------------------------------------
(* extract_itch_sample *)

\* Fault: a symbol may be announced under another locate.
Extracts_Relocated(x, m) ==
    /\ ~x.failed /\ ~x.ended /\ m.code # "short"
    /\ started \/ (m.kind = "S" /\ m.code = "O")
    /\ m.kind = "S" => m.locate = 0 /\ (m.code = "O" => ~started)
    /\ m.kind = "R" =>
         /\ m.locate # 0
         /\ m.symbol # Filter => x.selected_locate # m.locate

\* The extraction looks only at system events and at the directory.
Extracts(x, m) ==
    /\ ~x.failed /\ ~x.ended /\ m.code # "short"
    /\ started \/ (m.kind = "S" /\ m.code = "O")
    /\ m.kind = "S" => m.locate = 0 /\ (m.code = "O" => ~started)
    /\ m.kind = "R" =>
         /\ m.locate # 0
         /\ IF m.symbol = Filter THEN x.selected_locate \in {0, m.locate}
            ELSE x.selected_locate # m.locate

Extracted(x, m) ==
    IF ~Extracts(x, m) THEN [x EXCEPT !.failed = TRUE]
    ELSE [x EXCEPT !.ended = m.kind = "S" /\ m.code = "C",
                   !.selected_locate = IF m.kind = "R" /\ m.symbol = Filter THEN m.locate ELSE @]

\* Global messages and those of the selected locate are written.
Kept(x, m) == ~x.failed /\ m.locate \in {0, x.selected_locate}

-----------------------------------------------------------------------------
(* Records *)

ReadItch(m) ==
    /\ result = Running /\ format = "itch50"
    /\ \E decoded \in {Itch50Decode(itch, m)}, extracted \in {Extracted(extraction, m)} :
       \E room \in Room(decoded.events), room1 \in Room(decoded.events) :
         LET again == Itch50Decode(sample.decoder, m) IN
         /\ Bounded(all, decoded.events) /\ Bounded(one, decoded.events)
         /\ itch' = decoded.decoder
         /\ all' = Consumed(all, "", decoded.events, room)
         /\ one' = Consumed(one, Filter, decoded.events, room1)
         /\ extraction' = extracted
         /\ sample' = IF ~Kept(extracted, m) THEN sample
                      ELSE [decoder |-> again.decoder,
                            books |-> Consumed(sample.books, Filter, again.events, room1)]
    /\ started' = TRUE
    /\ UNCHANGED <<archive, pitch, heard, result>>

ReadPitch(p) ==
    /\ result = Running /\ format = "pitch"
    /\ \E decoded \in {PitchDecode(pitch, p)} :
       \E room \in Room(decoded.events), room1 \in Room(decoded.events) :
         /\ Bounded(all, decoded.events) /\ Bounded(one, decoded.events)
         /\ pitch' = decoded.decoder
         /\ all' = Consumed(all, "", decoded.events, room)
         /\ one' = Consumed(one, Filter, decoded.events, room1)
         /\ heard' = [heard EXCEPT ![p.channel] =
                         @ \o [i \in DOMAIN decoded.events |-> decoded.events[i].sequence]]
    /\ started' = TRUE
    /\ UNCHANGED <<archive, itch, extraction, sample, result>>

-----------------------------------------------------------------------------
(* The end of a program *)

Complete == IF format = "itch50" THEN ItchComplete(itch) ELSE PitchComplete(pitch)

Failed == itch.failed \/ pitch.failed

\* The checks after the loop.
Replayed(o, filter, failed, finished) ==
    IF failed \/ ~o.valid \/ ~finished \/ (filter # "" /\ ~o.updated) THEN "error" ELSE "ok"

\* A sample is kept only from a whole session that names the symbol; what
\* cannot be written is removed, as after any error.
Finished(x, written) == x.ended /\ x.selected_locate # 0 /\ ~x.failed /\ written

EndOfInput ==
    /\ result = Running
    /\ \E written \in BOOLEAN :
       LET extracted == Finished(extraction, written) IN
       result' = [all |-> Replayed(all, "", Failed, Complete),
                  one |-> Replayed(one, Filter, Failed, Complete),
                  extraction |-> IF extracted THEN "ok" ELSE "error",
                  sample |-> IF ~extracted THEN "none" ELSE
                             Replayed(sample.books, Filter, sample.decoder.failed,
                                      ItchComplete(sample.decoder))]
    /\ UNCHANGED <<archive, started, itch, pitch, all, one, heard, extraction, sample>>

\* The replays stop at --max-records; a session need not have ended there.
LimitReached ==
    /\ result = Running /\ started
    /\ result' = [all |-> IF Replayed(all, "", Failed, TRUE) = "ok" THEN "limited" ELSE "error",
                  one |-> IF Replayed(one, Filter, Failed, TRUE) = "ok" THEN "limited" ELSE "error",
                  extraction |-> "none", sample |-> "none"]
    /\ UNCHANGED <<archive, started, itch, pitch, all, one, heard, extraction, sample>>

\* The file cannot be read further, or ends within a record.
ReadFails ==
    /\ result = Running
    /\ result' = [all |-> "error", one |-> "error", extraction |-> "error", sample |-> "none"]
    /\ UNCHANGED <<archive, started, itch, pitch, all, one, heard, extraction, sample>>

-----------------------------------------------------------------------------
(* The archives *)

Quantities == 0..(MaxQuantity + 1)

ItchMessages ==
    {[ItchMessage("S", l) EXCEPT !.code = code] : l \in Locates, code \in {"O", "Q", "C"}}
    \cup {[ItchMessage("R", l) EXCEPT !.symbol = s] : l \in Locates, s \in Symbols}
    \cup {[ItchMessage("A", l) EXCEPT !.order_id = id, !.symbol = t.symbol, !.side = t.side,
                                      !.price = t.price, !.quantity = t.quantity] :
             l \in Locates, id \in OrderIds, t \in Terms}
    \cup {[ItchMessage("U", l) EXCEPT !.order_id = id, !.new_order_id = next, !.price = t.price,
                                      !.quantity = t.quantity] :
             l \in Locates, id \in OrderIds, next \in OrderIds, t \in Terms}
    \cup {[ItchMessage(kind, l) EXCEPT !.order_id = id, !.quantity = q] :
             kind \in {"E", "X"}, l \in Locates, id \in OrderIds, q \in Quantities}
    \cup {[ItchMessage("D", l) EXCEPT !.order_id = id] : l \in Locates, id \in OrderIds}
    \cup {[ItchMessage("P", l) EXCEPT !.symbol = s] : l \in Locates, s \in Symbols}
    \cup {ItchMessage("H", l) : l \in Locates}
    \cup {[ItchMessage("?", l) EXCEPT !.code = code] : l \in Locates, code \in {"", "short"}}

PitchMessages ==
    {PitchMessage(kind, 0) : kind \in {"Time", "Status", "Clear", "Trade", "?"}}
    \cup {[PitchMessage("Add", id) EXCEPT !.symbol = t.symbol, !.side = t.side, !.price = t.price,
                                          !.quantity = t.quantity] : id \in OrderIds, t \in Terms}
    \cup {[PitchMessage(kind, id) EXCEPT !.quantity = q] :
             kind \in {"Execute", "Reduce"}, id \in OrderIds, q \in Quantities}
    \cup {[PitchMessage("ExecuteRemaining", id) EXCEPT !.quantity = 1, !.remaining = q] :
             id \in OrderIds, q \in Quantities}
    \cup {[PitchMessage("Replace", id) EXCEPT !.price = t.price, !.quantity = t.quantity,
                                              !.maintain_priority = keep] :
             id \in OrderIds, t \in Terms, keep \in BOOLEAN}
    \cup {PitchMessage("Delete", id) : id \in OrderIds}

\* What unit c may have sent: End of Session is the last of its messages.
Sent(c) ==
    {p \in [channel : {c}, sequence : 0..total[c] + 1, whole : {TRUE}, messages : {<<>>}]
           \cup [channel : {c}, sequence : 1..total[c], whole : BOOLEAN,
                 messages : {<<m>> : m \in PitchMessages \cup {PitchMessage("End", 0)}} \cup Pairs] :
       /\ p.sequence + Len(p.messages) - 1 <= total[c]
       /\ \A i \in DOMAIN p.messages :
            (p.messages[i].kind = "End") <=> (p.sequence + i - 1 = total[c])}

Next ==
    \/ \E m \in ItchMessages : ReadItch(m)
    \/ \E c \in Units : \E p \in Sent(c) : ReadPitch(p)
    \/ EndOfInput
    \/ LimitReached
    \/ ReadFails

Spec == Init /\ [][Next]_vars

-----------------------------------------------------------------------------
(* Properties *)

\* The routes and the books of an object that has not failed agree: every order
\* of a selected symbol rests in the book of its route as the route says, and
\* nothing else rests anywhere.  The check validate_invariants makes when a
\* replay ends never refuses it.
RoutesMatchBooks ==
    \A <<o, filter>> \in {<<all, "">>, <<one, Filter>>, <<sample.books, Filter>>} :
        o.valid =>
            LET routed == {k \in DOMAIN o.orders : Selected(filter, o.orders[k].book.symbol)}
            IN  /\ \A k \in routed :
                     LET t == o.orders[k] IN
                     /\ t.book \in DOMAIN o.books /\ k[3] \in Ids(o.books[t.book])
                     /\ Order(o.books[t.book], k[3]) =
                          [order_id |-> k[3], side |-> t.side, price |-> t.price,
                           quantity |-> t.quantity]
                /\ \A b \in DOMAIN o.books, id \in OrderIds :
                     id \in Ids(o.books[b]) => <<b.venue, b.channel, id>> \in routed

\* A filter changes nothing about the books it keeps, queues included: as long
\* as neither replay has failed, the routes are the same and the books of the
\* selected symbol are.
FilterIsTransparent ==
    all.valid /\ one.valid =>
        /\ one.orders = all.orders
        /\ one.books = Restrict(all.books, {b \in DOMAIN all.books : b.symbol = Filter})

\* The sample that extract_itch_sample writes stands for the archive: while the
\* archive replays without an error and the extraction accepts it, the records
\* kept so far replay to the same books, queues included, with the routes of the
\* selected symbol; and a sample is complete when the archive is.
SampleReplaysAlike ==
    /\ format = "itch50" /\ ~extraction.failed /\ ~itch.failed /\ one.valid =>
         /\ ~sample.decoder.failed /\ sample.books.valid
         /\ sample.books.books = one.books
         /\ sample.books.orders =
              Restrict(one.orders, {k \in DOMAIN one.orders : one.orders[k].book.symbol = Filter})
    /\ result.extraction = "ok" /\ result.one = "ok" => result.sample = "ok"

\* The books of a PITCH replay have every message of a unit once and in the order
\* of its numbers, whatever the capture lost, repeated, swapped or damaged; and
\* a replay that ends well has heard a unit to the end of its session, or never.
SessionsAreWhole ==
    \A c \in Units :
        /\ \A i \in DOMAIN heard[c] : heard[c][i] = i
        /\ result.all = "ok" /\ format = "pitch" => Len(heard[c]) \in {0, total[c]}

=============================================================================
