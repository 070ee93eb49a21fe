---------------------------- MODULE BookRegistry ----------------------------
(***************************************************************************)
(* core::OrderBookRegistry: the books of the instruments and the sequence  *)
(* of the last event that was applied.  A registry is a record; apply is a *)
(* call from a registry to [result, registry].                             *)
(***************************************************************************)
EXTENDS BookViews, Functions

NewRegistry == [sequence |-> 0, books |-> <<>>]

\* Fault: a later event will do.
seq_valid_Later(r, seq) == seq > r.sequence

seq_valid(r, seq) == seq > r.sequence /\ seq - r.sequence = 1

\* The call on the book of the instrument; room says whether storage can be had.
\* An Add creates the book, which goes away again when the Add fails.
OnBook(r, e, room) ==
    LET known == e.instrument_id \in DOMAIN r.books
        b == IF known THEN r.books[e.instrument_id] ELSE EmptyBook
    IN  CASE e.type = "Add" -> Add(b, e, room)
          [] e.type # "Add" /\ ~known -> Outcome(b, "UnknownInstrument", b)
          [] e.type = "Cancel" /\ known -> Cancel(b, e.order_id)
          [] e.type = "Execute" /\ known -> Execute(b, e.order_id, e.quantity)

\* Fault: an event that is refused counts.
registry_apply_Counts(r, e, room) ==
    LET done == OnBook(r, e, room) IN
    [result   |-> done.result,
     registry |-> [sequence |-> e.sequence,
                   books    |-> IF done.result = "Ok"
                                THEN (e.instrument_id :> done.book) @@ r.books
                                ELSE r.books]]

\* apply: only an event that is applied moves the sequence.
registry_apply(r, e, room) ==
    LET done == OnBook(r, e, room) IN
    [result   |-> done.result,
     registry |-> IF done.result = "Ok"
                  THEN [sequence |-> e.sequence,
                        books    |-> (e.instrument_id :> done.book) @@ r.books]
                  ELSE r]

-----------------------------------------------------------------------------

\* What the books of a registry have to be: the events, each applied where it
\* belongs, on empty books.
Rebuilt(events) ==
    FoldLeft(LAMBDA r, e : registry_apply(r, e, TRUE).registry, NewRegistry, events)

=============================================================================
