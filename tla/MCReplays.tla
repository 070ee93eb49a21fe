----------------------------- MODULE MCReplays ------------------------------
(* The programs that build books from files, for TLC: those of FeedReplay or *)
(* those of EventTools run, and the others are left alone.                   *)
EXTENDS FeedReplay

CONSTANTS Orders, MaxLines, Target, OrderSizes, MaxGenerated

VARIABLES
    programs,       \* "archives" or "events"
    transport, lines, generator, registry, status, applied, client, up, down, open

Tools == INSTANCE EventTools

toolVars == <<transport, lines, generator, registry, status, applied, client, up, down, open>>

MCInit ==
    /\ Init /\ Tools!Init
    /\ \/ programs = "archives" /\ transport = "udp"
       \/ programs = "events" /\ format = "itch50"

MCNext ==
    /\ UNCHANGED programs
    /\ \/ programs = "archives" /\ Next /\ UNCHANGED toolVars
       \/ programs = "events" /\ Tools!Next /\ UNCHANGED vars

MCSpec == MCInit /\ [][MCNext]_<<programs, vars, toolVars>>

-----------------------------------------------------------------------------
(* Archives *)

Term(symbol, side, price, quantity) ==
    [symbol |-> symbol, side |-> side, price |-> price, quantity |-> quantity]

\* One term is outside the range of the core book.
MCTerms ==
    {Term("A", "Bid", 1, 2), Term("A", "Bid", 2, 1), Term("B", "Bid", 1, 1), Term("B", "Ask", 3, 1)}

MCTotals == {f \in [Units -> 0..5] : f[1] \in {4, 5} /\ f[2] \in {0, 3}}

\* Packets in which what comes first matters to what comes second.
MCPairs ==
    LET Added == [PitchMessage("Add", 1) EXCEPT !.symbol = "A", !.price = 1, !.quantity = 2]
        Short == {PitchMessage("Time", 0), Added, PitchMessage("Delete", 1), PitchMessage("End", 0),
                  PitchMessage("?", 0)}
    IN  {<<m, n>> : m \in Short, n \in Short}

\* An object that has failed never changes again, and no property is about it:
\* what it holds is not told apart, nor is what is read after every replay failed.
FeedView ==
    LET seen(o) == IF o.valid THEN o ELSE NewBooks
        alive == ~Failed /\ (all.valid \/ one.valid)
    IN  IF ~alive THEN <<format, result>> ELSE
        <<format, total, started, itch, pitch, all.valid, seen(all), one.valid, seen(one), heard,
          extraction.failed, IF extraction.failed \/ ~one.valid THEN <<>> ELSE <<extraction, sample>>,
          result>>

-----------------------------------------------------------------------------
(* Event files: two instruments, both sides, and events that a book refuses  *)
(* when they come at the wrong time.                                         *)

Line(type, instrument, id, side, price, quantity) ==
    [type |-> type, instrument_id |-> instrument, order_id |-> id,
     side |-> side, price |-> price, quantity |-> quantity]

MCOrders ==
    {Line("Add", 1, 1, "Bid", 1, 2), Line("Add", 1, 2, "Bid", 1, 1),
     Line("Add", 2, 1, "Ask", 2, 1), Line("Add", 1, 3, "Ask", 0, 1),
     Line("Cancel", 1, 1, "Bid", 0, 0), Line("Execute", 1, 1, "Bid", 0, 1),
     Line("Execute", 2, 1, "Bid", 0, 2)}

View == <<programs, IF programs = "archives" THEN FeedView ELSE toolVars>>

-----------------------------------------------------------------------------
(* The properties of EventTools *)

\* The replays of event files and the UDP subscriber have the books of a prefix
\* of the file (replay.cpp, udp_event_subscriber.cpp).
BooksAreAPrefix == Tools!BooksAreAPrefix

\* What generate_events writes, replay_order_book reads without an error, and
\* both agree on the open orders.
GeneratedFilesReplay == Tools!GeneratedFilesReplay

\* The TCP server has applied what the client saw acknowledged, and at most the
\* one event whose outcome the client does not know.
AcknowledgedIsApplied == Tools!AcknowledgedIsApplied

=============================================================================
