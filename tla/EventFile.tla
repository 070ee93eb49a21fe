----------------------------- MODULE EventFile ------------------------------
(***************************************************************************)
(* The CSV files of market events: what write_event_csv writes of an       *)
(* event, what parse_event_line makes of a line, and the orders that       *)
(* generate_events keeps track of while it writes a file.                  *)
(*                                                                         *)
(* A line is the sequence of its fields, and <<>> when it is a comment, a  *)
(* header or empty.  A field is empty, a number that fits its type, or     *)
(* another text.                                                           *)
(***************************************************************************)
EXTENDS EventProtocol, Functions, FiniteSets, TLC

Empty == <<>>
Number(n) == <<"number", n>>
Text(s) == <<"text", s>>

write_event_csv(e) ==
    LET head == <<Number(e.sequence), Number(e.instrument_id)>>
        id == Number(e.order_id)
    IN  CASE e.type = "Add" ->
                head \o <<Text("ADD"), id, Text(IF e.side = "Bid" THEN "BID" ELSE "ASK"),
                          Number(e.price), Number(e.quantity)>>
          [] e.type = "Cancel" -> head \o <<Text("CANCEL"), id, Empty, Empty, Empty>>
          [] e.type = "Execute" ->
                head \o <<Text("EXECUTE"), id, Empty, Empty, Number(e.quantity)>>

parse_integer(field) == field # Empty /\ field[1] = "number"

\* The fields that a type needs are there, and the others are empty.
Parses(line) ==
    /\ Len(line) = 7 /\ \A i \in {1, 2, 4} : parse_integer(line[i])
    /\ \/ /\ line[3] = Text("ADD") /\ line[5] \in {Text("BID"), Text("ASK")}
          /\ parse_integer(line[6]) /\ parse_integer(line[7])
       \/ line[3] = Text("CANCEL") /\ \A i \in 5..7 : line[i] = Empty
       \/ /\ line[3] = Text("EXECUTE") /\ line[5] = Empty /\ line[6] = Empty
          /\ parse_integer(line[7])

\* A line without an event is an error unless it is one to skip.
parse_event_line(line) ==
    LET number(i) == IF line[i] = Empty THEN 0 ELSE line[i][2]
        type == CASE line[3] = Text("ADD") -> "Add"
                  [] line[3] = Text("CANCEL") -> "Cancel"
                  [] line[3] = Text("EXECUTE") -> "Execute"
    IN  IF line = <<>> \/ ~Parses(line)
        THEN [event |-> NoEvent, error |-> line # <<>>]
        ELSE [event |-> [type          |-> type,
                         sequence      |-> number(1),
                         instrument_id |-> number(2),
                         order_id      |-> number(4),
                         side          |-> IF line[5] = Text("ASK") THEN "Ask" ELSE "Bid",
                         price         |-> number(6),
                         quantity      |-> number(7)],
              error |-> FALSE]

-----------------------------------------------------------------------------
(* generate_events *)

\* The orders its file has left open, with what remains of each.
NewGenerator == [active |-> <<>>, sequence |-> 1, next_order_id |-> 1]

\* The events it may write next, among orders of at most these quantities, with
\* bids below mid and offers above.
Generates(g, quantities, mid, offsets) ==
    LET event(type, id) ==
            [type |-> type, sequence |-> g.sequence, instrument_id |-> 1, order_id |-> id,
             side |-> "Bid", price |-> 0, quantity |-> 0]
        bid == g.next_order_id % 2 = 1
    IN  {[event("Add", g.next_order_id) EXCEPT
             !.side = IF bid THEN "Bid" ELSE "Ask",
             !.price = IF bid THEN mid - offset ELSE mid + 1 + offset,
             !.quantity = q] : q \in quantities, offset \in offsets}
        \cup {event("Cancel", id) : id \in DOMAIN g.active}
        \cup UNION {{[event("Execute", id) EXCEPT !.quantity = q] : q \in 1..g.active[id]} :
                       id \in DOMAIN g.active}

\* Fault: an order executed in part is forgotten.
Generated_Forgets(g, e) ==
    [active |-> IF e.type = "Add" THEN (e.order_id :> e.quantity) @@ g.active
                ELSE Restrict(g.active, {id \in DOMAIN g.active : id # e.order_id}),
     sequence |-> g.sequence + 1,
     next_order_id |-> g.next_order_id + (IF e.type = "Add" THEN 1 ELSE 0)]

Generated(g, e) ==
    LET gone == e.type = "Cancel" \/ (e.type = "Execute" /\ e.quantity = g.active[e.order_id]) IN
    [active |-> CASE e.type = "Add" -> (e.order_id :> e.quantity) @@ g.active
                  [] gone -> Restrict(g.active, {id \in DOMAIN g.active : id # e.order_id})
                  [] OTHER -> [g.active EXCEPT ![e.order_id] = @ - e.quantity],
     sequence |-> g.sequence + 1,
     next_order_id |-> g.next_order_id + (IF e.type = "Add" THEN 1 ELSE 0)]

=============================================================================
