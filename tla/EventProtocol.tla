--------------------------- MODULE EventProtocol ----------------------------
(***************************************************************************)
(* The frames of net/protocol.cpp, in which market events and the answers  *)
(* to them travel.  A frame is a record of its fields; a field that an     *)
(* event lacks is 0, and a decoder refuses a frame in which it is not.     *)
(***************************************************************************)
EXTENDS Integers, Sequences

\* The stable mapping of results to numbers, from 0.
Results == <<"Ok", "DuplicateOrder", "UnknownOrder", "InvalidPrice", "InvalidQuantity",
             "UnknownInstrument", "QuantityExceedsRemaining", "ParseError",
             "NotImplemented", "AllocationFailed">>

NoEvent == [type |-> "None"]

\* encode_event, for the sides it does not throw at
encode_event(e) ==
    LET frame == [valid_header |-> TRUE, type |-> 0, side |-> 0, sequence |-> e.sequence,
                  instrument_id |-> e.instrument_id, order_id |-> e.order_id,
                  price |-> 0, quantity |-> 0]
    IN  CASE e.type = "Add" ->
                [frame EXCEPT !.type = 1, !.side = IF e.side = "Bid" THEN 1 ELSE 2,
                              !.price = e.price, !.quantity = e.quantity]
          [] e.type = "Cancel" -> [frame EXCEPT !.type = 2]
          [] e.type = "Execute" -> [frame EXCEPT !.type = 3, !.quantity = e.quantity]

WellFormed(frame) ==
    /\ frame.valid_header
    /\ \/ frame.type = 1 /\ frame.side \in {1, 2}
       \/ frame.type = 2 /\ frame.side = 0 /\ frame.price = 0 /\ frame.quantity = 0
       \/ frame.type = 3 /\ frame.side = 0 /\ frame.price = 0

\* decode_event; a cancel and an execute have no use for the side.
decode_event(frame) ==
    IF ~WellFormed(frame) THEN NoEvent
    ELSE [type          |-> <<"Add", "Cancel", "Execute">>[frame.type],
          sequence      |-> frame.sequence,
          instrument_id |-> frame.instrument_id,
          order_id      |-> frame.order_id,
          side          |-> IF frame.side = 2 THEN "Ask" ELSE "Bid",
          price         |-> frame.price,
          quantity      |-> frame.quantity]

encode_apply_ack(sequence, result) ==
    [valid_header |-> TRUE, type |-> 129, sequence |-> sequence,
     result |-> (CHOOSE i \in DOMAIN Results : Results[i] = result) - 1]

\* decode_apply_ack, for a frame it does not refuse
decode_apply_ack(frame) ==
    [sequence |-> frame.sequence, result |-> Results[frame.result + 1]]

AckWellFormed(frame) == frame.valid_header /\ frame.type = 129 /\ frame.result < Len(Results)

=============================================================================
