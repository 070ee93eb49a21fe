---------------------------- MODULE FeedDecoders ----------------------------
(***************************************************************************)
(* Itch50Decoder and PitchDecoder: the records of an exchange's archive    *)
(* turned into normalised events.  A decoder is a record, decode an        *)
(* operator to [decoder, events]; an exception leaves a decoder that has   *)
(* failed, for good, and no events.                                        *)
(*                                                                         *)
(* The bytes are abstracted to what the decoders tell apart.  A record of  *)
(* kind "?" stands for every message refused for its own bytes alone: an   *)
(* unknown type, a wrong length, a time, symbol, side or flag out of       *)
(* range.                                                                  *)
(***************************************************************************)
EXTENDS FeedBooks

CONSTANT MaxSequence    \* the largest sequence number of a PITCH unit

ASSUME DecoderAssumption == MaxSequence \in Nat \ {0}

-----------------------------------------------------------------------------
(* ITCH 5.0: one message per record; the archive has no sequence numbers *)

NewItch50 == [started |-> FALSE, failed |-> FALSE, complete |-> FALSE, symbols |-> <<>>]

ItchMessage(kind, locate) ==
    [kind |-> kind, locate |-> locate, code |-> "", symbol |-> "", order_id |-> 0,
     new_order_id |-> 0, side |-> "Bid", price |-> 0, quantity |-> 0]

\* The messages about an order or a trade: their locate must be known.
OrderKinds == {"A", "U", "P", "E", "X", "D"}

ItchType(m) ==
    CASE m.kind = "S" -> IF m.code = "O" THEN "Clear" ELSE "Metadata"
      [] m.kind = "R" -> "Directory"
      [] m.kind = "A" -> "Add"
      [] m.kind = "U" -> "Replace"
      [] m.kind = "P" -> "Trade"
      [] m.kind = "E" -> "Execute"
      [] m.kind = "X" -> "Reduce"
      [] m.kind = "D" -> "Delete"
      [] OTHER -> "Metadata"

ItchAccepts(d, m) ==
    LET known == m.locate \in DOMAIN d.symbols IN
    /\ ~d.failed /\ ~d.complete /\ m.kind # "?"
    /\ d.started \/ (m.kind = "S" /\ m.code = "O")
    /\ m.kind = "R" => m.locate # 0 /\ (known => d.symbols[m.locate] = m.symbol)
    /\ m.kind \in OrderKinds => known
    /\ m.kind \in {"A", "P"} => d.symbols[m.locate] = m.symbol

\* The symbol of an event is the one its locate was announced with.
Itch50Decode(d, m) ==
    LET symbol == CASE m.kind = "R" -> m.symbol
                    [] m.kind \in OrderKinds -> d.symbols[m.locate]
                    [] OTHER -> ""
        e == [Event(ItchType(m), 0, m.order_id) EXCEPT
                 !.symbol = symbol, !.new_order_id = m.new_order_id, !.side = m.side,
                 !.price = m.price, !.quantity = m.quantity]
        symbols == CASE m.kind = "R" -> (m.locate :> m.symbol) @@ d.symbols
                     [] m.kind = "S" /\ m.code = "O" -> <<>>
                     [] OTHER -> d.symbols
    IN  IF ~ItchAccepts(d, m)
        THEN [decoder |-> [d EXCEPT !.failed = TRUE], events |-> <<>>]
        ELSE [decoder |-> [d EXCEPT !.started = TRUE, !.symbols = symbols,
                                    !.complete = m.kind = "S" /\ m.code = "C"],
              events |-> <<e>>]

ItchComplete(d) == d.complete /\ ~d.failed

-----------------------------------------------------------------------------
(* PITCH: packets of messages, each unit with sequence numbers of its own *)

NewPitch(units) ==
    [failed |-> FALSE, units |-> [c \in units |-> [next |-> 1, timed |-> FALSE, ended |-> FALSE]]]

PitchMessage(kind, id) ==
    [kind |-> kind, order_id |-> id, symbol |-> "", side |-> "Bid", price |-> 0, quantity |-> 0,
     remaining |-> 0, maintain_priority |-> FALSE]

\* A message may follow in a packet after the messages that left the unit at u.
PitchAccepts(u, m) == ~u.ended /\ m.kind # "?" /\ (m.kind = "Time" \/ u.timed)

\* The unit after the messages, and whether each of them could follow.
Scan(unit, messages) ==
    FoldLeft(LAMBDA s, m : [ok |-> s.ok /\ PitchAccepts(s.unit, m),
                            unit |-> [s.unit EXCEPT !.timed = @ \/ m.kind = "Time",
                                                    !.ended = @ \/ m.kind = "End"]],
             [ok |-> TRUE, unit |-> unit], messages)

PitchType(m) == IF m.kind \in {"Time", "Status", "End"} THEN "Metadata" ELSE m.kind

PitchEvent(p, i) ==
    LET m == p.messages[i] IN
    [Event(PitchType(m), p.channel, m.order_id) EXCEPT
        !.sequence = p.sequence + i - 1, !.symbol = m.symbol, !.side = m.side,
        !.price = m.price, !.quantity = m.quantity, !.remaining = m.remaining,
        !.new_order_id = IF m.kind = "Replace" THEN m.order_id ELSE 0,
        !.maintain_priority = m.maintain_priority]

\* Fault: the next number counts packets.
Commit_Packet(unit, count) == [unit EXCEPT !.next = @ + 1]

Commit(unit, count) == [unit EXCEPT !.next = @ + count]

\* The unit is committed, and the events returned, only when the whole packet
\* is valid.  A packet without messages is a heartbeat.
PitchDecode(d, p) ==
    LET unit == d.units[p.channel]
        count == Len(p.messages)
        scan == Scan(unit, p.messages)
        accepted ==
            /\ ~d.failed /\ p.whole
            /\ IF count = 0
               THEN p.sequence \in {0, unit.next}
               ELSE /\ p.sequence = unit.next /\ ~unit.ended
                    /\ p.sequence + count - 1 <= MaxSequence
                    /\ scan.ok
    IN  IF ~accepted
        THEN [decoder |-> [d EXCEPT !.failed = TRUE], events |-> <<>>]
        ELSE [decoder |-> [d EXCEPT !.units[p.channel] = Commit(scan.unit, count)],
              events |-> [i \in 1..count |-> PitchEvent(p, i)]]

\* A unit nothing was heard from does not count.
PitchComplete(d) ==
    LET seen == {c \in DOMAIN d.units : d.units[c].next # 1} IN
    seen # {} /\ ~d.failed /\ \A c \in seen : d.units[c].ended

=============================================================================
