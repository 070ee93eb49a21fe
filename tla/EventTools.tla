----------------------------- MODULE EventTools -----------------------------
(***************************************************************************)
(* The programs that build books from the events of a CSV file.            *)
(* replay_order_book reads the file, which generate_events wrote or        *)
(* somebody else.  udp_event_publisher sends each line once, as a datagram *)
(* that is lost, repeated, reordered or damaged, and udp_event_subscriber  *)
(* has to stop when it misses one.  tcp_event_client sends a line and      *)
(* waits for the answer of tcp_event_server, over a connection that may    *)
(* break with an event or an answer on the way.                            *)
(***************************************************************************)
EXTENDS BookRegistry, EventFile

CONSTANTS
    Orders,     \* the events without a sequence that files consist of
    MaxLines,   \* bound on the lines of the file, and on the sequences the client sends
    Target,     \* event_count, the number of events the subscriber is to apply
    OrderSizes, \* the quantities of generated orders
    MaxGenerated \* bound on the lines of a generated file

VARIABLES
    transport,  \* "udp", "tcp", or for a replay "generated" or "written", as the file is
    lines,      \* the events of the file that have been read
    generator,  \* the orders the generator keeps track of
    registry,   \* the books of the program that applies them
    status,     \* of that program: "reading", or how it ended
    applied,    \* the number of events the subscriber has applied
    client,     \* what the TCP client is doing, its last_applied and the answers it had
    up, down,   \* the TCP frames on the way to the server and to the client
    open        \* whether the TCP connection is

connection == <<client, up, down, open>>
vars == <<transport, lines, generator, registry, status, applied, connection>>

\* An event as the line of a file that holds it is parsed.
FromFile(e) == parse_event_line(write_event_csv(e)).event

WithSequence(e, sequence) == FromFile(e @@ [sequence |-> sequence])

-----------------------------------------------------------------------------
(* generate_events and replay_order_book *)

\* A line of the file is parsed, checked and applied; an error ends the replay.
Replay(line, room) ==
    LET parsed == parse_event_line(line)
        done == registry_apply(registry, parsed.event, room)
        refused == parsed.event # NoEvent /\ ~seq_valid(registry, parsed.event.sequence)
    IN  /\ status = "reading"
        /\ lines' = IF parsed.event = NoEvent THEN lines ELSE Append(lines, parsed.event)
        /\ CASE parsed.event = NoEvent ->
                  /\ status' = IF parsed.error THEN "failed" ELSE status
                  /\ UNCHANGED <<registry, applied>>
             [] refused -> status' = "failed" /\ UNCHANGED <<registry, applied>>
             [] OTHER ->
                  /\ registry' = done.registry
                  /\ applied' = IF done.result = "Ok" THEN applied + 1 ELSE applied
                  /\ status' = CASE done.result = "Ok" -> status
                                 [] done.result = "AllocationFailed" -> "exhausted"
                                 [] OTHER -> "failed"

\* The next line is one that generate_events wrote.
ReplayGenerated(room) ==
    /\ transport = "generated" /\ Len(lines) < MaxGenerated
    /\ \E e \in Generates(generator, OrderSizes, MaxPrice \div 2, 0..((MaxPrice \div 2) - 1)) :
         Replay(write_event_csv(e), room) /\ generator' = Generated(generator, e)
    /\ UNCHANGED <<transport, connection>>

\* The next line is anything: an event, one with a field that is wrong, or a comment.
ReplayWritten(room) ==
    /\ transport = "written" /\ Len(lines) < MaxLines
    /\ \E e \in Orders, sequence \in {registry.sequence, registry.sequence + 1} :
         LET line == write_event_csv(e @@ [sequence |-> sequence]) IN
         \/ Replay(line, room)
         \/ \E i \in 1..7, field \in {Empty, Text("?"), Number(1)} : Replay([line EXCEPT ![i] = field], room)
         \/ Replay(<<>>, room)
    /\ UNCHANGED <<transport, generator, connection>>

\* The file ends, or cannot be read further.
EndReplay ==
    /\ transport \in {"generated", "written"} /\ status = "reading"
    /\ status' \in {"ended", "unreadable"}
    /\ UNCHANGED <<transport, lines, generator, registry, applied, connection>>

-----------------------------------------------------------------------------
(* udp_event_publisher and udp_event_subscriber *)

\* The next line is sent.  Sequences grow; a file may lack some.
Publish(e, skip) ==
    /\ transport = "udp" /\ Len(lines) < MaxLines
    /\ LET sequence == skip + 1 + (IF lines = <<>> THEN 0 ELSE Last(lines).sequence)
       IN  lines' = Append(lines, WithSequence(e, sequence))
    /\ UNCHANGED <<transport, generator, registry, status, applied, connection>>

\* An exception ends the subscriber.
Fails ==
    /\ status' = "failed"
    /\ UNCHANGED <<transport, generator, lines, registry, applied, connection>>

Ignores == UNCHANGED vars

Applies(event, room) ==
    LET done == registry_apply(registry, event, room) IN
    IF done.result # "Ok"
    THEN Fails
    ELSE /\ registry' = done.registry
         /\ applied' = applied + 1
         /\ status' = IF applied' = Target THEN "synchronized" ELSE status
         /\ UNCHANGED <<transport, generator, lines, connection>>

\* A datagram is taken.
Take(frame, room) ==
    LET event == decode_event(frame) IN
    /\ transport = "udp" /\ status = "reading"
    /\ IF event = NoEvent THEN Fails
       ELSE IF event.sequence <= registry.sequence THEN Ignores
       ELSE IF ~seq_valid(registry, event.sequence) THEN Fails
       ELSE Applies(event, room)

\* Any datagram that was sent arrives, now and perhaps again.
Arrives(room) == \E n \in DOMAIN lines : Take(encode_event(lines[n]), room)

\* A datagram that is damaged or of the wrong length.
ArrivesDamaged ==
    \E n \in DOMAIN lines : Take([encode_event(lines[n]) EXCEPT !.valid_header = FALSE], TRUE)

\* Nothing arrives within the timeout.
Timeout == transport = "udp" /\ status = "reading" /\ Fails

-----------------------------------------------------------------------------
(* tcp_event_client *)

\* The next line is sent.
Send(e, sequence) ==
    /\ transport = "tcp" /\ client.at = "reading" /\ open
    /\ lines' = Append(lines, WithSequence(e, sequence))
    /\ up' = <<encode_event(Last(lines'))>>
    /\ client' = [client EXCEPT !.at = "waiting"]
    /\ UNCHANGED <<transport, generator, registry, status, applied, down, open>>

\* An answer: the wrong one is an error, and a rejection ends the client.
TakeAck ==
    /\ client.at = "waiting" /\ down # <<>>
    /\ LET ack == decode_apply_ack(Head(down))
           matches == AckWellFormed(Head(down)) /\ ack.sequence = Last(lines).sequence
       IN  IF matches /\ ack.result = "Ok"
           THEN /\ client' = [at |-> "reading", last_applied |-> ack.sequence,
                              answered |-> client.answered + 1]
                /\ UNCHANGED open
           ELSE /\ client' = [client EXCEPT !.at = IF matches THEN "rejected" ELSE "failed"]
                /\ open' = FALSE
    /\ down' = <<>>
    /\ UNCHANGED <<transport, generator, lines, registry, status, applied, up>>

\* The file ends, or has a line that is no event.
Finish ==
    /\ transport = "tcp" /\ client.at = "reading"
    /\ \E end \in {"finished", "failed"} : client' = [client EXCEPT !.at = end]
    /\ open' = FALSE
    /\ UNCHANGED <<transport, generator, lines, registry, status, applied, up, down>>

\* "Server closed before ACK; outcome unknown"
LoseServer ==
    /\ client.at = "waiting" /\ ~open /\ down = <<>>
    /\ client' = [client EXCEPT !.at = "unknown"]
    /\ UNCHANGED <<transport, generator, lines, registry, status, applied, up, down, open>>

-----------------------------------------------------------------------------
(* tcp_event_server *)

\* A frame is decoded, applied and answered, or ends the connection.  The
\* answer is lost when the connection is.
Serve(room) ==
    /\ status = "reading" /\ up # <<>>
    /\ LET event == decode_event(Head(up))
           done == registry_apply(registry, event, room)
       IN  IF event = NoEvent \/ ~seq_valid(registry, event.sequence)
           THEN /\ status' = "failed" /\ open' = FALSE
                /\ UNCHANGED <<registry, down>>
           ELSE /\ registry' = done.registry
                /\ down' = IF open THEN <<encode_apply_ack(event.sequence, done.result)>> ELSE down
                /\ status' = IF open THEN status ELSE "failed"
                /\ UNCHANGED open
    /\ up' = <<>>
    /\ UNCHANGED <<transport, generator, lines, applied, client>>

\* The client has disconnected.
EndServing ==
    /\ transport = "tcp" /\ status = "reading" /\ up = <<>> /\ ~open
    /\ status' = "ended"
    /\ UNCHANGED <<transport, generator, lines, registry, applied, connection>>

\* The connection breaks; what is on the way may still arrive.
Break ==
    /\ transport = "tcp" /\ open
    /\ open' = FALSE
    /\ up' \in {up, <<>>} /\ down' \in {down, <<>>}
    /\ UNCHANGED <<transport, generator, lines, registry, status, applied, client>>

-----------------------------------------------------------------------------

Init ==
    /\ transport \in {"generated", "written", "udp", "tcp"}
    /\ lines = <<>>
    /\ generator = NewGenerator
    /\ registry = NewRegistry
    /\ status = "reading"
    /\ applied = 0
    /\ client = [at |-> "reading", last_applied |-> 0, answered |-> 0]
    /\ up = <<>> /\ down = <<>>
    /\ open = (transport = "tcp")

Next ==
    \/ \E room \in BOOLEAN : ReplayGenerated(room) \/ ReplayWritten(room)
    \/ EndReplay
    \/ \E e \in Orders, skip \in 0..1 : Publish(e, skip)
    \/ \E room \in BOOLEAN : Arrives(room)
    \/ ArrivesDamaged
    \/ Timeout
    \/ \E e \in Orders, sequence \in 1..MaxLines : Send(e, sequence)
    \/ TakeAck \/ Finish \/ LoseServer
    \/ \E room \in BOOLEAN : Serve(room)
    \/ EndServing \/ Break

Spec == Init /\ [][Next]_vars

-----------------------------------------------------------------------------
(* Properties *)

\* Whatever is lost, repeated, reordered or wrong, the books are those of the
\* file up to the sequence the program reports, without a hole, and a
\* subscriber that ends with book_synchronized=1 has the number of events it
\* was asked for ("A future sequence is a gap; stop before apply rather than
\* building a book from incomplete history", udp_event_subscriber.cpp).
BooksAreAPrefix ==
    LET n == registry.sequence IN
    transport # "tcp" =>
        /\ n <= Len(lines) /\ registry = Rebuilt(SubSeq(lines, 1, n))
        /\ \A k \in 1..n : lines[k].sequence = k
        /\ applied = n
        /\ status = "synchronized" => n = Target

\* A file of generate_events is replayed without an error of its own: no line is
\* refused, and the orders the generator takes to be open are those of the
\* book, with the same quantities.
GeneratedFilesReplay ==
    transport = "generated" =>
        /\ status # "failed"
        /\ status \in {"reading", "ended"} =>
             generator.active =
                IF registry.books = <<>> THEN <<>>
                ELSE [id \in Ids(registry.books[1]) |-> Order(registry.books[1], id).quantity]

\* The books of the server are those of the events the client saw accepted, and
\* of the last one sent at most when the client does not know its outcome
\* ("Rejections leave the last successful sequence unchanged",
\* tcp_event_server.cpp).
AcknowledgedIsApplied ==
    LET acknowledged == SubSeq(lines, 1, client.answered) IN
    transport = "tcp" =>
        \/ registry = Rebuilt(acknowledged) /\ registry.sequence = client.last_applied
        \/ /\ client.at \in {"waiting", "unknown"}
           /\ registry = Rebuilt(Append(acknowledged, Last(lines)))
           /\ registry.sequence = client.last_applied + 1

=============================================================================
