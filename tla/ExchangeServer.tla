--------------------------- MODULE ExchangeServer ---------------------------
(***************************************************************************)
(* run_exchange: the I/O thread serves the TCP connections, the engine     *)
(* thread answers their requests, the publisher thread sends the market    *)
(* updates.  Three bounded queues join them, and the flags ingress_done,   *)
(* engine_done and fatal bring them down.  What the engine answers is      *)
(* MatchingEngine's matter; here a command yields some reports and some    *)
(* updates.                                                                *)
(***************************************************************************)
EXTENDS Integers, Sequences, FiniteSets, Functions

CONSTANTS
    Clients,        \* the client ids, without 0
    QueueSize,      \* the size of each queue
    ResponseBudget, \* the responses routed in one turn of the I/O loop
    MaxSessions,    \* the connections open at one time
    OutputLimit,    \* the frames that may wait for a connection
    MaxConnections, \* bound on the connections there ever are
    MaxFrames,      \* bound on the frames the clients send
    Faults          \* what may go wrong, of FaultKinds

\* An exception in one of the threads, a socket that breaks or stalls, a frame
\* that is no command.
FaultKinds == {"engine", "publisher", "io", "socket", "frame"}

ASSUME ServerAssumption ==
    /\ 0 \notin Clients
    /\ {QueueSize, ResponseBudget, MaxSessions, OutputLimit} \subseteq Nat \ {0}
    /\ {MaxConnections, MaxFrames} \subseteq Nat
    /\ Faults \subseteq FaultKinds

VARIABLES
    stop, fatal, ingress_done, engine_done,     \* the flags
    requests, responses, updates,               \* the queues
    engine,         \* where the engine thread is, and what it still has to push
    publisher,      \* where the publisher thread is
    io,             \* where the I/O thread is in its loop
    draining,       \* whether it is draining
    connections, routes, next_connection,
    frames          \* the frames sent so far

flags == <<stop, fatal, ingress_done, engine_done>>
queues == <<requests, responses, updates>>
sessions == <<connections, routes, next_connection, frames>>
vars == <<flags, queues, engine, publisher, io, draining, sessions>>

HasRoom(queue) == Len(queue) < QueueSize

\* f with k mapped to v
Put(f, k, v) == [x \in DOMAIN f \cup {k} |-> IF x = k THEN v ELSE f[x]]

\* c.input: a frame, or less than one; recv may also find that the client sends
\* no more
None == [action |-> "None", client |-> 0]
Eof == [action |-> "Eof", client |-> 0]

\* What a client may send: an order or a query of its own, a query for the
\* books, which may name a client or not, or "Garbage", which does not decode,
\* is not a command or names no client.
Frames ==
    [action : {"Command"}, client : Clients]
    \cup [action : {"Snapshot"}, client : Clients \cup {0}]
    \cup [action : IF "frame" \in Faults THEN {"Garbage"} ELSE {}, client : {0}]

IsWhole(frame) == frame \notin {None, Eof}

\* Connection
NewConnection ==
    [client |-> 0, input |-> None, output |-> 0, closing |-> FALSE,
     read_closed |-> FALSE, admitted |-> 0]

-----------------------------------------------------------------------------
(* The engine thread *)

\* Reports as they are queued: whom they are for, the connection (0: to be
\* found in routes) and whether they are the last one for a request.
Report(client, connection, last) ==
    [client |-> client, connection |-> connection, last |-> last]

\* What the engine may answer to a request: its own client's reports end with
\* the one that completes it; an order of another client may be filled, which
\* is an update of the market too.
Answers(envelope) ==
    LET own(last) == Report(envelope.client, envelope.connection, last)
    IN  CASE envelope.action = "Command" ->
               [reports : {<<own(TRUE)>>}, updates : 0..1]
               \cup [reports : {<<Report(k, 0, FALSE), own(TRUE)>> :
                                  k \in Clients \ {envelope.client}}, updates : {1}]
          [] envelope.action = "Snapshot" ->
               [reports : {<<own(FALSE), own(TRUE)>>}, updates : {0}]

\* The loop's head: fatal, and then ingress_done before the queue.
EngineLoad ==
    /\ engine.at = "load"
    /\ engine' = IF fatal THEN [engine EXCEPT !.at = "end"]
                 ELSE [engine EXCEPT !.at = "pop", !.input_finished = ingress_done]
    /\ UNCHANGED <<flags, queues, publisher, io, draining, sessions>>

EnginePop ==
    /\ engine.at = "pop"
    /\ \/ /\ requests = <<>>
          /\ engine' = [engine EXCEPT !.input_finished = FALSE,
                          !.at = IF engine.input_finished \/ fatal THEN "end" ELSE "load"]
          /\ UNCHANGED requests
       \/ /\ requests # <<>>
          /\ requests' = Tail(requests)
          /\ \E answer \in Answers(Head(requests)) :
               engine' = [at |-> "push", input_finished |-> FALSE,
                          reports |-> answer.reports, updates |-> answer.updates]
    /\ UNCHANGED <<flags, responses, updates, publisher, io, draining, sessions>>

\* push waits for room; once fatal is set it gives the rest of the reports, or
\* of the updates, up.
EnginePush ==
    /\ engine.at = "push"
    /\ \/ /\ engine.reports # <<>> /\ HasRoom(responses)
          /\ responses' = Append(responses, Head(engine.reports))
          /\ engine' = [engine EXCEPT !.reports = Tail(@)]
          /\ UNCHANGED updates
       \/ /\ engine.reports # <<>> /\ ~HasRoom(responses) /\ fatal
          /\ engine' = [engine EXCEPT !.reports = <<>>]
          /\ UNCHANGED <<responses, updates>>
       \/ /\ engine.reports = <<>> /\ engine.updates > 0 /\ HasRoom(updates)
          /\ updates' = Append(updates, "Delta")
          /\ engine' = [engine EXCEPT !.updates = @ - 1]
          /\ UNCHANGED responses
       \/ /\ engine.reports = <<>> /\ engine.updates > 0 /\ ~HasRoom(updates) /\ fatal
          /\ engine' = [engine EXCEPT !.updates = 0]
          /\ UNCHANGED <<responses, updates>>
       \/ /\ engine.reports = <<>> /\ engine.updates = 0
          /\ engine' = [engine EXCEPT !.at = "load"]
          /\ UNCHANGED <<responses, updates>>
    /\ UNCHANGED <<flags, requests, publisher, io, draining, sessions>>

\* The journal cannot be written: the popped command is not processed.
EngineFails ==
    /\ "engine" \in Faults
    /\ engine.at = "pop" /\ requests # <<>> /\ Head(requests).action = "Command"
    /\ requests' = Tail(requests)
    /\ fatal' = TRUE
    /\ engine' = [engine EXCEPT !.at = "end", !.input_finished = FALSE]
    /\ UNCHANGED <<stop, ingress_done, engine_done, responses, updates, publisher, io,
                   draining, sessions>>

EngineEnd ==
    /\ engine.at = "end"
    /\ engine_done' = TRUE
    /\ engine' = [engine EXCEPT !.at = "done"]
    /\ UNCHANGED <<stop, fatal, ingress_done, queues, publisher, io, draining, sessions>>

-----------------------------------------------------------------------------
(* The publisher thread *)

PublisherLoad ==
    /\ publisher.at = "load"
    /\ publisher' = [at |-> "pop", matching_finished |-> engine_done]
    /\ UNCHANGED <<flags, queues, engine, io, draining, sessions>>

PublisherPop ==
    /\ publisher.at = "pop"
    /\ updates' = IF updates = <<>> THEN updates ELSE Tail(updates)
    /\ publisher' = [matching_finished |-> FALSE,
          at |-> IF fatal \/ (updates = <<>> /\ publisher.matching_finished) THEN "done" ELSE "load"]
    /\ UNCHANGED <<flags, requests, responses, engine, io, draining, sessions>>

\* send throws, for an update or for a heartbeat; the loop is left before the
\* heartbeat when the engine has ended and there is no update.
PublisherFails ==
    /\ "publisher" \in Faults
    /\ publisher.at = "pop"
    /\ updates # <<>> \/ ~publisher.matching_finished
    /\ updates' = IF updates = <<>> THEN updates ELSE Tail(updates)
    /\ fatal' = TRUE
    /\ publisher' = [at |-> "done", matching_finished |-> FALSE]
    /\ UNCHANGED <<stop, ingress_done, engine_done, requests, responses, engine, io,
                   draining, sessions>>

-----------------------------------------------------------------------------
(* The I/O thread *)

\* Between two turns of the loop.
NoTurn ==
    [at |-> "serve", matching_finished |-> FALSE, routed |-> 0, todo |-> {}, remove |-> {},
     lost |-> {}]

\* Fault: the route of a connection outlives it.
RoutesLeft_All == routes

\* The sessions of removed connections go with them.
RoutesLeft == Restrict(routes, DOMAIN routes \ {connections[id].client : id \in io.remove})

\* A turn ends with the removal of the dead connections.  The next one begins:
\* a stop or a fatal error starts the draining, and engine_done is loaded
\* before the responses are looked at.
IoTurn ==
    /\ io.at = "serve" /\ io.todo = {}
    /\ connections' = Restrict(connections, DOMAIN connections \ io.remove)
    /\ routes' = RoutesLeft
    /\ LET begins == ~draining /\ (stop \/ fatal) IN
       /\ draining' = (draining \/ begins)
       /\ ingress_done' = (ingress_done \/ begins)
    /\ io' = [NoTurn EXCEPT !.at = "route", !.matching_finished = engine_done]
    /\ UNCHANGED <<stop, fatal, engine_done, queues, engine, publisher, next_connection, frames>>

\* Fault: only orders count as answered.
append_OrdersOnly(c, last) ==
    IF c.output >= OutputLimit THEN [c EXCEPT !.closing = TRUE, !.output = 0]
    ELSE [c EXCEPT !.output = @ + 1,
                   !.admitted = IF last /\ c.client # 0 /\ @ > 0 THEN @ - 1 ELSE @]

\* append: a connection that does not read is closed; the last report for a
\* request makes it answered.
append(c, last) ==
    IF c.output >= OutputLimit THEN [c EXCEPT !.closing = TRUE, !.output = 0]
    ELSE [c EXCEPT !.output = @ + 1, !.admitted = IF last /\ @ > 0 THEN @ - 1 ELSE @]

\* The connection a response goes to; 0 when there is none.
Target(response) ==
    LET target == IF response.connection # 0 THEN response.connection
                  ELSE IF response.client \in DOMAIN routes THEN routes[response.client] ELSE 0
    IN  IF target \in DOMAIN connections /\ ~connections[target].closing THEN target ELSE 0

IoRoute ==
    /\ io.at = "route" /\ io.routed < ResponseBudget /\ responses # <<>>
    /\ responses' = Tail(responses)
    /\ LET target == Target(Head(responses)) IN
       connections' = IF target = 0 THEN connections
                      ELSE [connections EXCEPT ![target] = append(@, Head(responses).last)]
    /\ io' = [io EXCEPT !.routed = @ + 1]
    /\ UNCHANGED <<flags, requests, updates, engine, publisher, draining, routes,
                   next_connection, frames>>

\* There is no response, or there have been enough of them for this turn.
Routed == io.routed = ResponseBudget \/ responses = <<>>

\* The draining loop has routed and comes to the question whether it is over;
\* outside of the draining there is nothing to decide.
IoRouted ==
    /\ io.at = "route" /\ draining /\ Routed
    /\ io' = [io EXCEPT !.at = "decide"]
    /\ UNCHANGED <<flags, queues, engine, publisher, draining, sessions>>

\* The loop comes to its poll, if it is not left.
Polls ==
    \/ io.at = "route" /\ ~draining /\ Routed
    \/ io.at = "decide"

\* Nothing is left to send.
NothingPending == \A id \in DOMAIN connections : connections[id].output = 0

\* Fault: engine_done is looked at after the responses.
Drained_LateFlag == draining /\ engine_done /\ io.routed = 0 /\ NothingPending

\* The engine had ended before the last look at the responses, and there were
\* none.
Drained == draining /\ io.matching_finished /\ io.routed = 0 /\ NothingPending

\* Fault: the draining has no deadline.
Late_Never == FALSE

\* The draining may have taken too long: five seconds have passed or not.
Late == ~Drained /\ draining

\* The loop is left: all is done, or it is late.
IoLeave ==
    /\ io.at = "decide"
    /\ Drained \/ Late
    /\ fatal' = (fatal \/ Late)
    /\ ingress_done' = TRUE
    /\ io' = [NoTurn EXCEPT !.at = "join"]
    /\ UNCHANGED <<stop, engine_done, queues, engine, publisher, draining, sessions>>

\* The connections there are get served in this turn; more clients connect, and
\* are turned away when there are too many.
IoPoll ==
    /\ Polls
    /\ ~Drained
    /\ io' = [NoTurn EXCEPT !.todo = DOMAIN connections]
    /\ \E more \in 0..(IF draining THEN 0 ELSE MaxConnections) :
          /\ Cardinality(DOMAIN connections) + more <= MaxSessions
          /\ next_connection' = next_connection + more
          /\ next_connection' <= MaxConnections + 1
          /\ connections' = [id \in DOMAIN connections \cup next_connection..(next_connection' - 1) |->
                                IF id \in DOMAIN connections THEN connections[id] ELSE NewConnection]
    /\ UNCHANGED <<flags, queues, engine, publisher, draining, routes, frames>>

\* Fault: a frame that had to wait is looked at again when more is to be read.
Attends_Readable(c, readable) == readable

\* Whether the input of a connection is looked at.
Attends(c, readable) == readable \/ IsWhole(c.input)

\* What recv may leave in the input.  A query for the books that names another
\* client fares as one that names none.
Received(c) ==
    IF IsWhole(c.input) THEN {c.input}
    ELSE {None, Eof}
         \cup {m \in Frames : frames < MaxFrames
                               /\ (m.action = "Snapshot" => m.client \in {0, c.client})}

\* A frame that is no command of this connection's client.
IsMalformed(c, m) ==
    \/ m.action = "Garbage"
    \/ c.client # 0 /\ m.client # c.client

\* The frame m of connection id: the first one of a client opens its session,
\* unless it has one elsewhere; the request is queued if there is room, and
\* otherwise the frame stays in the input.
Admit(id, c, m) ==
    LET opens == c.client = 0 /\ m.action # "Snapshot"
        busy == opens /\ m.client \in DOMAIN routes
        named == IF opens THEN [c EXCEPT !.client = m.client] ELSE c
    IN  IF busy
        THEN [connection |-> [append(c, FALSE) EXCEPT !.closing = TRUE],
              routes |-> routes, requests |-> requests]
        ELSE [connection |-> IF HasRoom(requests)
                             THEN [named EXCEPT !.input = None, !.admitted = @ + 1] ELSE named,
              routes |-> IF opens THEN Put(routes, m.client, id) ELSE routes,
              requests |-> IF HasRoom(requests)
                           THEN Append(requests, [connection |-> id, action |-> m.action,
                                                  client |-> m.client])
                           ELSE requests]

\* Whether the server reads from c, as it was after sending.
Reads(c, readable) == ~draining /\ ~c.closing /\ ~c.read_closed /\ Attends(c, readable)

\* c with what recv left in its input, or with the end of it.
Read(c, got) == IF got = Eof THEN [c EXCEPT !.read_closed = TRUE] ELSE [c EXCEPT !.input = got]

\* Whether c, when it is read, has a frame that is no command.
Rejects(c, reads) == reads /\ IsWhole(c.input) /\ IsMalformed(c, c.input)

\* What c, when it is read, leads to.
Served(id, c, reads) ==
    IF reads /\ IsWhole(c.input) /\ ~Rejects(c, reads) THEN Admit(id, c, c.input)
    ELSE [connection |-> c, routes |-> routes, requests |-> requests]

\* Fault: a half-closed connection is done when nothing waits to be sent.
Finished_Early(c) == (c.closing \/ c.read_closed) /\ c.output = 0

\* A connection that is done with: it is to be closed, or the client sends no
\* more and has had all its answers.
Finished(c) == (c.closing \/ (c.read_closed /\ c.admitted = 0)) /\ c.output = 0

\* Connection id, as c after sending, is received from and acted on.  What is
\* dead is marked for removal: a broken socket, a frame that is no command, or
\* a connection that is finished.
ServeInput(id, broken, c, reads) ==
    \E got \in IF reads THEN Received(c) ELSE {c.input} :
       LET read == Read(c, got)
           served == Served(id, read, reads)
       IN  /\ connections' = [connections EXCEPT ![id] = served.connection]
           /\ routes' = served.routes
           /\ requests' = served.requests
           /\ frames' = IF IsWhole(got) /\ ~IsWhole(c.input) THEN frames + 1 ELSE frames
           /\ io' = [io EXCEPT !.todo = @ \ {id},
                               !.remove = IF broken \/ Rejects(read, reads) \/ Finished(served.connection)
                                          THEN @ \cup {id} ELSE @,
                               !.lost = IF broken THEN @ \cup {id} ELSE @]

\* One connection is served: output is sent, then input received and acted on;
\* on a broken socket nothing more is done.  A client that is too slow for five
\* seconds counts as broken a turn later.
Serve(id) ==
    /\ io.at = "serve" /\ id \in io.todo /\ \A other \in io.todo : id <= other
    /\ \E broken \in {FALSE, "socket" \in Faults}, readable \in BOOLEAN :
       \E sent \in IF broken THEN {0} ELSE 0..connections[id].output :
       LET c == [connections[id] EXCEPT !.output = @ - sent]
       IN  ServeInput(id, broken, c, ~broken /\ Reads(c, readable))
    /\ UNCHANGED <<flags, responses, updates, engine, publisher, draining, next_connection>>

\* poll or accept throws.
IoFails ==
    /\ "io" \in Faults
    /\ Polls
    /\ ~Drained
    /\ fatal' = TRUE
    /\ ingress_done' = TRUE
    /\ io' = [NoTurn EXCEPT !.at = "join"]
    /\ UNCHANGED <<stop, engine_done, queues, engine, publisher, draining, sessions>>

IoJoin ==
    /\ io.at = "join"
    /\ engine.at = "done" /\ publisher.at = "done"
    /\ io' = [io EXCEPT !.at = "end"]
    /\ UNCHANGED <<flags, queues, engine, publisher, draining, sessions>>

-----------------------------------------------------------------------------

\* The handler of SIGINT and SIGTERM.
Stop ==
    /\ ~stop
    /\ stop' = TRUE
    /\ UNCHANGED <<fatal, ingress_done, engine_done, queues, engine, publisher, io, draining,
                   sessions>>

\* run_exchange has returned.
Returned ==
    /\ io.at = "end"
    /\ UNCHANGED vars

Init ==
    /\ stop = FALSE /\ fatal = FALSE /\ ingress_done = FALSE /\ engine_done = FALSE
    /\ requests = <<>> /\ responses = <<>> /\ updates = <<>>
    /\ engine = [at |-> "load", input_finished |-> FALSE, reports |-> <<>>, updates |-> 0]
    /\ publisher = [at |-> "load", matching_finished |-> FALSE]
    /\ io = NoTurn
    /\ draining = FALSE
    /\ connections = <<>> /\ routes = <<>> /\ next_connection = 1
    /\ frames = 0

EngineThread == EngineLoad \/ EnginePop \/ EnginePush \/ EngineFails \/ EngineEnd

PublisherThread == PublisherLoad \/ PublisherPop \/ PublisherFails

IoThread ==
    \/ IoTurn \/ IoRoute \/ IoRouted \/ IoLeave \/ IoPoll
    \/ \E id \in DOMAIN connections : Serve(id)
    \/ IoFails \/ IoJoin

Next == EngineThread \/ PublisherThread \/ IoThread \/ Stop \/ Returned

Spec == Init /\ [][Next]_vars

\* Where a thread waits for another one, or is over.
EngineWaits ==
    \/ engine.at = "done"
    \/ /\ engine.at = "push" /\ ~fatal
       /\ IF engine.reports # <<>> THEN ~HasRoom(responses)
          ELSE engine.updates > 0 /\ ~HasRoom(updates)

IoWaits ==
    \/ io.at = "end"
    \/ io.at = "join" /\ ~(engine.at = "done" /\ publisher.at = "done")

\* The threads are scheduled, and time passes: a thread that has a step, and
\* each of its steps moves it on, takes it, and the loop that may be left does
\* not go on for ever.
FairSpec ==
    /\ Spec
    /\ []<>EngineWaits \/ []<><<TRUE>>_engine
    /\ []<>(publisher.at = "done") \/ []<><<TRUE>>_publisher
    /\ []<>IoWaits \/ []<><<TRUE>>_io
    /\ <>[]~(io.at = "decide" /\ (Drained \/ Late))

-----------------------------------------------------------------------------
(* Properties *)

\* The requests of connection id that wait, and the last reports for them that
\* are on their way.
Outstanding(id) ==
    LET Waiting(q) == {n \in DOMAIN q : q[n].connection = id}
        Answering(q) == {n \in DOMAIN q : q[n].connection = id /\ q[n].last}
    IN  Cardinality(Waiting(requests))
        + Cardinality(Answering(engine.reports)) + Cardinality(Answering(responses))

\* A client has a route exactly while one connection is its session: reports
\* about its resting orders find it, no second connection can take its
\* session over, and it can come back once the connection is gone
\* (run_exchange, routes and Connection::client).
RoutesAreSessions ==
    /\ \A k \in DOMAIN routes :
         routes[k] \in DOMAIN connections /\ connections[routes[k]].client = k
    /\ \A id \in DOMAIN connections : connections[id].client # 0 =>
         connections[id].client \in DOMAIN routes /\ routes[connections[id].client] = id

\* The counter Connection::admitted is the number of requests whose answer has
\* not reached the connection's output, wherever in the three threads they
\* are.  (A fatal error drops answers, and a closing connection takes none.)
AdmittedIsOutstanding ==
    ~fatal => \A id \in DOMAIN connections :
                ~connections[id].closing => connections[id].admitted = Outstanding(id)

\* When no socket fails, a connection is removed only once every request
\* admitted from it has been answered and the answers sent, even after its
\* client has shut its sending side down
\* (test_half_close_preserves_reports_for_admitted_command); the others are
\* those the server closes itself: a second session, a frame that is no
\* command, a client that does not read.  Nothing is said of fills of its
\* client's resting orders, which find their connection through routes: those
\* still queued when a half-closed connection is removed reach nobody.
AnsweredBeforeRemoval ==
    [][\A id \in DOMAIN connections \ DOMAIN connections' :
         \/ id \in io.lost
         \/ connections[id].closing
         \/ IsWhole(connections[id].input)
         \/ connections[id].output = 0 /\ Outstanding(id) = 0]_vars

\* When run_exchange returns without an error, every request it took in has
\* been answered, every answer sent and every update published: the flags are
\* read before the queues they speak of, so nothing is left behind.
CleanStop ==
    io.at = "end" /\ ~fatal =>
        /\ requests = <<>> /\ responses = <<>> /\ updates = <<>>
        /\ \A id \in DOMAIN connections :
             /\ connections[id].output = 0
             /\ ~connections[id].closing => connections[id].admitted = 0

\* After a signal or a fatal error in any thread all three threads end, even
\* with the queues full and clients that do not read.  (The flags are never
\* cleared, so this says what (stop \/ fatal) ~> io.at = "end" does.)
EveryThreadEnds == []<>((stop \/ fatal) => io.at = "end")

\* A whole frame that waits for room in the request queue.
Waits(c) == IsWhole(c.input) /\ ~c.closing

\* A frame that was received whole while the request queue was full does not
\* stay: the request is admitted although the client sends nothing more, or
\* the connection is closing or gone, or the server is going down.  (The frames
\* are finitely many, so one that stays for ever would be there from some
\* point on.)
EveryFrameIsTaken ==
    []<>(draining \/ fatal \/ \A id \in DOMAIN connections : ~Waits(connections[id]))

=============================================================================
