--------------------------- MODULE TradingGateway ---------------------------
(***************************************************************************)
(* The private side of TradingClient as trading_app uses it: the thread of *)
(* the application in submit, close and the destructor, the gateway thread *)
(* with its queues and eventfds, and the connection to an exchange that    *)
(* answers in order until the connection is lost.  The queues are          *)
(* LFQueues, used as the BoundedFifo they implement.                       *)
(*                                                                         *)
(* Of the market side only the failures are kept: recover and drain_market *)
(* may throw, and the subscriber thread may fail.  Time is abstracted to   *)
(* deadlines that may expire whenever they are looked at.                  *)
(***************************************************************************)
EXTENDS Integers, Sequences

CONSTANTS
    RequestCapacity, ReportCapacity, OutputCapacity,    \* 4096 in the code
    MaxRequests     \* bound on the commands before the application closes the client

ASSUME GatewayAssumption ==
    /\ RequestCapacity \in Nat \ {0} /\ ReportCapacity \in Nat \ {0}
    /\ OutputCapacity \in Nat \ {0} /\ MaxRequests \in Nat

VARIABLES
    app,            \* where the application is, why, its command, and --cancel-on-exit
    request_id,
    working,        \* the number of manager_.orders()
    requests, reports, request_ready, report_ready, error, stopped,
    gateway,        \* where the gateway thread is, the events poll returned, the report in hand
    output,         \* the frames it has to send
    subscriber,     \* where the subscriber thread is
    up, down, open, \* the frames on the way to and from the exchange
    orders,         \* how many of its orders are at the exchange
    last_request    \* the last of its requests the exchange has performed

exchange == <<orders, last_request>>

appVars == <<app, request_id, working>>
wire == <<up, down, open>>
flags == <<request_ready, report_ready, error, stopped>>
vars == <<appVars, requests, reports, flags, gateway, output, subscriber, wire, exchange>>

-----------------------------------------------------------------------------
(* The application: main, submit and close *)

Goto(a, at) == [a EXCEPT !.at = at]

\* An exception: main closes the client, once more if it was closing it, and
\* when that fails too leaves the rest to the destructor.
Thrown(a) ==
    IF a.mode = "failed" THEN [a EXCEPT !.at = "stop", !.mode = "unwinding"]
    ELSE [a EXCEPT !.at = "close", !.mode = "failed"]

\* What follows a submit that returns.
Returned(a) == Goto(a, IF a.mode = "run" THEN "idle" ELSE "check")

\* A strategy or a script polls the client or submits the next command.
AppCalls(action) ==
    /\ app.at = "idle" /\ (action = "poll" \/ request_id < MaxRequests)
    /\ app' = [app EXCEPT !.at = "drain", !.action = action]
    /\ UNCHANGED <<request_id, working, requests, reports, flags, gateway, output,
                   subscriber, wire, exchange>>

\* It is done: main polls once more and closes the client.
AppFinish ==
    /\ app.at = "idle"
    /\ app' = [app EXCEPT !.at = "drain", !.action = "poll", !.mode = "closing"]
    /\ UNCHANGED <<request_id, working, requests, reports, flags, gateway, output,
                   subscriber, wire, exchange>>

\* receive_report: what OrderManager::consume does to the orders.
Consumes(m) ==
    /\ reports' = Tail(reports)
    /\ working' = CASE m.report = "Accepted" -> working + 1
                    [] m.report \in {"Fill", "Cancelled"} -> working - 1
                    [] m.report = "Complete" -> working

\* poll and submit begin with receive_report(0ms) until there is none: a check,
\* and then a pop that is followed by a check only when it finds nothing.
AppDrain ==
    /\ app.at = "drain"
    /\ app' = IF error THEN Thrown(app) ELSE Goto(app, "drain_pop")
    /\ UNCHANGED <<request_id, working, requests, reports, flags, gateway, output,
                   subscriber, wire, exchange>>

AppDrainPop ==
    /\ app.at = "drain_pop"
    /\ IF reports # <<>> THEN Consumes(Head(reports)) /\ app' = Goto(app, "drain")
       ELSE /\ app' = IF error THEN Thrown(app) ELSE Goto(app, "drained")
            /\ UNCHANGED <<reports, working>>
    /\ UNCHANGED <<request_id, requests, flags, gateway, output, subscriber, wire, exchange>>

\* drain_market may throw, unless the command is a cancellation, and so may the
\* local risk check of an order.
AppDrained ==
    /\ app.at = "drained"
    /\ \/ app.action # "CancelAll" /\ app' = Thrown(app) /\ UNCHANGED request_id
       \/ /\ app.action = "poll" /\ UNCHANGED request_id
          /\ app' = Goto(app, IF app.mode = "closing" THEN "close" ELSE "idle")
       \/ app.action # "poll" /\ app' = Goto(app, "push") /\ request_id' = request_id + 1
    /\ UNCHANGED <<working, requests, reports, flags, gateway, output, subscriber,
                   wire, exchange>>

\* send: a queue that stays full is an error.
AppPush ==
    /\ app.at = "push"
    /\ IF Len(requests) < RequestCapacity
       THEN /\ requests' = Append(requests, [request_id |-> request_id, action |-> app.action])
            /\ app' = Goto(app, "signal")
       ELSE app' = Thrown(app) /\ UNCHANGED requests
    /\ UNCHANGED <<request_id, working, reports, flags, gateway, output, subscriber,
                   wire, exchange>>

AppSignal ==
    /\ app.at = "signal"
    /\ request_ready' = TRUE
    /\ app' = IF error THEN Thrown(app) ELSE Goto(app, "wait")
    /\ UNCHANGED <<request_id, working, requests, reports, report_ready, error,
                   stopped, gateway, output, subscriber, wire, exchange>>

\* The loop over receive_report(10ms): a Complete of the request ends it.
AppWait ==
    /\ app.at = "wait"
    /\ app' = IF error THEN Thrown(app) ELSE Goto(app, "wait_pop")
    /\ UNCHANGED <<request_id, working, requests, reports, flags, gateway, output,
                   subscriber, wire, exchange>>

AppWaitPop ==
    /\ app.at = "wait_pop"
    /\ IF reports # <<>>
       THEN LET m == Head(reports) IN
            /\ Consumes(m)
            /\ app' = IF m.request_id = request_id /\ m.report = "Complete"
                      THEN Returned(app) ELSE Goto(app, "wait")
       ELSE /\ app' = IF error THEN Thrown(app) ELSE Goto(app, "poll")
            /\ UNCHANGED <<reports, working>>
    /\ UNCHANGED <<request_id, requests, flags, gateway, output, subscriber, wire, exchange>>

\* poll on report_ready returns and the signal is cleared, or poll was
\* interrupted, or 10 ms are over.
AppPoll ==
    /\ app.at = "poll"
    /\ report_ready' \in {report_ready, FALSE}
    /\ app' = Goto(app, "wait_pop")
    /\ UNCHANGED <<request_id, working, requests, reports, request_ready, error,
                   stopped, gateway, output, subscriber, wire, exchange>>

\* Fault: a command without an answer is taken as done.
AppDeadline_Returns ==
    /\ app.at \in {"wait", "wait_pop", "poll"}
    /\ app' = Returned(app)
    /\ UNCHANGED <<request_id, working, requests, reports, flags, gateway, output,
                   subscriber, wire, exchange>>

\* The command deadline, or an error of drain_market.
AppDeadline ==
    /\ app.at \in {"wait", "wait_pop", "poll"}
    /\ app' = Thrown(app)
    /\ UNCHANGED <<request_id, working, requests, reports, flags, gateway, output,
                   subscriber, wire, exchange>>

AppClose ==
    /\ app.at = "close"
    /\ app' = IF app.cancel /\ working > 0 THEN [app EXCEPT !.at = "drain", !.action = "CancelAll"]
              ELSE Goto(app, "check")
    /\ UNCHANGED <<request_id, working, requests, reports, flags, gateway, output,
                   subscriber, wire, exchange>>

AppCheck ==
    /\ app.at = "check"
    /\ app' = IF error THEN Thrown(app) ELSE Goto(app, "stop")
    /\ UNCHANGED <<request_id, working, requests, reports, flags, gateway, output,
                   subscriber, wire, exchange>>

\* stop, of close or of the destructor, wakes both sides and joins the workers.
AppStop ==
    /\ app.at = "stop"
    /\ stopped' = TRUE /\ request_ready' = TRUE /\ report_ready' = TRUE
    /\ app' = Goto(app, "join")
    /\ UNCHANGED <<request_id, working, requests, reports, error, gateway, output,
                   subscriber, wire, exchange>>

\* The socket is closed; a session that ended well is followed by a recover.
AppJoin ==
    /\ app.at = "join" /\ gateway.at = "end" /\ subscriber = "end"
    /\ open' = FALSE
    /\ app' = IF app.mode = "closing" THEN Goto(app, "recover") ELSE Goto(app, "error")
    /\ UNCHANGED <<request_id, working, requests, reports, flags, gateway, output,
                   subscriber, up, down, exchange>>

AppRecover ==
    /\ app.at = "recover"
    /\ \E exit \in {"ok", "error"} : app' = Goto(app, exit)
    /\ UNCHANGED <<request_id, working, requests, reports, flags, gateway, output,
                   subscriber, wire, exchange>>

-----------------------------------------------------------------------------
(* The gateway thread *)

GatewayTop ==
    /\ gateway.at = "top"
    /\ gateway' = Goto(gateway, IF stopped THEN "end" ELSE "pop")
    /\ UNCHANGED <<appVars, requests, reports, flags, output, subscriber, wire, exchange>>

GatewayPop ==
    /\ gateway.at = "pop"
    /\ IF requests # <<>> /\ Len(output) < OutputCapacity
       THEN /\ requests' = Tail(requests) /\ output' = Append(output, Head(requests))
            /\ UNCHANGED gateway
       ELSE gateway' = Goto(gateway, "poll") /\ UNCHANGED <<requests, output>>
    /\ UNCHANGED <<appVars, reports, flags, subscriber, wire, exchange>>

\* poll returns what is ready, after 5 ms perhaps nothing, or is interrupted.
GatewayPoll ==
    /\ gateway.at = "poll"
    /\ \/ \E writable \in BOOLEAN :
            gateway' = [gateway EXCEPT !.at = "flush", !.wake = request_ready,
                           !.out = writable /\ output # <<>>, !.in = down # <<>> \/ ~open]
       \/ gateway' = Goto(gateway, "top")
    /\ UNCHANGED <<appVars, requests, reports, flags, output, subscriber, wire, exchange>>

\* A signal that poll saw is cleared, and flush sends as much as the socket takes.
GatewayFlush ==
    /\ gateway.at = "flush"
    /\ request_ready' = (request_ready /\ ~gateway.wake)
    /\ gateway' = [gateway EXCEPT !.at = "read", !.wake = FALSE, !.out = FALSE]
    /\ \E n \in 0..Len(output) :
         /\ n > 0 => gateway.out
         /\ output' = SubSeq(output, n + 1, Len(output))
         /\ up' = IF open THEN up \o SubSeq(output, 1, n) ELSE up
    /\ UNCHANGED <<appVars, requests, reports, report_ready, error, stopped, subscriber, down,
                   open, exchange>>

\* read_frame; the end of the stream is GatewayFails.  The loop's budget of 64
\* frames is left out: what is left over is read after the next poll.
GatewayRead ==
    /\ gateway.at = "read"
    /\ IF gateway.in /\ down # <<>>
       THEN gateway' = [gateway EXCEPT !.at = "push", !.held = <<Head(down)>>] /\ down' = Tail(down)
       ELSE /\ gateway.in => open
            /\ gateway' = [gateway EXCEPT !.at = "top", !.in = FALSE] /\ UNCHANGED down
    /\ UNCHANGED <<appVars, requests, reports, flags, output, subscriber, up, open, exchange>>

\* Fault: a report is queued without a signal.
GatewayPush_Silent ==
    /\ gateway.at = "push" /\ (Len(reports) < ReportCapacity \/ stopped)
    /\ reports' = IF Len(reports) < ReportCapacity THEN reports \o gateway.held ELSE reports
    /\ gateway' = [gateway EXCEPT !.at = "read", !.held = <<>>]
    /\ UNCHANGED <<appVars, requests, flags, output, subscriber, wire, exchange>>

\* Fault: only the application makes room.
GatewayPush_Waits ==
    /\ gateway.at = "push" /\ Len(reports) < ReportCapacity
    /\ reports' = reports \o gateway.held
    /\ gateway' = [gateway EXCEPT !.at = "signal", !.held = <<>>]
    /\ UNCHANGED <<appVars, requests, flags, output, subscriber, wire, exchange>>

\* push waits for room until the client stops.
GatewayPush ==
    /\ gateway.at = "push" /\ (Len(reports) < ReportCapacity \/ stopped)
    /\ IF Len(reports) < ReportCapacity
       THEN /\ reports' = reports \o gateway.held
            /\ gateway' = [gateway EXCEPT !.at = "signal", !.held = <<>>]
       ELSE gateway' = [gateway EXCEPT !.at = "top", !.in = FALSE, !.held = <<>>]
            /\ UNCHANGED reports
    /\ UNCHANGED <<appVars, requests, flags, output, subscriber, wire, exchange>>

GatewaySignal ==
    /\ gateway.at = "signal"
    /\ report_ready' = TRUE
    /\ gateway' = Goto(gateway, "read")
    /\ UNCHANGED <<appVars, requests, reports, request_ready, error, stopped, output, subscriber,
                   wire, exchange>>

\* A lost connection, or a frame that takes too long: fail, up to its unlock.
GatewayFails ==
    /\ \/ gateway.at \in {"flush", "read"} /\ ~open
       \/ gateway.at = "top" /\ (~open \/ output # <<>> \/ down # <<>>)
    /\ error' = TRUE
    /\ gateway' = [gateway EXCEPT !.at = "failing", !.wake = FALSE, !.in = FALSE, !.out = FALSE]
    /\ UNCHANGED <<appVars, requests, reports, request_ready, report_ready, stopped, output,
                   subscriber, wire, exchange>>

GatewayFailed ==
    /\ gateway.at = "failing"
    /\ stopped' = TRUE /\ request_ready' = TRUE /\ report_ready' = TRUE
    /\ gateway' = Goto(gateway, "end")
    /\ UNCHANGED <<appVars, requests, reports, error, output, subscriber, wire, exchange>>

-----------------------------------------------------------------------------
(* The subscriber thread and the exchange *)

SubscriberEnds ==
    /\ subscriber = "run" /\ stopped
    /\ subscriber' = "end"
    /\ UNCHANGED <<appVars, requests, reports, flags, gateway, output, wire, exchange>>

SubscriberFails ==
    /\ subscriber = "run"
    /\ subscriber' = "failing" /\ error' = TRUE
    /\ UNCHANGED <<appVars, requests, reports, request_ready, report_ready, stopped, gateway,
                   output, wire, exchange>>

SubscriberFailed ==
    /\ subscriber = "failing"
    /\ subscriber' = "end"
    /\ stopped' = TRUE /\ request_ready' = TRUE /\ report_ready' = TRUE
    /\ UNCHANGED <<appVars, requests, reports, error, gateway, output, wire, exchange>>

\* The exchange sends reports; the connection may be gone.
Answer(kinds, request, left) ==
    /\ orders' = left
    /\ down' = IF open THEN down \o [i \in DOMAIN kinds |-> [report |-> kinds[i], request_id |-> request]]
               ELSE down

\* A new order rests or not, CancelAll leaves none; a request that is not the
\* next one is rejected, which is complete too.
Serve ==
    /\ up # <<>>
    /\ LET m == Head(up) IN
       IF m.request_id # last_request + 1
       THEN Answer(<<"Complete">>, m.request_id, orders) /\ UNCHANGED last_request
       ELSE /\ \/ /\ m.action = "New"
                  /\ \/ Answer(<<"Accepted", "Complete">>, m.request_id, orders + 1)
                     \/ Answer(<<"Complete">>, m.request_id, orders)
               \/ /\ m.action = "CancelAll"
                  /\ Answer([i \in 1..orders |-> "Cancelled"] \o <<"Complete">>, m.request_id, 0)
            /\ last_request' = m.request_id
    /\ up' = Tail(up)
    /\ UNCHANGED <<appVars, requests, reports, flags, gateway, output, subscriber, open>>

\* Somebody trades with an order.
Trade ==
    /\ orders > 0
    /\ Answer(<<"Fill">>, 0, orders - 1)
    /\ UNCHANGED <<appVars, requests, reports, flags, gateway, output, subscriber, up, open,
                   last_request>>

\* The connection is lost, with the frames on the way or behind them.
Break ==
    /\ open
    /\ open' = FALSE
    /\ up' \in {up, <<>>} /\ down' \in {down, <<>>}
    /\ UNCHANGED <<appVars, requests, reports, flags, gateway, output, subscriber, exchange>>

-----------------------------------------------------------------------------

Init ==
    /\ app \in [at : {"idle"}, mode : {"run"}, action : {"poll"}, cancel : BOOLEAN]
    /\ request_id = 0 /\ working = 0
    /\ requests = <<>> /\ reports = <<>>
    /\ request_ready = FALSE /\ report_ready = FALSE /\ error = FALSE /\ stopped = FALSE
    /\ gateway = [at |-> "top", wake |-> FALSE, in |-> FALSE, out |-> FALSE, held |-> <<>>]
    /\ output = <<>> /\ subscriber = "run"
    /\ up = <<>> /\ down = <<>> /\ open = TRUE
    /\ orders = 0 /\ last_request = 0

\* The steps of a call; whether to make one is up to the application.
App ==
    \/ AppDrain \/ AppDrainPop \/ AppDrained \/ AppPush \/ AppSignal \/ AppWait \/ AppWaitPop
    \/ AppPoll \/ AppClose \/ AppCheck \/ AppStop \/ AppJoin \/ AppRecover

Gateway ==
    \/ GatewayTop \/ GatewayPop \/ GatewayPoll \/ GatewayFlush \/ GatewayRead
    \/ GatewayPush \/ GatewaySignal \/ GatewayFails \/ GatewayFailed

Next ==
    \/ \E action \in {"poll", "New", "CancelAll"} : AppCalls(action)
    \/ AppFinish \/ App \/ AppDeadline
    \/ Gateway
    \/ SubscriberEnds \/ SubscriberFails \/ SubscriberFailed
    \/ Serve \/ Trade \/ Break

\* Every thread gets on, and deadlines expire.  The exchange may never answer.
Fairness ==
    /\ WF_vars(App) /\ WF_vars(AppDeadline)
    /\ WF_vars(Gateway)
    /\ WF_vars(SubscriberEnds \/ SubscriberFailed)

Spec == Init /\ [][Next]_vars /\ Fairness

-----------------------------------------------------------------------------
(* Properties *)

\* Nobody sleeps over a message: while a thread is about to poll, or polls, and
\* its queue has something it can take, its eventfd is signalled or the thread that pushed
\* is on its way to do so ("No wakeup is lost", client.cpp:44).
NoWakeupIsLost ==
    /\ app.at = "poll" /\ reports # <<>> => report_ready \/ gateway.at = "signal"
    /\ gateway.at = "poll" /\ requests # <<>> /\ Len(output) < OutputCapacity => request_ready \/ app.at = "signal"

\* An application that exits without an error has left nothing at the exchange
\* ("Trading apps cancel remaining orders on normal exit [...]  Failed
\* cancellation reports an error", docs/trading_system.md:104-107).
CleanExit ==
    app.cancel /\ app.at = "ok" =>
        orders = 0 /\ requests \o output \o up = <<>>

\* Every submit, close and destructor returns or throws, whatever the exchange,
\* the connection and the other threads do: the workers can always be joined.
CallsReturn == []<>(app.at \in {"idle", "ok", "error"})

=============================================================================
