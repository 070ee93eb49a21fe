--------------------------- MODULE TradingSession ---------------------------
(***************************************************************************)
(* Trading clients and the engine: TradingClient::submit sends a command   *)
(* that its OrderManager has checked and waits for the Complete report;    *)
(* reports about resting orders arrive at any time.  A client's view of    *)
(* its orders and positions is late by the reports on their way to it.     *)
(***************************************************************************)
EXTENDS MatchingEngine

VARIABLES
    managers,   \* the OrderManager of each client
    sent,       \* the command of each client that is on its way to the engine
    awaited,    \* the request whose Complete report a client waits for, or 0
    inbox       \* the reports on their way to each client

sessionVars == <<vars, managers, sent, awaited, inbox>>

Nothing == EmptyMessage

NewManager == [last_report |-> 0, orders |-> <<>>, positions |-> [i \in Instruments |-> 0]]

\* What remains of an order is m.remaining; nothing remains of one at 0.
Remains(orders, m) ==
    IF m.order_id \notin DOMAIN orders THEN orders
    ELSE IF m.remaining = 0 THEN Drop(orders, m.order_id)
    ELSE [orders EXCEPT ![m.order_id].quantity = m.remaining]

\* Fault: fills are booked whether or not they have been seen.
OrderManager_consume_Twice(x, m) ==
    LET y == [x EXCEPT !.last_report = m.sequence]
    IN  CASE m.report \in {"Accepted", "Replaced"} ->
               [y EXCEPT !.orders = Put(@, m.order_id, [m EXCEPT !.quantity = m.remaining])]
          [] m.report = "Fill" ->
               [y EXCEPT !.positions[m.instrument_id] =
                           IF m.side = "Bid" THEN @ + m.quantity ELSE @ - m.quantity,
                         !.orders = Remains(@, m)]
          [] m.report = "Cancelled" -> [y EXCEPT !.orders = Drop(@, m.order_id)]
          [] OTHER -> y

\* OrderManager::consume
OrderManager_consume(x, m) ==
    LET y == [x EXCEPT !.last_report = m.sequence]
    IN  IF m.report = "Status" \/ m.sequence <= x.last_report THEN x
        ELSE CASE m.report \in {"Accepted", "Replaced"} ->
                    [y EXCEPT !.orders = Put(@, m.order_id, [m EXCEPT !.quantity = m.remaining])]
               [] m.report = "Fill" ->
                    [y EXCEPT !.positions[m.instrument_id] =
                                IF m.side = "Bid" THEN @ + m.quantity ELSE @ - m.quantity,
                              !.orders = Remains(@, m)]
               [] m.report = "Cancelled" -> [y EXCEPT !.orders = Drop(@, m.order_id)]
               [] m.report = "Complete" /\ m.reject = "None" /\ m.order_id # 0 ->
                    [y EXCEPT !.orders = Remains(@, m)]
               [] OTHER -> y

\* The other orders of the manager, and what they may add to the position.
Others(x, c) == DOMAIN x.orders \ (IF c.action = "Replace" THEN {c.order_id} ELSE {})

\* Fault: the quantity of open orders is not counted.
LocalReserved_None(x, c) == 0

LocalReserved(x, c) ==
    MapThenSumSet(LAMBDA id : x.orders[id].quantity,
        {id \in Others(x, c) : x.orders[id].instrument_id = c.instrument_id /\ x.orders[id].side = c.side})

Magnitude(n) == IF n < 0 THEN -n ELSE n

\* OrderManager::check, for limits that are the engine's rules.  That the
\* market is not synchronized or the loss too large keeps a client from
\* sending, which it may always do.
check(x, c) ==
    LET limits == Rules[c.instrument_id]
        risk_price == IF c.order_type = "Market" THEN limits.max_price ELSE c.price
        exposure == LocalReserved(x, c) + c.quantity
        position == x.positions[c.instrument_id]
    IN  c.action \notin {"Cancel", "CancelAll"} =>
            /\ c.quantity \in 1..limits.max_order_quantity
            /\ risk_price * c.quantity <= limits.max_notional
            /\ Cardinality(Others(x, c)) < limits.max_open_orders
            /\ Magnitude(IF c.side = "Bid" THEN position + exposure ELSE position - exposure)
                   <= limits.max_position

-----------------------------------------------------------------------------

Idle(client) == awaited[client] = 0

\* submit: the client has looked at some of its reports, or all.
Submit(cmd) ==
    LET c == Numbered(cmd) IN
    /\ Idle(c.client_id)
    /\ check(managers[c.client_id], c)
    /\ sent' = [sent EXCEPT ![c.client_id] = c]
    /\ awaited' = [awaited EXCEPT ![c.client_id] = c.request_id]
    /\ UNCHANGED <<vars, managers, inbox>>

\* A gateway sends its last command again.
Resend(client) ==
    /\ Idle(client)
    /\ answers[client].command # EmptyMessage
    /\ sent' = [sent EXCEPT ![client] = answers[client].command]
    /\ awaited' = [awaited EXCEPT ![client] = answers[client].command.request_id]
    /\ UNCHANGED <<vars, managers, inbox>>

\* The engine thread takes the command and queues the reports.
Take(client) ==
    /\ sent[client] # Nothing
    /\ \E heap \in HeapOutcomes : Process(sent[client], heap)
    /\ sent' = [sent EXCEPT ![client] = Nothing]
    /\ inbox' = [k \in Clients |-> inbox[k] \o OwnReports(engine'.reports, k)]
    /\ UNCHANGED <<managers, awaited>>

\* receive_report
Receive(client) ==
    /\ inbox[client] # <<>>
    /\ LET m == Head(inbox[client]) IN
       /\ managers' = [managers EXCEPT ![client] = OrderManager_consume(@, m)]
       /\ awaited' = IF m.report = "Complete" /\ m.request_id = awaited[client]
                     THEN [awaited EXCEPT ![client] = 0] ELSE awaited
    /\ inbox' = [inbox EXCEPT ![client] = Tail(@)]
    /\ UNCHANGED <<vars, sent>>

SessionInit ==
    /\ Init
    /\ managers = [k \in Clients |-> NewManager]
    /\ sent = [k \in Clients |-> Nothing]
    /\ awaited = [k \in Clients |-> 0]
    /\ inbox = [k \in Clients |-> <<>>]

SessionNext ==
    \/ \E cmd \in Commands : Submit(cmd)
    \/ \E client \in Clients : Resend(client) \/ Take(client) \/ Receive(client)

SessionSpec == SessionInit /\ [][SessionNext]_sessionVars

-----------------------------------------------------------------------------
(* Properties *)

\* An order as both sides keep it.
Terms(m) == [instrument |-> m.instrument_id, side |-> m.side, price |-> m.price,
             quantity |-> m.quantity, id |-> m.exchange_id]

\* A client that has consumed the reports sent to it knows exactly its resting
\* orders, with the quantities, prices and exchange ids they have in the
\* engine, and its position, however fills, cancels, replaces, rejections and
\* repeated answers were mixed (OrderManager::consume, MatchingEngine::report).
CaughtUpClientsAreRight ==
    \A client \in Clients : inbox[client] = <<>> =>
        LET mine == {id \in DOMAIN engine.resting : engine.resting[id].client_id = client} IN
        /\ {<<id, Terms(managers[client].orders[id])>> : id \in DOMAIN managers[client].orders}
             = {<<engine.resting[id].order_id, [Terms(engine.resting[id]) EXCEPT !.id = id]>> :
                   id \in mine}
        /\ \A i \in Instruments :
             managers[client].positions[i] = Position(engine, client, i).quantity

\* The local risk check suffices for new orders although the client's view is
\* late: the engine does not refuse for a limit what the client's own check
\* let pass, whatever fills happened between the check and the engine, since a
\* fill only moves quantity from an order to the position
\* (OrderManager::check, MatchingEngine::submit).  It does not for a replace,
\* whose quantity is what shall remain: fills meanwhile come on top.
LocalCheckSuffices ==
    \A m \in ToSet(engine.reports) :
        m.action = "New" =>
            m.reject \notin {"RiskQuantity", "RiskNotional", "RiskOpenOrders", "RiskPosition"}

=============================================================================
