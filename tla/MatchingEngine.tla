--------------------------- MODULE MatchingEngine ---------------------------
(***************************************************************************)
(* trading::MatchingEngine: validates a command, matches it against the    *)
(* book of its instrument by price and time, and returns a batch of        *)
(* reports for the clients and of updates for the market.                  *)
(*                                                                         *)
(* process runs to completion on the engine's thread, so it is a function  *)
(* from the engine and a command to the engine.  Its members are a record  *)
(* that also holds the Batch of the last call; thrown tells that one of    *)
(* the require() calls threw.  The counters of EngineStats, and the        *)
(* members of Position other than quantity and cash, are left out.         *)
(***************************************************************************)
EXTENDS MarketReplica

CONSTANTS
    Clients,        \* the client ids, without 0
    Rules,          \* instruments_: instrument id -> InstrumentRules
    Epoch,          \* epoch_
    Commands,       \* the commands clients send; request ids, and the order ids of
                    \* new orders, count from the last ones the client used
    HeapOutcomes,   \* {TRUE}, or BOOLEAN if a book may also run out of heap
    MaxCalls        \* bound on the calls of process

ASSUME EngineAssumption ==
    /\ Clients \subseteq Nat \ {0}
    /\ Epoch \in Nat \ {0}
    /\ \A i \in DOMAIN Rules :
          /\ i # 0
          /\ \A f \in DOMAIN Rules[i] : Rules[i][f] \in Nat \ {0}
          /\ Rules[i].max_price >= Rules[i].min_price
          /\ Rules[i].max_price <= MaxPrice

VARIABLES
    engine,     \* the members of the engine, and the last batch
    command,    \* the last command processed (history)
    answers,    \* what each client was answered to its last accepted command (history)
    calls       \* the number of calls so far

vars == <<engine, command, answers, calls>>

Instruments == DOMAIN Rules

NewEngine ==
    [books             |-> [i \in Instruments |-> EmptyBook],
     resting           |-> <<>>,
     by_client         |-> <<>>,
     clients           |-> [c \in Clients |-> [last_request |-> 0, max_order_id |-> 0,
                                               last_command |-> EmptyMessage, cached |-> <<>>]],
     positions         |-> <<>>,
     sequence          |-> 0,
     response_sequence |-> 0,
     next_order        |-> 1,
     next_trade        |-> 1,
     reports           |-> <<>>,
     updates           |-> <<>>,
     thrown            |-> FALSE]

-----------------------------------------------------------------------------
(* Reports, updates and positions *)

report(x, m, type, reason) ==
    [x EXCEPT !.response_sequence = @ + 1,
              !.reports = Append(@, [m EXCEPT !.kind = "Report", !.report = type, !.reject = reason,
                                              !.epoch = Epoch,
                                              !.sequence = x.response_sequence + 1])]

update(x, m, type) ==
    [x EXCEPT !.sequence = @ + 1,
              !.updates = Append(@, [m EXCEPT !.kind = "Delta", !.update = type, !.epoch = Epoch,
                                              !.sequence = x.sequence + 1, !.client_id = 0,
                                              !.request_id = 0, !.order_id = 0])]

reject(x, c, reason) == report(x, c, "Rejected", reason)

\* require(book.apply(...) == Ok)
Require(x, instrument, outcome) ==
    [x EXCEPT !.books[instrument] = outcome.book, !.thrown = @ \/ outcome.result # "Ok"]

Position(x, client, instrument) ==
    IF <<client, instrument>> \in DOMAIN x.positions
    THEN x.positions[<<client, instrument>>]
    ELSE [quantity |-> 0, cash |-> 0]

\* positions_.at({client, instrument}).fill(side, price, size)
Fill(x, client, instrument, side, price, size) ==
    LET signed_size == IF side = "Bid" THEN size ELSE -size
    IN  [x EXCEPT !.positions[<<client, instrument>>].quantity = @ + signed_size,
                  !.positions[<<client, instrument>>].cash = @ - price * signed_size]

\* cancel(b, id, request)
cancel(x, id, request) ==
    LET m == [x.resting[id] EXCEPT !.request_id = request, !.remaining = 0]
        i == m.instrument_id
        removed == Require(x, i, Cancel(x.books[i], id))
        reported == report(update(removed, m, "Cancel"), m, "Cancelled", "None")
    IN  [reported EXCEPT !.by_client = Drop(@, <<m.client_id, m.order_id>>),
                         !.resting = Drop(@, id)]

-----------------------------------------------------------------------------
(* submit: the checks *)

crosses(c, price) ==
    \/ c.order_type = "Market"
    \/ IF c.side = "Bid" THEN c.price >= price ELSE c.price <= price

WellFormed(c, old_id) ==
    /\ c.side \in Sides /\ c.order_id # 0
    /\ c.order_type \in {"Limit", "Market"} /\ c.tif \in {"GTC", "IOC", "FOK"}
    /\ c.order_type = "Market" => c.price = 0 /\ c.tif # "GTC" /\ ~c.post_only
    /\ c.post_only => c.tif = "GTC"
    /\ old_id # 0 => c.order_type = "Limit" /\ c.tif = "GTC"

\* The other orders of the client.
OpenOrders(x, c, old_id) ==
    {id \in DOMAIN x.resting \ {old_id} : x.resting[id].client_id = c.client_id}

Reserved(x, c, old_id) ==
    MapThenSumSet(LAMBDA id : x.resting[id].quantity,
        {id \in OpenOrders(x, c, old_id) :
            /\ x.resting[id].instrument_id = c.instrument_id
            /\ x.resting[id].side = c.side})

\* Fault: the orders the client already has on the book are not counted.
Worst_Unreserved(x, c, old_id) ==
    Position(x, c.client_id, c.instrument_id).quantity
        + (IF c.side = "Bid" THEN 1 ELSE -1) * c.quantity

\* The position if all the orders of the client on this side were filled.
Worst(x, c, old_id) ==
    Position(x, c.client_id, c.instrument_id).quantity
        + (IF c.side = "Bid" THEN 1 ELSE -1) * (Reserved(x, c, old_id) + c.quantity)

\* Why a command is refused before the book is looked at.
Refusal(x, c, old_id) ==
    IF c.instrument_id \notin Instruments THEN "UnknownInstrument"
    ELSE LET r == Rules[c.instrument_id] IN
         IF ~WellFormed(c, old_id) THEN "InvalidCommand"
         ELSE IF c.quantity = 0 \/ c.quantity % r.lot_size # 0 THEN "InvalidQuantity"
         ELSE IF /\ c.order_type = "Limit"
                 /\ c.price < r.min_price \/ c.price > r.max_price \/ c.price % r.tick_size # 0
              THEN "InvalidPrice"
         ELSE IF c.quantity > r.max_order_quantity THEN "RiskQuantity"
         ELSE IF (IF c.order_type = "Market" THEN r.max_price ELSE c.price) * c.quantity
                    > r.max_notional
              THEN "RiskNotional"
         ELSE IF old_id = 0 /\ c.order_id <= x.clients[c.client_id].max_order_id
              THEN "DuplicateOrder"
         ELSE IF Cardinality(OpenOrders(x, c, old_id)) >= r.max_open_orders THEN "RiskOpenOrders"
         ELSE IF ~(Worst(x, c, old_id) \in (-r.max_position)..r.max_position) THEN "RiskPosition"
         ELSE IF old_id # 0 /\ (\/ x.resting[old_id].instrument_id # c.instrument_id
                                \/ x.resting[old_id].side # c.side)
              THEN "InvalidCommand"
         ELSE "None"

-----------------------------------------------------------------------------
(* submit: the plan *)

\* Fault: an order of the client itself is passed over.
Visit_SkipsOwn(x, c, plan, order) ==
    IF plan.stop \/ plan.leaves = 0 \/ ~crosses(c, order.price) THEN [plan EXCEPT !.stop = TRUE]
    ELSE IF x.resting[order.order_id].client_id = c.client_id THEN plan
    ELSE LET size == Min({plan.leaves, order.quantity})
         IN  [plan EXCEPT !.leaves = @ - size,
                          !.fills = Append(@, [id |-> order.order_id, price |-> order.price,
                                               size |-> size])]

\* The visitor of for_each_order.
Visit(x, c, plan, order) ==
    IF plan.stop \/ plan.leaves = 0 \/ ~crosses(c, order.price) THEN [plan EXCEPT !.stop = TRUE]
    ELSE IF c.post_only THEN [plan EXCEPT !.stop = TRUE, !.rejection = "PostOnly"]
    ELSE IF x.resting[order.order_id].client_id = c.client_id
         THEN [plan EXCEPT !.stop = TRUE, !.rejection = "SelfTrade"]
    ELSE LET size == Min({plan.leaves, order.quantity})
         IN  [plan EXCEPT !.leaves = @ - size,
                          !.fills = Append(@, [id |-> order.order_id, price |-> order.price,
                                               size |-> size])]

\* Which resting orders the command trades with, before anything is changed.
Plan(x, c) ==
    FoldLeft(LAMBDA plan, order : Visit(x, c, plan, order),
             [leaves |-> c.quantity, fills |-> <<>>, rejection |-> "None", stop |-> FALSE],
             ByPriority(x.books[c.instrument_id], Opposite(c.side)))

-----------------------------------------------------------------------------
(* submit: the changes *)

\* A replace that only makes the order smaller keeps its place.
Reduce(x, c, old_id) ==
    LET m == [c EXCEPT !.exchange_id = old_id, !.remaining = c.quantity]
        i == c.instrument_id
        reduction == x.resting[old_id].quantity - c.quantity
        reduced == IF reduction = 0 THEN x
                   ELSE update(Require(x, i, Execute(x.books[i], old_id, reduction)), m, "Reduce")
    IN  report([reduced EXCEPT !.resting[old_id].quantity = c.quantity], m, "Replaced", "None")

\* The remainder is entered in the tables, and taken out again if the book has
\* no room for it.
Register(x, c, old_id, m) ==
    [x EXCEPT !.resting = Put(@, m.exchange_id, m),
              !.by_client = IF old_id = 0
                            THEN Put(@, <<c.client_id, c.order_id>>, m.exchange_id) ELSE @]

\* Fault: the table of owners keeps the order.
Unregister_KeepsOwner(x, c, old_id, m) ==
    [x EXCEPT !.by_client = IF old_id = 0 THEN Drop(@, <<c.client_id, c.order_id>>) ELSE @]

Unregister(x, c, old_id, m) ==
    [x EXCEPT !.resting = Drop(@, m.exchange_id),
              !.by_client = IF old_id = 0 THEN Drop(@, <<c.client_id, c.order_id>>) ELSE @]

\* Fault: the market is not told that the replaced order is gone.
Supersede_Silent(x, c, old_id, new_id, rests) ==
    LET i == c.instrument_id
        key == <<c.client_id, c.order_id>>
    IN  [Require(x, i, Cancel(x.books[i], old_id))
            EXCEPT !.resting = Drop(@, old_id),
                   !.by_client = IF rests THEN Put(@, key, new_id) ELSE Drop(@, key)]

\* The replaced order goes.
Supersede(x, c, old_id, new_id, rests) ==
    LET i == c.instrument_id
        removed == Require(x, i, Cancel(x.books[i], old_id))
        key == <<c.client_id, c.order_id>>
    IN  [update(removed, x.resting[old_id], "Cancel")
            EXCEPT !.resting = Drop(@, old_id),
                   !.by_client = IF rests THEN Put(@, key, new_id) ELSE Drop(@, key)]

\* Fault: a filled maker keeps its entry in the table of resting orders.
Retire_Forgets(x, maker, id) == x

\* The maker is gone when nothing is left of it.
Retire(x, maker, id) ==
    IF maker.quantity # 0 THEN x
    ELSE [x EXCEPT !.by_client = Drop(@, <<maker.client_id, maker.order_id>>),
                   !.resting = Drop(@, id)]

\* One planned fill; acc is [x, leaves].
Trade(acc, incoming, fill) ==
    LET x == acc.x
        i == incoming.instrument_id
        leaves == acc.leaves - fill.size
        maker == [x.resting[fill.id] EXCEPT !.quantity = @ - fill.size]
        executed == Require([x EXCEPT !.resting[fill.id] = maker], i,
                            Execute(x.books[i], fill.id, fill.size))
        execution == [maker EXCEPT !.quantity = fill.size, !.remaining = maker.quantity,
                                   !.trade_id = x.next_trade]
        taker == [incoming EXCEPT !.price = fill.price, !.quantity = fill.size,
                                  !.remaining = leaves, !.trade_id = x.next_trade]
        made == update(report(executed, execution, "Fill", "None"), execution, "Execute")
        taken == update(report(made, taker, "Fill", "None"), taker, "Trade")
        paid == Fill(Fill(taken, maker.client_id, i, maker.side, fill.price, fill.size),
                     incoming.client_id, i, incoming.side, fill.price, fill.size)
    IN  [x |-> Retire([paid EXCEPT !.next_trade = @ + 1], maker, fill.id), leaves |-> leaves]

\* What follows once the order has its place: the replaced order goes, the
\* planned trades are made, the remainder is announced or cancelled.
Commit(x, c, old_id, plan, incoming, remainder, rests) ==
    LET superseded == IF old_id = 0 THEN x
                      ELSE Supersede(x, c, old_id, incoming.exchange_id, rests)
        accepted == report([superseded EXCEPT !.clients[c.client_id].max_order_id =
                                Max({@, c.order_id})],
                           incoming, IF old_id = 0 THEN "Accepted" ELSE "Replaced", "None")
        traded == FoldLeft(LAMBDA acc, fill : Trade(acc, incoming, fill),
                           [x |-> accepted, leaves |-> c.quantity], plan.fills).x
    IN  IF rests THEN update(traded, remainder, "Add")
        ELSE IF plan.leaves # 0
             THEN report(traded, [remainder EXCEPT !.remaining = 0], "Cancelled", "None")
        ELSE traded

Match(x, c, old_id, plan, heap) ==
    LET i == c.instrument_id
        rests == plan.leaves # 0 /\ c.tif = "GTC" /\ c.order_type = "Limit"
        incoming == [c EXCEPT !.exchange_id = x.next_order, !.remaining = c.quantity]
        remainder == [incoming EXCEPT !.quantity = plan.leaves, !.remaining = plan.leaves]
        opened == [x EXCEPT !.positions = Put(@, <<c.client_id, i>>, Position(x, c.client_id, i))]
        registered == IF rests THEN Register(opened, c, old_id, remainder) ELSE opened
        added == Add(x.books[i], AsAddOrder(remainder), heap /\ HasRoom(x.books[i]))
        placed == IF rests THEN [registered EXCEPT !.books[i] = added.book] ELSE registered
    IN  IF rests /\ added.result # "Ok"
        THEN reject(Unregister(registered, c, old_id, remainder), c, "Capacity")
        ELSE Commit([placed EXCEPT !.next_order = @ + 1], c, old_id, plan,
                    incoming, remainder, rests)

\* submit(b, c, old_id); old_id is 0 for a new order.
submit(x, c, old_id, heap) ==
    IF Refusal(x, c, old_id) # "None" THEN reject(x, c, Refusal(x, c, old_id))
    ELSE IF /\ old_id # 0
            /\ x.resting[old_id].price = c.price
            /\ c.quantity <= x.resting[old_id].quantity
         THEN Reduce(x, c, old_id)
    ELSE LET plan == Plan(x, c) IN
         IF plan.rejection # "None" THEN reject(x, c, plan.rejection)
         ELSE IF c.tif = "FOK" /\ plan.leaves # 0 THEN reject(x, c, "Fok")
         ELSE Match(x, c, old_id, plan, heap)

-----------------------------------------------------------------------------
(* process *)

\* The orders CancelAll takes, oldest first; instrument 0 stands for all.
CancelAllIds(x, c) ==
    SetToSortSeq({id \in DOMAIN x.resting :
                     /\ x.resting[id].client_id = c.client_id
                     /\ c.instrument_id \in {0, x.resting[id].instrument_id}}, <)

\* The action of an accepted request.
Perform(x, c, heap) ==
    LET key == <<c.client_id, c.order_id>>
        known == key \in DOMAIN x.by_client
                 /\ x.resting[x.by_client[key]].instrument_id = c.instrument_id
    IN  CASE c.action = "New" -> submit(x, c, 0, heap)
          [] c.action \in {"Cancel", "Replace"} /\ ~known -> reject(x, c, "UnknownOrder")
          [] c.action = "Cancel" /\ known -> cancel(x, x.by_client[key], c.request_id)
          [] c.action = "Replace" /\ known -> submit(x, c, x.by_client[key], heap)
          [] c.action = "CancelAll" ->
                FoldLeft(LAMBDA y, id : cancel(y, id, c.request_id), x, CancelAllIds(x, c))
          [] OTHER -> reject(x, c, "InvalidCommand")

\* The Complete report carries what is left of the order the command named.
Complete(x, c) ==
    LET key == <<c.client_id, c.order_id>> IN
    report(x, IF key \in DOMAIN x.by_client
              THEN [c EXCEPT !.remaining = x.resting[x.by_client[key]].quantity,
                             !.exchange_id = x.by_client[key]]
              ELSE c,
           "Complete", "None")

OwnReports(reports, client) == SelectSeq(reports, LAMBDA m : m.client_id = client)

\* Fault: an answered request is not recognised.
IsRetry_Never(state, c) == FALSE

\* The last request of the client, sent again.
IsRetry(state, c) == c.request_id = state.last_request /\ c = state.last_command

process(e, c, heap) ==
    LET x == [e EXCEPT !.reports = <<>>, !.updates = <<>>]
        state == x.clients[c.client_id]
        done == Complete(Perform(x, c, heap), c)
    IN  IF c.kind # "Command" \/ c.action = "Snapshot" THEN reject(x, c, "InvalidCommand")
        ELSE IF c.action = "Status"
             THEN report(x, [c EXCEPT !.request_id = state.last_request], "Status", "None")
        ELSE IF c.client_id = 0 \/ c.request_id = 0
             THEN report(reject(x, c, "InvalidCommand"), c, "Complete", "None")
        ELSE IF IsRetry(state, c)
             THEN [x EXCEPT !.reports = state.cached]
        ELSE IF c.request_id # state.last_request + 1
             THEN report(reject(x, c, "Sequence"), c, "Complete", "None")
        ELSE [done EXCEPT !.clients[c.client_id].last_request = c.request_id,
                          !.clients[c.client_id].last_command = c,
                          !.clients[c.client_id].cached = OwnReports(done.reports, c.client_id)]

-----------------------------------------------------------------------------
(* The engine and its clients *)

Init ==
    /\ engine = NewEngine
    /\ command = EmptyMessage
    /\ answers = [client \in Clients |-> [command |-> EmptyMessage, reports |-> <<>>]]
    /\ calls = 0

\* A command as the client sends it.
Numbered(cmd) ==
    LET state == engine.clients[cmd.client_id]
    IN  [cmd EXCEPT !.request_id = state.last_request + @,
                    !.order_id = IF cmd.action = "New" THEN state.max_order_id + @ ELSE @]

Process(c, heap) ==
    /\ calls < MaxCalls
    /\ engine' = process(engine, c, heap)
    /\ command' = c
    /\ calls' = calls + 1
    /\ answers' =
          IF engine'.clients[c.client_id].last_request = engine.clients[c.client_id].last_request
          THEN answers
          ELSE [answers EXCEPT ![c.client_id] =
                   [command |-> c, reports |-> OwnReports(engine'.reports, c.client_id)]]

Next ==
    \E cmd \in Commands, heap \in HeapOutcomes : Process(Numbered(cmd), heap)

Spec == Init /\ [][Next]_vars

-----------------------------------------------------------------------------
(* Properties *)

OpenQuantity(client, instrument, side) ==
    MapThenSumSet(LAMBDA id : engine.resting[id].quantity,
        {id \in DOMAIN engine.resting :
            /\ engine.resting[id].client_id = client
            /\ engine.resting[id].instrument_id = instrument
            /\ engine.resting[id].side = side})

Owned(i, o) ==
    /\ o.order_id \in DOMAIN engine.resting
    /\ LET m == engine.resting[o.order_id] IN
       /\ m.instrument_id = i /\ m.side = o.side /\ m.price = o.price /\ m.quantity = o.quantity
       /\ <<m.client_id, m.order_id>> \in DOMAIN engine.by_client
       /\ engine.by_client[<<m.client_id, m.order_id>>] = o.order_id
       /\ <<m.client_id, i>> \in DOMAIN engine.positions

\* validate_invariants, plus that no require() ever threw and that the owner
\* of every resting order has a position to book its fills on.
validate_invariants ==
    /\ ~engine.thrown
    /\ \A i \in Instruments :
          /\ ~Crossed(engine.books[i])
          /\ \A o \in ToSet(snapshot(engine.books[i])) : Owned(i, o)
    /\ LET count == MapThenSumSet(LAMBDA i : order_count(engine.books[i]), Instruments)
       IN  count = Cardinality(DOMAIN engine.resting) /\ count = Cardinality(DOMAIN engine.by_client)
    /\ \A i \in Instruments :
          LET keys == {k \in DOMAIN engine.positions : k[2] = i}
          IN  /\ MapThenSumSet(LAMBDA k : engine.positions[k].quantity, keys) = 0
              /\ MapThenSumSet(LAMBDA k : engine.positions[k].cash, keys) = 0

\* Between two commands the books are uncrossed and agree with the tables of
\* owners, and positions and cash are conserved: what validate_invariants
\* checks in tests holds after every sequence of commands.
EngineIsConsistent == validate_invariants

\* However orders are filled, no client can exceed its position limit: even if
\* all its orders on one side were filled.  submit checks this only for the
\* order it accepts, fills of other orders come later.
PositionsStayWithinLimits ==
    \A client \in Clients, i \in Instruments :
        LET quantity == Position(engine, client, i).quantity IN
        /\ quantity + OpenQuantity(client, i, "Bid") <= Rules[i].max_position
        /\ quantity - OpenQuantity(client, i, "Ask") >= -Rules[i].max_position

Reported(type) == {m \in ToSet(engine'.reports) : m.report = type}

\* Price-time priority: when a resting order trades, every order that was ahead
\* of it is gone, and it trades at its own price, within the command's limit.
BestOrdersTradeFirst ==
    [][command'.instrument_id \in Instruments /\ command'.side \in Sides =>
        LET queue == ByPriority(engine.books[command'.instrument_id], Opposite(command'.side))
        IN  \A k \in DOMAIN queue : \A m \in Reported("Fill") :
              m.exchange_id = queue[k].order_id =>
                  /\ m.price = queue[k].price /\ crosses(command', m.price)
                  /\ \A j \in 1..(k - 1) :
                        queue[j].order_id \notin Ids(engine'.books[command'.instrument_id])]_vars

\* The quantity of an accepted order is filled, rests or is cancelled, to the
\* last lot, as its time in force says: nothing of an IOC or a market order
\* rests, a FOK order is filled entirely, a post-only order does not trade.
OrderTermsAreHonoured ==
    [][engine'.next_order # engine.next_order =>
        LET i == command'.instrument_id
            mine(type) == {m \in Reported(type) : m.exchange_id = engine.next_order}
            Total(ms) == MapThenSumSet(LAMBDA m : m.quantity, ms)
            filled == Total(mine("Fill"))
            rests == IF engine.next_order \in Ids(engine'.books[i])
                     THEN Order(engine'.books[i], engine.next_order).quantity ELSE 0
        IN  /\ filled + rests + Total(mine("Cancelled")) = command'.quantity
            /\ command'.tif # "GTC" => rests = 0
            /\ command'.tif = "FOK" => filled = command'.quantity
            /\ command'.post_only => filled = 0
            /\ rests # 0 => mine("Cancelled") = {}
            /\ Total({m \in Reported("Fill") : m.exchange_id # engine.next_order}) = filled]_vars

\* "All predictable validation and resource rejection precedes mutation"
\* (engine.hpp): a rejected command leaves books, orders and positions alone
\* and says nothing to the market.
RejectionChangesNothing ==
    [][Reported("Rejected") # {} =>
        /\ engine'.updates = <<>>
        /\ engine'.books = engine.books
        /\ engine'.resting = engine.resting
        /\ engine'.by_client = engine.by_client
        /\ \A client \in Clients, i \in Instruments :
              Position(engine', client, i) = Position(engine, client, i)]_vars

AsReplica(e) ==
    [synchronized |-> TRUE, epoch |-> Epoch, sequence |-> e.sequence, books |-> e.books]

\* A subscriber that applies the updates of a batch in their order ends with
\* the engine's books, queue by queue, although the engine makes its changes
\* in another order than it reports them.
UpdatesRebuildTheBooks ==
    [][FoldLeft(consume, AsReplica(engine), engine'.updates) = AsReplica(engine')]_vars

\* A client that sends its last command again gets the same answer, and the
\* command is not performed a second time, whatever happened in between.
RetriesAreNotPerformed ==
    [][command'.client_id \in Clients /\ command' = answers[command'.client_id].command =>
        engine' = [engine EXCEPT !.reports = answers[command'.client_id].reports,
                                 !.updates = <<>>]]_vars

=============================================================================
