----------------------------- MODULE MarketFeed -----------------------------
(***************************************************************************)
(* The public market data path: the engine thread queues the updates of a  *)
(* batch, the publisher thread sends them and heartbeats as datagrams, the *)
(* network loses, repeats and reorders those, and a client keeps a replica *)
(* from them, which it restores from a snapshot over TCP whenever it       *)
(* cannot follow (TradingClient::drain_market and recover).                *)
(***************************************************************************)
EXTENDS MarketReplica

CONSTANTS
    Instruments,    \* the instruments, without 0
    Terms,          \* the side, price and quantity an order may come with
    MaxUpdates,     \* bound on the updates of the engine
    MaxEpoch,       \* bound on the starts of the exchange
    UpdateQueue,    \* the size of the queue from the engine to the publisher
    MarketQueue,    \* the size of the client's queue of datagrams
    SuffixBudget,   \* the datagrams recover looks at after a snapshot
    Garbage         \* whether datagrams arrive that do not decode

ASSUME FeedAssumption ==
    /\ 0 \notin Instruments
    /\ Terms \subseteq [side : Sides, price : Prices, quantity : Nat \ {0}]
    /\ {UpdateQueue, MarketQueue, SuffixBudget} \subseteq Nat \ {0}
    /\ {MaxUpdates, MaxEpoch} \subseteq Nat
    /\ Garbage \in BOOLEAN

VARIABLES
    epoch,      \* the epoch of the running exchange
    history,    \* the engine's updates, each with the books it leads to
    published,  \* how many of them the publisher is done with
    wire,       \* the datagrams sent: any of them may arrive, at any time, any number of times
    market,     \* the client's queue of datagrams
    replica,    \* the client's MarketReplica
    client,     \* "following", "asking", "restoring", "checking" or "failed"
    snapshot_,  \* the rows of the snapshot under way
    budget,     \* the datagrams looked at since the snapshot
    expired     \* whether the deadline of recover is over

exchange == <<epoch, history, published>>
subscriber == <<market, replica, client, snapshot_, budget, expired>>
vars == <<exchange, wire, subscriber>>

BooksAt(n) == IF n = 0 THEN <<>> ELSE history[n].books

Last_sequence == Len(history)

-----------------------------------------------------------------------------
(* The exchange *)

Delta(type, i, id, side, price, quantity) ==
    [EmptyMessage EXCEPT !.kind = "Delta", !.update = type, !.epoch = epoch,
                         !.instrument_id = i, !.exchange_id = id, !.side = side,
                         !.price = price, !.quantity = quantity]

\* What one command can do to the market: an order comes, goes, gets smaller,
\* is replaced or trades.
Batches(books, next_order) ==
    LET New(i) == {Delta("Add", i, next_order, t.side, t.price, t.quantity) : t \in Terms}
        About(type, i, o, quantity) == Delta(type, i, o.order_id, o.side, o.price, quantity)
        Existing(i, o) ==
          LET gone == About("Cancel", i, o, o.quantity) IN
          {<<gone>>} \cup {<<gone, m>> : m \in {a \in New(i) : a.side = o.side}}
          \cup {<<About("Reduce", i, o, quantity)>> : quantity \in 1..(o.quantity - 1)}
          \cup {<<About("Execute", i, o, quantity), About("Trade", i, o, quantity)>> :
                    quantity \in 1..o.quantity}
    IN  {<<m>> : m \in {a \in UNION {New(i) : i \in Instruments} :
                          ~Crossed(ApplyDelta(books, a).book)}}
        \cup UNION {Existing(i, Order(books[i], id)) :
                      <<i, id>> \in {p \in (DOMAIN books) \X (1..next_order) : p[2] \in Ids(books[p[1]])}}

\* history with one more update
Extend(past, m) ==
    LET n == Len(past) + 1
        books == IF n = 1 THEN <<>> ELSE past[n - 1].books
        numbered == [m EXCEPT !.sequence = n]
    IN  Append(past, [delta |-> numbered,
                      books |-> IF m.update = "Trade" THEN books
                                ELSE Put(books, m.instrument_id, ApplyDelta(books, m).book)])

\* One command: its updates are queued for the publisher.
EngineBatch ==
    \E batch \in Batches(BooksAt(Last_sequence), Last_sequence + 1) :
        /\ Last_sequence + Len(batch) <= MaxUpdates
        /\ Last_sequence + Len(batch) - published <= UpdateQueue
        /\ history' = FoldLeft(Extend, history, batch)
        /\ UNCHANGED <<epoch, published, wire, subscriber>>

\* Fault: the heartbeat never tells how far the updates have come.
Heartbeat_Zero(e, sequence) == [EmptyMessage EXCEPT !.kind = "Heartbeat", !.epoch = e]

\* The heartbeat of epoch e carries the sequence of the last update sent.
Heartbeat(e, sequence) ==
    [EmptyMessage EXCEPT !.kind = "Heartbeat", !.epoch = e, !.sequence = sequence]

\* The publisher pops an update and sends it, and heartbeats until the next.
Publish ==
    /\ published < Last_sequence
    /\ published' = published + 1
    /\ wire' = wire \cup {history[published'].delta, Heartbeat(epoch, published')}
    /\ UNCHANGED <<epoch, history, subscriber>>

\* The exchange goes down and comes up with its books from the journal and a
\* new epoch; what the publisher had not sent is not sent again.
Restart ==
    /\ epoch < MaxEpoch
    /\ epoch' = epoch + 1
    /\ published' = Last_sequence
    /\ wire' = wire \cup {Heartbeat(epoch', published')}
    /\ UNCHANGED <<history, subscriber>>

-----------------------------------------------------------------------------
(* The client *)

\* epoch_: the client has opened its session with the first start.
Session == 1

Recovering == {"asking", "restoring", "checking"}

\* An exception leaves the client, and its threads are stopped.
Fail ==
    /\ client' = "failed"
    /\ market' = <<>> /\ snapshot_' = <<>>
    /\ budget' = 0 /\ expired' = FALSE
    /\ UNCHANGED <<exchange, wire>>

\* The subscriber thread takes a datagram from the network; it waits while the
\* queue is full.
Receive(m) ==
    /\ client # "failed"
    /\ Len(market) < MarketQueue
    /\ market' = Append(market, m)
    /\ UNCHANGED <<exchange, wire, replica, client, snapshot_, budget, expired>>

\* A datagram that does not decode is queued as a message of kind 0.
ReceiveGarbage ==
    /\ Garbage
    /\ Receive([EmptyMessage EXCEPT !.kind = ""])

\* recover: the replica is not to be used until a snapshot is restored.
Recover(r) ==
    /\ replica' = [r EXCEPT !.synchronized = FALSE]
    /\ client' = "asking"
    /\ expired' = FALSE
    /\ UNCHANGED <<snapshot_, budget>>

\* drain_market consumes the next datagram.
Drain ==
    /\ client = "following"
    /\ market # <<>>
    /\ market' = Tail(market)
    /\ LET r == consume(replica, Head(market)) IN
       \/ /\ r.synchronized
          /\ replica' = r
          /\ UNCHANGED <<client, snapshot_, budget, expired>>
       \/ /\ ~r.synchronized
          /\ Recover(r)
    /\ UNCHANGED <<exchange, wire>>

\* drain_market has seen no datagram for half a second.
Silence ==
    /\ client = "following"
    /\ Recover(replica)
    /\ UNCHANGED <<exchange, wire, market>>

\* Fault: the snapshot has the engine's books and the publisher's sequence.
TakeSnapshot_Published ==
    /\ client = "asking"
    /\ snapshot_' = SnapshotRows(BooksAt(Last_sequence), epoch, published)
    /\ client' = "restoring"
    /\ UNCHANGED <<exchange, wire, market, replica, budget, expired>>

\* The engine thread answers the query, between two commands.
TakeSnapshot ==
    /\ client = "asking"
    /\ snapshot_' = SnapshotRows(BooksAt(Last_sequence), epoch, Last_sequence)
    /\ client' = "restoring"
    /\ UNCHANGED <<exchange, wire, market, replica, budget, expired>>

\* The last row has arrived.  recover throws when it is of another epoch than
\* the session, or when restore does.
Restore ==
    /\ client = "restoring"
    /\ \/ /\ Last(snapshot_).epoch # Session
          /\ Fail
          /\ UNCHANGED replica
       \/ /\ Last(snapshot_).epoch = Session
          /\ \E r \in {restore(replica, snapshot_)} :
             /\ replica' = r
             /\ \/ /\ ~r.synchronized
                   /\ Fail
                \/ /\ r.synchronized
                   /\ client' = "checking"
                   /\ snapshot_' = <<>>
                   /\ UNCHANGED <<exchange, wire, market, budget, expired>>

\* The datagrams queued meanwhile are consumed, up to the budget.  A suffix
\* that does not follow on the snapshot, or does not end, takes another
\* snapshot, if there is time.
CheckSuffix ==
    /\ client = "checking"
    /\ LET verifying == budget < SuffixBudget
           done == verifying /\ market = <<>>
           rest == IF verifying /\ market # <<>> THEN Tail(market) ELSE market
           r == IF verifying /\ market # <<>> THEN consume(replica, Head(market)) ELSE replica
           valid == verifying /\ r.synchronized
       IN  /\ replica' = [r EXCEPT !.synchronized = valid]
           /\ \/ /\ ~valid /\ expired
                 /\ Fail
              \/ /\ valid \/ ~expired
                 /\ client' = IF done THEN "following" ELSE IF valid THEN client ELSE "asking"
                 /\ market' = rest
                 /\ budget' = IF valid /\ ~done THEN budget + 1 ELSE 0
                 /\ expired' = (expired /\ ~done)
                 /\ UNCHANGED <<exchange, wire, snapshot_>>

\* The three seconds of recover are over; they end it while it waits for rows.
Expire ==
    /\ client \in Recovering
    /\ ~expired
    /\ expired' = TRUE
    /\ UNCHANGED <<exchange, wire, market, replica, client, snapshot_, budget>>

GiveUp ==
    /\ client \in {"asking", "restoring"}
    /\ expired
    /\ Fail
    /\ UNCHANGED replica

\* The gateway thread finds the session's connection closed; check throws in
\* the strategy thread.
GatewayLost ==
    /\ epoch # Session
    /\ client # "failed"
    /\ Fail
    /\ UNCHANGED replica

-----------------------------------------------------------------------------

\* The constructor of the client ends with recover.
Init ==
    /\ epoch = Session
    /\ history = <<>>
    /\ published = 0
    /\ wire = {Heartbeat(epoch, published)}
    /\ market = <<>>
    /\ replica = NewReplica
    /\ client = "asking"
    /\ snapshot_ = <<>>
    /\ budget = 0
    /\ expired = FALSE

Next ==
    \/ EngineBatch
    \/ Publish
    \/ Restart
    \/ \E m \in wire : Receive(m)
    \/ ReceiveGarbage
    \/ Drain
    \/ Silence
    \/ TakeSnapshot
    \/ Restore
    \/ CheckSuffix
    \/ Expire
    \/ GiveUp
    \/ GatewayLost

\* The network does not lose every one of the heartbeats that say the same.
HeartbeatArrives == Receive(Heartbeat(epoch, published))

\* The strategy thread, with the engine thread for it, has something to do:
\* Drain, TakeSnapshot, Restore, CheckSuffix, GiveUp or GatewayLost can happen.
StrategyCanStep ==
    \/ client = "following" /\ market # <<>>
    \/ client \in Recovering
    \/ client # "failed" /\ epoch # Session

\* It has done something: each of those steps, and Silence, has this effect, and
\* no other step has.
StrategySteps == client' # client \/ budget' # budget \/ Len(market') < Len(market)

\* The threads are scheduled, and three seconds pass.
Fairness ==
    /\ WF_published(Publish)
    /\ SF_market(HeartbeatArrives)
    /\ []<>~StrategyCanStep \/ []<><<StrategySteps>>_vars
    /\ WF_expired(Expire)

Spec == Init /\ [][Next]_vars

FairSpec == Spec /\ Fairness

-----------------------------------------------------------------------------
(* Properties *)

\* A replica that is synchronized has, for every instrument, exactly the book
\* the engine had at the replica's sequence: the same orders at the same
\* prices in the same order of priority.  It holds whatever datagrams are
\* lost, repeated, reordered or garbled, across snapshots and the suffix
\* queued behind them, and it holds in the session's epoch only
\* (MarketReplica::consume, TradingClient::recover).
SynchronizedBookIsRight ==
    replica.synchronized =>
        /\ replica.epoch = Session
        /\ replica.sequence <= Last_sequence
        /\ \A i \in Instruments :
             BookOf(replica.books, i) = BookOf(BooksAt(replica.sequence), i)

\* The market a client trades on never goes back: a snapshot that recover
\* restores is at least as new as anything the client has seen before, since
\* the engine thread takes it and no update is sent before the engine made it.
NeverGoesBack ==
    [][replica'.sequence >= replica.sequence]_vars

\* Every update of the engine reaches a client, by datagram or by snapshot,
\* or the client has failed: a lost update, the last one included, is noticed
\* by the next one or by a heartbeat, so the client is again and again up to
\* date with a synchronized book.
EveryUpdateArrives ==
    []<>(client # "failed" => replica.synchronized /\ replica.sequence >= Last_sequence)

=============================================================================
