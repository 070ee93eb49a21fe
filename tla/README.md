# A TLA+ model of the limit order book and its exchange

The repository is a C++20 limit order book with everything around it that makes
an exchange: a matching engine, a multi-threaded TCP/UDP server, a trading
client that keeps its own copy of the market, a command journal, a logger, and
books rebuilt from exchange feeds. The modules here model those parts from the
source, TLC checks them on small instances, and TLAPS proves the safety
properties of six of them, the memory pool, the order book, the lock-free queue,
the server, the journal and the client's gateway, for every size.

`PROJECT.json` gives, for every definition, the lines of the source it models,
and lists the runs, the mutants, the hazards and the theorems.

    tlc -workers 2 -config Matching.cfg MCMatchingEngine
    tlapm LFQueueProofs.tla

## 1. The system

| Part | Source | State | What changes it |
|---|---|---|---|
| memory pool | `memory/fixed_slot_pool.hpp`, `allocator_adaptor.hpp` | free stack, in-use bits, slot size | `allocate`, `try_allocate`, `deallocate` |
| order book | `core/order_book.*` | price levels with node lists, index by id, pool | `apply` of add, cancel, execute, replace; `reset`; moves |
| lock-free queue | `core/lfqueue.hpp` | two atomic indices, ring | `try_push` and `try_pop`, one thread each |
| matching engine | `trading/engine.*` | books, resting orders, ids of clients, positions, retry cache, sequences | `process(command)` |
| market replica | `trading/replica.*` | books by exchange id, epoch, sequence, synchronized | `restore`, `consume`, `invalidate` |
| exchange server | `trading/server.cpp` | three queues, flags, connections, routes | the I/O, engine and publisher threads, a signal |
| command journal | `trading/journal.cpp` | a locked file, what of it is on disk | open and replay, `append` |
| trading client | `trading/client.cpp` | market queue, replica, request ids; request and report queues, eventfds, error and stop flags | subscriber and gateway threads, `drain_market`, `recover`, `submit`, `close` |
| order manager | `trading/strategy.cpp` | own orders and positions, last report | `consume`; `check` reads it |
| logger | `core/logger.*` | queue, stream, flags | `try_log`, the worker, `close` |
| registry, event files and demonstrations | `core/order_registry.hpp`, `io/*`, `net/*`, `tools/{udp,tcp}_event_*`, `tools/replay.cpp`, `tools/generate_events.cpp` | books and last sequence | a line of a file; the subscriber's, the client's and the server's loops |
| feed decoders and books | `feed/{itch,pitch,books}.cpp` | sessions, directories and units; books per venue, channel and symbol; routes of live orders | `decode(record)`, `consume(event)` |
| archive programs | `tools/replay_market_data.cpp`, `tools/extract_itch_sample.cpp` | decoder and books; the selected locate | a record, the end of the file, an error |

How they work together: the server's I/O thread pushes requests to the engine
thread, which journals a command, calls `process` and pushes reports back to the
I/O thread and updates to the publisher thread. All three queues are
`LFQueue`s. The publisher sends updates and heartbeats as datagrams. A client
follows them with a `MarketReplica` and asks for a snapshot over TCP when it
cannot; its `OrderManager` follows the reports. Every book is an `OrderBook`
whose nodes live in a `FixedSlotPool`.

What is hard here: two threads on one ring; three threads that stop each other
through full queues and flags; datagrams lost, repeated and reordered while a
snapshot is taken; retries of commands; allocation failures in the middle of an
update of several containers; crashes between write, sync and answer; and views
of the market and of one's own orders that are behind. `PROJECT.json` lists
these as hazards, at the lines where they bite.

## 2. The modules

Calls of a sequential object are operators from an object (a record) to an
object and a result, so that other modules can make several of them in one
step; state machines put arbitrary callers, threads, networks and failures
around them. Operators named `X_Something` and commented as *Fault* are wrong
variants of `X`, used only to show that a property notices them.

| Module | Models | Actions |
|---|---|---|
| `FixedSlotPool` | the pool, any client | `TryAllocate`, `Free` |
| `FixedSlotPoolProofs` | its theorems | |
| `BoundedFifo` | abstract: what a queue promises | `Push`, `Pop` |
| `LFQueue` | the ring, cut at its atomic accesses | `PushLoad`, `PushWrite`, `PushPublish`, `PopLoad`, `PopRead`, `PopPublish` |
| `LFQueueProofs` | its theorems | |
| `Lists` | a list without one element, the sum of a list | (operators) |
| `PriceTimeBook` | a book as queues of orders per side and price; the results of all calls | (operators) |
| `BookViews` | best prices, orders in priority, snapshot | (operators) |
| `LimitBook` | abstract: book objects under any calls | `Apply`, `Reset`, `Move` |
| `OrderBook` | the book as built: levels, lists, index, pool; a failure of each allocation | one per call, `Reset`, `Move` |
| `OrderBookRefinement` | what an object holds, as a book of `LimitBook` | |
| `OrderBookShape` | a book in terms of its parts: lists, nodes, index, pool; the inductive invariant; what each call answers | (operators) |
| `OrderBookRefinementProofs` | a call with these answers leaves a good book and does what `LimitBook` says; sums and levels | |
| `OrderBookProofs` | the steps of a call on the parts; add and cancel | |
| `OrderBookTheorems` | execute and replace; the theorems | |
| `TradingMessages`, `MarketReplica` | the message record; the replica on `PriceTimeBook` | (operators) |
| `MatchingEngine` | `process`, whole | `Process` |
| `TradingSession` | engine, clients with order managers, reports on the way | `Submit`, `Resend`, `Take`, `Receive` |
| `MarketFeed` | publisher, network, client's market side, restarts | `EngineBatch`, `Publish`, `Restart`, `Receive`, `ReceiveGarbage`, `Drain`, `Silence`, `TakeSnapshot`, `Restore`, `CheckSuffix`, `Expire`, `GiveUp`, `GatewayLost` |
| `ExchangeServer` | the three threads of `run_exchange` | `Engine*`, `Publisher*`, `IoTurn`, `IoRoute`, `IoRouted`, `IoLeave`, `IoPoll`, `Serve`, `IoFails`, `IoJoin`, `Stop` |
| `ExchangeServerProofs` | its theorems | |
| `ExchangeJournal` | servers on one journal file | `Start`, `Write`, `Sync`, `SyncDirectory`, `Take`, `Process`, `AppendFails`, `Stop`, `Kill`, `PowerLoss` |
| `ExchangeJournalProofs` | its theorems | |
| `Logger` | producer, worker, `close` | `Produce`, `Work`, `WriteOne`, `FlushEnds`, `Close`, `Join`, `CloseFile` |
| `EventProtocol`, `BookRegistry` | the frames; the registry | (operators) |
| `TradingGateway` | the application's thread in `submit`, `close` and `main`'s error path; gateway and subscriber threads; an exchange behind a connection that breaks | `App*`, `Gateway*`, `Subscriber*`, `Serve`, `Trade`, `Break` |
| `TradingGatewayProofs` | its theorems | |
| `EventFile` | lines of event files, `parse_event_line`, what `generate_events` writes | (operators) |
| `EventTools` | replays of event files and the two demonstrations; `transport` says which of them runs | `ReplayGenerated`, `ReplayWritten`, `EndReplay`; `Publish`, `Arrives`, `ArrivesDamaged`, `Timeout`; `Send`, `TakeAck`, `Finish`, `LoseServer`, `Serve`, `EndServing`, `Break` |
| `FeedBooks`, `FeedDecoders` | `feed::Books`; `Itch50Decoder` and `PitchDecoder` | (operators) |
| `FeedReplay` | a replay without and one with a filter, the extraction of a sample and its replay, on one archive | `ReadItch`, `ReadPitch`, `EndOfInput`, `LimitReached`, `ReadFails` |

`MC*` modules give constants their values. `MCReplays` also puts the two
families of programs that read files, `FeedReplay` and `EventTools`, into one
run: a behaviour is one of either.

The layers rest on each other. `OrderBook` calls the `FixedSlotPool` operators
and is proved to implement `LimitBook`; everything above uses `PriceTimeBook`,
the same operators `LimitBook` is made of. `LFQueue` is proved to implement
`BoundedFifo`; `ExchangeServer`, `MarketFeed`, `TradingGateway` and `Logger` use
bounded sequences. `FeedReplay` composes decoders and books, `EventTools` files,
frames and the registry. `MatchingEngine` is the engine of `TradingSession`; in
`ExchangeServer` and `ExchangeJournal` commands are abstract because the
properties there are about their transport and not about what they do.

Choices that matter:

- **Allocation.** In `OrderBook` the parameter `fail` names the allocation
  (level, node, index entry) that throws when it is reached, and the pool
  throws by itself when it is full. Above, `room` says whether a call found
  storage.
- **Memory order.** In `LFQueue` an acquire load returns any index value the
  other thread has published since the last one it returned. Indices are taken
  modulo `Modulus` (2^64 in the code); the proofs need only that it is a
  multiple, at least twofold, of the size.
- **`process` is one step.** It runs to completion on one thread, and its order
  of changes, updates and reports is kept inside the step. `thrown` records
  that one of its `require` calls failed.
- **Answers and fills.** A report for the client of a command carries the number
  of the connection it came from; a fill of another client's resting order
  carries 0 and finds its connection through `routes` when it is sent
  (`server.cpp:136`, `237-240`). `Connection::admitted` counts requests, so
  `AdmittedIsOutstanding` and `AnsweredBeforeRemoval` speak of the answers to
  admitted requests, as `test_half_close_preserves_reports_for_admitted_command`
  does. They promise nothing about fills: one that is still queued when its
  half-closed connection is removed reaches nobody.
- **Datagrams.** `MarketFeed.wire` is a set: what is in it may arrive any
  number of times, in any order, or never.
- **`receive_report` is cut** where other threads can get in between: the check
  for an error, the pop, `poll`. After `poll` the code pops before it checks, so a
  report that arrived before an error is still consumed. An eventfd is a
  boolean, since it is only ever set and cleared.
- **The exchange of `TradingGateway`** keeps the rule of `process` that matters
  there: a request that is not the next one is rejected, and a rejection is
  `Complete` too, so a `submit` of CancelAll may return with orders left.
- **Archives.** A record of a file may be anything, wrong fields, short messages
  and unknown kinds included. A PITCH file is a capture of what the units sent,
  with packets missing, repeated, out of order or damaged.
- **Time.** Deadlines and idle timeouts are steps that may happen at any time.
- **Disk.** A record is two pieces, so it can be torn. A power loss keeps what
  was synced, and of the rest any prefix, of which the last piece may be junk.
  `SyncNames` says whether syncing a file also makes its name durable.

## 3. What the runs check

| Run | Instance | Properties | What it shows |
|---|---|---|---|
| `pool` | 10 bytes of unaligned storage, requests of three kinds, any pointer freed | `FreeOrHeld`, `HeldSlotsAreUsable` | every slot is free or held, once; held slots are aligned, apart and inside, whatever is freed and how often |
| `order_book` | 2 objects, 2 ids, 2 good and 3 bad sets of terms | `BooksAreConsistent`, `NodesAreThePoolsSlots`, `ImplementsLimitBook` | lists, aggregates, index and pool agree after every call, every failed allocation and every move, and the books implement `LimitBook`, so that an order is overtaken only if it loses its priority by a replace |
| `matching` | 2 clients, 4 commands, every order type and time in force, old and skipped request ids, a command for each reason of refusal, heap failures, room for 2 orders | `EngineIsConsistent`, `PositionsStayWithinLimits`, `BestOrdersTradeFirst`, `OrderTermsAreHonoured`, `RejectionChangesNothing` | the engine's `validate_invariants` holds, positions with all open orders filled stay within the limit, price-time priority and the terms of an order are honoured, and a rejected command leaves no trace but its sequence |
| `lfqueue` | 2 slots, indices modulo 4, 6 pushes | `NoDataRace`, `IsBoundedFifo` | a bounded FIFO without a data race |
| `feed` | 3 updates of both sides, 2 epochs, queues of 2 and 1, garbage | `SynchronizedBookIsRight`, `NeverGoesBack`, `EveryUpdateArrives` | a replica that calls itself synchronized is the engine's book at its sequence; every update gets through, the last one too, though nothing follows it |
| `server` | 2 clients, 2 connections, queues and outputs of 1, 2 frames, failures in every thread and socket | `RoutesAreSessions`, `AdmittedIsOutstanding`, `CleanStop`, `AnsweredBeforeRemoval`, `EveryThreadEnds`, `EveryFrameIsTaken` | the bookkeeping of sessions and of unanswered requests; a half-closed connection stays until its admitted requests are answered; a clean stop leaves nothing in a queue; no thread waits forever for another one; a frame that met a full queue is taken later although `poll` reports nothing |
| `session` | 2 clients, 5 commands with replaces and cancels, the last request of a client sent again at any time | `UpdatesRebuildTheBooks`, `RetriesAreNotPerformed`, `CaughtUpClientsAreRight`, `LocalCheckSuffices` | a subscriber that applies the updates of a batch gets the engine's book, queue order included; a retry gets the first answer and changes nothing; a client without reports on their way knows its orders and position, and a new order that its own check lets pass then is not refused by the engine's limits |
| `journal` | 2 servers, 3 records, 3 failures | `AnsweredIsNeverLost`, `StateIsTheFile` | an answered command survives kills, power losses and torn writes |
| `journal_name` | names not made durable by syncing a file | `AnsweredIsNeverLost` | violated: see the finding below |
| `logger` | queue of 2, 4 calls | `CloseDrains`, `AcceptedIsWritten`, `CloseReturns` | nothing accepted is lost silently; records reach the file without further calls; `close` returns |
| `replays` | archives: 2 units, 3 locates, 2 symbols, 2 orders, sessions of 3 to 5 messages per unit; event files of 4 lines, generated ones of 5 | `RoutesMatchBooks`, `FilterIsTransparent`, `SampleReplaysAlike`, `SessionsAreWhole`, `BooksAreAPrefix`, `GeneratedFilesReplay`, `AcknowledgedIsApplied` | routes and books agree; a filter changes no book it keeps; a sample replays to the books of its archive; a PITCH replay that succeeds has heard each unit whole or not at all. Replays of event files and the UDP subscriber have the books of a prefix of the file; a generated file replays without an error; over TCP acknowledged events are applied, and at most one more is |
| `gateway` | 2 commands before the client is closed, queues of 1, failures of the connection and of both threads at any step | `NoWakeupIsLost`, `CleanExit`, `CallsReturn` | no thread goes to sleep over a message ("No wakeup is lost", `client.cpp:44`); an application that exits without an error and was to cancel its orders has left none; `submit`, `close` and the destructor return or throw, so both threads can be joined |

Every property of a passing run has a mutant: a plausible mistake in one mapped
definition (a dropped guard, a missing reset, a swapped order) under which TLC
finds the property violated.

**Why the bounds are enough for the cases in question.** The sizes are the
smallest at which the interesting thing happens: two ids on a book with
allocations that fail one by one fill, empty and reuse levels and nodes; a
third order in an engine's book with room for two finds none; queues of one
make every push wait, and an output of one frame makes every second report
find a client that does not read; a ring of two with indices modulo four
wraps while it is full; a report queue of one lets the gateway thread meet a full
queue while it is being joined; two clients trade, and one of them meets its own
orders; two epochs mix old and new datagrams; pieces of records let a write be
torn. Counters of calls, updates, frames and failures are named constants
(`MaxCalls`, `MaxUpdates`, `MaxFrames`, `MaxFailures`, ...) that appear in
guards only. Deadlock is checked where callers may always go on; it is switched
off where such a bound, or the end of a program, stops the system.

**Fairness.**

- `ExchangeServer`: each of the three threads that has a step takes it, and the
  drain deadline passes: a loop that comes again and again to where it may be
  left is left. The threads poll or sleep with a timeout and never
  block on each other, so the scheduler runs them. The formula names the states
  in which a thread waits (`EngineWaits`, `IoWaits`) instead of `ENABLED`, and
  means weak fairness of the thread: each step of a thread changes its own
  variable.
- `MarketFeed`: weak fairness of the publisher, of the client's thread (written
  the same way, with `StrategyCanStep` and `StrategySteps`) and of the deadline of `recover`; strong fairness of the arrival of the current
  heartbeat. The publisher repeats it as long as it runs, and it is assumed
  only that the network does not lose every one. No update and no snapshot is
  assumed to arrive in time.
- `TradingGateway`: weak fairness of the application inside a call, of the
  gateway and subscriber threads, and of the deadline of `submit`: every wait in
  the code has a timeout. Nothing is assumed of the exchange, which may never
  answer, nor that the application makes another call.
- `Logger`: weak fairness of the worker's steps and of a `close` that has
  begun.

**A finding.** The journal's directory is synced only by the process that
writes the header (`src/src/trading/journal.cpp:71-84`). If it fails between
the two, the next start finds a good header, does not sync the directory and
answers commands. Where `fdatasync` of a file does not make its name durable, a
power loss then takes the file, with commands answered. `docs/trading_system.md`
says that new-file creation also syncs the parent directory, and `journal.hpp`
says "fdatasync before ACK". Run `journal_name` shows it; with `SyncNames` true,
as on many file systems, the property holds (`journal`).

## 4. What is proved

The proofs are for every value of the constants that satisfies the named
assumptions, which TLC evaluates in the runs. The bounds of a run (`MaxFrames`,
`MaxRecords`, `MaxRequests`, ...) are such constants, so what is proved does not
depend on them. Each invariant below was first checked by TLC on the instance of
the run.

**The pool** (`FixedSlotPoolProofs`; assumptions `PoolAssumption` and
`SizesAreAligned`: the capacity is positive and a size is a multiple of its
alignment, as `sizeof` and `alignof` are).

- `PoolTypeCorrect`: the type invariant. `PoolFreeOrHeld`,
  `PoolHeldSlotsAreUsable`: the properties of run `pool`, for any storage, sizes,
  and frees.
- None of them is inductive. The pool checks a freed pointer by arithmetic, so
  the invariant has to say that the bit vector, the free stack and the offsets
  handed out describe the same slots. `IInv` says that the pool is untouched,
  or cut for one request and then: the free part of the stack holds each free
  slot once, a slot is held exactly if its bit is set, and every offset is the
  padding plus a multiple of the slot size. Lemmas: `CutCorrect` (the first
  allocation establishes it), `TakeCorrect` (an allocation keeps it),
  `AcceptedIsStart` (a pointer that passes the checks of `deallocate` is the
  start of a slot in use), `StackCount` (the stack cannot overflow),
  `DeallocateCorrect` (a free keeps it, accepted or not), and the arithmetic of
  slots on top of the file.

**The order book** (`OrderBookTheorems`, with the definitions of `OrderBookShape`
and the lemmas of `OrderBookRefinementProofs` and `OrderBookProofs`; assumption
`OrderBookAssumption`: there is a price and a slot, and callers use the prices
and quantities of the constants).

- `ConsistentBooks` and `PooledNodes`: the two invariants of run `order_book`,
  for any objects, ids, prices, quantities and slots and whichever allocation
  fails. `BooksImplementLimitBook`: the refinement of `LimitBook`. Every call maps
  to the same call of the abstract book with the same result; the mapping is
  `Contents`, and `room` of the abstract call says whether storage was found.
- The inductive invariant is `BooksAreGood`. `Good` says that a book is made of
  parts that fit: lists in which no node occurs twice (`ListsInv`); levels, which
  are exactly the prices with orders, each with the sum of its quantities; an
  index with one entry per node, which names the list the node is in (`IndexInv`);
  a pool whose held slots are the nodes (`PoolInv`). `validate_invariants` alone is
  not inductive: it says nothing of the free slots, nor that a list has a node
  only once, and queueing or erasing a node needs both.
- Each call is described once in terms of the parts (`AddAnswers`,
  `CancelAnswers`, `ExecuteAnswers`, `ReplaceAnswers`: which result under which
  condition, which parts then, and that these fit). One half of the proof shows
  that a call that answers so leaves a good book (`AddGood`, `CancelGood`,
  `ExecuteGood`, `ReplaceGood`) which holds what `LimitBook` says (`AddShown`,
  `CancelShown`, `ExecuteShown`, `ReplaceShown`); it does not look at the code.
  The other half shows that the calls answer so (`AddIs`, `CancelIs`, `ExecuteIs`,
  `ReplaceIs`, from `AddedParts`, `RemovedParts`, `ResizedParts`, `MovedParts`);
  it does not look at `LimitBook`. A failed insertion is shown to restore the
  parts (`EraseCreated`, `InsertIs`). A replace queues the new node before it
  drops the old one, while `LimitBook` dequeues first; `LongerShorter` says that
  the order does not matter.
- Sums and the clearing of a book are recursive functions. What they compute is
  proved by induction over sets of numbers (`Inductive`), an instance of the
  library's well-founded induction that takes no operator. `Inductive` and the
  facts on finite sets (`Countable`) are carried as conjuncts of the invariant, so
  that the two lemma modules do not need the libraries, with which they would
  take several times as long; `OrderBookTheorems` proves both.

**The queue** (`LFQueueProofs`; assumption `LFQueueAssumption`).

- `QueueInvariant`: `Inv`, which relates the wrapped indices to the unbounded
  counts, orders the counts and what each side has seen of the other's
  (`p_seen <= popped <= c_seen <= pushed <= p_seen + Size`), and says which slots
  hold which values. Old loads are harmless because both sides err on the safe
  side of that chain.
- `QueueNoDataRace`: while both sides are in their slots, the counts differ by
  less than `Size` and not by 0, so the slots differ (`SlotsApart`).
- `QueueIsBoundedFifo`: the ring implements `BoundedFifo`; `PushPublish` and
  `PopPublish` are its steps and everything else stutters. `WrappedDifference`
  is the fact that makes wrapping indices work.

**The server** (`ExchangeServerProofs`; assumption `ServerAssumption`).

- `ServerRoutesAreSessions`, `ServerAdmittedIsOutstanding`, `ServerCleanStop` and
  `ServerAnsweredBeforeRemoval`: the four safety properties of run `server`, for
  any clients, connections, queue sizes, budgets and faults. The last one is
  about the answers to the requests of a removed connection; fills routed by
  client are not counted (section 2).
- The invariant is `ServerInv`. `Ending` is the order in which the threads go
  down: a flag one thread has seen is still set, so the queue it then finds empty
  stays empty. `Finishing` is what each of them has left behind when there was no
  fatal error. `Counted` strengthens `AdmittedIsOutstanding`: after a fatal error
  answers are dropped and a connection may be owed less than it was admitted for
  but never more, and nothing is on its way to a number not given out yet.
  `Marked` says why a connection is in the list of those to be removed; it has
  to hold from when the connection is served until the turn ends, while the
  other threads go on. `TurnOK` says that the list and the rest of the turn are
  connections.
- `Outstanding` counts in two queues and in the engine's hands. `CountAppend`,
  `CountTail` and `OutstandingCounts` turn it into a sum of three counts;
  `EngineOwes`, `RouteOwes` and `ServeOwes` follow it through the steps that
  move a request on.

**The journal** (`ExchangeJournalProofs`; assumption `JournalAssumption`).

- `JournalStateIsTheFile`: a server between two commands has processed exactly
  the records of the file. `FileInv` says what the file is at each step of
  opening and appending (`Creating`, `Appending`: a header, whole records, and the
  pieces written so far), and that the lock is held alone.
- `JournalAnsweredIsNeverLost`, for file systems on which syncing a file makes
  its name durable (`SyncNames`, the hypothesis of the theorem; without it the
  property is false, see the finding above). `OnDisk` adds that every answered
  command lies, at its place, in the part of the file that a power loss leaves.

**The gateway of the client** (`TradingGatewayProofs`; assumption
`GatewayAssumption`).

- `GatewayNoWakeupIsLost` needs only the types: the property says of each
  sleeping thread what the other side is about to do, and is inductive as it is.
- `GatewayCleanExit` needs `SessionInv`, which follows a request from the
  application over two queues and a connection to the exchange, and its reports
  back. Until something fails (`Healthy`): at most one request is on its way and
  it is the next one the exchange expects (`OneRequest`); a report is about a
  request already performed, and `Complete` comes last (`ReportsInOrder`); the
  orders the application knows of, with those in reports on their way, are at least
  those at the exchange (`OrdersKnown`), so that "no working orders" can be
  trusted; and after a performed CancelAll there are none (`CancelledAll`).
  `Doomed` is the case in which the connection broke before the answer: the
  wait then ends in an exception and not in a clean exit.

**Only model-checked:** liveness, which is out of the prover's reach; the
properties of the engine, the replica, the session, the feeds and the event files,
which are stated with folds over books, positions, rows and registries and would
each need an induction written out for that fold, as the sums of the order book
have; and the logger.

## 5. What is not modelled

- **Byte layouts** (message codec, offsets of ITCH and PITCH fields, digits of
  numbers): stateless conversions with their own tests. Frames that do not
  decode, short messages and fields that are no number are inputs.
- **Floating point**: the feature engine, the quotes of the strategies, realised
  profit and the loss limit. TLC has no such numbers, and rounding is what a
  property of this code would be about.
- **Statistics, measurement and printing**: latency histograms, outliers, reports,
  benchmarks. Which commands a script or a strategy submits is left open.
- **The set-up of a client's session**: the constructor fails or leads to the
  initial state of `TradingGateway`.
- **Widths of integers**: engine quantities and prices stay far below their
  limits through the instrument rules. Where a width matters (queue indices,
  feed prices wider than those of the core book) it is modelled.
- The gateway's budget of 64 frames between two polls (`client.cpp:132`).
- Socket ownership, and partial transfers other than those of the server's
  connections and the journal.

## 6. Plan

Done: the modules above: pool, book, queue, engine, replica and feed, server,
session, gateway, journal, logger, event files and demonstrations, decoders,
feed books and archive programs; the proofs for pool, order book, queue, server,
journal and gateway.

Next, in this order:

1. Proofs: `Logger` (`CloseDrains`); `MarketFeed` (`NeverGoesBack`);
   `MatchingEngine` (`EngineIsConsistent`), on top of what is proved of the books.
2. Snapshot rows as frames in `ExchangeServer`: a snapshot larger than the
   output limit of a connection.
3. A composition of `ExchangeJournal` and `MatchingEngine`: `Status` uses up a
   report sequence and is not journaled, so a restarted exchange numbers its
   reports from a lower one. `TradingClient` refuses another epoch and does not
   notice; a gateway of another kind might.
