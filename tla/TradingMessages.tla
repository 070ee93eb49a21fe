-------------------------- MODULE TradingMessages ---------------------------
(***************************************************************************)
(* trading::Message, the one record that commands, reports, market data    *)
(* and snapshots share, and the maps the trading code keeps them in.       *)
(* Integers are small enough in every instance that their widths do not    *)
(* matter; the kinds and reasons are strings.                              *)
(***************************************************************************)
EXTENDS Integers, Sequences, FiniteSets, SequencesExt

\* Message{}; "" is the enumerator of a field that the kind does not use.
EmptyMessage ==
    [kind |-> "Command", action |-> "New", side |-> "Bid", order_type |-> "Limit",
     tif |-> "GTC", report |-> "", reject |-> "None", update |-> "", post_only |-> FALSE,
     epoch |-> 0, sequence |-> 0, client_id |-> 0, price |-> 0, request_id |-> 0,
     order_id |-> 0, exchange_id |-> 0, instrument_id |-> 0, quantity |-> 0,
     remaining |-> 0, trade_id |-> 0]

\* The maps: insertion or assignment, and erasure.
Put(f, k, v) == (k :> v) @@ f

Drop(f, k) == Restrict(f, DOMAIN f \ {k})

=============================================================================
