-------------------------- MODULE MCMatchingEngine --------------------------
(* MatchingEngine for TLC: sets of commands that meet each other. *)
EXTENDS MatchingEngine

MCClients == {1, 2}

\* max_position is reached by two fills, max_open_orders by two orders.
MCRules ==
    1 :> [tick_size |-> 1, lot_size |-> 1, min_price |-> 1, max_price |-> 2,
          max_order_quantity |-> 2, max_notional |-> 4, max_position |-> 3,
          max_open_orders |-> 2]

Order_(client, side, price, quantity) ==
    [EmptyMessage EXCEPT !.client_id = client, !.request_id = 1, !.order_id = 1,
                         !.instrument_id = 1, !.side = side, !.price = price,
                         !.quantity = quantity]

Naming(client, action, id) ==
    [EmptyMessage EXCEPT !.client_id = client, !.request_id = 1, !.action = action,
                         !.order_id = id, !.instrument_id = 1]

Replacing(client, id, side, price, quantity) ==
    [Order_(client, side, price, quantity) EXCEPT !.action = "Replace", !.order_id = id]

\* Two instruments, one of them with coarser ticks and lots.
MCTwoRules ==
    MCRules @@
    (2 :> [tick_size |-> 2, lot_size |-> 2, min_price |-> 1, max_price |-> 2,
           max_order_quantity |-> 4, max_notional |-> 4, max_position |-> 3,
           max_open_orders |-> 1])

On2(c) == [c EXCEPT !.instrument_id = 2]

\* Resting and crossing limit orders of two clients, and every way an order can
\* end that does not rest.
MCOrders ==
    {Order_(client, side, price, 1) :
        client \in MCClients, side \in {"Bid", "Ask"}, price \in 1..2}
    \cup {Order_(client, side, 1, 2) : client \in MCClients, side \in {"Bid", "Ask"}}
    \cup {[Order_(2, "Bid", 2, 2) EXCEPT !.tif = "IOC"],
          [Order_(2, "Ask", 1, 2) EXCEPT !.tif = "FOK"],
          [Order_(2, "Bid", 0, 2) EXCEPT !.tif = "IOC", !.order_type = "Market"],
          [Order_(2, "Bid", 2, 1) EXCEPT !.post_only = TRUE]}

\* Commands that are refused for the other reasons there are, between some
\* that are not.
MCRefusals ==
    {On2(Order_(1, "Bid", 2, 2)),
     On2(Order_(1, "Bid", 1, 2)), On2(Order_(1, "Bid", 2, 1)), On2(Order_(1, "Bid", 2, 4)),
     Order_(1, "Bid", 2, 3),
     [Order_(1, "Bid", 1, 1) EXCEPT !.request_id = 0],
     [Order_(1, "Bid", 1, 1) EXCEPT !.request_id = 2],
     [Order_(1, "Bid", 1, 1) EXCEPT !.order_id = 0],
     [Order_(1, "Bid", 1, 1) EXCEPT !.instrument_id = 3],
     [Order_(1, "Bid", 1, 1) EXCEPT !.tif = "IOC", !.post_only = TRUE],
     Naming(1, "Status", 0), Naming(1, "Snapshot", 0), On2(Naming(1, "Cancel", 1)),
     Replacing(1, 1, "Ask", 1, 1), Replacing(1, 1, "Bid", 1, 2), Replacing(1, 1, "Bid", 2, 2)}

MCCommands == MCOrders \cup MCRefusals

=============================================================================
