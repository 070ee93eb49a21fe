-------------------------- MODULE MCTradingSession --------------------------
(* TradingSession for TLC. *)
EXTENDS TradingSession, MCMatchingEngine

\* Orders that meet, partly and entirely, and are changed and cancelled while
\* their fills are under way.
MCSession ==
    {Order_(1, "Bid", 1, 2), Order_(1, "Bid", 2, 1), Order_(2, "Ask", 1, 1),
     [Order_(2, "Ask", 1, 2) EXCEPT !.tif = "IOC"],
     Replacing(1, 1, "Bid", 1, 1), Replacing(1, 1, "Bid", 2, 2),
     Naming(1, "Cancel", 1),
     [Naming(1, "CancelAll", 0) EXCEPT !.instrument_id = 0]}

=============================================================================
