---------------------------- MODULE MCMarketFeed ----------------------------
(* An instance of MarketFeed for TLC. *)
EXTENDS MarketFeed

OneOfEach == {[side |-> "Bid", price |-> 1, quantity |-> 2],
              [side |-> "Ask", price |-> 2, quantity |-> 1]}

=============================================================================
