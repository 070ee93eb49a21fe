-------------------------- MODULE MCExchangeServer --------------------------
(* An instance of ExchangeServer for TLC. *)
EXTENDS ExchangeServer

MCClients == 1..2

AllFaults == FaultKinds

=============================================================================
