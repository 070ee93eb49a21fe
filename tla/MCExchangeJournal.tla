------------------------- MODULE MCExchangeJournal --------------------------
(* ExchangeJournal for TLC. *)
EXTENDS ExchangeJournal

=============================================================================
