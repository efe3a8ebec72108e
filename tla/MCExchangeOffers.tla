-------------------------- MODULE MCExchangeOffers --------------------------
(* Small instances of ExchangeOffers: two offers that compete, calls of     *)
(* both sides that overlap, and more codes than the cap allows.             *)
EXTENDS ExchangeOffers
=============================================================================
