------------------------------ MODULE MCExchange ------------------------------
(* Model checking of Exchange. *)
EXTENDS Exchange

=============================================================================
