----------------------------- MODULE MCSessions -----------------------------
(* Model checking of Sessions. *)
EXTENDS Sessions

=============================================================================
