------------------------------ MODULE MCGamePage ------------------------------
(* Model checking of GamePage. *)
EXTENDS GamePage

=============================================================================
