---------------------------- MODULE MCStatistics ----------------------------
(* Model checking of Statistics. *)
EXTENDS Statistics, TLC

Symmetry == Permutations(User)

=============================================================================
