---------------------------- MODULE MCGameEngine ----------------------------
(* Model checking of GameEngine: users are interchangeable in safety runs. *)
EXTENDS GameEngine, TLC

Symmetry == Permutations(User)

=============================================================================
