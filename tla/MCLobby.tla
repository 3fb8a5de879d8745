------------------------------- MODULE MCLobby -------------------------------
(* Model checking of Lobby: users whose clients behave alike are              *)
(* interchangeable in safety runs.                                            *)
EXTENDS Lobby

Symmetry == Permutations(User \ Hasty)

=============================================================================
