------------------------------ MODULE Scoreboard ------------------------------
(***************************************************************************)
(* What the statistics promise: a tally of right and of wrong answers for  *)
(* every user that only grows, one answer at a time, and that holds every  *)
(* answer a user was told the result of.                                   *)
(***************************************************************************)
EXTENDS Naturals

CONSTANT Player

VARIABLES
  tally,  \* answers recorded: right ones under TRUE, wrong ones under FALSE
  told    \* answers whose result the player was told

vars == <<tally, told>>

Zero == [p \in Player |-> [r \in BOOLEAN |-> 0]]

Init == tally = Zero /\ told = Zero

Record(p, r) == /\ tally' = [tally EXCEPT ![p][r] = @ + 1]
                /\ UNCHANGED told

Tell(p, r) == /\ told[p][r] < tally[p][r]
              /\ told' = [told EXCEPT ![p][r] = @ + 1]
              /\ UNCHANGED tally

Next == \E p \in Player, r \in BOOLEAN : Record(p, r) \/ Tell(p, r)

Spec == Init /\ [][Next]_vars

=============================================================================
