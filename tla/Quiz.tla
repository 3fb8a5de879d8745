-------------------------------- MODULE Quiz --------------------------------
(***************************************************************************)
(* What the quiz engine promises its players: one contest at a time, in    *)
(* rounds.  In a round every player answers once, in any order; the answer *)
(* of the last of them opens the next round, or ends the contest.          *)
(* It mentions no copies, counters, threads or messages: GameEngine is     *)
(* shown to implement it.                                                  *)
(***************************************************************************)
EXTENDS Naturals

CONSTANTS Player, Lengths

VARIABLES
  players,   \* the players of the contest, {} between contests
  length,    \* its number of rounds
  round,     \* the round it is in, from 0
  answered   \* the players who have answered this round

quiz == <<players, length, round, answered>>

Idle == players = {} /\ length = 0 /\ round = 0 /\ answered = {}

\* A contest begins.
Begin == /\ Idle
         /\ players' \in (SUBSET Player) \ {{}}
         /\ length' \in Lengths
         /\ round' = 0
         /\ answered' = {}

\* p answers and others have yet to.
Answer(p) == /\ p \in players \ answered
             /\ answered \cup {p} # players
             /\ answered' = answered \cup {p}
             /\ UNCHANGED <<players, length, round>>

\* p is the last to answer and a round remains.
CloseRound(p) == /\ p \in players
                 /\ answered = players \ {p}
                 /\ round + 1 < length
                 /\ round' = round + 1
                 /\ answered' = {}
                 /\ UNCHANGED <<players, length>>

\* p is the last to answer the last round.
CloseContest(p) == /\ p \in players
                   /\ answered = players \ {p}
                   /\ round + 1 = length
                   /\ players' = {} /\ length' = 0 /\ round' = 0 /\ answered' = {}

Play(p) == Answer(p) \/ CloseRound(p) \/ CloseContest(p)

Next == Begin \/ \E p \in Player : Play(p)

Init == Idle

Spec == Init /\ [][Next]_quiz /\ \A p \in Player : WF_quiz(Play(p))

=============================================================================
