------------------------------- MODULE GamePage -------------------------------
(***************************************************************************)
(* The game page of the client (Game.xaml.cs, Classes.cs:85-96) during one *)
(* game: what the thread of the window and the threads of the clock        *)
(* receive of the one stream the server writes to, and which of it they    *)
(* take for what.                                                          *)
(*                                                                         *)
(* A receive is taken for one message, whatever it returns.  The clock     *)
(* answers and reads by itself when it runs out, and leaves the page as it *)
(* is, its buttons enabled.                                                *)
(*                                                                         *)
(* The server's side is that of GameEngine with its handlers one after the *)
(* other.  What a client does after the end of the game is GameEngine's.   *)
(***************************************************************************)
EXTENDS Naturals, FiniteSets, Sequences

CONSTANTS
  Player,      \* the players of the game
  QuestionNo,  \* questions of the game
  MayBeLate,   \* players whose clock may run out
  MayMerge     \* players whose receive may return several messages at once

ASSUME GamePageAssumption ==
  /\ IsFiniteSet(Player) /\ Player # {}
  /\ QuestionNo \in Nat \ {0}
  /\ MayBeLate \subseteq Player /\ MayMerge \subseteq Player

VARIABLES
  index,        \* _currQuestionIndex of each player's copy of the game
  inGame,       \* the players who have a copy
  turnAnswers,  \* Game::_currentTurnAnswers
  results,      \* Game::_results
  up,           \* the server process is alive
  requests,     \* the answers each client sent and the server has not taken
  stream,       \* the messages each client was sent and has not received
  ui,           \* what the thread of the window does
  shown,        \* the question on the page
  ticking,      \* players whose clock runs
  clocks,       \* threads of clocks that wait for the reply to their answer
  correctAnswers, \* the page's own count
  late,         \* history: players whose clock ran out
  merged        \* history: players who received several messages at once

server == <<index, inGame, turnAnswers, results, up>>
page == <<ui, shown, ticking, clocks, correctAnswers>>
history == <<late, merged>>
vars == <<server, requests, stream, page, history>>

-----------------------------------------------------------------------------
Question(i) == [type |-> "question", index |-> i, right |-> FALSE]
TrueFalse(right) == [type |-> "reply", index |-> 0, right |-> right]
EndGame == [type |-> "end", index |-> 0, right |-> FALSE]
Messages == [type : {"question", "reply", "end"}, index : Nat, right : BOOLEAN]

\* An answer: the question on the page, and whether the button is right for it.
\* Answer 5, the clock's, is right for none.
Answers == [index : Nat, choice : {"right", "wrong", "five"}]

\* choosing: a question is shown, its buttons enabled; reply and next: blocked in
\* a receive; stuck: the buttons are disabled and nothing will enable them; home:
\* the page was left for the scores.
Stages == {"choosing", "reply", "next", "stuck", "home"}

\* The page is alone with its server: no clock ran out, no message was swallowed.
Calm == late = {} /\ merged = {}

-----------------------------------------------------------------------------
(* The server *)

\* An answer to a question that its player's copy has left is right or wrong by
\* accident.
Judgements(u, a) ==
  IF a.choice = "five" THEN {FALSE}
  ELSE IF a.index = index[u] THEN {a.choice = "right"}
  ELSE BOOLEAN

ToAll(m) == [v \in Player |-> <<m>>]

\* What handleNextTurn sends in u's thread, and to whom
BroadcastAhead(u, last) ==  \* as soon as anybody answered
  IF index[u] + 1 = QuestionNo THEN [v \in Player |-> IF last THEN <<EndGame>> ELSE <<>>]
  ELSE ToAll(Question(index[u] + 1))

Broadcast(u, last) ==
  IF ~last THEN [v \in Player |-> <<>>]
  ELSE IF index[u] + 1 = QuestionNo THEN ToAll(EndGame)
  ELSE ToAll(Question(index[u] + 1))

TurnOverLate == turnAnswers = Cardinality(Player)  \* counts before it adds

\* This answer is the last of the turn.
TurnOver == turnAnswers + 1 = Cardinality(Player)

PastEndLate(u) == index[u] > QuestionNo  \* off by one

\* _questions[_currQuestionIndex] is outside of its vector.
PastEnd(u) == index[u] >= QuestionNo

\* handlePlayerAnswer: an answer without a game has no reply; past the last
\* question the process ends; any other is judged, answered and counted, and the
\* last of a turn brings the next question or the end.
HandlePlayerAnswer(u) ==
  LET answer == Head(requests[u])
      last == TurnOver
  IN
  /\ up /\ requests[u] # <<>>
  /\ requests' = [requests EXCEPT ![u] = Tail(@)]
  /\ \/ /\ u \notin inGame
        /\ UNCHANGED <<server, stream>>
     \/ /\ u \in inGame /\ PastEnd(u)
        /\ up' = FALSE
        /\ UNCHANGED <<index, inGame, turnAnswers, results, stream>>
     \/ /\ u \in inGame /\ ~PastEnd(u)
        /\ \E right \in Judgements(u, answer) :
             /\ results' = [results EXCEPT ![u] = IF right THEN @ + 1 ELSE @]
             /\ stream' = [v \in Player |->
                  stream[v] \o (IF v = u THEN <<TrueFalse(right)>> ELSE <<>>)
                            \o Broadcast(u, last)[v]]
        /\ IF last /\ index[u] + 1 = QuestionNo
             THEN /\ inGame' = inGame \ {u}
                  /\ turnAnswers' = turnAnswers + 1
                  /\ UNCHANGED index
             ELSE /\ index' = [index EXCEPT ![u] = @ + 1]
                  /\ turnAnswers' = IF last THEN 0 ELSE turnAnswers + 1
                  /\ UNCHANGED inGame
        /\ UNCHANGED up
  /\ UNCHANGED <<page, history>>

-----------------------------------------------------------------------------
(* The page *)

\* u's client receives: the first message, or several.
Receive(u, n) ==
  /\ n \in 1 .. Len(stream[u])
  /\ n > 1 => u \in MayMerge
  /\ stream' = [stream EXCEPT ![u] = SubSeq(@, n + 1, Len(@))]
  /\ merged' = IF n > 1 THEN merged \cup {u} ELSE merged

Send(u, a) == requests' = [requests EXCEPT ![u] = Append(@, a)]

\* Answer_Click up to the receive: a clock that runs is stopped, one that has run
\* out is not.
AnswerClick(u) ==
  /\ ui[u] = "choosing"
  /\ \E choice \in {"right", "wrong"} : Send(u, [index |-> shown[u], choice |-> choice])
  /\ ticking' = ticking \ {u}
  /\ ui' = [ui EXCEPT ![u] = "reply"]
  /\ UNCHANGED <<server, stream, shown, clocks, correctAnswers, history>>

CountsAny(u, n) == Head(stream[u]).type = "reply"  \* right or wrong

\* The page counts what is exactly the reply to a right answer.
Counts(u, n) == n = 1 /\ Head(stream[u]) = TrueFalse(TRUE)

\* SendBackToServer, in Answer_Click.
ReadReply(u) ==
  /\ ui[u] = "reply"
  /\ \E n \in 1 .. Len(stream[u]) :
       /\ Receive(u, n)
       /\ correctAnswers' = [correctAnswers EXCEPT ![u] = IF Counts(u, n) THEN @ + 1 ELSE @]
  /\ ui' = [ui EXCEPT ![u] = "next"]
  /\ UNCHANGED <<server, requests, shown, ticking, clocks, late>>

\* GetNextQuestion, and SetDetails with a new clock.  A message that is neither a
\* question nor an end is passed over in silence.
GetNextQuestion(u) ==
  LET m == Head(stream[u]) IN
  /\ ui[u] = "next"
  /\ \E n \in 1 .. Len(stream[u]) : Receive(u, n)
  /\ \/ /\ m.type = "question"
        /\ ui' = [ui EXCEPT ![u] = "choosing"]
        /\ shown' = [shown EXCEPT ![u] = m.index]
        /\ ticking' = ticking \cup {u}
     \/ /\ m.type = "end"
        /\ ui' = [ui EXCEPT ![u] = "home"]
        /\ UNCHANGED <<shown, ticking>>
     \/ /\ m.type = "reply"
        /\ ui' = [ui EXCEPT ![u] = "stuck"]
        /\ UNCHANGED <<shown, ticking>>
  /\ UNCHANGED <<server, requests, clocks, correctAnswers, late>>

\* The clock reaches zero: DefaultAnswer.
DefaultAnswer(u) ==
  /\ u \in ticking \cap MayBeLate
  /\ ticking' = ticking \ {u}
  /\ Send(u, [index |-> shown[u], choice |-> "five"])
  /\ clocks' = [clocks EXCEPT ![u] = @ + 1]
  /\ late' = late \cup {u}
  /\ UNCHANGED <<server, stream, ui, shown, correctAnswers, merged>>

\* The clock's thread receives, and ends.
ClockReads(u) ==
  /\ clocks[u] > 0
  /\ \E n \in 1 .. Len(stream[u]) : Receive(u, n)
  /\ clocks' = [clocks EXCEPT ![u] = @ - 1]
  /\ UNCHANGED <<server, requests, ui, shown, ticking, correctAnswers, late>>

-----------------------------------------------------------------------------
\* The game was started and the first question is on its way.
Init ==
  /\ index = [u \in Player |-> 0]
  /\ inGame = Player
  /\ turnAnswers = 0
  /\ results = [u \in Player |-> 0]
  /\ up = TRUE
  /\ requests = [u \in Player |-> <<>>]
  /\ stream = [u \in Player |-> <<Question(0)>>]
  /\ ui = [u \in Player |-> "next"]
  /\ shown = [u \in Player |-> 0]
  /\ ticking = {}
  /\ clocks = [u \in Player |-> 0]
  /\ correctAnswers = [u \in Player |-> 0]
  /\ late = {}
  /\ merged = {}

Reads(u) == ReadReply(u) \/ GetNextQuestion(u) \/ ClockReads(u)

Next == \E u \in Player : \/ HandlePlayerAnswer(u)
                          \/ AnswerClick(u)
                          \/ Reads(u)
                          \/ DefaultAnswer(u)

Spec == Init /\ [][Next]_vars

\* Threads are scheduled, what was sent arrives, and players answer what they are
\* shown.
FairSpec == Spec /\ \A u \in Player : /\ WF_vars(HandlePlayerAnswer(u))
                                      /\ WF_vars(AnswerClick(u))
                                      /\ WF_vars(Reads(u))

-----------------------------------------------------------------------------
(* Properties *)

\* Every variable keeps its type.
TypeOK ==
  /\ index \in [Player -> 0 .. QuestionNo]
  /\ inGame \subseteq Player
  /\ turnAnswers \in Nat
  /\ results \in [Player -> Nat]
  /\ up \in BOOLEAN
  /\ requests \in [Player -> Seq(Answers)]
  /\ stream \in [Player -> Seq(Messages)]
  /\ ui \in [Player -> Stages]
  /\ shown \in [Player -> Nat]
  /\ ticking \subseteq Player
  /\ clocks \in [Player -> Nat]
  /\ correctAnswers \in [Player -> Nat]
  /\ late \subseteq Player /\ merged \subseteq Player

\* As long as no clock ran out, every receive of a player that never got two
\* messages at once gets the message its place in the code is for: the reply after
\* an answer, the question or the end after the reply.  Then the page shows the
\* question its player will be judged by.
InStep ==
  late = {} => \A u \in Player \ merged :
    /\ ui[u] = "reply" /\ stream[u] # <<>> => Head(stream[u]).type = "reply"
    /\ ui[u] = "next" /\ stream[u] # <<>> => Head(stream[u]).type # "reply"
    /\ ui[u] = "choosing" => /\ stream[u] = <<>> /\ requests[u] = <<>>
                             /\ shown[u] = index[u] /\ u \in inGame
    /\ ui[u] # "stuck"

\* Whatever clocks and receives do, a page never counts more right answers than
\* the server: a reply is counted once, by the window or by nobody.  As long as
\* no clock ran out, a page that waits for no reply and never got two messages at
\* once counts as many.
ScoreKept ==
  \A u \in Player :
    /\ correctAnswers[u] <= results[u]
    /\ late = {} /\ u \notin merged /\ ui[u] \in {"choosing", "home"} =>
         correctAnswers[u] = results[u]

\* In calm play every page gets to the scores.
CalmGamesEnd == <>(~Calm \/ \A u \in Player : ui[u] = "home")

=============================================================================
