----------------------------- MODULE GameEngine -----------------------------
(***************************************************************************)
(* The quiz engine of the server: Game.cpp, the three handlers of          *)
(* TriviaServer.cpp that call it (start game, answer, leave game) and the  *)
(* calls it makes on User and DataBase.                                    *)
(*                                                                         *)
(* Every client has a detached thread, and nothing the threads share is    *)
(* guarded.  What they share is:                                           *)
(*   - the two static members of Game, a counter of the answers given this *)
(*     turn and a map of results, common to ALL the games of the process;  *)
(*   - the database.                                                       *)
(* What they do NOT share is the game itself: User::setGame gives every    *)
(* player a private copy, so "the current question" exists once a player.  *)
(*                                                                         *)
(* A handler is cut into steps where it reads or writes shared state; a    *)
(* copy is touched by its owner's thread only and needs no step.           *)
(***************************************************************************)
EXTENDS Integers, FiniteSets, Sequences

CONSTANTS
  User,          \* the signed-in players, each with one client and one thread
  MaxGames,      \* bound: games started in one run of the server
  MaxLive,       \* bound: games whose copies are held at the same time
  MaxBusy,       \* bound: threads inside a handler at once (1: answers are
                 \* further apart than a handler takes)
  QuestionNos,   \* numbers of questions a room may be created with
  Stock,         \* rows of t_questions
  InitialGames,  \* rows of t_games when the server starts
  Fallthrough,   \* what handleNextTurn returns where it lacks a return
  DbOutcomes,    \* whether a statement that writes may succeed, may fail
  Timeouts,      \* whether a client's clock may run out on a question
  MayVanish      \* users whose connection may be lost

ASSUME UserAssumption == IsFiniteSet(User)
ASSUME BoundAssumption == MaxGames \in Nat /\ MaxLive \in Nat /\ MaxBusy \in Nat
ASSUME QuestionAssumption == QuestionNos \subseteq Nat \ {0} /\ Stock \in Nat
ASSUME GamesAssumption == InitialGames \in Nat
ASSUME OutcomeAssumption ==
  Fallthrough \subseteq BOOLEAN /\ DbOutcomes \subseteq BOOLEAN /\ Timeouts \in BOOLEAN
ASSUME VanishAssumption == MayVanish \subseteq User

VARIABLES
  game,         \* each user's own copy of its game, NoGame for a null pointer
  turnAnswers,  \* Game::_currentTurnAnswers
  results,      \* Game::_results: the score of a user, or NoEntry
  gameRows,     \* status column of the rows t_games got since the start
  answerRows,   \* t_players_answers (run and index are history)
  pc,           \* where each user's thread is
  handler,      \* the handler it is in
  seen,         \* the counter as the thread last read it
  right,        \* whether the answer being handled is the correct one
  shown,        \* history: index of the question that answer was given to
  inbox,        \* messages a client has been sent and has not acted on
  expired,      \* the client already sent "didn't answer" for its question
  seated,       \* the client is on the game page
  gone,         \* users whose connection is lost
  up            \* the server process is alive

shared == <<turnAnswers, results, gameRows, answerRows>>
threads == <<pc, handler, seen, right, shown>>
clients == <<inbox, expired, seated, gone>>
vars == <<game, shared, threads, clients, up>>

-----------------------------------------------------------------------------
NoEntry == -1

\* User::_currGame = nullptr.  Runs are numbered from 1.
NoGame == [run |-> 0, id |-> 0, players |-> {}, questionNo |-> 0,
           questions |-> <<>>, index |-> 0]

Games == [run : Nat, id : Nat, players : SUBSET User, questionNo : Nat,
          questions : Seq(Nat), index : Nat]

QuestionLate(i) == [type |-> "question", index |-> i + 1]  \* sent after a ++

QuestionEarly(i) == [type |-> "question", index |-> i - 1]  \* a message behind

Question(i) == [type |-> "question", index |-> i]
EndGame == [type |-> "end", index |-> 0]
Messages == [type : {"question", "end"}, index : Nat]

AnswerRow == [run : Nat, user : User, index : Nat,
              game : Nat, question : Nat, correct : BOOLEAN]

Steps == {"idle", "count", "store", "insert", "score",
          "turn", "advance", "finish", "send"}
Handlers == {"start", "answer", "leave"}

InGame(u) == game[u] # NoGame

\* _questions[_currQuestionIndex] lies inside the vector
HasQuestion(g) == g.index < Len(g.questions)

Busy == {u \in User : pc[u] # "idle"}

\* u's thread is waiting in recv and may take the next request
CanEnter(u) == /\ up
               /\ pc[u] = "idle"
               /\ u \notin gone
               /\ Cardinality(Busy) < MaxBusy

Enter(u, h, step) == /\ handler' = [handler EXCEPT ![u] = h]
                     /\ pc' = [pc EXCEPT ![u] = step]

\* Sending to each of S in turn; a send to a lost connection throws and is
\* swallowed by the loop.
Sent(S, m) == [v \in User |-> IF v \in S \ gone THEN Append(inbox[v], m)
                                                ELSE inbox[v]]

\* An access violation: not a C++ exception, it ends the process.
Crash == /\ up' = FALSE
         /\ UNCHANGED <<game, shared, threads, clients>>

\* The handler of u ends with result ret and u's copy as g: an answer that
\* returns false, and a departure that returns true, drop the copy.
Return(u, g, ret) ==
  /\ pc' = [pc EXCEPT ![u] = "idle"]
  /\ game' = [game EXCEPT ![u] =
                IF (handler[u] = "leave") = ret THEN NoGame ELSE g]

-----------------------------------------------------------------------------
DrawCountShort(n) == IF n <= Stock THEN n - 1 ELSE Stock  \* erases one too many

DrawCount(n) == IF n < Stock THEN n ELSE Stock

\* DataBase::initQuestions: n rows of t_questions at random, in table order,
\* or all of them when there are no more than n.
Draws(n) == {q \in [1 .. DrawCount(n) -> 1 .. Stock] :
               \A i, j \in 1 .. DrawCount(n) : i < j => q[i] < q[j]}

\* Users a room of u may hold when u starts the game: User::joinRoom turns
\* away who has a game.  A lost connection leaves its user in the room.
Rosters(u) == {S \in SUBSET User :
                 /\ u \in S
                 /\ \A v \in S \ {u} : ~InGame(v) /\ ~seated[v] /\ pc[v] = "idle"}

NewGame(S, n, q) == [run |-> Len(gameRows) + 1, id |-> InitialGames + 1,
                     players |-> S, questionNo |-> n, questions |-> q, index |-> 0]

\* handleStartGame: the Game constructor resets the counter, inserts a row and
\* gives every player a copy.  The number it takes for the row is that of a
\* private copy of the server's DataBase, whose count never moves.  A failed
\* insert leaves a game with no questions, and sending the first one crashes.
HandleStartGame(u) ==
  /\ CanEnter(u)
  /\ ~seated[u]
  /\ Len(gameRows) < MaxGames
  /\ Cardinality({game[v].run : v \in {w \in User : InGame(w)}}) < MaxLive
  /\ \/ /\ TRUE \in DbOutcomes
        /\ \E S \in Rosters(u), n \in QuestionNos : \E q \in Draws(n) :
             /\ game' = [v \in User |-> IF v \in S THEN NewGame(S, n, q) ELSE game[v]]
             /\ seated' = [v \in User |-> seated[v] \/ v \in S \ gone]
        /\ turnAnswers' = 0
        /\ gameRows' = Append(gameRows, 0)
        /\ Enter(u, "start", "send")
        /\ UNCHANGED <<results, answerRows, seen, right, shown, inbox, expired,
                       gone, up>>
     \/ FALSE \in DbOutcomes /\ Crash

\* handlePlayerAnswer up to the counter.  Without a game the request is
\* dropped; past the last question the read of _questions crashes.
HandlePlayerAnswer(u, isRight) ==
  \/ /\ ~InGame(u)
     /\ UNCHANGED <<pc, handler, right, shown, up>>
  \/ /\ InGame(u) /\ HasQuestion(game[u])
     /\ Enter(u, "answer", "count")
     /\ right' = [right EXCEPT ![u] = isRight]
     /\ shown' = [shown EXCEPT ![u] = Head(inbox[u]).index]
     /\ UNCHANGED up
  \/ /\ InGame(u) /\ ~HasQuestion(game[u])
     /\ up' = FALSE
     /\ UNCHANGED <<pc, handler, right, shown>>

Asked(u) == seated[u] /\ inbox[u] # <<>> /\ Head(inbox[u]).type = "question"

\* The player clicks: the answer goes out and the page reads the next message.
Click(u) ==
  /\ CanEnter(u)
  /\ Asked(u)
  /\ inbox' = [inbox EXCEPT ![u] = Tail(@)]
  /\ expired' = [expired EXCEPT ![u] = FALSE]
  /\ \E isRight \in BOOLEAN : HandlePlayerAnswer(u, isRight)
  /\ UNCHANGED <<game, shared, seen, seated, gone>>

\* The clock reaches zero: answer 5 goes out, and the page stays as it is, its
\* buttons enabled, the next question unread.
TimeOut(u) ==
  /\ Timeouts
  /\ CanEnter(u)
  /\ Asked(u)
  /\ ~expired[u]
  /\ expired' = [expired EXCEPT ![u] = TRUE]
  /\ HandlePlayerAnswer(u, FALSE)
  /\ UNCHANGED <<game, shared, seen, inbox, seated, gone>>

\* _currentTurnAnswers++ is a read ...
ReadCounter(u) ==
  /\ up /\ pc[u] = "count"
  /\ seen' = [seen EXCEPT ![u] = turnAnswers]
  /\ pc' = [pc EXCEPT ![u] = "store"]
  /\ UNCHANGED <<game, shared, handler, right, shown, clients, up>>

\* ... and a write; then _results is searched for the user.
StoreCounter(u) ==
  /\ up /\ pc[u] = "store"
  /\ turnAnswers' = seen[u] + 1
  /\ pc' = [pc EXCEPT ![u] = IF results[u] = NoEntry THEN "insert" ELSE "score"]
  /\ UNCHANGED <<game, results, gameRows, answerRows, handler, seen, right,
                 shown, clients, up>>

\* Two inserts into one std::map at once are undefined: the mutex is a member
\* of the private copy and excludes nobody.
InsertResult(u) ==
  /\ up /\ pc[u] = "insert"
  /\ results' = [results EXCEPT ![u] = 0]
  /\ pc' = [pc EXCEPT ![u] = "score"]
  /\ \/ UNCHANGED up
     \/ /\ \E v \in User \ {u} : pc[v] = "insert"
        /\ up' = FALSE
  /\ UNCHANGED <<game, turnAnswers, gameRows, answerRows, handler, seen, right,
                 shown, clients>>

\* The row of t_players_answers: its question is the INDEX of the question for
\* a correct answer and the row number of the question for any other.
RowOf(u) == [run |-> game[u].run, user |-> u, index |-> game[u].index,
             game |-> game[u].id, correct |-> right[u],
             question |-> IF right[u] THEN game[u].index
                          ELSE game[u].questions[game[u].index + 1]]

\* The score, the row and the reply.  A reply to a lost connection throws out
\* of the handler, and the thread ends before the turn is played.
ScoreAnswer(u) ==
  /\ up /\ pc[u] = "score"
  /\ results' = [results EXCEPT ![u] = IF right[u] THEN @ + 1 ELSE @]
  /\ \E ok \in DbOutcomes :
       answerRows' = IF ok THEN answerRows \cup {RowOf(u)} ELSE answerRows
  /\ \/ pc' = [pc EXCEPT ![u] = "turn"]
     \/ u \in gone /\ pc' = [pc EXCEPT ![u] = "idle"]
  /\ UNCHANGED <<game, turnAnswers, gameRows, handler, seen, right, shown,
                 clients, up>>

-----------------------------------------------------------------------------
Next1Stays(g) == g  \* the index is not moved

Next1(g) == [g EXCEPT !.index = @ + 1]

EveryoneCountedEarly(g) == Cardinality(g.players) <= turnAnswers + 1

EveryoneCountedNever(g) == Cardinality(g.players) < turnAnswers

EveryoneCounted(g) == Cardinality(g.players) = turnAnswers

\* handleNextTurn, the decision: the game is over, or the turn is, or the
\* player is ahead of the others, who have yet to answer.
NextTurn(u) ==
  LET g == game[u]
      over == \/ g.players = {}
              \/ EveryoneCounted(g) /\ g.questionNo = g.index + 1
  IN
  /\ up /\ pc[u] = "turn"
  /\ \/ /\ over
        /\ pc' = [pc EXCEPT ![u] = "finish"]
        /\ UNCHANGED game
     \/ /\ ~over /\ EveryoneCounted(g)
        /\ pc' = [pc EXCEPT ![u] = "advance"]
        /\ UNCHANGED game
     \/ /\ ~over /\ ~EveryoneCounted(g)
        /\ \E ret \in Fallthrough : Return(u, Next1(g), ret)
  /\ UNCHANGED <<shared, handler, seen, right, shown, clients, up>>

\* Everyone answered and questions remain.
AdvanceTurn(u) ==
  /\ up /\ pc[u] = "advance"
  /\ game' = [game EXCEPT ![u] = Next1(@)]
  /\ turnAnswers' = 0
  /\ pc' = [pc EXCEPT ![u] = "send"]
  /\ UNCHANGED <<results, gameRows, answerRows, handler, seen, right, shown,
                 clients, up>>

\* sendQuestionToAllUsers, the last step of a start and of an advance.
SendQuestion(u) ==
  /\ up /\ pc[u] = "send"
  /\ \/ /\ HasQuestion(game[u])
        /\ inbox' = Sent(game[u].players, Question(game[u].index))
        /\ Return(u, game[u], TRUE)
        /\ UNCHANGED <<shared, handler, seen, right, shown, expired, seated, gone, up>>
     \/ /\ ~HasQuestion(game[u])
        /\ Crash

\* handleFinishGame.  Looking up a player without a result dereferences end().
FinishGame(u) ==
  /\ up /\ pc[u] = "finish"
  /\ \E ok \in DbOutcomes :
       gameRows' = IF ok THEN [gameRows EXCEPT ![game[u].id - InitialGames] = 1]
                         ELSE gameRows
  /\ inbox' = Sent(game[u].players, EndGame)
  /\ Return(u, game[u], FALSE)
  /\ \/ UNCHANGED up
     \/ /\ \E p \in game[u].players : results[p] = NoEntry
        /\ up' = FALSE
  /\ UNCHANGED <<turnAnswers, results, answerRows, handler, seen, right, shown,
                 expired, seated, gone>>

\* The client that reads the end of the game sends a leave request and goes
\* home.  handleLeaveGame takes the user out of its own copy only; without a
\* game it changes nothing, whatever User::leaveGame returns.
HandleLeaveGame(u) ==
  /\ CanEnter(u)
  /\ seated[u] /\ inbox[u] # <<>> /\ Head(inbox[u]) = EndGame
  /\ inbox' = [inbox EXCEPT ![u] = Tail(@)]
  /\ seated' = [seated EXCEPT ![u] = FALSE]
  /\ game' = [game EXCEPT ![u].players = @ \ {u}]
  /\ IF u \in game[u].players
       THEN Enter(u, "leave", "turn")
       ELSE UNCHANGED <<pc, handler>>
  /\ UNCHANGED <<shared, seen, right, shown, expired, gone, up>>

\* A connection is lost.  handleSignout forgets the socket; the User object
\* stays in every list of players that holds it.
Vanish(u) ==
  /\ up
  /\ u \in MayVanish \ gone
  /\ gone' = gone \cup {u}
  /\ inbox' = [inbox EXCEPT ![u] = <<>>]
  /\ seated' = [seated EXCEPT ![u] = FALSE]
  /\ UNCHANGED <<game, shared, threads, expired, up>>

-----------------------------------------------------------------------------
Init ==
  /\ game = [u \in User |-> NoGame]
  /\ turnAnswers = 0
  /\ results = [u \in User |-> NoEntry]
  /\ gameRows = <<>>
  /\ answerRows = {}
  /\ pc = [u \in User |-> "idle"]
  /\ handler = [u \in User |-> "start"]
  /\ seen = [u \in User |-> 0]
  /\ right = [u \in User |-> FALSE]
  /\ shown = [u \in User |-> 0]
  /\ inbox = [u \in User |-> <<>>]
  /\ expired = [u \in User |-> FALSE]
  /\ seated = [u \in User |-> FALSE]
  /\ gone = {}
  /\ up = TRUE

\* What a thread does on its own once it has taken a request.
Continue(u) == \/ ReadCounter(u) \/ StoreCounter(u) \/ InsertResult(u)
               \/ ScoreAnswer(u) \/ NextTurn(u) \/ AdvanceTurn(u)
               \/ SendQuestion(u) \/ FinishGame(u)

Next == \E u \in User : \/ HandleStartGame(u)
                        \/ Click(u)
                        \/ TimeOut(u)
                        \/ HandleLeaveGame(u)
                        \/ Continue(u)
                        \/ Vanish(u)

\* Threads are scheduled, players answer the question they see, and a client
\* leaves a finished game by itself.
Fairness == \A u \in User : /\ WF_vars(Continue(u))
                            /\ WF_vars(Click(u))
                            /\ WF_vars(HandleLeaveGame(u))

Spec == Init /\ [][Next]_vars
FairSpec == Spec /\ Fairness

-----------------------------------------------------------------------------
(* Properties *)

\* Every variable keeps its type.
TypeOK ==
  /\ game \in [User -> Games]
  /\ turnAnswers \in Nat
  /\ results \in [User -> Nat \cup {NoEntry}]
  /\ gameRows \in Seq({0, 1})
  /\ answerRows \subseteq AnswerRow
  /\ pc \in [User -> Steps]
  /\ handler \in [User -> Handlers]
  /\ seen \in [User -> Nat]
  /\ right \in [User -> BOOLEAN]
  /\ shown \in [User -> Nat]
  /\ inbox \in [User -> Seq(Messages)]
  /\ expired \in [User -> BOOLEAN]
  /\ seated \in [User -> BOOLEAN]
  /\ gone \subseteq User
  /\ up \in BOOLEAN

\* The steps in which a thread judges the answer it took
Judging == {"count", "store", "insert", "score"}

\* A question is recorded at most once per player and game, whatever the
\* threads interleave, late clicks and lost connections included: a thread that
\* may still judge an answer holds a copy whose index is above every index its
\* user has a row for.  (handleAnswerFromUser, the index of the private copy.)
RowsBelowIndex ==
  \A u \in User : \A row \in answerRows :
    (/\ row.user = u /\ row.run = game[u].run
     /\ pc[u] \in Judging \cup {"idle"}
     /\ u \notin gone)
    => row.index < game[u].index

\* A player with a question it has sent no answer to
Unanswered(u) ==
  \E i \in 1 .. Len(inbox[u]) :
    inbox[u][i].type = "question" /\ ~(i = 1 /\ expired[u])

\* Game.cpp:115, "If everyone answered": the player whose answer ends a turn, or
\* the game, leaves no other player with a question before it.
EveryoneAnswered ==
  \A u \in User : pc[u] \in {"advance", "finish"} =>
    \A p \in game[u].players \ (gone \cup {u}) : ~Unanswered(p)

\* An answer is judged against the question its player was looking at.
JudgedAsShown ==
  \A u \in User : pc[u] \in Judging => shown[u] = game[u].index

\* While a game has copies and no thread is busy, some player of it has been
\* sent a message it can act on: players never all wait for one another.
NoStall ==
  (up /\ Busy = {}) =>
    \A u \in User : InGame(u) =>
      \E p \in game[u].players : inbox[p] # <<>>

\* The process survives: every index is inside its vector, every player that is
\* reported has a result, and no two threads insert into the map at once.
ServerUp == up

\* Who is seated at a game sees its end and is free for another.
GamesEnd == \A u \in User : seated[u] ~> (~seated[u] /\ ~InGame(u))

-----------------------------------------------------------------------------
(* The quiz it implements when answers are paced and games do not overlap. *)

\* Who holds a copy with questions left
Contest == {u \in User : InGame(u) /\ game[u].index < game[u].questionNo}

\* The round is the index of the copies that are furthest behind.
Round == IF Contest = {} THEN 0
         ELSE CHOOSE i \in {game[u].index : u \in Contest} :
                \A u \in Contest : i <= game[u].index

\* Copies of a contest past its last question belong to players who are done.
Contestants == UNION {game[u].players : u \in Contest}

QuizView == INSTANCE Quiz WITH
  Player   <- User,
  Lengths  <- QuestionNos,
  players  <- Contestants,
  length   <- IF Contest = {} THEN 0
              ELSE CHOOSE n \in QuestionNos : \E u \in Contest : game[u].questionNo = n,
  round    <- Round,
  answered <- {p \in Contestants : game[p].index > Round}

\* Every behaviour is one of the abstract quiz: rounds in lockstep, each player
\* answering each exactly once, and every contest played to its end.
ImplementsQuiz == QuizView!Spec

=============================================================================
