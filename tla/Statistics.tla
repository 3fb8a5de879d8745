------------------------------ MODULE Statistics ------------------------------
(***************************************************************************)
(* The tables of the database and what the server shows of them            *)
(* (Database.cpp and the two handlers that ask for statistics), over       *)
(* several runs of the server on one file.                                 *)
(*                                                                         *)
(* The constructor makes the tables only where there is no file yet, one   *)
(* statement after the other, and then counts the rows of t_games.  The    *)
(* server may be killed between any two statements; the file stays.        *)
(* How the players of a game wait for one another is GameEngine's matter:  *)
(* here each answers when it likes.                                        *)
(***************************************************************************)
EXTENDS Integers, FiniteSets, Sequences

CONSTANTS
  User,          \* the users
  Stock,         \* questions the constructor inserts
  QuestionNos,   \* numbers of questions people ask for: 0 .. 10 in the client
  WriteOutcomes, \* whether the insert of an answer may succeed, may fail
  MaxGames,      \* bound: rows of t_games
  MaxAnswers,    \* bound: rows of t_players_answers
  MaxRuns        \* bound: runs of the server

ASSUME StatisticsAssumption ==
  /\ IsFiniteSet(User)
  /\ Stock \in Nat
  /\ QuestionNos \subseteq Nat
  /\ WriteOutcomes \subseteq BOOLEAN
  /\ MaxGames \in Nat /\ MaxAnswers \in Nat /\ MaxRuns \in Nat

VARIABLES
  made,              \* statements of the constructor the file has, or NoFile
  t_games,           \* its rows in the order of game_id (run and asked are history)
  t_players_answers, \* its rows (row and index are history)
  process,           \* the server process
  _currGameId,       \* the count of games of the server's DataBase
  game,              \* what each user plays
  answer,            \* the answer whose result a user is still to be told
  reply,             \* the statistics sent in the last step
  run,               \* history: runs of the server that began
  told               \* history: results told to each user

file == <<made, t_games, t_players_answers>>
history == <<run, told>>
vars == <<file, process, _currGameId, game, answer, reply, history>>

-----------------------------------------------------------------------------
(* The statements of the constructor *)
NoFile == -1
TQuestions == 1
TGames == 2
TUsers == 3
TPlayersAnswers == 4
Statements == TPlayersAnswers + Stock

\* Rows of t_questions
Questions == IF made > TPlayersAnswers THEN made - TPlayersAnswers ELSE 0

\* asked is the number of questions the game was started for.
GameRow == [status : {0, 1}, run : Nat, asked : Nat]

AnswerRow == [game_id : Nat, username : User, question_id : Nat,
              is_correct : BOOLEAN, row : Nat, index : Nat]

\* row is history: the row of t_games that was inserted for the game.
Game == [row : Nat, id : Nat, questionNo : Nat, questions : Seq(Nat), index : Nat]
NoGame == [row |-> 0, id |-> 0, questionNo |-> 0, questions |-> <<>>, index |-> 0]

\* How a process ends: killed from outside, by its own exit, or by following a
\* null pointer or an index to where there are no answers or is no question.
Ended == {"killed", "exited", "noAnswers", "noQuestion"}

Answers == {"none", "right", "wrong"}

NoReply == [type |-> "none"]

InGame(u) == game[u] # NoGame
AnsweredButLast(g) == g.index + 1 >= Len(g.questions)  \* the last one is not waited for

Answered(g) == g.index = Len(g.questions)
Playing(r) == {u \in User : InGame(u) /\ game[u].row = r}

-----------------------------------------------------------------------------
(* The process *)

CountRowsNever == 0  \* starts from nothing every time

CountRowsShort == Len(t_games) - 1  \* counts from -1

\* "Select * From t_games", or nothing when there is no such table
CountRows == Len(t_games)

Served == /\ process' = "up"
          /\ _currGameId' = CountRows

\* The constructor of DataBase up to the first statement, or to the end when
\* there is a file.
Start ==
  /\ process \in Ended
  /\ run < MaxRuns
  /\ run' = run + 1
  /\ \/ /\ made = NoFile
        /\ made' = 0
        /\ process' = "setup"
        /\ UNCHANGED _currGameId
     \/ /\ made # NoFile
        /\ Served
        /\ UNCHANGED made
  /\ reply' = NoReply
  /\ UNCHANGED <<t_games, t_players_answers, game, answer, told>>

\* The next statement of the constructor.  One that fails ends the process.
Setup ==
  /\ process = "setup"
  /\ \/ /\ made < Statements
        /\ made' = made + 1
        /\ UNCHANGED <<process, _currGameId>>
     \/ /\ made < Statements
        /\ process' = "exited"
        /\ UNCHANGED <<made, _currGameId>>
     \/ /\ made = Statements
        /\ Served
        /\ UNCHANGED made
  /\ reply' = NoReply
  /\ UNCHANGED <<t_games, t_players_answers, game, answer, history>>

\* What is in memory is lost.
Ends(how) == /\ process' = how
             /\ game' = [u \in User |-> NoGame]
             /\ answer' = [u \in User |-> "none"]
             /\ reply' = NoReply

Killed ==
  /\ process \in {"setup", "up"}
  /\ Ends("killed")
  /\ UNCHANGED <<file, _currGameId, history>>

-----------------------------------------------------------------------------
(* Games *)

Increasing(k) == {q \in [1 .. k -> 1 .. Questions] :
                    \A i, j \in 1 .. k : i < j => q[i] < q[j]}

DrawsShort(n) == Increasing(IF n <= Questions THEN n - 1 ELSE Questions)  \* one too few

\* initQuestions: some rows of t_questions in order, all of them when there are
\* no more than n.
Draws(n) == Increasing(IF n < Questions THEN n ELSE Questions)

\* The number a game takes: the count of a private copy, incremented
Number == _currGameId + 1

\* Game::Game and sendFirstQuestion.  Users exist once their table does.  Without
\* a question, in the table or asked for, the first one is read past the end of a
\* vector.
StartGame(S, n) ==
  /\ process = "up"
  /\ made >= TUsers
  /\ S # {} /\ \A u \in S : ~InGame(u)
  /\ Len(t_games) < MaxGames
  /\ t_games' = Append(t_games, [status |-> 0, run |-> run, asked |-> n])
  /\ \/ /\ Questions > 0 /\ n > 0
        /\ \E q \in Draws(n) :
             game' = [u \in User |->
                        IF u \in S THEN [row |-> Len(t_games'), id |-> Number,
                                         questionNo |-> n, questions |-> q, index |-> 0]
                        ELSE game[u]]
        /\ reply' = NoReply
        /\ UNCHANGED <<process, answer>>
     \/ /\ Questions = 0 \/ n = 0
        /\ Ends("noQuestion")
  /\ UNCHANGED <<made, t_players_answers, _currGameId, history>>

\* The question of a right answer is its index, that of a wrong one its number.
RowOf(u, right) ==
  LET g == game[u] IN
  [game_id |-> g.id, username |-> u,
   question_id |-> IF right THEN g.index ELSE g.questions[g.index + 1],
   is_correct |-> right, row |-> g.row, index |-> g.index]

\* handleAnswerFromUser up to the reply.  Nobody looks whether the row was
\* inserted.
AddAnswerToPlayer(u) ==
  /\ process = "up"
  /\ InGame(u) /\ ~Answered(game[u]) /\ answer[u] = "none"
  /\ Cardinality(t_players_answers) < MaxAnswers
  /\ \E right \in BOOLEAN, ok \in WriteOutcomes :
       /\ answer' = [answer EXCEPT ![u] = IF right THEN "right" ELSE "wrong"]
       /\ t_players_answers' = IF ok THEN t_players_answers \cup {RowOf(u, right)}
                               ELSE t_players_answers
  /\ reply' = NoReply
  /\ UNCHANGED <<made, t_games, process, _currGameId, game, history>>

\* The reply, and the player's next question.
TellResult(u) ==
  /\ process = "up"
  /\ answer[u] # "none"
  /\ answer' = [answer EXCEPT ![u] = "none"]
  /\ told' = [told EXCEPT ![u][answer[u] = "right"] = @ + 1]
  /\ game' = [game EXCEPT ![u].index = @ + 1]
  /\ reply' = NoReply
  /\ UNCHANGED <<file, process, _currGameId, run>>

\* Everyone answered the last question there is.  updateGameStatus takes the row
\* with the number of the game; a game that was promised more questions reads
\* past the end of a vector.
EndGame(u) ==
  LET g == game[u]
      S == Playing(g.row)
  IN
  /\ process = "up"
  /\ InGame(u)
  /\ \A v \in S : Answered(game[v]) /\ answer[v] = "none"
  /\ \/ /\ Len(g.questions) = g.questionNo
        /\ t_games' = [t_games EXCEPT ![g.id].status = 1]
        /\ game' = [v \in User |-> IF v \in S THEN NoGame ELSE game[v]]
        /\ reply' = NoReply
        /\ UNCHANGED <<process, answer>>
     \/ /\ Len(g.questions) < g.questionNo
        /\ Ends("noQuestion")
        /\ UNCHANGED t_games
  /\ UNCHANGED <<made, t_players_answers, _currGameId, history>>

-----------------------------------------------------------------------------
(* Statistics *)

RowsOf(u) == {a \in t_players_answers : a.username = u}
Correct(u) == Cardinality({a \in RowsOf(u) : a.is_correct})
Scorers == {u \in User : RowsOf(u) # {}}

Three == IF Cardinality(Scorers) < 3 THEN Cardinality(Scorers) ELSE 3

\* GROUP BY username ORDER BY correctAns LIMIT 3, ascending; ties fall anyhow.
Selected == {L \in SUBSET Scorers :
               /\ Cardinality(L) = Three
               /\ \A u \in L, v \in Scorers \ L : Correct(u) <= Correct(v)}

\* No comparison: the order of the statement.
PairCompareUp(u, v) == Correct(u) < Correct(v)

PairCompare(u, v) == Correct(u) > Correct(v)

\* std::sort: the orders in which nobody is before its better.
Sorted(L) == {order \in [1 .. Cardinality(L) -> L] :
                \A i, j \in 1 .. Cardinality(L) :
                  i < j => order[i] # order[j] /\ ~PairCompare(order[j], order[i])}

\* u is signed in and on a page of its own.
MayAsk(u) == process = "up" /\ made >= TUsers /\ ~InGame(u)

\* handleGetBestScores
HandleGetBestScores(u) ==
  /\ MayAsk(u)
  /\ \E L \in Selected : \E order \in Sorted(L) :
       reply' = [type |-> "best",
                 board |-> [i \in DOMAIN order |-> [name |-> order[i], score |-> Correct(order[i])]]]
  /\ UNCHANGED <<file, process, _currGameId, game, answer, history>>

GamesColumnLeast(u) == CHOOSE n \in {a.game_id : a \in RowsOf(u)} :  \* MIN
                         \A a \in RowsOf(u) : a.game_id >= n

\* MAX(game_id)
GamesColumn(u) == CHOOSE n \in {a.game_id : a \in RowsOf(u)} :
                    \A a \in RowsOf(u) : a.game_id <= n

WrongOfAll(u) == Cardinality({a \in t_players_answers : ~a.is_correct})  \* no WHERE

\* The count of question_id less the right answers
Wrong(u) == Cardinality(RowsOf(u)) - Correct(u)

\* handleGetPersonalStatus.  Without rows the sums are NULL, and a string is made
\* from a null pointer.
HandleGetPersonalStatus(u) ==
  /\ MayAsk(u)
  /\ \/ /\ u \in Scorers
        /\ reply' = [type |-> "status", user |-> u, games |-> GamesColumn(u),
                     correct |-> Correct(u), wrong |-> Wrong(u)]
        /\ UNCHANGED <<process, game, answer>>
     \/ /\ u \notin Scorers
        /\ Ends("noAnswers")
  /\ UNCHANGED <<file, _currGameId, history>>

-----------------------------------------------------------------------------
Init ==
  /\ made = NoFile
  /\ t_games = <<>>
  /\ t_players_answers = {}
  /\ process = "exited"
  /\ _currGameId = 0
  /\ game = [u \in User |-> NoGame]
  /\ answer = [u \in User |-> "none"]
  /\ reply = NoReply
  /\ run = 0
  /\ told = [u \in User |-> [right \in BOOLEAN |-> 0]]

Next ==
  \/ Start \/ Setup \/ Killed
  \/ \E S \in SUBSET User, n \in QuestionNos : StartGame(S, n)
  \/ \E u \in User : \/ AddAnswerToPlayer(u) \/ TellResult(u) \/ EndGame(u)
                    \/ HandleGetBestScores(u) \/ HandleGetPersonalStatus(u)

Spec == Init /\ [][Next]_vars

-----------------------------------------------------------------------------
(* Properties *)

\* Every variable keeps its type.
TypeOK ==
  /\ made \in {NoFile} \cup 0 .. Statements
  /\ t_games \in Seq(GameRow)
  /\ t_players_answers \subseteq AnswerRow
  /\ process \in Ended \cup {"setup", "up"}
  /\ _currGameId \in Nat
  /\ game \in [User -> Game]
  /\ answer \in [User -> Answers]
  /\ run \in Nat
  /\ told \in [User -> [BOOLEAN -> Nat]]

\* Whatever the server is killed in the middle of, the game_id of an answer is
\* that of a game of the same run of the server: numbers are taken again within a
\* run (Game.cpp:14) and never across a restart (Database.cpp:73-87).
RunsApart ==
  \A a \in t_players_answers :
    /\ a.game_id \in DOMAIN t_games
    /\ t_games[a.game_id].run = t_games[a.row].run

\* The board names different users with their true scores, best first, and
\* everybody who ever answered if there are three of them or fewer: the order of
\* the statement is undone in memory (Database.cpp:237, 264).
BoardHonest ==
  reply.type = "best" =>
    LET shown == reply.board IN
    /\ \A i \in DOMAIN shown : shown[i].score = Correct(shown[i].name)
    /\ \A i, j \in DOMAIN shown :
         i < j => shown[i].score >= shown[j].score /\ shown[i].name # shown[j].name
    /\ Cardinality(Scorers) <= 3 => {shown[i].name : i \in DOMAIN shown} = Scorers

\* The number of games a user is shown is at least that of the runs of the server
\* it answered in, and at most that of all games: it is the largest number of a
\* game, and numbers neither repeat after a restart nor run ahead of the table.
GamesShownBetween ==
  reply.type = "status" =>
    /\ reply.games >= Cardinality({t_games[a.row].run : a \in RowsOf(reply.user)})
    /\ reply.games <= Len(t_games)

\* A row of t_games says its game has ended only if somebody answered, and has in
\* the table, every question a game of that run was started for, of one at least:
\* not for a game that a restart cut off, not for one that ran out of questions (more
\* asked for than there are rows, of a stock or of a file cut short).  The number by
\* which the row is taken is shared by all games of the run (Game.cpp:14, Game.cpp:194).
EndedInFull ==
  \A i \in DOMAIN t_games : t_games[i].status = 1 =>
    \E r \in DOMAIN t_games, u \in User :
      /\ t_games[r].run = t_games[i].run /\ t_games[r].asked > 0
      /\ \A k \in 0 .. t_games[r].asked - 1 :
           \E a \in RowsOf(u) : a.row = r /\ a.index = k

\* What the statements compute is the tally of Scoreboard: an answer moves one
\* number of one user by one, restarts lose nothing, and a player is told of an
\* answer only when it counts.
Tally == INSTANCE Scoreboard WITH
  Player <- User,
  tally  <- [u \in User |-> [right \in BOOLEAN |-> IF right THEN Correct(u) ELSE Wrong(u)]]

ImplementsScoreboard == Tally!Spec

\* Database.cpp:237, "need to get the top 3 best players with the most correct
\* answers": nobody who is left out did better than somebody on the board.
BoardIsBest ==
  reply.type = "best" =>
    LET shown == reply.board IN
    \A u \in Scorers \ {shown[i].name : i \in DOMAIN shown} :
      \A i \in DOMAIN shown : Correct(u) <= shown[i].score

=============================================================================
