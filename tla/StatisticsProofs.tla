--------------------------- MODULE StatisticsProofs ---------------------------
(***************************************************************************)
(* Proofs about Statistics, for every set of users, every stock of         *)
(* questions and every number of games, answers and runs of the server.    *)
(***************************************************************************)
EXTENDS Statistics, FiniteSetTheorems, TLAPS

\* Nobody is past the last question, and who waits for a result is before it.
IndexInRange ==
  \A u \in User : /\ game[u].index <= Len(game[u].questions)
                  /\ answer[u] # "none" => game[u].index < Len(game[u].questions)

\* The rows of t_games after the count the server began with are those of this
\* run, and no row is of a later one.
RunsCounted ==
  /\ \A i \in DOMAIN t_games : t_games[i].run <= run
  /\ process = "setup" => \A i \in DOMAIN t_games : t_games[i].run < run
  /\ process = "up" => /\ _currGameId <= Len(t_games)
                       /\ \A i \in DOMAIN t_games : i > _currGameId <=> t_games[i].run = run

\* A game in memory has a row of this run, and so has the number it goes by.
GamesOfThisRun ==
  \A u \in User : InGame(u) =>
    /\ process = "up"
    /\ game[u].row \in _currGameId + 1 .. Len(t_games)
    /\ game[u].id \in _currGameId + 1 .. Len(t_games)

\* The games an answer names, by its row and by its number, are of one run.
AnswersResolve ==
  \A a \in t_players_answers :
    /\ a.game_id \in DOMAIN t_games /\ a.row \in DOMAIN t_games
    /\ t_games[a.game_id].run = t_games[a.row].run

\* The inductive invariant
RunsInv == TypeOK /\ IndexInRange /\ RunsCounted /\ GamesOfThisRun /\ AnswersResolve

-----------------------------------------------------------------------------
(* Facts about the data *)

LEMMA CountsAreNumbers ==
  ASSUME TypeOK
  PROVE  Statements \in Nat /\ Questions \in Nat
BY StatisticsAssumption DEF TypeOK, Statements, Questions, TPlayersAnswers, NoFile

\* The questions drawn for a game are a sequence of row numbers.
LEMMA DrawsAreSequences ==
  ASSUME TypeOK, NEW n \in Nat, NEW q \in Draws(n)
  PROVE  q \in Seq(Nat)
<1> DEFINE k == IF n < Questions THEN n ELSE Questions
<1>1. k \in Nat /\ Questions \in Nat
  BY CountsAreNumbers
<1>2. q \in [1 .. k -> 1 .. Questions]
  BY DEF Draws, Increasing
<1>3. q \in [1 .. k -> Nat]
  BY <1>1, <1>2
<1> QED
  BY <1>1, <1>3

LEMMA RunsAreNumbers ==
  ASSUME TypeOK
  PROVE  \A i \in DOMAIN t_games : t_games[i].run \in Nat
<1> SUFFICES ASSUME NEW i \in DOMAIN t_games
             PROVE  t_games[i].run \in Nat
  OBVIOUS
<1>1. t_games \in Seq(GameRow)
  BY DEF TypeOK
<1>2. t_games[i] \in GameRow
  BY <1>1
<1> QED
  BY <1>2 DEF GameRow

\* Below the length of a sequence of numbers there is another one.
LEMMA NextNumber ==
  ASSUME NEW s \in Seq(Nat), NEW i \in Nat, i < Len(s)
  PROVE  s[i + 1] \in Nat
OBVIOUS

\* Moving on changes nothing but the index.
LEMMA IndexMoves ==
  ASSUME NEW g \in Game, NEW h, h = [g EXCEPT !.index = @ + 1]
  PROVE  /\ h \in Game
         /\ h.index = g.index + 1 /\ h.questions = g.questions
         /\ h.row = g.row /\ h.id = g.id
BY DEF Game

LEMMA OneMore ==
  ASSUME NEW f \in [BOOLEAN -> Nat], NEW r \in BOOLEAN
  PROVE  [f EXCEPT ![r] = @ + 1] \in [BOOLEAN -> Nat]
<1>1. f[r] \in Nat
  OBVIOUS
<1>2. f[r] + 1 \in Nat
  BY <1>1
<1> QED
  BY <1>2, Zenon

LEMMA NoGameIsAGame == NoGame \in Game
<1>1. <<>> \in Seq(Nat)
  OBVIOUS
<1> QED
  BY <1>1 DEF NoGame, Game

LEMMA NoGameIsEmpty ==
  /\ NoGame.index = 0 /\ NoGame.row = 0 /\ NoGame.id = 0
  /\ NoGame.questions = <<>> /\ Len(NoGame.questions) = 0
BY DEF NoGame

\* A row that is appended changes no other.
LEMMA AppendKeepsRows ==
  ASSUME NEW s \in Seq(GameRow), NEW r \in GameRow
  PROVE  /\ Append(s, r) \in Seq(GameRow)
         /\ Len(Append(s, r)) = Len(s) + 1
         /\ DOMAIN s = 1 .. Len(s)
         /\ DOMAIN Append(s, r) = 1 .. Len(s) + 1
         /\ \A i \in DOMAIN s : Append(s, r)[i] = s[i]
         /\ Append(s, r)[Len(s) + 1] = r
OBVIOUS

\* A change of status keeps what else the rows say, and the other rows.
LEMMA StatusKeepsRuns ==
  ASSUME NEW s \in Seq(GameRow), NEW k
  PROVE  LET t == [s EXCEPT ![k].status = 1] IN
         /\ t \in Seq(GameRow)
         /\ Len(t) = Len(s)
         /\ DOMAIN t = DOMAIN s
         /\ \A i \in DOMAIN s : /\ t[i].run = s[i].run /\ t[i].asked = s[i].asked
                                /\ i # k => t[i].status = s[i].status
<1> DEFINE t == [s EXCEPT ![k].status = 1]
<1>1. DOMAIN t = 1 .. Len(s) /\ Len(s) \in Nat
  OBVIOUS
<1>2. ASSUME NEW i \in 1 .. Len(s)
      PROVE  /\ t[i] \in GameRow /\ t[i].run = s[i].run /\ t[i].asked = s[i].asked
             /\ i # k => t[i].status = s[i].status
  <2>1. s[i] \in GameRow
    OBVIOUS
  <2>2. /\ [s[i] EXCEPT !.status = 1] \in GameRow /\ [s[i] EXCEPT !.status = 1].run = s[i].run
        /\ [s[i] EXCEPT !.status = 1].asked = s[i].asked
    BY <2>1 DEF GameRow
  <2>3. /\ t[i] = s[i] \/ t[i] = [s[i] EXCEPT !.status = 1]
        /\ i # k => t[i] = s[i]
    OBVIOUS
  <2> QED
    BY <2>1, <2>2, <2>3
<1>3. t \in [1 .. Len(s) -> GameRow]
  BY <1>1, <1>2
<1>4. t \in Seq(GameRow) /\ Len(t) = Len(s)
  BY <1>1, <1>3
<1> QED
  BY <1>1, <1>2, <1>4

-----------------------------------------------------------------------------
(* One lemma per action: it keeps the invariant. *)

\* A process that ends keeps nothing in memory.
LEMMA EndsKeeps ==
  ASSUME RunsInv, NEW how \in Ended, Ends(how),
         UNCHANGED <<made, _currGameId, history>>,
         t_games' \in Seq(GameRow), \A i \in DOMAIN t_games' : t_games'[i].run <= run,
         t_players_answers' \subseteq AnswerRow, AnswersResolve'
  PROVE  RunsInv'
<1> USE DEF RunsInv, Ends, history
<1>1. TypeOK'
  BY NoGameIsAGame DEF TypeOK, Answers
<1>2. \A u \in User : game'[u] = NoGame /\ answer'[u] = "none"
  OBVIOUS
<1>3. IndexInRange'
  BY <1>2, NoGameIsEmpty DEF IndexInRange
<1>4. RunsCounted'
  BY DEF RunsCounted, Ended
<1>5. GamesOfThisRun'
  BY <1>2 DEF GamesOfThisRun, InGame
<1> QED
  BY <1>1, <1>3, <1>4, <1>5

LEMMA StartKeeps ==
  ASSUME RunsInv, Start
  PROVE  RunsInv'
<1> USE DEF RunsInv, Start
<1>1. Len(t_games) \in Nat /\ DOMAIN t_games = 1 .. Len(t_games)
  BY DEF TypeOK
<1>2. TypeOK'
  BY <1>1, CountsAreNumbers DEF TypeOK, Served, CountRows
<1>3. IndexInRange'
  BY DEF IndexInRange
<1>4. \A i \in DOMAIN t_games : t_games[i].run \in Nat /\ t_games[i].run <= run
  BY RunsAreNumbers DEF RunsCounted
<1>5. RunsCounted'
  BY <1>1, <1>4 DEF TypeOK, RunsCounted, Served, CountRows
<1>6. GamesOfThisRun'
  BY DEF GamesOfThisRun, InGame, Ended
<1>7. AnswersResolve'
  BY DEF AnswersResolve
<1> QED
  BY <1>2, <1>3, <1>5, <1>6, <1>7

LEMMA SetupKeeps ==
  ASSUME RunsInv, Setup
  PROVE  RunsInv'
<1> USE DEF RunsInv, Setup, history
<1>1. Len(t_games) \in Nat /\ DOMAIN t_games = 1 .. Len(t_games)
  BY DEF TypeOK
<1>2. TypeOK'
  BY <1>1, CountsAreNumbers DEF TypeOK, Served, CountRows, NoFile, Ended
<1>3. IndexInRange'
  BY DEF IndexInRange
<1>4. process = "setup" /\ \A i \in DOMAIN t_games : t_games[i].run \in Nat /\ t_games[i].run < run
  BY RunsAreNumbers DEF RunsCounted
<1>5. RunsCounted'
  BY <1>1, <1>4 DEF TypeOK, RunsCounted, Served, CountRows
<1>6. GamesOfThisRun'
  BY DEF GamesOfThisRun, InGame
<1>7. AnswersResolve'
  BY DEF AnswersResolve
<1> QED
  BY <1>2, <1>3, <1>5, <1>6, <1>7

LEMMA KilledKeeps ==
  ASSUME RunsInv, Killed
  PROVE  RunsInv'
<1>1. "killed" \in Ended /\ Ends("killed")
  BY DEF Killed, Ended
<1>2. UNCHANGED <<made, t_games, t_players_answers, _currGameId, history>>
  BY DEF Killed, file
<1>3. AnswersResolve'
  BY <1>2 DEF RunsInv, AnswersResolve
<1>4. /\ t_games' \in Seq(GameRow)
      /\ \A i \in DOMAIN t_games' : t_games'[i].run <= run
      /\ t_players_answers' \subseteq AnswerRow
  BY <1>2 DEF RunsInv, TypeOK, RunsCounted
<1> QED
  BY <1>1, <1>2, <1>3, <1>4, EndsKeeps

LEMMA StartGameKeeps ==
  ASSUME RunsInv, NEW S \in SUBSET User, NEW n \in QuestionNos, StartGame(S, n)
  PROVE  RunsInv'
<1> DEFINE row == [status |-> 0, run |-> run, asked |-> n]
<1> USE DEF RunsInv
<1>1. /\ process = "up" /\ t_games' = Append(t_games, row)
      /\ UNCHANGED <<made, t_players_answers, _currGameId, history>>
  BY DEF StartGame
<1>2. row \in GameRow /\ t_games \in Seq(GameRow) /\ Len(t_games) \in Nat /\ run \in Nat
  BY StatisticsAssumption DEF TypeOK, GameRow
<1>3. /\ t_games' \in Seq(GameRow) /\ Len(t_games') = Len(t_games) + 1
      /\ DOMAIN t_games = 1 .. Len(t_games)
      /\ DOMAIN t_games' = 1 .. Len(t_games) + 1
      /\ \A i \in DOMAIN t_games : t_games'[i] = t_games[i]
      /\ t_games'[Len(t_games) + 1] = row
  BY <1>1, <1>2, AppendKeepsRows
<1>4. \A i \in DOMAIN t_games' : i \in DOMAIN t_games \/ i = Len(t_games) + 1
  BY <1>2, <1>3
<1>5. \A i \in DOMAIN t_games' : t_games'[i].run <= run
  BY <1>2, <1>3, <1>4 DEF RunsCounted
<1>6. AnswersResolve'
  BY <1>1, <1>2, <1>3 DEF AnswersResolve
<1>7. CASE Ends("noQuestion")
  <2>1. t_players_answers' \subseteq AnswerRow /\ "noQuestion" \in Ended
    BY <1>1 DEF TypeOK, Ended
  <2> QED
    BY <1>1, <1>3, <1>5, <1>6, <1>7, <2>1, EndsKeeps
<1>8. CASE ~Ends("noQuestion")
  <2>1. PICK q \in Draws(n) :
          /\ game' = [u \in User |->
                        IF u \in S THEN [row |-> Len(t_games'), id |-> Number,
                                         questionNo |-> n, questions |-> q, index |-> 0]
                        ELSE game[u]]
          /\ UNCHANGED <<process, answer>>
    BY <1>8 DEF StartGame
  <2>2. \A u \in S : ~InGame(u)
    BY DEF StartGame
  <2>3. n \in Nat /\ q \in Seq(Nat) /\ Len(q) \in Nat
    BY StatisticsAssumption, DrawsAreSequences
  <2>4. _currGameId \in Nat /\ _currGameId <= Len(t_games)
    BY <1>1 DEF TypeOK, RunsCounted
  <2>5. \A u \in S : /\ game'[u].row = Len(t_games) + 1 /\ game'[u].id = _currGameId + 1
                     /\ game'[u].questions = q /\ game'[u].index = 0
                     /\ game'[u] \in Game
    BY <1>2, <1>3, <2>1, <2>3, <2>4 DEF Number, Game
  <2>6. \A u \in User \ S : game'[u] = game[u]
    BY <2>1
  <2>7. TypeOK'
    BY <1>1, <1>3, <2>1, <2>5, <2>6 DEF TypeOK, history
  <2>8. \A u \in S : answer[u] = "none"
    BY <2>2, NoGameIsEmpty DEF InGame, IndexInRange
  <2>9. IndexInRange'
    BY <2>1, <2>3, <2>5, <2>6, <2>8 DEF IndexInRange
  <2>10. RunsCounted'
    BY <1>1, <1>2, <1>3, <1>4, <1>5, <2>1, <2>4 DEF RunsCounted, history
  <2>11. GamesOfThisRun'
    <3> SUFFICES ASSUME NEW u \in User, InGame(u)'
                 PROVE  /\ process' = "up"
                        /\ game'[u].row \in _currGameId' + 1 .. Len(t_games')
                        /\ game'[u].id \in _currGameId' + 1 .. Len(t_games')
      BY DEF GamesOfThisRun
    <3>1. process' = "up" /\ _currGameId' = _currGameId
      BY <1>1, <2>1
    <3>2. CASE u \in S
      BY <1>2, <1>3, <2>4, <2>5, <3>1, <3>2
    <3>3. CASE u \notin S
      <4>1. InGame(u) /\ game'[u] = game[u]
        BY <2>6, <3>3 DEF InGame
      <4>2. /\ game[u].row \in _currGameId + 1 .. Len(t_games)
            /\ game[u].id \in _currGameId + 1 .. Len(t_games)
        BY <4>1 DEF GamesOfThisRun
      <4> QED
        BY <1>2, <1>3, <2>4, <3>1, <4>1, <4>2
    <3> QED
      BY <3>2, <3>3
  <2> QED
    BY <1>6, <2>7, <2>9, <2>10, <2>11
<1> QED
  BY <1>7, <1>8

LEMMA AddAnswerKeeps ==
  ASSUME RunsInv, NEW u \in User, AddAnswerToPlayer(u)
  PROVE  RunsInv'
<1> USE DEF RunsInv
<1> DEFINE g == game[u]
<1>1. PICK right \in BOOLEAN, ok \in WriteOutcomes :
        /\ answer' = [answer EXCEPT ![u] = IF right THEN "right" ELSE "wrong"]
        /\ t_players_answers' = IF ok THEN t_players_answers \cup {RowOf(u, right)}
                                ELSE t_players_answers
  BY DEF AddAnswerToPlayer
<1>2. /\ process = "up" /\ InGame(u) /\ g.index # Len(g.questions)
      /\ UNCHANGED <<made, t_games, process, _currGameId, game, history>>
  BY DEF AddAnswerToPlayer, Answered
<1>3. g \in Game
  BY DEF TypeOK
<1>4. /\ g.index \in Nat /\ g.id \in Nat /\ g.row \in Nat
      /\ g.questions \in Seq(Nat) /\ Len(g.questions) \in Nat
  BY <1>3 DEF Game
<1>5. g.index < Len(g.questions)
  BY <1>2, <1>4 DEF IndexInRange
<1>6. g.questions[g.index + 1] \in Nat
  BY <1>4, <1>5, NextNumber
<1>7. RowOf(u, right) \in AnswerRow
  BY <1>4, <1>6 DEF RowOf, AnswerRow
<1>8. TypeOK'
  BY <1>1, <1>2, <1>7 DEF TypeOK, Answers, history
<1>9. IndexInRange'
  BY <1>1, <1>2, <1>5 DEF IndexInRange, TypeOK
<1>10. RunsCounted' /\ GamesOfThisRun'
  BY <1>2 DEF RunsCounted, GamesOfThisRun, InGame, history
<1>11. /\ g.row \in DOMAIN t_games /\ g.id \in DOMAIN t_games
       /\ t_games[g.row].run = run /\ t_games[g.id].run = run
  <2>1. _currGameId \in Nat /\ DOMAIN t_games = 1 .. Len(t_games)
    BY DEF TypeOK
  <2>2. /\ g.row \in _currGameId + 1 .. Len(t_games)
        /\ g.id \in _currGameId + 1 .. Len(t_games)
    BY <1>2 DEF GamesOfThisRun
  <2>3. /\ g.row \in DOMAIN t_games /\ g.row > _currGameId
        /\ g.id \in DOMAIN t_games /\ g.id > _currGameId
    BY <1>4, <2>1, <2>2 DEF TypeOK
  <2> QED
    BY <1>2, <2>3 DEF RunsCounted
<1>12. AnswersResolve'
  BY <1>1, <1>2, <1>11 DEF AnswersResolve, RowOf
<1> QED
  BY <1>8, <1>9, <1>10, <1>12

LEMMA TellResultKeeps ==
  ASSUME RunsInv, NEW u \in User, TellResult(u)
  PROVE  RunsInv'
<1> USE DEF RunsInv
<1>1. /\ process = "up" /\ answer[u] # "none"
      /\ answer' = [answer EXCEPT ![u] = "none"]
      /\ told' = [told EXCEPT ![u][answer[u] = "right"] = @ + 1]
      /\ game' = [game EXCEPT ![u].index = @ + 1]
      /\ UNCHANGED <<made, t_games, t_players_answers, process, _currGameId, run>>
  BY DEF TellResult, file
<1>2. /\ game'[u].index = game[u].index + 1 /\ game'[u].questions = game[u].questions
      /\ game'[u].row = game[u].row /\ game'[u].id = game[u].id
      /\ game'[u] \in Game
      /\ game[u].index \in Nat /\ Len(game[u].questions) \in Nat
  <2>1. game[u] \in Game /\ game'[u] = [game[u] EXCEPT !.index = @ + 1]
    BY <1>1 DEF TypeOK
  <2>2. game[u].index \in Nat /\ game[u].questions \in Seq(Nat)
    BY <2>1 DEF Game
  <2> QED
    BY <2>1, <2>2, IndexMoves
<1>3. \A v \in User \ {u} : game'[v] = game[v] /\ answer'[v] = answer[v]
  BY <1>1 DEF TypeOK
<1>4. answer'[u] = "none"
  BY <1>1 DEF TypeOK
<1>5. told' \in [User -> [BOOLEAN -> Nat]]
  <2> DEFINE r == answer[u] = "right"
  <2>1. r \in BOOLEAN /\ told \in [User -> [BOOLEAN -> Nat]]
    BY DEF TypeOK
  <2> HIDE DEF r
  <2>2. told[u] \in [BOOLEAN -> Nat]
    BY <2>1
  <2>3. [told[u] EXCEPT ![r] = @ + 1] \in [BOOLEAN -> Nat]
    BY <2>1, <2>2, OneMore
  <2>4. told' = [told EXCEPT ![u] = [told[u] EXCEPT ![r] = @ + 1]]
    BY <1>1, <2>1 DEF r
  <2> QED
    BY <2>1, <2>3, <2>4
<1>6. TypeOK'
  BY <1>1, <1>2, <1>5 DEF TypeOK, Answers
<1>7. IndexInRange'
  BY <1>1, <1>2, <1>3, <1>4 DEF IndexInRange
<1>8. RunsCounted' /\ AnswersResolve'
  BY <1>1 DEF RunsCounted, AnswersResolve
<1>9. InGame(u)
  BY <1>1, NoGameIsEmpty DEF InGame, IndexInRange
<1>10. GamesOfThisRun'
  BY <1>1, <1>2, <1>3, <1>9 DEF GamesOfThisRun, InGame
<1> QED
  BY <1>6, <1>7, <1>8, <1>10

LEMMA EndGameKeeps ==
  ASSUME RunsInv, NEW u \in User, EndGame(u)
  PROVE  RunsInv'
<1> USE DEF RunsInv
<1> DEFINE S == Playing(game[u].row)
<1>1. UNCHANGED <<made, t_players_answers, _currGameId, history>> /\ process = "up"
  BY DEF EndGame
<1>2. CASE Ends("noQuestion") /\ UNCHANGED t_games
  <2>1. "noQuestion" \in Ended /\ t_players_answers' \subseteq AnswerRow
    BY <1>1 DEF Ended, TypeOK
  <2>2. t_games' \in Seq(GameRow) /\ \A i \in DOMAIN t_games' : t_games'[i].run <= run
    BY <1>2 DEF TypeOK, RunsCounted
  <2>3. AnswersResolve'
    BY <1>1, <1>2 DEF AnswersResolve
  <2> QED
    BY <1>1, <1>2, <2>1, <2>2, <2>3, EndsKeeps
<1>3. CASE ~(Ends("noQuestion") /\ UNCHANGED t_games)
  <2>1. /\ t_games' = [t_games EXCEPT ![game[u].id].status = 1]
        /\ game' = [v \in User |-> IF v \in S THEN NoGame ELSE game[v]]
        /\ UNCHANGED <<process, answer>>
    BY <1>3 DEF EndGame
  <2>2. t_games \in Seq(GameRow)
    BY DEF TypeOK
  <2> DEFINE t == [t_games EXCEPT ![game[u].id].status = 1]
  <2>3. /\ t_games' \in Seq(GameRow) /\ Len(t_games') = Len(t_games)
        /\ DOMAIN t_games' = DOMAIN t_games
        /\ \A i \in DOMAIN t_games : t_games'[i].run = t_games[i].run
    <3>1. /\ t \in Seq(GameRow) /\ Len(t) = Len(t_games)
          /\ DOMAIN t = DOMAIN t_games
          /\ \A i \in DOMAIN t_games : t[i].run = t_games[i].run
      BY <2>2, StatusKeepsRuns, Zenon
    <3>2. t_games' = t
      BY <2>1
    <3> QED
      BY <3>1, <3>2, Zenon
  <2>4. \A v \in User : game'[v] \in {game[v], NoGame}
    BY <2>1
  <2>5. \A v \in S : v \in User /\ answer[v] = "none"
    BY DEF EndGame, Playing
  <2>6. TypeOK'
    BY <1>1, <2>1, <2>3, NoGameIsAGame DEF TypeOK, history
  <2>7. IndexInRange'
    BY <2>1, <2>5, NoGameIsEmpty DEF IndexInRange
  <2>8. RunsCounted'
    BY <1>1, <2>1, <2>3 DEF RunsCounted, history
  <2>9. GamesOfThisRun'
    BY <1>1, <2>1, <2>3, <2>4 DEF GamesOfThisRun, InGame
  <2>10. AnswersResolve'
    BY <1>1, <2>3 DEF AnswersResolve
  <2> QED
    BY <2>6, <2>7, <2>8, <2>9, <2>10
<1> QED
  BY <1>2, <1>3

\* What is asked changes nothing that is kept, unless the process ends of it.
LEMMA UnchangedKeeps ==
  ASSUME RunsInv, UNCHANGED <<made, t_games, t_players_answers, process, _currGameId,
                              game, answer, run, told>>
  PROVE  RunsInv'
BY DEF RunsInv, TypeOK, IndexInRange, RunsCounted, GamesOfThisRun, AnswersResolve, InGame

LEMMA HandleGetPersonalStatusKeeps ==
  ASSUME RunsInv, NEW u \in User, HandleGetPersonalStatus(u)
  PROVE  RunsInv'
<1>1. UNCHANGED <<made, t_games, t_players_answers, _currGameId, run, told>>
  BY DEF HandleGetPersonalStatus, file, history
<1>2. CASE Ends("noAnswers")
  <2>1. "noAnswers" \in Ended /\ AnswersResolve'
    BY <1>1 DEF Ended, RunsInv, AnswersResolve
  <2>2. /\ t_games' \in Seq(GameRow) /\ t_players_answers' \subseteq AnswerRow
        /\ \A i \in DOMAIN t_games' : t_games'[i].run <= run
    BY <1>1 DEF RunsInv, TypeOK, RunsCounted
  <2> QED
    BY <1>1, <1>2, <2>1, <2>2, EndsKeeps DEF history
<1>3. CASE ~Ends("noAnswers")
  BY <1>1, <1>3, UnchangedKeeps DEF HandleGetPersonalStatus
<1> QED
  BY <1>2, <1>3

LEMMA HandleGetBestScoresKeeps ==
  ASSUME RunsInv, NEW u \in User, HandleGetBestScores(u)
  PROVE  RunsInv'
BY UnchangedKeeps DEF HandleGetBestScores, file, history

LEMMA InitRuns == Init => RunsInv
<1> SUFFICES ASSUME Init
             PROVE  RunsInv
  OBVIOUS
<1> USE DEF Init
<1>1. TypeOK
  <2>1. t_games \in Seq(GameRow)
    OBVIOUS
  <2> QED
    BY <2>1, NoGameIsAGame DEF TypeOK, Ended, Answers
<1>2. IndexInRange
  BY NoGameIsEmpty DEF IndexInRange
<1>3. RunsCounted /\ GamesOfThisRun /\ AnswersResolve
  BY DEF RunsCounted, GamesOfThisRun, AnswersResolve, InGame
<1> QED
  BY <1>1, <1>2, <1>3 DEF RunsInv

LEMMA NextRuns == RunsInv /\ [Next]_vars => RunsInv'
<1> SUFFICES ASSUME RunsInv, [Next]_vars
             PROVE  RunsInv'
  OBVIOUS
<1>1. CASE UNCHANGED vars
  BY <1>1, UnchangedKeeps DEF vars, file, history
<1>2. CASE Next
  BY <1>2, StartKeeps, SetupKeeps, KilledKeeps, StartGameKeeps, AddAnswerKeeps,
     TellResultKeeps, EndGameKeeps, HandleGetBestScoresKeeps,
     HandleGetPersonalStatusKeeps DEF Next
<1> QED
  BY <1>1, <1>2

LEMMA RunsInvariant == Spec => []RunsInv
BY InitRuns, NextRuns, PTL DEF Spec

-----------------------------------------------------------------------------
\* Every variable keeps its type, wherever the server is killed.
THEOREM StatisticsTyped == Spec => []TypeOK
<1>1. RunsInv => TypeOK
  BY DEF RunsInv
<1> QED
  BY <1>1, RunsInvariant, PTL

\* The game_id of an answer is that of a game of the same run of the server,
\* wherever the server was killed (Database.cpp:73-87, Game.cpp:14).
THEOREM RunsToldApart == Spec => []RunsApart
<1>1. RunsInv => RunsApart
  BY DEF RunsInv, AnswersResolve, RunsApart
<1> QED
  BY <1>1, RunsInvariant, PTL

-----------------------------------------------------------------------------
(* The tables implement the tally of Scoreboard, as long as inserts succeed. *)

\* The rows of u's right answers
RightRows(u) == {a \in RowsOf(u) : a.is_correct}

\* A player's rows of its game are behind its index, but for the one whose
\* result it waits for.
RowsBehind ==
  \A u \in User : \A a \in RowsOf(u) :
    InGame(u) /\ a.row = game[u].row =>
      a.index < game[u].index \/ (a.index = game[u].index /\ answer[u] # "none")

\* An answer that is told, or about to be, is in the table.
ToldRecorded ==
  \A u \in User :
    /\ told[u][TRUE] + (IF answer[u] = "right" THEN 1 ELSE 0) <= Correct(u)
    /\ told[u][FALSE] + (IF answer[u] = "wrong" THEN 1 ELSE 0) <= Wrong(u)

\* The inductive invariant
TallyInv == RunsInv /\ IsFiniteSet(t_players_answers) /\ RowsBehind /\ ToldRecorded

LEMMA ToldNumbers ==
  ASSUME TypeOK, NEW u \in User, NEW r \in BOOLEAN
  PROVE  told[u][r] \in Nat
<1>1. told[u] \in [BOOLEAN -> Nat]
  BY DEF TypeOK
<1> QED
  BY <1>1

LEMMA CountsOfRows ==
  ASSUME IsFiniteSet(t_players_answers), NEW u \in User
  PROVE  /\ IsFiniteSet(RowsOf(u)) /\ IsFiniteSet(RightRows(u))
         /\ Correct(u) = Cardinality(RightRows(u))
         /\ Correct(u) \in Nat /\ Wrong(u) \in Nat
         /\ Cardinality(RowsOf(u)) \in Nat
<1>1. RowsOf(u) \in SUBSET t_players_answers
  BY DEF RowsOf
<1>2. IsFiniteSet(RowsOf(u))
  BY <1>1, FS_Subset
<1>3. RightRows(u) \in SUBSET RowsOf(u)
  BY DEF RightRows
<1>4. /\ IsFiniteSet(RightRows(u))
      /\ Cardinality(RightRows(u)) <= Cardinality(RowsOf(u))
  BY <1>2, <1>3, FS_Subset
<1>5. Cardinality(RowsOf(u)) \in Nat /\ Cardinality(RightRows(u)) \in Nat
  BY <1>2, <1>4, FS_CardinalityType
<1>6. Correct(u) = Cardinality(RightRows(u))
  BY DEF Correct, RightRows
<1> QED
  BY <1>2, <1>4, <1>5, <1>6 DEF Wrong

\* The counts depend on the table of answers alone.
LEMMA CountsKept ==
  ASSUME t_players_answers' = t_players_answers
  PROVE  \A u \in User : /\ RowsOf(u)' = RowsOf(u)
                         /\ Correct(u)' = Correct(u) /\ Wrong(u)' = Wrong(u)
BY DEF RowsOf, Correct, Wrong

\* An answer adds one row, of its player alone.
LEMMA AnswerCounted ==
  ASSUME TallyInv, WriteOutcomes = {TRUE}, NEW u \in User, AddAnswerToPlayer(u)
  PROVE  \E right \in BOOLEAN :
           /\ answer' = [answer EXCEPT ![u] = IF right THEN "right" ELSE "wrong"]
           /\ t_players_answers' = t_players_answers \cup {RowOf(u, right)}
           /\ \A v \in User \ {u} : /\ RowsOf(v)' = RowsOf(v)
                                    /\ Correct(v)' = Correct(v) /\ Wrong(v)' = Wrong(v)
           /\ RowsOf(u)' = RowsOf(u) \cup {RowOf(u, right)}
           /\ Correct(u)' = Correct(u) + (IF right THEN 1 ELSE 0)
           /\ Wrong(u)' = Wrong(u) + (IF right THEN 0 ELSE 1)
<1>1. PICK right \in BOOLEAN :
        /\ answer' = [answer EXCEPT ![u] = IF right THEN "right" ELSE "wrong"]
        /\ t_players_answers' = t_players_answers \cup {RowOf(u, right)}
  BY DEF AddAnswerToPlayer
<1> DEFINE x == RowOf(u, right)
<1>2. /\ x.username = u /\ x.row = game[u].row /\ x.index = game[u].index
      /\ x.is_correct = right
  BY DEF RowOf
<1>3. InGame(u) /\ answer[u] = "none" /\ game[u].index \in Nat
  BY DEF AddAnswerToPlayer, TallyInv, RunsInv, TypeOK, Game
<1> HIDE DEF x
<1>4. x \notin RowsOf(u)
  <2> SUFFICES ASSUME x \in RowsOf(u)
               PROVE  FALSE
    OBVIOUS
  <2>1. x.index < game[u].index
    BY <1>2, <1>3 DEF TallyInv, RowsBehind
  <2> QED
    BY <1>2, <1>3, <2>1
<1>5. t_players_answers' = t_players_answers \cup {x}
  BY <1>1 DEF x
<1>6. \A v \in User \ {u} : /\ RowsOf(v)' = RowsOf(v)
                            /\ Correct(v)' = Correct(v) /\ Wrong(v)' = Wrong(v)
  <2> SUFFICES ASSUME NEW v \in User \ {u}
               PROVE  /\ RowsOf(v)' = RowsOf(v)
                      /\ Correct(v)' = Correct(v) /\ Wrong(v)' = Wrong(v)
    OBVIOUS
  <2>1. RowsOf(v)' = RowsOf(v)
    BY <1>2, <1>5 DEF RowsOf
  <2> QED
    BY <2>1 DEF Correct, Wrong
<1>7. RowsOf(u)' = RowsOf(u) \cup {x}
  BY <1>2, <1>5 DEF RowsOf
<1>8. RightRows(u)' = IF right THEN RightRows(u) \cup {x} ELSE RightRows(u)
  <2>1. RightRows(u)' = {a \in RowsOf(u) \cup {x} : a.is_correct}
    BY <1>7 DEF RightRows
  <2>2. CASE right
    BY <1>2, <2>1, <2>2 DEF RightRows
  <2>3. CASE ~right
    BY <1>2, <2>1, <2>3 DEF RightRows
  <2> QED
    BY <2>2, <2>3
<1>9. /\ IsFiniteSet(RowsOf(u)) /\ IsFiniteSet(RightRows(u))
      /\ Correct(u) = Cardinality(RightRows(u))
      /\ Correct(u) \in Nat /\ Cardinality(RowsOf(u)) \in Nat
  BY CountsOfRows DEF TallyInv
<1>10. Cardinality(RowsOf(u) \cup {x}) = Cardinality(RowsOf(u)) + 1
  BY <1>4, <1>9, FS_AddElement
<1>11. x \notin RightRows(u)
  BY <1>4 DEF RightRows
<1>12. Cardinality(RightRows(u) \cup {x}) = Cardinality(RightRows(u)) + 1
  BY <1>9, <1>11, FS_AddElement
<1>13. Correct(u)' = Cardinality(RightRows(u)')
  BY DEF Correct, RightRows
<1>14. Correct(u)' = Correct(u) + (IF right THEN 1 ELSE 0)
  BY <1>8, <1>9, <1>12, <1>13
<1>15. Wrong(u)' = Cardinality(RowsOf(u)') - Correct(u)'
  BY DEF Wrong
<1>16. Wrong(u)' = Wrong(u) + (IF right THEN 0 ELSE 1)
  BY <1>7, <1>9, <1>10, <1>14, <1>15 DEF Wrong
<1> QED
  BY <1>1, <1>5, <1>6, <1>7, <1>14, <1>16 DEF x

\* A step that writes no answer and tells of none: games go on as they were, end,
\* or are new.
LEMMA QuietKeeps ==
  ASSUME TallyInv, RunsInv', UNCHANGED <<t_players_answers, told>>,
         \A u \in User : answer'[u] \in {answer[u], "none"},
         \A u \in User : InGame(u)' =>
           \/ game'[u] = game[u] /\ answer'[u] = answer[u]
           \/ game'[u].row \notin DOMAIN t_games
  PROVE  TallyInv'
<1> USE DEF TallyInv
<1>1. \A u \in User : /\ RowsOf(u)' = RowsOf(u)
                     /\ Correct(u)' = Correct(u) /\ Wrong(u)' = Wrong(u)
  BY CountsKept
<1>2. RowsBehind'
  <2> SUFFICES ASSUME NEW u \in User, NEW a \in RowsOf(u),
                      InGame(u)', a.row = game'[u].row
               PROVE  \/ a.index < game'[u].index
                      \/ a.index = game'[u].index /\ answer'[u] # "none"
    BY <1>1 DEF RowsBehind
  <2>1. a.row \in DOMAIN t_games
    BY DEF RunsInv, AnswersResolve, RowsOf
  <2>2. game'[u] = game[u] /\ answer'[u] = answer[u]
    BY <2>1
  <2>3. InGame(u)
    BY <2>2 DEF InGame
  <2> QED
    BY <2>2, <2>3 DEF RowsBehind
<1>3. ToldRecorded'
  <2> SUFFICES ASSUME NEW u \in User
               PROVE  /\ told[u][TRUE] + (IF answer'[u] = "right" THEN 1 ELSE 0) <= Correct(u)
                      /\ told[u][FALSE] + (IF answer'[u] = "wrong" THEN 1 ELSE 0) <= Wrong(u)
    BY <1>1 DEF ToldRecorded
  <2> DEFINE t == told[u][TRUE]
             f == told[u][FALSE]
  <2>1. t \in Nat /\ f \in Nat
    BY ToldNumbers, Zenon DEF RunsInv
  <2>2. Correct(u) \in Nat /\ Wrong(u) \in Nat
    BY CountsOfRows
  <2>3. /\ t + (IF answer[u] = "right" THEN 1 ELSE 0) <= Correct(u)
        /\ f + (IF answer[u] = "wrong" THEN 1 ELSE 0) <= Wrong(u)
    BY DEF ToldRecorded
  <2>4. answer'[u] \in {answer[u], "none"}
    OBVIOUS
  <2> HIDE DEF t, f
  <2>5. /\ t + (IF answer'[u] = "right" THEN 1 ELSE 0) <= Correct(u)
        /\ f + (IF answer'[u] = "wrong" THEN 1 ELSE 0) <= Wrong(u)
    BY <2>1, <2>2, <2>3, <2>4
  <2> QED
    BY <2>5 DEF t, f
<1> QED
  BY <1>2, <1>3

\* A process that ends has no games left to go on.
LEMMA EndsQuietly ==
  ASSUME TallyInv, RunsInv', UNCHANGED <<t_players_answers, told>>, NEW how, Ends(how)
  PROVE  TallyInv'
<1>1. \A u \in User : game'[u] = NoGame /\ answer'[u] = "none"
  BY DEF Ends
<1> QED
  BY <1>1, QuietKeeps DEF InGame

LEMMA AnswerKeepsTally ==
  ASSUME TallyInv, WriteOutcomes = {TRUE}, RunsInv', NEW u \in User, AddAnswerToPlayer(u)
  PROVE  TallyInv'
<1> USE DEF TallyInv
<1>1. PICK right \in BOOLEAN :
        /\ answer' = [answer EXCEPT ![u] = IF right THEN "right" ELSE "wrong"]
        /\ t_players_answers' = t_players_answers \cup {RowOf(u, right)}
        /\ \A v \in User \ {u} : /\ RowsOf(v)' = RowsOf(v)
                                 /\ Correct(v)' = Correct(v) /\ Wrong(v)' = Wrong(v)
        /\ RowsOf(u)' = RowsOf(u) \cup {RowOf(u, right)}
        /\ Correct(u)' = Correct(u) + (IF right THEN 1 ELSE 0)
        /\ Wrong(u)' = Wrong(u) + (IF right THEN 0 ELSE 1)
  BY AnswerCounted
<1>2. answer[u] = "none" /\ InGame(u) /\ UNCHANGED <<game, told>>
  BY DEF AddAnswerToPlayer, history
<1>3. /\ answer'[u] = IF right THEN "right" ELSE "wrong"
      /\ \A v \in User \ {u} : answer'[v] = answer[v]
  BY <1>1 DEF RunsInv, TypeOK
<1>4. IsFiniteSet(t_players_answers')
  BY <1>1, FS_AddElement
<1>5. RowsBehind'
  <2> SUFFICES ASSUME NEW v \in User, NEW a \in RowsOf(v)',
                      InGame(v)', a.row = game'[v].row
               PROVE  \/ a.index < game'[v].index
                      \/ a.index = game'[v].index /\ answer'[v] # "none"
    BY DEF RowsBehind
  <2>1. game' = game /\ InGame(v)
    BY <1>2 DEF InGame
  <2>2. CASE a \in RowsOf(v)
    BY <1>2, <1>3, <2>1, <2>2 DEF RowsBehind
  <2>3. CASE v = u /\ a = RowOf(u, right)
    BY <1>3, <2>1, <2>3 DEF RowOf
  <2> QED
    BY <1>1, <2>2, <2>3
<1>6. ToldRecorded'
  <2> SUFFICES ASSUME NEW v \in User
               PROVE  /\ told[v][TRUE] + (IF answer'[v] = "right" THEN 1 ELSE 0) <= Correct(v)'
                      /\ told[v][FALSE] + (IF answer'[v] = "wrong" THEN 1 ELSE 0) <= Wrong(v)'
    BY <1>2 DEF ToldRecorded
  <2> DEFINE t == told[v][TRUE]
             f == told[v][FALSE]
  <2>1. t \in Nat /\ f \in Nat
    BY ToldNumbers, Zenon DEF RunsInv
  <2>2. Correct(v) \in Nat /\ Wrong(v) \in Nat
    BY CountsOfRows
  <2>3. /\ t + (IF answer[v] = "right" THEN 1 ELSE 0) <= Correct(v)
        /\ f + (IF answer[v] = "wrong" THEN 1 ELSE 0) <= Wrong(v)
    BY DEF ToldRecorded
  <2> HIDE DEF t, f
  <2>4. CASE v = u
    <3>1. answer[v] = "none" /\ answer'[v] = IF right THEN "right" ELSE "wrong"
      BY <1>2, <1>3, <2>4
    <3>2. /\ Correct(v)' = Correct(v) + (IF right THEN 1 ELSE 0)
          /\ Wrong(v)' = Wrong(v) + (IF right THEN 0 ELSE 1)
      BY <1>1, <2>4
    <3>3. /\ t + (IF answer'[v] = "right" THEN 1 ELSE 0) <= Correct(v)'
          /\ f + (IF answer'[v] = "wrong" THEN 1 ELSE 0) <= Wrong(v)'
      BY <2>1, <2>2, <2>3, <3>1, <3>2
    <3> QED
      BY <3>3 DEF t, f
  <2>5. CASE v # u
    <3>1. answer'[v] = answer[v] /\ Correct(v)' = Correct(v) /\ Wrong(v)' = Wrong(v)
      BY <1>1, <1>3, <2>5
    <3> QED
      BY <2>3, <3>1 DEF t, f
  <2> QED
    BY <2>4, <2>5
<1> QED
  BY <1>4, <1>5, <1>6

\* What is told is counted where it is told.
LEMMA ResultTold ==
  ASSUME TypeOK, NEW u \in User, TellResult(u)
  PROVE  LET right == answer[u] = "right" IN
         /\ told' = [told EXCEPT ![u][right] = @ + 1]
         /\ told'[u][right] = told[u][right] + 1
         /\ \A r \in BOOLEAN \ {right} : told'[u][r] = told[u][r]
         /\ \A v \in User \ {u} : told'[v] = told[v]
<1> DEFINE right == answer[u] = "right"
<1>1. told \in [User -> [BOOLEAN -> Nat]] /\ right \in BOOLEAN
  BY DEF TypeOK
<1>2. told' = [told EXCEPT ![u][right] = @ + 1]
  BY DEF TellResult
<1> HIDE DEF right
<1>3. told'[u] = [told[u] EXCEPT ![right] = @ + 1] /\ told[u] \in [BOOLEAN -> Nat]
  BY <1>1, <1>2
<1>4. /\ told'[u][right] = told[u][right] + 1
      /\ \A r \in BOOLEAN \ {right} : told'[u][r] = told[u][r]
  BY <1>1, <1>3
<1>5. \A v \in User \ {u} : told'[v] = told[v]
  BY <1>1, <1>2
<1> QED
  BY <1>2, <1>4, <1>5 DEF right

LEMMA TellKeepsTally ==
  ASSUME TallyInv, RunsInv', NEW u \in User, TellResult(u)
  PROVE  TallyInv'
<1> USE DEF TallyInv
<1> DEFINE right == answer[u] = "right"
<1>1. /\ UNCHANGED t_players_answers /\ answer[u] # "none"
      /\ answer' = [answer EXCEPT ![u] = "none"]
      /\ game' = [game EXCEPT ![u].index = @ + 1]
  BY DEF TellResult, file
<1>2. /\ told'[u][right] = told[u][right] + 1
      /\ \A r \in BOOLEAN \ {right} : told'[u][r] = told[u][r]
      /\ \A v \in User \ {u} : told'[v] = told[v]
  BY ResultTold DEF RunsInv
<1>3. /\ answer'[u] = "none" /\ answer[u] \in {"right", "wrong"}
      /\ \A v \in User \ {u} : answer'[v] = answer[v] /\ game'[v] = game[v]
  BY <1>1 DEF RunsInv, TypeOK, Answers
<1>4. /\ game'[u].index = game[u].index + 1 /\ game'[u].row = game[u].row
      /\ game[u].index \in Nat /\ InGame(u)
  <2>1. game[u] \in Game /\ game'[u] = [game[u] EXCEPT !.index = @ + 1]
    BY <1>1 DEF RunsInv, TypeOK
  <2>2. game[u].index \in Nat
    BY <2>1 DEF Game
  <2>3. InGame(u)
    BY <1>1, NoGameIsEmpty DEF InGame, RunsInv, IndexInRange
  <2> QED
    BY <2>1, <2>2, <2>3, IndexMoves
<1>5. \A v \in User : /\ RowsOf(v)' = RowsOf(v)
                     /\ Correct(v)' = Correct(v) /\ Wrong(v)' = Wrong(v)
  BY <1>1, CountsKept
<1>6. RowsBehind'
  <2> SUFFICES ASSUME NEW v \in User, NEW a \in RowsOf(v),
                      InGame(v)', a.row = game'[v].row
               PROVE  \/ a.index < game'[v].index
                      \/ a.index = game'[v].index /\ answer'[v] # "none"
    BY <1>5 DEF RowsBehind
  <2>1. CASE v = u
    <3>1. a.index < game[u].index \/ a.index = game[u].index
      BY <1>4, <2>1 DEF RowsBehind
    <3>2. a.index \in Nat
      BY DEF RunsInv, TypeOK, AnswerRow, RowsOf
    <3> QED
      BY <1>4, <2>1, <3>1, <3>2
  <2>2. CASE v # u
    <3>1. InGame(v)
      BY <1>3, <2>2 DEF InGame
    <3> QED
      BY <1>3, <2>2, <3>1 DEF RowsBehind
  <2> QED
    BY <2>1, <2>2
<1>7. ToldRecorded'
  <2> SUFFICES ASSUME NEW v \in User
               PROVE  /\ told'[v][TRUE] + (IF answer'[v] = "right" THEN 1 ELSE 0) <= Correct(v)
                      /\ told'[v][FALSE] + (IF answer'[v] = "wrong" THEN 1 ELSE 0) <= Wrong(v)
    BY <1>5 DEF ToldRecorded
  <2> DEFINE t == told[v][TRUE]
             f == told[v][FALSE]
             t1 == told'[v][TRUE]
             f1 == told'[v][FALSE]
  <2>1. t \in Nat /\ f \in Nat
    BY ToldNumbers, Zenon DEF RunsInv
  <2>2. Correct(v) \in Nat /\ Wrong(v) \in Nat
    BY CountsOfRows
  <2>3. /\ t + (IF answer[v] = "right" THEN 1 ELSE 0) <= Correct(v)
        /\ f + (IF answer[v] = "wrong" THEN 1 ELSE 0) <= Wrong(v)
    BY DEF ToldRecorded
  <2>4. CASE v = u /\ answer[u] = "right"
    <3>1. right = TRUE
      BY <2>4
    <3>2. t1 = t + 1 /\ f1 = f
      BY <1>2, <2>4, <3>1, Zenon
    <3> HIDE DEF t, f, t1, f1
    <3>3. /\ t1 + (IF answer'[v] = "right" THEN 1 ELSE 0) <= Correct(v)
          /\ f1 + (IF answer'[v] = "wrong" THEN 1 ELSE 0) <= Wrong(v)
      BY <1>3, <2>1, <2>2, <2>3, <2>4, <3>2
    <3> QED
      BY <3>3 DEF t1, f1
  <2>5. CASE v = u /\ answer[u] = "wrong"
    <3>1. right = FALSE
      BY <2>5
    <3>2. t1 = t /\ f1 = f + 1
      BY <1>2, <2>5, <3>1, Zenon
    <3> HIDE DEF t, f, t1, f1
    <3>3. /\ t1 + (IF answer'[v] = "right" THEN 1 ELSE 0) <= Correct(v)
          /\ f1 + (IF answer'[v] = "wrong" THEN 1 ELSE 0) <= Wrong(v)
      BY <1>3, <2>1, <2>2, <2>3, <2>5, <3>2
    <3> QED
      BY <3>3 DEF t1, f1
  <2>6. CASE v # u
    BY <1>2, <1>3, <2>3, <2>6 DEF t, f
  <2> QED
    BY <1>3, <2>4, <2>5, <2>6
<1> QED
  BY <1>1, <1>6, <1>7

LEMMA InitTally == Init => TallyInv
<1> SUFFICES ASSUME Init
             PROVE  TallyInv
  OBVIOUS
<1>1. RunsInv
  BY InitRuns
<1>2. t_players_answers = {} /\ IsFiniteSet(t_players_answers)
  BY FS_EmptySet DEF Init
<1>3. RowsBehind
  BY <1>2 DEF RowsBehind, RowsOf
<1>4. ToldRecorded
  <2> SUFFICES ASSUME NEW u \in User
               PROVE  /\ told[u][TRUE] + (IF answer[u] = "right" THEN 1 ELSE 0) <= Correct(u)
                      /\ told[u][FALSE] + (IF answer[u] = "wrong" THEN 1 ELSE 0) <= Wrong(u)
    BY DEF ToldRecorded
  <2>1. told[u][TRUE] = 0 /\ told[u][FALSE] = 0
    BY Zenon DEF Init
  <2>2. answer[u] = "none"
    BY DEF Init
  <2>3. Correct(u) \in Nat /\ Wrong(u) \in Nat
    BY <1>2, CountsOfRows
  <2> QED
    BY <2>1, <2>2, <2>3
<1> QED
  BY <1>1, <1>2, <1>3, <1>4 DEF TallyInv

\* What every other action leaves alone
LEMMA QuietActions ==
  ASSUME TallyInv, RunsInv',
         \/ Start \/ Setup \/ Killed
         \/ \E S \in SUBSET User, n \in QuestionNos : StartGame(S, n)
         \/ \E u \in User : \/ EndGame(u)
                           \/ HandleGetBestScores(u) \/ HandleGetPersonalStatus(u)
         \/ UNCHANGED vars
  PROVE  TallyInv' /\ UNCHANGED <<t_players_answers, told>>
<1>1. UNCHANGED <<t_players_answers, told>>
  BY DEF Start, Setup, Killed, StartGame, EndGame, HandleGetBestScores,
         HandleGetPersonalStatus, vars, file, history
<1>2. CASE UNCHANGED <<game, answer>>
  BY <1>1, <1>2, QuietKeeps DEF InGame
<1>3. CASE \E how \in Ended : Ends(how)
  BY <1>1, <1>3, EndsQuietly
<1>4. CASE \E S \in SUBSET User, n \in QuestionNos : StartGame(S, n)
  <2>1. PICK S \in SUBSET User, n \in QuestionNos : StartGame(S, n)
    BY <1>4
  <2>2. CASE Ends("noQuestion")
    BY <1>1, <2>2, EndsQuietly
  <2>3. CASE ~Ends("noQuestion")
    <3>1. /\ answer' = answer
          /\ \A u \in User \ S : game'[u] = game[u]
          /\ \A u \in S : game'[u].row = Len(t_games')
      BY <2>1, <2>3 DEF StartGame
    <3>2. /\ t_games \in Seq(GameRow) /\ [status |-> 0, run |-> run, asked |-> n] \in GameRow
          /\ t_games' = Append(t_games, [status |-> 0, run |-> run, asked |-> n])
      BY <2>1 DEF StartGame, TallyInv, RunsInv, TypeOK, GameRow
    <3>3. Len(t_games') \notin DOMAIN t_games
      BY <3>2, AppendKeepsRows
    <3> QED
      BY <1>1, <3>1, <3>3, QuietKeeps
  <2> QED
    BY <2>2, <2>3
<1>5. CASE \E u \in User : EndGame(u)
  <2>1. PICK u \in User : EndGame(u)
    BY <1>5
  <2>2. CASE Ends("noQuestion")
    BY <1>1, <2>2, EndsQuietly
  <2>3. CASE ~Ends("noQuestion")
    <3>1. answer' = answer /\ \A v \in User : game'[v] \in {game[v], NoGame}
      BY <2>1, <2>3 DEF EndGame
    <3> QED
      BY <1>1, <3>1, QuietKeeps DEF InGame
  <2> QED
    BY <2>2, <2>3
<1>6. CASE Start \/ Setup \/ UNCHANGED vars \/ \E u \in User : HandleGetBestScores(u)
  BY <1>2, <1>6 DEF Start, Setup, vars, HandleGetBestScores
<1>7. CASE Killed
  BY <1>3, <1>7 DEF Killed, Ended
<1>8. CASE \E u \in User : HandleGetPersonalStatus(u)
  BY <1>2, <1>3, <1>8 DEF HandleGetPersonalStatus, Ended
<1> QED
  BY <1>1, <1>4, <1>5, <1>6, <1>7, <1>8

LEMMA NextTally ==
  ASSUME WriteOutcomes = {TRUE}
  PROVE  TallyInv /\ [Next]_vars => TallyInv'
<1> SUFFICES ASSUME TallyInv, [Next]_vars
             PROVE  TallyInv'
  OBVIOUS
<1>1. RunsInv'
  BY NextRuns DEF TallyInv
<1>2. CASE \E u \in User : AddAnswerToPlayer(u)
  BY <1>1, <1>2, AnswerKeepsTally
<1>3. CASE \E u \in User : TellResult(u)
  BY <1>1, <1>3, TellKeepsTally
<1> QED
  BY <1>1, <1>2, <1>3, QuietActions DEF Next

\* The tally of Scoreboard as the statements compute it
View == [u \in User |-> [right \in BOOLEAN |-> IF right THEN Correct(u) ELSE Wrong(u)]]

LEMMA ViewKept ==
  ASSUME t_players_answers' = t_players_answers
  PROVE  View' = View
BY CountsKept DEF View

\* An answer is one more in one place of the tally.
LEMMA AnswerRecords ==
  ASSUME TallyInv, WriteOutcomes = {TRUE}, NEW u \in User, AddAnswerToPlayer(u)
  PROVE  \E r \in BOOLEAN : View' = [View EXCEPT ![u][r] = @ + 1] /\ UNCHANGED told
<1>1. PICK r \in BOOLEAN :
        /\ \A v \in User \ {u} : Correct(v)' = Correct(v) /\ Wrong(v)' = Wrong(v)
        /\ Correct(u)' = Correct(u) + (IF r THEN 1 ELSE 0)
        /\ Wrong(u)' = Wrong(u) + (IF r THEN 0 ELSE 1)
  BY AnswerCounted
<1>2. Correct(u) \in Nat /\ Wrong(u) \in Nat
  BY CountsOfRows DEF TallyInv
<1> DEFINE row(v) == [right \in BOOLEAN |-> IF right THEN Correct(v) ELSE Wrong(v)]
           next(v) == [right \in BOOLEAN |-> IF right THEN Correct(v)' ELSE Wrong(v)']
<1>3. \A v \in User \ {u} : next(v) = row(v)
  BY <1>1
<1>4. next(u) = [row(u) EXCEPT ![r] = @ + 1]
  <2>1. CASE r = TRUE
    <3>1. Correct(u)' = Correct(u) + 1 /\ Wrong(u)' = Wrong(u)
      BY <1>1, <1>2, <2>1
    <3> QED
      BY <2>1, <3>1
  <2>2. CASE r = FALSE
    <3>1. Correct(u)' = Correct(u) /\ Wrong(u)' = Wrong(u) + 1
      BY <1>1, <1>2, <2>2
    <3> QED
      BY <2>2, <3>1
  <2> QED
    BY <2>1, <2>2
<1>5. View = [v \in User |-> row(v)] /\ View' = [v \in User |-> next(v)]
  BY DEF View
<1> HIDE DEF row, next
<1>6. View' = [View EXCEPT ![u] = [row(u) EXCEPT ![r] = @ + 1]]
  BY <1>3, <1>4, <1>5
<1>7. View' = [View EXCEPT ![u][r] = @ + 1]
  BY <1>5, <1>6
<1>8. UNCHANGED told
  BY DEF AddAnswerToPlayer, history
<1> QED
  BY <1>7, <1>8

\* What is told is in the tally and was not told before.
LEMMA TellTells ==
  ASSUME TallyInv, NEW u \in User, TellResult(u)
  PROVE  \E r \in BOOLEAN : /\ told[u][r] < View[u][r]
                            /\ told' = [told EXCEPT ![u][r] = @ + 1]
                            /\ View' = View
<1> DEFINE right == answer[u] = "right"
<1>1. told' = [told EXCEPT ![u][right] = @ + 1] /\ right \in BOOLEAN
  BY ResultTold DEF TallyInv, RunsInv
<1>2. answer[u] \in {"right", "wrong"} /\ UNCHANGED t_players_answers
  BY DEF TellResult, TallyInv, RunsInv, TypeOK, Answers, file
<1>3. View' = View
  BY <1>2, ViewKept
<1>4. Correct(u) \in Nat /\ Wrong(u) \in Nat
  BY CountsOfRows DEF TallyInv
<1>5. View[u][TRUE] = Correct(u) /\ View[u][FALSE] = Wrong(u)
  BY DEF View
<1> DEFINE t == told[u][TRUE]
           f == told[u][FALSE]
<1>6. t \in Nat /\ f \in Nat
  BY ToldNumbers, Zenon DEF TallyInv, RunsInv
<1>7. /\ t + (IF answer[u] = "right" THEN 1 ELSE 0) <= Correct(u)
      /\ f + (IF answer[u] = "wrong" THEN 1 ELSE 0) <= Wrong(u)
  BY DEF TallyInv, ToldRecorded
<1>8. CASE answer[u] = "right"
  <2> HIDE DEF t, f
  <2>1. t < Correct(u)
    BY <1>4, <1>6, <1>7, <1>8
  <2>2. told[u][TRUE] < View[u][TRUE]
    BY <1>5, <2>1, Zenon DEF t
  <2>3. right = TRUE
    BY <1>8
  <2> QED
    BY <1>1, <1>3, <2>2, <2>3, Zenon
<1>9. CASE answer[u] = "wrong"
  <2> HIDE DEF t, f
  <2>1. f < Wrong(u)
    BY <1>4, <1>6, <1>7, <1>9
  <2>2. told[u][FALSE] < View[u][FALSE]
    BY <1>5, <2>1, Zenon DEF f
  <2>3. right = FALSE
    BY <1>9
  <2> QED
    BY <1>1, <1>3, <2>2, <2>3, Zenon
<1> QED
  BY <1>2, <1>8, <1>9

LEMMA TallyStarts == Init => Tally!Init
<1> SUFFICES ASSUME Init
             PROVE  Tally!Init
  OBVIOUS
<1>1. \A u \in User : Correct(u) = 0 /\ Wrong(u) = 0
  <2> SUFFICES ASSUME NEW u \in User
               PROVE  Correct(u) = 0 /\ Wrong(u) = 0
    OBVIOUS
  <2>1. RowsOf(u) = {} /\ {a \in RowsOf(u) : a.is_correct} = {}
    BY DEF Init, RowsOf
  <2> QED
    BY <2>1, FS_EmptySet DEF Correct, Wrong
<1> QED
  BY <1>1 DEF Init, Tally!Init, Tally!Zero

LEMMA TallySteps ==
  ASSUME WriteOutcomes = {TRUE}
  PROVE  TallyInv /\ [Next]_vars => [Tally!Next]_(Tally!vars)
<1> SUFFICES ASSUME TallyInv, [Next]_vars
             PROVE  Tally!Next \/ UNCHANGED Tally!vars
  OBVIOUS
<1>1. CASE \E u \in User : AddAnswerToPlayer(u)
  BY <1>1, AnswerRecords, Zenon DEF Tally!Next, Tally!Record, View
<1>2. CASE \E u \in User : TellResult(u)
  BY <1>2, TellTells, Zenon DEF Tally!Next, Tally!Tell, View
<1>3. CASE ~ \E u \in User : AddAnswerToPlayer(u) \/ TellResult(u)
  <2>1. RunsInv'
    BY NextRuns DEF TallyInv
  <2>2. UNCHANGED <<t_players_answers, told>>
    BY <1>3, <2>1, QuietActions DEF Next
  <2> QED
    BY <2>2, ViewKept DEF Tally!vars, View
<1> QED
  BY <1>1, <1>2, <1>3

\* As long as no insert of an answer fails, the tables and statements implement the
\* tally of Scoreboard: an answer moves one number of one user by one, no restart
\* loses any, and no player is told of an answer that does not count
\* (Database.cpp:232-327, 364-383).
THEOREM ScoreboardImplemented ==
  ASSUME WriteOutcomes = {TRUE}
  PROVE  Spec => ImplementsScoreboard
<1>1. TallyInv /\ [Next]_vars => TallyInv'
  BY NextTally
<1>2. TallyInv /\ [Next]_vars => [Tally!Next]_(Tally!vars)
  BY TallySteps
<1> QED
  BY <1>1, <1>2, InitTally, TallyStarts, PTL DEF Spec, ImplementsScoreboard, Tally!Spec

-----------------------------------------------------------------------------
(* Games that the table says have ended were answered to the end. *)

\* The table T has user u's answer to question k of a game.
Recorded(T, u, r, k) == \E a \in T : a.username = u /\ a.row = r /\ a.index = k

\* The answers before a player's question are in the table, and so is the one whose
\* result is to be told; the row of a game knows what it was started for, which is
\* at least one question.
PlayedSoFar ==
  \A u \in User : InGame(u) =>
    /\ t_games[game[u].row].asked = game[u].questionNo /\ game[u].questionNo > 0
    /\ \A k \in Nat : k < game[u].index => Recorded(t_players_answers, u, game[u].row, k)
    /\ answer[u] # "none" => Recorded(t_players_answers, u, game[u].row, game[u].index)

\* The row of an ended game has one of its run that was answered to the end.
EndsPlayed ==
  \A i \in DOMAIN t_games : t_games[i].status = 1 =>
    \E r \in DOMAIN t_games, u \in User :
      /\ t_games[r].run = t_games[i].run /\ t_games[r].asked > 0
      /\ \A k \in Nat : k < t_games[r].asked => Recorded(t_players_answers, u, r, k)

\* The inductive invariant
EndedInv == RunsInv /\ PlayedSoFar /\ EndsPlayed

\* Rows of both tables that stay, with what they say
RowsStay ==
  /\ DOMAIN t_games \subseteq DOMAIN t_games'
  /\ \A i \in DOMAIN t_games : t_games'[i].run = t_games[i].run /\ t_games'[i].asked = t_games[i].asked
  /\ t_players_answers \subseteq t_players_answers'

\* What is in the table stays there.
LEMMA RecordedStays ==
  ASSUME RowsStay
  PROVE  \A u, r, k : Recorded(t_players_answers, u, r, k) => Recorded(t_players_answers', u, r, k)
BY DEF RowsStay, Recorded

\* Ends that were played stay so, unless another row says it has ended.
LEMMA EndsStay ==
  ASSUME EndsPlayed, RowsStay,
         \A i \in DOMAIN t_games' : t_games'[i].status = 1 =>
            i \in DOMAIN t_games /\ t_games[i].status = 1
  PROVE  EndsPlayed'
<1> SUFFICES ASSUME NEW i \in DOMAIN t_games', t_games'[i].status = 1
             PROVE  \E r \in DOMAIN t_games', u \in User :
                      /\ t_games'[r].run = t_games'[i].run /\ t_games'[r].asked > 0
                      /\ \A k \in Nat : k < t_games'[r].asked => Recorded(t_players_answers', u, r, k)
  BY DEF EndsPlayed
<1>1. PICK r \in DOMAIN t_games, u \in User :
        /\ t_games[r].run = t_games[i].run /\ t_games[r].asked > 0
        /\ \A k \in Nat : k < t_games[r].asked => Recorded(t_players_answers, u, r, k)
  BY DEF EndsPlayed
<1>2. r \in DOMAIN t_games' /\ t_games'[r].run = t_games'[i].run
      /\ t_games'[r].asked = t_games[r].asked
  BY <1>1 DEF RowsStay
<1>3. \A k \in Nat : k < t_games'[r].asked => Recorded(t_players_answers', u, r, k)
  BY <1>1, <1>2, RecordedStays
<1> QED
  BY <1>1, <1>2, <1>3

\* Nobody plays a game after a process has ended.
LEMMA NobodyPlays ==
  ASSUME \A u \in User : ~InGame(u)'
  PROVE  PlayedSoFar'
BY DEF PlayedSoFar

LEMMA EndsAll ==
  ASSUME NEW how, Ends(how)
  PROVE  \A u \in User : ~InGame(u)'
BY DEF Ends, InGame

\* A row that is appended says its game has not ended.
LEMMA StartGameEnded ==
  ASSUME EndedInv, RunsInv', NEW S \in SUBSET User, NEW n \in QuestionNos, StartGame(S, n)
  PROVE  PlayedSoFar' /\ EndsPlayed'
<1> DEFINE row == [status |-> 0, run |-> run, asked |-> n]
<1>1. n \in Nat /\ run \in Nat /\ t_games \in Seq(GameRow) /\ t_games' = Append(t_games, row)
  BY StatisticsAssumption DEF StartGame, EndedInv, RunsInv, TypeOK
<1>2. row \in GameRow
  BY <1>1 DEF GameRow
<1>3. row.status = 0 /\ row.asked = n
  OBVIOUS
<1> HIDE DEF row
<1>4. /\ Len(t_games') = Len(t_games) + 1 /\ Len(t_games) \in Nat
      /\ DOMAIN t_games = 1 .. Len(t_games) /\ DOMAIN t_games' = 1 .. Len(t_games) + 1
      /\ \A i \in DOMAIN t_games : t_games'[i] = t_games[i]
      /\ t_games'[Len(t_games) + 1] = row
  BY <1>1, <1>2, AppendKeepsRows
<1>5. RowsStay
  BY <1>4 DEF RowsStay, StartGame
<1>6. EndsPlayed'
  <2>1. \A i \in DOMAIN t_games' : i \in DOMAIN t_games \/ i = Len(t_games) + 1
    BY <1>4
  <2>2. \A i \in DOMAIN t_games' : t_games'[i].status = 1 => i \in DOMAIN t_games /\ t_games[i].status = 1
    BY <1>3, <1>4, <2>1
  <2> QED
    BY <1>5, <2>2, EndsStay DEF EndedInv
<1>7. CASE Questions > 0 /\ n > 0
  <2>1. PICK q \in Draws(n) :
          game' = [u \in User |->
                     IF u \in S THEN [row |-> Len(t_games'), id |-> Number,
                                      questionNo |-> n, questions |-> q, index |-> 0]
                     ELSE game[u]]
    BY <1>1, <1>7, CountsAreNumbers DEF StartGame, EndedInv, RunsInv
  <2>2. answer' = answer
    BY <1>1, <1>7, CountsAreNumbers DEF StartGame, EndedInv, RunsInv
  <2>3. ASSUME NEW u \in User, InGame(u)'
        PROVE  /\ t_games'[game'[u].row].asked = game'[u].questionNo /\ game'[u].questionNo > 0
               /\ \A k \in Nat : k < game'[u].index => Recorded(t_players_answers', u, game'[u].row, k)
               /\ answer'[u] # "none" => Recorded(t_players_answers', u, game'[u].row, game'[u].index)
    <3>1. CASE u \in S
      <4>1. game'[u].row = Len(t_games) + 1 /\ game'[u].questionNo = n /\ game'[u].index = 0
        BY <1>4, <2>1, <3>1
      <4>2. ~ InGame(u)
        BY <3>1 DEF StartGame
      <4>3. answer[u] = "none"
        BY <4>2, NoGameIsEmpty DEF EndedInv, RunsInv, IndexInRange, InGame, TypeOK
      <4> QED
        BY <1>3, <1>4, <1>7, <2>2, <4>1, <4>3
    <3>2. CASE u \notin S
      <4>1. game'[u] = game[u] /\ InGame(u)
        BY <2>1, <2>3, <3>2 DEF InGame
      <4>2. game[u].row \in DOMAIN t_games
        <5>1. game[u].row \in _currGameId + 1 .. Len(t_games) /\ _currGameId \in Nat
          BY <4>1 DEF EndedInv, RunsInv, GamesOfThisRun, TypeOK
        <5> QED
          BY <1>4, <5>1
      <4>3. t_games'[game[u].row] = t_games[game[u].row]
        BY <1>4, <4>2
      <4> QED
        BY <1>5, <2>2, <4>1, <4>3, RecordedStays DEF EndedInv, PlayedSoFar
    <3> QED
      BY <3>1, <3>2
  <2> QED
    BY <1>6, <2>3 DEF PlayedSoFar
<1>8. CASE ~(Questions > 0 /\ n > 0)
  <2>1. Ends("noQuestion")
    BY <1>8 DEF StartGame
  <2> QED
    BY <1>6, <2>1, EndsAll, NobodyPlays
<1> QED
  BY <1>7, <1>8

\* An answer is in the table before its result is told.
LEMMA AddAnswerEnded ==
  ASSUME EndedInv, NEW u \in User, AddAnswerToPlayer(u), WriteOutcomes \subseteq {TRUE}
  PROVE  PlayedSoFar' /\ EndsPlayed'
<1>1. PICK right \in BOOLEAN :
        /\ answer' = [answer EXCEPT ![u] = IF right THEN "right" ELSE "wrong"]
        /\ t_players_answers' = t_players_answers \cup {RowOf(u, right)}
  BY DEF AddAnswerToPlayer
<1>2. game' = game /\ t_games' = t_games
  BY DEF AddAnswerToPlayer
<1>3. RowsStay
  BY <1>1, <1>2 DEF RowsStay
<1>4. EndsPlayed'
  BY <1>2, <1>3, EndsStay DEF EndedInv
<1>5. Recorded(t_players_answers', u, game[u].row, game[u].index)
  <2>1. RowOf(u, right).username = u /\ RowOf(u, right).row = game[u].row
        /\ RowOf(u, right).index = game[u].index
    BY DEF RowOf
  <2> QED
    BY <1>1, <1>2, <2>1 DEF Recorded
<1>6. \A v \in User \ {u} : answer'[v] = answer[v]
  BY <1>1 DEF EndedInv, RunsInv, TypeOK
<1>7. ASSUME NEW v \in User, InGame(v)'
      PROVE  /\ t_games'[game'[v].row].asked = game'[v].questionNo /\ game'[v].questionNo > 0
             /\ \A k \in Nat : k < game'[v].index => Recorded(t_players_answers', v, game'[v].row, k)
             /\ answer'[v] # "none" => Recorded(t_players_answers', v, game'[v].row, game'[v].index)
  <2>1. InGame(v)
    BY <1>2, <1>7 DEF InGame
  <2>2. /\ t_games[game[v].row].asked = game[v].questionNo /\ game[v].questionNo > 0
        /\ \A k \in Nat : k < game[v].index => Recorded(t_players_answers, v, game[v].row, k)
        /\ answer[v] # "none" => Recorded(t_players_answers, v, game[v].row, game[v].index)
    BY <2>1 DEF EndedInv, PlayedSoFar
  <2>3. \A k \in Nat : k < game[v].index => Recorded(t_players_answers', v, game[v].row, k)
    BY <1>3, <2>2, RecordedStays
  <2>4. answer'[v] # "none" => Recorded(t_players_answers', v, game[v].row, game[v].index)
    <3>1. CASE v = u
      BY <1>2, <1>5, <3>1
    <3>2. CASE v # u
      BY <1>3, <1>6, <2>2, <3>2, RecordedStays
    <3> QED
      BY <3>1, <3>2
  <2> QED
    BY <1>2, <2>2, <2>3, <2>4
<1> QED
  BY <1>4, <1>7 DEF PlayedSoFar

\* Who is told of a result has one answer more behind him.
LEMMA TellResultEnded ==
  ASSUME EndedInv, NEW u \in User, TellResult(u)
  PROVE  PlayedSoFar' /\ EndsPlayed'
<1>1. /\ UNCHANGED <<t_games, t_players_answers>> /\ answer[u] # "none"
      /\ game' = [game EXCEPT ![u].index = @ + 1] /\ answer' = [answer EXCEPT ![u] = "none"]
  BY DEF TellResult, file
<1>2. RowsStay
  BY <1>1 DEF RowsStay
<1>3. EndsPlayed'
  BY <1>1, <1>2, EndsStay DEF EndedInv
<1>4. game[u] \in Game /\ game'[u] = [game[u] EXCEPT !.index = @ + 1] /\ answer'[u] = "none"
  BY <1>1 DEF EndedInv, RunsInv, TypeOK
<1>5. /\ game'[u].index = game[u].index + 1 /\ game'[u].row = game[u].row
      /\ game'[u].questionNo = game[u].questionNo /\ game[u].index \in Nat
  BY <1>4 DEF Game
<1>6. InGame(u)
  BY <1>1, NoGameIsEmpty DEF EndedInv, RunsInv, IndexInRange, InGame
<1>7. \A v \in User \ {u} : game'[v] = game[v] /\ answer'[v] = answer[v]
  BY <1>1 DEF EndedInv, RunsInv, TypeOK
<1>8. ASSUME NEW v \in User, InGame(v)'
      PROVE  /\ t_games'[game'[v].row].asked = game'[v].questionNo /\ game'[v].questionNo > 0
             /\ \A k \in Nat : k < game'[v].index => Recorded(t_players_answers', v, game'[v].row, k)
             /\ answer'[v] # "none" => Recorded(t_players_answers', v, game'[v].row, game'[v].index)
  <2>1. InGame(v)
    BY <1>6, <1>7, <1>8 DEF InGame
  <2>2. /\ t_games[game[v].row].asked = game[v].questionNo /\ game[v].questionNo > 0
        /\ \A k \in Nat : k < game[v].index => Recorded(t_players_answers, v, game[v].row, k)
        /\ answer[v] # "none" => Recorded(t_players_answers, v, game[v].row, game[v].index)
    BY <2>1 DEF EndedInv, PlayedSoFar
  <2>3. \A r, k : Recorded(t_players_answers, v, r, k) => Recorded(t_players_answers', v, r, k)
    BY <1>2, RecordedStays
  <2>4. CASE v = u
    <3>1. ASSUME NEW k \in Nat, k < game'[u].index PROVE Recorded(t_players_answers', u, game[u].row, k)
      <4>1. k < game[u].index \/ k = game[u].index
        BY <1>5, <3>1
      <4> QED
        BY <1>1, <2>2, <2>3, <2>4, <4>1
    <3> QED
      BY <1>1, <1>4, <1>5, <2>2, <2>4, <3>1
  <2>5. CASE v # u
    BY <1>1, <1>7, <2>2, <2>3, <2>5
  <2> QED
    BY <2>4, <2>5
<1> QED
  BY <1>3, <1>8 DEF PlayedSoFar

\* The game whose end is written has been answered to the last question by who
\* finds it over; the row that is taken for it is of the same run.
LEMMA EndGameEnded ==
  ASSUME EndedInv, NEW u \in User, EndGame(u)
  PROVE  PlayedSoFar' /\ EndsPlayed'
<1> DEFINE g == game[u]
           S == Playing(g.row)
<1>1. InGame(u) /\ process = "up" /\ t_players_answers' = t_players_answers
  BY DEF EndGame
<1>2. g \in Game /\ t_games \in Seq(GameRow)
  BY DEF EndedInv, RunsInv, TypeOK
<1>3. g.questionNo \in Nat /\ Len(g.questions) \in Nat
  BY <1>2 DEF Game
<1>4. CASE Len(g.questions) = g.questionNo
  <2>1. /\ t_games' = [t_games EXCEPT ![g.id].status = 1]
        /\ game' = [v \in User |-> IF v \in S THEN NoGame ELSE game[v]] /\ answer' = answer
    BY <1>3, <1>4 DEF EndGame
  <2>2. /\ DOMAIN t_games' = DOMAIN t_games
        /\ \A i \in DOMAIN t_games :
             /\ t_games'[i].run = t_games[i].run /\ t_games'[i].asked = t_games[i].asked
             /\ i # g.id => t_games'[i].status = t_games[i].status
    BY <1>2, <2>1, StatusKeepsRuns
  <2>3. RowsStay
    BY <1>1, <2>2 DEF RowsStay
  <2>4. g.id \in DOMAIN t_games /\ g.row \in DOMAIN t_games /\ t_games[g.id].run = t_games[g.row].run
    <3>1. /\ g.row \in _currGameId + 1 .. Len(t_games) /\ g.id \in _currGameId + 1 .. Len(t_games)
          /\ _currGameId \in Nat
          /\ \A i \in DOMAIN t_games : i > _currGameId <=> t_games[i].run = run
      BY <1>1 DEF EndedInv, RunsInv, GamesOfThisRun, RunsCounted, TypeOK
    <3>2. DOMAIN t_games = 1 .. Len(t_games)
      BY <1>2
    <3>3. g.row \in DOMAIN t_games /\ g.id \in DOMAIN t_games /\ g.row > _currGameId /\ g.id > _currGameId
      BY <3>1, <3>2
    <3> QED
      BY <3>1, <3>3
  <2>5. /\ g.index = Len(g.questions)
        /\ t_games[g.row].asked = g.questionNo /\ g.questionNo > 0
        /\ \A k \in Nat : k < g.index => Recorded(t_players_answers, u, g.row, k)
    <3>1. u \in Playing(g.row)
      BY <1>1 DEF Playing
    <3> QED
      BY <1>1, <3>1 DEF EndGame, Answered, EndedInv, PlayedSoFar
  <2>6. \A k \in Nat : k < t_games'[g.row].asked => Recorded(t_players_answers', u, g.row, k)
    BY <1>4, <2>2, <2>3, <2>4, <2>5, RecordedStays
  <2>7. EndsPlayed'
    <3> SUFFICES ASSUME NEW i \in DOMAIN t_games', t_games'[i].status = 1
                 PROVE  \E r \in DOMAIN t_games', v \in User :
                          /\ t_games'[r].run = t_games'[i].run /\ t_games'[r].asked > 0
                          /\ \A k \in Nat : k < t_games'[r].asked => Recorded(t_players_answers', v, r, k)
      BY DEF EndsPlayed
    <3>1. CASE i = g.id
      <4>1. /\ g.row \in DOMAIN t_games' /\ t_games'[g.row].run = t_games'[i].run
            /\ t_games'[g.row].asked > 0
        BY <2>2, <2>4, <2>5, <3>1
      <4> QED
        BY <2>6, <4>1
    <3>2. CASE i # g.id
      <4>1. PICK r \in DOMAIN t_games, v \in User :
              /\ t_games[r].run = t_games[i].run /\ t_games[r].asked > 0
              /\ \A k \in Nat : k < t_games[r].asked => Recorded(t_players_answers, v, r, k)
        BY <2>2, <3>2 DEF EndedInv, EndsPlayed
      <4>2. r \in DOMAIN t_games' /\ t_games'[r].run = t_games'[i].run
            /\ t_games'[r].asked = t_games[r].asked
        BY <2>2, <4>1
      <4>3. \A k \in Nat : k < t_games'[r].asked => Recorded(t_players_answers', v, r, k)
        BY <2>3, <4>1, <4>2, RecordedStays
      <4> QED
        BY <4>1, <4>2, <4>3
    <3> QED
      BY <3>1, <3>2
  <2>8. ASSUME NEW v \in User, InGame(v)'
        PROVE  /\ t_games'[game'[v].row].asked = game'[v].questionNo /\ game'[v].questionNo > 0
               /\ \A k \in Nat : k < game'[v].index => Recorded(t_players_answers', v, game'[v].row, k)
               /\ answer'[v] # "none" => Recorded(t_players_answers', v, game'[v].row, game'[v].index)
    <3>1. game'[v] = game[v] /\ InGame(v)
      BY <2>1, <2>8 DEF InGame
    <3>2. game[v].row \in DOMAIN t_games
      <4>1. game[v].row \in _currGameId + 1 .. Len(t_games) /\ _currGameId \in Nat
        BY <3>1 DEF EndedInv, RunsInv, GamesOfThisRun, TypeOK
      <4> QED
        BY <1>2, <4>1
    <3> QED
      BY <2>1, <2>2, <2>3, <3>1, <3>2, RecordedStays DEF EndedInv, PlayedSoFar
  <2> QED
    BY <2>7, <2>8 DEF PlayedSoFar
<1>5. CASE Len(g.questions) # g.questionNo
  <2>1. Ends("noQuestion") /\ t_games' = t_games
    BY <1>5 DEF EndGame
  <2>2. RowsStay
    BY <1>1, <2>1 DEF RowsStay
  <2>3. EndsPlayed'
    BY <2>1, <2>2, EndsStay DEF EndedInv
  <2> QED
    BY <2>1, <2>3, EndsAll, NobodyPlays
<1> QED
  BY <1>4, <1>5

\* The other actions leave both tables alone, and every game, or end the process.
LEMMA OthersEnded ==
  ASSUME EndedInv, \/ Start \/ Setup \/ Killed \/ UNCHANGED vars
                   \/ \E u \in User : HandleGetBestScores(u) \/ HandleGetPersonalStatus(u)
  PROVE  PlayedSoFar' /\ EndsPlayed'
<1>1. UNCHANGED <<t_games, t_players_answers>>
  BY DEF Start, Setup, Killed, vars, file, HandleGetBestScores, HandleGetPersonalStatus
<1>2. RowsStay
  BY <1>1 DEF RowsStay
<1>3. EndsPlayed'
  BY <1>1, <1>2, EndsStay DEF EndedInv
<1>4. CASE UNCHANGED <<game, answer>>
  <2>1. \A u \in User : InGame(u)' <=> InGame(u)
    BY <1>4 DEF InGame
  <2> QED
    BY <1>1, <1>3, <1>4, <2>1, Zenon DEF EndedInv, PlayedSoFar
<1>5. CASE \E how : Ends(how)
  BY <1>3, <1>5, EndsAll, NobodyPlays
<1> QED
  BY <1>3, <1>4, <1>5 DEF Start, Setup, Killed, vars, HandleGetBestScores, HandleGetPersonalStatus

\* As long as no insert of an answer fails, a row of t_games says its game has ended
\* only if somebody has in the table an answer to every question a game of that run
\* was started for (Game.cpp:116-131, 190-207, Database.cpp:345-362), whatever number of
\* questions is asked for, in the middle of whatever the server is killed.
THEOREM EndsAreWhole ==
  ASSUME WriteOutcomes \subseteq {TRUE}
  PROVE  Spec => []EndedInFull
<1>1. Init => EndedInv
  <2> SUFFICES ASSUME Init PROVE EndedInv
    OBVIOUS
  <2>1. DOMAIN t_games = {} /\ \A u \in User : ~InGame(u)
    BY DEF Init, InGame
  <2> QED
    BY <2>1, InitRuns DEF EndedInv, PlayedSoFar, EndsPlayed
<1>2. EndedInv /\ [Next]_vars => EndedInv'
  <2> SUFFICES ASSUME EndedInv, [Next]_vars
               PROVE  EndedInv'
    OBVIOUS
  <2>1. RunsInv'
    BY NextRuns DEF EndedInv
  <2>2. PlayedSoFar' /\ EndsPlayed'
    BY <2>1, StartGameEnded, AddAnswerEnded, TellResultEnded, EndGameEnded, OthersEnded DEF Next
  <2> QED
    BY <2>1, <2>2 DEF EndedInv
<1>3. EndedInv => EndedInFull
  <2> SUFFICES ASSUME EndedInv, NEW i \in DOMAIN t_games, t_games[i].status = 1
               PROVE  \E r \in DOMAIN t_games, u \in User :
                        /\ t_games[r].run = t_games[i].run /\ t_games[r].asked > 0
                        /\ \A k \in 0 .. t_games[r].asked - 1 :
                             \E a \in RowsOf(u) : a.row = r /\ a.index = k
    BY DEF EndedInFull
  <2>1. PICK r \in DOMAIN t_games, u \in User :
          /\ t_games[r].run = t_games[i].run /\ t_games[r].asked > 0
          /\ \A k \in Nat : k < t_games[r].asked => Recorded(t_players_answers, u, r, k)
    BY DEF EndedInv, EndsPlayed
  <2>2. t_games[r].asked \in Nat
    <3>1. t_games[r] \in GameRow
      BY <2>1 DEF EndedInv, RunsInv, TypeOK
    <3> QED
      BY <3>1 DEF GameRow
  <2>3. ASSUME NEW k \in 0 .. t_games[r].asked - 1
        PROVE  \E a \in RowsOf(u) : a.row = r /\ a.index = k
    <3>1. k \in Nat /\ k < t_games[r].asked
      BY <2>2, <2>3
    <3> QED
      BY <2>1, <3>1 DEF Recorded, RowsOf
  <2> QED
    BY <2>1, <2>3
<1> QED
  BY <1>1, <1>2, <1>3, PTL DEF Spec

-----------------------------------------------------------------------------
(* What is shown of the tables, whether inserts succeed or fail *)

\* The inductive invariant
ShownInv == RunsInv /\ IsFiniteSet(t_players_answers) /\ BoardHonest /\ GamesShownBetween

\* Numbers with a bound have a largest one.
LEMMA Largest ==
  ASSUME NEW T \in SUBSET Nat, T # {}, NEW n \in Nat, \A t \in T : t <= n
  PROVE  \E m \in T : \A t \in T : t <= m
<1> DEFINE D == {i \in 0 .. n : \E t \in T : i <= t}
<1>1. IsFiniteSet(0 .. n) /\ D \in SUBSET (0 .. n)
  BY FS_Interval
<1>2. IsFiniteSet(D)
  BY <1>1, FS_Subset
<1>3. PICK k \in Nat : k = Cardinality(D)
  BY <1>2, FS_CardinalityType
<1>4. T \subseteq D
  OBVIOUS
\* What is at most a member of D is one.
<1>5. \A i \in D : i \in Nat /\ i < k
  <2> SUFFICES ASSUME NEW i \in D PROVE i \in Nat /\ i < k
    OBVIOUS
  <2>1. i \in Nat
    OBVIOUS
  <2>2. 0 .. i \in SUBSET D
    OBVIOUS
  <2> HIDE DEF D
  <2>3. Cardinality(0 .. i) <= k
    BY <1>2, <1>3, <2>2, FS_Subset
  <2>4. Cardinality(0 .. i) = i + 1
    BY <2>1, FS_Interval
  <2> QED
    BY <2>1, <2>3, <2>4
<1>6. D = 0 .. k - 1
  <2> HIDE DEF D
  <2>1. IsFiniteSet(0 .. k - 1) /\ Cardinality(0 .. k - 1) = k
    <3>1. k - 1 \in Int /\ 0 \in Int
      OBVIOUS
    <3>2. IsFiniteSet(0 .. k - 1) /\ Cardinality(0 .. k - 1) = IF 0 > k - 1 THEN 0 ELSE k - 1 - 0 + 1
      BY <3>1, FS_Interval
    <3> QED
      BY <3>2
  <2>2. D \in SUBSET (0 .. k - 1)
    BY <1>5
  <2> QED
    BY <1>3, <2>1, <2>2, FS_Subset
<1>7. k > 0
  <2>1. PICK s \in T : s \in D
    BY <1>4
  <2>2. s \in Nat /\ s < k
    BY <1>5, <2>1
  <2> QED
    BY <2>2
<1>8. PICK t \in T : k - 1 <= t
  BY <1>6, <1>7
<1> HIDE DEF D
<1>9. \A s \in T : s \in Nat /\ s < k
  BY <1>4, <1>5
<1>10. \A s \in T : s <= t
  BY <1>8, <1>9
<1> QED
  BY <1>8, <1>10

\* A list of the best three
LEMMA BoardOf ==
  ASSUME IsFiniteSet(t_players_answers), NEW L \in Selected, NEW order \in Sorted(L),
         NEW board,
         board = [i \in DOMAIN order |-> [name |-> order[i], score |-> Correct(order[i])]]
  PROVE  /\ \A i \in DOMAIN board : board[i].score = Correct(board[i].name)
         /\ \A i, j \in DOMAIN board :
              i < j => board[i].score >= board[j].score /\ board[i].name # board[j].name
         /\ Cardinality(Scorers) <= 3 => {board[i].name : i \in DOMAIN board} = Scorers
<1>1. L \subseteq User /\ L \in SUBSET Scorers /\ IsFiniteSet(Scorers) /\ IsFiniteSet(L)
  <2>1. L \in SUBSET Scorers /\ Scorers \in SUBSET User
    BY DEF Selected, Scorers
  <2> QED
    BY <2>1, StatisticsAssumption, FS_Subset
<1>2. PICK k \in Nat : k = Cardinality(L)
  BY <1>1, FS_CardinalityType
<1>3. /\ order \in [1 .. k -> L]
      /\ \A i, j \in 1 .. k : i < j => order[i] # order[j] /\ ~PairCompare(order[j], order[i])
  BY <1>2 DEF Sorted
<1>4. /\ DOMAIN board = 1 .. k
      /\ \A i \in 1 .. k : /\ board[i].name = order[i] /\ order[i] \in L
                           /\ board[i].score = Correct(order[i])
  BY <1>3
<1>5. \A i, j \in 1 .. k :
        i < j => board[i].score >= board[j].score /\ board[i].name # board[j].name
  <2> SUFFICES ASSUME NEW i \in 1 .. k, NEW j \in 1 .. k, i < j
               PROVE  board[i].score >= board[j].score /\ board[i].name # board[j].name
    OBVIOUS
  <2>1. Correct(order[i]) \in Nat /\ Correct(order[j]) \in Nat
    BY <1>1, <1>4, CountsOfRows
  <2>2. order[i] # order[j] /\ ~(Correct(order[j]) > Correct(order[i]))
    BY <1>3 DEF PairCompare
  <2> QED
    BY <1>4, <2>1, <2>2
<1>6. ASSUME Cardinality(Scorers) <= 3
      PROVE  {board[i].name : i \in DOMAIN board} = Scorers
  <2>1. Cardinality(L) = Cardinality(Scorers)
    <3>1. Cardinality(Scorers) \in Nat
      BY <1>1, FS_CardinalityType
    <3> QED
      BY <1>6, <3>1 DEF Selected, Three
  <2>2. L = Scorers
    BY <1>1, <2>1, FS_Subset
  <2>3. order \in Injection(1 .. k, L)
    <3>1. \A i, j \in 1 .. k : i # j => i < j \/ j < i
      OBVIOUS
    <3>2. \A i, j \in 1 .. k : order[i] = order[j] => i = j
      BY <1>3, <3>1
    <3> QED
      BY <1>3, <3>2 DEF Injection, IsInjective
  <2>4. Cardinality(1 .. k) = k
    BY FS_Interval
  <2>5. order \in Surjection(1 .. k, L)
    BY <1>1, <1>2, <2>3, <2>4, FS_Injection
  <2>6. \A u \in L : \E i \in 1 .. k : order[i] = u
    BY <2>5 DEF Surjection
  <2> QED
    BY <1>4, <2>2, <2>6
<1> QED
  BY <1>4, <1>5, <1>6

\* The largest number of u's games is between the runs u answered in and the games.
LEMMA GamesColumnBetween ==
  ASSUME RunsInv, NEW u \in Scorers
  PROVE  /\ GamesColumn(u) >= Cardinality({t_games[a.row].run : a \in RowsOf(u)})
         /\ GamesColumn(u) <= Len(t_games)
<1> DEFINE T == {a.game_id : a \in RowsOf(u)}
           R == {t_games[a.row].run : a \in RowsOf(u)}
<1>1. PICK n \in Nat : n = Len(t_games) /\ DOMAIN t_games = 1 .. n
  <2>1. t_games \in Seq(GameRow)
    BY DEF RunsInv, TypeOK
  <2> QED
    BY <2>1
<1>2. \A a \in RowsOf(u) : a.game_id \in 1 .. n /\ t_games[a.game_id].run = t_games[a.row].run
  BY <1>1 DEF RunsInv, AnswersResolve, RowsOf
<1>3. RowsOf(u) # {}
  BY DEF Scorers
<1>4. T \in SUBSET Nat /\ T # {} /\ \A t \in T : t >= 1 /\ t <= n
  BY <1>2, <1>3
<1>5. PICK m \in T : \A t \in T : t <= m
  <2> HIDE DEF T
  <2> QED
    BY <1>4, Largest
<1>6. \A a \in RowsOf(u) : a.game_id <= m
  BY <1>5
<1>7. GamesColumn(u) \in T /\ \A a \in RowsOf(u) : a.game_id <= GamesColumn(u)
  <2>1. \E g \in {a.game_id : a \in RowsOf(u)} : \A a \in RowsOf(u) : a.game_id <= g
    BY <1>6
  <2> QED
    BY <2>1 DEF GamesColumn
<1>8. PICK g \in Nat : g = GamesColumn(u) /\ g <= n /\ T \subseteq 1 .. g
  <2>1. \A t \in T : t <= GamesColumn(u)
    BY <1>7
  <2> HIDE DEF T
  <2> QED
    <3>1. GamesColumn(u) \in Nat /\ GamesColumn(u) <= n
      BY <1>4, <1>7
    <3>2. \A t \in T : t \in 1 .. GamesColumn(u)
      BY <1>4, <2>1, <3>1
    <3> QED
      BY <3>1, <3>2
\* The games u answered in know the runs.
<1>9. Cardinality(R) <= g
  <2>1. \A r \in R : \E i \in T : t_games[i].run = r
    <3> SUFFICES ASSUME NEW a \in RowsOf(u) PROVE \E i \in T : t_games[i].run = t_games[a.row].run
      OBVIOUS
    <3> QED
      BY <1>2
  <2> DEFINE f == [r \in R |-> CHOOSE i \in T : t_games[i].run = r]
  <2> HIDE DEF T, R
  <2>2. \A r \in R : f[r] \in T /\ t_games[f[r]].run = r
    BY <2>1
  <2>3. f \in [R -> 1 .. g]
    BY <1>8, <2>2
  <2>4. \A r, s \in R : f[r] = f[s] => r = s
    BY <2>2
  <2> HIDE DEF f
  <2>5. f \in Injection(R, 1 .. g)
    BY <2>3, <2>4 DEF Injection, IsInjective
  <2>6. IsFiniteSet(1 .. g) /\ Cardinality(1 .. g) = g
    BY FS_Interval
  <2>7. Cardinality(R) <= Cardinality(1 .. g)
    BY <2>5, <2>6, FS_Injection
  <2> QED
    BY <2>6, <2>7
<1> QED
  BY <1>1, <1>8, <1>9

\* A step that shows nothing
LEMMA NothingShown ==
  ASSUME RunsInv', IsFiniteSet(t_players_answers'), reply' = NoReply
  PROVE  ShownInv'
<1>1. reply'.type = "none"
  BY DEF NoReply
<1> QED
  BY <1>1 DEF ShownInv, BoardHonest, GamesShownBetween

LEMMA NextShown == ShownInv /\ [Next]_vars => ShownInv'
<1> SUFFICES ASSUME ShownInv, [Next]_vars PROVE ShownInv'
  OBVIOUS
<1>1. RunsInv /\ RunsInv' /\ IsFiniteSet(t_players_answers)
  BY NextRuns DEF ShownInv
<1>2. ASSUME NEW u \in User, HandleGetBestScores(u) PROVE ShownInv'
  <2>0. PICK L \in Selected : \E order \in Sorted(L) :
          reply' = [type |-> "best",
                    board |-> [i \in DOMAIN order |-> [name |-> order[i], score |-> Correct(order[i])]]]
    BY <1>2 DEF HandleGetBestScores
  <2>1. PICK order \in Sorted(L) :
          reply' = [type |-> "best",
                    board |-> [i \in DOMAIN order |-> [name |-> order[i], score |-> Correct(order[i])]]]
    BY <2>0
  <2>2. t_players_answers' = t_players_answers
    BY <1>2 DEF HandleGetBestScores, file
  <2>3. /\ \A i \in DOMAIN reply'.board : reply'.board[i].score = Correct(reply'.board[i].name)
        /\ \A i, j \in DOMAIN reply'.board :
             i < j => /\ reply'.board[i].score >= reply'.board[j].score
                      /\ reply'.board[i].name # reply'.board[j].name
        /\ Cardinality(Scorers) <= 3 =>
             {reply'.board[i].name : i \in DOMAIN reply'.board} = Scorers
    <3>1. reply'.board = [i \in DOMAIN order |-> [name |-> order[i], score |-> Correct(order[i])]]
      BY <2>1
    <3>2. PICK board : board = reply'.board
      OBVIOUS
    <3> QED
      BY <1>1, <3>1, <3>2, BoardOf
  <2>4. Scorers' = Scorers /\ \A v : Correct(v)' = Correct(v)
    BY <2>2 DEF Scorers, Correct, RowsOf
  <2>5. BoardHonest'
    BY <2>3, <2>4 DEF BoardHonest
  <2>6. GamesShownBetween'
    <3>1. reply'.type = "best"
      BY <2>1
    <3> QED
      BY <3>1 DEF GamesShownBetween
  <2> QED
    BY <1>1, <2>2, <2>5, <2>6 DEF ShownInv
<1>3. ASSUME NEW u \in User, HandleGetPersonalStatus(u) PROVE ShownInv'
  <2>1. t_players_answers' = t_players_answers /\ t_games' = t_games
    BY <1>3 DEF HandleGetPersonalStatus, file
  <2>2. CASE u \in Scorers
    <3>1. reply'.type = "status" /\ reply'.user = u /\ reply'.games = GamesColumn(u)
      BY <1>3, <2>2 DEF HandleGetPersonalStatus
    <3>2. /\ GamesColumn(u) >= Cardinality({t_games[a.row].run : a \in RowsOf(u)})
          /\ GamesColumn(u) <= Len(t_games)
      BY <1>1, <2>2, GamesColumnBetween
    <3>3. RowsOf(u)' = RowsOf(u)
      BY <2>1 DEF RowsOf
    <3>4. GamesShownBetween'
      BY <2>1, <3>1, <3>2, <3>3 DEF GamesShownBetween, RowsOf
    <3>5. BoardHonest'
      BY <3>1 DEF BoardHonest
    <3> QED
      BY <1>1, <2>1, <3>4, <3>5 DEF ShownInv
  <2>3. CASE u \notin Scorers
    <3>1. reply' = NoReply
      BY <1>3, <2>3 DEF HandleGetPersonalStatus, Ends
    <3> QED
      BY <1>1, <2>1, <3>1, NothingShown
  <2> QED
    BY <2>2, <2>3
<1>4. ASSUME NEW u \in User, AddAnswerToPlayer(u) PROVE ShownInv'
  <2>1. PICK right \in BOOLEAN, ok \in WriteOutcomes :
          t_players_answers' = IF ok THEN t_players_answers \cup {RowOf(u, right)}
                               ELSE t_players_answers
    BY <1>4 DEF AddAnswerToPlayer
  <2>2. IsFiniteSet(t_players_answers')
    BY <1>1, <2>1, FS_AddElement
  <2>3. reply' = NoReply
    BY <1>4 DEF AddAnswerToPlayer
  <2> QED
    BY <1>1, <2>2, <2>3, NothingShown
<1>5. CASE Start \/ Setup \/ Killed
  <2>1. reply' = NoReply /\ t_players_answers' = t_players_answers
    BY <1>5 DEF Start, Setup, Killed, Ends, file
  <2> QED
    BY <1>1, <2>1, NothingShown
<1>6. ASSUME NEW S \in SUBSET User, NEW n \in QuestionNos, StartGame(S, n) PROVE ShownInv'
  <2>1. reply' = NoReply /\ t_players_answers' = t_players_answers
    BY <1>6 DEF StartGame, Ends
  <2> QED
    BY <1>1, <2>1, NothingShown
<1>7. ASSUME NEW u \in User, TellResult(u) \/ EndGame(u) PROVE ShownInv'
  <2>1. reply' = NoReply /\ t_players_answers' = t_players_answers
    BY <1>7 DEF TellResult, EndGame, Ends, file
  <2> QED
    BY <1>1, <2>1, NothingShown
<1>8. CASE UNCHANGED vars
  <2>1. UNCHANGED <<t_players_answers, t_games, reply>>
    BY <1>8 DEF vars, file
  <2>2. Scorers' = Scorers /\ \A v : Correct(v)' = Correct(v) /\ RowsOf(v)' = RowsOf(v)
    BY <2>1 DEF Scorers, Correct, RowsOf
  <2>3. BoardHonest' /\ GamesShownBetween'
    BY <2>1, <2>2 DEF ShownInv, BoardHonest, GamesShownBetween
  <2> QED
    BY <1>1, <2>1, <2>3 DEF ShownInv
<1> QED
  BY <1>2, <1>3, <1>4, <1>5, <1>6, <1>7, <1>8 DEF Next

LEMMA ShownInvariant == Spec => []ShownInv
<1>1. Init => ShownInv
  <2> SUFFICES ASSUME Init PROVE ShownInv
    OBVIOUS
  <2>1. reply.type = "none" /\ t_players_answers = {}
    BY DEF Init, NoReply
  <2> QED
    BY <2>1, InitRuns, FS_EmptySet DEF ShownInv, BoardHonest, GamesShownBetween
<1> QED
  BY <1>1, NextShown, PTL DEF Spec

\* Whoever answers while it is asked for, the board of the best has true scores,
\* best first, no user twice, and everybody who ever answered if they are three
\* or fewer (Database.cpp:237, 264).
THEOREM BoardsHonest == Spec => []BoardHonest
<1>1. ShownInv => BoardHonest
  BY DEF ShownInv
<1> QED
  BY <1>1, ShownInvariant, PTL

\* The games a status names are at least the runs of the server its user answered
\* in, and at most all games, wherever the server was killed and whichever
\* inserts failed (Database.cpp:281-306).
THEOREM GamesShownWithin == Spec => []GamesShownBetween
<1>1. ShownInv => GamesShownBetween
  BY DEF ShownInv
<1> QED
  BY <1>1, ShownInvariant, PTL

=============================================================================
