-------------------------- MODULE GameEngineProofs --------------------------
(***************************************************************************)
(* Proofs about GameEngine, for every set of users and every bound: first  *)
(* what holds without any pacing, where games may overlap, clocks may run  *)
(* out, connections may be lost and handlers may interleave at every step; *)
(* then what holds in paced play.                                          *)
(***************************************************************************)
EXTENDS GameEngine, FiniteSetTheorems, TLAPS

\* A thread that judges an answer found the question in its copy.
JudgesInRange ==
  \A u \in User : pc[u] \in Judging => HasQuestion(game[u]) /\ handler[u] = "answer"

\* A copy is of a game whose row was inserted; a null game has no questions.
RunsCounted ==
  \A u \in User : /\ game[u].run <= Len(gameRows)
                  /\ game[u].run = 0 => game[u].questions = <<>>

\* A recorded answer belongs to a game that was started.
RowsCounted == \A row \in answerRows : row.run \in 1 .. Len(gameRows)

\* The steps in which the answer just recorded may still be the current one
Scored == {"turn", "advance", "finish"}

\* A copy's index is never behind the rows of its owner, and it is past them
\* except between the recording of an answer and the move that follows.
RowsBehind ==
  \A u \in User \ gone : \A row \in answerRows :
    (row.user = u /\ row.run = game[u].run) =>
      /\ row.index <= game[u].index
      /\ (pc[u] \notin Scored \/ handler[u] = "leave") => row.index < game[u].index

\* The inductive invariant
RowsInv == TypeOK /\ JudgesInRange /\ RunsCounted /\ RowsCounted /\ RowsBehind

-----------------------------------------------------------------------------
(* Facts about the data *)

\* The questions drawn for a room are a sequence of row numbers.
LEMMA DrawsAreSequences ==
  ASSUME NEW n \in Nat, NEW q \in Draws(n)
  PROVE  q \in Seq(Nat)
<1>1. DrawCount(n) \in Nat
  BY QuestionAssumption DEF DrawCount
<1>2. q \in [1 .. DrawCount(n) -> 1 .. Stock]
  BY DEF Draws
<1>3. q \in [1 .. DrawCount(n) -> Nat]
  BY <1>2, QuestionAssumption
<1> QED
  BY <1>1, <1>3

\* A broadcast keeps every inbox a sequence of messages.
LEMMA SentKeepsInboxes ==
  ASSUME inbox \in [User -> Seq(Messages)], NEW S, NEW m \in Messages
  PROVE  Sent(S, m) \in [User -> Seq(Messages)]
<1> SUFFICES ASSUME NEW v \in User
             PROVE  Sent(S, m)[v] \in Seq(Messages)
  BY DEF Sent
<1>1. inbox[v] \in Seq(Messages)
  OBVIOUS
<1> QED
  BY <1>1 DEF Sent

\* A head is a message and a tail is a sequence of them.
LEMMA ReadingAnInbox ==
  ASSUME NEW s \in Seq(Messages), s # <<>>
  PROVE  Head(s) \in Messages /\ Tail(s) \in Seq(Messages)
OBVIOUS

\* Moving on changes nothing but the index.
LEMMA NextCopy ==
  ASSUME NEW g \in Games
  PROVE  /\ Next1(g) \in Games
         /\ Next1(g).index = g.index + 1
         /\ Next1(g).run = g.run
         /\ Next1(g).questions = g.questions
BY DEF Next1, Games

LEMMA NoGameIsACopy == NoGame \in Games
<1>1. <<>> \in Seq(Nat)
  OBVIOUS
<1> QED
  BY <1>1 DEF NoGame, Games

-----------------------------------------------------------------------------
(* One lemma per action: it keeps the invariant. *)

\* A crash changes nothing but the flag.
LEMMA CrashKeeps ==
  ASSUME RowsInv, Crash
  PROVE  RowsInv'
BY DEF RowsInv, Crash, shared, threads, clients, TypeOK, JudgesInRange,
       HasQuestion, RunsCounted, RowsCounted, RowsBehind

LEMMA ReadCounterKeeps ==
  ASSUME RowsInv, NEW u \in User, ReadCounter(u)
  PROVE  RowsInv'
<1> USE DEF RowsInv, ReadCounter, shared, clients
<1>1. TypeOK'
  BY DEF TypeOK, Steps
<1>2. JudgesInRange'
  BY DEF TypeOK, JudgesInRange, HasQuestion, Judging
<1>3. RunsCounted' /\ RowsCounted'
  BY DEF RunsCounted, RowsCounted
<1>4. RowsBehind'
  BY DEF TypeOK, RowsBehind, Scored
<1> QED
  BY <1>1, <1>2, <1>3, <1>4

LEMMA StoreCounterKeeps ==
  ASSUME RowsInv, NEW u \in User, StoreCounter(u)
  PROVE  RowsInv'
<1> USE DEF RowsInv, StoreCounter, clients
<1>1. TypeOK'
  BY DEF TypeOK, Steps
<1>2. JudgesInRange'
  BY DEF TypeOK, JudgesInRange, HasQuestion, Judging
<1>3. RunsCounted' /\ RowsCounted'
  BY DEF RunsCounted, RowsCounted
<1>4. RowsBehind'
  BY DEF TypeOK, RowsBehind, Scored
<1> QED
  BY <1>1, <1>2, <1>3, <1>4

LEMMA InsertResultKeeps ==
  ASSUME RowsInv, NEW u \in User, InsertResult(u)
  PROVE  RowsInv'
<1> USE DEF RowsInv, InsertResult, clients
<1>1. TypeOK'
  BY DEF TypeOK, Steps
<1>2. JudgesInRange'
  BY DEF TypeOK, JudgesInRange, HasQuestion, Judging
<1>3. RunsCounted' /\ RowsCounted'
  BY DEF RunsCounted, RowsCounted
<1>4. RowsBehind'
  BY DEF TypeOK, RowsBehind, Scored
<1> QED
  BY <1>1, <1>2, <1>3, <1>4

\* An index below the length of a sequence of numbers finds a number.
LEMMA NextElement ==
  ASSUME NEW s \in Seq(Nat), NEW i \in Nat, i < Len(s)
  PROVE  s[i + 1] \in Nat
<1>1. i + 1 \in 1 .. Len(s)
  OBVIOUS
<1> QED
  BY <1>1

\* The row of an answer is a row, and it is of the copy's run and index.
LEMMA RowOfType ==
  ASSUME TypeOK, NEW u \in User, HasQuestion(game[u])
  PROVE  /\ RowOf(u) \in AnswerRow
         /\ RowOf(u).user = u
         /\ RowOf(u).run = game[u].run
         /\ RowOf(u).index = game[u].index
<1>1. /\ game[u].run \in Nat
      /\ game[u].id \in Nat
      /\ game[u].index \in Nat
      /\ game[u].questions \in Seq(Nat)
  BY DEF TypeOK, Games
<1>2. game[u].questions[game[u].index + 1] \in Nat
  <2> DEFINE s == game[u].questions
             i == game[u].index
  <2>1. s \in Seq(Nat) /\ i \in Nat /\ i < Len(s)
    BY <1>1 DEF HasQuestion
  <2> HIDE DEF s, i
  <2>2. s[i + 1] \in Nat
    BY <2>1, NextElement
  <2> QED
    BY <2>2 DEF s, i
<1>3. right[u] \in BOOLEAN
  BY DEF TypeOK
<1> QED
  BY <1>1, <1>2, <1>3 DEF RowOf, AnswerRow

LEMMA ScoreAnswerKeeps ==
  ASSUME RowsInv, NEW u \in User, ScoreAnswer(u)
  PROVE  RowsInv'
<1> USE DEF RowsInv, ScoreAnswer, clients
<1>1. /\ HasQuestion(game[u])
      /\ game[u].run \in 1 .. Len(gameRows)
  <2>1. HasQuestion(game[u])
    BY DEF JudgesInRange, Judging
  <2>2. game[u].run # 0
    <3>1. game[u].run = 0 => game[u].questions = <<>>
      BY DEF RunsCounted
    <3>2. game[u].index \in Nat
      BY DEF TypeOK, Games
    <3> QED
      BY <2>1, <3>1, <3>2 DEF HasQuestion
  <2>3. game[u].run \in Nat /\ game[u].run <= Len(gameRows)
    BY DEF TypeOK, Games, RunsCounted
  <2>4. Len(gameRows) \in Nat
    BY DEF TypeOK
  <2> QED
    BY <2>1, <2>2, <2>3, <2>4
<1>2. answerRows' \subseteq answerRows \cup {RowOf(u)}
  OBVIOUS
<1>3. TypeOK'
  <2>1. answerRows' \subseteq AnswerRow
    BY <1>1, <1>2, RowOfType DEF TypeOK
  <2>2. results' \in [User -> Nat \cup {NoEntry}]
    BY DEF TypeOK, NoEntry
  <2>3. pc' \in [User -> Steps]
    BY DEF TypeOK, Steps
  <2> QED
    BY <2>1, <2>2, <2>3 DEF TypeOK
<1>4. JudgesInRange'
  BY DEF TypeOK, JudgesInRange, HasQuestion, Judging
<1>5. RunsCounted'
  BY DEF RunsCounted
<1>6. RowsCounted'
  BY <1>1, <1>2, RowOfType DEF RowsCounted
<1>7. RowsBehind'
  <2> SUFFICES ASSUME NEW v \in User \ gone, NEW row \in answerRows',
                      row.user = v, row.run = game[v].run
               PROVE  /\ row.index <= game[v].index
                      /\ (pc'[v] \notin Scored \/ handler[v] = "leave")
                           => row.index < game[v].index
    BY DEF RowsBehind
  <2>1. CASE row \in answerRows /\ v # u
    BY <2>1 DEF TypeOK, RowsBehind
  <2>2. CASE row \in answerRows /\ v = u
    BY <2>2 DEF TypeOK, RowsBehind, Scored
  <2>3. CASE row = RowOf(u)
    <3>1. v = u /\ row.index = game[u].index
      BY <1>1, <2>3, RowOfType
    <3>2. game[u].index \in Nat
      BY DEF TypeOK, Games
    <3>3. pc'[u] \in Scored
      BY <3>1 DEF TypeOK, Scored
    <3>4. handler[u] # "leave"
      BY DEF JudgesInRange, Judging
    <3> QED
      BY <3>1, <3>2, <3>3, <3>4
  <2> QED
    BY <1>2, <2>1, <2>2, <2>3
<1> QED
  BY <1>3, <1>4, <1>5, <1>6, <1>7

\* Dropping a copy, or changing neither its run nor its questions, keeps the
\* copies counted.
LEMMA CopyReplaced ==
  ASSUME TypeOK, RunsCounted, NEW u \in User, NEW g,
         game' = [game EXCEPT ![u] = g], UNCHANGED gameRows,
         g = NoGame \/ (g.run = game[u].run /\ g.questions = game[u].questions)
  PROVE  RunsCounted'
<1>1. 0 <= Len(gameRows)
  BY DEF TypeOK
<1>2. NoGame.run = 0 /\ NoGame.questions = <<>>
  BY DEF NoGame
<1>3. \A v \in User : game'[v] = IF v = u THEN g ELSE game[v]
  BY DEF TypeOK
<1> QED
  BY <1>1, <1>2, <1>3 DEF RunsCounted

\* The decision of a turn: the copy stays, or moves on, or is dropped.
LEMMA NextTurnKeeps ==
  ASSUME RowsInv, NEW u \in User, NextTurn(u)
  PROVE  RowsInv'
<1> USE DEF RowsInv, NextTurn, shared, clients
<1>0. /\ game[u] \in Games
      /\ pc[u] = "turn"
  BY DEF TypeOK
<1>1. CASE game' = game /\ (\E s \in {"finish", "advance"} : pc' = [pc EXCEPT ![u] = s])
  <2>1. TypeOK'
    BY <1>1 DEF TypeOK, Steps
  <2>2. JudgesInRange'
    BY <1>1 DEF TypeOK, JudgesInRange, HasQuestion, Judging
  <2>3. RunsCounted' /\ RowsCounted'
    BY <1>1 DEF RunsCounted, RowsCounted
  <2>4. RowsBehind'
    BY <1>0, <1>1 DEF TypeOK, RowsBehind, Scored
  <2> QED
    BY <2>1, <2>2, <2>3, <2>4
<1>2. CASE \E ret \in Fallthrough : Return(u, Next1(game[u]), ret)
  <2>1. /\ pc' = [pc EXCEPT ![u] = "idle"]
        /\ \/ game' = [game EXCEPT ![u] = Next1(game[u])]
           \/ game' = [game EXCEPT ![u] = NoGame]
    BY <1>2 DEF Return
  <2>2. TypeOK'
    BY <1>0, <2>1, NextCopy, NoGameIsACopy DEF TypeOK, Steps
  <2>3. JudgesInRange'
    BY <2>1 DEF TypeOK, JudgesInRange, HasQuestion, Judging
  <2>4. RunsCounted' /\ RowsCounted'
    <3>1. RunsCounted'
      BY <1>0, <2>1, NextCopy, CopyReplaced
    <3> QED
      BY <3>1 DEF RowsCounted
  <2>5. RowsBehind'
    <3> SUFFICES ASSUME NEW v \in User \ gone, NEW row \in answerRows,
                        row.user = v, row.run = game'[v].run
                 PROVE  /\ row.index <= game'[v].index
                        /\ (pc'[v] \notin Scored \/ handler[v] = "leave")
                             => row.index < game'[v].index
      BY DEF RowsBehind
    <3>0. row.index \in Nat /\ game[v] \in Games /\ game[v].index \in Nat
      BY DEF TypeOK, AnswerRow, Games
    <3>1. CASE v # u
      BY <2>1, <3>1 DEF TypeOK, RowsBehind
    <3>2. CASE v = u /\ game'[u] = NoGame
      BY <3>2 DEF RowsCounted, NoGame
    <3>3. CASE v = u /\ game'[u] = Next1(game[u])
      BY <1>0, <3>0, <3>3, NextCopy DEF RowsBehind
    <3> QED
      BY <2>1, <3>1, <3>2, <3>3 DEF TypeOK
  <2> QED
    BY <2>2, <2>3, <2>4, <2>5
<1> QED
  BY <1>1, <1>2

LEMMA AdvanceTurnKeeps ==
  ASSUME RowsInv, NEW u \in User, AdvanceTurn(u)
  PROVE  RowsInv'
<1> USE DEF RowsInv, AdvanceTurn, clients
<1>0. game[u] \in Games /\ game[u].index \in Nat
  BY DEF TypeOK, Games
<1>1. game' = [game EXCEPT ![u] = Next1(game[u])]
  OBVIOUS
<1>2. TypeOK'
  BY <1>0, <1>1, NextCopy DEF TypeOK, Steps
<1>3. JudgesInRange'
  BY <1>1 DEF TypeOK, JudgesInRange, HasQuestion, Judging
<1>4. RunsCounted' /\ RowsCounted'
  BY <1>0, <1>1, NextCopy DEF TypeOK, RunsCounted, RowsCounted
<1>5. RowsBehind'
  <2> SUFFICES ASSUME NEW v \in User \ gone, NEW row \in answerRows,
                      row.user = v, row.run = game'[v].run
               PROVE  /\ row.index <= game'[v].index
                      /\ (pc'[v] \notin Scored \/ handler[v] = "leave")
                           => row.index < game'[v].index
    BY DEF RowsBehind
  <2>0. row.index \in Nat
    BY DEF TypeOK, AnswerRow
  <2>1. CASE v # u
    BY <1>1, <2>1 DEF TypeOK, RowsBehind
  <2>2. CASE v = u
    BY <1>0, <1>1, <2>0, <2>2, NextCopy DEF TypeOK, RowsBehind
  <2> QED
    BY <2>1, <2>2
<1> QED
  BY <1>2, <1>3, <1>4, <1>5

LEMMA SendQuestionKeeps ==
  ASSUME RowsInv, NEW u \in User, SendQuestion(u)
  PROVE  RowsInv'
<1>1. CASE ~HasQuestion(game[u])
  BY <1>1, CrashKeeps DEF SendQuestion
<1>2. CASE HasQuestion(game[u])
  <2> USE DEF RowsInv, SendQuestion, shared
  <2>0. game[u].index \in Nat
    BY DEF TypeOK, Games
  <2>1. /\ pc' = [pc EXCEPT ![u] = "idle"]
        /\ \/ game' = game
           \/ game' = [game EXCEPT ![u] = NoGame]
        /\ UNCHANGED <<shared, handler, seen, right, shown, expired, seated, gone, up>>
    BY <1>2 DEF Return, TypeOK
  <2>2. inbox' \in [User -> Seq(Messages)]
    <3>1. Question(game[u].index) \in Messages
      BY <2>0 DEF Question, Messages
    <3> QED
      BY <1>2, <3>1, SentKeepsInboxes DEF TypeOK
  <2>3. TypeOK'
    BY <2>1, <2>2, NoGameIsACopy DEF TypeOK, Steps
  <2>4. JudgesInRange'
    BY <2>1 DEF TypeOK, JudgesInRange, HasQuestion, Judging
  <2>5. RunsCounted' /\ RowsCounted'
    <3>1. CASE game' = game
      BY <2>1, <3>1 DEF RunsCounted, RowsCounted
    <3>2. CASE game' = [game EXCEPT ![u] = NoGame]
      BY <2>1, <3>2, CopyReplaced DEF RowsCounted
    <3> QED
      BY <2>1, <3>1, <3>2
  <2>6. RowsBehind'
    <3> SUFFICES ASSUME NEW v \in User \ gone, NEW row \in answerRows,
                        row.user = v, row.run = game'[v].run
                 PROVE  /\ row.index <= game'[v].index
                        /\ (pc'[v] \notin Scored \/ handler[v] = "leave")
                             => row.index < game'[v].index
      BY <2>1 DEF RowsBehind
    <3>1. game'[v] = game[v]
      BY <2>1 DEF TypeOK, RowsCounted, NoGame
    <3>2. pc[v] \in Scored => pc'[v] \in Scored
      BY <2>1, <1>2 DEF TypeOK, Scored
    <3> QED
      BY <3>1, <3>2 DEF RowsBehind
  <2> QED
    BY <2>3, <2>4, <2>5, <2>6
<1> QED
  BY <1>1, <1>2

\* The end of a game: the thread that ends it drops its copy, unless it leaves.
LEMMA FinishGameKeeps ==
  ASSUME RowsInv, NEW u \in User, FinishGame(u)
  PROVE  RowsInv'
<1> USE DEF RowsInv, FinishGame
<1>1. /\ pc' = [pc EXCEPT ![u] = "idle"]
      /\ \/ game' = game /\ handler[u] = "leave"
         \/ game' = [game EXCEPT ![u] = NoGame]
  BY DEF Return, TypeOK
<1>2. gameRows' \in Seq({0, 1}) /\ Len(gameRows') = Len(gameRows)
  <2> DEFINE ended == [gameRows EXCEPT ![game[u].id - InitialGames] = 1]
  <2>1. gameRows \in Seq({0, 1})
    BY DEF TypeOK
  <2>2. ended \in Seq({0, 1}) /\ Len(ended) = Len(gameRows)
    <3>1. Len(gameRows) \in Nat /\ gameRows \in [1 .. Len(gameRows) -> {0, 1}]
      BY <2>1
    <3>2. ended \in [1 .. Len(gameRows) -> {0, 1}]
      BY <3>1
    <3> HIDE DEF RowsInv, FinishGame, ended
    <3> QED
      BY <3>1, <3>2
  <2>3. gameRows' = ended \/ gameRows' = gameRows
    OBVIOUS
  <2> QED
    BY <2>1, <2>2, <2>3
<1>3. inbox' \in [User -> Seq(Messages)]
  <2>1. EndGame \in Messages
    BY DEF EndGame, Messages
  <2> QED
    BY <2>1, SentKeepsInboxes DEF TypeOK
<1>4. TypeOK'
  BY ZenonT(60), <1>1, <1>2, <1>3, NoGameIsACopy DEF TypeOK, Steps
<1>5. JudgesInRange'
  BY <1>1 DEF TypeOK, JudgesInRange, HasQuestion, Judging
<1>6. RunsCounted'
  <2>1. 0 <= Len(gameRows') /\ NoGame.run = 0 /\ NoGame.questions = <<>>
    BY <1>2 DEF NoGame
  <2>2. \A v \in User : game'[v] = game[v] \/ game'[v] = NoGame
    BY <1>1 DEF TypeOK
  <2> QED
    BY <1>2, <2>1, <2>2 DEF RunsCounted
<1>7. RowsCounted'
  BY <1>2 DEF RowsCounted
<1>8. RowsBehind'
  <2> SUFFICES ASSUME NEW v \in User \ gone, NEW row \in answerRows,
                      row.user = v, row.run = game'[v].run
               PROVE  /\ row.index <= game'[v].index
                      /\ (pc'[v] \notin Scored \/ handler[v] = "leave")
                           => row.index < game'[v].index
    BY DEF RowsBehind
  <2>1. game'[v] = game[v] /\ (v = u => handler[u] = "leave")
    <3>1. row.run # 0 /\ NoGame.run = 0
      BY DEF RowsCounted, NoGame
    <3> QED
      BY <1>1, <3>1 DEF TypeOK
  <2> QED
    BY <1>1, <2>1 DEF RowsBehind, TypeOK
<1> QED
  BY <1>4, <1>5, <1>6, <1>7, <1>8

\* A departure enters the turn with a copy that is past every recorded answer.
LEMMA HandleLeaveGameKeeps ==
  ASSUME RowsInv, NEW u \in User, HandleLeaveGame(u)
  PROVE  RowsInv'
<1> USE DEF RowsInv, HandleLeaveGame, CanEnter, Enter, shared
<1>1. \A v \in User : /\ game'[v] \in Games
                      /\ game'[v].run = game[v].run
                      /\ game'[v].questions = game[v].questions
                      /\ game'[v].index = game[v].index
  <2> SUFFICES ASSUME NEW v \in User
               PROVE  /\ game'[v] \in Games
                      /\ game'[v].run = game[v].run
                      /\ game'[v].questions = game[v].questions
                      /\ game'[v].index = game[v].index
    OBVIOUS
  <2>1. game[v] \in Games
    BY DEF TypeOK
  <2>2. game'[v] = IF v = u THEN [game[v] EXCEPT !.players = @ \ {u}] ELSE game[v]
    BY DEF TypeOK
  <2>3. game[v].players \ {u} \subseteq User
    BY <2>1 DEF Games
  <2> HIDE DEF RowsInv, HandleLeaveGame, CanEnter, Enter, shared
  <2>4. CASE v = u
    <3>1. game'[v] = [game[v] EXCEPT !.players = game[v].players \ {u}]
      BY <2>2, <2>4
    <3> QED
      BY <2>1, <2>3, <3>1 DEF Games
  <2>5. CASE v # u
    BY <2>1, <2>2, <2>5
  <2> QED
    BY <2>4, <2>5
<1>2. \A v \in User : \/ pc'[v] = pc[v] /\ handler'[v] = handler[v]
                      \/ v = u /\ pc'[v] = "turn" /\ handler'[v] = "leave"
  BY DEF TypeOK
<1>3. TypeOK'
  <2>1. game' \in [User -> Games]
    BY <1>1 DEF TypeOK
  <2>2. inbox' \in [User -> Seq(Messages)]
    BY ReadingAnInbox DEF TypeOK
  <2>3. pc' \in [User -> Steps] /\ handler' \in [User -> Handlers]
    BY DEF TypeOK, Steps, Handlers
  <2> QED
    BY <2>1, <2>2, <2>3 DEF TypeOK
<1>4. JudgesInRange'
  BY <1>1, <1>2 DEF JudgesInRange, HasQuestion, Judging
<1>5. RunsCounted' /\ RowsCounted'
  BY <1>1 DEF RunsCounted, RowsCounted
<1>6. RowsBehind'
  BY <1>1, <1>2 DEF RowsBehind, Scored
<1> QED
  BY <1>3, <1>4, <1>5, <1>6

LEMMA VanishKeeps ==
  ASSUME RowsInv, NEW u \in User, Vanish(u)
  PROVE  RowsInv'
<1> USE DEF RowsInv, Vanish, shared, threads
<1>1. TypeOK'
  <2>1. <<>> \in Seq(Messages)
    OBVIOUS
  <2> QED
    BY <2>1 DEF TypeOK
<1>2. JudgesInRange' /\ RunsCounted' /\ RowsCounted'
  BY DEF JudgesInRange, HasQuestion, RunsCounted, RowsCounted
<1>3. RowsBehind'
  BY DEF RowsBehind
<1> QED
  BY <1>1, <1>2, <1>3

\* Taking an answer: nothing changes, or judging begins with the question in
\* range, or the server is down.
LEMMA HandlePlayerAnswerKeeps ==
  ASSUME RowsInv, NEW u \in User, NEW isRight \in BOOLEAN,
         CanEnter(u), inbox[u] # <<>>, HandlePlayerAnswer(u, isRight),
         inbox' \in [User -> Seq(Messages)], expired' \in [User -> BOOLEAN],
         UNCHANGED <<game, shared, seen, seated, gone>>
  PROVE  RowsInv'
<1> USE DEF RowsInv, HandlePlayerAnswer, CanEnter, Enter, shared
<1>1. \A v \in User : \/ pc'[v] = pc[v] /\ handler'[v] = handler[v]
                      \/ /\ v = u /\ pc'[v] = "count" /\ handler'[v] = "answer"
                         /\ pc[v] = "idle" /\ HasQuestion(game[v])
  BY DEF TypeOK
<1>2. TypeOK'
  <2>1. Head(inbox[u]).index \in Nat
    BY ReadingAnInbox DEF TypeOK, Messages
  <2>2. shown' \in [User -> Nat] /\ right' \in [User -> BOOLEAN] /\ up' \in BOOLEAN
    BY <2>1 DEF TypeOK
  <2>3. pc' \in [User -> Steps] /\ handler' \in [User -> Handlers]
    BY DEF TypeOK, Steps, Handlers
  <2> QED
    BY <2>2, <2>3 DEF TypeOK
<1>3. JudgesInRange'
  BY <1>1 DEF JudgesInRange, HasQuestion
<1>4. RunsCounted' /\ RowsCounted'
  BY DEF RunsCounted, RowsCounted
<1>5. RowsBehind'
  BY <1>1 DEF RowsBehind, Scored
<1> QED
  BY <1>2, <1>3, <1>4, <1>5

LEMMA ClickKeeps ==
  ASSUME RowsInv, NEW u \in User, Click(u)
  PROVE  RowsInv'
<1>1. inbox' \in [User -> Seq(Messages)] /\ expired' \in [User -> BOOLEAN]
  BY ReadingAnInbox DEF RowsInv, TypeOK, Click, Asked
<1>2. PICK isRight \in BOOLEAN : HandlePlayerAnswer(u, isRight)
  BY DEF Click
<1> QED
  BY <1>1, <1>2, HandlePlayerAnswerKeeps DEF Click, Asked

LEMMA TimeOutKeeps ==
  ASSUME RowsInv, NEW u \in User, TimeOut(u)
  PROVE  RowsInv'
<1>1. inbox' \in [User -> Seq(Messages)] /\ expired' \in [User -> BOOLEAN]
  BY DEF RowsInv, TypeOK, TimeOut
<1> QED
  BY <1>1, HandlePlayerAnswerKeeps DEF TimeOut, Asked

\* A start gives its roster copies of a run that has no rows yet.
LEMMA HandleStartGameKeeps ==
  ASSUME RowsInv, NEW u \in User, HandleStartGame(u)
  PROVE  RowsInv'
<1>1. CASE Crash
  BY <1>1, CrashKeeps
<1>2. CASE ~Crash
  <2>1. PICK S \in Rosters(u), n \in QuestionNos : \E q \in Draws(n) :
          game' = [v \in User |-> IF v \in S THEN NewGame(S, n, q) ELSE game[v]]
    BY ZenonT(60), <1>2 DEF HandleStartGame
  <2>2. PICK q \in Draws(n) :
          game' = [v \in User |-> IF v \in S THEN NewGame(S, n, q) ELSE game[v]]
    BY <2>1
  <2> DEFINE g == NewGame(S, n, q)
  <2>3. /\ seated' \in [User -> BOOLEAN]
        /\ turnAnswers' = 0
        /\ gameRows' = Append(gameRows, 0)
        /\ handler' = [handler EXCEPT ![u] = "start"]
        /\ pc' = [pc EXCEPT ![u] = "send"]
        /\ UNCHANGED <<results, answerRows, seen, right, shown, inbox, expired,
                       gone, up>>
    BY <1>2 DEF HandleStartGame, Enter, RowsInv, TypeOK
  <2>4. /\ u \in S /\ S \subseteq User
        /\ \A v \in S : pc[v] = "idle"
    BY <1>2 DEF HandleStartGame, CanEnter, Rosters
  <2>5. /\ Len(gameRows) \in Nat
        /\ gameRows' \in Seq({0, 1})
        /\ Len(gameRows') = Len(gameRows) + 1
    BY <2>3 DEF RowsInv, TypeOK
  <2>6. g \in Games /\ g.run = Len(gameRows) + 1
    <3>1. q \in Seq(Nat) /\ n \in Nat
      BY DrawsAreSequences, QuestionAssumption
    <3> QED
      BY <2>4, <2>5, <3>1, GamesAssumption DEF NewGame, Games
  <2>7. \A v \in User : game'[v] = IF v \in S THEN g ELSE game[v]
    BY <2>2
  <2> HIDE DEF g
  <2>8. TypeOK'
    <3>1. game' \in [User -> Games]
      <4>1. game' = [v \in User |-> IF v \in S THEN g ELSE game[v]]
        BY <2>2 DEF g
      <4> QED
        BY <2>6, <4>1 DEF RowsInv, TypeOK
    <3>2. pc' \in [User -> Steps] /\ handler' \in [User -> Handlers]
      BY <2>3 DEF RowsInv, TypeOK, Steps, Handlers
    <3> QED
      BY <2>3, <2>5, <3>1, <3>2 DEF RowsInv, TypeOK
  <2>9. JudgesInRange'
    BY <2>3, <2>4, <2>7 DEF RowsInv, TypeOK, JudgesInRange, HasQuestion, Judging
  <2>10. RunsCounted'
    <3> SUFFICES ASSUME NEW v \in User
                 PROVE  /\ game'[v].run <= Len(gameRows')
                        /\ game'[v].run = 0 => game'[v].questions = <<>>
      BY DEF RunsCounted
    <3>1. game[v].run \in Nat
      BY DEF RowsInv, TypeOK, Games
    <3> QED
      BY <2>5, <2>6, <2>7, <3>1 DEF RowsInv, RunsCounted
  <2>11. RowsCounted'
    BY <2>3, <2>5 DEF RowsInv, RowsCounted
  <2>12. RowsBehind'
    <3> SUFFICES ASSUME NEW v \in User \ gone, NEW row \in answerRows,
                        row.user = v, row.run = game'[v].run
                 PROVE  /\ row.index <= game'[v].index
                        /\ (pc'[v] \notin Scored \/ handler'[v] = "leave")
                             => row.index < game'[v].index
      BY <2>3 DEF RowsBehind
    <3>1. v \notin S
      BY <2>5, <2>6, <2>7 DEF RowsInv, RowsCounted
    <3> QED
      BY <2>3, <2>4, <2>7, <3>1 DEF RowsInv, TypeOK, RowsBehind
  <2> QED
    BY <2>8, <2>9, <2>10, <2>11, <2>12 DEF RowsInv
<1> QED
  BY <1>1, <1>2

-----------------------------------------------------------------------------
(* The theorems *)

LEMMA InitRows == Init => RowsInv
<1> SUFFICES ASSUME Init PROVE RowsInv
  OBVIOUS
<1> USE DEF Init
<1>1. TypeOK
  <2>1. <<>> \in Seq({0, 1}) /\ <<>> \in Seq(Messages)
    OBVIOUS
  <2> QED
    BY <2>1, NoGameIsACopy DEF TypeOK, NoEntry, Steps, Handlers
<1>2. JudgesInRange
  BY DEF JudgesInRange, Judging
<1>3. RunsCounted /\ RowsCounted /\ RowsBehind
  BY DEF RunsCounted, RowsCounted, RowsBehind, NoGame
<1> QED
  BY <1>1, <1>2, <1>3 DEF RowsInv

LEMMA NextRows == RowsInv /\ [Next]_vars => RowsInv'
<1> SUFFICES ASSUME RowsInv, [Next]_vars PROVE RowsInv'
  OBVIOUS
<1>1. CASE UNCHANGED vars
  BY <1>1 DEF vars, shared, threads, clients, RowsInv, TypeOK, JudgesInRange,
              HasQuestion, RunsCounted, RowsCounted, RowsBehind
<1>2. CASE Next
  <2> PICK u \in User : \/ HandleStartGame(u) \/ Click(u) \/ TimeOut(u)
                        \/ HandleLeaveGame(u) \/ Continue(u) \/ Vanish(u)
    BY <1>2 DEF Next
  <2>1. CASE Continue(u)
    BY <2>1, ReadCounterKeeps, StoreCounterKeeps, InsertResultKeeps,
       ScoreAnswerKeeps, NextTurnKeeps, AdvanceTurnKeeps, SendQuestionKeeps,
       FinishGameKeeps DEF Continue
  <2> QED
    BY <2>1, HandleStartGameKeeps, ClickKeeps, TimeOutKeeps,
       HandleLeaveGameKeeps, VanishKeeps
<1> QED
  BY <1>1, <1>2

LEMMA RowsInvariant == Spec => []RowsInv
BY InitRows, NextRows, PTL DEF Spec

\* Every variable keeps its type, in every interleaving.
THEOREM TypeCorrect == Spec => []TypeOK
<1>1. RowsInv => TypeOK
  BY DEF RowsInv
<1> QED
  BY <1>1, RowsInvariant, PTL

\* No question of a game is recorded twice for a player: the index of the copy
\* a thread judges with is above every index recorded for its user.
THEOREM RecordedOnce == Spec => []RowsBelowIndex
<1>1. RowsInv => RowsBelowIndex
  <2> SUFFICES ASSUME RowsInv, NEW u \in User, NEW row \in answerRows,
                      row.user = u, row.run = game[u].run,
                      pc[u] \in Judging \cup {"idle"}, u \notin gone
               PROVE  row.index < game[u].index
    BY DEF RowsBelowIndex
  <2>1. pc[u] \notin Scored
    BY DEF Judging, Scored
  <2> QED
    BY <2>1 DEF RowsInv, RowsBehind
<1> QED
  BY <1>1, RowsInvariant, PTL

-----------------------------------------------------------------------------
(***************************************************************************)
(* Paced play: GameEngine as its authors meant it to be played, for        *)
(* every number of players and of questions: handlers do not overlap, nor  *)
(* games, no clock runs out and no connection is lost.  Statements of the  *)
(* database may fail, and the stock of questions may be too small.         *)
(***************************************************************************)

\* How the program is played here.  Fallthrough: the missing return of
\* handleNextTurn comes out true.
Paced ==
  /\ MaxBusy <= 1 /\ MaxLive <= 1
  /\ Timeouts = FALSE
  /\ FALSE \notin Fallthrough
  /\ MayVanish = {}

-----------------------------------------------------------------------------
(* The inductive invariant: the phases of a game *)

\* Every thread but those of B waits for a request.
IdleBut(B) == \A w \in User \ B : pc[w] = "idle"

\* Whoever is outside of C has no copy of a game, and nothing before it but the
\* end of one it has yet to leave.
OutsidersFree(C) ==
  \A w \in User \ C : /\ game[w] = NoGame
                      /\ inbox[w] = IF seated[w] THEN <<EndGame>> ELSE <<>>

\* A round of game g: its players hold copies of it, those of A, who answered,
\* one that has moved on.  Who answered has a result.
InRound(g, A) ==
  /\ g \in Games /\ A \subseteq g.players /\ A # g.players
  /\ g.questionNo \in QuestionNos /\ g.index < g.questionNo
  /\ OutsidersFree(g.players)
  /\ \A p \in g.players :
       /\ game[p] = IF p \in A THEN Next1(g) ELSE g
       /\ seated[p]
       /\ p \in A \/ g.index > 0 => results[p] # NoEntry

\* The players of A have no message, the others the question of the round.
AskedBut(g, A) ==
  \A p \in g.players : inbox[p] = IF p \in A THEN <<>> ELSE <<Question(g.index)>>

\* Nobody's answer is being handled.
Waiting(g, A) ==
  /\ InRound(g, A) /\ IdleBut({}) /\ HasQuestion(g) /\ AskedBut(g, A)
  /\ turnAnswers = Cardinality(A)

\* u's thread has its answer.  The counter is the number of copies that are
\* ahead, and from the increment on one more.
Answering(g, A, u) ==
  /\ InRound(g, A) /\ IdleBut({u}) /\ HasQuestion(g) /\ AskedBut(g, A \cup {u})
  /\ u \in g.players \ A
  /\ handler[u] = "answer" /\ shown[u] = g.index
  /\ pc[u] \in Judging \cup Scored
  /\ turnAnswers = Cardinality(A) + IF pc[u] \in {"count", "store"} THEN 0 ELSE 1
  /\ pc[u] = "store" => seen[u] = turnAnswers
  /\ pc[u] \in {"score"} \cup Scored => results[u] # NoEntry
  /\ pc[u] \in {"advance", "finish"} => g.players = A \cup {u}
  /\ pc[u] = "advance" => g.index + 1 < g.questionNo
  /\ pc[u] = "finish" => g.index + 1 = g.questionNo

\* u's thread is about to send the question of a new round.
Sending(g, u) ==
  /\ InRound(g, {}) /\ IdleBut({u}) /\ AskedBut(g, g.players)
  /\ u \in g.players
  /\ handler[u] # "leave" /\ pc[u] = "send"
  /\ turnAnswers = 0

\* The game is over for everybody, and the players of L have yet to leave it.
Over(g, L) ==
  /\ g \in Games /\ L \subseteq g.players /\ L # g.players
  /\ g.questionNo <= g.index
  /\ turnAnswers = Cardinality(g.players)
  /\ OutsidersFree(L)

ToLeave(g, p) == game[p] = g /\ seated[p] /\ inbox[p] = <<EndGame>>

Ended(g, L) == Over(g, L) /\ IdleBut({}) /\ \A p \in L : ToLeave(g, p)

\* u's thread handles its departure.
Leaving(g, L, u) ==
  /\ Over(g, L) /\ IdleBut({u}) /\ u \in L
  /\ \A p \in L \ {u} : ToLeave(g, p)
  /\ game[u] = [g EXCEPT !.players = @ \ {u}]
  /\ ~seated[u] /\ inbox[u] = <<>>
  /\ handler[u] = "leave" /\ pc[u] = "turn"

NobodyPlays == IdleBut({}) /\ OutsidersFree({})

Phase ==
  \/ NobodyPlays
  \/ \E g \in Games, A \in SUBSET User : Waiting(g, A) \/ Ended(g, A)
  \/ \E g \in Games, A \in SUBSET User, u \in User : Answering(g, A, u) \/ Leaving(g, A, u)
  \/ \E g \in Games, u \in User : Sending(g, u)

\* A server that is down went down between two turns.
PacedInv ==
  /\ gone = {}
  /\ IF up THEN Phase ELSE \A u \in User : pc[u] \in {"idle", "send"}

-----------------------------------------------------------------------------
(* Facts about pacing, counting and messages *)

\* A thread enters its handler when no other is in one.
LEMMA EntersAlone ==
  ASSUME Paced, NEW u \in User, CanEnter(u)
  PROVE  IdleBut({})
<1>1. IsFiniteSet(Busy) /\ Cardinality(Busy) \in Nat
  BY UserAssumption, FS_Subset, FS_CardinalityType DEF Busy
<1>2. Cardinality(Busy) = 0
  BY <1>1, BoundAssumption DEF CanEnter, Paced
<1>3. Busy = {}
  BY <1>1, <1>2, FS_EmptySet
<1> QED
  BY <1>3 DEF Busy, IdleBut

\* A game starts when nobody has a copy of another.
LEMMA StartsAlone ==
  ASSUME Paced, Cardinality({game[v].run : v \in {w \in User : InGame(w)}}) < MaxLive
  PROVE  \A w \in User : game[w] = NoGame
<1> DEFINE S == {w \in User : InGame(w)}
           T == {game[v].run : v \in S}
           f == [v \in S |-> game[v].run]
<1>1. IsFiniteSet(S)
  BY UserAssumption, FS_Subset
<1>2. f \in Surjection(S, T)
  BY DEF Surjection
<1>3. IsFiniteSet(T)
  BY <1>1, <1>2, FS_Surjection
<1>4. Cardinality(T) \in Nat
  BY <1>3, FS_CardinalityType
<1>5. Cardinality(T) = 0
  BY <1>4, BoundAssumption DEF Paced
<1>6. T = {}
  BY <1>3, <1>5, FS_EmptySet
<1> QED
  BY <1>6 DEF InGame

\* Counting the players who answered
LEMMA CountOf ==
  ASSUME NEW A \in SUBSET User
  PROVE  Cardinality(A) \in Nat
BY UserAssumption, FS_Subset, FS_CardinalityType

LEMMA CountsOfPlayers ==
  ASSUME NEW P \in SUBSET User, NEW A \in SUBSET P, NEW u \in P \ A
  PROVE  /\ Cardinality(A) \in Nat /\ Cardinality(P) \in Nat
         /\ Cardinality(A \cup {u}) = Cardinality(A) + 1
         /\ Cardinality(P \ {u}) = Cardinality(P) - 1
         /\ Cardinality(A) + 1 = Cardinality(P) <=> P = A \cup {u}
<1>1. IsFiniteSet(P) /\ IsFiniteSet(A)
  BY UserAssumption, FS_Subset
<1>2. Cardinality(A) \in Nat /\ Cardinality(P) \in Nat
  BY <1>1, FS_CardinalityType
<1>3. Cardinality(A \cup {u}) = Cardinality(A) + 1
  BY <1>1, FS_AddElement
<1>4. Cardinality(P \ {u}) = Cardinality(P) - 1
  BY <1>1, FS_RemoveElement
<1>5. Cardinality(A \cup {u}) = Cardinality(P) => A \cup {u} = P
  <2>1. A \cup {u} \subseteq P
    OBVIOUS
  <2> QED
    BY <1>1, <2>1, FS_Subset
<1> QED
  BY <1>2, <1>3, <1>4, <1>5

\* One message is read and none is left; a question is not the end.
LEMMA OneMessage ==
  ASSUME NEW i
  PROVE  /\ Head(<<Question(i)>>) = Question(i) /\ Tail(<<Question(i)>>) = <<>>
         /\ Head(<<EndGame>>) = EndGame /\ Tail(<<EndGame>>) = <<>>
         /\ <<Question(i)>> # <<>> /\ <<EndGame>> # <<>>
         /\ Append(<<>>, Question(i)) = <<Question(i)>>
         /\ Append(<<>>, EndGame) = <<EndGame>>
         /\ Question(i).type = "question" /\ EndGame.type = "end"
         /\ Question(i).index = i
         /\ Question(i) # EndGame
BY DEF Question, EndGame

\* A round's game is no null pointer, and a copy that moved on is another.
LEMMA CopiesDiffer ==
  ASSUME NEW g \in Games
  PROVE  /\ g.questionNo \in Nat \ {0} => g # NoGame /\ Next1(g) # NoGame
         /\ Next1(g) # g
         /\ Next1(g).players = g.players
         /\ Next1(g).questionNo = g.questionNo
         /\ Next1(g).index = g.index + 1
         /\ Next1(g) \in Games
<1>1. g.index \in Nat /\ Next1(g).index = g.index + 1
  BY NextCopy DEF Games
<1>2. Next1(g).players = g.players /\ Next1(g).questionNo = g.questionNo
  BY DEF Next1, Games
<1> QED
  BY <1>1, <1>2, NextCopy DEF NoGame

\* A thread that is in a handler is that of the phase.
LEMMA PhaseOfBusy ==
  ASSUME Phase, NEW u \in User, pc[u] # "idle"
  PROVE  \/ \E g \in Games, A \in SUBSET User : Answering(g, A, u) \/ Leaving(g, A, u)
         \/ \E g \in Games : Sending(g, u)
<1>1. ~IdleBut({})
  BY DEF IdleBut
<1>2. \A w \in User : IdleBut({w}) => w = u
  BY DEF IdleBut
<1>3. ~NobodyPlays /\ \A g, A : ~Waiting(g, A) /\ ~Ended(g, A)
  BY <1>1 DEF NobodyPlays, Waiting, Ended
<1>4. \A g, A : \A w \in User : Answering(g, A, w) \/ Leaving(g, A, w) => w = u
  BY <1>2 DEF Answering, Leaving
<1>5. \A g : \A w \in User : Sending(g, w) => w = u
  BY <1>2 DEF Sending
<1> QED
  BY <1>3, <1>4, <1>5, Zenon DEF Phase

\* A step of u's thread alone
LEMMA ThreadMoves ==
  ASSUME TypeOK, NEW u \in User, IdleBut({}) \/ IdleBut({u}),
         NEW s, pc' = [pc EXCEPT ![u] = s]
  PROVE  /\ IdleBut({u})' /\ pc'[u] = s
         /\ s = "idle" => IdleBut({})'
BY DEF TypeOK, IdleBut

\* What changes neither copies nor pages nor messages keeps the round.
LEMMA RoundKept ==
  ASSUME NEW g, NEW A, InRound(g, A), UNCHANGED <<game, seated, inbox>>,
         \A p \in User : results[p] # NoEntry => results'[p] # NoEntry
  PROVE  InRound(g, A)'
<1>1. g.players \subseteq User
  BY DEF InRound, Games
<1> QED
  BY <1>1 DEF InRound, OutsidersFree

-----------------------------------------------------------------------------
(* One lemma per action: the phase it leads to *)

\* The steps of an answer up to the decision of the turn.
LEMMA AnswerGoesOn ==
  ASSUME TypeOK, NEW u \in User, NEW g \in Games, NEW A \in SUBSET User,
         Answering(g, A, u),
         UNCHANGED <<game, handler, shown, inbox, seated>>,
         \A p \in User : results[p] # NoEntry => results'[p] # NoEntry,
         NEW s \in Judging \cup Scored, pc' = [pc EXCEPT ![u] = s],
         turnAnswers' = Cardinality(A) + IF s \in {"count", "store"} THEN 0 ELSE 1,
         s = "store" => seen'[u] = turnAnswers',
         s \in {"score"} \cup Scored => results'[u] # NoEntry,
         s \in {"advance", "finish"} => g.players = A \cup {u},
         s = "advance" => g.index + 1 < g.questionNo,
         s = "finish" => g.index + 1 = g.questionNo
  PROVE  Phase'
<1>1. InRound(g, A)'
  BY RoundKept DEF Answering
<1>2. IdleBut({u})' /\ pc'[u] = s
  BY ThreadMoves DEF Answering
<1>3. AskedBut(g, A \cup {u})'
  BY DEF Answering, AskedBut
<1>4. Answering(g, A, u)'
  BY <1>1, <1>2, <1>3 DEF Answering
<1> QED
  BY <1>4 DEF Phase

LEMMA ReadCounterPaced ==
  ASSUME TypeOK, Phase, NEW u \in User, ReadCounter(u)
  PROVE  Phase'
<1>1. PICK g \in Games, A \in SUBSET User : Answering(g, A, u)
  BY PhaseOfBusy DEF ReadCounter, Leaving, Sending
<1>2. seen'[u] = turnAnswers
  BY DEF TypeOK, ReadCounter
<1>3. turnAnswers = Cardinality(A)
  <2>1. Cardinality(A) \in Nat
    BY CountOf
  <2> QED
    BY <1>1, <2>1 DEF Answering, ReadCounter
<1>4. /\ pc' = [pc EXCEPT ![u] = "store"]
      /\ "store" \in Judging \cup Scored
      /\ UNCHANGED <<game, handler, shown, inbox, seated, results, turnAnswers>>
  BY DEF ReadCounter, shared, clients, Judging, Scored
<1>5. turnAnswers' = Cardinality(A) + IF "store" \in {"count", "store"} THEN 0 ELSE 1
  BY <1>3, <1>4, CountOf
<1> QED
  BY <1>1, <1>2, <1>4, <1>5, AnswerGoesOn DEF Scored

LEMMA StoreCounterPaced ==
  ASSUME TypeOK, Phase, NEW u \in User, StoreCounter(u)
  PROVE  Phase'
<1>1. PICK g \in Games, A \in SUBSET User : Answering(g, A, u)
  BY PhaseOfBusy DEF StoreCounter, Leaving, Sending
<1>2. turnAnswers' = Cardinality(A) + 1
  <2>1. Cardinality(A) \in Nat
    BY CountOf
  <2> QED
    BY <1>1, <2>1 DEF Answering, StoreCounter
<1>3. PICK s \in {"insert", "score"} :
        /\ pc' = [pc EXCEPT ![u] = s]
        /\ s = "score" => results[u] # NoEntry
  BY DEF StoreCounter
<1>4. s \in Judging /\ s \notin {"count", "store"} \cup Scored
  BY DEF Judging, Scored
<1>5. UNCHANGED <<game, handler, shown, inbox, seated, results>>
  BY DEF StoreCounter, clients
<1>6. turnAnswers' = Cardinality(A) + IF s \in {"count", "store"} THEN 0 ELSE 1
  BY <1>2, <1>4
<1> QED
  BY <1>1, <1>3, <1>4, <1>5, <1>6, AnswerGoesOn DEF Scored

LEMMA InsertResultPaced ==
  ASSUME TypeOK, Phase, NEW u \in User, InsertResult(u)
  PROVE  Phase' /\ up'
<1>1. PICK g \in Games, A \in SUBSET User : Answering(g, A, u)
  BY PhaseOfBusy DEF InsertResult, Leaving, Sending
<1>2. up'
  BY <1>1 DEF InsertResult, Answering, IdleBut
<1>3. results'[u] = 0 /\ \A p \in User : results[p] # NoEntry => results'[p] # NoEntry
  BY DEF InsertResult, TypeOK, NoEntry
<1>4. 0 # NoEntry
  BY DEF NoEntry
<1> QED
  BY ZenonT(60), <1>1, <1>2, <1>3, <1>4, AnswerGoesOn
     DEF InsertResult, clients, Answering, Judging, Scored

LEMMA ScoreAnswerPaced ==
  ASSUME TypeOK, Phase, gone = {}, NEW u \in User, ScoreAnswer(u)
  PROVE  Phase'
<1>1. PICK g \in Games, A \in SUBSET User : Answering(g, A, u)
  BY PhaseOfBusy DEF ScoreAnswer, Leaving, Sending
<1>2. \A p \in User : results[p] # NoEntry => results'[p] # NoEntry
  BY DEF ScoreAnswer, TypeOK, NoEntry
<1>3. results'[u] # NoEntry
  BY <1>1, <1>2 DEF ScoreAnswer, Answering
<1> QED
  BY <1>1, <1>2, <1>3, AnswerGoesOn
     DEF ScoreAnswer, clients, Answering, Judging, Scored

\* The decision of a turn: the last to answer ends the turn or the game, another
\* moves on, and who leaves after the end drops its copy.
LEMMA NextTurnPaced ==
  ASSUME TypeOK, Paced, Phase, NEW u \in User, NextTurn(u)
  PROVE  /\ Phase'
         /\ \/ game' = game
            \/ \E g \in Games, A \in SUBSET User :
                 Answering(g, A, u) /\ Waiting(g, A \cup {u})'
            \/ \E g \in Games, L \in SUBSET User :
                 Leaving(g, L, u) /\ Ended(g, L \ {u})'
<1>0. /\ pc[u] = "turn"
      /\ UNCHANGED <<results, turnAnswers, handler, seen, shown, inbox, seated>>
  BY DEF NextTurn, shared, clients
<1>1. ASSUME NEW g \in Games, NEW A \in SUBSET User, Answering(g, A, u)
      PROVE  Phase' /\ (game' = game \/ Waiting(g, A \cup {u})')
  <2>1. /\ game[u] = g /\ g.players \subseteq User /\ u \in g.players \ A
        /\ A \subseteq g.players /\ handler[u] = "answer"
        /\ turnAnswers = Cardinality(A) + 1
    BY <1>0, <1>1, CountOf DEF Answering, InRound, Games
  <2>2. /\ EveryoneCounted(g) <=> g.players = A \cup {u}
        /\ g.players # {}
    <3>1. Cardinality(A) + 1 = Cardinality(g.players) <=> g.players = A \cup {u}
      <4>1. g.players \in SUBSET User /\ A \in SUBSET g.players /\ u \in g.players \ A
        BY <2>1
      <4> QED
        BY <4>1, CountsOfPlayers
    <3> QED
      BY <2>1, <3>1 DEF EveryoneCounted
  <2>3. /\ g.index \in Nat /\ g.questionNo \in Nat /\ g.index < g.questionNo
        /\ InRound(g, A) /\ IdleBut({u}) /\ AskedBut(g, A \cup {u})
        /\ HasQuestion(g) /\ results[u] # NoEntry
    BY <1>0, <1>1 DEF Answering, InRound, Games, Scored
  <2>4. CASE g.players = A \cup {u}
    <3>1. PICK s \in {"finish", "advance"} :
            /\ pc' = [pc EXCEPT ![u] = s] /\ game' = game
            /\ s = "finish" => g.questionNo = g.index + 1
            /\ s = "advance" => g.questionNo # g.index + 1
      BY <2>1, <2>2, <2>4 DEF NextTurn
    <3>2. /\ s = "finish" => g.index + 1 = g.questionNo
          /\ s = "advance" => g.index + 1 < g.questionNo
      BY <2>3, <3>1
    <3>3. /\ s \in Scored /\ s # "store"
          /\ turnAnswers' = Cardinality(A) + IF s \in {"count", "store"} THEN 0 ELSE 1
      BY <1>0, <2>1 DEF Scored
    <3> QED
      BY <1>0, <1>1, <2>3, <2>4, <3>1, <3>2, <3>3, AnswerGoesOn
  <2>5. CASE g.players # A \cup {u}
    <3>1. /\ pc' = [pc EXCEPT ![u] = "idle"]
          /\ game' = [game EXCEPT ![u] = Next1(g)]
      BY <2>1, <2>2, <2>5, OutcomeAssumption DEF NextTurn, Return, Paced
    <3>2. InRound(g, A \cup {u})'
      <4>1. \A w \in User : game'[w] = IF w = u THEN Next1(g) ELSE game[w]
        BY <3>1 DEF TypeOK
      <4>2. A \cup {u} \subseteq g.players
        BY <2>1
      <4> QED
        BY <1>0, <2>1, <2>3, <2>5, <4>1, <4>2 DEF InRound, OutsidersFree
    <3>3. IdleBut({})'
      BY <2>3, <3>1, ThreadMoves
    <3>4. AskedBut(g, A \cup {u})'
      BY <1>0, <2>3 DEF AskedBut
    <3>5. turnAnswers' = Cardinality(A \cup {u})
      BY <1>0, <2>1, CountsOfPlayers
    <3>6. Waiting(g, A \cup {u})'
      BY <2>3, <3>2, <3>3, <3>4, <3>5 DEF Waiting
    <3>7. A \cup {u} \in SUBSET User
      OBVIOUS
    <3> QED
      BY <3>6, <3>7 DEF Phase
  <2> QED
    BY <2>4, <2>5
<1>2. ASSUME NEW g \in Games, NEW L \in SUBSET User, Leaving(g, L, u)
      PROVE  Phase' /\ Ended(g, L \ {u})'
  <2>1. /\ Over(g, L) /\ IdleBut({u}) /\ u \in L /\ handler[u] = "leave"
        /\ g.players \subseteq User /\ L \subseteq g.players /\ L # g.players
        /\ turnAnswers = Cardinality(g.players)
    BY <1>2 DEF Leaving, Over, Games
  <2>2. game[u].players = g.players \ {u}
    BY <1>2 DEF Leaving, Games
  <2>3. game[u].players # {}
    BY <2>1, <2>2
  <2>4. ~EveryoneCounted(game[u])
    <3>1. /\ Cardinality(g.players) \in Nat
          /\ Cardinality(g.players \ {u}) = Cardinality(g.players) - 1
      BY <2>1, CountsOfPlayers
    <3> QED
      BY <2>1, <2>2, <3>1 DEF EveryoneCounted
  <2>5. /\ pc' = [pc EXCEPT ![u] = "idle"]
        /\ game' = [game EXCEPT ![u] = NoGame]
    BY <2>1, <2>3, <2>4, OutcomeAssumption DEF NextTurn, Return, Paced
  <2>6. \A w \in User : game'[w] = IF w = u THEN NoGame ELSE game[w]
    BY <2>5 DEF TypeOK
  <2>7. IdleBut({})'
    BY <2>1, <2>5, ThreadMoves
  <2>8. OutsidersFree(L \ {u})'
    BY <1>0, <1>2, <2>6 DEF Leaving, Over, OutsidersFree
  <2>9. Ended(g, L \ {u})'
    <3>1. \A p \in L \ {u} : ToLeave(g, p)'
      BY <1>0, <1>2, <2>6 DEF Leaving, ToLeave
    <3>2. L \ {u} \subseteq g.players /\ L \ {u} # g.players
      BY <2>1
    <3> QED
      BY <1>0, <2>1, <2>7, <2>8, <3>1, <3>2 DEF Ended, Over
  <2> QED
    BY <2>9 DEF Phase
<1> QED
  BY <1>0, <1>1, <1>2, PhaseOfBusy DEF Sending

LEMMA AdvanceTurnPaced ==
  ASSUME TypeOK, Phase, NEW u \in User, AdvanceTurn(u)
  PROVE  /\ Phase'
         /\ \E g \in Games, A \in SUBSET User :
              Answering(g, A, u) /\ Sending(Next1(g), u)'
<1>1. PICK g \in Games, A \in SUBSET User : Answering(g, A, u)
  BY PhaseOfBusy DEF AdvanceTurn, Leaving, Sending
<1>2. /\ game[u] = g /\ g.players = A \cup {u} /\ u \in g.players \ A
      /\ g.index + 1 < g.questionNo /\ InRound(g, A) /\ results[u] # NoEntry
      /\ AskedBut(g, A \cup {u}) /\ IdleBut({u}) /\ handler[u] = "answer"
  BY <1>1 DEF AdvanceTurn, Answering, InRound, Scored
<1>3. /\ turnAnswers' = 0 /\ pc' = [pc EXCEPT ![u] = "send"]
      /\ UNCHANGED <<results, handler, inbox, seated>>
      /\ \A w \in User : game'[w] = IF w = u THEN Next1(g) ELSE game[w]
  BY <1>2 DEF AdvanceTurn, clients, TypeOK
<1> DEFINE h == Next1(g)
<1>4. /\ h \in Games /\ h.players = g.players /\ h.questionNo = g.questionNo
      /\ h.index = g.index + 1
  BY CopiesDiffer
<1> HIDE DEF h
<1>5. InRound(h, {})'
  <2>1. g.index \in Nat
    BY DEF Games
  <2>2. \A p \in h.players : game'[p] = h /\ seated'[p] /\ results'[p] # NoEntry
    BY <1>2, <1>3, <1>4 DEF InRound, Games, h
  <2>3. OutsidersFree(h.players)'
    BY <1>2, <1>3, <1>4 DEF InRound, OutsidersFree
  <2> QED
    BY <1>2, <1>4, <2>2, <2>3 DEF InRound
<1>6. IdleBut({u})' /\ pc'[u] = "send"
  BY <1>2, <1>3, ThreadMoves
<1>7. AskedBut(h, h.players)'
  BY <1>2, <1>3, <1>4 DEF AskedBut
<1>8. Sending(h, u)'
  BY <1>2, <1>3, <1>4, <1>5, <1>6, <1>7 DEF Sending
<1> QED
  BY <1>1, <1>4, <1>8 DEF Phase, h

\* A message to the players of a game
LEMMA SentToPlayers ==
  ASSUME gone = {}, NEW S, NEW m, inbox' = Sent(S, m)
  PROVE  \A w \in User : inbox'[w] = IF w \in S THEN Append(inbox[w], m) ELSE inbox[w]
BY DEF Sent

\* Every player gets the question of the round, or there is none and the server
\* goes down.
LEMMA SendQuestionPaced ==
  ASSUME TypeOK, Phase, gone = {}, NEW u \in User, SendQuestion(u), up'
  PROVE  Phase'
<1>1. PICK g \in Games : Sending(g, u)
  BY PhaseOfBusy DEF SendQuestion, Answering, Leaving, Judging, Scored
<1>2. /\ game[u] = g /\ g.players \subseteq User /\ handler[u] # "leave" /\ IdleBut({u})
      /\ InRound(g, {}) /\ AskedBut(g, g.players) /\ turnAnswers = 0
  BY <1>1 DEF Sending, InRound, Games
<1>3. /\ HasQuestion(g)
      /\ inbox' = Sent(g.players, Question(g.index))
      /\ pc' = [pc EXCEPT ![u] = "idle"]
      /\ game' = [game EXCEPT ![u] = g]
      /\ UNCHANGED <<turnAnswers, results, seated>>
  BY <1>2 DEF SendQuestion, Crash, Return, shared
<1>4. game' = game
  BY <1>2, <1>3 DEF TypeOK
<1>5. \A w \in User : inbox'[w] = IF w \in g.players THEN Append(inbox[w], Question(g.index))
                                                    ELSE inbox[w]
  BY <1>3, SentToPlayers
<1>6. InRound(g, {})'
  BY <1>2, <1>3, <1>4, <1>5 DEF InRound, OutsidersFree
<1>7. AskedBut(g, {})'
  <2>1. ASSUME NEW p \in g.players PROVE inbox'[p] = <<Question(g.index)>>
    <3>1. inbox[p] = <<>> /\ p \in User
      BY <1>2 DEF AskedBut
    <3>2. inbox'[p] = Append(<<>>, Question(g.index))
      BY <1>5, <3>1
    <3> QED
      BY <3>2, OneMessage
  <2> QED
    BY <2>1 DEF AskedBut
<1>8. IdleBut({})'
  BY <1>2, <1>3, ThreadMoves
<1>9. Waiting(g, {})'
  BY <1>2, <1>3, <1>6, <1>7, <1>8, FS_EmptySet DEF Waiting
<1> QED
  BY <1>9 DEF Phase

\* The end of the game: everybody gets it, and the player that ends it has no
\* copy any more.
LEMMA FinishGamePaced ==
  ASSUME TypeOK, Phase, gone = {}, NEW u \in User, FinishGame(u)
  PROVE  /\ Phase' /\ up'
         /\ \E g \in Games, A \in SUBSET User :
              Answering(g, A, u) /\ Ended(Next1(g), A)'
<1>1. PICK g \in Games, A \in SUBSET User : Answering(g, A, u)
  BY PhaseOfBusy DEF FinishGame, Leaving, Sending
<1>2. /\ game[u] = g /\ g.players = A \cup {u} /\ u \in g.players \ A
      /\ g.index + 1 = g.questionNo /\ InRound(g, A) /\ results[u] # NoEntry
      /\ AskedBut(g, A \cup {u}) /\ IdleBut({u}) /\ handler[u] = "answer"
      /\ turnAnswers = Cardinality(A) + 1
  BY <1>1, CountOf DEF FinishGame, Answering, InRound, Scored
<1>3. /\ inbox' = Sent(g.players, EndGame)
      /\ pc' = [pc EXCEPT ![u] = "idle"]
      /\ game' = [game EXCEPT ![u] = NoGame]
      /\ UNCHANGED <<turnAnswers, results, seated>>
  BY <1>2 DEF FinishGame, Return
<1>4. up'
  BY <1>2 DEF FinishGame, InRound
<1>5. \A w \in User : game'[w] = IF w = u THEN NoGame ELSE game[w]
  BY <1>3 DEF TypeOK
<1>6. \A w \in User : inbox'[w] = IF w \in g.players THEN Append(inbox[w], EndGame)
                                                    ELSE inbox[w]
  BY <1>3, SentToPlayers
<1> DEFINE h == Next1(g)
<1>7. /\ h \in Games /\ h.players = g.players /\ h.questionNo = g.questionNo
      /\ h.index = g.index + 1
  BY CopiesDiffer
<1>8. \A p \in A : game[p] = h
  BY <1>2 DEF InRound
<1> HIDE DEF h
<1>9. \A p \in g.players : seated'[p] /\ inbox'[p] = <<EndGame>>
  <2>1. \A p \in g.players : inbox[p] = <<>> /\ p \in User /\ seated[p]
    BY <1>2 DEF AskedBut, InRound, Games
  <2> QED
    BY <1>3, <1>6, <2>1, OneMessage
<1>10. OutsidersFree(A)'
  <2> SUFFICES ASSUME NEW w \in User \ A
               PROVE  /\ game'[w] = NoGame
                      /\ inbox'[w] = IF seated'[w] THEN <<EndGame>> ELSE <<>>
    BY DEF OutsidersFree
  <2>1. CASE w = u
    BY <1>2, <1>5, <1>9, <2>1
  <2>2. CASE w # u
    <3>1. w \notin g.players
      BY <1>2, <2>2
    <3>2. game[w] = NoGame /\ inbox[w] = IF seated[w] THEN <<EndGame>> ELSE <<>>
      BY <1>2, <3>1 DEF InRound, OutsidersFree
    <3> QED
      BY <1>3, <1>5, <1>6, <2>2, <3>1, <3>2
  <2> QED
    BY <2>1, <2>2
<1>11. turnAnswers' = Cardinality(g.players)
  <2>1. g.players \in SUBSET User /\ A \in SUBSET g.players
    BY <1>2 DEF Games
  <2>2. Cardinality(A \cup {u}) = Cardinality(A) + 1
    BY <1>2, <2>1, CountsOfPlayers
  <2> QED
    BY <1>2, <1>3, <2>2
<1>12. \A p \in A : ToLeave(h, p)'
  BY <1>2, <1>5, <1>8, <1>9 DEF ToLeave
<1>13. IdleBut({})'
  BY <1>2, <1>3, ThreadMoves
<1>14. Ended(h, A)'
  <2>1. h.questionNo <= h.index /\ A \subseteq h.players /\ A # h.players
    BY <1>2, <1>7 DEF Games
  <2> QED
    BY <1>7, <1>10, <1>11, <1>12, <1>13, <2>1 DEF Ended, Over
<1> QED
  BY <1>1, <1>4, <1>7, <1>14 DEF Phase, h

\* Nobody's answer is handled and nobody leaves.
LEMMA PhaseOfIdle ==
  ASSUME Phase, IdleBut({})
  PROVE  NobodyPlays \/ \E g \in Games, A \in SUBSET User : Waiting(g, A) \/ Ended(g, A)
<1>1. \A g, A : \A w \in User : ~Answering(g, A, w) /\ ~Leaving(g, A, w)
  BY DEF Answering, Leaving, IdleBut, Judging, Scored
<1>2. \A g : \A w \in User : ~Sending(g, w)
  BY DEF Sending, IdleBut
<1> QED
  BY <1>1, <1>2, Zenon DEF Phase

\* Who leaves after the end of a game handles it with its copy, or has none.
LEMMA HandleLeaveGamePaced ==
  ASSUME TypeOK, Paced, Phase, NEW u \in User, HandleLeaveGame(u)
  PROVE  /\ Phase'
         /\ \/ game' = game
            \/ \E g \in Games, L \in SUBSET User : Ended(g, L) /\ Leaving(g, L, u)'
<1>1. IdleBut({})
  BY EntersAlone DEF HandleLeaveGame
<1>2. /\ inbox[u] # <<>> /\ Head(inbox[u]) = EndGame /\ seated[u]
      /\ \A w \in User : inbox'[w] = IF w = u THEN Tail(inbox[u]) ELSE inbox[w]
      /\ \A w \in User : seated'[w] = IF w = u THEN FALSE ELSE seated[w]
      /\ UNCHANGED <<turnAnswers, results>>
  BY DEF HandleLeaveGame, TypeOK, shared
<1>3. game' = [game EXCEPT ![u] = [game[u] EXCEPT !.players = game[u].players \ {u}]]
  BY DEF HandleLeaveGame
<1>4. ASSUME game[u] = NoGame
      PROVE  UNCHANGED <<game, pc, handler>>
  <2>1. u \notin game[u].players
    BY <1>4 DEF NoGame
  <2>2. [NoGame EXCEPT !.players = NoGame.players \ {u}] = NoGame
    BY DEF NoGame
  <2> QED
    BY <1>3, <1>4, <2>1, <2>2 DEF HandleLeaveGame, TypeOK
<1>5. ASSUME NEW C \in SUBSET User, OutsidersFree(C), u \notin C
      PROVE  /\ OutsidersFree(C)' /\ IdleBut({})' /\ UNCHANGED <<game, pc, handler>>
  <2>1. game[u] = NoGame /\ inbox[u] = <<EndGame>>
    BY <1>2, <1>5 DEF OutsidersFree
  <2>2. inbox'[u] = <<>>
    BY <1>2, <2>1, OneMessage
  <2>3. UNCHANGED <<game, pc, handler>>
    BY <1>4, <2>1
  <2> QED
    BY <1>1, <1>2, <1>5, <2>2, <2>3 DEF OutsidersFree, IdleBut
<1>6. CASE NobodyPlays
  BY <1>5, <1>6 DEF NobodyPlays, Phase
<1>7. ASSUME NEW g \in Games, NEW A \in SUBSET User, Waiting(g, A)
      PROVE  Phase' /\ game' = game
  <2>1. u \notin g.players
    BY <1>2, <1>7, OneMessage DEF Waiting, AskedBut
  <2>2. g.players \in SUBSET User
    BY DEF Games
  <2>3. OutsidersFree(g.players)' /\ IdleBut({})' /\ UNCHANGED <<game, pc, handler>>
    BY <1>5, <1>7, <2>1, <2>2 DEF Waiting, InRound
  <2>4. Waiting(g, A)'
    BY <1>2, <1>7, <2>1, <2>2, <2>3 DEF Waiting, InRound, AskedBut
  <2> QED
    BY <2>3, <2>4 DEF Phase
<1>8. ASSUME NEW g \in Games, NEW L \in SUBSET User, Ended(g, L)
      PROVE  Phase' /\ (game' = game \/ Leaving(g, L, u)')
  <2>1. CASE u \notin L
    <3>1. OutsidersFree(L)' /\ IdleBut({})' /\ UNCHANGED <<game, pc, handler>>
      BY <1>5, <1>8, <2>1 DEF Ended, Over
    <3>2. Ended(g, L)'
      BY <1>2, <1>8, <2>1, <3>1 DEF Ended, Over, ToLeave
    <3> QED
      BY <3>1, <3>2 DEF Phase
  <2>2. CASE u \in L
    <3>1. game[u] = g /\ u \in g.players /\ inbox[u] = <<EndGame>>
      BY <1>8, <2>2 DEF Ended, Over, ToLeave
    <3>2. /\ handler'[u] = "leave" /\ pc' = [pc EXCEPT ![u] = "turn"]
      BY <3>1 DEF HandleLeaveGame, Enter, TypeOK
    <3>3. IdleBut({u})' /\ pc'[u] = "turn"
      BY <1>1, <3>2, ThreadMoves
    <3>4. game'[u] = [g EXCEPT !.players = @ \ {u}] /\ ~seated'[u] /\ inbox'[u] = <<>>
      BY <1>2, <1>3, <3>1, OneMessage DEF TypeOK
    <3>5. \A w \in User \ {u} : game'[w] = game[w]
      BY <1>3 DEF TypeOK
    <3>6. \A p \in L \ {u} : ToLeave(g, p)'
      BY <1>2, <1>8, <3>5 DEF Ended, ToLeave
    <3>7. OutsidersFree(L)'
      BY <1>2, <1>8, <2>2, <3>5 DEF Ended, Over, OutsidersFree
    <3>8. Leaving(g, L, u)'
      BY <1>2, <1>8, <2>2, <3>2, <3>3, <3>4, <3>6, <3>7 DEF Leaving, Ended, Over
    <3> QED
      BY <3>8 DEF Phase
  <2> QED
    BY <2>1, <2>2
<1> QED
  BY <1>1, <1>6, <1>7, <1>8, PhaseOfIdle

\* A click is the answer to the question of the round.
LEMMA ClickPaced ==
  ASSUME TypeOK, Paced, Phase, NEW u \in User, Click(u)
  PROVE  Phase' /\ up'
<1>1. IdleBut({}) /\ up
  BY EntersAlone DEF Click, CanEnter
<1>2. /\ inbox[u] # <<>> /\ Head(inbox[u]).type = "question"
      /\ \A w \in User : inbox'[w] = IF w = u THEN Tail(inbox[u]) ELSE inbox[w]
      /\ UNCHANGED <<game, turnAnswers, results, seated>>
  BY DEF Click, Asked, TypeOK, shared
<1>3. \A C : OutsidersFree(C) => u \in C
  BY <1>2, OneMessage DEF OutsidersFree
<1>4. PICK g \in Games, A \in SUBSET User : Waiting(g, A)
  <2>1. \A g, L : ~Ended(g, L)
    BY <1>2, <1>3, OneMessage DEF Ended, Over, ToLeave
  <2> QED
    BY <1>1, <1>3, <2>1, PhaseOfIdle DEF NobodyPlays
<1>5. /\ u \in g.players \ A /\ inbox[u] = <<Question(g.index)>>
      /\ A \subseteq g.players /\ g.players \subseteq User
  BY <1>2, <1>3, <1>4, OneMessage DEF Waiting, InRound, AskedBut, Games
<1>6. game[u] = g /\ g # NoGame
  BY <1>4, <1>5, CopiesDiffer, QuestionAssumption DEF Waiting, InRound
<1>7. /\ handler'[u] = "answer" /\ pc' = [pc EXCEPT ![u] = "count"]
      /\ shown'[u] = g.index /\ up'
  <2>1. InGame(u) /\ HasQuestion(game[u])
    BY <1>4, <1>6 DEF InGame, Waiting
  <2>2. PICK isRight \in BOOLEAN : HandlePlayerAnswer(u, isRight)
    BY DEF Click
  <2>3. /\ Enter(u, "answer", "count") /\ up' = up
        /\ shown' = [shown EXCEPT ![u] = Head(inbox[u]).index]
    BY <2>1, <2>2 DEF HandlePlayerAnswer
  <2>4. Head(inbox[u]).index = g.index
    BY <1>5, OneMessage
  <2> QED
    BY <1>1, <2>3, <2>4 DEF Enter, TypeOK
<1>8. IdleBut({u})' /\ pc'[u] = "count"
  BY <1>1, <1>7, ThreadMoves
<1>9. InRound(g, A)' /\ AskedBut(g, A \cup {u})'
  <2>1. inbox'[u] = <<>>
    BY <1>2, <1>5, OneMessage
  <2>2. InRound(g, A)'
    BY <1>2, <1>4, <1>5 DEF Waiting, InRound, OutsidersFree
  <2>3. AskedBut(g, A \cup {u})'
    BY <1>2, <1>4, <1>5, <2>1 DEF Waiting, AskedBut
  <2> QED
    BY <2>2, <2>3
<1>10. Cardinality(A) \in Nat
  BY CountOf
<1>11. Answering(g, A, u)'
  BY <1>2, <1>4, <1>5, <1>7, <1>8, <1>9, <1>10 DEF Answering, Waiting, Judging, Scored
<1> QED
  BY <1>7, <1>11 DEF Phase

\* A game starts when nobody has a copy of another, and its first question is on
\* its way.
LEMMA HandleStartGamePaced ==
  ASSUME TypeOK, Paced, Phase, gone = {}, NEW u \in User, HandleStartGame(u), up'
  PROVE  /\ Phase'
         /\ \A w \in User : game[w] = NoGame
         /\ \E g \in Games : g.index = 0 /\ Sending(g, u)'
<1>1. IdleBut({}) /\ \A w \in User : game[w] = NoGame
  BY EntersAlone, StartsAlone DEF HandleStartGame
<1>2. OutsidersFree({})
  <2>1. \A g \in Games : \A A : ~Waiting(g, A)
    <3> SUFFICES ASSUME NEW g \in Games, NEW A, Waiting(g, A)
                 PROVE  FALSE
      OBVIOUS
    <3>1. PICK p \in g.players : p \notin A
      BY DEF Waiting, InRound
    <3>2. p \in User /\ game[p] = g /\ g # NoGame
      BY <3>1, CopiesDiffer, QuestionAssumption DEF Waiting, InRound, Games
    <3> QED
      BY <1>1, <3>2
  <2>2. ASSUME NEW g \in Games, NEW L \in SUBSET User, Ended(g, L)
        PROVE  OutsidersFree({})
    <3>1. g.players # {}
      BY <2>2 DEF Ended, Over
    <3>2. g # NoGame
      BY <3>1 DEF NoGame
    <3>3. L = {}
      BY <1>1, <2>2, <3>2 DEF Ended, Over, ToLeave
    <3> QED
      BY <2>2, <3>3 DEF Ended, Over
  <2> QED
    BY <1>1, <2>1, <2>2, PhaseOfIdle DEF NobodyPlays
<1>3. PICK S \in Rosters(u), n \in QuestionNos : \E q \in Draws(n) :
        /\ game' = [v \in User |-> IF v \in S THEN NewGame(S, n, q) ELSE game[v]]
        /\ seated' = [v \in User |-> seated[v] \/ v \in S \ gone]
  BY DEF HandleStartGame, Crash
<1>4. PICK q \in Draws(n) :
        /\ game' = [v \in User |-> IF v \in S THEN NewGame(S, n, q) ELSE game[v]]
        /\ seated' = [v \in User |-> seated[v] \/ v \in S \ gone]
  BY <1>3
<1>5. /\ turnAnswers' = 0
      /\ handler' = [handler EXCEPT ![u] = "start"]
      /\ pc' = [pc EXCEPT ![u] = "send"]
      /\ UNCHANGED <<results, inbox>>
  BY DEF HandleStartGame, Crash, Enter
<1>6. u \in S /\ S \subseteq User /\ \A v \in S : ~seated[v]
  BY DEF HandleStartGame, Rosters
<1>7. PICK g \in Games : /\ g = NewGame(S, n, q)
                        /\ g.players = S /\ g.questionNo = n /\ g.index = 0
  <2>1. q \in Seq(Nat) /\ n \in Nat
    BY DrawsAreSequences, QuestionAssumption
  <2>2. Len(gameRows) \in Nat
    BY DEF TypeOK
  <2>3. /\ NewGame(S, n, q) \in Games /\ NewGame(S, n, q).players = S
        /\ NewGame(S, n, q).questionNo = n /\ NewGame(S, n, q).index = 0
    BY <1>6, <2>1, <2>2, GamesAssumption DEF NewGame, Games
  <2> QED
    BY <2>3
<1>8. \A w \in User : /\ game'[w] = IF w \in S THEN g ELSE game[w]
                      /\ seated'[w] = (seated[w] \/ w \in S)
  BY <1>4, <1>7
<1>9. InRound(g, {})'
  <2>1. OutsidersFree(g.players)'
    BY <1>1, <1>2, <1>5, <1>7, <1>8 DEF OutsidersFree
  <2>2. \A p \in g.players : game'[p] = g /\ seated'[p]
    BY <1>6, <1>7, <1>8
  <2>3. g.questionNo \in QuestionNos /\ g.index < g.questionNo /\ ~(g.index > 0)
    BY <1>7, QuestionAssumption
  <2>4. {} \subseteq g.players /\ {} # g.players
    BY <1>6, <1>7
  <2> QED
    BY <2>1, <2>2, <2>3, <2>4 DEF InRound
<1>10. AskedBut(g, g.players)'
  BY <1>2, <1>5, <1>6, <1>7 DEF AskedBut, OutsidersFree
<1>11. IdleBut({u})' /\ pc'[u] = "send"
  BY <1>1, <1>5, ThreadMoves
<1>12. Sending(g, u)'
  <2>1. handler'[u] = "start"
    BY <1>5 DEF TypeOK
  <2> QED
    BY <1>5, <1>6, <1>7, <1>9, <1>10, <1>11, <2>1 DEF Sending
<1> QED
  BY <1>1, <1>7, <1>12 DEF Phase

-----------------------------------------------------------------------------
(* The theorems *)

LEMMA InitPaced == Init => PacedInv
BY DEF Init, PacedInv, Phase, NobodyPlays, IdleBut, OutsidersFree

\* What a user and its thread may do
Step(u) == \/ HandleStartGame(u) \/ Click(u) \/ TimeOut(u)
           \/ HandleLeaveGame(u) \/ Continue(u) \/ Vanish(u)

LEMMA StepFromUp ==
  ASSUME Paced, TypeOK, PacedInv, NEW u \in User, Step(u)
  PROVE  up /\ Phase /\ gone = {} /\ gone' = {} /\ ~TimeOut(u) /\ ~Vanish(u)
<1>1. ~TimeOut(u) /\ ~Vanish(u)
  BY DEF Paced, TimeOut, Vanish
<1>2. up /\ Phase /\ gone = {}
  BY <1>1 DEF Step, HandleStartGame, Click, HandleLeaveGame, CanEnter, Continue,
     ReadCounter, StoreCounter, InsertResult, ScoreAnswer, NextTurn, AdvanceTurn,
     SendQuestion, FinishGame, PacedInv
<1>3. gone' = {}
  BY <1>1, <1>2 DEF Step, HandleStartGame, Crash, Click, HandleLeaveGame, Continue,
     ReadCounter, StoreCounter, InsertResult, ScoreAnswer, NextTurn, AdvanceTurn,
     SendQuestion, FinishGame, clients
<1> QED
  BY <1>1, <1>2, <1>3

\* A paced server goes down where a game has no question to send, or could not be
\* inserted, and nowhere else.
LEMMA WhatCrashes ==
  ASSUME Paced, TypeOK, PacedInv, NEW u \in User, Step(u), ~up'
  PROVE  HandleStartGame(u) \/ SendQuestion(u)
BY StepFromUp, ClickPaced, InsertResultPaced, FinishGamePaced
   DEF Step, HandleLeaveGame, Continue, ReadCounter, StoreCounter, ScoreAnswer,
       NextTurn, AdvanceTurn

LEMMA NextPaced ==
  Paced /\ TypeOK /\ PacedInv /\ [Next]_vars => PacedInv'
<1> SUFFICES ASSUME Paced, TypeOK, PacedInv, [Next]_vars PROVE PacedInv'
  OBVIOUS
<1>1. CASE UNCHANGED vars
  <2>0. UNCHANGED <<game, turnAnswers, results, pc, handler, seen, shown, inbox, seated, up, gone>>
    BY <1>1 DEF vars, shared, threads, clients
  <2>1. \A g, A : InRound(g, A) => InRound(g, A)'
    BY <2>0 DEF InRound, OutsidersFree
  <2>2. \A B : IdleBut(B) => IdleBut(B)'
    BY <2>0 DEF IdleBut
  <2>3. \A g, A : Over(g, A) => Over(g, A)'
    BY <2>0 DEF Over, OutsidersFree
  <2>4. \A g, A : AskedBut(g, A) => AskedBut(g, A)'
    BY <2>0 DEF AskedBut
  <2>5. NobodyPlays => NobodyPlays'
    BY <2>0, <2>2 DEF NobodyPlays, OutsidersFree
  <2>6. \A g, A : (Waiting(g, A) => Waiting(g, A)') /\ (Ended(g, A) => Ended(g, A)')
    BY <2>0, <2>1, <2>2, <2>3, <2>4 DEF Waiting, Ended, ToLeave
  <2>7. \A g, A, u : /\ Answering(g, A, u) => Answering(g, A, u)'
                     /\ Leaving(g, A, u) => Leaving(g, A, u)'
    BY <2>0, <2>1, <2>2, <2>3, <2>4 DEF Answering, Leaving, ToLeave
  <2>8. \A g, u : Sending(g, u) => Sending(g, u)'
    BY <2>0, <2>1, <2>2, <2>4 DEF Sending
  <2>9. Phase => Phase'
    BY <2>5, <2>6, <2>7, <2>8, Zenon DEF Phase
  <2> QED
    BY <2>0, <2>9 DEF PacedInv
<1>2. CASE Next
  <2> PICK u \in User : Step(u)
    BY <1>2 DEF Next, Step
  <2>2. up /\ Phase /\ gone = {} /\ gone' = {} /\ ~TimeOut(u) /\ ~Vanish(u)
    BY StepFromUp
  <2>4. CASE up'
    BY <2>2, <2>4, HandleStartGamePaced, ClickPaced, HandleLeaveGamePaced,
       ReadCounterPaced, StoreCounterPaced, InsertResultPaced, ScoreAnswerPaced,
       NextTurnPaced, AdvanceTurnPaced, SendQuestionPaced, FinishGamePaced
       DEF Step, Continue, PacedInv
  <2>5. CASE ~up'
    <3>1. HandleStartGame(u) \/ SendQuestion(u)
      BY <2>5, WhatCrashes
    <3>2. pc' = pc
      BY <2>2, <2>5, <3>1 DEF HandleStartGame, SendQuestion, Crash, threads
    <3>3. \A w \in User : pc[w] \in {"idle", "send"}
      <4>1. CASE HandleStartGame(u)
        BY <4>1, EntersAlone DEF HandleStartGame, IdleBut
      <4>2. CASE SendQuestion(u)
        <5>1. PICK g \in Games : Sending(g, u)
          BY <2>2, <4>2, PhaseOfBusy DEF SendQuestion, Answering, Leaving, Judging, Scored
        <5> QED
          BY <5>1 DEF Sending, IdleBut
      <4> QED
        BY <3>1, <4>1, <4>2
    <3> QED
      BY <2>2, <2>5, <3>2, <3>3 DEF PacedInv
  <2> QED
    BY <2>4, <2>5
<1> QED
  BY <1>1, <1>2

LEMMA PacedInvariant ==
  ASSUME Paced
  PROVE  Spec => []PacedInv
BY InitPaced, NextPaced, TypeCorrect, PTL DEF Spec

\* The player whose answer ends a turn, or the game, leaves no other player with a
\* question before it, however many they are.
THEOREM TurnsEndTogether ==
  ASSUME Paced
  PROVE  Spec => []EveryoneAnswered
<1>1. PacedInv /\ TypeOK => EveryoneAnswered
  <2> SUFFICES ASSUME PacedInv, TypeOK, NEW u \in User, pc[u] \in {"advance", "finish"},
                      NEW p \in game[u].players \ (gone \cup {u})
               PROVE  ~Unanswered(p)
    BY DEF EveryoneAnswered
  <2>1. PICK g \in Games, A \in SUBSET User : Answering(g, A, u)
    BY PhaseOfBusy DEF PacedInv, Leaving, Sending
  <2>2. game[u] = g /\ g.players = A \cup {u}
    BY <2>1 DEF Answering, InRound
  <2>3. inbox[p] = <<>>
    BY <2>1, <2>2 DEF Answering, AskedBut
  <2> QED
    BY <2>3 DEF Unanswered
<1> QED
  BY <1>1, PacedInvariant, TypeCorrect, PTL

\* An answer is judged against the question its player was looking at.
THEOREM AnswersJudgedAsShown ==
  ASSUME Paced
  PROVE  Spec => []JudgedAsShown
<1>1. PacedInv => JudgedAsShown
  <2> SUFFICES ASSUME PacedInv, NEW u \in User, pc[u] \in Judging
               PROVE  shown[u] = game[u].index
    BY DEF JudgedAsShown
  <2>1. PICK g \in Games, A \in SUBSET User : Answering(g, A, u)
    BY PhaseOfBusy DEF PacedInv, Leaving, Sending, Judging
  <2> QED
    BY <2>1 DEF Answering, InRound
<1> QED
  BY <1>1, PacedInvariant, PTL

\* While a game has copies and no thread is busy, a player of it has a message to
\* act on.
THEOREM PlayersNeverStall ==
  ASSUME Paced
  PROVE  Spec => []NoStall
<1>1. PacedInv => NoStall
  <2> SUFFICES ASSUME PacedInv, up, Busy = {}, NEW u \in User, InGame(u)
               PROVE  \E p \in game[u].players : inbox[p] # <<>>
    BY DEF NoStall
  <2>1. IdleBut({}) /\ Phase
    BY DEF Busy, IdleBut, PacedInv
  <2>2. CASE NobodyPlays
    BY <2>2 DEF NobodyPlays, OutsidersFree, InGame
  <2>3. ASSUME NEW g \in Games, NEW A \in SUBSET User, Waiting(g, A)
        PROVE  \E p \in game[u].players : inbox[p] # <<>>
    <3>1. u \in g.players
      BY <2>3 DEF Waiting, InRound, OutsidersFree, InGame
    <3>2. game[u].players = g.players
      BY <2>3, <3>1, CopiesDiffer DEF Waiting, InRound
    <3>3. PICK p \in g.players : p \notin A
      BY <2>3 DEF Waiting, InRound
    <3>4. inbox[p] # <<>>
      BY <2>3, <3>3, OneMessage DEF Waiting, AskedBut
    <3> QED
      BY <3>2, <3>4
  <2>4. ASSUME NEW g \in Games, NEW L \in SUBSET User, Ended(g, L)
        PROVE  \E p \in game[u].players : inbox[p] # <<>>
    <3>1. u \in L
      BY <2>4 DEF Ended, Over, OutsidersFree, InGame
    <3>2. game[u] = g /\ u \in g.players /\ inbox[u] # <<>>
      BY <2>4, <3>1, OneMessage DEF Ended, Over, ToLeave
    <3> QED
      BY <3>2
  <2> QED
    BY <2>1, <2>2, <2>3, <2>4, PhaseOfIdle
<1> QED
  BY <1>1, PacedInvariant, PTL

-----------------------------------------------------------------------------
(* The process survives when no statement fails and every question asked for is *)
(* in stock.                                                                     *)

Stocked == QuestionNos \subseteq 1 .. Stock /\ FALSE \notin DbOutcomes

\* A copy has as many questions as its game has turns.
Supplied == \A u \in User : game[u].questionNo <= Len(game[u].questions)

\* Questions in stock are drawn in the number they are asked for.
LEMMA DrawsAreComplete ==
  ASSUME NEW n \in 1 .. Stock, NEW q \in Draws(n)
  PROVE  Len(q) = n
<1>1. DrawCount(n) = n
  BY QuestionAssumption DEF DrawCount
<1>2. q \in [1 .. n -> 1 .. Stock]
  BY <1>1 DEF Draws
<1>3. q \in Seq(1 .. Stock)
  BY <1>2, QuestionAssumption
<1> QED
  BY <1>2, <1>3, QuestionAssumption

LEMMA StepSupplied ==
  ASSUME Stocked, TypeOK, Supplied, NEW u \in User, Step(u)
  PROVE  Supplied'
<1>1. NoGame.questionNo <= Len(NoGame.questions)
  BY DEF NoGame
<1>2. CASE \A w \in User : \/ game'[w] = NoGame
                           \/ /\ game'[w].questionNo = game[w].questionNo
                              /\ game'[w].questions = game[w].questions
  BY <1>1, <1>2 DEF Supplied
<1>3. CASE HandleStartGame(u)
  <2>1. CASE game' = game
    BY <1>2, <2>1
  <2>2. CASE game' # game
    <3>1. PICK S \in Rosters(u), n \in QuestionNos : \E q \in Draws(n) :
            game' = [v \in User |-> IF v \in S THEN NewGame(S, n, q) ELSE game[v]]
      BY ZenonT(60), <1>3, <2>2 DEF HandleStartGame, Crash
    <3>2. PICK q \in Draws(n) :
            game' = [v \in User |-> IF v \in S THEN NewGame(S, n, q) ELSE game[v]]
      BY <3>1
    <3>3. Len(q) = n /\ n \in Nat
      BY DrawsAreComplete DEF Stocked
    <3>4. /\ NewGame(S, n, q).questionNo = n
          /\ NewGame(S, n, q).questions = q
      BY DEF NewGame
    <3> QED
      BY <3>2, <3>3, <3>4 DEF Supplied
  <2> QED
    BY <2>1, <2>2
<1>4. CASE game' = game
  BY <1>2, <1>4
<1>5. CASE \E ret, g : /\ Return(u, g, ret)
                       /\ g.questionNo = game[u].questionNo
                       /\ g.questions = game[u].questions
  BY <1>2, <1>5 DEF Return, TypeOK
<1>6. CASE NextTurn(u)
  <2>1. /\ Next1(game[u]).questionNo = game[u].questionNo
        /\ Next1(game[u]).questions = game[u].questions
    BY CopiesDiffer, NextCopy DEF TypeOK
  <2> QED
    BY <1>4, <1>5, <1>6, <2>1 DEF NextTurn
<1>7. CASE AdvanceTurn(u)
  BY <1>2, <1>7, CopiesDiffer, NextCopy DEF AdvanceTurn, TypeOK
<1>8. CASE HandleLeaveGame(u)
  <2> SUFFICES ASSUME NEW w \in User
               PROVE  /\ game'[w].questionNo = game[w].questionNo
                      /\ game'[w].questions = game[w].questions
    BY <1>2
  <2>1. /\ game[w] \in Games
        /\ \/ game'[w] = game[w]
           \/ game'[w] = [game[w] EXCEPT !.players = game[w].players \ {u}]
    BY <1>8 DEF HandleLeaveGame, TypeOK
  <2> QED
    BY <2>1 DEF Games
<1>9. CASE SendQuestion(u) \/ FinishGame(u)
  BY <1>4, <1>5, <1>9 DEF SendQuestion, FinishGame, Crash
<1>10. CASE \/ Click(u) \/ TimeOut(u) \/ Vanish(u) \/ ReadCounter(u)
            \/ StoreCounter(u) \/ InsertResult(u) \/ ScoreAnswer(u)
  BY <1>4, <1>10 DEF Click, TimeOut, Vanish, ReadCounter, StoreCounter, InsertResult,
     ScoreAnswer
<1> QED
  BY <1>3, <1>6, <1>7, <1>8, <1>9, <1>10 DEF Step, Continue

\* No paced handler reads past a vector, finds no result, or meets another in the
\* map: the process survives when every question asked for is in stock and no
\* statement fails.
THEOREM PacedServerSurvives ==
  ASSUME Paced, Stocked
  PROVE  Spec => []ServerUp
<1> DEFINE UpInv == up /\ Supplied
<1>1. Init => UpInv
  BY DEF Init, Supplied, NoGame
<1>2. TypeOK /\ PacedInv /\ UpInv /\ [Next]_vars => UpInv'
  <2> SUFFICES ASSUME TypeOK, PacedInv, up, Supplied, [Next]_vars
               PROVE  UpInv'
    OBVIOUS
  <2>1. CASE UNCHANGED vars
    BY <2>1 DEF vars, Supplied
  <2>2. CASE Next
    <3> PICK u \in User : Step(u)
      BY <2>2 DEF Next, Step
    <3>1. Supplied'
      BY StepSupplied
    <3>2. CASE HandleStartGame(u)
      BY <3>1, <3>2 DEF HandleStartGame, Stocked
    <3>3. CASE SendQuestion(u)
      <4>1. PICK g \in Games : Sending(g, u)
        BY <3>3, PhaseOfBusy
           DEF PacedInv, SendQuestion, Answering, Leaving, Judging, Scored
      <4>2. game[u] = g /\ g.index < g.questionNo /\ g.index \in Nat
            /\ g.questionNo \in Nat /\ Len(g.questions) \in Nat
        BY <4>1 DEF Sending, InRound, Games
      <4>3. HasQuestion(game[u])
        BY <4>2 DEF HasQuestion, Supplied
      <4> QED
        BY <3>1, <3>3, <4>3 DEF SendQuestion
    <3> QED
      BY <3>1, <3>2, <3>3, WhatCrashes
  <2> QED
    BY <2>1, <2>2
<1>3. UpInv => ServerUp
  BY DEF ServerUp
<1> QED
  BY <1>1, <1>2, <1>3, PacedInvariant, TypeCorrect, PTL DEF Spec

-----------------------------------------------------------------------------
(* The refinement: what Quiz sees of the copies *)

ContestIn(f) == {u \in User : f[u] # NoGame /\ f[u].index < f[u].questionNo}

RoundIn(f) == IF ContestIn(f) = {} THEN 0
              ELSE CHOOSE i \in {f[u].index : u \in ContestIn(f)} :
                     \A u \in ContestIn(f) : i <= f[u].index

LengthIn(f) == IF ContestIn(f) = {} THEN 0
               ELSE CHOOSE n \in QuestionNos : \E u \in ContestIn(f) : f[u].questionNo = n

ContestantsIn(f) == UNION {f[u].players : u \in ContestIn(f)}

AnsweredIn(f) == {p \in ContestantsIn(f) : f[p].index > RoundIn(f)}

\* A round of g with answers by A is seen as one.
LEMMA SeesRound ==
  ASSUME NEW f, NEW g \in Games, NEW A,
         A \subseteq g.players, A # g.players,
         g.questionNo \in QuestionNos, g.index < g.questionNo,
         \A p \in g.players : f[p] = IF p \in A THEN Next1(g) ELSE g,
         \A w \in User \ g.players : f[w] = NoGame
  PROVE  /\ ContestantsIn(f) = g.players
         /\ LengthIn(f) = g.questionNo
         /\ RoundIn(f) = g.index
         /\ AnsweredIn(f) = A
<1> DEFINE h == Next1(g)
           C == ContestIn(f)
<1>1. /\ h.players = g.players /\ h.questionNo = g.questionNo
      /\ h.index = g.index + 1 /\ g.index \in Nat /\ g.players \subseteq User
      /\ g # NoGame
  BY CopiesDiffer, QuestionAssumption DEF Games
<1> HIDE DEF h
<1>2. \A u \in C : u \in g.players /\ (f[u] = g \/ f[u] = h)
  BY DEF ContestIn, h
<1>3. PICK p \in g.players : p \notin A
  OBVIOUS
<1>4. p \in C /\ f[p] = g
  BY <1>1, <1>3 DEF ContestIn
<1> HIDE DEF C
<1>5. ContestantsIn(f) = g.players
  BY <1>1, <1>2, <1>4 DEF ContestantsIn, C
<1>6. LengthIn(f) = g.questionNo
  <2>1. \A u \in C : f[u].questionNo = g.questionNo
    BY <1>1, <1>2
  <2>2. \A n : (\E u \in C : f[u].questionNo = n) <=> n = g.questionNo
    BY <1>4, <2>1
  <2> DEFINE n == CHOOSE i \in QuestionNos : \E u \in C : f[u].questionNo = i
  <2>3. \E u \in C : f[u].questionNo = n
    BY <2>2
  <2>4. n = g.questionNo
    BY <2>2, <2>3
  <2> QED
    BY <1>4, <2>4 DEF LengthIn, C
<1>7. RoundIn(f) = g.index
  <2> DEFINE S == {f[u].index : u \in C}
             Least(i) == \A u \in C : i <= f[u].index
             r == CHOOSE i \in S : Least(i)
  <2>1. g.index \in S /\ Least(g.index)
    BY <1>1, <1>2, <1>4
  <2>2. r \in S /\ Least(r)
    BY <2>1
  <2>3. r \in Nat /\ r <= g.index /\ g.index <= r
    <3>1. r = g.index \/ r = h.index
      BY <1>2, <2>2
    <3>2. r <= f[p].index
      BY <1>4, <2>2
    <3> HIDE DEF r, S, Least
    <3> QED
      BY <1>1, <1>4, <3>1, <3>2
  <2>4. r = g.index
    BY <1>1, <2>3
  <2> QED
    BY <1>4, <2>4 DEF RoundIn, C
<1>8. AnsweredIn(f) = A
  <2>1. \A q \in g.players : f[q].index > g.index <=> q \in A
    BY <1>1 DEF h
  <2> QED
    BY <1>5, <1>7, <2>1 DEF AnsweredIn
<1> QED
  BY <1>5, <1>6, <1>7, <1>8

\* Without copies that have questions left nothing is seen.
LEMMA SeesNothing ==
  ASSUME NEW f, ContestIn(f) = {}
  PROVE  /\ ContestantsIn(f) = {} /\ LengthIn(f) = 0
         /\ RoundIn(f) = 0 /\ AnsweredIn(f) = {}
BY DEF ContestantsIn, LengthIn, RoundIn, AnsweredIn

\* Length and answers as GameEngine gives them to Quiz
SeenLength == IF Contest = {} THEN 0
              ELSE CHOOSE n \in QuestionNos : \E u \in Contest : game[u].questionNo = n

SeenAnswered == {p \in Contestants : game[p].index > Round}

LEMMA ViewIs ==
  /\ Contestants = ContestantsIn(game) /\ SeenLength = LengthIn(game)
  /\ Round = RoundIn(game) /\ SeenAnswered = AnsweredIn(game)
<1>1. Contest = ContestIn(game)
  BY DEF Contest, ContestIn, InGame
<1> QED
  BY <1>1 DEF Contestants, ContestantsIn, SeenLength, LengthIn, Round, RoundIn,
     SeenAnswered, AnsweredIn

LEMMA ViewIsNext ==
  /\ Contestants' = ContestantsIn(game') /\ SeenLength' = LengthIn(game')
  /\ Round' = RoundIn(game') /\ SeenAnswered' = AnsweredIn(game')
<1>1. Contest' = ContestIn(game')
  BY DEF Contest, ContestIn, InGame
<1> QED
  BY <1>1 DEF Contestants, ContestantsIn, SeenLength, LengthIn, Round, RoundIn,
     SeenAnswered, AnsweredIn

LEMMA RoundSeen ==
  ASSUME NEW g \in Games, NEW A, InRound(g, A)
  PROVE  /\ Contestants = g.players /\ SeenLength = g.questionNo
         /\ Round = g.index /\ SeenAnswered = A
<1>1. /\ ContestantsIn(game) = g.players /\ LengthIn(game) = g.questionNo
      /\ RoundIn(game) = g.index /\ AnsweredIn(game) = A
  <2>1. /\ A \subseteq g.players /\ A # g.players
        /\ g.questionNo \in QuestionNos /\ g.index < g.questionNo
        /\ \A p \in g.players : game[p] = IF p \in A THEN Next1(g) ELSE g
        /\ \A w \in User \ g.players : game[w] = NoGame
    BY DEF InRound, OutsidersFree
  <2> QED
    BY <2>1, SeesRound
<1> QED
  BY <1>1, ViewIs

LEMMA RoundSeenNext ==
  ASSUME NEW g \in Games, NEW A, InRound(g, A)'
  PROVE  /\ Contestants' = g.players /\ SeenLength' = g.questionNo
         /\ Round' = g.index /\ SeenAnswered' = A
<1>1. /\ ContestantsIn(game') = g.players /\ LengthIn(game') = g.questionNo
      /\ RoundIn(game') = g.index /\ AnsweredIn(game') = A
  <2>1. /\ A \subseteq g.players /\ A # g.players
        /\ g.questionNo \in QuestionNos /\ g.index < g.questionNo
        /\ \A p \in g.players : game'[p] = IF p \in A THEN Next1(g) ELSE g
        /\ \A w \in User \ g.players : game'[w] = NoGame
    BY DEF InRound, OutsidersFree
  <2> QED
    BY <2>1, SeesRound
<1> QED
  BY <1>1, ViewIsNext

Nothing(p, l, r, a) == p = {} /\ l = 0 /\ r = 0 /\ a = {}

\* Copies past their last question are not seen.
LEMMA EndSeen ==
  ASSUME NEW g \in Games, NEW L, Ended(g, L) \/ \E u \in User : Leaving(g, L, u)
  PROVE  Nothing(Contestants, SeenLength, Round, SeenAnswered)
<1>1. \A w \in User : \/ game[w] = NoGame
                      \/ game[w].index = g.index /\ game[w].questionNo = g.questionNo
  BY ZenonT(60) DEF Ended, Leaving, Over, OutsidersFree, ToLeave, Games
<1>2. g.index \in Nat /\ g.questionNo \in Nat /\ g.questionNo <= g.index
  BY DEF Ended, Leaving, Over, Games
<1>3. ContestIn(game) = {}
  BY <1>1, <1>2 DEF ContestIn
<1> QED
  BY <1>3, SeesNothing, ViewIs DEF Nothing

LEMMA EndSeenNext ==
  ASSUME NEW g \in Games, NEW L, Ended(g, L)' \/ \E u \in User : Leaving(g, L, u)'
  PROVE  Nothing(Contestants', SeenLength', Round', SeenAnswered')
<1>1. \A w \in User : \/ game'[w] = NoGame
                      \/ game'[w].index = g.index /\ game'[w].questionNo = g.questionNo
  BY ZenonT(60) DEF Ended, Leaving, Over, OutsidersFree, ToLeave, Games
<1>2. g.index \in Nat /\ g.questionNo \in Nat /\ g.questionNo <= g.index
  BY DEF Ended, Leaving, Over, Games
<1>3. ContestIn(game') = {}
  BY <1>1, <1>2 DEF ContestIn
<1> QED
  BY <1>3, SeesNothing, ViewIsNext DEF Nothing

LEMMA InitSeen == Init => QuizView!Init
<1> SUFFICES ASSUME Init PROVE QuizView!Init
  OBVIOUS
<1>1. ContestIn(game) = {}
  BY DEF Init, ContestIn
<1> QED
  BY <1>1, SeesNothing, ViewIs DEF QuizView!Init, QuizView!Idle, SeenLength, SeenAnswered

\* Every step of a user or of its thread is a step of the quiz, or none.
LEMMA StepSeen ==
  ASSUME Paced, TypeOK, PacedInv, NEW u \in User, Step(u)
  PROVE  QuizView!Next \/ UNCHANGED QuizView!quiz
<1>0. up /\ Phase /\ gone = {} /\ ~TimeOut(u) /\ ~Vanish(u)
  BY StepFromUp
<1>1. CASE game' = game
  <2>1. /\ Contestants' = Contestants /\ SeenLength' = SeenLength
        /\ Round' = Round /\ SeenAnswered' = SeenAnswered
    BY <1>1, ViewIs, ViewIsNext
  <2> QED
    BY <2>1 DEF QuizView!quiz, SeenLength, SeenAnswered
<1>2. ASSUME Nothing(Contestants, SeenLength, Round, SeenAnswered),
             Nothing(Contestants', SeenLength', Round', SeenAnswered')
      PROVE  UNCHANGED QuizView!quiz
  BY <1>2 DEF Nothing, QuizView!quiz, SeenLength, SeenAnswered
<1>3. CASE HandleStartGame(u) /\ up'
  <2>1. /\ \A w \in User : game[w] = NoGame
        /\ \E g \in Games : g.index = 0 /\ Sending(g, u)'
    BY <1>0, <1>3, HandleStartGamePaced
  <2>2. PICK g \in Games : g.index = 0 /\ Sending(g, u)'
    BY <2>1
  <2>3. /\ g.players \in (SUBSET User) \ {{}} /\ g.questionNo \in QuestionNos
        /\ InRound(g, {})'
    BY <2>2 DEF Sending, InRound, Games
  <2>4. ContestIn(game) = {}
    BY <2>1 DEF ContestIn
  <2>5. Contestants = {} /\ SeenLength = 0 /\ Round = 0 /\ SeenAnswered = {}
    BY <2>4, SeesNothing, ViewIs
  <2>6. /\ Contestants' = g.players /\ SeenLength' = g.questionNo
        /\ Round' = 0 /\ SeenAnswered' = {}
    BY <2>2, <2>3, RoundSeenNext
  <2>7. QuizView!Begin
    BY <2>3, <2>5, <2>6 DEF QuizView!Begin, QuizView!Idle, SeenLength, SeenAnswered
  <2> QED
    BY <2>7 DEF QuizView!Next
<1>4. ASSUME NEW g \in Games, NEW A \in SUBSET User,
             Answering(g, A, u), Waiting(g, A \cup {u})'
      PROVE  QuizView!Next
  <2>1. /\ InRound(g, A) /\ InRound(g, A \cup {u})' /\ u \in g.players \ A
        /\ A \cup {u} # g.players
    BY <1>4 DEF Answering, Waiting, InRound
  <2>2. /\ Contestants = g.players /\ SeenLength = g.questionNo
        /\ Round = g.index /\ SeenAnswered = A
    BY <2>1, RoundSeen
  <2>3. /\ Contestants' = g.players /\ SeenLength' = g.questionNo
        /\ Round' = g.index /\ SeenAnswered' = A \cup {u}
    BY <2>1, RoundSeenNext
  <2>4. QuizView!Answer(u)
    BY <2>1, <2>2, <2>3 DEF QuizView!Answer, SeenLength, SeenAnswered
  <2> QED
    BY <2>4 DEF QuizView!Next, QuizView!Play
<1>5. CASE NextTurn(u)
  <2>1. ASSUME NEW g \in Games, NEW L \in SUBSET User,
               Leaving(g, L, u), Ended(g, L \ {u})'
        PROVE  UNCHANGED QuizView!quiz
    BY <1>2, <2>1, EndSeen, EndSeenNext
  <2> QED
    BY <1>0, <1>1, <1>4, <1>5, <2>1, NextTurnPaced
<1>6. CASE HandleLeaveGame(u)
  <2>1. ASSUME NEW g \in Games, NEW L \in SUBSET User, Ended(g, L), Leaving(g, L, u)'
        PROVE  UNCHANGED QuizView!quiz
    BY <1>2, <2>1, EndSeen, EndSeenNext
  <2> QED
    BY <1>0, <1>1, <1>6, <2>1, HandleLeaveGamePaced
<1>7. CASE AdvanceTurn(u)
  <2>1. PICK g \in Games, A \in SUBSET User : Answering(g, A, u) /\ Sending(Next1(g), u)'
    BY <1>0, <1>7, AdvanceTurnPaced
  <2>2. /\ InRound(g, A) /\ InRound(Next1(g), {})' /\ u \in g.players \ A
        /\ g.players = A \cup {u} /\ g.index + 1 < g.questionNo
    BY <1>7, <2>1 DEF Answering, Sending, AdvanceTurn
  <2>3. /\ Contestants = g.players /\ SeenLength = g.questionNo
        /\ Round = g.index /\ SeenAnswered = A
    BY <2>2, RoundSeen
  <2>4. /\ Contestants' = g.players /\ SeenLength' = g.questionNo
        /\ Round' = g.index + 1 /\ SeenAnswered' = {}
    BY <2>2, RoundSeenNext, CopiesDiffer
  <2>5. QuizView!CloseRound(u)
    BY <2>2, <2>3, <2>4 DEF QuizView!CloseRound, SeenLength, SeenAnswered
  <2> QED
    BY <2>5 DEF QuizView!Next, QuizView!Play
<1>8. CASE FinishGame(u)
  <2>1. PICK g \in Games, A \in SUBSET User : Answering(g, A, u) /\ Ended(Next1(g), A)'
    BY <1>0, <1>8, FinishGamePaced
  <2>2. /\ InRound(g, A) /\ u \in g.players \ A
        /\ g.players = A \cup {u} /\ g.index + 1 = g.questionNo
    BY <1>8, <2>1 DEF Answering, FinishGame
  <2>3. /\ Contestants = g.players /\ SeenLength = g.questionNo
        /\ Round = g.index /\ SeenAnswered = A
    BY <2>2, RoundSeen
  <2>4. Nothing(Contestants', SeenLength', Round', SeenAnswered')
    BY <2>1, EndSeenNext, CopiesDiffer
  <2>5. QuizView!CloseContest(u)
    BY <2>2, <2>3, <2>4 DEF QuizView!CloseContest, SeenLength, SeenAnswered, Nothing
  <2> QED
    BY <2>5 DEF QuizView!Next, QuizView!Play
<1>9. CASE SendQuestion(u)
  <2>1. CASE Crash
    BY <1>1, <2>1 DEF Crash
  <2>2. CASE ~Crash
    <3>1. PICK g \in Games : Sending(g, u)
      BY <1>0, <1>9, PhaseOfBusy DEF SendQuestion, Answering, Leaving, Judging, Scored
    <3>2. game' = game
      BY <1>9, <2>2, <3>1 DEF SendQuestion, Return, Sending, TypeOK
    <3> QED
      BY <1>1, <3>2
  <2> QED
    BY <2>1, <2>2
<1>10. CASE HandleStartGame(u) /\ ~up'
  BY <1>0, <1>1, <1>10 DEF HandleStartGame, Crash
<1>11. CASE Click(u) \/ ReadCounter(u) \/ StoreCounter(u) \/ InsertResult(u) \/ ScoreAnswer(u)
  BY <1>1, <1>11 DEF Click, ReadCounter, StoreCounter, InsertResult, ScoreAnswer
<1> QED
  BY <1>0, <1>3, <1>5, <1>6, <1>7, <1>8, <1>9, <1>10, <1>11 DEF Step, Continue

LEMMA NextSeen ==
  Paced /\ TypeOK /\ PacedInv /\ [Next]_vars => [QuizView!Next]_(QuizView!quiz)
<1> SUFFICES ASSUME Paced, TypeOK, PacedInv, [Next]_vars
             PROVE  QuizView!Next \/ UNCHANGED QuizView!quiz
  OBVIOUS
<1>1. CASE UNCHANGED vars
  <2>1. game' = game
    BY <1>1 DEF vars
  <2>2. /\ Contestants' = Contestants /\ SeenLength' = SeenLength
        /\ Round' = Round /\ SeenAnswered' = SeenAnswered
    BY <2>1, ViewIs, ViewIsNext
  <2> QED
    BY <2>2 DEF QuizView!quiz, SeenLength, SeenAnswered
<1>2. CASE Next
  BY <1>2, StepSeen DEF Next, Step
<1> QED
  BY <1>1, <1>2

\* ImplementsQuiz but for its fairness
QuizSteps == QuizView!Init /\ [][QuizView!Next]_(QuizView!quiz)

\* Whatever threads interleave between handlers, the games of the server are the
\* rounds of the abstract quiz: nobody answers a round twice, no round closes before
\* the last player answered, and no game before its last round.
THEOREM QuizImplemented ==
  ASSUME Paced
  PROVE  Spec => QuizSteps
BY InitSeen, NextSeen, PacedInvariant, TypeCorrect, PTL DEF Spec, QuizSteps

=============================================================================
