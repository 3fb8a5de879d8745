# A specification of the Trivia project

TLA+ modules for the trivia game of this repository: a C++ server
(`src/Trivia-Project`) that keeps users, rooms and games and plays a quiz with
WPF clients (`src/Trivia-Client`) over TCP, with a SQLite file behind it. The
modules are written from the code. TLC checks them on small instances and TLAPS
proves the theorems for every value of the constants.

Paths without a directory are in `src/Trivia-Project` (`.cpp`, `.h`) or in
`src/Trivia-Client` (`.xaml.cs`, mostly under `Pages/Options`).

## 1. The system

### How it runs

The server has one thread that accepts and one detached thread for each client
(`TriviaServer.cpp:69-113`). A client's thread receives a message, builds a
`RecievedMessage` and calls the handler of its type (`466-544`), so requests of
one client are handled in order and requests of different clients are handled at
the same time. Nothing that the handlers share is locked, except around an
insertion into the list of users, and around a map of results by a mutex that
every player has a copy of. An exception in a handler is caught in the thread and
ends the session of that client (`safeDeleteUser`); an access violation is not a
C++ exception and ends the process.

| component | state | operations |
|---|---|---|
| quiz engine (`Game.cpp`) | the game of a player: players, questions, index; **static**: answers counted this turn, results | construct, send question, answer, next turn, finish, leave |
| rooms (`Room.cpp`, room handlers) | `_roomsList`, `_roomIdSequence`; a room's number, admin, capacity, players | create, join, leave, close, start, list rooms, list users |
| users (`User.cpp`) | socket, name, pointer to room, pointer to game | the room and game calls, setGame, clearRoom |
| sessions (`TriviaServer.cpp`) | `_connectedUsers`, one thread and socket a client | accept, sign in, sign out, `safeDeleteUser` |
| accounts (`Validator.cpp`, `Database.cpp`, sign-up handlers) | `t_users` | validate, sign up, sign in, forgotten password |
| database (`Database.cpp`) | `t_users`, `t_games`, `t_questions`, `t_players_answers`, a count of games | insert game, update status, add answer, draw questions, best scores, personal status |
| questions (`Question.cpp`) | four answers and the place of the correct one | shuffle |
| wire (`Helper.cpp`, `Classes.cs`) | none | type codes, padded numbers, parts of a message, encoders and parsers |
| game page (`Game.xaml.cs`) | the question shown, a clock, a score | click, clock, read the next message |
| room pages (`RoomPage`, `JoinRoom`, `CreateRoom`) | the room, its list of players | create, list, join, leave, close, start |
| score pages (`BestScores`, `PersonalStatus`, `Scores`) | none | ask, parse, show |
| other pages | forms and settings | sign in and up, appearance |

Components meet in three ways: a handler calls `User`, `Room`, `Game` and
`DataBase` directly; the server pushes messages to clients that did not ask (the
list of players, the end of a room, a question, the end of a game); and the
static members of `Game` join all the games of the process.

### What is hard about it

- **Copies.** `User::setGame` copies the game for every player (`User.cpp:46-53`).
  "The current question" therefore exists once per player, and the copies stay
  together only because of how `handleNextTurn` moves them: who answers before
  the others moves its own index at once, and the last to answer moves its own,
  resets the shared counter and sends the next question for everyone.
- **Shared statics.** The counter that decides who was last is a static member:
  one for all games, incremented without a lock.
- **Broadcasts in the middle of a handler.** `Room::joinRoom` sends to the whole
  room before the joiner's own pointer is set, and `Room::closeRoom` sends to
  each player between clearing their pointers: a lost connection in the room
  cuts either short.
- **Checks apart from their acts.** The room number is read three times in
  `handleCreateRoom`, with the questions of the room drawn from the database in
  between, and is incremented by a read and a write that nothing guards; the user's
  pointer to the new room is read twice more after it is set; a join checks for space
  and enters later; a sign-in checks that the user is absent and inserts later.
- **Two parties to every protocol.** A client sends a request from a page, and
  what the page does with a late message decides which requests the server sees.
- **Failing statements.** A failed insert into `t_games` is an exception that the
  constructor of `Game` swallows; nobody looks at the result of an insert of an
  answer.
- **A file that outlives the process.** The tables are made statement by statement
  and only where there is no file; the number of the next game is counted from the
  rows of all earlier runs.
- **One receive, one message.** The client takes whatever a receive returns, up to 1024
  bytes, for one message, in the window's thread and in the clock's: a reply may come in
  pieces or together with the next one; the server takes a receive for
  a whole part of a message. Lengths and numbers are padded and never cut.

### What makes each component correct

- Quiz engine: a player answers each question once; a turn ends when everyone has
  answered and never earlier; an answer is judged against the question that was
  on the screen; somebody can always move; every game ends; every game and answer
  is recorded under its own number.
- Rooms: a user's pointer and the room's list agree; at most as many players as
  the room is for; a room ends for all its players; what a request takes off the
  list is its own room; no handler meets a null pointer.
- Sessions: one session per user; a socket is closed once; nobody uses a user that
  was deleted.
- Accounts and database: names are unique; games of different runs of the server
  are told apart; statistics count what was recorded, and what was told is recorded.
- Game page: it shows the question its player will be judged by; it counts no right
  answer that the server does not; it gets to the scores.
- Wire and questions: what is written is read; every request is answered; the click
  that is called right is the correct answer wherever the shuffle puts it.

`PROJECT.json` lists every hazard with its line and the properties that cover it, or why
none does.

## 2. The modules

| module | contents |
|---|---|
| `Quiz` | abstract: one contest at a time, in rounds; each player answers once a round; the last answer opens the next round or ends the contest |
| `GameEngine` | the quiz engine with the threads of its players and the game page of the client |
| `MCGameEngine` | symmetry for TLC |
| `GameEngineProofs` | theorems about `GameEngine`, and, when its requests are paced, that it implements `Quiz` |
| `Rooms` | abstract: rooms with a host, a capacity and members; nobody in two |
| `Lobby` | the rooms of the server with the threads of their users and the pages of the client |
| `MCLobby` | symmetry for TLC |
| `LobbyProofs` | theorems about `Lobby`, and, when its requests are paced, that it implements `Rooms` |
| `RoomFeed` | the stream each client reads: what the room handlers send and which page or thread of the client takes it |
| `MCRoomFeed` | the instance for TLC |
| `RoomFeedProofs` | theorems about `RoomFeed` |
| `Sessions` | connections, client threads, sign-up, sign-in and sign-out, `safeDeleteUser`, and the client's side of them |
| `MCSessions` | the instance for TLC |
| `SessionsProofs` | theorems about `Sessions` |
| `GamePage` | one game as the clients' game pages see it: clicks, clocks, and the receives of both of a client's threads |
| `MCGamePage` | the instance for TLC |
| `GamePageProofs` | theorems about `GamePage` |
| `Scoreboard` | abstract: a tally of right and wrong answers that only grows and holds every answer whose result was told |
| `Statistics` | the database over several runs of the server: the making of the file, games and answers, best scores and personal status |
| `MCStatistics` | symmetry for TLC |
| `StatisticsProofs` | theorems about `Statistics` |
| `Wire` | every message as one program writes it and the other reads it |
| `Exchange` | a client and its thread of the server over `Wire`, and the way of a question from its shuffle to the judgement of an answer |
| `MCExchange` | the instance for TLC |
| `WireProofs` | theorems about `Wire`: what is written is what is read, field by field |
| `ExchangeProofs` | theorems about `Exchange` |

### GameEngine

`game[u]` is the copy that `u`'s `User` object points to, and `NoGame` is a null
pointer; `run` is history and tells games apart that carry the same number.
`turnAnswers` and `results` are the two statics. `gameRows` and `answerRows` are
the rows that the server adds to the database. `pc`, `handler`, `seen` and
`right` are a thread's place and its locals. `inbox`, `expired`, `seated` and
`gone` are the client: the messages on their way to it, whether its clock already
answered, whether it is on the game page, whether its connection is lost.

A handler is one action as far as it touches only its own copy, and is cut where
it reads or writes something shared:

| code | actions |
|---|---|
| `handleStartGame`, `Game::Game`, `initQuestions`, `insertNewGame` | `HandleStartGame`, then `SendQuestion` |
| `handlePlayerAnswer`, `handleAnswerFromUser` | `HandlePlayerAnswer` (from `Click` or `TimeOut`), `ReadCounter`, `StoreCounter`, `InsertResult`, `ScoreAnswer` |
| `handleNextTurn` | `NextTurn`, then nothing, `AdvanceTurn` and `SendQuestion`, or `FinishGame` |
| `handleLeaveGame`, `Game::leaveGame` | `HandleLeaveGame`, then `NextTurn` |
| `Game.xaml.cs` | `Click` (90-126), `TimeOut` (69-77, 128-136), the reading of the end in `HandleLeaveGame` (161-169) |
| a lost connection | `Vanish` |

Undefined behaviour is a choice: `handleNextTurn` has no return where the player
is ahead of the others, and the caller drops the game if it reads false
(`Fallthrough`); two threads that insert into the map at once may crash;
`_results.find` of a player without a result may crash. Reading past the end of
`_questions` is a crash.

### Lobby

`rooms` are the `Room` objects, which are never deleted; `roomsList` maps a key to
an object. `currRoom` and `inGame` are the user's two pointers, `pc`, `target`, `seen`
and `players` the handler of its thread, `page` and `news` its client. `seen` is the
number that `_roomIdSequence++` has read and not yet written (`TriviaServer.cpp:286`);
`players` is the list that a game copied when it was made. `crashedBy` and `takenBy`
are history: whose request ended the process, and the room whose end last took a user's
pointer away.

| code | actions |
|---|---|
| `handleCreateRoom`, `User::createRoom` | `CreateRoom` and `NumberRoom` (the increment), `BuildRoom`, `RegisterRoom` (the list and the reply) |
| `handleJoinRoom`, `User::joinRoom`, `Room::joinRoom` | `JoinRoom`, `EnterRoom`, `SetRoom` |
| `handleLeaveRoom`, `Room::leaveRoom` | `LeaveRoom` |
| `handleCloseRoom`, `Room::closeRoom` | `CloseRoom`, `Unlist` |
| `handleStartGame`, `Game::Game` | `StartGame`, `Unlist` |
| `RoomPage.xaml.cs` | `Request`, `Informed`, `ReadQuestion`; where each request is sent from |
| the rest of a game | `FinishGame` |
| a lost connection | `Vanish`, and `Disconnect` when a send throws |

A handler that follows a null pointer to a room ends the process: `CloseRoom` and
`StartGame` of a host that has no room, and `RegisterRoom`, which asks for the user's
room again (`TriviaServer.cpp:289-291`) after a start or a close by another may have taken
it. `Room::getId` and the list of players are read through that pointer. The end of a
game takes the pointer to a room with the game (`User.cpp:48`). The first question goes to
the players the game copied (`Game.cpp:29`), whoever left the room since.

### RoomFeed

`stream[u]` is what the server has sent to `u`'s client and the client has not
received. `ui[u]` is what the thread of its window waits for, `listening[u]` says
that `HandlePlayers` runs beside it; both receive from the one stream, and nothing
in the client matches an answer with its request. `role` and `target` are the room
of the client's session, `view` and `shown` what its pages show. `rooms`,
`currRoom` are the server's, `pc` and `known` a handler's progress. A handler is
cut between its own sends; the finer steps, the capacity and the lost connections
are in `Lobby`.

| code | actions |
|---|---|
| `JoinRoom.InitializeRooms`, `handleGetRooms` | `OpenRooms`, `HandleGetRooms`, `ReadRooms` |
| `JoinRoomButton_Click`, `GetUsers`, `handleJoinRoom`, `Room::joinRoom` | `JoinRoom`, `HandleJoinRoom`, `EnterRoom`, `ReadJoined`, `ReadGreeting` |
| `CreateRoom`, `handleCreateRoom` | `CreateRoom`, `HandleCreateRoom`, `ReadCreated` |
| `RoomPage.InitiateDetails`, `FFlush`, `handleGetUsersInRoom` | `AskUsers`, `HandleGetUsers`, `SendUsersAgain`, `ReadUsers`, `Flush` |
| `RoomPage.HandlePlayers`, `UpdateView`, `HandleStartGame` | `Listen` |
| `RoomPage.OnNavigatingFrom`, `handleLeaveRoom`, `handleCloseRoom` | `LeaveRoom`, `HandleLeaveRoom`, `CloseRoom`, `HandleCloseRoom` |
| `StartGame_Click`, `handleStartGame` | `StartGame`, `HandleStartGame` |

A page that takes a message of another kind throws or shows what nobody sent; the
model calls that client lost and follows it no further. Two places are tolerant in
the code and in the model: `InitializeRooms` swallows what it cannot read, and
`HandleCreateRoom` passes over one message that says that a room closed.

`Begin` is the pacing the properties rest on. A patient user turns to something new
when its room page is up to date and no handler runs; nobody turns to something
new in the middle of a patient user's exchange. `Unruly` users keep to neither for
themselves, turn pages while the thread of the last one still reads, and receive
several messages at once. With everybody patient the exchanges still meet: a list
is read late, a close or a start finds an unruly user half way in, a room is left
after the game began.

### Sessions

`connection[k]` is the k-th connection made, with the number its socket has on the
server, the state of its other end and the request on its way; `thread[k]` is the
thread that serves it. `socketOf` says which connection is at a number now: a
thread knows its client by number only, and a number is used again after
`closesocket`. `_connectedUsers` and `t_users` are the code's. `client[c]` is a
client program: its current connection, who it is logged in as, whether it waits.
`lost` records the connections that ended without `Leave_App_Request`.

| code | actions |
|---|---|
| `Home.Connection`, `accept` | `Connect` |
| `Login`, `SignUp`, `SignOut`, `MainWindow` | `Ask`, `SignOut` and later `CloseForgotten`, `Quit` |
| a killed client, a reset connection | `Vanish` |
| `clientHandler`, `getMessageTypeCode`, `getPartFromSocket` | `RecvThrows`, `RecvNothing`, `HandleLeaveApp` |
| `handleSignIn` | `HandleSignIn`, `InsertUser` |
| `handleSignUp`, `isUserExists`, `addNewUser` | `HandleSignUp`, `AddUser` |
| `handleSignout` | `HandleSignout` |
| `safeDeleteUser` | `SafeDeleteUser`, once for each call: once after a goodbye, twice after a failed receive, and once more before that after a failed reply |

A closed connection leaves the buffer of `recv` unwritten (`Helper.cpp:63-82`):
`RecvNothing` either reads it as a code that leads to the null message of
`buildRecieveMessage`, or as an earlier code, and receives again.

### GamePage

`requests[u]` and `stream[u]` are what is on its way between a player's client and
the server; `ui[u]` is what the thread of the window does, `ticking` says whose
clock runs, `clocks[u]` counts threads of clocks that wait for a reply, and both
kinds receive from the one stream. `index`, `inGame`, `turnAnswers`, `results` are
the server's, one handler at a time (their interleavings are `GameEngine`'s).

| code | actions |
|---|---|
| `Game.Answer_Click` | `AnswerClick` up to the receive, `ReadReply` after it |
| `Game.GetNextQuestion`, `Game.SetDetails` | `GetNextQuestion` |
| `Game.Tick`, `Game.DefaultAnswer` | `DefaultAnswer`, `ClockReads` |
| `handlePlayerAnswer` with all it calls | `HandlePlayerAnswer` |

After its clock ran out a page never goes on by itself: the clock's thread reads the
reply and ends, and no other clock is started. The buttons stay enabled; a click
then sends a second answer, takes whatever comes next for its reply, and leaves the
page with disabled buttons or a message behind. That is why `InStep` and the exact
half of `ScoreKept` are about games in which no clock has run out.

### Statistics

`made` counts the statements of the constructor that the file has; `t_games` and
`t_players_answers` are the tables; `process` is the server process, and what is in
memory (`game`, `answer`) is gone when it ends. `_currGameId` is the count of the
server's own `DataBase`: every game increments a private copy of it
(`Game.cpp:14`), so `Number` is the same for all games of a run, and `row` remembers
which row was really inserted. A row of `t_games` also has, as history, for how many
questions its game was asked (`asked`). `reply` is what the last step sent.

| code | actions |
|---|---|
| `DataBase::DataBase` | `Start`, `Setup` for each statement and for the count |
| the server is killed, or exits | `Killed`, a disjunct of `Setup` |
| `Game::Game`, `initQuestions`, `insertNewGame` | `StartGame` |
| `handleAnswerFromUser`, `addAnswerToPlayer`, the reply | `AddAnswerToPlayer`, `TellResult` |
| `handleFinishGame`, `updateGameStatus` | `EndGame` |
| `handleGetBestScores`, `getBestScores`, `pairCompare` | `HandleGetBestScores` |
| `handleGetPersonalStatus`, `getPersonalStatus` | `HandleGetPersonalStatus` |

The process follows a null pointer for a user without a row (the sums are NULL,
`Database.cpp:297`) and reads outside of its questions when there are fewer than were
asked for, which is what becomes of a game of 0 questions and of one of more than the
stock (the client lets 0 to 10 through, `CreateRoom.xaml.cs:81`, and `Database.cpp`
stocks 5). The process ends where the questions of such a game do, and its row is never
marked as ended.

### Wire and Exchange

A message is a code and some values. `Wire` has a format for each code and each side:
`Stringed` as the client writes it, `Read` as the server takes it apart, `Built` as
the server writes its replies, `Parametered` as the client parses them. `Write`
pads and does not cut; `Parse` throws where a `Substring` or a `Convert` would; a
text is as many characters, of which only digits matter. What the code does in loops
(`atoi`, `Stringed...`, `Parametered...`) are recursive functions here, one value or
field a step.

`Exchange` runs one client and its thread over them. `travelling` and `arrived` are
the bytes of requests before and after the network, one stream, of which any piece
may arrive (`Ahead` and `Begins` bound how many pieces);
`thread` is the message that `buildRecieveMessage` builds, a part at a time;
`down` is the stream of replies, `owed` the replies in it as they were meant;
`handled` and `read` compare what was meant with what came out; `off` remembers
that a value did not fit its field, or that a receive found something else than it was
for: the server less than the part it asked for, the client a beginning of a reply, or
a reply and what is behind it.
`drawn` is the shuffle of `Question`.

| code | actions |
|---|---|
| the pages and `ClientReceivedMessage` | `Send` |
| the receives (`Classes.cs:88-92`, `Game.xaml.cs:143`) and `ServerReceivedMessage` | `Receive`, which is `Take(k)` of as many units as it finds, 1024 bytes at most (`Found`) |
| TCP | `Arrive` |
| `getMessageTypeCode`, `getPartFromSocket`, `buildRecieveMessage` | `ReadCode`, `ReadPart` |
| `handleReceivedMessage` and the handlers' replies | `Handle`, and `AnswerCreate` for a room, whose questions are made first |
| `Question::Question` | `Draw` |

### How they meet

`Lobby!StartGame` and `GameEngine!HandleStartGame` are the same handler: the first
says what becomes of the room, the second what becomes of the game. `GameEngine`
starts a game with any set of users that a room can hold at that moment
(`Rosters`: nobody in a game, nobody on the game page, since `User::joinRoom`
turns away who has a game); `Lobby` keeps one bit of a game, whether a user is in
one. `RoomFeed` has the same room handlers as `Lobby` again, coarser in what they do
to the rooms and finer in what they send. `GamePage` puts the reading of a stream
between the server of `GameEngine` and its players, and begins where
`RoomFeed!QuestionReached` ends: with the first question in the stream.
`Statistics` keeps what `GameEngine` calls `gameRows` and `answerRows` over several
runs of the server. `Exchange` is what any one message of the other modules goes
through.

## 3. What the runs check

Passing runs:

| run | constants | what it shows |
|---|---|---|
| `orderly` | 3 users, 2 games, 1-2 questions of 2 | with paced answers no turn ends while another player has its question (`EveryoneAnswered`), an answer is judged against the question on the screen (`JudgedAsShown`), players never all wait for one another (`NoStall`), and no index leaves its vector (`ServerUp`) |
| `lockstep` | 2 users, 2 games, 1-2 questions, fairness | the engine implements `Quiz` with its fairness (`ImplementsQuiz`), and everybody seated at a game sees its end (`GamesEnd`) |
| `races` | 2 users, 1 game of 2 questions, two threads inside handlers, clocks, failing statements, lost connections, either fall-through | the types of all of it, and that no question is recorded twice for a player (`RowsBelowIndex`) |
| `lobbyPaced` | 3 users, 3 rooms | server and client agree between requests (`Agreement`), a start takes the room it starts off the list (`ErasesItsRoom`), and the lobby implements `Rooms` (`ImplementsRooms`): no room is overfull, nobody is in two |
| `sessions` | 2 clients, 2 names of which 1 is registered, 2 socket numbers, 3 connections, fairness of threads | a client is, to the server, who it thinks it is (`Recognised`), and keeps its connection (`KeepsConnections`), unless a thread of a lost connection knows its number; nobody signs up as an existing user (`SignedUpOnce`); the process survives while clients say goodbye (`ServerUp`); no interleaving leaves a user online without a client (`SessionsEnd`) |
| `feed` | 3 users: a patient host, a patient guest, an unruly user that does both; 2 rooms, streams of 1 when something begins | whatever the unruly user does, a page of a patient client never takes a message meant for another (`InStep`); who has read all it was sent sees the players the server has (`ViewCurrent`); the thread of a page that was left finds what ends it (`ThreadEnds`); the first question is read by that thread and by nothing else (`QuestionReached`) |
| `lobbyRaces` | 3 users, 2 rooms, two threads inside handlers, two connections may be lost, one hasty client | a connected user's room counts it as a player (`CountedWhereSeated`), and a handler follows a null pointer to a room only for a client that acts again without waiting for news of its room, or for one that was left on the list of another's room, which ended and took its pointer along (`ServerUp`) |
| `gamePage` | 3 players, 2 questions; the clock of one may run out, two may receive several messages at once; fairness | as long as no clock ran out, a page that gets its messages one at a time reads each where it belongs and shows the question its player is judged by, whatever the others' pages suffer (`InStep`); no page ever counts more right answers than the server, and without a time-out as many (`ScoreKept`); calm games get to the scores (`CalmGamesEnd`) |
| `statistics` | 3 users, 2 questions, games for 0, 2 or 3, 3 games, 3 answers, 2 runs of the server, killed anywhere | an answer carries the number of a game of its own run (`RunsApart`); the board has true scores in order and leaves nobody out while there is space (`BoardHonest`); the number of games shown is between the runs a user played in and the games there were (`GamesShownBetween`); a row marked as ended means that somebody answered, in the table, all the questions that some game of that run was started for, one at least, however few the file has (`EndedInFull`); the statements compute the tally of `Scoreboard` (`ImplementsScoreboard`) |
| `exchange` | names of 0, 1, 99, 100 characters, numbers up to 10000, lists of 0, 1, 2, 11 rooms, requests and replies cut in three places, replies run together, 2 requests at once, fairness | what fits is handled as it was sent (`HandledAsSent`) and, where a receive finds one reply, shown as it was built (`ShownAsBuilt`); the page shows all four answers, the right click is the correct one, and no way in which its verdict can come makes a wrong one right (`JudgedByText`); every request is answered unless a value did not fit or a receive found something else than one message (`AnsweredInTheEnd`) |

Runs that show where the code departs from what it says (each is a finding in
`PROJECT.json`, with the line it departs from):

| run | what TLC shows |
|---|---|
| `bestScores` | the best scores are ordered upwards before three are taken, so of four users the three worst are on the board |
| `doubleSignIn` | two sign-ins as one user at once both succeed |

More is seen by changing a constant of a run:

- `orderly` with `MaxLive = 2`: the counter of answers is static, so an answer given
  in one game ends the turn of another (`EveryoneAnswered` fails).
- `orderly` with `Timeouts = TRUE`: a client whose clock ran out keeps its buttons
  enabled, the click is counted as another answer, and a game ends while another
  player has its question (`EveryoneAnswered` fails,
  and so does `ServerUp`: the extra answer may run past the end of the questions).
- `orderly` with `MaxBusy = 2`: two answers at once are counted as one, nobody is
  last and `NoStall` fails.
- `orderly` with `QuestionNos = {3}` and `Stock = 2`: a game for more questions than
  there are runs past the end of its questions and `ServerUp` fails (the client lets
  10 questions through, `Database.cpp` stocks 5).
- `lobbyPaced` with `MaxBusy = 2`: two rooms created at once get one number, because one
  increment is lost or because the number is read again later; one of them is not listed,
  and starting it erases the other (`ErasesItsRoom` fails).
- `feed` with `Guests = {h, b, c}`: a host that looks for a room after closing its
  own takes the leftover message for the list, and is a message behind from then on
  (`InStep` fails), because `handleCloseRoom` tells the host twice that its room
  closed; the page that creates a room then shows a failure though the room was made.
- `feed` with users `{b, c, d}`, `Hosts = {c}`, `Guests = {b, d}`, `Unruly = {c, d}`: `c`
  closes its room while the thread of `d` is between its answer to a join and the
  joining. `d` enters the closed room, whose list of players is as long as it was, and
  all of them are told of it; what `b` has asked for since comes one message late
  (`InStep` fails).
- `feed` with the pacing conjuncts of `Begin` taken out: a newcomer that
  arrives as the host starts reads the first question as a list and never gets to
  the game; a list that arrives as a member leaves is shown in a room that is
  forgotten; a list sent between the two answers of `handleGetUsersInRoom` is thrown
  away by `FFlush`, and the page stays stale.
- `sessions` without `lost = {}` in `ServerUp`: a connection closed without a goodbye
  leaves the buffer of the code unwritten, which may lead to the null message and
  ends the server.
- `statistics` with `WriteOutcomes = {TRUE, FALSE}`: a result is told that is not in
  the table (`ImplementsScoreboard` fails).
- `exchange` without `~off` in `HandledAsSent` or `ShownAsBuilt`: a name of 100
  characters, a number of players typed as `09`, a score of 100 at the end of a game
  (the static results are never reset), a list of rooms over 1024 bytes, a short receive,
  a verdict that is cut or comes together with the message behind it. Without `off` in
  `AnsweredInTheEnd`: a page that took the verdict and that message in one receive waits
  for the message it threw away (`Game.xaml.cs:143`).

### Bounds

- `MaxGames`, `MaxRooms`: games started, rooms created in one run of the server.
  Two games are enough for one to follow another with the statics left as the
  first left them; the state of a third begins as that of the second does. Three
  rooms let a user leave one and be in another while a third is opened.
- `MaxLive`: games whose copies exist at once. With 1, games do not overlap, and
  the first change listed above shows what happens with 2.
- `MaxBusy`: threads inside a handler at once. With 1, requests are further apart
  than a handler takes, which is how people use the program; with 2, every
  pairwise interleaving of handlers is there, which is what the races of the
  hazards need. Three threads are covered by the theorems.
- `MaxUnread`: messages in anybody's stream when a user turns to something new. One
  is enough for a list to be read after the next change has begun, and for the
  message a host never reads; an exchange adds up to four more. Two rooms let a
  host open another after closing one, which is when that message is read.
- `MaxConnections`, `SocketNumber`: three connections at two numbers let a number
  be used again while another client is connected, and let a client that signed
  out come back; with more connections a number is only used again once more.
- `QuestionNos`, `Stock` of the quiz: games of one and of two questions have a first turn, a
  last turn, and a turn that is neither first nor last has the guards of a turn
  that is not the last. The client lets 0 to 10 questions through.
- `MaxRuns`, `MaxGames`, `MaxAnswers`, `QuestionNos` of `statistics`: two runs are one
  whose making is cut short, or one to play in, and one to come back to; games are for no
  question, for as many as there are and for one more; three games let one run
  have two and another one; three answers let two players tie and a third differ.
  `bestScores` needs a fourth user and nothing else.
- `QuestionNo`, `MayBeLate`, `MayMerge` of `gamePage`: two questions are a first and a
  last. One player may be late and swallow messages, one may swallow them, one does
  neither; `InStep` is about who suffers nothing beside the others.
- `Lengths`, `Numbers`, `Counts` of `exchange` lie at both ends of each field and past
  its end; `Ahead` cuts the stream after a code, inside a length and inside a text, and
  `Begins`, the codes of the requests, lets a cut fall where a request begins, once in
  each; `Ahead` also says where a reply may be cut, or a receive end within the next one;
  `Unwritten` has a digit and a letter, which is all a parser tells apart. The
  theorems are for any of these sets, so for cuts anywhere. `MaxDue = 2` lets a request
  arrive behind another in one receive (the request to leave a game).
- `Fallthrough = {TRUE}` where play is checked: with FALSE a player loses its game
  with its first early answer, and no game with two players works at all; the
  build the authors played with must return something else. Safety under either
  is checked in `races` and proved.
- `CHECK_DEADLOCK FALSE` everywhere: the bounded system stops when the games or
  rooms of the bound are used up, and the server stops when it crashes.

### Fairness

`GameEngine!Fairness` is weak fairness for each user of three things. `Continue`:
a thread inside a handler is scheduled. `Click`: a player answers the question it
sees. `HandleLeaveGame`:
the client that reads the end of a game sends the request to leave without being
asked. `Sessions!FairSpec` is weak fairness of each connection's thread.
`GamePage!FairSpec` is weak fairness of the handlers, of a player's click and of the
receives: threads are scheduled and players answer; no clock is assumed to run out or
not to. `Exchange!FairSpec` assumes that what was sent arrives, that both threads are
scheduled, and that `rand() % 4` takes every value again and again, which the loop of
`Question.cpp:17-25` rests on; nobody is assumed to send anything. Nothing is assumed of starting games or of losing connections. Safety runs
use `Spec`, without fairness.

## 4. What is proved

`GameEngineProofs` proves, for every set of users and every bound, with every
interleaving, timeout, failing statement, lost connection and fall-through:

- `TypeCorrect`: `Spec => []TypeOK`.
- `RecordedOnce`: `Spec => []RowsBelowIndex`.

`RowsBelowIndex` is not inductive: it speaks of threads that are idle or may still
judge an answer, and says nothing of a thread between recording an answer and
moving its copy. The inductive invariant `RowsInv` is the conjunction of
`TypeOK`, `JudgesInRange` (a thread that judges an answer holds a copy that has
the question), `RunsCounted` and `RowsCounted` (every copy and every row is of a
game that was started, so a new game has no rows), and `RowsBehind` (a copy's
index is never behind the rows of its owner, and is past them except in the steps
between the recording and the move). There is one lemma for each action, with a
step for each conjunct it can disturb.

It also proves, for every number of users, games and questions, of play in which
handlers do not overlap, nor games, no clock runs out and no connection is lost
(`Paced`, the constants of `orderly`; the list in section 3 shows that each of the first
three is needed; as for the last, the question of a player whose connection is lost is in
no stream, which is what `NoStall` denies):

- `TurnsEndTogether`: `Spec => []EveryoneAnswered`.
- `AnswersJudgedAsShown`: `Spec => []JudgedAsShown`.
- `PlayersNeverStall`: `Spec => []NoStall`.
- `PacedServerSurvives`: `Spec => []ServerUp`, when also no statement fails and games
  are started for no more questions than there are (`Stocked`; the run with
  `QuestionNos = {3}` shows why).
- `QuizImplemented`: every step is one step of `Quiz` or leaves it unchanged. Inserts
  may fail and questions may run out here.

None of these is inductive. The invariant, `PacedInv`, gives the phases of a game:
players wait (`Waiting`), an answer is handled (`Answering`), a question is sent
(`Sending`), the game is over (`Ended`) and is being left (`Leaving`), or nobody plays.
Each phase says of every player whether its copy is behind or ahead, and what is in its
stream, and that the static counter is the number of copies that are ahead
(one more between the increment and the end of the handler). So the counter reaches the
number of players when everyone's copy has moved, which is what `EveryoneAnswered`
comes to; and a step that maps to no step of `Quiz` stays within a phase.

`StatisticsProofs` proves, for every set of users, every stock of questions and every
number of runs, games and answers, wherever the server is killed:

- `StatisticsTyped`: `Spec => []TypeOK`.
- `RunsToldApart`: `Spec => []RunsApart`. `RunsApart` speaks of the rows of answers;
  that it is kept needs to be known of the games in memory, whose answers are still to
  come. The inductive invariant `RunsInv` adds that the rows of `t_games` after the
  count the server began with are those of this run and no row is of a later one
  (`RunsCounted`), that a game in memory has a row and a number among them
  (`GamesOfThisRun`), and that indices are in range (`IndexInRange`).
- `ScoreboardImplemented`: `Spec => ImplementsScoreboard` when no insert of an answer
  fails. On top of `RunsInv` the invariant `TallyInv` says that a player's rows of its
  game are behind its index, except the one whose result it waits for (`RowsBehind`,
  so a new row is new and the counts go up by one), and that what was told, or is about
  to be, is in the table (`ToldRecorded`). The assumption is needed: the run with
  failing inserts refutes it.
- `EndsAreWhole`: `Spec => []EndedInFull` when no insert of an answer fails, for any
  stock and any number of questions asked for. A player gets to the end of a game only
  with its answers in the table (`PlayedSoFar`), and a row is marked as ended by one who
  got there (`EndsPlayed`).
- `BoardsHonest`, `GamesShownWithin`: `Spec => []BoardHonest` and `Spec =>
  []GamesShownBetween`, whether inserts succeed or fail. Both speak of what the last
  step sent, so each holds of the step that sends it by `RunsInv` and by facts about
  finite sets: the best three are everybody if there are three, and the largest number
  of a user's games is at least the number of runs it answered in since a number is
  never used in two runs.

`LobbyProofs` proves, for every number of users and rooms, with any number of threads
inside handlers, clients that do not wait and connections that are lost:

- `LobbyTyped`: `Spec => []TypeOK`.
- `CountedAlways`: `Spec => []CountedWhereSeated`. The invariant `SeatInv` adds that
  whatever refers to a room refers to one that was made (`RoomsMade`), that there is
  space for every room still to be made (`NumbersDrawn`: rooms made and threads about to
  make one; the number on the counter is no measure of it, since increments are lost),
  that no thread holds a number past the bound (`SeenBelow`), and that a thread about to
  set its user's pointer has the user on the list (`OnTheList`).
- `HostsKeepTheServerUp`: `Spec => []ServerUp`. The invariant `HostInv` says of every
  user that waits for news, and whose client or handler may still follow its pointer,
  that the pointer leads to the room it made, or that a room on whose list it was a
  guest ended and took it (`HostSeated`); that whoever ends a room hosts it
  (`HostsItsOwn`, `Unlisting`), and that a room is made by who is at home (`MadeAtHome`),
  so that nobody's own start or close takes its pointer away in the middle.

It also proves, when handlers do not overlap, clients wait for news and
nobody is lost (`Paced`, the constants of `lobbyPaced`):

- `PagesAgree`: `Spec => []Agreement`.
- `StartErasesItsRoom`: `Spec => []ErasesItsRoom`. The counter is read and written, and
  the room made, with no other handler at work, so numbers are unique (`NumbersApart`).
- `PacedLobbyStaysUp`: no handler follows a null pointer.
- `RoomsImplemented`: `Spec => ImplementsRooms`, when no room is for nobody. A step of
  `Lobby` is the step of `Rooms` in which the pointer moves, the room opens or it ends.
  A room for 0 players is not what `Rooms` calls a room: the server compares the number
  of players with the capacity by `==`, so such a room never fills up. The client lets
  one through (`CreateRoom.xaml.cs:81-98`), and the other three theorems hold with it.

Their invariant `PacedInv` adds to `SeatInv` what the pages and the server agree on
between requests (`Inside`, `Outside`), what a listed room is (`ListedIsOpen`), and what
is known of the rooms whose start has begun and not ended (`Started`, `Working`).

`SessionsProofs` proves, for every number of clients, names, socket numbers and
connections, in every interleaving of their threads:

- `SessionsTyped`: `Spec => []TypeOK`.
- `ClientsRecognised`: `Spec => []Recognised`.
- `ConnectionsKept`: `Spec => []KeepsConnections`.
- `NamesSignedUpOnce`: `Spec => []SignedUpOnce`.
- `GoodbyesKeepTheServerUp`: `Spec => []ServerUp`.

The invariant `SessionsInv` has three parts beside the types. A socket number leads to
the last connection it was given to (`NumbersLead`), so a thread that uses it reaches
its own connection unless the number was given away. A client and its thread wait for
each other in turn (`InTouch`): as long as no thread of a lost connection knows the
client's number, nobody else writes to what they share. And a goodbye is deleted once,
by the thread of its connection (`Goodbyed`), so a free number has no user.

`GamePageProofs` proves, for every number of players and questions, with any clocks
running out and any receives returning several messages:

- `GamePageTyped`: `Spec => []TypeOK`.
- `PagesInStep`: `Spec => []InStep`.
- `ScoresKept`: `Spec => []ScoreKept`.

That a page never counts more than the server is not inductive: the invariant
(`Counted`) counts the replies to right answers that are still in the stream as well.
That pages are in step follows from `Played`: as long as no clock ran out, all players
are in one turn of the game (`InTurn`), each is asked or has answered (`Asked`,
`Answered`), with exactly the messages on their way that its place in the code is for,
or all have been sent the end (`Ends`). A player that took two messages for one is
known to wait forever (`Swallowed`), so it keeps the others waiting and harms nobody.

`RoomFeedProofs` proves, for every number of users and rooms and however much is
unread, when nobody is both host and guest and the unruly users are all on one side
(`Civil`; the changes of `feed` in section 3 show what happens with a patient user on
both sides, and with an unruly host beside an unruly guest):

- `RoomFeedTyped`: `Spec => []TypeOK`.
- `ClientsInStep`: `Spec => []InStep`.
- `ViewsCurrent`: `Spec => []ViewCurrent`.
- `ThreadsEnd`: `Spec => []ThreadEnds`.
- `QuestionsReached`: `Spec => []QuestionReached`.

The invariant `RoomFeedInv` lists the places a patient client can be at (`Place`): away
from any room, looking for one, arriving, creating, opening its page, seated, told that
the room is over, evicted, departing. Each place has exactly the messages that may be in
the stream there, so every receive is known to take what it is for; seated, any number
of lists may wait, and the last is right. What others send is kept from the other places
by `Undisturbed`: while a patient user waits for a message nobody else has anything to
send, and while somebody has, the patient others wait for nothing. The server's rooms
(`RoomsHold`) say who is told: a patient user is on the list of one open room, its own,
and no host is on another's. An unruly guest may be lost, but as long as it is not, it
does not leave a room that it has just entered because of news of its last one
(`Hasty`): the answer to its join comes once, between the two. Without it, its eviction
would take it out of a room in the middle of a patient user's exchange.
Before it was proved, TLC found no state that breaks `RoomFeedInv` in `feed` with
`Hosts = {h}`, with `Guests = {b}`, with two unruly hosts, and with four patient users.

`WireProofs` proves of the formats, for any values that fit their fields:

- `AtoiDigits`: `atoi` undoes `to_string`, for numbers of at most seven digits.
- `TakeValues`: a parser finds in what was written the values, each as its field has
  it, and nothing is left; for any number of fields and items, and for the list of best
  scores, which has no count and may end early.
- `MeaningKept`: the zeros that fill a field change nothing that is meant.

`Number`, `PutLast` and `TakeAll` are recursive functions, so what they compute for every
input takes an induction. The induction theorems of the library take an operator as a
parameter, which these provers cannot instantiate; the induction here is over a set
(`NatSet`: a set of numbers that has 0 and the next of each of its members is `Nat`),
which well-foundedness of `<` gives, and that such a function exists at all is proved
the same way (`NumberFcn`, `PutFcn`, `TakeFcn`).

`ExchangeProofs` proves, for names of up to 999 characters (ten times what their field
holds), numbers of up to six digits, numbers typed with any zeros, lists of up to 999
rooms, every cutting of the stream and any bytes that a short receive leaves, and
every way in which receives cut replies or run them together:

- `ExchangeTyped`: `Spec => []TypeOK`.
- `RequestsKept`: `Spec => []HandledAsSent`.
- `RepliesKept`: `Spec => []ShownAsBuilt`, which is about receives that find one reply;
  what `JudgedByText` says of a verdict holds of the others too.
- `AnswerJudged`: `Spec => []JudgedByText`.
- `KeptQuestion`: a question always fits its fields and the buffer, and is read as it was
  built.

`HandledAsSent` speaks of the step in which a request is handled, and is about everything
the stream went through before. The inductive invariant `IInv` says of the stream, as long
as `off` does not hold, that it is what is left of the request whose part is read, from
exactly that part on, and then the next request in full (`InSync`). A receive that finds
all it asked for takes that part and nothing of the next, so the request is complete when
its last part is read; a receive of no bytes leaves the stream where it was. Of the replies
it says that each is read as it was built (`ReadAsBuilt`, by `WireProofs` for each format
and whatever the handlers put in it) and that no more replies are on their way than the
page waits for (`Phase`): the client rests, or its request is on the way, or the questions
of its room are drawn, or the replies are on their way; two messages for an answer, of
which the second is the end of the game; two for a join that succeeded, one for a join that
failed. At most one request may be behind another, the one to leave, since the page that
reads the end of a game sends it without waiting. From the first question on, the page's
texts are those of the places that were drawn (`Ready`), so the number that is sent and the
place it is compared with are of one question.
Before it was proved, TLC found no state that breaks `IInv` in `exchange`.

The assumptions are those stated with the constants of each module: finite sets of
users and players, natural bounds, at least one question in a game. `NameAssumption` of
`Sessions` says that the name that stands for nobody is no user's. Whatever else a
theorem needs is in its statement, and a run or a change of one shows that it is needed.

Only model-checked:

- Liveness, which these provers do not reach: `GamesEnd`, the fairness of
  `ImplementsQuiz`, `SessionsEnd`, `CalmGamesEnd`, `AnsweredInTheEnd`.
- `RoomFeed` with an unruly user who is both host and guest, which is the run `feed`.
- Findings: a violation is a behaviour, which a run shows.

## 5. What is not modelled

- The copy constructor of `Game` assigns the static counter to itself
  (`Game.cpp:46-56`); the lost update this could cause is that of the increment.
- `std::vector` operations of two threads on one room are atomic here. In the code
  they are a data race.
- A broadcast is one step. Its receivers do not answer within it.
- The page of the game offers no way to leave a running game, so
  `HandleLeaveGame` follows the end of one. The server's handler would take a
  leave at any time.
- In `GameEngine`, `Statistics` and `GamePage` whether an answer is right is a choice of
  the player; `Exchange` has the shuffle and the judgement.
- Messages are delivered whole in every module but `Exchange`, and one at a time in
  every module but `RoomFeed`, `GamePage` and `Exchange`. `RoomFeed` and `GamePage` have
  what becomes of a receive that returns several messages; `Exchange` has that and what
  becomes of one that returns less, for requests and for replies.
- `Exchange` follows a side that was led astray, or a client whose receive found
  something else than one reply, to the end of the message it is at, and no further.
- Some messages are not among those of `Exchange`: 207 is sent in `RoomFeed`; 201, 211, 215 and 299, 112 and 116 are in
  `Sessions` and `RoomFeed`; the refusal of a room (1141) needs a second user and is in
  `Lobby`. The client removes the two characters `/0` from what it receives
  (`Classes.cs:92`); no text of the model has them.
- Time is a choice: the time an answer took, and its average on the status page, are
  left out; a clock may run out whenever it runs.
- `Lobby` leaves out the lists of rooms and of users, which change nothing: a list
  that was read before and is stale is modelled by letting a client join any room
  that was ever made. `RoomFeed` has them.
- `RoomFeed` does not say what the lost connection of a client that has thrown does
  to its room: that is `Vanish` in `Lobby`.
- A click on a page whose clock ran out may read the next question as the reply to
  its answer and leave the page stuck (`GamePage` has it); `GameEngine` lets such a
  client go on, so it has more behaviours than the program there.
- `Statistics` lets each player answer when it likes: that players wait for one another
  is `GameEngine`'s. `SELECT` and `UPDATE` are modelled by what they return and change;
  a statement of the queries that fails is not modelled.
- `GamePage` handles one answer at a time on the server.
- The rule for passwords is a choice of the client (`good`), as is whether a
  password is the right one. The forgotten password changes nothing.
- Requests of the lobby and of games are left out of `Sessions`: there they are
  what fails when a connection is lost.
- Windows, themes, navigation, process start, sockets. SQLite (`sqlite3.c`, 202 thousand
  lines) is third-party code in the repository: what the server uses of it is modelled
  by the statements the server issues. A share of all lines of the repository is for
  this reason a share of SQLite.

## 6. Plan

Order: the quiz engine first, since all the program is for it; then the rooms that
lead to it; then the sessions that lead to those.

1. `Quiz`, `GameEngine`, proofs of its types and of `RowsBelowIndex` (done).
2. `Rooms`, `Lobby` (done).
3. `Sessions`, with sign-up (done), and `RoomFeed` (done).
4. `Scoreboard`, `Statistics`, proofs of its types, of `RunsApart`, of the refinement
   and of `EndedInFull` (done).
5. `GamePage` (done); `Wire`, `Exchange` (done).
6. Proofs of paced play and of the refinement of `Quiz` (done); of `Lobby`, its paced
   play and the refinement of `Rooms` (done); of `Sessions` (done); of `GamePage`
   (done); of what `Statistics` shows (done).
7. Proofs of `RoomFeed`: types, and `InStep`, `ThreadEnds`, `ViewCurrent` and
   `QuestionReached` for every number of users (done).
8. Proofs of `Wire` and `Exchange` (done): every invariant that a passing run checks is
   now stated by a theorem; what is left to TLC is listed at the end of section 4.
