-------------------------------- MODULE Lobby --------------------------------
(***************************************************************************)
(* The rooms of the server: the create, join, leave, close and start       *)
(* handlers of TriviaServer.cpp with what they call on User and Room, and  *)
(* the pages of the client that send those requests.                       *)
(*                                                                         *)
(* Handlers of different clients run in threads of their own with no lock  *)
(* on the list of rooms, the room number or the rooms.  A handler is cut   *)
(* where another thread can change what it has read: within the increment  *)
(* of the room number and after it, after the room is looked up, between   *)
(* the list of players and the user's own pointer, and before the room is  *)
(* taken off the list.                                                     *)
(*                                                                         *)
(* Room objects are never deleted; they are numbered as they are made.     *)
(***************************************************************************)
EXTENDS Naturals, FiniteSets, Sequences, SequencesExt

CONSTANTS
  User,        \* the signed-in users, each with one client and one thread
  MaxRooms,    \* bound: rooms made in one run of the server
  MaxUsersOf,  \* the numbers of players a room may be created for
  MaxBusy,     \* bound: threads inside a handler at once (1: requests are
               \* further apart than a handler takes)
  Hasty,       \* users whose clients act on a room without waiting for news
               \* of it
  MayVanish    \* users whose connection may be lost

ASSUME LobbyAssumption ==
  /\ IsFiniteSet(User) /\ MaxRooms \in Nat /\ MaxBusy \in Nat
  /\ MaxUsersOf \subseteq Nat /\ Hasty \subseteq User /\ MayVanish \subseteq User

VARIABLES
  roomIdSequence,  \* TriviaServer::_roomIdSequence
  rooms,           \* the Room objects made so far
  roomsList,       \* TriviaServer::_roomsList: key to object, or NoRoom
  currRoom,        \* User::_currRoom
  inGame,          \* User::_currGame is not null
  pc,              \* where each user's thread is
  target,          \* the room its handler works on
  seen,            \* the number its _roomIdSequence++ has read
  players,         \* Game::_players of the game its handler starts; nobody in a close
  page,            \* the page of each client
  news,            \* what a client has been sent about its room and not read
  gone,            \* users whose connection is lost
  crashedBy,       \* history: the user whose request ended the server process
  takenBy          \* history: the room whose end took a user's pointer away since
                   \* it last made a room

registry == <<roomIdSequence, rooms, roomsList>>
users == <<currRoom, inGame>>
threads == <<pc, target, seen, players>>
clients == <<page, news, gone>>
history == <<crashedBy, takenBy>>
vars == <<registry, users, threads, clients, history>>

-----------------------------------------------------------------------------
NoRoom == 0
Objects == 1 .. MaxRooms

Room == [id : Nat, admin : User, maxUsers : Nat, users : Seq(User)]

Steps == {"idle", "number", "build", "register", "enter", "setRoom", "unlist"}
Pages == {"home", "hosting", "waiting", "game"}
News == {"none", "closed", "question"}

up == crashedBy = {}  \* the server process is alive

Busy == {u \in User : pc[u] # "idle"}

\* u's thread is in recv and u's client is on page p
Request(u, p) == /\ up
                 /\ pc[u] = "idle"
                 /\ u \notin gone
                 /\ Cardinality(Busy) < MaxBusy
                 /\ page[u] = p

\* u's client knows what became of its room, or does not wait to know.
Informed(u) == u \in Hasty \/ news[u] = "none"

Goto(u, step) == pc' = [pc EXCEPT ![u] = step]
Show(u, p) == page' = [page EXCEPT ![u] = p]

\* A send to somebody in s throws.
Throws(s) == \E i \in 1 .. Len(s) : s[i] \in gone

\* The exception ends the thread of u: the socket is closed, and the User
\* object stays wherever it is referred to.
Disconnect(u) == gone' = gone \cup {u} /\ Goto(u, "idle")

Crash(u) == crashedBy' = {u} /\ UNCHANGED <<registry, users, threads, clients, takenBy>>

-----------------------------------------------------------------------------
\* handleCreateRoom: the static counter is read ...
CreateRoom(u) ==
  /\ Request(u, "home")
  /\ roomIdSequence < MaxRooms
  /\ Len(rooms) + Cardinality({v \in User : pc[v] \in {"number", "build"}}) < MaxRooms
  /\ seen' = [seen EXCEPT ![u] = roomIdSequence]
  /\ Goto(u, "number")
  /\ UNCHANGED <<registry, users, target, players, clients, history>>

NextIdTwice(u) == roomIdSequence + 2  \* moved on twice, and read again in between

\* the number of rooms on the list, which may be in use
NextIdByCount(u) == Cardinality({k \in Objects : roomsList[k] # NoRoom}) + 1

NextId(u) == seen[u] + 1

\* ... and written, over what another thread may have written since ...
NumberRoom(u) ==
  /\ up /\ pc[u] = "number"
  /\ roomIdSequence' = NextId(u)
  /\ Goto(u, "build")
  /\ UNCHANGED <<rooms, roomsList, users, target, seen, players, clients, history>>

\* ... and read again for User::createRoom, which fails for a user with a room
\* (the check of a game is missing) and otherwise draws the questions, which
\* takes the database's time ...
BuildRoom(u) ==
  /\ up /\ pc[u] = "build"
  /\ \/ /\ currRoom[u] # NoRoom
        /\ Goto(u, "idle")
        /\ UNCHANGED <<rooms, currRoom, target, takenBy>>
     \/ /\ currRoom[u] = NoRoom
        /\ \E m \in MaxUsersOf :
             rooms' = Append(rooms, [id |-> roomIdSequence, admin |-> u,
                                     maxUsers |-> m, users |-> <<u>>])
        /\ currRoom' = [currRoom EXCEPT ![u] = Len(rooms')]
        /\ target' = [target EXCEPT ![u] = Len(rooms')]
        /\ takenBy' = [takenBy EXCEPT ![u] = NoRoom]
        /\ Goto(u, "register")
  /\ UNCHANGED <<roomIdSequence, roomsList, inGame, seen, players, clients, crashedBy>>

\* ... and read a third time for the key, as is the user's pointer to the room:
\* once for the list, of which std::map::insert leaves a key that is taken alone,
\* and once for the id in the reply, where a pointer that a start or a close took
\* away in between is followed all the same.
RegisterRoom(u) ==
  LET o == currRoom[u] IN
  /\ up /\ pc[u] = "register"
  /\ \/ o = NoRoom /\ Crash(u)
     \/ /\ o # NoRoom
        /\ roomsList' = [roomsList EXCEPT ![roomIdSequence] = IF @ = NoRoom THEN o ELSE @]
        /\ Goto(u, "idle")
        /\ Show(u, "hosting")
        /\ news' = [news EXCEPT ![u] = "none"]
        /\ UNCHANGED <<roomIdSequence, rooms, users, target, seen, players, gone, history>>

\* getRoomById searches the listed rooms, in order of key, for their own id.
RoomById(id) ==
  LET keys == {k \in Objects : /\ roomsList[k] # NoRoom
                               /\ rooms[roomsList[k]].id = id}
  IN  IF keys = {} THEN NoRoom
      ELSE roomsList[CHOOSE k \in keys : \A j \in keys : k <= j]

FullLate(o) == Len(rooms[o].users) > rooms[o].maxUsers  \* lets one in too many

Full(o) == Len(rooms[o].users) = rooms[o].maxUsers

\* handleJoinRoom up to the reply, for a room the client has seen listed.
JoinRoom(u) ==
  /\ Request(u, "home")
  /\ \E o \in DOMAIN rooms :
       LET r == RoomById(rooms[o].id)
       IN  /\ r # NoRoom /\ ~Full(r)
           /\ target' = [target EXCEPT ![u] = r]
  /\ Goto(u, "enter")
  /\ UNCHANGED <<registry, users, seen, players, clients, history>>

\* User::joinRoom and Room::joinRoom: the list of players grows and is sent to
\* all of it.  A user with a game is left out, though its client was told yes.
EnterRoom(u) ==
  LET o == target[u]
      joined == Append(rooms[o].users, u)
  IN
  /\ up /\ pc[u] = "enter"
  /\ \/ /\ inGame[u]
        /\ Goto(u, "idle")
        /\ Show(u, "waiting")
        /\ UNCHANGED <<rooms, gone>>
     \/ /\ ~inGame[u]
        /\ rooms' = [rooms EXCEPT ![o].users = joined]
        /\ IF Throws(joined)
             THEN Disconnect(u) /\ UNCHANGED page
             ELSE Goto(u, "setRoom") /\ UNCHANGED <<page, gone>>
  /\ UNCHANGED <<roomIdSequence, roomsList, users, target, seen, players, news, history>>

SetRoom(u) ==
  /\ up /\ pc[u] = "setRoom"
  /\ currRoom' = [currRoom EXCEPT ![u] = target[u]]
  /\ Goto(u, "idle")
  /\ Show(u, "waiting")
  /\ UNCHANGED <<registry, inGame, target, seen, players, news, gone, history>>

LeftFirst(o, u) == Tail(rooms[o].users)  \* erases the first, not the one located

Left(o, u) == RemoveFirst(rooms[o].users, u)

\* handleLeaveRoom.  The client leaves its page when it likes, and when it is
\* told that the room closed; it does not wait for a reply.
LeaveRoom(u) ==
  LET o == currRoom[u]
      left == Left(o, u)
  IN
  /\ Request(u, "waiting")
  /\ Informed(u) \/ news[u] = "closed"
  /\ Show(u, "home")
  /\ news' = [news EXCEPT ![u] = "none"]
  /\ \/ /\ o = NoRoom
        /\ UNCHANGED <<rooms, currRoom, pc, gone>>
     \/ /\ o # NoRoom
        /\ rooms' = [rooms EXCEPT ![o].users = left]
        /\ IF Throws(left)
             THEN Disconnect(u) /\ UNCHANGED currRoom
             ELSE currRoom' = [currRoom EXCEPT ![u] = NoRoom] /\ UNCHANGED <<pc, gone>>
  /\ UNCHANGED <<roomIdSequence, roomsList, inGame, target, seen, players, history>>

\* stops one player early
ReachedButLast(s) == {v \in User : \E i \in 1 .. Len(s) - 1 :
                        s[i] = v /\ \A j \in 1 .. i : s[j] \notin gone}

\* The players told before the first send that throws
Reached(s) == {v \in User : \E i \in 1 .. Len(s) :
                 s[i] = v /\ \A j \in 1 .. i : s[j] \notin gone}

\* Room::closeRoom: each player in turn is told and loses its pointer; when a
\* send throws, the rest keep theirs and the room stays on the list.
CloseRoom(u) ==
  LET o == currRoom[u]
      told == Reached(rooms[o].users)
  IN
  /\ Request(u, "hosting")
  /\ Informed(u)
  /\ \/ o = NoRoom /\ Crash(u)
     \/ /\ o # NoRoom
        /\ currRoom' = [v \in User |-> IF v \in told THEN NoRoom ELSE currRoom[v]]
        /\ takenBy' = [v \in User |-> IF v \in told THEN o ELSE takenBy[v]]
        /\ news' = [v \in User |-> IF v \in told \ {u} THEN "closed" ELSE news[v]]
        /\ Show(u, "home")
        /\ target' = [target EXCEPT ![u] = o]
        /\ players' = [players EXCEPT ![u] = {}]
        /\ IF Throws(rooms[o].users)
             THEN Disconnect(u)
             ELSE Goto(u, "unlist") /\ UNCHANGED gone
        /\ UNCHANGED <<registry, inGame, seen, crashedBy>>

\* handleStartGame and the Game constructor: the list of players is copied, and
\* every one of them gets the game and loses its pointer to a room.
StartGame(u) ==
  LET o == currRoom[u]
      listed == ToSet(rooms[o].users)
  IN
  /\ Request(u, "hosting")
  /\ Informed(u)
  /\ \/ o = NoRoom /\ Crash(u)
     \/ /\ o # NoRoom
        /\ currRoom' = [v \in User |-> IF v \in listed THEN NoRoom ELSE currRoom[v]]
        /\ takenBy' = [v \in User |-> IF v \in listed THEN o ELSE takenBy[v]]
        /\ inGame' = [v \in User |-> inGame[v] \/ v \in listed]
        /\ target' = [target EXCEPT ![u] = o]
        /\ players' = [players EXCEPT ![u] = listed]
        /\ Goto(u, "unlist")
        /\ UNCHANGED <<registry, seen, clients, crashedBy>>

AskedButHost(u) == players[u] \ (gone \cup {u})

\* Who gets the first question of the game that u starts: who was on the list when
\* the game copied it
Asked(u) == players[u] \ gone

\* _roomsList.erase(roomId), and the first question when a game starts.
Unlist(u) ==
  /\ up /\ pc[u] = "unlist"
  /\ roomsList' = [roomsList EXCEPT ![rooms[target[u]].id] = NoRoom]
  /\ news' = [v \in User |-> IF v \in Asked(u) THEN "question" ELSE news[v]]
  /\ Goto(u, "idle")
  /\ UNCHANGED <<roomIdSequence, rooms, users, target, seen, players, page, gone, history>>

\* RoomPage.HandlePlayers reads the first question and turns to the game page.
ReadQuestion(u) ==
  /\ up /\ u \notin gone /\ pc[u] = "idle"
  /\ news[u] = "question"
  /\ page[u] \in {"hosting", "waiting"}
  /\ Show(u, "game")
  /\ news' = [news EXCEPT ![u] = "none"]
  /\ UNCHANGED <<registry, users, threads, gone, history>>

\* The game ends for u and its client goes home (GameEngine has the details).
\* setGame takes the pointer to a room with the game; for a user without a game,
\* User::leaveGame returns anything and so setGame may be called or not.
FinishGame(u) ==
  /\ Request(u, "game")
  /\ Show(u, "home")
  /\ inGame' = [inGame EXCEPT ![u] = FALSE]
  /\ \/ currRoom' = [currRoom EXCEPT ![u] = NoRoom]
     \/ ~inGame[u] /\ UNCHANGED currRoom
  /\ UNCHANGED <<registry, threads, news, gone, history>>

\* A connection is lost.  handleSignout forgets the socket, not the room.
Vanish(u) ==
  /\ up
  /\ u \in MayVanish \ gone
  /\ gone' = gone \cup {u}
  /\ UNCHANGED <<registry, users, threads, page, news, history>>

-----------------------------------------------------------------------------
Init ==
  /\ roomIdSequence = 0
  /\ rooms = <<>>
  /\ roomsList = [k \in Objects |-> NoRoom]
  /\ currRoom = [u \in User |-> NoRoom]
  /\ inGame = [u \in User |-> FALSE]
  /\ pc = [u \in User |-> "idle"]
  /\ target = [u \in User |-> NoRoom]
  /\ seen = [u \in User |-> 0]
  /\ players = [u \in User |-> {}]
  /\ page = [u \in User |-> "home"]
  /\ news = [u \in User |-> "none"]
  /\ gone = {}
  /\ crashedBy = {}
  /\ takenBy = [u \in User |-> NoRoom]

Next == \E u \in User :
          \/ CreateRoom(u) \/ NumberRoom(u) \/ BuildRoom(u) \/ RegisterRoom(u)
          \/ JoinRoom(u) \/ EnterRoom(u) \/ SetRoom(u)
          \/ LeaveRoom(u) \/ CloseRoom(u) \/ StartGame(u) \/ Unlist(u)
          \/ ReadQuestion(u) \/ FinishGame(u) \/ Vanish(u)

Spec == Init /\ [][Next]_vars

-----------------------------------------------------------------------------
(* Properties *)

\* Every variable keeps its type.
TypeOK ==
  /\ roomIdSequence \in 0 .. MaxRooms
  /\ rooms \in Seq(Room) /\ Len(rooms) <= MaxRooms
  /\ roomsList \in [Objects -> Nat]
  /\ currRoom \in [User -> Nat]
  /\ inGame \in [User -> BOOLEAN]
  /\ pc \in [User -> Steps]
  /\ target \in [User -> Nat]
  /\ seen \in [User -> 0 .. MaxRooms]
  /\ players \in [User -> SUBSET User]
  /\ page \in [User -> Pages]
  /\ news \in [User -> News]
  /\ gone \subseteq User
  /\ crashedBy \subseteq User
  /\ takenBy \in [User -> Nat]

Listed(o) == \E k \in Objects : roomsList[k] = o

\* Server and client agree between requests.  A user's pointer leads to a listed
\* room that counts it as a player; whoever is at home can go anywhere, having
\* neither a room nor a game; whoever is told nothing and sits in a room has it.
Agreement ==
  Busy = {} => \A u \in User :
    LET o == currRoom[u] IN
    /\ o # NoRoom => Listed(o) /\ u \in ToSet(rooms[o].users)
    /\ page[u] = "home" => o = NoRoom /\ ~inGame[u]
    /\ (page[u] \in {"hosting", "waiting"} /\ news[u] = "none") => o # NoRoom

\* Whatever interleaves and whoever is lost, the room a connected user's pointer
\* leads to has that user in its list of players: it will be told of its game.
CountedWhereSeated ==
  \A u \in User \ gone :
    currRoom[u] # NoRoom => u \in ToSet(rooms[currRoom[u]].users)

\* u is on the list of a room that another user opened.
Guest(u, o) == o \in DOMAIN rooms /\ rooms[o].admin # u /\ u \in ToSet(rooms[o].users)

\* No interleaving makes a handler follow a null pointer to a room for a host that
\* waits for news of its room before it acts on it again, unless another user's
\* room, on whose list it was left behind, ended since it made its own and took its
\* pointer along.  Its own close and its own start never do: it is home, or has its
\* question, before its client can ask for anything.
ServerUp == \A u \in crashedBy \ Hasty : Guest(u, takenBy[u])

\* TriviaServer.cpp:253, "erase the room": what a start takes off the list is the
\* room it starts.
ErasesItsRoom ==
  \A u \in User : (pc[u] = "unlist" /\ players[u] # {}) => roomsList[rooms[target[u]].id] = target[u]

RoomsView == INSTANCE Rooms WITH
  Person     <- User,
  RoomName   <- Objects,
  Capacities <- MaxUsersOf,
  room       <- [o \in Objects |->
                   IF Listed(o)
                     THEN [host |-> {rooms[o].admin}, capacity |-> rooms[o].maxUsers,
                           members |-> ToSet(rooms[o].users)]
                     ELSE [host |-> {}, capacity |-> 0, members |-> {}]]

\* When requests are paced the listed rooms are those of the abstract lobby:
\* opened by one, joined while there is space, left one by one, ended for all
\* at once, and nobody in two of them.
ImplementsRooms == RoomsView!Spec

=============================================================================
