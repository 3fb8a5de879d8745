------------------------------- MODULE RoomFeed -------------------------------
(***************************************************************************)
(* What a client reads about its room.  The server answers requests and    *)
(* sends news of the room on one stream of bytes; the client's pages take  *)
(* from it by counting: one receive after a request is its answer, one     *)
(* more is thrown away (RoomPage.FFlush), and what follows belongs to the  *)
(* thread of the room page (HandlePlayers).  Nothing in the client matches *)
(* an answer with its request.                                             *)
(*                                                                         *)
(* Lobby has the finer steps of the server's handlers and the lost         *)
(* connections; here a handler is cut only between its sends, and rooms    *)
(* never fill up.                                                          *)
(***************************************************************************)
EXTENDS Naturals, FiniteSets, Sequences

CONSTANTS
  User,       \* the signed-in users, each with one client
  Hosts,      \* users that open rooms
  Guests,     \* users that look for rooms to join
  Unruly,     \* users that turn pages before the thread of the last one has
              \* ended, and whose receives may return several messages at once
  MaxRooms,   \* bound: rooms opened in one run of the server
  MaxUnread   \* bound: messages in a stream when a user begins something

ASSUME RoomFeedAssumption ==
  /\ IsFiniteSet(User)
  /\ Hosts \subseteq User /\ Guests \subseteq User /\ Unruly \subseteq User
  /\ MaxRooms \in Nat /\ MaxUnread \in Nat

VARIABLES
  rooms,      \* the rooms opened so far
  currRoom,   \* User::_currRoom
  pc,         \* the request each user's server thread has, and how far it is
  target,     \* the room that request names, Session's Room.Id
  known,      \* the list handleGetUsersInRoom has built
  stream,     \* what each client has been sent and not received
  page,       \* the page of each client
  ui,         \* what the thread of its window waits for
  role,       \* Session.CurrentUser.GetRoom(): none, or ours with IsAdmin
  listening,  \* HandlePlayers runs
  shown,      \* the rooms on the page that lists them
  view        \* the players on the room page

server == <<rooms, currRoom>>
threads == <<pc, target, known>>
client == <<page, ui, role, listening, shown, view>>
vars == <<server, threads, stream, client>>

-----------------------------------------------------------------------------
NoRoom == 0
Objects == 1 .. MaxRooms
Room == [admin : User, users : SUBSET User, open : BOOLEAN]

Kinds == {"rooms", "created", "refused", "joined", "users", "none",
          "left", "closed", "question"}
Messages == [kind : Kinds, rooms : SUBSET Objects, users : SUBSET User]

Message(kind) == [kind |-> kind, rooms |-> {}, users |-> {}]
RoomsMessage(os) == [kind |-> "rooms", rooms |-> os, users |-> {}]
UsersMessage(us) == [kind |-> "users", rooms |-> {}, users |-> us]

Steps == {"idle", "rooms", "create", "join", "enter", "users", "again",
          "leave", "close", "start"}
Pages == {"home", "browsing", "room", "game", "failed", "lost"}
Waits == {"free", "rooms", "create", "stray", "join", "greeting", "ask",
          "users", "flush", "evicted"}

Listed(o) == o \in DOMAIN rooms /\ rooms[o].open
Goto(u, step) == pc' = [pc EXCEPT ![u] = step]
Await(u, what) == ui' = [ui EXCEPT ![u] = what]
Show(u, p) == page' = [page EXCEPT ![u] = p]

\* Everyone in us is sent msg; nobody follows the stream of a lost client.
SendTo(us, msg) ==
  stream' = [v \in User |-> IF v \in us /\ page[v] # "lost"
                              THEN Append(stream[v], msg) ELSE stream[v]]

\* A user turns to something new at human speed: when its own window is free,
\* while no patient user is in the middle of anything, and, if patient itself,
\* when its room page is up to date and no thread of the server is at work.
Begin(u, step) ==
  /\ pc[u] = "idle" /\ ui[u] = "free" /\ page[u] # "lost"
  /\ \A v \in User : Len(stream[v]) <= MaxUnread
  /\ \A v \in User \ Unruly : ui[v] = "free" /\ pc[v] = "idle"
  /\ u \notin Unruly => /\ listening[u] => stream[u] = <<>>
                       /\ \A v \in User : pc[v] = "idle"
  /\ Goto(u, step)

\* The pages that a user turns to another page from
Menu == {"home", "browsing", "failed"}

Undistracted(u) == u \in Unruly \/ ~listening[u]

\* How many messages one receive returns; the pages look at the first only.
Received(u) == {n \in 1 .. Len(stream[u]) : n = 1 \/ u \in Unruly}
Take(u, k) == stream' = [stream EXCEPT ![u] = SubSeq(@, k + 1, Len(@))]

\* Session.CurrentUser.SetRoom(null), as the room page is left.
Forget(u) ==
  /\ role' = [role EXCEPT ![u] = "none"]
  /\ view' = [view EXCEPT ![u] = {}]

\* A page took what was not for it: it throws, or shows what nobody sent.  The
\* model follows that client no further.
Lose(u) ==
  /\ Show(u, "lost") /\ Await(u, "free")
  /\ listening' = [listening EXCEPT ![u] = FALSE]
  /\ stream' = [stream EXCEPT ![u] = <<>>]
  /\ shown' = [shown EXCEPT ![u] = {}] /\ view' = [view EXCEPT ![u] = {}]
  /\ UNCHANGED role

-----------------------------------------------------------------------------
(* The page that lists the rooms, and joining one *)

\* JoinRoom.InitializeRooms asks for the rooms.
OpenRooms(u) ==
  /\ u \in Guests /\ page[u] \in Menu /\ Undistracted(u)
  /\ Begin(u, "rooms") /\ Await(u, "rooms") /\ Show(u, "browsing")
  /\ shown' = [shown EXCEPT ![u] = {}]
  /\ UNCHANGED <<server, target, known, stream, role, listening, view>>

HandleGetRooms(u) ==
  /\ pc[u] = "rooms"
  /\ SendTo({u}, RoomsMessage({o \in Objects : Listed(o)}))
  /\ Goto(u, "idle")
  /\ UNCHANGED <<server, target, known, client>>

\* Whatever cannot be read as a list of rooms throws, and InitializeRooms
\* swallows it: the page stays empty.
ReadRooms(u) ==
  /\ ui[u] = "rooms"
  /\ \E k \in Received(u) : Take(u, k)
  /\ shown' = [shown EXCEPT ![u] = Head(stream[u]).rooms]
  /\ Await(u, "free")
  /\ UNCHANGED <<server, threads, page, role, listening, view>>

JoinRoom(u) ==
  /\ page[u] = "browsing"
  /\ \E o \in shown[u] : target' = [target EXCEPT ![u] = o]
  /\ Begin(u, "join") /\ Await(u, "join")
  /\ UNCHANGED <<server, known, stream, page, role, listening, shown, view>>

\* handleJoinRoom answers ...
HandleJoinRoom(u) ==
  /\ pc[u] = "join"
  /\ SendTo({u}, Message(IF Listed(target[u]) THEN "joined" ELSE "refused"))
  /\ Goto(u, IF Listed(target[u]) THEN "enter" ELSE "idle")
  /\ UNCHANGED <<server, target, known, client>>

\* the list as it was before the newcomer
NewcomerMissing(us, u) == us

WithNewcomer(us, u) == us \cup {u}

\* ... and then enters the user, which sends the new list to all players.
EnterRoom(u) ==
  LET o == target[u]
      users == rooms[o].users \cup {u}
  IN  /\ pc[u] = "enter"
      /\ rooms' = [rooms EXCEPT ![o].users = users]
      /\ currRoom' = [currRoom EXCEPT ![u] = o]
      /\ SendTo(users, UsersMessage(WithNewcomer(rooms[o].users, u)))
      /\ Goto(u, "idle")
      /\ UNCHANGED <<target, known, client>>

\* JoinRoomButton_Click takes the answer, and then one message to dispose of.
ReadJoined(u) ==
  /\ ui[u] = "join"
  /\ \E k \in Received(u) :
       \/ /\ Head(stream[u]).kind \in {"joined", "refused"}
          /\ Take(u, k)
          /\ Await(u, IF Head(stream[u]).kind = "joined" THEN "greeting" ELSE "free")
          /\ UNCHANGED <<page, role, listening, shown, view>>
       \/ Head(stream[u]).kind \notin {"joined", "refused"} /\ Lose(u)
  /\ UNCHANGED <<server, threads>>

ReadGreeting(u) ==
  /\ ui[u] = "greeting"
  /\ \E k \in Received(u) :
       \/ /\ Head(stream[u]).kind = "users"
          /\ Take(u, k)
          /\ role' = [role EXCEPT ![u] = "member"]
          /\ shown' = [shown EXCEPT ![u] = {}]
          /\ Await(u, "ask")
          /\ UNCHANGED <<page, listening, view>>
       \/ Head(stream[u]).kind # "users" /\ Lose(u)
  /\ UNCHANGED <<server, threads>>

-----------------------------------------------------------------------------
(* Opening a room *)

CreateRoom(u) ==
  /\ u \in Hosts /\ page[u] \in Menu /\ Undistracted(u)
  /\ currRoom[u] = NoRoom =>
       Len(rooms) + Cardinality({v \in User : pc[v] = "create"}) < MaxRooms
  /\ Begin(u, "create") /\ Await(u, "create")
  /\ UNCHANGED <<server, target, known, stream, page, role, listening, shown, view>>

OldId == Len(rooms)  \* the number before it was moved

NewId == Len(rooms) + 1

\* handleCreateRoom.  The answer carries the number of the room.
HandleCreateRoom(u) ==
  /\ pc[u] = "create"
  /\ \/ /\ currRoom[u] = NoRoom
        /\ rooms' = Append(rooms, [admin |-> u, users |-> {u}, open |-> TRUE])
        /\ currRoom' = [currRoom EXCEPT ![u] = Len(rooms')]
        /\ SendTo({u}, [Message("created") EXCEPT !.rooms = {NewId}])
     \/ /\ currRoom[u] # NoRoom
        /\ SendTo({u}, Message("refused"))
        /\ UNCHANGED <<rooms, currRoom>>
  /\ Goto(u, "idle")
  /\ UNCHANGED <<target, known, client>>

\* CreateRoom.HandleCreateRoom.  A message that says that a room closed, alone,
\* is passed over once; anything else but success shows a failure.
ReadCreated(u) ==
  /\ ui[u] \in {"create", "stray"}
  /\ \E k \in Received(u) :
       LET first == Head(stream[u])
           passedOver == ui[u] = "create" /\ first.kind = "closed" /\ k = 1
       IN
       /\ Take(u, k)
       /\ \/ /\ passedOver
             /\ Await(u, "stray")
             /\ UNCHANGED <<target, page, role>>
          \/ /\ ~passedOver /\ first.kind = "created"
             /\ \E o \in first.rooms : target' = [target EXCEPT ![u] = o]
             /\ role' = [role EXCEPT ![u] = "admin"]
             /\ Await(u, "ask")
             /\ UNCHANGED page
          \/ /\ ~passedOver /\ first.kind # "created"
             /\ Show(u, "failed")
             /\ Await(u, "free")
             /\ UNCHANGED <<target, role>>
  /\ UNCHANGED <<server, pc, known, listening, shown, view>>

-----------------------------------------------------------------------------
(* The room page *)

\* RoomPage.InitiateDetails asks for the players as the page opens.
AskUsers(u) ==
  /\ ui[u] = "ask" /\ pc[u] = "idle"
  /\ Goto(u, "users") /\ Await(u, "users")
  /\ UNCHANGED <<server, target, known, stream, page, role, listening, shown, view>>

\* handleGetUsersInRoom sends the list, and then the list again with a zero
\* appended to it; of a room that is not listed, only the zero.
HandleGetUsers(u) ==
  /\ pc[u] = "users"
  /\ \/ /\ Listed(target[u])
        /\ known' = [known EXCEPT ![u] = rooms[target[u]].users]
        /\ SendTo({u}, UsersMessage(rooms[target[u]].users))
        /\ Goto(u, "again")
     \/ /\ ~Listed(target[u])
        /\ SendTo({u}, Message("none"))
        /\ Goto(u, "idle")
        /\ UNCHANGED known
  /\ UNCHANGED <<server, target, client>>

SendUsersAgain(u) ==
  /\ pc[u] = "again"
  /\ SendTo({u}, UsersMessage(known[u]))
  /\ known' = [known EXCEPT ![u] = {}]
  /\ Goto(u, "idle")
  /\ UNCHANGED <<server, target, client>>

ReadUsers(u) ==
  /\ ui[u] = "users"
  /\ \E k \in Received(u) :
       \/ /\ Head(stream[u]).kind = "users"
          /\ Take(u, k)
          /\ view' = [view EXCEPT ![u] = Head(stream[u]).users]
          /\ Await(u, "flush")
          /\ UNCHANGED <<page, role, listening, shown>>
       \/ Head(stream[u]).kind # "users" /\ Lose(u)
  /\ UNCHANGED <<server, threads>>

\* FFlush throws one message away, whatever it is, and HandlePlayers starts.
Flush(u) ==
  /\ ui[u] = "flush"
  /\ \E k \in Received(u) : Take(u, k)
  /\ listening' = [listening EXCEPT ![u] = TRUE]
  /\ Await(u, "free") /\ Show(u, "room")
  /\ UNCHANGED <<server, threads, role, shown, view>>

\* HandlePlayers.  A list is shown on the page of the room, which must still be
\* ours; a member whose room closed is sent home.
Listen(u) ==
  /\ listening[u]
  /\ \E k \in Received(u) :
       LET first == Head(stream[u]) IN
       \/ /\ first.kind = "users" /\ role[u] # "none"
          /\ Take(u, k)
          /\ view' = [view EXCEPT ![u] = first.users]
          /\ UNCHANGED <<page, ui, role, listening, shown>>
       \/ /\ first.kind \in {"closed", "left"}
          /\ Take(u, k)
          /\ listening' = [listening EXCEPT ![u] = FALSE]
          /\ ui' = [ui EXCEPT ![u] = IF first.kind = "closed" /\ role[u] = "member"
                                       THEN "evicted" ELSE @]
          /\ UNCHANGED <<page, role, shown, view>>
       \/ /\ first.kind = "question"
          /\ Take(u, k)
          /\ listening' = [listening EXCEPT ![u] = FALSE]
          /\ Forget(u) /\ Show(u, "game")
          /\ UNCHANGED <<ui, shown>>
       \/ /\ \/ first.kind \notin {"users", "closed", "left", "question"}
             \/ first.kind = "users" /\ role[u] = "none"
          /\ Lose(u)
  /\ UNCHANGED <<server, threads>>

-----------------------------------------------------------------------------
(* Leaving, closing and starting *)

\* OnNavigatingFrom, as the user or an eviction turns to another page: the room
\* is forgotten at once, and a member leaves ...
LeaveRoom(u) ==
  /\ page[u] = "room" /\ role[u] = "member"
  /\ \/ Begin(u, "leave")
     \/ ui[u] = "evicted" /\ pc[u] = "idle" /\ Goto(u, "leave")
  /\ Forget(u)
  /\ Show(u, "home") /\ Await(u, "free")
  /\ UNCHANGED <<server, target, known, stream, listening, shown>>

Everyone(us, u) == us  \* the list is sent before the user is off it

Others(us, u) == us \ {u}

NotErased(us, u) == us  \* the user stays on the list

Remaining(us, u) == us \ {u}

LeftUnsaid(u) == [kind |-> "left", to |-> {}]  \* no answer

LeftAnswer(u) == [kind |-> "left", to |-> {u}]

\* ... which tells the others, then answers; without a room there is no answer.
HandleLeaveRoom(u) ==
  LET o == currRoom[u]
      told == Others(rooms[o].users, u)
      answer == LeftAnswer(u)
  IN
  /\ pc[u] = "leave"
  /\ \/ o = NoRoom /\ UNCHANGED <<rooms, currRoom, stream>>
     \/ /\ o # NoRoom
        /\ rooms' = [rooms EXCEPT ![o].users = Remaining(@, u)]
        /\ currRoom' = [currRoom EXCEPT ![u] = NoRoom]
        /\ stream' = [v \in User |->
             IF page[v] = "lost" THEN stream[v]
             ELSE stream[v]
                  \o (IF v \in told THEN <<UsersMessage(told)>> ELSE <<>>)
                  \o (IF v \in answer.to THEN <<Message(answer.kind)>> ELSE <<>>)]
  /\ Goto(u, "idle")
  /\ UNCHANGED <<target, known, client>>

\* ... while a host closes the room.  It has one: a host that has just started
\* its game reads its first question before it turns the page (see Lobby).
CloseRoom(u) ==
  /\ page[u] = "room" /\ role[u] = "admin" /\ currRoom[u] # NoRoom
  /\ Begin(u, "close")
  /\ Forget(u)
  /\ Show(u, "home")
  /\ UNCHANGED <<server, target, known, stream, ui, listening, shown>>

\* The room ends for its players.
EndRoom(o) ==
  /\ rooms' = [rooms EXCEPT ![o].open = FALSE]
  /\ currRoom' = [v \in User |-> IF v \in rooms[o].users THEN NoRoom ELSE currRoom[v]]

\* Room::closeRoom tells every player, and handleCloseRoom the host once more.
HandleCloseRoom(u) ==
  LET o == currRoom[u] IN
  /\ pc[u] = "close"
  /\ EndRoom(o)
  /\ stream' = [v \in User |->
       IF page[v] = "lost" THEN stream[v]
       ELSE stream[v]
            \o (IF v \in rooms[o].users THEN <<Message("closed")>> ELSE <<>>)
            \o (IF v = u THEN <<Message("closed")>> ELSE <<>>)]
  /\ Goto(u, "idle")
  /\ UNCHANGED <<target, known, client>>

StartGame(u) ==
  /\ page[u] = "room" /\ role[u] = "admin" /\ currRoom[u] # NoRoom
  /\ Begin(u, "start")
  /\ UNCHANGED <<server, target, known, stream, client>>

AskedButHost(o) == rooms[o].users \ {rooms[o].admin}

Asked(o) == rooms[o].users

\* handleStartGame sends the first question to the players.
HandleStartGame(u) ==
  LET o == currRoom[u] IN
  /\ pc[u] = "start"
  /\ EndRoom(o)
  /\ SendTo(Asked(o), Message("question"))
  /\ Goto(u, "idle")
  /\ UNCHANGED <<target, known, client>>

\* The game ends and its page turns to the home page (see GameEngine).
FinishGame(u) ==
  /\ page[u] = "game" /\ ui[u] = "free"
  /\ Show(u, "home")
  /\ UNCHANGED <<server, threads, stream, ui, role, listening, shown, view>>

-----------------------------------------------------------------------------
Init ==
  /\ rooms = <<>>
  /\ currRoom = [u \in User |-> NoRoom]
  /\ pc = [u \in User |-> "idle"]
  /\ target = [u \in User |-> NoRoom]
  /\ known = [u \in User |-> {}]
  /\ stream = [u \in User |-> <<>>]
  /\ page = [u \in User |-> "home"]
  /\ ui = [u \in User |-> "free"]
  /\ role = [u \in User |-> "none"]
  /\ listening = [u \in User |-> FALSE]
  /\ shown = [u \in User |-> {}]
  /\ view = [u \in User |-> {}]

\* What the server's thread of u does once it has a request
Handle(u) ==
  \/ HandleGetRooms(u) \/ HandleJoinRoom(u) \/ EnterRoom(u)
  \/ HandleCreateRoom(u) \/ HandleGetUsers(u) \/ SendUsersAgain(u)
  \/ HandleLeaveRoom(u) \/ HandleCloseRoom(u) \/ HandleStartGame(u)

\* What the thread of u's window does without being asked
Turn(u) ==
  \/ ReadRooms(u) \/ ReadJoined(u) \/ ReadGreeting(u) \/ ReadCreated(u)
  \/ AskUsers(u) \/ ReadUsers(u) \/ Flush(u)
  \/ ui[u] = "evicted" /\ LeaveRoom(u)

\* What the user does
Choose(u) ==
  \/ OpenRooms(u) \/ JoinRoom(u) \/ CreateRoom(u)
  \/ LeaveRoom(u) \/ CloseRoom(u) \/ StartGame(u) \/ FinishGame(u)

Next == \E u \in User : Handle(u) \/ Turn(u) \/ Listen(u) \/ Choose(u)

Spec == Init /\ [][Next]_vars

-----------------------------------------------------------------------------
(* Properties *)

Patient == User \ Unruly

\* Every variable keeps its type.
TypeOK ==
  /\ rooms \in Seq(Room) /\ Len(rooms) <= MaxRooms
  /\ currRoom \in [User -> 0 .. MaxRooms]
  /\ pc \in [User -> Steps]
  /\ target \in [User -> 0 .. MaxRooms]
  /\ known \in [User -> SUBSET User]
  /\ stream \in [User -> Seq(Messages)]
  /\ page \in [User -> Pages]
  /\ ui \in [User -> Waits]
  /\ role \in [User -> {"none", "admin", "member"}]
  /\ listening \in [User -> BOOLEAN]
  /\ shown \in [User -> SUBSET Objects]
  /\ view \in [User -> SUBSET User]

\* A patient client counts right: over any number of rooms, whatever a user in
\* a hurry does, no page takes a message that was meant for another.
InStep == \A u \in Patient : page[u] # "lost"

\* A patient user who sits in a room and has read all it was sent is in that
\* room for the server too, and its page lists the players the server has.
ViewCurrent ==
  \A u \in Patient :
    (listening[u] /\ role[u] # "none" /\ stream[u] = <<>> /\ pc[u] = "idle") =>
      /\ currRoom[u] # NoRoom
      /\ view[u] = rooms[currRoom[u]].users

\* No thread of a room page outlives its page, to take the answers to later
\* requests: when the page is left and the server has nothing more to say, what
\* ends the thread is in the stream.
ThreadEnds ==
  \A u \in Patient : (listening[u] /\ role[u] = "none" /\ pc[u] = "idle") =>
    \E i \in 1 .. Len(stream[u]) : stream[u][i].kind \in {"closed", "left", "question"}

\* The first question of a game is read by the thread of the room page and by
\* nothing else: it runs, and only lists come before the question.
QuestionReached ==
  \A u \in Patient : \A i \in 1 .. Len(stream[u]) : stream[u][i].kind = "question" =>
    /\ listening[u] /\ role[u] # "none"
    /\ \A j \in 1 .. i - 1 : stream[u][j].kind = "users"

=============================================================================
