------------------------------ MODULE Sessions ------------------------------
(***************************************************************************)
(* The sessions of the server: accepting, the loop of a client's thread,   *)
(* sign-in, sign-up, sign-out and safeDeleteUser (TriviaServer.cpp), and   *)
(* the client's side of them (Home, Login, SignUp, SignOut, MainWindow).   *)
(*                                                                         *)
(* A thread knows its client by a socket NUMBER and uses it to the end,    *)
(* also after the socket was closed and its number given to somebody else. *)
(* A handler is cut between its check and its write, and before every      *)
(* safeDeleteUser: an exception can lead to three of them in a row.        *)
(***************************************************************************)
EXTENDS Naturals, FiniteSets, Sequences

CONSTANTS
  Client,          \* client programs
  Name,            \* user names
  Registered,      \* the names in t_users when the server starts
  SocketNumber,    \* the numbers the system gives to sockets
  MaxConnections,  \* bound: connections in one run of the server
  MayVanish,       \* clients whose connection may be reset
  MayStop,         \* clients that may sign out or quit
  Fallthrough,     \* what isUsernameValid returns where it lacks a return
  Paced            \* requests are further apart than a handler takes

ASSUME SessionsAssumption ==
  /\ MaxConnections \in Nat
  /\ Registered \subseteq Name
  /\ MayVanish \subseteq Client /\ MayStop \subseteq Client
  /\ Fallthrough \subseteq BOOLEAN /\ Paced \in BOOLEAN

VARIABLES
  socketOf,        \* SOCKETs in use: the connection at each number, or NoConn
  _connectedUsers, \* socket number to the user on it, or NoUser
  t_users,         \* the names signed up
  connection,      \* every connection made so far
  thread,          \* the thread of each connection
  client,          \* each client program
  lost,            \* history: connections that ended without a goodbye
  signedUp,        \* history: the names signed up, once for each success
  up               \* the server process is alive

server == <<socketOf, _connectedUsers, t_users>>
history == <<lost, signedUp>>
vars == <<server, connection, thread, client, history, up>>

-----------------------------------------------------------------------------
NoConn == 0
Conns == 1 .. MaxConnections
NoName == "no name"

ASSUME NameAssumption == NoName \notin Name

NoUser == [name |-> NoName, conn |-> NoConn]

User == [name : Name \cup {NoName}, conn : Conns \cup {NoConn}]

NoRequest == [type |-> "none", name |-> NoName, good |-> FALSE]
Request == [type : {"none", "signIn", "signUp", "signOut", "leaveApp"},
            name : Name \cup {NoName},
            good : BOOLEAN]  \* the password is right, or legal

Connection == [socket : SocketNumber,
               peer : {"open", "closed", "reset"},
               request : Request]

Thread == [pc : {"first", "recv", "insert", "add", "delete", "ended"},
           name : Name \cup {NoName},
           deletes : 0 .. 2,    \* calls of safeDeleteUser still to make
           after : {"recv", "ended"}]

Program == [conn : Conns \cup {NoConn}, name : Name \cup {NoName},
            waits : BOOLEAN, runs : BOOLEAN]

Made == DOMAIN connection

\* What k's thread finds at the number it knows
At(k) == socketOf[connection[k].socket]

Goto(k, pc) == thread' = [thread EXCEPT ![k].pc = pc]

\* safeDeleteUser is called n times, and the loop goes on or is left.
Delete(k, n, after) == thread' = [thread EXCEPT ![k].pc = "delete",
                                                ![k].deletes = n,
                                                ![k].after = after]

\* Nobody is inside a handler
Quiet == \A k \in Made : thread[k].pc \in {"first", "recv", "ended"}

MayTake(k) == up /\ thread[k].pc \in {"first", "recv"} /\ (Paced => Quiet)

\* isUserExists, and isUserAndPassMatch
IsUserExists(n) == n \in t_users
IsUserAndPassMatch(r) == IsUserExists(r.name) /\ r.good

\* What isUsernameValid returns: false for a name it refuses, and whatever it
\* falls through to for any other.
IsUsernameValid == {FALSE} \cup Fallthrough

\* getUserByName
Online(n) == \E s \in SocketNumber : _connectedUsers[s].name = n

\* The reply of k's handler goes to whoever is at the number.  A lost
\* connection throws, handleReceivedMessage deletes and the loop goes on.
Reply(k, success, name) ==
  LET j == At(k) IN
  IF j # NoConn /\ connection[j].peer # "reset"
    THEN /\ Goto(k, "recv")
         /\ client' = [c \in Client |->
                         IF client[c].conn = j /\ client[c].waits
                           THEN [client[c] EXCEPT !.waits = FALSE,
                                                  !.name = IF success THEN name ELSE @]
                           ELSE client[c]]
    ELSE /\ Delete(k, 1, "recv")
         /\ UNCHANGED client

Erased(s) == [_connectedUsers EXCEPT ![s] = NoUser]

-----------------------------------------------------------------------------
(* The client *)

\* Home.Connection: a client without a socket connects.  The number it gets on
\* the server is any that is free.
Connect(c) ==
  /\ up
  /\ client[c].runs /\ client[c].conn = NoConn
  /\ Len(connection) < MaxConnections
  /\ \E s \in {n \in SocketNumber : socketOf[n] = NoConn} :
       /\ connection' = Append(connection, [socket |-> s, peer |-> "open",
                                            request |-> NoRequest])
       /\ socketOf' = [socketOf EXCEPT ![s] = Len(connection')]
  /\ thread' = Append(thread, [pc |-> "first", name |-> NoName, deletes |-> 0,
                               after |-> "ended"])
  /\ client' = [client EXCEPT ![c].conn = Len(connection')]
  /\ UNCHANGED <<_connectedUsers, t_users, history, up>>

\* c's socket works, and c is not blocked on a reply.
Free(c) == /\ up
           /\ client[c].runs /\ client[c].conn # NoConn /\ ~client[c].waits
           /\ connection[client[c].conn].peer = "open"
           /\ connection[client[c].conn].request = NoRequest

Send(c, request) ==
  connection' = [connection EXCEPT ![client[c].conn].request = request]

\* The login and sign-up pages, for a client that is not logged in.  They wait
\* for the reply.
Ask(c, type) ==
  /\ Free(c)
  /\ client[c].name = NoName
  /\ \E n \in Name, good \in BOOLEAN :
       Send(c, [type |-> type, name |-> n, good |-> good])
  /\ client' = [client EXCEPT ![c].waits = TRUE]
  /\ UNCHANGED <<server, thread, history, up>>

\* SignOut.SignUserOut: the request is sent and the socket forgotten.
SignOut(c) ==
  /\ c \in MayStop
  /\ Free(c)
  /\ client[c].name # NoName
  /\ Send(c, [NoRequest EXCEPT !.type = "signOut"])
  /\ client' = [client EXCEPT ![c].conn = NoConn, ![c].name = NoName]
  /\ UNCHANGED <<server, thread, history, up>>

\* The forgotten socket is closed, when the runtime collects it or the client
\* program ends.
CloseForgotten(k) ==
  /\ up
  /\ connection[k].peer = "open"
  /\ \A c \in Client : client[c].conn # k
  /\ connection' = [connection EXCEPT ![k].peer = "closed"]
  /\ lost' = lost \cup {k}
  /\ UNCHANGED <<server, thread, client, signedUp, up>>

\* MainWindow.ModernWindow_Closing: leaveApp is sent and the program ends.
Quit(c) ==
  /\ c \in MayStop
  /\ Free(c)
  /\ connection' = [connection EXCEPT
                      ![client[c].conn].request = [NoRequest EXCEPT !.type = "leaveApp"],
                      ![client[c].conn].peer = "closed"]
  /\ client' = [client EXCEPT ![c].runs = FALSE]
  /\ UNCHANGED <<server, thread, history, up>>

\* The connection is reset: what is on its way is lost, and whoever waits gives
\* up with an exception.
Vanish(c) ==
  LET k == client[c].conn IN
  /\ up
  /\ c \in MayVanish
  /\ client[c].runs /\ k # NoConn /\ connection[k].peer = "open"
  /\ connection' = [connection EXCEPT ![k].peer = "reset", ![k].request = NoRequest]
  /\ client' = [client EXCEPT ![c].runs = FALSE, ![c].waits = FALSE]
  /\ lost' = lost \cup {k}
  /\ UNCHANGED <<server, thread, signedUp, up>>

-----------------------------------------------------------------------------
(* The thread of a connection *)

Pending(k, type) == At(k) # NoConn /\ connection[At(k)].request.type = type

\* The request k's thread takes, from whichever connection is at its number
Taken(k) == connection[At(k)].request

Take(k) == connection' = [connection EXCEPT ![At(k)].request = NoRequest]

\* recv fails.  The first recv of a thread is outside its try; any other leads
\* to the handler of the exception, which deletes, and out of the loop, where
\* the thread deletes again.
RecvThrows(k) ==
  /\ MayTake(k)
  /\ At(k) # NoConn => connection[At(k)].peer = "reset"
  /\ \/ /\ thread[k].pc = "first"
        /\ up' = FALSE
        /\ UNCHANGED thread
     \/ /\ thread[k].pc = "recv"
        /\ Delete(k, 2, "ended")
        /\ UNCHANGED up
  /\ UNCHANGED <<server, connection, client, history>>

\* recv finds the connection closed and leaves its buffer unwritten.  Read as a
\* code the buffer is 0 or another code nobody sends, for which there is no
\* message and a null pointer is followed; or it is an earlier code, and the
\* thread comes here again.
RecvNothing(k) ==
  /\ MayTake(k)
  /\ At(k) # NoConn /\ connection[At(k)].peer = "closed" /\ Pending(k, "none")
  /\ \/ up' = FALSE /\ UNCHANGED thread
     \/ Goto(k, "recv") /\ UNCHANGED up
  /\ UNCHANGED <<server, connection, client, history>>

\* handleSignIn up to the insertion.
HandleSignIn(k) ==
  LET r == Taken(k) IN
  /\ MayTake(k)
  /\ Pending(k, "signIn")
  /\ Take(k)
  /\ \/ /\ IsUserAndPassMatch(r) /\ ~Online(r.name)
        /\ thread' = [thread EXCEPT ![k].pc = "insert", ![k].name = r.name]
        /\ UNCHANGED client
     \/ /\ ~IsUserAndPassMatch(r) \/ Online(r.name)
        /\ Reply(k, FALSE, r.name)
  /\ UNCHANGED <<server, history, up>>

\* The insertion, which leaves a number that has a user as it is, and the reply.
InsertUser(k) ==
  LET s == connection[k].socket
      n == thread[k].name
  IN
  /\ up /\ thread[k].pc = "insert"
  /\ _connectedUsers' = [_connectedUsers EXCEPT
                           ![s] = IF @ = NoUser THEN [name |-> n, conn |-> At(k)] ELSE @]
  /\ Reply(k, TRUE, n)
  /\ UNCHANGED <<socketOf, t_users, connection, history, up>>

\* handleSignUp up to the statement that inserts.
HandleSignUp(k) ==
  LET r == Taken(k) IN
  /\ MayTake(k)
  /\ Pending(k, "signUp")
  /\ Take(k)
  /\ \E valid \in IsUsernameValid :
       \/ /\ valid /\ r.good /\ ~IsUserExists(r.name)
          /\ thread' = [thread EXCEPT ![k].pc = "add", ![k].name = r.name]
          /\ UNCHANGED client
       \/ /\ ~valid \/ ~r.good \/ IsUserExists(r.name)
          /\ Reply(k, FALSE, NoName)
  /\ UNCHANGED <<server, history, up>>

AcceptedAlways(n) == TRUE  \* no primary key

\* The primary key of t_users
Accepted(n) == n \notin t_users

\* addNewUser and the reply.  Signing up signs nobody in.
AddUser(k) ==
  LET n == thread[k].name IN
  /\ up /\ thread[k].pc = "add"
  /\ t_users' = t_users \cup {n}
  /\ signedUp' = IF Accepted(n) THEN Append(signedUp, n) ELSE signedUp
  /\ Reply(k, Accepted(n), NoName)
  /\ UNCHANGED <<socketOf, _connectedUsers, connection, lost, up>>

UnlistedNever(s) == _connectedUsers  \* sign-out forgets nobody

\* _connectedUsers.erase
Unlisted(s) == Erased(s)

HandleSignout(k) ==
  /\ MayTake(k)
  /\ Pending(k, "signOut")
  /\ Take(k)
  /\ _connectedUsers' = Unlisted(connection[k].socket)
  /\ Goto(k, "recv")
  /\ UNCHANGED <<socketOf, t_users, client, history, up>>

GoodbyesNone == 0  \* leaves the loop without a delete

GoodbyesTwice == 2  \* deletes inside the loop and after it

Goodbyes == 1

\* leaveApp ends the loop.
HandleLeaveApp(k) ==
  /\ MayTake(k)
  /\ Pending(k, "leaveApp")
  /\ Take(k)
  /\ Delete(k, Goodbyes, "ended")
  /\ UNCHANGED <<server, client, history, up>>

\* One safeDeleteUser: the user at the number is forgotten and the socket at the
\* number closed, whose ever they are by now.
SafeDeleteUser(k) ==
  LET s == connection[k].socket
      t == thread[k]
      j == At(k)
  IN
  /\ up /\ t.pc = "delete"
  /\ _connectedUsers' = Unlisted(s)
  /\ socketOf' = [socketOf EXCEPT ![s] = NoConn]
  /\ connection' = IF j = NoConn THEN connection
                   ELSE [connection EXCEPT ![j].peer = IF @ = "open" THEN "reset" ELSE @,
                                           ![j].request = NoRequest]
  /\ thread' = [thread EXCEPT ![k].deletes = @ - 1,
                              ![k].pc = IF t.deletes = 1 THEN t.after ELSE @]
  /\ client' = [c \in Client |-> IF j # NoConn /\ client[c].conn = j
                                   THEN [client[c] EXCEPT !.waits = FALSE]
                                   ELSE client[c]]
  /\ UNCHANGED <<t_users, history, up>>

-----------------------------------------------------------------------------
Init ==
  /\ socketOf = [s \in SocketNumber |-> NoConn]
  /\ _connectedUsers = [s \in SocketNumber |-> NoUser]
  /\ t_users = Registered
  /\ connection = <<>>
  /\ thread = <<>>
  /\ client = [c \in Client |-> [conn |-> NoConn, name |-> NoName,
                                 waits |-> FALSE, runs |-> TRUE]]
  /\ lost = {}
  /\ signedUp = <<>>
  /\ up = TRUE

ThreadStep(k) == \/ RecvThrows(k) \/ RecvNothing(k)
                 \/ HandleSignIn(k) \/ InsertUser(k)
                 \/ HandleSignUp(k) \/ AddUser(k)
                 \/ HandleSignout(k) \/ HandleLeaveApp(k) \/ SafeDeleteUser(k)

Next == \/ \E c \in Client : \/ Connect(c)
                             \/ Ask(c, "signIn") \/ Ask(c, "signUp")
                             \/ SignOut(c) \/ Quit(c) \/ Vanish(c)
        \/ \E k \in Made : CloseForgotten(k) \/ ThreadStep(k)

Spec == Init /\ [][Next]_vars

\* The threads of the server are scheduled.
FairSpec == Spec /\ \A k \in Conns : WF_vars(k \in Made /\ ThreadStep(k))

-----------------------------------------------------------------------------
(* Properties *)

\* Every variable keeps its type.
TypeOK ==
  /\ socketOf \in [SocketNumber -> Conns \cup {NoConn}]
  /\ _connectedUsers \in [SocketNumber -> User]
  /\ t_users \subseteq Name
  /\ connection \in Seq(Connection) /\ Len(connection) <= MaxConnections
  /\ thread \in Seq(Thread) /\ Len(thread) = Len(connection)
  /\ client \in [Client -> Program]
  /\ lost \subseteq Made
  /\ signedUp \in Seq(Name)
  /\ up \in BOOLEAN

\* No earlier connection had k's number.
FirstAtItsNumber(k) == \A j \in 1 .. k - 1 : connection[j].socket # connection[k].socket

\* What other clients lose cannot reach k: nothing was lost, or k's number is
\* known to k's thread only.
OutOfReach(k) == lost = {} \/ FirstAtItsNumber(k)

\* A client that is waiting for nothing and whose requests were served is, to
\* the server, who it thinks it is: the user it signed in as, or nobody.  This
\* holds in every interleaving of sign-ins, sign-ups, goodbyes and losses, as
\* long as no thread of a lost connection knows the client's number
\* (TriviaServer.cpp:111, deletes that come again).
Recognised ==
  \A c \in Client : LET k == client[c].conn IN
    (/\ up /\ k # NoConn /\ Free(c) /\ OutOfReach(k)
     /\ thread[k].pc \in {"first", "recv"})
    => _connectedUsers[connection[k].socket].name = client[c].name

\* The server closes no connection under a client that runs, unless it has lost
\* some other: one goodbye, one safeDeleteUser.
KeepsConnections ==
  \A c \in Client : LET k == client[c].conn IN
    (client[c].runs /\ k # NoConn /\ OutOfReach(k)) => At(k) = k

\* Whatever overlaps between isUserExists and addNewUser, no two clients are told
\* that they signed up as the same user, or as one there was.
SignedUpOnce ==
  \A i \in DOMAIN signedUp :
    /\ signedUp[i] \notin Registered
    /\ \A j \in DOMAIN signedUp : signedUp[i] = signedUp[j] => i = j

\* While every client says goodbye the process survives.
ServerUp == lost = {} => up

\* A connection that was reset, or ended with a goodbye
Ended(k) == k \in Made /\ \/ connection[k].peer = "reset"
                          \/ connection[k].peer = "closed" /\ k \notin lost

\* The session of a connection that has ended is ended, so that its user can sign
\* in again: no interleaving leaves a user online without a client.
SessionsEnd ==
  \A k \in Conns :
    Ended(k) ~> (~up \/ \A s \in SocketNumber : _connectedUsers[s].conn # k)

\* TriviaServer.cpp:138, "if the user isn't connected": nobody is online twice.
OnlineOnce ==
  \A s, r \in SocketNumber :
    (_connectedUsers[s].name = _connectedUsers[r].name /\ s # r)
    => _connectedUsers[s] = NoUser \/ _connectedUsers[r] = NoUser

=============================================================================
