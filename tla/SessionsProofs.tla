----------------------------- MODULE SessionsProofs -----------------------------
(***************************************************************************)
(* Proofs about Sessions, for every number of clients, connections and     *)
(* socket numbers, with handlers that interleave, clients that vanish and  *)
(* threads that act on numbers given to somebody else by now.              *)
(***************************************************************************)
EXTENDS Sessions, TLAPS

\* A number leads to the last connection that was given it, or to none.
NumbersLead ==
  \A s \in SocketNumber : socketOf[s] # NoConn =>
    /\ socketOf[s] \in Made /\ connection[socketOf[s]].socket = s
    /\ \A j \in Made : connection[j].socket = s => j <= socketOf[s]

\* Only a number that was given to a connection has a user.
UsersKnown ==
  \A s \in SocketNumber :
    /\ _connectedUsers[s] # NoUser => \E k \in Made : connection[k].socket = s
    /\ _connectedUsers[s].name = NoName => _connectedUsers[s] = NoUser

\* Every client has its own connection, or none and is nobody.
ClientsApart ==
  /\ \A c, d \in Client : client[c].conn = client[d].conn /\ client[c].conn # NoConn => c = d
  /\ \A c \in Client : client[c].conn # NoConn => client[c].conn \in Made
  /\ \A c \in Client : client[c].conn = NoConn => client[c].name = NoName /\ ~client[c].waits

\* What requests and threads carry
Work ==
  \A k \in Made :
    /\ connection[k].request.type = "signUp" => connection[k].request.name \in Name
    /\ connection[k].request.type = "leaveApp" => connection[k].peer = "closed"
    /\ thread[k].pc \in {"insert", "add"} => thread[k].name \in Name
    /\ thread[k].pc = "delete" => thread[k].deletes \in {1, 2}

\* c runs, and no other client's loss reaches its connection.
Kept(c) == client[c].runs /\ client[c].conn # NoConn /\ OutOfReach(client[c].conn)

\* c and the thread of its connection wait for each other in turn, and think the
\* same of who c is.
InTouchOf(c) ==
  LET k == client[c].conn
      s == connection[k].socket
  IN
  /\ At(k) = k /\ connection[k].peer = "open"
  /\ \/ /\ ~client[c].waits
        /\ connection[k].request = NoRequest
        /\ thread[k].pc \in {"first", "recv"}
        /\ _connectedUsers[s].name = client[c].name
     \/ /\ client[c].waits /\ client[c].name = NoName
        /\ _connectedUsers[s] = NoUser
        /\ \/ /\ connection[k].request.type \in {"signIn", "signUp"}
              /\ thread[k].pc \in {"first", "recv"}
           \/ connection[k].request = NoRequest /\ thread[k].pc \in {"insert", "add"}

InTouch == \A c \in Client : Kept(c) => InTouchOf(c)

\* How far the goodbye of connection j has come
GoodbyeOf(j) ==
  /\ connection[j].peer # "reset"
  /\ thread[j].pc # "ended" => At(j) = j
  /\ thread[j].pc = "delete" =>
       connection[j].peer = "closed" /\ thread[j].deletes = 1 /\ thread[j].after = "ended"
  /\ connection[j].peer = "closed" =>
       \/ connection[j].request.type = "leaveApp" /\ thread[j].pc \in {"first", "recv"}
       \/ thread[j].pc \in {"delete", "ended"}

\* While every client says goodbye, a thread that has not ended knows a number
\* of its own, and a free number has no user.
Goodbyed ==
  lost = {} => /\ up
               /\ \A s \in SocketNumber : socketOf[s] = NoConn => _connectedUsers[s] = NoUser
               /\ \A j \in Made : GoodbyeOf(j)

\* Who signed up is in the table and was not there at first.
SignUps ==
  /\ Registered \subseteq t_users
  /\ \A i \in DOMAIN signedUp : signedUp[i] \in t_users \ Registered

\* The inductive invariant
SessionsInv ==
  /\ TypeOK /\ NumbersLead /\ UsersKnown /\ ClientsApart /\ Work
  /\ InTouch /\ Goodbyed /\ SignUps /\ SignedUpOnce

-----------------------------------------------------------------------------
(* What the writes to the records of a connection and of a thread leave *)

Peers == {"open", "closed", "reset"}

LEMMA MadeOf ==
  ASSUME TypeOK
  PROVE  /\ Made = 1 .. Len(connection) /\ Made = 1 .. Len(thread)
         /\ Len(connection) \in Nat
         /\ Made \subseteq Conns /\ NoConn \notin Made
         /\ \A k \in Made : /\ connection[k] \in Connection /\ thread[k] \in Thread
                            /\ connection[k].socket \in SocketNumber
                            /\ connection[k].peer \in Peers
                            /\ connection[k].request \in Request
<1>1. /\ Made = 1 .. Len(connection) /\ Made = 1 .. Len(thread)
      /\ Len(connection) \in Nat /\ Len(connection) <= MaxConnections
  BY DEF TypeOK, Made
<1>2. Made \subseteq Conns /\ NoConn \notin Made
  BY <1>1, SessionsAssumption DEF Conns, NoConn
<1>3. \A k \in Made : connection[k] \in Connection /\ thread[k] \in Thread
  BY <1>1 DEF TypeOK
<1>4. \A k \in Made : /\ connection[k].socket \in SocketNumber
                      /\ connection[k].peer \in Peers
                      /\ connection[k].request \in Request
  BY <1>3 DEF Connection, Peers
<1> QED
  BY <1>1, <1>2, <1>3, <1>4

LEMMA ConnectionWritten ==
  ASSUME TypeOK, NEW k \in Made, NEW c \in Connection,
         connection' = [connection EXCEPT ![k] = c]
  PROVE  /\ connection' \in Seq(Connection) /\ Len(connection') = Len(connection)
         /\ Made' = Made
         /\ \A j \in Made : connection'[j] = IF j = k THEN c ELSE connection[j]
<1>1. connection \in Seq(Connection) /\ Made = 1 .. Len(connection) /\ Len(connection) \in Nat
  BY MadeOf DEF TypeOK
<1>2. /\ DOMAIN connection' = 1 .. Len(connection)
      /\ \A j \in Made : connection'[j] = IF j = k THEN c ELSE connection[j]
  BY <1>1
<1>3. connection' = [j \in 1 .. Len(connection) |-> IF j = k THEN c ELSE connection[j]]
  <2>1. k \in 1 .. Len(connection) /\ DOMAIN connection = 1 .. Len(connection)
    BY <1>1
  <2> QED
    BY <2>1
<1>4. connection' \in [1 .. Len(connection) -> Connection]
  BY <1>1, <1>3
<1> QED
  BY <1>1, <1>2, <1>4 DEF Made

LEMMA ThreadWritten ==
  ASSUME TypeOK, NEW k \in Made, NEW t \in Thread, thread' = [thread EXCEPT ![k] = t]
  PROVE  /\ thread' \in Seq(Thread) /\ Len(thread') = Len(thread)
         /\ \A j \in Made : thread'[j] = IF j = k THEN t ELSE thread[j]
<1>1. thread \in Seq(Thread) /\ Made = 1 .. Len(thread) /\ Len(thread) \in Nat
  BY MadeOf DEF TypeOK
<1>2. /\ DOMAIN thread' = 1 .. Len(thread)
      /\ \A j \in Made : thread'[j] = IF j = k THEN t ELSE thread[j]
  BY <1>1
<1>3. thread' = [j \in 1 .. Len(thread) |-> IF j = k THEN t ELSE thread[j]]
  <2>1. k \in 1 .. Len(thread) /\ DOMAIN thread = 1 .. Len(thread)
    BY <1>1
  <2> QED
    BY <2>1
<1>4. thread' \in [1 .. Len(thread) -> Thread]
  BY <1>1, <1>3
<1> QED
  BY <1>1, <1>2, <1>4

\* The request of a connection is written.
LEMMA RequestWritten ==
  ASSUME TypeOK, NEW k \in Made, NEW r \in Request,
         connection' = [connection EXCEPT ![k].request = r]
  PROVE  /\ connection' \in Seq(Connection) /\ Len(connection') = Len(connection)
         /\ Made' = Made
         /\ \A j \in Made : /\ connection'[j].socket = connection[j].socket
                            /\ connection'[j].peer = connection[j].peer
                            /\ j # k => connection'[j] = connection[j]
         /\ connection'[k].request = r
<1> DEFINE c == [connection[k] EXCEPT !.request = r]
<1>1. connection[k] \in Connection
  BY MadeOf
<1>2. /\ c \in Connection /\ c.request = r /\ c.socket = connection[k].socket
      /\ c.peer = connection[k].peer
  BY <1>1 DEF Connection
<1>3. connection' = [connection EXCEPT ![k] = c]
  OBVIOUS
<1> HIDE DEF c
<1>4. /\ connection' \in Seq(Connection) /\ Len(connection') = Len(connection)
      /\ Made' = Made
      /\ \A j \in Made : connection'[j] = IF j = k THEN c ELSE connection[j]
  BY <1>2, <1>3, ConnectionWritten
<1> QED
  BY <1>2, <1>4

\* The peer of a connection is written.
LEMMA PeerWritten ==
  ASSUME TypeOK, NEW k \in Made, NEW p \in Peers,
         connection' = [connection EXCEPT ![k].peer = p]
  PROVE  /\ connection' \in Seq(Connection) /\ Len(connection') = Len(connection)
         /\ Made' = Made
         /\ \A j \in Made : /\ connection'[j].socket = connection[j].socket
                            /\ connection'[j].request = connection[j].request
                            /\ j # k => connection'[j] = connection[j]
         /\ connection'[k].peer = p
<1> DEFINE c == [connection[k] EXCEPT !.peer = p]
<1>1. connection[k] \in Connection
  BY MadeOf
<1>2. /\ c \in Connection /\ c.peer = p /\ c.socket = connection[k].socket
      /\ c.request = connection[k].request
  BY <1>1 DEF Connection, Peers
<1>3. connection' = [connection EXCEPT ![k] = c]
  OBVIOUS
<1> HIDE DEF c
<1>4. /\ connection' \in Seq(Connection) /\ Len(connection') = Len(connection)
      /\ Made' = Made
      /\ \A j \in Made : connection'[j] = IF j = k THEN c ELSE connection[j]
  BY <1>2, <1>3, ConnectionWritten
<1> QED
  BY <1>2, <1>4

\* Both are.
LEMMA BothWritten ==
  ASSUME TypeOK, NEW k \in Made, NEW p \in Peers, NEW r \in Request,
         connection' = [connection EXCEPT ![k].peer = p, ![k].request = r]
  PROVE  /\ connection' \in Seq(Connection) /\ Len(connection') = Len(connection)
         /\ Made' = Made
         /\ \A j \in Made : /\ connection'[j].socket = connection[j].socket
                            /\ j # k => connection'[j] = connection[j]
         /\ connection'[k].peer = p /\ connection'[k].request = r
<1> DEFINE c == [connection[k] EXCEPT !.peer = p, !.request = r]
<1>1. connection[k] \in Connection
  BY MadeOf
<1>2. c \in Connection /\ c.peer = p /\ c.request = r /\ c.socket = connection[k].socket
  BY <1>1 DEF Connection, Peers
<1>3. connection' = [connection EXCEPT ![k] = c]
  BY MadeOf DEF Connection
<1> HIDE DEF c
<1>4. /\ connection' \in Seq(Connection) /\ Len(connection') = Len(connection)
      /\ Made' = Made
      /\ \A j \in Made : connection'[j] = IF j = k THEN c ELSE connection[j]
  BY <1>2, <1>3, ConnectionWritten
<1> QED
  BY <1>2, <1>4

Places == {"first", "recv", "insert", "add", "delete", "ended"}

\* A thread moves on.
LEMMA ThreadGoes ==
  ASSUME TypeOK, NEW k \in Made, NEW pc \in Places, Goto(k, pc)
  PROVE  /\ thread' \in Seq(Thread) /\ Len(thread') = Len(thread)
         /\ \A j \in Made \ {k} : thread'[j] = thread[j]
         /\ thread'[k].pc = pc /\ thread'[k].name = thread[k].name
         /\ thread'[k].deletes = thread[k].deletes /\ thread'[k].after = thread[k].after
<1> DEFINE t == [thread[k] EXCEPT !.pc = pc]
<1>1. thread[k] \in Thread
  BY MadeOf
<1>2. /\ t \in Thread /\ t.pc = pc /\ t.name = thread[k].name
      /\ t.deletes = thread[k].deletes /\ t.after = thread[k].after
  BY <1>1 DEF Thread, Places
<1>3. thread' = [thread EXCEPT ![k] = t]
  BY DEF Goto
<1> HIDE DEF t
<1>4. /\ thread' \in Seq(Thread) /\ Len(thread') = Len(thread)
      /\ \A j \in Made : thread'[j] = IF j = k THEN t ELSE thread[j]
  BY <1>2, <1>3, ThreadWritten
<1> QED
  BY <1>2, <1>4

\* A thread is about to delete.
LEMMA ThreadDeletes ==
  ASSUME TypeOK, NEW k \in Made, NEW n \in {1, 2}, NEW after \in {"recv", "ended"},
         Delete(k, n, after)
  PROVE  /\ thread' \in Seq(Thread) /\ Len(thread') = Len(thread)
         /\ \A j \in Made \ {k} : thread'[j] = thread[j]
         /\ thread'[k].pc = "delete" /\ thread'[k].deletes = n /\ thread'[k].after = after
<1> DEFINE t == [thread[k] EXCEPT !.pc = "delete", !.deletes = n, !.after = after]
<1>1. thread[k] \in Thread
  BY MadeOf
<1>2. t \in Thread /\ t.pc = "delete" /\ t.deletes = n /\ t.after = after
  <2>1. n \in 0 .. 2
    OBVIOUS
  <2> QED
    BY <1>1, <2>1 DEF Thread
<1>3. thread' = [thread EXCEPT ![k] = t]
  BY <1>1, MadeOf DEF Delete, Thread
<1> HIDE DEF t
<1>4. /\ thread' \in Seq(Thread) /\ Len(thread') = Len(thread)
      /\ \A j \in Made : thread'[j] = IF j = k THEN t ELSE thread[j]
  BY <1>2, <1>3, ThreadWritten
<1> QED
  BY <1>2, <1>4

\* A thread goes on with a name.
LEMMA ThreadTakes ==
  ASSUME TypeOK, NEW k \in Made, NEW pc \in Places, NEW n \in Name,
         thread' = [thread EXCEPT ![k].pc = pc, ![k].name = n]
  PROVE  /\ thread' \in Seq(Thread) /\ Len(thread') = Len(thread)
         /\ \A j \in Made \ {k} : thread'[j] = thread[j]
         /\ thread'[k].pc = pc /\ thread'[k].name = n
<1> DEFINE t == [thread[k] EXCEPT !.pc = pc, !.name = n]
<1>1. thread[k] \in Thread
  BY MadeOf
<1>2. t \in Thread /\ t.pc = pc /\ t.name = n
  BY <1>1 DEF Thread, Places
<1>3. thread' = [thread EXCEPT ![k] = t]
  BY <1>1, MadeOf DEF Thread
<1> HIDE DEF t
<1>4. /\ thread' \in Seq(Thread) /\ Len(thread') = Len(thread)
      /\ \A j \in Made : thread'[j] = IF j = k THEN t ELSE thread[j]
  BY <1>2, <1>3, ThreadWritten
<1> QED
  BY <1>2, <1>4

\* A reply reaches the client at the number, which has not been reset, or the
\* thread deletes.
LEMMA Replied ==
  ASSUME TypeOK, NEW k \in Made, NEW success \in BOOLEAN, NEW name \in Name \cup {NoName},
         Reply(k, success, name)
  PROVE  /\ thread' \in Seq(Thread) /\ Len(thread') = Len(thread)
         /\ \A j \in Made \ {k} : thread'[j] = thread[j]
         /\ client' \in [Client -> Program]
         /\ \A c \in Client :
              /\ client'[c].conn = client[c].conn /\ client'[c].runs = client[c].runs
              /\ client[c].conn # At(k) \/ client[c].conn = NoConn => client'[c] = client[c]
         /\ \/ /\ At(k) # NoConn /\ thread'[k].pc = "recv"
               /\ \A c \in Client : client[c].conn = At(k) /\ client[c].waits =>
                    /\ ~client'[c].waits
                    /\ client'[c].name = IF success THEN name ELSE client[c].name
            \/ /\ At(k) = NoConn \/ connection[At(k)].peer = "reset"
               /\ thread'[k].pc = "delete" /\ thread'[k].deletes = 1
<1>1. \A c \in Client : client[c] \in Program /\ client[c].waits \in BOOLEAN
  BY DEF TypeOK, Program
<1>2. CASE At(k) # NoConn /\ connection[At(k)].peer # "reset"
  <2>1. PICK n : n = IF success THEN name ELSE NoName
    OBVIOUS
  <2> DEFINE told(c) == [client[c] EXCEPT !.waits = FALSE,
                                          !.name = IF success THEN name ELSE @]
             reached(c) == client[c].conn = At(k) /\ client[c].waits
  <2>2. /\ Goto(k, "recv")
        /\ client' = [c \in Client |-> IF reached(c) THEN told(c) ELSE client[c]]
    BY <1>2 DEF Reply
  <2>3. \A c \in Client :
          /\ told(c) \in Program /\ told(c).conn = client[c].conn
          /\ told(c).runs = client[c].runs /\ told(c).waits = FALSE
          /\ told(c).name = IF success THEN name ELSE client[c].name
    BY <1>1 DEF Program
  <2> HIDE DEF told
  <2>4. \A c \in Client : client'[c] = IF reached(c) THEN told(c) ELSE client[c]
    BY <2>2
  <2>5. client' \in [Client -> Program]
    BY <1>1, <2>2, <2>3
  <2>6. /\ thread' \in Seq(Thread) /\ Len(thread') = Len(thread)
        /\ \A j \in Made \ {k} : thread'[j] = thread[j]
        /\ thread'[k].pc = "recv"
    BY <2>2, ThreadGoes DEF Places
  <2>7. \A c \in Client :
          /\ client'[c].conn = client[c].conn /\ client'[c].runs = client[c].runs
          /\ client[c].conn # At(k) \/ client[c].conn = NoConn => client'[c] = client[c]
          /\ client[c].conn = At(k) /\ client[c].waits =>
               /\ ~client'[c].waits
               /\ client'[c].name = IF success THEN name ELSE client[c].name
    BY <1>2, <2>3, <2>4
  <2> QED
    BY <1>2, <2>5, <2>6, <2>7
<1>3. CASE ~(At(k) # NoConn /\ connection[At(k)].peer # "reset")
  <2>1. Delete(k, 1, "recv") /\ client' = client
    BY <1>3 DEF Reply
  <2>2. /\ thread' \in Seq(Thread) /\ Len(thread') = Len(thread)
        /\ \A j \in Made \ {k} : thread'[j] = thread[j]
        /\ thread'[k].pc = "delete" /\ thread'[k].deletes = 1
    BY <2>1, ThreadDeletes
  <2> QED
    BY <1>3, <2>1, <2>2 DEF TypeOK
<1> QED
  BY <1>2, <1>3

-----------------------------------------------------------------------------
(* What actions of others leave to a client *)

\* A thread at work that knows the number of a kept client is the client's own.
LEMMA Alone ==
  ASSUME SessionsInv, NEW c \in Client, Kept(c), NEW k \in Made, thread[k].pc # "ended",
         connection[k].socket = connection[client[c].conn].socket
  PROVE  k = client[c].conn
<1>1. PICK j \in Made : j = client[c].conn
  BY DEF SessionsInv, ClientsApart, Kept
<1>2. PICK s \in SocketNumber : s = connection[j].socket
  BY MadeOf DEF SessionsInv
<1>3. socketOf[s] = j /\ j # NoConn
  BY <1>1, <1>2 DEF SessionsInv, InTouch, InTouchOf, At, Kept
<1>4. k <= j
  BY <1>1, <1>2, <1>3 DEF SessionsInv, NumbersLead
<1>5. CASE lost = {}
  BY <1>1, <1>2, <1>3, <1>5 DEF SessionsInv, Goodbyed, GoodbyeOf, At
<1>6. CASE FirstAtItsNumber(j)
  <2>1. k \notin 1 .. j - 1
    BY <1>1, <1>6 DEF FirstAtItsNumber
  <2>2. k \in Nat /\ j \in Nat /\ 1 <= k
    BY MadeOf DEF SessionsInv
  <2> QED
    BY <1>1, <1>4, <2>1, <2>2
<1> QED
  BY <1>1, <1>5, <1>6 DEF Kept, OutOfReach

\* A client that is kept was kept before, if nothing is ever found again.
LEMMA KeptBefore ==
  ASSUME SessionsInv, NEW c \in Client, Kept(c)',
         client'[c].conn = client[c].conn, client'[c].runs => client[c].runs,
         lost \subseteq lost', \A j \in Made : connection'[j].socket = connection[j].socket
  PROVE  Kept(c) /\ client[c].conn \in Made
<1>1. client[c].runs /\ client[c].conn # NoConn
  BY DEF Kept
<1>2. PICK k \in Made : k = client[c].conn
  BY <1>1 DEF SessionsInv, ClientsApart
<1>3. \A j \in 1 .. k - 1 : j \in Made
  BY MadeOf DEF SessionsInv
<1>4. FirstAtItsNumber(k)' => FirstAtItsNumber(k)
  BY <1>3 DEF FirstAtItsNumber
<1>5. lost' = {} \/ FirstAtItsNumber(k)'
  BY <1>2 DEF Kept, OutOfReach, FirstAtItsNumber
<1>6. lost = {} \/ FirstAtItsNumber(k)
  BY <1>4, <1>5
<1> QED
  BY <1>1, <1>2, <1>6 DEF Kept, OutOfReach

\* What an action has to leave to a client
LEMMA StaysInTouch ==
  ASSUME SessionsInv, NEW c \in Client, Kept(c)', lost \subseteq lost',
         \A j \in Made : connection'[j].socket = connection[j].socket,
         client'[c].conn = client[c].conn, client'[c].runs => client[c].runs,
         Kept(c) =>
           /\ client'[c] = client[c]
           /\ connection'[client[c].conn] = connection[client[c].conn]
           /\ thread'[client[c].conn] = thread[client[c].conn]
           /\ socketOf'[connection[client[c].conn].socket]
                = socketOf[connection[client[c].conn].socket]
           /\ _connectedUsers'[connection[client[c].conn].socket]
                = _connectedUsers[connection[client[c].conn].socket]
  PROVE  InTouchOf(c)'
<1>1. Kept(c) /\ client[c].conn \in Made
  BY KeptBefore
<1>2. PICK j \in Made : j = client[c].conn
  BY <1>1
<1>3. PICK s \in SocketNumber : s = connection[j].socket
  BY MadeOf DEF SessionsInv
<1>4. /\ client'[c] = client[c] /\ connection'[j] = connection[j] /\ thread'[j] = thread[j]
      /\ socketOf'[s] = socketOf[s] /\ _connectedUsers'[s] = _connectedUsers[s]
  BY <1>1, <1>2, <1>3
<1>5. InTouchOf(c)
  BY <1>1 DEF SessionsInv, InTouch
<1>6. /\ socketOf[s] = j /\ connection[j].peer = "open"
      /\ \/ /\ ~client[c].waits
            /\ connection[j].request = NoRequest
            /\ thread[j].pc \in {"first", "recv"}
            /\ _connectedUsers[s].name = client[c].name
         \/ /\ client[c].waits /\ client[c].name = NoName
            /\ _connectedUsers[s] = NoUser
            /\ \/ /\ connection[j].request.type \in {"signIn", "signUp"}
                  /\ thread[j].pc \in {"first", "recv"}
               \/ connection[j].request = NoRequest /\ thread[j].pc \in {"insert", "add"}
  BY <1>2, <1>3, <1>5 DEF InTouchOf, At
<1>7. client'[c].conn = j /\ connection'[j].socket = s
  BY <1>2, <1>3, <1>4
<1> QED
  BY <1>4, <1>6, <1>7 DEF InTouchOf, At

\* What an action has to leave to everybody but the client at connection k
LEMMA StayInTouch ==
  ASSUME SessionsInv, NEW k \in Made, lost \subseteq lost',
         \A j \in Made : connection'[j].socket = connection[j].socket,
         \A j \in Made \ {k} : thread'[j] = thread[j],
         \A c \in Client : client[c].conn # k =>
           /\ client'[c].conn = client[c].conn
           /\ client'[c].runs => client[c].runs,
         \A c \in Client : client[c].conn # k /\ Kept(c) =>
           /\ client'[c] = client[c]
           /\ connection'[client[c].conn] = connection[client[c].conn]
           /\ socketOf'[connection[client[c].conn].socket]
                = socketOf[connection[client[c].conn].socket]
           /\ _connectedUsers'[connection[client[c].conn].socket]
                = _connectedUsers[connection[client[c].conn].socket],
         \A c \in Client : client[c].conn = k /\ Kept(c)' => InTouchOf(c)'
  PROVE  InTouch'
<1> SUFFICES ASSUME NEW c \in Client, Kept(c)', client[c].conn # k PROVE InTouchOf(c)'
  BY DEF InTouch
<1>1. client'[c].conn = client[c].conn /\ (client'[c].runs => client[c].runs)
  OBVIOUS
<1>2. Kept(c) /\ client[c].conn \in Made
  BY <1>1, KeptBefore
<1>3. thread'[client[c].conn] = thread[client[c].conn]
  BY <1>2
<1> QED
  BY <1>1, <1>2, <1>3, StaysInTouch

\* What it has to leave to every goodbye but that of connection k
LEMMA StayGoodbyed ==
  ASSUME SessionsInv, NEW k \in Made, Made' = Made, lost \subseteq lost',
         \A j \in Made : connection'[j].socket = connection[j].socket,
         \A j \in Made \ {k} : thread'[j] = thread[j],
         lost' = {} =>
           /\ up'
           /\ \A s \in SocketNumber : socketOf'[s] = NoConn => _connectedUsers'[s] = NoUser
           /\ GoodbyeOf(k)'
           /\ \A j \in Made \ {k} :
                /\ connection'[j] = connection[j]
                /\ thread[j].pc # "ended" /\ At(j) = j
                     => socketOf'[connection[j].socket] = socketOf[connection[j].socket]
  PROVE  Goodbyed'
<1> SUFFICES ASSUME lost' = {}, NEW j \in Made PROVE GoodbyeOf(j)'
  BY DEF Goodbyed
<1>1. GoodbyeOf(j)
  BY DEF SessionsInv, Goodbyed
<1>2. CASE j = k
  BY <1>2
<1>3. CASE j # k
  BY <1>1, <1>3 DEF GoodbyeOf, At
<1> QED
  BY <1>2, <1>3

\* What an action keeps that gives no number to anybody and makes nobody known
LEMMA NumbersStay ==
  ASSUME SessionsInv, Made' = Made,
         \A j \in Made : connection'[j].socket = connection[j].socket,
         UNCHANGED <<socketOf, _connectedUsers>>
  PROVE  NumbersLead' /\ UsersKnown'
BY DEF SessionsInv, NumbersLead, UsersKnown

\* Sign-ups come from one action only.
LEMMA SignUpsStay ==
  ASSUME SessionsInv, UNCHANGED <<t_users, signedUp>>
  PROVE  SignUps' /\ SignedUpOnce'
BY DEF SessionsInv, SignUps, SignedUpOnce

-----------------------------------------------------------------------------
(* The actions of the client *)

LEMMA InitSessions == Init => SessionsInv
<1> SUFFICES ASSUME Init PROVE SessionsInv
  OBVIOUS
<1>1. Made = {} /\ connection = <<>> /\ thread = <<>> /\ signedUp = <<>>
  BY DEF Init, Made
<1>2. TypeOK
  BY <1>1, SessionsAssumption DEF Init, TypeOK, User, NoUser, Program, NoConn, Conns
<1>3. NumbersLead /\ UsersKnown /\ Work
  BY <1>1 DEF Init, NumbersLead, UsersKnown, Work
<1>4. ClientsApart /\ InTouch
  BY DEF Init, ClientsApart, InTouch, Kept
<1>5. Goodbyed
  BY <1>1 DEF Init, Goodbyed
<1>6. SignUps /\ SignedUpOnce
  BY <1>1 DEF Init, SignUps, SignedUpOnce
<1> QED
  BY <1>2, <1>3, <1>4, <1>5, <1>6 DEF SessionsInv

LEMMA AskSound ==
  ASSUME SessionsInv, NEW c \in Client, NEW type \in {"signIn", "signUp"}, Ask(c, type)
  PROVE  SessionsInv'
<1>1. TypeOK
  BY DEF SessionsInv
<1>2. /\ client[c].runs /\ client[c].conn # NoConn /\ ~client[c].waits /\ client[c].name = NoName
      /\ client' = [client EXCEPT ![c].waits = TRUE]
      /\ UNCHANGED <<server, thread, history, up>>
  BY DEF Ask, Free
<1>3. PICK k \in Made : k = client[c].conn
  BY <1>2 DEF SessionsInv, ClientsApart
<1>4. connection[k].peer = "open" /\ connection[k].request = NoRequest
  BY <1>3 DEF Ask, Free
<1>5. PICK n \in Name, good \in BOOLEAN :
        connection' = [connection EXCEPT ![k].request = [type |-> type, name |-> n, good |-> good]]
  BY <1>3 DEF Ask, Send
<1> DEFINE r == [type |-> type, name |-> n, good |-> good]
<1>6. r \in Request /\ r.type = type /\ r.name \in Name
  BY DEF Request
<1>7. connection' = [connection EXCEPT ![k].request = r]
  BY <1>5
<1> HIDE DEF r
<1>8. /\ connection' \in Seq(Connection) /\ Len(connection') = Len(connection)
      /\ Made' = Made
      /\ \A j \in Made : /\ connection'[j].socket = connection[j].socket
                         /\ connection'[j].peer = connection[j].peer
                         /\ j # k => connection'[j] = connection[j]
      /\ connection'[k].request = r
  BY <1>1, <1>6, <1>7, RequestWritten
<1>9. /\ client' \in [Client -> Program]
      /\ \A d \in Client \ {c} : client'[d] = client[d]
      /\ client'[c].conn = k /\ client'[c].runs = client[c].runs
      /\ client'[c].waits = TRUE /\ client'[c].name = NoName
  BY <1>1, <1>2, <1>3 DEF TypeOK, Program
<1>10. \A d \in Client : client[d].conn = k => d = c
  BY <1>2, <1>3 DEF SessionsInv, ClientsApart
<1>11. TypeOK'
  BY <1>1, <1>2, <1>8, <1>9 DEF TypeOK, server, history
<1>12. NumbersLead' /\ UsersKnown' /\ SignUps' /\ SignedUpOnce'
  BY <1>2, <1>8, NumbersStay, SignUpsStay DEF server, history
<1>13. ClientsApart'
  BY <1>2, <1>3, <1>8, <1>9, <1>10 DEF SessionsInv, ClientsApart
<1>14. Work'
  <2>1. r.type # "leaveApp" /\ r.name \in Name
    BY <1>6
  <2> QED
    BY <1>2, <1>8, <2>1 DEF SessionsInv, Work
<1>15. Kept(c) => InTouchOf(c)
  BY DEF SessionsInv, InTouch
<1>16. ASSUME NEW d \in Client, client[d].conn = k, Kept(d)' PROVE InTouchOf(d)'
  <2>1. d = c
    BY <1>10, <1>16
  <2>2. Kept(c)
    BY <1>2, <1>3, <1>8, <1>9, <1>16, <2>1, KeptBefore DEF history
  <2>3. PICK s \in SocketNumber : s = connection[k].socket
    BY <1>1, MadeOf
  <2>4. socketOf[s] = k /\ thread[k].pc \in {"first", "recv"} /\ _connectedUsers[s].name = NoName
    BY <1>2, <1>3, <1>15, <2>2, <2>3 DEF InTouchOf, At
  <2>5. _connectedUsers[s] = NoUser
    BY <2>4 DEF SessionsInv, UsersKnown
  <2>6. connection'[k].socket = s /\ connection'[k].peer = "open" /\ r.type \in {"signIn", "signUp"}
    BY <1>4, <1>6, <1>8, <2>3
  <2> QED
    BY <1>2, <1>8, <1>9, <2>1, <2>4, <2>5, <2>6 DEF InTouchOf, At, server
<1>17. InTouch'
  <2>1. \A d \in Client : client[d].conn # k => client'[d] = client[d]
    BY <1>3, <1>9
  <2>2. \A d \in Client : client[d].conn # k /\ Kept(d) =>
          connection'[client[d].conn] = connection[client[d].conn]
    BY <1>8 DEF Kept, SessionsInv, ClientsApart
  <2> QED
    BY <1>2, <1>8, <1>16, <2>1, <2>2, StayInTouch DEF server, history
<1>18. Goodbyed'
  <2>1. lost = {} => GoodbyeOf(k)'
    BY <1>2, <1>4, <1>8 DEF SessionsInv, Goodbyed, GoodbyeOf, At, server
  <2> QED
    BY <1>2, <1>8, <2>1, StayGoodbyed DEF SessionsInv, Goodbyed, server, history
<1> QED
  BY <1>11, <1>12, <1>13, <1>14, <1>17, <1>18 DEF SessionsInv

LEMMA ConnectSound ==
  ASSUME SessionsInv, NEW c \in Client, Connect(c)
  PROVE  SessionsInv'
<1>1. TypeOK
  BY DEF SessionsInv
<1>2. PICK n : n = Len(connection) + 1
  OBVIOUS
<1>3. PICK s \in SocketNumber :
        /\ socketOf[s] = NoConn
        /\ connection' = Append(connection, [socket |-> s, peer |-> "open",
                                             request |-> NoRequest])
        /\ socketOf' = [socketOf EXCEPT ![s] = Len(connection')]
  BY DEF Connect
<1> DEFINE new == [socket |-> s, peer |-> "open", request |-> NoRequest]
           begun == [pc |-> "first", name |-> NoName, deletes |-> 0, after |-> "ended"]
<1>4. /\ up /\ client[c].runs /\ client[c].conn = NoConn /\ Len(connection) < MaxConnections
      /\ thread' = Append(thread, begun)
      /\ client' = [client EXCEPT ![c].conn = Len(connection')]
      /\ UNCHANGED <<_connectedUsers, t_users, history, up>>
  BY DEF Connect
<1>5. /\ NoRequest \in Request /\ NoRequest.type = "none"
      /\ new \in Connection /\ new.socket = s /\ new.peer = "open" /\ new.request = NoRequest
      /\ begun \in Thread /\ begun.pc = "first"
  BY DEF Connection, Request, NoRequest, Thread
<1>6. connection' = Append(connection, new)
  BY <1>3
<1> HIDE DEF new, begun
<1>7. /\ connection \in Seq(Connection) /\ thread \in Seq(Thread)
      /\ Len(thread) = Len(connection) /\ Len(connection) \in Nat
  BY <1>1 DEF TypeOK
<1>8. /\ connection' \in Seq(Connection) /\ Len(connection') = n
      /\ thread' \in Seq(Thread) /\ Len(thread') = n
  BY <1>2, <1>4, <1>5, <1>6, <1>7
<1>9. /\ n \in Conns /\ n # NoConn /\ Made' = 1 .. n /\ Made = 1 .. n - 1 /\ n \notin Made
      /\ Made' = Made \cup {n}
  BY <1>2, <1>4, <1>7, <1>8, SessionsAssumption DEF Made, Conns, NoConn
<1>10. /\ \A j \in Made : connection'[j] = connection[j] /\ thread'[j] = thread[j]
       /\ connection'[n] = new /\ thread'[n] = begun
  BY <1>2, <1>4, <1>5, <1>6, <1>7, <1>9
<1>11. \A t \in SocketNumber : socketOf'[t] = IF t = s THEN n ELSE socketOf[t]
  BY <1>1, <1>3, <1>8 DEF TypeOK
<1>12. client[c].name = NoName /\ ~client[c].waits
  BY <1>4 DEF SessionsInv, ClientsApart
<1>13. /\ client' \in [Client -> Program]
       /\ \A d \in Client \ {c} : client'[d] = client[d]
       /\ client'[c].conn = n /\ client'[c].runs = client[c].runs
       /\ client'[c].waits = client[c].waits /\ client'[c].name = client[c].name
  BY <1>1, <1>4, <1>8, <1>9 DEF TypeOK, Program
<1>14. TypeOK'
  <2>1. socketOf' \in [SocketNumber -> Conns \cup {NoConn}]
    BY <1>1, <1>3, <1>8, <1>9 DEF TypeOK
  <2>2. n <= MaxConnections
    BY <1>2, <1>4, <1>7, SessionsAssumption
  <2>3. lost' \subseteq Made'
    BY <1>1, <1>4, <1>9 DEF TypeOK, history
  <2> QED
    BY <1>1, <1>4, <1>8, <1>13, <2>1, <2>2, <2>3 DEF TypeOK, history
<1>15. \A j \in Made : connection[j].socket = s =>
         \A t \in SocketNumber \ {s} : connection[j].socket # t
  OBVIOUS
<1>16. NumbersLead'
  <2> SUFFICES ASSUME NEW t \in SocketNumber, socketOf'[t] # NoConn
               PROVE  /\ socketOf'[t] \in Made' /\ connection'[socketOf'[t]].socket = t
                      /\ \A j \in Made' : connection'[j].socket = t => j <= socketOf'[t]
    BY DEF NumbersLead
  <2>1. CASE t = s
    <3>1. \A j \in Made' : j <= n
      BY <1>2, <1>7, <1>9
    <3> QED
      BY <1>5, <1>9, <1>10, <1>11, <2>1, <3>1
  <2>2. CASE t # s
    BY <1>5, <1>9, <1>10, <1>11, <2>2 DEF SessionsInv, NumbersLead
  <2> QED
    BY <2>1, <2>2
<1>17. UsersKnown'
  <2>1. \A j \in Made : connection'[j].socket = connection[j].socket /\ j \in Made'
    BY <1>9, <1>10
  <2> QED
    BY <1>4, <2>1 DEF SessionsInv, UsersKnown
<1>18. ClientsApart'
  <2>1. \A d \in Client \ {c} : client[d].conn # n
    BY <1>9 DEF SessionsInv, ClientsApart
  <2> QED
    BY <1>9, <1>13, <2>1 DEF SessionsInv, ClientsApart
<1>19. Work'
  BY <1>5, <1>9, <1>10 DEF SessionsInv, Work
<1>20. SignUps' /\ SignedUpOnce'
  BY <1>4, SignUpsStay DEF history
<1>21. ASSUME NEW d \in Client \ {c}, Kept(d)' PROVE InTouchOf(d)'
  <2>1. ASSUME Kept(d)
        PROVE  socketOf'[connection[client[d].conn].socket]
                 = socketOf[connection[client[d].conn].socket]
    <3>1. PICK j \in Made : j = client[d].conn
      BY <2>1 DEF SessionsInv, ClientsApart, Kept
    <3>2. connection[j].socket \in SocketNumber
      BY <1>1, MadeOf
    <3>3. socketOf[connection[j].socket] = j /\ j # NoConn
      BY <2>1, <3>1 DEF SessionsInv, InTouch, InTouchOf, At, Kept
    <3>4. connection[j].socket # s
      BY <1>3, <3>3
    <3> QED
      BY <1>11, <3>1, <3>2, <3>4
  <2>2. Kept(d) => client[d].conn \in Made
    BY DEF SessionsInv, ClientsApart, Kept
  <2>3. lost' = lost /\ _connectedUsers' = _connectedUsers
    BY <1>4 DEF history
  <2>4. client'[d] = client[d]
    BY <1>13
  <2>5. \A j \in Made : connection'[j].socket = connection[j].socket
    BY <1>10
  <2>6. Kept(d) => /\ connection'[client[d].conn] = connection[client[d].conn]
                   /\ thread'[client[d].conn] = thread[client[d].conn]
    BY <1>10, <2>2
  <2> QED
    BY <1>21, <2>1, <2>3, <2>4, <2>5, <2>6, StaysInTouch
<1>22. ASSUME Kept(c)' PROVE InTouchOf(c)'
  <2>1. lost = {} \/ \A j \in 1 .. n - 1 : connection'[j].socket # connection'[n].socket
    BY <1>4, <1>13, <1>22 DEF Kept, OutOfReach, FirstAtItsNumber, history
  <2>2. lost = {} \/ \A j \in Made : connection[j].socket # s
    BY <1>5, <1>9, <1>10, <2>1
  <2>3. _connectedUsers[s] = NoUser
    BY <1>3, <2>2 DEF SessionsInv, Goodbyed, UsersKnown
  <2>4. _connectedUsers'[s].name = NoName
    BY <1>4, <2>3 DEF NoUser
  <2> QED
    BY <1>5, <1>10, <1>11, <1>12, <1>13, <2>4 DEF InTouchOf, At
<1>23. InTouch'
  BY <1>21, <1>22 DEF InTouch
<1>24. Goodbyed'
  <2> SUFFICES ASSUME lost = {} PROVE Goodbyed'
    BY <1>4 DEF Goodbyed, history
  <2>1. \A t \in SocketNumber : socketOf'[t] = NoConn => _connectedUsers'[t] = NoUser
    BY <1>4, <1>9, <1>11 DEF SessionsInv, Goodbyed
  <2>2. GoodbyeOf(n)'
    BY <1>5, <1>9, <1>10, <1>11 DEF GoodbyeOf, At
  <2>3. ASSUME NEW j \in Made PROVE GoodbyeOf(j)'
    <3>1. GoodbyeOf(j) /\ connection[j].socket \in SocketNumber /\ j # NoConn
      BY <1>1, MadeOf DEF SessionsInv, Goodbyed
    <3>2. thread[j].pc # "ended" => socketOf'[connection[j].socket] = j
      BY <1>3, <1>11, <3>1 DEF GoodbyeOf, At
    <3> QED
      BY <1>10, <3>1, <3>2 DEF GoodbyeOf, At
  <2> QED
    BY <1>4, <1>9, <2>1, <2>2, <2>3 DEF Goodbyed
<1> QED
  BY <1>14, <1>16, <1>17, <1>18, <1>19, <1>20, <1>23, <1>24 DEF SessionsInv

LEMMA SignOutSound ==
  ASSUME SessionsInv, NEW c \in Client, SignOut(c)
  PROVE  SessionsInv'
<1>1. TypeOK
  BY DEF SessionsInv
<1>2. /\ client[c].runs /\ client[c].conn # NoConn /\ ~client[c].waits
      /\ client' = [client EXCEPT ![c].conn = NoConn, ![c].name = NoName]
      /\ UNCHANGED <<server, thread, history, up>>
  BY DEF SignOut, Free
<1>3. PICK k \in Made : k = client[c].conn
  BY <1>2 DEF SessionsInv, ClientsApart
<1>4. connection[k].peer = "open"
  BY <1>3 DEF SignOut, Free
<1> DEFINE r == [NoRequest EXCEPT !.type = "signOut"]
<1>5. r \in Request /\ r.type = "signOut"
  BY DEF Request, NoRequest
<1>6. connection' = [connection EXCEPT ![k].request = r]
  BY <1>3 DEF SignOut, Send
<1> HIDE DEF r
<1>7. /\ connection' \in Seq(Connection) /\ Len(connection') = Len(connection)
      /\ Made' = Made
      /\ \A j \in Made : /\ connection'[j].socket = connection[j].socket
                         /\ connection'[j].peer = connection[j].peer
                         /\ j # k => connection'[j] = connection[j]
      /\ connection'[k].request = r
  BY <1>1, <1>5, <1>6, RequestWritten
<1>8. /\ client' \in [Client -> Program]
      /\ \A d \in Client \ {c} : client'[d] = client[d]
      /\ client'[c].conn = NoConn /\ client'[c].runs = client[c].runs
      /\ client'[c].waits = client[c].waits /\ client'[c].name = NoName
  <2>1. client[c] \in Program
    BY <1>1 DEF TypeOK
  <2> QED
    BY <1>1, <1>2, <2>1 DEF TypeOK, Program
<1>9. \A d \in Client : client[d].conn = k => d = c
  BY <1>2, <1>3 DEF SessionsInv, ClientsApart
<1>10. TypeOK'
  BY <1>1, <1>2, <1>7, <1>8 DEF TypeOK, server, history
<1>11. NumbersLead' /\ UsersKnown' /\ SignUps' /\ SignedUpOnce'
  BY <1>2, <1>7, NumbersStay, SignUpsStay DEF server, history
<1>12. ClientsApart'
  BY <1>2, <1>7, <1>8 DEF SessionsInv, ClientsApart
<1>13. Work'
  BY <1>2, <1>5, <1>7 DEF SessionsInv, Work
<1>14. InTouch'
  <2>1. \A d \in Client : client[d].conn # k => client'[d] = client[d]
    BY <1>3, <1>8
  <2>2. \A d \in Client : client[d].conn # k /\ Kept(d) =>
          connection'[client[d].conn] = connection[client[d].conn]
    BY <1>7 DEF Kept, SessionsInv, ClientsApart
  <2>3. \A d \in Client : client[d].conn = k => ~Kept(d)'
    BY <1>8, <1>9 DEF Kept
  <2> QED
    BY <1>2, <1>7, <2>1, <2>2, <2>3, StayInTouch DEF server, history
<1>15. Goodbyed'
  <2>1. lost = {} => GoodbyeOf(k)'
    BY <1>2, <1>4, <1>7 DEF SessionsInv, Goodbyed, GoodbyeOf, At, server
  <2> QED
    BY <1>2, <1>7, <2>1, StayGoodbyed DEF SessionsInv, Goodbyed, server, history
<1> QED
  BY <1>10, <1>11, <1>12, <1>13, <1>14, <1>15 DEF SessionsInv

LEMMA CloseForgottenSound ==
  ASSUME SessionsInv, NEW k \in Made, CloseForgotten(k)
  PROVE  SessionsInv'
<1>1. TypeOK
  BY DEF SessionsInv
<1>2. /\ connection' = [connection EXCEPT ![k].peer = "closed"]
      /\ lost' = lost \cup {k} /\ \A c \in Client : client[c].conn # k
      /\ UNCHANGED <<server, thread, client, signedUp, up>>
  BY DEF CloseForgotten
<1>3. /\ connection' \in Seq(Connection) /\ Len(connection') = Len(connection)
      /\ Made' = Made
      /\ \A j \in Made : /\ connection'[j].socket = connection[j].socket
                         /\ connection'[j].request = connection[j].request
                         /\ j # k => connection'[j] = connection[j]
      /\ connection'[k].peer = "closed"
  BY <1>1, <1>2, PeerWritten DEF Peers
<1>4. TypeOK'
  BY <1>1, <1>2, <1>3 DEF TypeOK, server
<1>5. NumbersLead' /\ UsersKnown' /\ SignUps' /\ SignedUpOnce'
  BY <1>2, <1>3, NumbersStay, SignUpsStay DEF server
<1>6. ClientsApart'
  BY <1>2, <1>3 DEF SessionsInv, ClientsApart
<1>7. Work'
  BY <1>2, <1>3 DEF SessionsInv, Work
<1>8. InTouch'
  <2>1. \A d \in Client : Kept(d) => connection'[client[d].conn] = connection[client[d].conn]
    BY <1>2, <1>3 DEF Kept, SessionsInv, ClientsApart
  <2> QED
    BY <1>2, <1>3, <2>1, StayInTouch DEF server
<1>9. Goodbyed'
  BY <1>2 DEF Goodbyed
<1> QED
  BY <1>4, <1>5, <1>6, <1>7, <1>8, <1>9 DEF SessionsInv

LEMMA QuitSound ==
  ASSUME SessionsInv, NEW c \in Client, Quit(c)
  PROVE  SessionsInv'
<1>1. TypeOK
  BY DEF SessionsInv
<1>2. /\ client[c].runs /\ client[c].conn # NoConn /\ ~client[c].waits
      /\ client' = [client EXCEPT ![c].runs = FALSE]
      /\ UNCHANGED <<server, thread, history, up>>
  BY DEF Quit, Free
<1>3. PICK k \in Made : k = client[c].conn
  BY <1>2 DEF SessionsInv, ClientsApart
<1> DEFINE r == [NoRequest EXCEPT !.type = "leaveApp"]
<1>4. r \in Request /\ r.type = "leaveApp"
  BY DEF Request, NoRequest
<1>5. connection' = [connection EXCEPT ![k].peer = "closed", ![k].request = r]
  <2>1. connection' = [connection EXCEPT ![k].request = r, ![k].peer = "closed"]
    BY <1>3 DEF Quit
  <2> HIDE DEF r
  <2> QED
    BY <1>1, <2>1, MadeOf DEF Connection
<1> HIDE DEF r
<1>6. /\ connection' \in Seq(Connection) /\ Len(connection') = Len(connection)
      /\ Made' = Made
      /\ \A j \in Made : /\ connection'[j].socket = connection[j].socket
                         /\ j # k => connection'[j] = connection[j]
      /\ connection'[k].peer = "closed" /\ connection'[k].request = r
  BY <1>1, <1>4, <1>5, BothWritten DEF Peers
<1>7. /\ client' \in [Client -> Program]
      /\ \A d \in Client \ {c} : client'[d] = client[d]
      /\ client'[c].conn = k /\ client'[c].runs = FALSE
      /\ client'[c].waits = client[c].waits /\ client'[c].name = client[c].name
  <2>1. client[c] \in Program
    BY <1>1 DEF TypeOK
  <2> QED
    BY <1>1, <1>2, <1>3, <2>1 DEF TypeOK, Program
<1>8. \A d \in Client : client[d].conn = k => d = c
  BY <1>2, <1>3 DEF SessionsInv, ClientsApart
<1>9. TypeOK'
  BY <1>1, <1>2, <1>6, <1>7 DEF TypeOK, server, history
<1>10. NumbersLead' /\ UsersKnown' /\ SignUps' /\ SignedUpOnce'
  BY <1>2, <1>6, NumbersStay, SignUpsStay DEF server, history
<1>11. ClientsApart'
  BY <1>2, <1>3, <1>6, <1>7 DEF SessionsInv, ClientsApart
<1>12. Work'
  BY <1>2, <1>4, <1>6 DEF SessionsInv, Work
<1>13. InTouch'
  <2>1. \A d \in Client : client[d].conn # k => client'[d] = client[d]
    BY <1>3, <1>7
  <2>2. \A d \in Client : client[d].conn # k /\ Kept(d) =>
          connection'[client[d].conn] = connection[client[d].conn]
    BY <1>6 DEF Kept, SessionsInv, ClientsApart
  <2>3. \A d \in Client : client[d].conn = k => ~Kept(d)'
    BY <1>7, <1>8 DEF Kept
  <2> QED
    BY <1>2, <1>6, <2>1, <2>2, <2>3, StayInTouch DEF server, history
<1>14. Goodbyed'
  <2>1. ASSUME lost = {} PROVE GoodbyeOf(k)'
    <3>1. InTouchOf(c)
      BY <1>2, <2>1 DEF SessionsInv, InTouch, Kept, OutOfReach
    <3>2. At(k) = k /\ thread[k].pc \in {"first", "recv"}
      BY <1>2, <1>3, <3>1 DEF InTouchOf
    <3>3. At(k)' = At(k) /\ thread'[k] = thread[k]
      BY <1>2, <1>6 DEF At, server
    <3> QED
      BY <1>4, <1>6, <3>2, <3>3 DEF GoodbyeOf
  <2> QED
    BY <1>2, <1>6, <2>1, StayGoodbyed DEF SessionsInv, Goodbyed, server, history
<1> QED
  BY <1>9, <1>10, <1>11, <1>12, <1>13, <1>14 DEF SessionsInv

LEMMA VanishSound ==
  ASSUME SessionsInv, NEW c \in Client, Vanish(c)
  PROVE  SessionsInv'
<1>1. TypeOK
  BY DEF SessionsInv
<1>2. PICK k \in Made : k = client[c].conn
  BY DEF SessionsInv, ClientsApart, Vanish
<1>3. /\ client[c].runs /\ client[c].conn # NoConn
      /\ connection' = [connection EXCEPT ![k].peer = "reset", ![k].request = NoRequest]
      /\ client' = [client EXCEPT ![c].runs = FALSE, ![c].waits = FALSE]
      /\ lost' = lost \cup {k}
      /\ UNCHANGED <<server, thread, signedUp, up>>
  BY <1>2 DEF Vanish
<1>4. NoRequest \in Request /\ NoRequest.type = "none"
  BY DEF Request, NoRequest
<1>5. /\ connection' \in Seq(Connection) /\ Len(connection') = Len(connection)
      /\ Made' = Made
      /\ \A j \in Made : /\ connection'[j].socket = connection[j].socket
                         /\ j # k => connection'[j] = connection[j]
      /\ connection'[k].request = NoRequest
  BY <1>1, <1>3, <1>4, BothWritten DEF Peers
<1>6. /\ client' \in [Client -> Program]
      /\ \A d \in Client \ {c} : client'[d] = client[d]
      /\ client'[c].conn = k /\ client'[c].runs = FALSE
      /\ client'[c].waits = FALSE /\ client'[c].name = client[c].name
  <2>1. client[c] \in Program
    BY <1>1 DEF TypeOK
  <2> QED
    BY <1>1, <1>2, <1>3, <2>1 DEF TypeOK, Program
<1>7. \A d \in Client : client[d].conn = k => d = c
  BY <1>2, <1>3 DEF SessionsInv, ClientsApart
<1>8. TypeOK'
  BY <1>1, <1>3, <1>5, <1>6 DEF TypeOK, server
<1>9. NumbersLead' /\ UsersKnown' /\ SignUps' /\ SignedUpOnce'
  BY <1>3, <1>5, NumbersStay, SignUpsStay DEF server
<1>10. ClientsApart'
  BY <1>2, <1>3, <1>5, <1>6 DEF SessionsInv, ClientsApart
<1>11. Work'
  <2>1. Work /\ thread' = thread
    BY <1>3 DEF SessionsInv
  <2> SUFFICES ASSUME NEW j \in Made
               PROVE  /\ connection'[j].request.type = "signUp"
                           => connection'[j].request.name \in Name
                      /\ connection'[j].request.type = "leaveApp"
                           => connection'[j].peer = "closed"
                      /\ thread[j].pc \in {"insert", "add"} => thread[j].name \in Name
                      /\ thread[j].pc = "delete" => thread[j].deletes \in {1, 2}
    BY <1>5, <2>1 DEF Work
  <2>2. CASE j = k
    BY <1>4, <1>5, <2>1, <2>2 DEF Work
  <2>3. CASE j # k
    BY <1>5, <2>1, <2>3 DEF Work
  <2> QED
    BY <2>2, <2>3
<1>12. InTouch'
  <2>1. \A d \in Client : client[d].conn # k => client'[d] = client[d]
    BY <1>2, <1>6
  <2>2. \A d \in Client : client[d].conn # k /\ Kept(d) =>
          connection'[client[d].conn] = connection[client[d].conn]
    BY <1>5 DEF Kept, SessionsInv, ClientsApart
  <2>3. \A d \in Client : client[d].conn = k => ~Kept(d)'
    BY <1>6, <1>7 DEF Kept
  <2> QED
    BY <1>3, <1>5, <2>1, <2>2, <2>3, StayInTouch DEF server
<1>13. Goodbyed'
  BY <1>3 DEF Goodbyed
<1> QED
  BY <1>8, <1>9, <1>10, <1>11, <1>12, <1>13 DEF SessionsInv

-----------------------------------------------------------------------------
(* The actions of a thread *)

\* The thread of connection k is at work.
Busy(k) == thread[k].pc \in Places \ {"ended"}

\* What a thread at work can reach: nothing of any other client that is kept.
LEMMA Reached ==
  ASSUME SessionsInv, NEW k \in Made, Busy(k)
  PROVE  /\ At(k) # NoConn => At(k) \in Made
         /\ lost = {} => At(k) = k /\ k # NoConn /\ up /\ GoodbyeOf(k)
         /\ \A d \in Client : client[d].conn = k /\ Kept(d) => InTouchOf(d) /\ At(k) = k
         /\ \A d \in Client : client[d].conn # k /\ Kept(d) =>
              /\ client[d].conn # At(k)
              /\ connection[client[d].conn].socket # connection[k].socket
<1>1. PICK s \in SocketNumber : s = connection[k].socket
  BY MadeOf DEF SessionsInv
<1>2. At(k) # NoConn => At(k) \in Made /\ connection[At(k)].socket = s
  BY <1>1 DEF SessionsInv, NumbersLead, At
<1>3. thread[k].pc # "ended"
  BY DEF Busy, Places
<1>4. lost = {} => At(k) = k /\ k # NoConn /\ up /\ GoodbyeOf(k)
  BY <1>3, MadeOf DEF SessionsInv, Goodbyed, GoodbyeOf
<1>5. \A d \in Client : client[d].conn = k /\ Kept(d) => InTouchOf(d) /\ At(k) = k
  BY DEF SessionsInv, InTouch, InTouchOf
<1>6. ASSUME NEW d \in Client, client[d].conn # k, Kept(d)
      PROVE  /\ client[d].conn # At(k)
             /\ connection[client[d].conn].socket # connection[k].socket
  <2>1. connection[client[d].conn].socket # connection[k].socket
    BY <1>3, <1>6, Alone
  <2>2. client[d].conn # NoConn
    BY <1>6 DEF Kept
  <2> QED
    BY <1>1, <1>2, <2>1, <2>2
<1> QED
  BY <1>2, <1>4, <1>5, <1>6

\* What an action of the thread of k keeps, by what it writes
LEMMA ThreadActs ==
  ASSUME SessionsInv, NEW k \in Made, Busy(k), Made' = Made, lost' = lost,
         \A j \in Made : connection'[j].socket = connection[j].socket,
         \A j \in Made : j # At(k) => connection'[j] = connection[j],
         \A j \in Made \ {k} : thread'[j] = thread[j],
         \A s \in SocketNumber : s # connection[k].socket =>
           socketOf'[s] = socketOf[s] /\ _connectedUsers'[s] = _connectedUsers[s],
         \A d \in Client :
           /\ client'[d].conn = client[d].conn /\ client'[d].runs = client[d].runs
           /\ client[d].conn # At(k) \/ client[d].conn = NoConn => client'[d] = client[d],
         lost = {} =>
           /\ up' /\ GoodbyeOf(k)'
           /\ socketOf'[connection[k].socket] = NoConn
                => _connectedUsers'[connection[k].socket] = NoUser,
         \A d \in Client : client[d].conn = k /\ Kept(d)' => InTouchOf(d)'
  PROVE  ClientsApart' /\ InTouch' /\ Goodbyed'
<1>1. /\ lost = {} => At(k) = k
      /\ \A d \in Client : client[d].conn # k /\ Kept(d) =>
           /\ client[d].conn # At(k)
           /\ connection[client[d].conn].socket # connection[k].socket
  BY Reached
<1>2. ClientsApart'
  BY DEF SessionsInv, ClientsApart
<1>3. InTouch'
  <2>1. ASSUME NEW d \in Client, client[d].conn # k, Kept(d)
        PROVE  /\ client'[d] = client[d]
               /\ connection'[client[d].conn] = connection[client[d].conn]
               /\ socketOf'[connection[client[d].conn].socket]
                    = socketOf[connection[client[d].conn].socket]
               /\ _connectedUsers'[connection[client[d].conn].socket]
                    = _connectedUsers[connection[client[d].conn].socket]
    <3>1. PICK j \in Made : j = client[d].conn
      BY <2>1 DEF SessionsInv, ClientsApart, Kept
    <3>2. connection[j].socket \in SocketNumber
      BY MadeOf DEF SessionsInv
    <3>3. j # At(k) /\ connection[j].socket # connection[k].socket
      BY <1>1, <2>1, <3>1
    <3> QED
      BY <3>1, <3>2, <3>3
  <2> QED
    BY <2>1, StayInTouch
<1>4. Goodbyed'
  <2> SUFFICES ASSUME lost = {} PROVE Goodbyed'
    BY DEF Goodbyed
  <2>1. PICK r \in SocketNumber : r = connection[k].socket
    BY MadeOf DEF SessionsInv
  <2>2. socketOf[r] = k
    BY <1>1, <2>1 DEF At
  <2>3. \A s \in SocketNumber : socketOf'[s] = NoConn => _connectedUsers'[s] = NoUser
    BY <2>1 DEF SessionsInv, Goodbyed
  <2>4. \A j \in Made \ {k} :
          /\ connection'[j] = connection[j]
          /\ thread[j].pc # "ended" /\ At(j) = j
               => socketOf'[connection[j].socket] = socketOf[connection[j].socket]
    <3> SUFFICES ASSUME NEW j \in Made \ {k}
                 PROVE  /\ connection'[j] = connection[j]
                        /\ At(j) = j => socketOf'[connection[j].socket] = socketOf[connection[j].socket]
      OBVIOUS
    <3>1. connection[j].socket \in SocketNumber
      BY MadeOf DEF SessionsInv
    <3>2. At(j) = j => connection[j].socket # r
      BY <2>2 DEF At
    <3> QED
      BY <1>1, <2>1, <3>1, <3>2
  <2> QED
    BY <2>3, <2>4, StayGoodbyed
<1> QED
  BY <1>2, <1>3, <1>4

\* Taking a request leaves the rest of the connection it is taken from.
LEMMA RequestTaken ==
  ASSUME TypeOK, NEW k \in Made, At(k) \in Made, Take(k)
  PROVE  /\ connection' \in Seq(Connection) /\ Len(connection') = Len(connection)
         /\ Made' = Made
         /\ \A j \in Made : /\ connection'[j].socket = connection[j].socket
                            /\ connection'[j].peer = connection[j].peer
                            /\ j # At(k) => connection'[j] = connection[j]
         /\ connection'[At(k)].request = NoRequest
<1>1. PICK j \in Made : j = At(k)
  OBVIOUS
<1>2. connection' = [connection EXCEPT ![j].request = NoRequest]
  BY <1>1 DEF Take
<1>3. NoRequest \in Request
  BY DEF NoRequest, Request
<1> QED
  BY <1>1, <1>2, <1>3, RequestWritten

LEMMA RecvThrowsSound ==
  ASSUME SessionsInv, NEW k \in Made, RecvThrows(k)
  PROVE  SessionsInv'
<1>1. TypeOK
  BY DEF SessionsInv
<1>2. /\ thread[k].pc \in {"first", "recv"}
      /\ At(k) # NoConn => connection[At(k)].peer = "reset"
      /\ UNCHANGED <<server, connection, client, history>>
  BY DEF RecvThrows, MayTake
<1>3. Busy(k)
  BY <1>2 DEF Busy, Places
<1>4. /\ thread' \in Seq(Thread) /\ Len(thread') = Len(thread)
      /\ \A j \in Made \ {k} : thread'[j] = thread[j]
      /\ \/ thread'[k] = thread[k]
         \/ thread'[k].pc = "delete" /\ thread'[k].deletes = 2
      /\ up' \in BOOLEAN
  <2>1. CASE Delete(k, 2, "ended") /\ UNCHANGED up
    BY <1>1, <2>1, ThreadDeletes DEF TypeOK
  <2>2. CASE up' = FALSE /\ UNCHANGED thread
    <3>1. thread' = thread /\ up' \in BOOLEAN
      BY <2>2
    <3>2. thread' \in Seq(Thread) /\ Len(thread') = Len(thread)
      BY <1>1, <3>1 DEF TypeOK
    <3>3. thread'[k] = thread[k] /\ \A j \in Made \ {k} : thread'[j] = thread[j]
      BY <3>1
    <3> QED
      BY <3>1, <3>2, <3>3
  <2> QED
    BY <2>1, <2>2 DEF RecvThrows
<1>5. Made' = Made
  BY <1>2 DEF Made
<1>6. TypeOK'
  BY <1>1, <1>2, <1>4 DEF TypeOK, Made, server, history
<1>7. NumbersLead' /\ UsersKnown' /\ SignUps' /\ SignedUpOnce'
  BY <1>2, <1>5, NumbersStay, SignUpsStay DEF server, history
<1>8. Work'
  BY <1>2, <1>4, <1>5 DEF SessionsInv, Work
<1>9. lost # {}
  BY <1>2, <1>3, Reached DEF GoodbyeOf
<1>10. ASSUME NEW d \in Client, client[d].conn = k, Kept(d)' PROVE InTouchOf(d)'
  <2>1. Kept(d)
    BY <1>2, <1>10 DEF Kept, OutOfReach, FirstAtItsNumber, history
  <2>2. At(k) = k /\ connection[k].peer = "open" /\ k # NoConn
    BY <1>3, <1>10, <2>1, Reached DEF InTouchOf, Kept
  <2> QED
    BY <1>2, <2>2
<1>11. ClientsApart' /\ InTouch' /\ Goodbyed'
  BY <1>2, <1>3, <1>4, <1>5, <1>9, <1>10, ThreadActs DEF server, history
<1> QED
  BY <1>6, <1>7, <1>8, <1>11 DEF SessionsInv

LEMMA RecvNothingSound ==
  ASSUME SessionsInv, NEW k \in Made, RecvNothing(k)
  PROVE  SessionsInv'
<1>1. TypeOK
  BY DEF SessionsInv
<1>2. /\ thread[k].pc \in {"first", "recv"}
      /\ At(k) # NoConn /\ connection[At(k)].peer = "closed"
      /\ connection[At(k)].request.type = "none"
      /\ UNCHANGED <<server, connection, client, history>>
  BY DEF RecvNothing, MayTake, Pending
<1>3. Busy(k)
  BY <1>2 DEF Busy, Places
<1>4. /\ thread' \in Seq(Thread) /\ Len(thread') = Len(thread)
      /\ \A j \in Made \ {k} : thread'[j] = thread[j]
      /\ thread'[k] = thread[k] \/ thread'[k].pc = "recv"
      /\ up' \in BOOLEAN
  <2>1. CASE Goto(k, "recv") /\ UNCHANGED up
    BY <1>1, <2>1, ThreadGoes DEF TypeOK, Places
  <2>2. CASE up' = FALSE /\ UNCHANGED thread
    BY <1>1, <2>2 DEF TypeOK
  <2> QED
    BY <2>1, <2>2 DEF RecvNothing
<1>5. Made' = Made
  BY <1>2 DEF Made
<1>6. TypeOK'
  BY <1>1, <1>2, <1>4 DEF TypeOK, Made, server, history
<1>7. NumbersLead' /\ UsersKnown' /\ SignUps' /\ SignedUpOnce'
  BY <1>2, <1>5, NumbersStay, SignUpsStay DEF server, history
<1>8. Work'
  BY <1>2, <1>4, <1>5 DEF SessionsInv, Work
<1>9. lost # {}
  BY <1>2, <1>3, Reached DEF GoodbyeOf
<1>10. ASSUME NEW d \in Client, client[d].conn = k, Kept(d)' PROVE InTouchOf(d)'
  <2>1. Kept(d)
    BY <1>2, <1>10 DEF Kept, OutOfReach, FirstAtItsNumber, history
  <2>2. At(k) = k /\ connection[k].peer = "open"
    BY <1>3, <1>10, <2>1, Reached DEF InTouchOf
  <2> QED
    BY <1>2, <2>2
<1>11. ClientsApart' /\ InTouch' /\ Goodbyed'
  BY <1>2, <1>3, <1>4, <1>5, <1>9, <1>10, ThreadActs DEF server, history
<1> QED
  BY <1>6, <1>7, <1>8, <1>11 DEF SessionsInv

LEMMA HandleSignoutSound ==
  ASSUME SessionsInv, NEW k \in Made, HandleSignout(k)
  PROVE  SessionsInv'
<1>1. TypeOK
  BY DEF SessionsInv
<1>2. /\ thread[k].pc \in {"first", "recv"}
      /\ At(k) # NoConn /\ connection[At(k)].request.type = "signOut" /\ Take(k)
      /\ Goto(k, "recv")
      /\ UNCHANGED <<socketOf, t_users, client, history, up>>
  BY DEF HandleSignout, MayTake, Pending
<1>3. Busy(k)
  BY <1>2 DEF Busy, Places
<1>4. PICK j \in Made : j = At(k)
  BY <1>2, <1>3, Reached
<1>5. /\ connection' \in Seq(Connection) /\ Len(connection') = Len(connection)
      /\ Made' = Made
      /\ \A i \in Made : /\ connection'[i].socket = connection[i].socket
                         /\ connection'[i].peer = connection[i].peer
                         /\ i # j => connection'[i] = connection[i]
      /\ connection'[j].request = NoRequest
  BY <1>1, <1>2, <1>4, RequestTaken
<1>6. /\ thread' \in Seq(Thread) /\ Len(thread') = Len(thread)
      /\ \A i \in Made \ {k} : thread'[i] = thread[i]
      /\ thread'[k].pc = "recv"
  BY <1>1, <1>2, ThreadGoes DEF Places
<1>7. PICK s \in SocketNumber : s = connection[k].socket
  BY <1>1, MadeOf
<1>8. /\ _connectedUsers' \in [SocketNumber -> User]
      /\ \A t \in SocketNumber : _connectedUsers'[t] = IF t = s THEN NoUser ELSE _connectedUsers[t]
  <2>1. _connectedUsers' = [_connectedUsers EXCEPT ![s] = NoUser]
    BY <1>7 DEF HandleSignout, Unlisted, Erased
  <2> QED
    BY <1>1, <2>1 DEF TypeOK, User, NoUser
<1>9. TypeOK'
  BY <1>1, <1>2, <1>5, <1>6, <1>8 DEF TypeOK, history
<1>10. NumbersLead' /\ UsersKnown'
  BY <1>2, <1>5, <1>8 DEF SessionsInv, NumbersLead, UsersKnown
<1>11. SignUps' /\ SignedUpOnce'
  BY <1>2, SignUpsStay DEF history
<1>12. Work'
  BY <1>2, <1>5, <1>6 DEF SessionsInv, Work, NoRequest
<1>13. ASSUME NEW d \in Client, client[d].conn = k, Kept(d)' PROVE InTouchOf(d)'
  <2>1. Kept(d)
    BY <1>2, <1>5, <1>13, KeptBefore DEF history
  <2>2. j = k /\ InTouchOf(d)
    BY <1>3, <1>4, <1>13, <2>1, Reached
  <2> QED
    BY <1>2, <1>4, <1>13, <2>2 DEF InTouchOf, NoRequest
<1>14. lost = {} => up' /\ GoodbyeOf(k)' /\ socketOf'[s] # NoConn
  <2> SUFFICES ASSUME lost = {} PROVE up' /\ GoodbyeOf(k)' /\ socketOf'[s] # NoConn
    OBVIOUS
  <2>1. j = k /\ k # NoConn /\ up /\ GoodbyeOf(k)
    BY <1>3, <1>4, Reached
  <2>2. connection[k].peer \notin {"reset", "closed"}
    BY <1>2, <1>4, <2>1 DEF GoodbyeOf
  <2>3. socketOf[s] = k
    BY <1>4, <1>7, <2>1 DEF At
  <2> QED
    BY <1>2, <1>5, <1>6, <1>7, <2>1, <2>2, <2>3 DEF GoodbyeOf, At
<1>15. ClientsApart' /\ InTouch' /\ Goodbyed'
  <2>1. \A t \in SocketNumber : t # connection[k].socket =>
          socketOf'[t] = socketOf[t] /\ _connectedUsers'[t] = _connectedUsers[t]
    BY <1>2, <1>7, <1>8
  <2>2. lost' = lost /\ client' = client
    BY <1>2 DEF history
  <2> QED
    BY <1>3, <1>4, <1>5, <1>6, <1>7, <1>13, <1>14, <2>1, <2>2, ThreadActs
<1> QED
  BY <1>9, <1>10, <1>11, <1>12, <1>15 DEF SessionsInv

LEMMA HandleLeaveAppSound ==
  ASSUME SessionsInv, NEW k \in Made, HandleLeaveApp(k)
  PROVE  SessionsInv'
<1>1. TypeOK
  BY DEF SessionsInv
<1>2. /\ thread[k].pc \in {"first", "recv"}
      /\ At(k) # NoConn /\ connection[At(k)].request.type = "leaveApp" /\ Take(k)
      /\ Delete(k, 1, "ended")
      /\ UNCHANGED <<server, client, history, up>>
  BY DEF HandleLeaveApp, MayTake, Pending, Goodbyes
<1>3. Busy(k)
  BY <1>2 DEF Busy, Places
<1>4. PICK j \in Made : j = At(k)
  BY <1>2, <1>3, Reached
<1>5. /\ connection' \in Seq(Connection) /\ Len(connection') = Len(connection)
      /\ Made' = Made
      /\ \A i \in Made : /\ connection'[i].socket = connection[i].socket
                         /\ connection'[i].peer = connection[i].peer
                         /\ i # j => connection'[i] = connection[i]
      /\ connection'[j].request = NoRequest
  BY <1>1, <1>2, <1>4, RequestTaken
<1>6. /\ thread' \in Seq(Thread) /\ Len(thread') = Len(thread)
      /\ \A i \in Made \ {k} : thread'[i] = thread[i]
      /\ thread'[k].pc = "delete" /\ thread'[k].deletes = 1 /\ thread'[k].after = "ended"
  BY <1>1, <1>2, ThreadDeletes
<1>7. TypeOK'
  BY <1>1, <1>2, <1>5, <1>6 DEF TypeOK, history, server
<1>8. NumbersLead' /\ UsersKnown' /\ SignUps' /\ SignedUpOnce'
  BY <1>2, <1>5, NumbersStay, SignUpsStay DEF server, history
<1>9. Work'
  BY <1>2, <1>5, <1>6 DEF SessionsInv, Work, NoRequest
<1>10. ASSUME NEW d \in Client, client[d].conn = k, Kept(d)' PROVE InTouchOf(d)'
  <2>1. Kept(d)
    BY <1>2, <1>5, <1>10, KeptBefore DEF history
  <2>2. j = k /\ InTouchOf(d)
    BY <1>3, <1>4, <1>10, <2>1, Reached
  <2> QED
    BY <1>2, <1>4, <1>10, <2>2 DEF InTouchOf, NoRequest
<1>11. lost = {} => up' /\ GoodbyeOf(k)' /\ socketOf'[connection[k].socket] # NoConn
  <2> SUFFICES ASSUME lost = {}
               PROVE  up' /\ GoodbyeOf(k)' /\ socketOf'[connection[k].socket] # NoConn
    OBVIOUS
  <2>1. j = k /\ k # NoConn /\ up /\ GoodbyeOf(k)
    BY <1>3, <1>4, Reached
  <2>2. connection[k].peer = "closed"
    BY <1>2, <1>4, <2>1 DEF SessionsInv, Work
  <2>3. socketOf[connection[k].socket] = k
    BY <1>4, <2>1 DEF At
  <2> QED
    BY <1>2, <1>5, <1>6, <2>1, <2>2, <2>3 DEF GoodbyeOf, At, server
<1>12. ClientsApart' /\ InTouch' /\ Goodbyed'
  <2>1. lost' = lost /\ client' = client /\ UNCHANGED <<socketOf, _connectedUsers>>
    BY <1>2 DEF history, server
  <2> QED
    BY <1>3, <1>4, <1>5, <1>6, <1>10, <1>11, <2>1, ThreadActs
<1> QED
  BY <1>7, <1>8, <1>9, <1>12 DEF SessionsInv

\* A request to sign in or up is taken: it is refused, or its thread goes on to
\* insert the user.
LEMMA AskTaken ==
  ASSUME SessionsInv, NEW k \in Made, NEW type \in {"signIn", "signUp"},
         NEW pc \in {"insert", "add"}, NEW n, NEW name \in Name \cup {NoName},
         thread[k].pc \in {"first", "recv"}, Pending(k, type), Take(k),
         \/ /\ n \in Name
            /\ thread' = [thread EXCEPT ![k].pc = pc, ![k].name = n]
            /\ UNCHANGED client
         \/ Reply(k, FALSE, name),
         UNCHANGED <<server, history, up>>
  PROVE  SessionsInv'
<1>1. TypeOK
  BY DEF SessionsInv
<1>2. At(k) # NoConn /\ connection[At(k)].request.type = type
  BY DEF Pending
<1>3. Busy(k)
  BY DEF Busy, Places
<1>4. PICK j \in Made : j = At(k)
  BY <1>2, <1>3, Reached
<1>5. /\ connection' \in Seq(Connection) /\ Len(connection') = Len(connection)
      /\ Made' = Made
      /\ \A i \in Made : /\ connection'[i].socket = connection[i].socket
                         /\ connection'[i].peer = connection[i].peer
                         /\ i # j => connection'[i] = connection[i]
      /\ connection'[j].request = NoRequest
  BY <1>1, <1>4, RequestTaken
<1>6. /\ thread' \in Seq(Thread) /\ Len(thread') = Len(thread)
      /\ \A i \in Made \ {k} : thread'[i] = thread[i]
      /\ client' \in [Client -> Program]
      /\ \A c \in Client :
           /\ client'[c].conn = client[c].conn /\ client'[c].runs = client[c].runs
           /\ client[c].conn # j \/ client[c].conn = NoConn => client'[c] = client[c]
      /\ \/ thread'[k].pc = pc /\ thread'[k].name \in Name /\ client' = client
         \/ /\ thread'[k].pc = "recv"
            /\ \A c \in Client : client[c].conn = j /\ client[c].waits =>
                 ~client'[c].waits /\ client'[c].name = client[c].name
         \/ /\ connection[j].peer = "reset"
            /\ thread'[k].pc = "delete" /\ thread'[k].deletes = 1
  <2>1. CASE /\ n \in Name
             /\ thread' = [thread EXCEPT ![k].pc = pc, ![k].name = n]
             /\ UNCHANGED client
    <3>1. pc \in Places
      BY DEF Places
    <3>2. /\ thread' \in Seq(Thread) /\ Len(thread') = Len(thread)
          /\ \A i \in Made \ {k} : thread'[i] = thread[i]
          /\ thread'[k].pc = pc /\ thread'[k].name = n
      BY <1>1, <2>1, <3>1, ThreadTakes
    <3>3. client' = client /\ client \in [Client -> Program]
      BY <1>1, <2>1 DEF TypeOK
    <3> QED
      BY <2>1, <3>2, <3>3
  <2>2. CASE Reply(k, FALSE, name)
    <3>1. /\ thread' \in Seq(Thread) /\ Len(thread') = Len(thread)
          /\ \A i \in Made \ {k} : thread'[i] = thread[i]
          /\ client' \in [Client -> Program]
          /\ \A c \in Client :
               /\ client'[c].conn = client[c].conn /\ client'[c].runs = client[c].runs
               /\ client[c].conn # j \/ client[c].conn = NoConn => client'[c] = client[c]
          /\ \/ /\ j # NoConn /\ thread'[k].pc = "recv"
                /\ \A c \in Client : client[c].conn = j /\ client[c].waits =>
                     ~client'[c].waits /\ client'[c].name = client[c].name
             \/ /\ j = NoConn \/ connection[j].peer = "reset"
                /\ thread'[k].pc = "delete" /\ thread'[k].deletes = 1
      BY <1>1, <1>4, <2>2, Replied
    <3> QED
      BY <1>2, <1>4, <3>1
  <2> QED
    BY <2>1, <2>2
<1>7. TypeOK'
  BY <1>1, <1>5, <1>6 DEF TypeOK, history, server
<1>8. NumbersLead' /\ UsersKnown' /\ SignUps' /\ SignedUpOnce'
  BY <1>5, NumbersStay, SignUpsStay DEF server, history
<1>9. Work'
  BY <1>5, <1>6 DEF SessionsInv, Work, NoRequest
<1>10. ASSUME NEW d \in Client, client[d].conn = k, Kept(d)' PROVE InTouchOf(d)'
  <2>1. Kept(d)
    BY <1>5, <1>6, <1>10, KeptBefore DEF history
  <2>2. j = k /\ InTouchOf(d)
    BY <1>3, <1>4, <1>10, <2>1, Reached
  <2>3. PICK s \in SocketNumber : s = connection[k].socket
    BY <1>1, MadeOf
  <2>4. /\ socketOf[s] = k /\ connection[k].peer = "open"
        /\ client[d].waits /\ client[d].name = NoName /\ _connectedUsers[s] = NoUser
    BY <1>2, <1>4, <1>10, <2>2, <2>3 DEF InTouchOf, At, NoRequest
  <2>5. \/ client'[d].waits /\ client'[d].name = NoName /\ thread'[k].pc \in {"insert", "add"}
        \/ ~client'[d].waits /\ client'[d].name = NoName /\ thread'[k].pc = "recv"
    BY <1>6, <1>10, <2>2, <2>4
  <2>6. _connectedUsers[s].name = NoName
    BY <2>4 DEF NoUser
  <2>7. client'[d].conn = k /\ connection'[k].socket = s
    BY <1>5, <1>6, <1>10, <2>3
  <2>8. connection'[k].request = NoRequest /\ connection'[k].peer = "open"
    BY <1>5, <2>2, <2>4
  <2>9. socketOf'[s] = k /\ _connectedUsers'[s] = _connectedUsers[s]
    BY <2>4 DEF server
  <2> QED
    BY <2>4, <2>5, <2>6, <2>7, <2>8, <2>9 DEF InTouchOf, At
<1>11. lost = {} => up' /\ GoodbyeOf(k)' /\ socketOf'[connection[k].socket] # NoConn
  <2> SUFFICES ASSUME lost = {}
               PROVE  up' /\ GoodbyeOf(k)' /\ socketOf'[connection[k].socket] # NoConn
    OBVIOUS
  <2>1. j = k /\ k # NoConn /\ up /\ GoodbyeOf(k)
    BY <1>3, <1>4, Reached
  <2>2. connection[k].peer \notin {"reset", "closed"}
    BY <1>2, <1>4, <2>1 DEF GoodbyeOf
  <2>3. socketOf[connection[k].socket] = k
    BY <1>4, <2>1 DEF At
  <2>4. thread'[k].pc # "delete"
    BY <1>6, <2>1, <2>2
  <2> QED
    BY <1>5, <2>1, <2>2, <2>3, <2>4 DEF GoodbyeOf, At, server
<1>12. ClientsApart' /\ InTouch' /\ Goodbyed'
  <2>1. lost' = lost /\ UNCHANGED <<socketOf, _connectedUsers>>
    BY DEF history, server
  <2> QED
    BY <1>3, <1>4, <1>5, <1>6, <1>10, <1>11, <2>1, ThreadActs
<1> QED
  BY <1>7, <1>8, <1>9, <1>12 DEF SessionsInv

LEMMA HandleSignInSound ==
  ASSUME SessionsInv, NEW k \in Made, HandleSignIn(k)
  PROVE  SessionsInv'
<1>1. /\ thread[k].pc \in {"first", "recv"} /\ Pending(k, "signIn") /\ Take(k)
      /\ UNCHANGED <<server, history, up>>
  BY DEF HandleSignIn, MayTake
<1>2. Busy(k)
  BY <1>1 DEF Busy, Places
<1>3. PICK n : n = Taken(k).name
  OBVIOUS
<1>4. n \in Name \cup {NoName}
  <2>1. At(k) \in Made
    BY <1>1, <1>2, Reached DEF Pending
  <2> QED
    BY <1>3, <2>1, MadeOf DEF SessionsInv, Request, Taken
<1>5. \/ /\ n \in Name
         /\ thread' = [thread EXCEPT ![k].pc = "insert", ![k].name = n]
         /\ UNCHANGED client
      \/ Reply(k, FALSE, n)
  <2>1. t_users \subseteq Name
    BY DEF SessionsInv, TypeOK
  <2> QED
    BY <1>3, <2>1 DEF HandleSignIn, IsUserAndPassMatch, IsUserExists
<1> QED
  BY <1>1, <1>4, <1>5, AskTaken

LEMMA HandleSignUpSound ==
  ASSUME SessionsInv, NEW k \in Made, HandleSignUp(k)
  PROVE  SessionsInv'
<1>1. /\ thread[k].pc \in {"first", "recv"} /\ Pending(k, "signUp") /\ Take(k)
      /\ UNCHANGED <<server, history, up>>
  BY DEF HandleSignUp, MayTake
<1>2. Busy(k)
  BY <1>1 DEF Busy, Places
<1>3. PICK n : n = Taken(k).name
  OBVIOUS
<1>4. n \in Name
  <2>1. At(k) \in Made
    BY <1>1, <1>2, Reached DEF Pending
  <2> QED
    BY <1>1, <1>3, <2>1 DEF SessionsInv, Work, Pending, Taken
<1>5. \/ /\ n \in Name
         /\ thread' = [thread EXCEPT ![k].pc = "add", ![k].name = n]
         /\ UNCHANGED client
      \/ Reply(k, FALSE, NoName)
  BY <1>3, <1>4 DEF HandleSignUp
<1> QED
  BY <1>1, <1>5, AskTaken

\* The reply to a request that its thread has served: what it leaves, and that
\* it reaches the client that waits for it
LEMMA ReplySent ==
  ASSUME SessionsInv, NEW k \in Made, NEW success \in BOOLEAN, NEW name \in Name \cup {NoName},
         thread[k].pc \in {"insert", "add"}, Reply(k, success, name), UNCHANGED connection
  PROVE  /\ thread' \in Seq(Thread) /\ Len(thread') = Len(thread)
         /\ \A i \in Made \ {k} : thread'[i] = thread[i]
         /\ client' \in [Client -> Program]
         /\ \A c \in Client :
              /\ client'[c].conn = client[c].conn /\ client'[c].runs = client[c].runs
              /\ client[c].conn # At(k) \/ client[c].conn = NoConn => client'[c] = client[c]
         /\ \/ thread'[k].pc = "recv"
            \/ thread'[k].pc = "delete" /\ thread'[k].deletes = 1
         /\ \A d \in Client : client[d].conn = k /\ Kept(d) =>
              /\ At(k) = k /\ connection[k].peer = "open" /\ connection[k].request = NoRequest
              /\ client[d].name = NoName /\ _connectedUsers[connection[k].socket] = NoUser
              /\ ~client'[d].waits /\ thread'[k].pc = "recv"
              /\ client'[d].name = IF success THEN name ELSE NoName
         /\ lost = {} => /\ up /\ At(k) = k /\ k # NoConn /\ thread'[k].pc = "recv"
                         /\ connection[k].peer \notin {"reset", "closed"}
<1>1. TypeOK
  BY DEF SessionsInv
<1>2. Busy(k)
  BY DEF Busy, Places
<1>3. PICK j : j = At(k)
  OBVIOUS
<1>4. /\ thread' \in Seq(Thread) /\ Len(thread') = Len(thread)
      /\ \A i \in Made \ {k} : thread'[i] = thread[i]
      /\ client' \in [Client -> Program]
      /\ \A c \in Client :
           /\ client'[c].conn = client[c].conn /\ client'[c].runs = client[c].runs
           /\ client[c].conn # j \/ client[c].conn = NoConn => client'[c] = client[c]
      /\ \/ /\ j # NoConn /\ thread'[k].pc = "recv"
            /\ \A c \in Client : client[c].conn = j /\ client[c].waits =>
                 /\ ~client'[c].waits
                 /\ client'[c].name = IF success THEN name ELSE client[c].name
         \/ /\ j = NoConn \/ connection[j].peer = "reset"
            /\ thread'[k].pc = "delete" /\ thread'[k].deletes = 1
  BY <1>1, <1>3, Replied
<1>5. ASSUME NEW d \in Client, client[d].conn = k, Kept(d)
      PROVE  /\ j = k /\ connection[k].peer = "open" /\ connection[k].request = NoRequest
             /\ client[d].name = NoName /\ _connectedUsers[connection[k].socket] = NoUser
             /\ ~client'[d].waits /\ thread'[k].pc = "recv"
             /\ client'[d].name = IF success THEN name ELSE NoName
  <2>1. j = k /\ k # NoConn /\ InTouchOf(d)
    BY <1>2, <1>3, <1>5, Reached DEF Kept
  <2>2. /\ connection[k].peer = "open" /\ connection[k].request = NoRequest
        /\ client[d].waits /\ client[d].name = NoName
        /\ _connectedUsers[connection[k].socket] = NoUser
    BY <1>5, <2>1 DEF InTouchOf
  <2>3. thread'[k].pc = "recv" /\ ~client'[d].waits
        /\ client'[d].name = IF success THEN name ELSE client[d].name
    BY <1>4, <1>5, <2>1, <2>2
  <2> QED
    BY <2>1, <2>2, <2>3
<1>6. ASSUME lost = {}
      PROVE  /\ up /\ j = k /\ k # NoConn /\ thread'[k].pc = "recv"
             /\ connection[k].peer \notin {"reset", "closed"}
  <2>1. up /\ j = k /\ k # NoConn /\ GoodbyeOf(k)
    BY <1>2, <1>3, <1>6, Reached
  <2>2. connection[k].peer \notin {"reset", "closed"}
    BY <2>1 DEF GoodbyeOf
  <2> QED
    BY <1>4, <2>1, <2>2
<1>7. \/ thread'[k].pc = "recv"
      \/ thread'[k].pc = "delete" /\ thread'[k].deletes = 1
  BY <1>4
<1>8. \A c \in Client : client[c].conn # At(k) \/ client[c].conn = NoConn => client'[c] = client[c]
  BY <1>3, <1>4
<1>9. lost = {} => /\ up /\ At(k) = k /\ k # NoConn /\ thread'[k].pc = "recv"
                   /\ connection[k].peer \notin {"reset", "closed"}
  BY <1>3, <1>6
<1>10. \A d \in Client : client[d].conn = k /\ Kept(d) =>
         /\ At(k) = k /\ connection[k].peer = "open" /\ connection[k].request = NoRequest
         /\ client[d].name = NoName /\ _connectedUsers[connection[k].socket] = NoUser
         /\ ~client'[d].waits /\ thread'[k].pc = "recv"
         /\ client'[d].name = IF success THEN name ELSE NoName
  BY <1>3, <1>5
<1> QED
  BY <1>4, <1>7, <1>8, <1>9, <1>10

LEMMA InsertUserSound ==
  ASSUME SessionsInv, NEW k \in Made, InsertUser(k)
  PROVE  SessionsInv'
<1>1. TypeOK
  BY DEF SessionsInv
<1>2. PICK n : n = thread[k].name
  OBVIOUS
<1>3. PICK s \in SocketNumber : s = connection[k].socket
  BY <1>1, MadeOf
<1>4. /\ thread[k].pc = "insert" /\ Reply(k, TRUE, n)
      /\ _connectedUsers' = [_connectedUsers EXCEPT
                               ![s] = IF @ = NoUser THEN [name |-> n, conn |-> At(k)] ELSE @]
      /\ UNCHANGED <<socketOf, t_users, connection, history, up>>
  BY <1>2, <1>3 DEF InsertUser
<1>5. n \in Name /\ n # NoName
  BY <1>2, <1>4, NameAssumption DEF SessionsInv, Work
<1>6. /\ thread' \in Seq(Thread) /\ Len(thread') = Len(thread)
      /\ \A i \in Made \ {k} : thread'[i] = thread[i]
      /\ client' \in [Client -> Program]
      /\ \A c \in Client :
           /\ client'[c].conn = client[c].conn /\ client'[c].runs = client[c].runs
           /\ client[c].conn # At(k) \/ client[c].conn = NoConn => client'[c] = client[c]
      /\ \/ thread'[k].pc = "recv"
         \/ thread'[k].pc = "delete" /\ thread'[k].deletes = 1
      /\ \A d \in Client : client[d].conn = k /\ Kept(d) =>
           /\ At(k) = k /\ connection[k].peer = "open" /\ connection[k].request = NoRequest
           /\ client[d].name = NoName /\ _connectedUsers[connection[k].socket] = NoUser
           /\ ~client'[d].waits /\ thread'[k].pc = "recv"
           /\ client'[d].name = IF TRUE THEN n ELSE NoName
      /\ lost = {} => /\ up /\ At(k) = k /\ k # NoConn /\ thread'[k].pc = "recv"
                      /\ connection[k].peer \notin {"reset", "closed"}
  <2>1. /\ TRUE \in BOOLEAN /\ n \in Name \cup {NoName}
        /\ thread[k].pc \in {"insert", "add"} /\ UNCHANGED connection
    BY <1>4, <1>5
  <2> QED
    BY <1>4, <2>1, ReplySent
<1>7. Busy(k)
  BY <1>4 DEF Busy, Places
<1> DEFINE user == [name |-> n, conn |-> At(k)]
<1>8. At(k) \in Conns \cup {NoConn}
  BY <1>1, <1>3 DEF TypeOK, At
<1>9. user \in User /\ user.name = n
  BY <1>5, <1>8 DEF User
<1> HIDE DEF user
<1>10. /\ _connectedUsers' \in [SocketNumber -> User]
       /\ \A t \in SocketNumber : t # s => _connectedUsers'[t] = _connectedUsers[t]
       /\ _connectedUsers'[s] = IF _connectedUsers[s] = NoUser THEN user ELSE _connectedUsers[s]
  <2>1. _connectedUsers' = [_connectedUsers EXCEPT ![s] = IF _connectedUsers[s] = NoUser
                                                            THEN user ELSE _connectedUsers[s]]
    BY <1>1, <1>4 DEF TypeOK, user
  <2> QED
    BY <1>1, <1>9, <2>1 DEF TypeOK
<1>11. Made' = Made
  BY <1>4 DEF Made
<1>12. TypeOK'
  BY <1>1, <1>4, <1>6, <1>10, <1>11 DEF TypeOK, history
<1>13. NumbersLead'
  BY <1>4, <1>11 DEF SessionsInv, NumbersLead
<1>14. UsersKnown'
  <2> SUFFICES ASSUME NEW t \in SocketNumber
               PROVE  /\ _connectedUsers'[t] # NoUser => \E i \in Made : connection[i].socket = t
                      /\ _connectedUsers'[t].name = NoName => _connectedUsers'[t] = NoUser
    BY <1>4, <1>11 DEF UsersKnown
  <2>1. CASE t = s
    BY <1>3, <1>5, <1>9, <1>10, <2>1 DEF SessionsInv, UsersKnown
  <2>2. CASE t # s
    BY <1>10, <2>2 DEF SessionsInv, UsersKnown
  <2> QED
    BY <2>1, <2>2
<1>15. SignUps' /\ SignedUpOnce'
  BY <1>4, SignUpsStay DEF history
<1>16. Work'
  BY <1>4, <1>6, <1>11 DEF SessionsInv, Work
<1>17. ASSUME NEW d \in Client, client[d].conn = k, Kept(d)' PROVE InTouchOf(d)'
  <2>1. Kept(d)
    BY <1>4, <1>6, <1>17, KeptBefore DEF history
  <2>2. /\ socketOf[s] = k /\ connection[k].peer = "open" /\ connection[k].request = NoRequest
        /\ _connectedUsers[s] = NoUser
        /\ ~client'[d].waits /\ client'[d].name = n /\ thread'[k].pc = "recv"
    BY <1>3, <1>6, <1>17, <2>1 DEF At
  <2>3. _connectedUsers'[s].name = n
    BY <1>9, <1>10, <2>2
  <2>4. client'[d].conn = k /\ connection' = connection /\ socketOf' = socketOf
    BY <1>4, <1>6, <1>17
  <2> QED
    BY <1>3, <2>2, <2>3, <2>4 DEF InTouchOf, At
<1>18. lost = {} => up' /\ GoodbyeOf(k)' /\ socketOf'[s] # NoConn
  BY <1>3, <1>4, <1>6 DEF GoodbyeOf, At
<1>19. ClientsApart' /\ InTouch' /\ Goodbyed'
  <2>1. lost' = lost /\ connection' = connection /\ socketOf' = socketOf
    BY <1>4 DEF history
  <2> QED
    BY <1>3, <1>6, <1>7, <1>10, <1>11, <1>17, <1>18, <2>1, ThreadActs
<1> QED
  BY <1>12, <1>13, <1>14, <1>15, <1>16, <1>19 DEF SessionsInv

LEMMA AddUserSound ==
  ASSUME SessionsInv, NEW k \in Made, AddUser(k)
  PROVE  SessionsInv'
<1>1. TypeOK
  BY DEF SessionsInv
<1>2. PICK n : n = thread[k].name
  OBVIOUS
<1>3. PICK new \in BOOLEAN : new = (n \notin t_users)
  OBVIOUS
<1>4. /\ thread[k].pc = "add" /\ Reply(k, new, NoName)
      /\ t_users' = t_users \cup {n}
      /\ signedUp' = IF n \notin t_users THEN Append(signedUp, n) ELSE signedUp
      /\ UNCHANGED <<socketOf, _connectedUsers, connection, lost, up>>
  BY <1>2, <1>3 DEF AddUser, Accepted
<1>5. n \in Name
  BY <1>2, <1>4 DEF SessionsInv, Work
<1>6. /\ thread' \in Seq(Thread) /\ Len(thread') = Len(thread)
      /\ \A i \in Made \ {k} : thread'[i] = thread[i]
      /\ client' \in [Client -> Program]
      /\ \A c \in Client :
           /\ client'[c].conn = client[c].conn /\ client'[c].runs = client[c].runs
           /\ client[c].conn # At(k) \/ client[c].conn = NoConn => client'[c] = client[c]
      /\ \/ thread'[k].pc = "recv"
         \/ thread'[k].pc = "delete" /\ thread'[k].deletes = 1
      /\ \A d \in Client : client[d].conn = k /\ Kept(d) =>
           /\ At(k) = k /\ connection[k].peer = "open" /\ connection[k].request = NoRequest
           /\ client[d].name = NoName /\ _connectedUsers[connection[k].socket] = NoUser
           /\ ~client'[d].waits /\ thread'[k].pc = "recv"
           /\ client'[d].name = NoName
      /\ lost = {} => /\ up /\ At(k) = k /\ k # NoConn /\ thread'[k].pc = "recv"
                      /\ connection[k].peer \notin {"reset", "closed"}
  BY <1>4, ReplySent
<1>7. Busy(k)
  BY <1>4 DEF Busy, Places
<1>8. Made' = Made
  BY <1>4 DEF Made
<1>9. signedUp \in Seq(Name) /\ t_users \subseteq Name
  BY <1>1 DEF TypeOK
<1>10. TypeOK'
  <2>1. signedUp' \in Seq(Name) /\ t_users' \subseteq Name
    BY <1>4, <1>5, <1>9
  <2> QED
    BY <1>1, <1>4, <1>6, <1>8, <2>1 DEF TypeOK
<1>11. NumbersLead' /\ UsersKnown'
  BY <1>4, <1>8, NumbersStay
<1>12. SignUps' /\ SignedUpOnce'
  <2>1. /\ Registered \subseteq t_users
        /\ \A i \in DOMAIN signedUp : signedUp[i] \in t_users \ Registered
        /\ \A i, j \in DOMAIN signedUp : signedUp[i] = signedUp[j] => i = j
    BY DEF SessionsInv, SignUps, SignedUpOnce
  <2>2. CASE n \in t_users
    BY <1>4, <2>1, <2>2 DEF SignUps, SignedUpOnce
  <2>3. CASE n \notin t_users
    <3>1. PICK m : m = Len(signedUp)
      OBVIOUS
    <3>2. m \in Nat /\ DOMAIN signedUp = 1 .. m
      BY <1>9, <3>1
    <3>3. /\ DOMAIN signedUp' = 1 .. m + 1
          /\ \A i \in 1 .. m + 1 : signedUp'[i] = IF i = m + 1 THEN n ELSE signedUp[i]
      BY <1>4, <1>5, <1>9, <2>3, <3>1, <3>2
    <3>4. \A i \in 1 .. m + 1 : i = m + 1 \/ i \in 1 .. m
      BY <3>2
    <3>5. n \notin Registered
      BY <2>1, <2>3
    <3>6. \A i \in 1 .. m : signedUp[i] \in t_users \ Registered /\ signedUp[i] # n
      BY <2>1, <2>3, <3>2
    <3>7. \A i \in DOMAIN signedUp' : signedUp'[i] \in t_users' \ Registered
      BY <1>4, <3>3, <3>4, <3>5, <3>6
    <3>8. \A i, j \in DOMAIN signedUp' : signedUp'[i] = signedUp'[j] => i = j
      BY <2>1, <3>2, <3>3, <3>4, <3>6
    <3> QED
      BY <1>4, <2>1, <3>7, <3>8 DEF SignUps, SignedUpOnce
  <2> QED
    BY <2>2, <2>3
<1>13. Work'
  BY <1>4, <1>6, <1>8 DEF SessionsInv, Work
<1>14. ASSUME NEW d \in Client, client[d].conn = k, Kept(d)' PROVE InTouchOf(d)'
  <2>1. Kept(d)
    BY <1>4, <1>6, <1>14, KeptBefore
  <2>2. PICK s : s = connection[k].socket
    OBVIOUS
  <2>3. /\ socketOf[s] = k /\ connection[k].peer = "open" /\ connection[k].request = NoRequest
        /\ _connectedUsers[s] = NoUser
        /\ ~client'[d].waits /\ client'[d].name = NoName /\ thread'[k].pc = "recv"
    BY <1>6, <1>14, <2>1, <2>2 DEF At
  <2>4. _connectedUsers[s].name = NoName
    BY <2>3 DEF NoUser
  <2>5. /\ client'[d].conn = k /\ connection' = connection /\ socketOf' = socketOf
        /\ _connectedUsers' = _connectedUsers
    BY <1>4, <1>6, <1>14
  <2> QED
    BY <2>2, <2>3, <2>4, <2>5 DEF InTouchOf, At
<1>15. lost = {} => up' /\ GoodbyeOf(k)' /\ socketOf'[connection[k].socket] # NoConn
  BY <1>4, <1>6 DEF GoodbyeOf, At
<1>16. ClientsApart' /\ InTouch' /\ Goodbyed'
  BY <1>4, <1>6, <1>7, <1>8, <1>14, <1>15, ThreadActs
<1> QED
  BY <1>10, <1>11, <1>12, <1>13, <1>16 DEF SessionsInv

LEMMA SafeDeleteUserSound ==
  ASSUME SessionsInv, NEW k \in Made, SafeDeleteUser(k)
  PROVE  SessionsInv'
<1>1. TypeOK
  BY DEF SessionsInv
<1>2. PICK s \in SocketNumber : s = connection[k].socket
  BY <1>1, MadeOf
<1>3. PICK h : h = At(k)
  OBVIOUS
<1>4. /\ thread[k].pc = "delete"
      /\ _connectedUsers' = [_connectedUsers EXCEPT ![s] = NoUser]
      /\ socketOf' = [socketOf EXCEPT ![s] = NoConn]
      /\ UNCHANGED <<t_users, history, up>>
  BY <1>2 DEF SafeDeleteUser, Unlisted, Erased
<1>5. Busy(k)
  BY <1>4 DEF Busy, Places
<1>6. h # NoConn => h \in Made
  BY <1>3, <1>5, Reached
<1>7. /\ connection' \in Seq(Connection) /\ Len(connection') = Len(connection)
      /\ Made' = Made
      /\ \A j \in Made : /\ connection'[j].socket = connection[j].socket
                         /\ j # h => connection'[j] = connection[j]
                         /\ connection[j].peer = "closed" => connection'[j].peer = "closed"
                         /\ \/ connection'[j].request = connection[j].request
                            \/ connection'[j].request = NoRequest
  <2>1. CASE h = NoConn
    <3>1. connection' = connection
      BY <1>3, <2>1 DEF SafeDeleteUser
    <3>2. connection \in Seq(Connection)
      BY <1>1 DEF TypeOK
    <3> QED
      BY <3>1, <3>2 DEF Made
  <2>2. CASE h # NoConn
    <3>1. PICK p : p = IF connection[h].peer = "open" THEN "reset" ELSE connection[h].peer
      OBVIOUS
    <3>2. connection' = [connection EXCEPT ![h].peer = p, ![h].request = NoRequest]
      BY <1>3, <2>2, <3>1 DEF SafeDeleteUser
    <3>3. p \in Peers /\ NoRequest \in Request /\ (connection[h].peer = "closed" => p = "closed")
      BY <1>1, <1>6, <2>2, <3>1, MadeOf DEF Peers, NoRequest, Request
    <3>4. /\ connection' \in Seq(Connection) /\ Len(connection') = Len(connection)
          /\ Made' = Made
          /\ \A j \in Made : /\ connection'[j].socket = connection[j].socket
                             /\ j # h => connection'[j] = connection[j]
          /\ connection'[h].peer = p /\ connection'[h].request = NoRequest
      <4>1. h \in Made
        BY <1>6, <2>2
      <4> QED
        BY <1>1, <3>2, <3>3, <4>1, BothWritten DEF Peers
    <3> QED
      BY <3>3, <3>4
  <2> QED
    BY <2>1, <2>2
<1> DEFINE t == [thread[k] EXCEPT !.deletes = thread[k].deletes - 1,
                                  !.pc = IF thread[k].deletes = 1 THEN thread[k].after
                                         ELSE thread[k].pc]
<1>8. /\ thread[k] \in Thread /\ thread[k].deletes \in {1, 2}
      /\ thread[k].after \in {"recv", "ended"}
  BY <1>1, <1>4, MadeOf DEF SessionsInv, Work, Thread
<1>9. /\ t \in Thread
      /\ thread[k].deletes = 1 => t.pc = thread[k].after
      /\ t.pc = "delete" => t.deletes = 1
      /\ t.pc \notin {"insert", "add"}
  <2>1. thread[k].deletes - 1 \in {0, 1} /\ (thread[k].deletes # 1 => thread[k].deletes - 1 = 1)
    BY <1>8
  <2>2. thread[k].deletes - 1 \in 0 .. 2
    BY <2>1
  <2> QED
    BY <1>4, <1>8, <2>1, <2>2 DEF Thread
<1>10. /\ thread' \in Seq(Thread) /\ Len(thread') = Len(thread)
       /\ \A j \in Made : thread'[j] = IF j = k THEN t ELSE thread[j]
  <2>1. thread' = [thread EXCEPT ![k].deletes = @ - 1,
                                 ![k].pc = IF thread[k].deletes = 1 THEN thread[k].after ELSE @]
    BY DEF SafeDeleteUser
  <2>2. thread' = [thread EXCEPT ![k] = t]
    BY <1>8, <2>1 DEF Thread
  <2> HIDE DEF t
  <2> QED
    BY <1>1, <1>9, <2>2, ThreadWritten
<1> HIDE DEF t
<1>11. /\ client' \in [Client -> Program]
       /\ \A c \in Client :
            /\ client'[c].conn = client[c].conn /\ client'[c].runs = client[c].runs
            /\ client[c].conn # h \/ client[c].conn = NoConn => client'[c] = client[c]
  <2> DEFINE told(c) == [client[c] EXCEPT !.waits = FALSE]
  <2>1. client' = [c \in Client |-> IF h # NoConn /\ client[c].conn = h THEN told(c)
                                    ELSE client[c]]
    BY <1>3 DEF SafeDeleteUser
  <2>2. \A c \in Client : client[c] \in Program
    BY <1>1 DEF TypeOK
  <2>3. \A c \in Client : told(c) \in Program /\ told(c).conn = client[c].conn
                          /\ told(c).runs = client[c].runs
    BY <2>2 DEF Program
  <2> HIDE DEF told
  <2> QED
    BY <2>1, <2>2, <2>3
<1>12. /\ _connectedUsers' \in [SocketNumber -> User] /\ socketOf' \in [SocketNumber -> Conns \cup {NoConn}]
       /\ \A r \in SocketNumber :
            /\ _connectedUsers'[r] = IF r = s THEN NoUser ELSE _connectedUsers[r]
            /\ socketOf'[r] = IF r = s THEN NoConn ELSE socketOf[r]
  BY <1>1, <1>4 DEF TypeOK, User, NoUser
<1>13. TypeOK'
  BY <1>1, <1>4, <1>7, <1>10, <1>11, <1>12 DEF TypeOK, history
<1>14. NumbersLead' /\ UsersKnown'
  BY <1>7, <1>12 DEF SessionsInv, NumbersLead, UsersKnown
<1>15. SignUps' /\ SignedUpOnce'
  BY <1>4, SignUpsStay DEF history
<1>16. Work'
  <2>1. NoRequest.type = "none"
    BY DEF NoRequest
  <2> QED
    BY <1>7, <1>9, <1>10, <2>1 DEF SessionsInv, Work
<1>17. ASSUME NEW d \in Client, client[d].conn = k, Kept(d)' PROVE InTouchOf(d)'
  <2>1. Kept(d)
    BY <1>4, <1>7, <1>11, <1>17, KeptBefore DEF history
  <2>2. InTouchOf(d)
    BY <1>5, <1>17, <2>1, Reached
  <2> QED
    BY <1>4, <1>17, <2>2 DEF InTouchOf
<1>18. ASSUME lost = {} PROVE up' /\ GoodbyeOf(k)' /\ _connectedUsers'[s] = NoUser
  <2>1. up /\ GoodbyeOf(k)
    BY <1>5, <1>18, Reached
  <2>2. connection[k].peer = "closed" /\ thread[k].deletes = 1 /\ thread[k].after = "ended"
    BY <1>4, <2>1 DEF GoodbyeOf
  <2>3. thread'[k].pc = "ended" /\ connection'[k].peer = "closed"
    BY <1>7, <1>9, <1>10, <2>2
  <2> QED
    BY <1>4, <1>12, <2>1, <2>3 DEF GoodbyeOf
<1>19. ClientsApart' /\ InTouch' /\ Goodbyed'
  <2>1. lost' = lost
    BY <1>4 DEF history
  <2>2. \A j \in Made \ {k} : thread'[j] = thread[j]
    BY <1>10
  <2> QED
    BY <1>2, <1>3, <1>5, <1>7, <1>11, <1>12, <1>17, <1>18, <2>1, <2>2, ThreadActs
<1> QED
  BY <1>13, <1>14, <1>15, <1>16, <1>19 DEF SessionsInv

-----------------------------------------------------------------------------
(* The theorems *)

LEMMA NextSound ==
  ASSUME SessionsInv, [Next]_vars
  PROVE  SessionsInv'
<1>1. CASE UNCHANGED vars
  <2>1. UNCHANGED <<socketOf, _connectedUsers, t_users, connection, thread, client, lost, signedUp, up>>
    BY <1>1 DEF vars, server, history
  <2>2. TypeOK' /\ NumbersLead' /\ UsersKnown' /\ ClientsApart' /\ Work'
    BY <2>1 DEF SessionsInv, TypeOK, Made, NumbersLead, UsersKnown, ClientsApart, Work
  <2>3. InTouch' /\ Goodbyed' /\ SignUps' /\ SignedUpOnce'
    BY <2>1 DEF SessionsInv, InTouch, InTouchOf, Kept, OutOfReach, FirstAtItsNumber, At,
                Goodbyed, GoodbyeOf, Made, SignUps, SignedUpOnce
  <2> QED
    BY <2>2, <2>3 DEF SessionsInv
<1>2. ASSUME NEW c \in Client,
             \/ Connect(c) \/ Ask(c, "signIn") \/ Ask(c, "signUp")
             \/ SignOut(c) \/ Quit(c) \/ Vanish(c)
      PROVE  SessionsInv'
  BY <1>2, ConnectSound, AskSound, SignOutSound, QuitSound, VanishSound
<1>3. ASSUME NEW k \in Made, CloseForgotten(k) \/ ThreadStep(k) PROVE SessionsInv'
  BY <1>3, CloseForgottenSound, RecvThrowsSound, RecvNothingSound, HandleSignInSound,
     InsertUserSound, HandleSignUpSound, AddUserSound, HandleSignoutSound,
     HandleLeaveAppSound, SafeDeleteUserSound DEF ThreadStep
<1> QED
  BY <1>1, <1>2, <1>3 DEF Next

LEMMA SessionsAlways == Spec => []SessionsInv
BY InitSessions, NextSound, PTL DEF Spec

\* Every variable keeps its type, in every interleaving of the threads.
THEOREM SessionsTyped == Spec => []TypeOK
<1>1. SessionsInv => TypeOK
  BY DEF SessionsInv
<1> QED
  BY <1>1, SessionsAlways, PTL

\* Recognised: a client whose requests were served is to the server who it thinks
\* it is, as long as no other thread knows the number of its socket.
THEOREM ClientsRecognised == Spec => []Recognised
<1>1. SessionsInv => Recognised
  <2> SUFFICES ASSUME SessionsInv, NEW c \in Client,
                      client[c].conn # NoConn, Free(c), OutOfReach(client[c].conn)
               PROVE  _connectedUsers[connection[client[c].conn].socket].name = client[c].name
    BY DEF Recognised
  <2>1. Kept(c) /\ ~client[c].waits
    BY DEF Kept, Free
  <2> QED
    BY <2>1 DEF SessionsInv, InTouch, InTouchOf
<1> QED
  BY <1>1, SessionsAlways, PTL

\* KeepsConnections: the server closes no connection under a client that runs
\* unless it lost another one, however many deletes an exception leads to.
THEOREM ConnectionsKept == Spec => []KeepsConnections
<1>1. SessionsInv => KeepsConnections
  BY DEF SessionsInv, InTouch, InTouchOf, Kept, KeepsConnections
<1> QED
  BY <1>1, SessionsAlways, PTL

\* SignedUpOnce: whatever overlaps between isUserExists and addNewUser, no two
\* clients sign up as the same user.
THEOREM NamesSignedUpOnce == Spec => []SignedUpOnce
<1>1. SessionsInv => SignedUpOnce
  BY DEF SessionsInv
<1> QED
  BY <1>1, SessionsAlways, PTL

\* ServerUp: while every client says goodbye, no thread receives on a number that
\* leads nowhere or reads a code that nobody sent, and the process survives.
THEOREM GoodbyesKeepTheServerUp == Spec => []ServerUp
<1>1. SessionsInv => ServerUp
  BY DEF SessionsInv, Goodbyed, ServerUp
<1> QED
  BY <1>1, SessionsAlways, PTL

=============================================================================
