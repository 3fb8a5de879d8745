----------------------------- MODULE RoomFeedProofs -----------------------------
(***************************************************************************)
(* Proofs about RoomFeed, for every number of users and of rooms, with     *)
(* unruly users who are all guests or all hosts.                           *)
(***************************************************************************)
EXTENDS RoomFeed, FiniteSetTheorems, SequenceTheorems, TLAPS

\* Nobody both opens rooms and looks for one, and the unruly users are all on
\* one side.  A patient user on both sides finds the second word of a closing
\* where it looks for rooms, and what is proved here is false.  So it is with an
\* unruly host and an unruly guest: the guest may enter a room as it closes, and
\* the players it has closed for are told of the newcomer.  One unruly user on
\* both sides is left to TLC.
Civil ==
  /\ Hosts \cap Guests = {}
  /\ Unruly \cap Hosts = {} \/ Unruly \cap Guests = {}

-----------------------------------------------------------------------------
(* The server's rooms *)

\* Who is in a room is on its list, and it is open.
InOpenRoom ==
  \A u \in User : currRoom[u] # NoRoom =>
    Listed(currRoom[u]) /\ u \in rooms[currRoom[u]].users

\* A patient user is on the list of one open room at most: the one it is in.
InOneRoom ==
  \A u \in Patient, o \in 1 .. Len(rooms) :
    rooms[o].open /\ u \in rooms[o].users => currRoom[u] = o

\* A host is only in the rooms it opened.
HostsAtHome ==
  \A o \in 1 .. Len(rooms) : \A u \in rooms[o].users :
    u \notin Guests => rooms[o].admin = u

\* Room for every room that is about to be made
Makers == {u \in User : pc[u] = "create" /\ currRoom[u] = NoRoom}
RoomForAll == Len(rooms) + Cardinality(Makers) <= MaxRooms

RoomsHold == InOpenRoom /\ InOneRoom /\ HostsAtHome /\ RoomForAll

-----------------------------------------------------------------------------
(* Who may do what at the same time *)

\* u is in the middle of something that ends with a message it waits for.
Engaged(u) ==
  \/ ui[u] \notin {"free", "evicted"}
  \/ pc[u] \notin {"idle", "leave"}
  \/ pc[u] = "leave" /\ currRoom[u] # NoRoom

\* The thread of v has nothing to tell anyone else.
Quiet(v) ==
  \/ pc[v] \in {"idle", "users", "again"}
  \/ pc[v] = "leave" /\ currRoom[v] = NoRoom

Undisturbed ==
  \A u \in Patient, v \in User : Engaged(u) /\ u # v =>
    Quiet(v) /\ (v \in Patient => ~Engaged(v))

-----------------------------------------------------------------------------
(* Every client *)

\* Hosts and guests keep to what they do, the requests of a host come from its
\* room, and the thread of a client that has thrown does nothing more.
Dutiful(u) ==
  /\ u \notin Hosts => /\ pc[u] \notin {"create", "close", "start"}
                       /\ ui[u] \notin {"create", "stray"} /\ role[u] # "admin"
  /\ u \notin Guests => /\ pc[u] \notin {"join", "enter"}
                        /\ ui[u] \notin {"join", "greeting", "evicted"}
                        /\ role[u] # "member" /\ page[u] # "browsing"
  /\ pc[u] = "enter" => Listed(target[u])
  /\ pc[u] \in {"close", "start"} => currRoom[u] # NoRoom
  /\ page[u] = "lost" => ui[u] = "free" /\ ~listening[u]

-----------------------------------------------------------------------------
(* Unruly guests *)

Answers == {"joined", "refused"}
NoAnswer(s) == \A i \in 1 .. Len(s) : s[i].kind \notin Answers
OneAnswer(s) ==
  \A i, j \in 1 .. Len(s) : s[i].kind \in Answers /\ s[j].kind \in Answers => i = j

\* Every room of s that closed is one from before the room joined in s.
OldNews(s) ==
  \A i \in 1 .. Len(s) : s[i].kind = "closed" =>
    \E j \in 1 .. Len(s) : i < j /\ s[j].kind = "joined"

\* A guest that hurries may be lost, but as long as it is not, it is not told to
\* leave a room it has just entered: the answer to its request to join comes
\* once, and separates the news of the old room from that of the new one.
Hasty(u) ==
  page[u] # "lost" =>
    /\ pc[u] = "join" => ui[u] = "join" /\ NoAnswer(stream[u])
    /\ ui[u] # "join" => NoAnswer(stream[u])
    /\ OneAnswer(stream[u])
    /\ role[u] = "member" => \/ ui[u] \in {"ask", "users", "flush", "evicted"}
                             \/ page[u] = "room" /\ ui[u] = "free"
    /\ currRoom[u] # NoRoom \/ pc[u] = "enter" => OldNews(stream[u])
    /\ ui[u] = "evicted" => currRoom[u] = NoRoom /\ pc[u] \notin {"join", "enter"}

-----------------------------------------------------------------------------
(* Patient users: where each is, and what is on its way to it there *)

Players(u) == rooms[currRoom[u]].users
List(u) == UsersMessage(Players(u))
Made(u) == [Message("created") EXCEPT !.rooms = {currRoom[u]}]
Closed == Message("closed")

Lists(s) == \A i \in 1 .. Len(s) : s[i].kind = "users"

\* Not on the page of a room, and without a thread for one
Outside(u) == role[u] = "none" /\ ~listening[u] /\ page[u] # "room"

\* At rest on another page; a host has left the second word of its closing unread.
Away(u) ==
  /\ Outside(u) /\ currRoom[u] = NoRoom /\ ui[u] = "free" /\ pc[u] = "idle"
  /\ stream[u] = <<>> \/ (u \notin Guests /\ stream[u] = <<Closed>>)

\* Looking for a room: a request, its answer
Looking(u) ==
  /\ Outside(u) /\ currRoom[u] = NoRoom
  /\ \/ pc[u] = "rooms" /\ ui[u] = "rooms" /\ stream[u] = <<>>
     \/ /\ pc[u] = "idle" /\ ui[u] = "rooms"
        /\ \E os \in SUBSET Objects : stream[u] = <<RoomsMessage(os)>>
     \/ pc[u] = "join" /\ ui[u] = "join" /\ stream[u] = <<>>
     \/ pc[u] = "idle" /\ ui[u] = "join" /\ stream[u] = <<Message("refused")>>
     \/ pc[u] = "enter" /\ ui[u] = "join" /\ stream[u] = <<Message("joined")>>
     \/ pc[u] = "enter" /\ ui[u] = "greeting" /\ stream[u] = <<>>

\* Entered, with the list on its way to be disposed of
Arriving(u) ==
  /\ Outside(u) /\ currRoom[u] # NoRoom /\ currRoom[u] = target[u] /\ pc[u] = "idle"
  /\ \/ ui[u] = "join" /\ stream[u] = <<Message("joined"), List(u)>>
     \/ ui[u] = "greeting" /\ stream[u] = <<List(u)>>

\* Opening a room, behind what its last room left unread
Creating(u) ==
  /\ Outside(u) /\ currRoom[u] = NoRoom /\ pc[u] = "create"
  /\ \/ ui[u] = "create" /\ (stream[u] = <<>> \/ stream[u] = <<Closed>>)
     \/ ui[u] = "stray" /\ stream[u] = <<>>

Created(u) ==
  /\ Outside(u) /\ currRoom[u] # NoRoom /\ pc[u] = "idle"
  /\ \/ ui[u] = "create" /\ (stream[u] = <<Made(u)>> \/ stream[u] = <<Closed, Made(u)>>)
     \/ ui[u] = "stray" /\ stream[u] = <<Made(u)>>

\* The room page opens: the list is read, and the list with the zero disposed of.
Opening(u) ==
  /\ role[u] # "none" /\ ~listening[u] /\ page[u] # "room"
  /\ currRoom[u] # NoRoom /\ currRoom[u] = target[u]
  /\ \/ pc[u] = "idle" /\ ui[u] = "ask" /\ stream[u] = <<>>
     \/ pc[u] = "users" /\ ui[u] = "users" /\ stream[u] = <<>>
     \/ /\ pc[u] = "again" /\ known[u] = Players(u)
        /\ \/ ui[u] = "users" /\ stream[u] = <<List(u)>>
           \/ ui[u] = "flush" /\ stream[u] = <<>> /\ view[u] = Players(u)
     \/ /\ pc[u] = "idle"
        /\ \/ ui[u] = "users" /\ stream[u] = <<List(u), List(u)>>
           \/ ui[u] = "flush" /\ stream[u] = <<List(u)>> /\ view[u] = Players(u)

InRoomPage(u) ==
  role[u] # "none" /\ listening[u] /\ page[u] = "room" /\ ui[u] = "free"

\* In the room: only lists are on their way, and the last one is right.
Seated(u) ==
  /\ InRoomPage(u) /\ currRoom[u] # NoRoom
  /\ pc[u] = "idle" \/ (pc[u] = "start" /\ stream[u] = <<>>)
  /\ Lists(stream[u])
  /\ stream[u] = <<>> => view[u] = Players(u)
  /\ stream[u] # <<>> => stream[u][Len(stream[u])].users = Players(u)

\* The room is over, and the last message says so.
Over(u) ==
  /\ InRoomPage(u) /\ currRoom[u] = NoRoom /\ pc[u] = "idle"
  /\ stream[u] # <<>>
  /\ stream[u][Len(stream[u])].kind \in {"closed", "question"}
  /\ \A i \in 1 .. Len(stream[u]) : i # Len(stream[u]) => stream[u][i].kind = "users"

\* The thread has read that the room closed.
Evicted(u) ==
  /\ role[u] # "none" /\ ~listening[u] /\ page[u] = "room" /\ currRoom[u] = NoRoom
  /\ pc[u] = "idle" /\ stream[u] = <<>>
  /\ ui[u] = IF role[u] = "member" THEN "evicted" ELSE "free"

\* Leaving or closing: what ends the thread will be sent, or is on its way.
Departing(u) ==
  /\ role[u] = "none" /\ page[u] # "room" /\ ui[u] = "free"
  /\ \/ pc[u] = "leave" /\ (listening[u] <=> currRoom[u] # NoRoom) /\ stream[u] = <<>>
     \/ /\ pc[u] = "idle" /\ listening[u] /\ currRoom[u] = NoRoom
        /\ stream[u] = <<Message("left")>>
     \/ pc[u] = "close" /\ listening[u] /\ currRoom[u] # NoRoom /\ stream[u] = <<>>
     \/ /\ pc[u] = "idle" /\ listening[u] /\ currRoom[u] = NoRoom /\ u \notin Guests
        /\ stream[u] = <<Closed, Closed>>

Place(u) ==
  /\ page[u] # "lost"
  /\ \/ Away(u) \/ Looking(u) \/ Arriving(u) \/ Creating(u) \/ Created(u)
     \/ Opening(u) \/ Seated(u) \/ Over(u) \/ Evicted(u) \/ Departing(u)

-----------------------------------------------------------------------------
Steady(u) ==
  /\ Dutiful(u)
  /\ u \in Unruly \cap Guests => Hasty(u)
  /\ u \in Patient => Place(u)

\* The inductive invariant
RoomFeedInv == TypeOK /\ RoomsHold /\ Undisturbed /\ \A u \in User : Steady(u)

-----------------------------------------------------------------------------
(* Streams *)

LEMMA MessagesTyped ==
  /\ \A kind \in Kinds : /\ Message(kind) \in Messages /\ Message(kind).kind = kind
                         /\ Message(kind).rooms = {} /\ Message(kind).users = {}
  /\ \A os \in SUBSET Objects : /\ RoomsMessage(os) \in Messages
                                /\ RoomsMessage(os).kind = "rooms"
                                /\ RoomsMessage(os).rooms = os
  /\ \A us \in SUBSET User : /\ UsersMessage(us) \in Messages
                             /\ UsersMessage(us).kind = "users"
                             /\ UsersMessage(us).users = us
BY DEF Message, RoomsMessage, UsersMessage, Messages, Kinds

\* Messages are received.
LEMMA TakenOff ==
  ASSUME NEW s \in Seq(Messages), NEW k \in 1 .. Len(s)
  PROVE  /\ SubSeq(s, k + 1, Len(s)) \in Seq(Messages)
         /\ Len(SubSeq(s, k + 1, Len(s))) = Len(s) - k
         /\ \A i \in 1 .. Len(s) - k : SubSeq(s, k + 1, Len(s))[i] = s[i + k]
         /\ Head(s) \in Messages /\ Head(s) = s[1]
<1>1. PICK n \in Nat : n = Len(s)
  OBVIOUS
<1>2. k \in 1 .. n /\ k \in Nat /\ n - k \in Nat /\ 1 \in 1 .. n
  BY <1>1
<1>3. PICK r : r = SubSeq(s, k + 1, n)
  OBVIOUS
<1>4. /\ r \in Seq(Messages) /\ Len(r) = n - k
      /\ \A i \in 1 .. n - k : r[i] = s[i + k]
  <2>1. \A i \in k + 1 .. n : s[i] \in Messages
    BY <1>1, <1>2
  <2>2. /\ r \in Seq(Messages)
        /\ Len(r) = IF k + 1 <= n THEN n - (k + 1) + 1 ELSE 0
        /\ \A i \in 1 .. n - (k + 1) + 1 : r[i] = s[k + 1 + i - 1]
    BY <1>2, <1>3, <2>1, SubSeqProperties
  <2>3. Len(r) = n - k
    BY <1>2, <2>2
  <2>4. \A i \in 1 .. n - k : i \in 1 .. n - (k + 1) + 1 /\ k + 1 + i - 1 = i + k
    BY <1>2
  <2> QED
    BY <2>2, <2>3, <2>4
<1>5. Head(s) \in Messages /\ Head(s) = s[1]
  BY <1>1, <1>2
<1> QED
  BY <1>1, <1>3, <1>4, <1>5

\* The short streams of a patient client
LEMMA ShortStreams ==
  ASSUME NEW m \in Messages, NEW p \in Messages
  PROVE  /\ <<m>> # <<>> /\ <<m, p>> # <<>> /\ Len(<<>>) = 0
         /\ Len(<<m>>) = 1 /\ <<m>>[1] = m /\ SubSeq(<<m>>, 2, 1) = <<>>
         /\ Len(<<m, p>>) = 2 /\ <<m, p>>[1] = m /\ <<m, p>>[2] = p
         /\ SubSeq(<<m, p>>, 2, 2) = <<p>>
         /\ Append(<<>>, m) = <<m>> /\ Append(<<m>>, p) = <<m, p>>
<1>1. /\ <<m>> # <<>> /\ <<m, p>> # <<>> /\ Len(<<>>) = 0
      /\ Len(<<m>>) = 1 /\ <<m>>[1] = m
      /\ Len(<<m, p>>) = 2 /\ <<m, p>>[1] = m /\ <<m, p>>[2] = p
  OBVIOUS
<1>2. SubSeq(<<m>>, 2, 1) = <<>>
  BY SubSeqEmpty
<1>3. SubSeq(<<m, p>>, 2, 2) = <<p>>
  <2>1. <<m, p>> \in Seq(Messages) /\ <<p>> \in Seq(Messages)
    OBVIOUS
  <2>2. /\ SubSeq(<<m, p>>, 1 + 1, Len(<<m, p>>)) \in Seq(Messages)
        /\ Len(SubSeq(<<m, p>>, 1 + 1, Len(<<m, p>>))) = Len(<<m, p>>) - 1
        /\ \A i \in 1 .. Len(<<m, p>>) - 1 :
             SubSeq(<<m, p>>, 1 + 1, Len(<<m, p>>))[i] = <<m, p>>[i + 1]
    BY <1>1, <2>1, TakenOff
  <2>3. PICK r : r = SubSeq(<<m, p>>, 2, 2)
    OBVIOUS
  <2>4. r \in Seq(Messages) /\ Len(r) = 1 /\ r[1] = p
    BY <1>1, <2>2, <2>3
  <2>5. Len(<<p>>) = 1 /\ \A i \in 1 .. 1 : r[i] = <<p>>[i]
    BY <2>4
  <2>6. r = <<p>>
    BY <2>1, <2>4, <2>5, SeqEqual
  <2> QED
    BY <2>3, <2>6
<1>4. Append(<<>>, m) = <<m>> /\ Append(<<m>>, p) = <<m, p>>
  <2>1. <<>> \in Seq(Messages) /\ <<m>> \in Seq(Messages) /\ <<m, p>> \in Seq(Messages)
    OBVIOUS
  <2>2. \A i \in 1 .. 1 : i = 1
    OBVIOUS
  <2>3. \A i \in 1 .. 2 : i = 2 \/ (i = 1 /\ i \in 1 .. 1)
    OBVIOUS
  <2>4. Append(<<>>, m) = <<m>>
    <3>1. PICK t : t = Append(<<>>, m)
      OBVIOUS
    <3>2. t \in Seq(Messages) /\ Len(t) = 0 + 1 /\ t[0 + 1] = m
      BY <1>1, <2>1, <3>1, AppendProperties
    <3>3. Len(t) = Len(<<m>>) /\ \A i \in 1 .. Len(t) : t[i] = <<m>>[i]
      BY <1>1, <2>2, <3>2
    <3>4. t = <<m>>
      BY <2>1, <3>2, <3>3, SeqEqual
    <3> QED
      BY <3>1, <3>4
  <2>5. Append(<<m>>, p) = <<m, p>>
    <3>1. PICK t : t = Append(<<m>>, p)
      OBVIOUS
    <3>2. t \in Seq(Messages) /\ Len(t) = 1 + 1 /\ t[1 + 1] = p /\ t[1] = m
      BY <1>1, <2>1, <3>1, AppendProperties
    <3>3. Len(t) = Len(<<m, p>>) /\ \A i \in 1 .. Len(t) : t[i] = <<m, p>>[i]
      BY <1>1, <2>3, <3>2
    <3>4. t = <<m, p>>
      BY <2>1, <3>2, <3>3, SeqEqual
    <3> QED
      BY <3>1, <3>4
  <2> QED
    BY <2>4, <2>5
<1> QED
  BY <1>1, <1>2, <1>3, <1>4

\* An answer that comes, and what is not one
LEMMA AnswersAppended ==
  ASSUME NEW s \in Seq(Messages), NEW m \in Messages
  PROVE  /\ NoAnswer(s) => OneAnswer(s) /\ OneAnswer(Append(s, m))
         /\ NoAnswer(s) /\ m.kind \notin Answers => NoAnswer(Append(s, m))
         /\ OneAnswer(s) /\ m.kind \notin Answers => OneAnswer(Append(s, m))
         /\ OldNews(s) /\ m.kind # "closed" => OldNews(Append(s, m))
         /\ m.kind = "joined" => OldNews(Append(s, m))
<1>1. PICK n \in Nat : n = Len(s)
  OBVIOUS
<1>2. PICK t : t = Append(s, m)
  OBVIOUS
<1>3. Len(t) = n + 1 /\ t[n + 1] = m /\ \A i \in 1 .. n : t[i] = s[i]
  BY <1>1, <1>2, AppendProperties
<1>4. \A i \in 1 .. n + 1 : i \in 1 .. n \/ i = n + 1
  OBVIOUS
<1>5. \A i \in 1 .. n : i \in 1 .. n + 1 /\ i < n + 1
  OBVIOUS
<1>6. n + 1 \in 1 .. n + 1
  OBVIOUS
<1>7. NoAnswer(s) => OneAnswer(s) /\ OneAnswer(t)
  BY <1>1, <1>3, <1>4 DEF NoAnswer, OneAnswer
<1>8. NoAnswer(s) /\ m.kind \notin Answers => NoAnswer(t)
  BY <1>1, <1>3, <1>4 DEF NoAnswer
<1>9. OneAnswer(s) /\ m.kind \notin Answers => OneAnswer(t)
  BY <1>1, <1>3, <1>4 DEF OneAnswer
<1>10. OldNews(s) /\ m.kind # "closed" => OldNews(t)
  BY <1>1, <1>3, <1>4, <1>5 DEF OldNews
<1>11. m.kind = "joined" => OldNews(t)
  <2> SUFFICES ASSUME m.kind = "joined", NEW i \in 1 .. n + 1, t[i].kind = "closed"
               PROVE  i < n + 1
    BY <1>3, <1>6 DEF OldNews
  <2>1. i # n + 1
    BY <1>3
  <2> QED
    BY <1>4, <1>5, <2>1
<1> QED
  BY <1>2, <1>7, <1>8, <1>9, <1>10, <1>11

\* What remains when messages are received
LEMMA AnswersTaken ==
  ASSUME NEW s \in Seq(Messages), NEW k \in 1 .. Len(s),
         NEW r, r = SubSeq(s, k + 1, Len(s))
  PROVE  /\ NoAnswer(s) => NoAnswer(r)
         /\ OneAnswer(s) => OneAnswer(r)
         /\ OneAnswer(s) /\ s[1].kind \in Answers => NoAnswer(r)
         /\ OldNews(s) => OldNews(r)
<1>1. PICK n \in Nat : n = Len(s)
  OBVIOUS
<1>2. k \in 1 .. n /\ k \in Nat /\ n - k \in Nat /\ 1 \in 1 .. n
  BY <1>1
<1>3. Len(r) = n - k /\ \A i \in 1 .. n - k : r[i] = s[i + k]
  BY <1>1, TakenOff
<1>4. \A i \in 1 .. n - k : i \in Nat /\ i + k \in 1 .. n /\ i + k # 1
  BY <1>2
<1>5. NoAnswer(s) => NoAnswer(r)
  BY <1>1, <1>3, <1>4 DEF NoAnswer
<1>6. OneAnswer(s) => OneAnswer(r)
  <2> SUFFICES ASSUME OneAnswer(s), NEW i \in 1 .. n - k, NEW j \in 1 .. n - k,
                      r[i].kind \in Answers, r[j].kind \in Answers
               PROVE  i = j
    BY <1>3 DEF OneAnswer
  <2>1. i + k = j + k
    BY <1>1, <1>3, <1>4 DEF OneAnswer
  <2> QED
    BY <1>2, <1>4, <2>1
<1>7. OneAnswer(s) /\ s[1].kind \in Answers => NoAnswer(r)
  BY <1>1, <1>2, <1>3, <1>4 DEF OneAnswer, NoAnswer
<1>8. OldNews(s) => OldNews(r)
  <2> SUFFICES ASSUME OldNews(s), NEW i \in 1 .. n - k, r[i].kind = "closed"
               PROVE  \E j \in 1 .. n - k : i < j /\ r[j].kind = "joined"
    BY <1>3 DEF OldNews
  <2>1. PICK j \in 1 .. n : i + k < j /\ s[j].kind = "joined"
    BY <1>1, <1>3, <1>4 DEF OldNews
  <2>2. j \in Nat /\ i \in Nat
    BY <1>4
  <2>3. j - k \in 1 .. n - k /\ i < j - k /\ (j - k) + k = j
    BY <1>2, <2>1, <2>2
  <2> QED
    BY <1>3, <2>1, <2>3
<1> QED
  BY <1>5, <1>6, <1>7, <1>8

-----------------------------------------------------------------------------
(* Those who do not act, and steps of one user that leave the rooms alone *)

\* Nothing of v changes.
Spared(v) ==
  /\ pc'[v] = pc[v] /\ target'[v] = target[v] /\ known'[v] = known[v]
  /\ stream'[v] = stream[v] /\ page'[v] = page[v] /\ ui'[v] = ui[v]
  /\ role'[v] = role[v] /\ listening'[v] = listening[v] /\ view'[v] = view[v]
  /\ currRoom'[v] = currRoom[v]

\* What everyone must keep: who is spared, and whose room is, stays where it is.
LEMMA SparedSteady ==
  ASSUME NEW v \in User, Steady(v), Spared(v),
         pc[v] = "enter" /\ Listed(target[v]) => Listed(target[v])',
         currRoom[v] # NoRoom => rooms'[currRoom[v]].users = rooms[currRoom[v]].users
  PROVE  Steady(v)'
<1>1. Dutiful(v)'
  <2>1. pc[v] = "enter" /\ Listed(target[v]) =>
          rooms'[target[v]].open /\ target[v] \in DOMAIN rooms'
    BY DEF Listed, Spared
  <2> QED
    BY <2>1 DEF Steady, Dutiful, Spared, Listed
<1>2. v \in Unruly \cap Guests => Hasty(v)'
  BY DEF Steady, Hasty, Spared
<1>3. ASSUME v \in Patient
      PROVE  Place(v)'
  <2>1. Place(v)
    BY <1>3 DEF Steady
  <2>2. CASE currRoom[v] = NoRoom
    BY <2>1, <2>2 DEF Place, Away, Looking, Arriving, Creating, Created, Opening, Seated,
                      Over, Evicted, Departing, Outside, InRoomPage, Spared
  <2>3. CASE currRoom[v] # NoRoom
    <3>1. Players(v)' = Players(v) /\ List(v)' = List(v) /\ Made(v)' = Made(v)
      BY <2>3 DEF Players, List, Made, Spared
    <3> QED
      BY <2>1, <2>3, <3>1
        DEF Place, Away, Looking, Arriving, Creating, Created, Opening, Seated,
            Over, Evicted, Departing, Outside, InRoomPage, Spared
  <2> QED
    BY <2>2, <2>3
<1> QED
  BY <1>1, <1>2, <1>3 DEF Steady, Patient

\* Only u changes, and no room does.
Alone(u) == UNCHANGED server /\ \A v \in User \ {u} : Spared(v)

\* u begins something new when it may, or goes on as before.
MayBegin(u) ==
  \A v \in User \ {u} : /\ v \in Patient => ~Engaged(v)
                        /\ u \in Patient => Quiet(v)
GoesOn(u) ==
  /\ Quiet(u) => pc'[u] \in {"idle", "users", "again"}
                 \/ (pc'[u] = "leave" /\ currRoom[u] = NoRoom)
  /\ u \in Patient /\ Engaged(u)' => Engaged(u)

\* A room is only asked for when there is one more to be had.
Reserved(u) ==
  pc'[u] = "create" => \/ pc[u] = "create"
                       \/ currRoom[u] # NoRoom
                       \/ Len(rooms) + Cardinality({v \in User : pc[v] = "create"}) < MaxRooms

LEMMA MakersFinite ==
  /\ IsFiniteSet(Makers) /\ Cardinality(Makers) \in Nat
  /\ IsFiniteSet({v \in User : pc[v] = "create"})
  /\ Cardinality({v \in User : pc[v] = "create"}) \in Nat
  /\ Cardinality(Makers) <= Cardinality({v \in User : pc[v] = "create"})
<1>1. IsFiniteSet(User)
  BY RoomFeedAssumption
<1>2. /\ Makers \subseteq {v \in User : pc[v] = "create"}
      /\ {v \in User : pc[v] = "create"} \subseteq User
  BY DEF Makers
<1>3. IsFiniteSet({v \in User : pc[v] = "create"})
  BY <1>1, <1>2, FS_Subset
<1> QED
  BY <1>2, <1>3, FS_Subset, FS_CardinalityType

LEMMA AloneKeepsRooms ==
  ASSUME TypeOK, RoomsHold, NEW u \in User, Alone(u), Reserved(u)
  PROVE  RoomsHold'
<1>1. InOpenRoom'
  BY DEF RoomsHold, InOpenRoom, Alone, Listed, server
<1>2. InOneRoom'
  BY DEF RoomsHold, InOneRoom, Alone, server, Patient
<1>3. HostsAtHome'
  BY DEF RoomsHold, HostsAtHome, Alone, server
<1>4. RoomForAll'
  <2>1. \A v \in User \ {u} : v \in Makers' <=> v \in Makers
    BY DEF Makers, Alone, Spared
  <2>2. PICK n \in Nat, m \in Nat, a \in Nat :
          /\ n = Len(rooms) /\ m = Cardinality(Makers)
          /\ a = Cardinality({v \in User : pc[v] = "create"}) /\ m <= a
    <3>1. Len(rooms) \in Nat
      BY DEF TypeOK
    <3> QED
      BY <3>1, MakersFinite
  <2>3. n + m <= MaxRooms /\ MaxRooms \in Nat /\ rooms' = rooms /\ currRoom' = currRoom
    BY <2>2, RoomFeedAssumption DEF RoomsHold, RoomForAll, Alone, server
  <2>4. CASE u \in Makers' /\ u \notin Makers
    <3>1. Makers' = Makers \cup {u}
      BY <2>1, <2>4 DEF Makers
    <3>2. Cardinality(Makers') = m + 1
      BY <2>2, <2>4, <3>1, MakersFinite, FS_AddElement
    <3>3. pc'[u] = "create" /\ currRoom[u] = NoRoom /\ pc[u] # "create"
      BY <2>3, <2>4 DEF Makers
    <3>4. n + a < MaxRooms
      BY <2>2, <3>3 DEF Reserved
    <3>5. n + (m + 1) <= MaxRooms
      BY <2>2, <2>3, <3>4
    <3> QED
      BY <2>2, <2>3, <3>2, <3>5 DEF RoomForAll
  <2>5. CASE u \notin Makers' \/ u \in Makers
    <3>1. Makers' \subseteq Makers
      BY <2>1, <2>5 DEF Makers
    <3>2. PICK l \in Nat : l = Cardinality(Makers') /\ l <= m
      BY <2>2, <3>1, MakersFinite, FS_Subset, FS_CardinalityType
    <3>3. n + l <= MaxRooms
      BY <2>3, <3>2
    <3> QED
      BY <2>2, <2>3, <3>2, <3>3 DEF RoomForAll
  <2> QED
    BY <2>4, <2>5
<1> QED
  BY <1>1, <1>2, <1>3, <1>4 DEF RoomsHold

LEMMA AloneStep ==
  ASSUME RoomFeedInv, NEW u \in User, Alone(u), TypeOK', Steady(u)',
         MayBegin(u) \/ GoesOn(u), Reserved(u)
  PROVE  RoomFeedInv'
<1>1. TypeOK /\ RoomsHold /\ Undisturbed /\ \A v \in User : Steady(v)
  BY DEF RoomFeedInv
<1>2. RoomsHold'
  BY <1>1, AloneKeepsRooms
<1>3. rooms' = rooms /\ currRoom' = currRoom /\ \A v \in User \ {u} : Spared(v)
  BY DEF Alone, server
<1>4. \A v \in User : Steady(v)'
  <2>1. ASSUME NEW v \in User \ {u}
        PROVE  Steady(v)'
    <3>1. /\ v \in User /\ Steady(v) /\ Spared(v) /\ target'[v] = target[v]
          /\ pc[v] = "enter" /\ Listed(target[v]) => Listed(target[v])'
          /\ currRoom[v] # NoRoom => rooms'[currRoom[v]].users = rooms[currRoom[v]].users
      BY <1>1, <1>3, <2>1 DEF Spared, Listed
    <3> QED
      BY <3>1, SparedSteady
  <2> QED
    BY <2>1
<1>5. Undisturbed'
  <2>1. \A v \in User \ {u} : (Engaged(v)' <=> Engaged(v)) /\ (Quiet(v)' <=> Quiet(v))
    BY <1>3 DEF Engaged, Quiet, Spared
  <2>2. CASE MayBegin(u)
    BY <1>1, <2>1, <2>2 DEF Undisturbed, MayBegin, Patient
  <2>3. CASE GoesOn(u)
    <3>1. Quiet(u) => Quiet(u)'
      BY <1>3, <2>3 DEF GoesOn, Quiet
    <3>2. u \in Patient /\ Engaged(u)' => Engaged(u)
      BY <2>3 DEF GoesOn
    <3> QED
      BY <1>1, <2>1, <3>1, <3>2 DEF Undisturbed, Patient
  <2> QED
    BY <2>2, <2>3
<1> QED
  BY <1>2, <1>4, <1>5 DEF RoomFeedInv

-----------------------------------------------------------------------------
(* Beginning, sending and receiving *)

LEMMA Begun ==
  ASSUME TypeOK, NEW u \in User, NEW step \in Steps, Begin(u, step)
  PROVE  /\ pc[u] = "idle" /\ ui[u] = "free" /\ page[u] # "lost"
         /\ pc' \in [User -> Steps] /\ pc'[u] = step
         /\ \A v \in User \ {u} : pc'[v] = pc[v]
         /\ u \in Patient /\ listening[u] => stream[u] = <<>>
         /\ MayBegin(u)
<1>1. /\ pc[u] = "idle" /\ ui[u] = "free" /\ page[u] # "lost"
      /\ pc' = [pc EXCEPT ![u] = step]
      /\ \A v \in Patient : ui[v] = "free" /\ pc[v] = "idle"
      /\ u \in Patient => /\ listening[u] => stream[u] = <<>>
                          /\ \A v \in User : pc[v] = "idle"
  BY DEF Begin, Goto, Patient
<1>2. MayBegin(u)
  BY <1>1 DEF MayBegin, Engaged, Quiet
<1> QED
  BY <1>1, <1>2 DEF TypeOK

\* A patient user that begins something from a menu is at rest.
LEMMA BegunAway ==
  ASSUME NEW u \in Patient, Place(u), pc[u] = "idle", ui[u] = "free",
         page[u] \in Menu, Undistracted(u)
  PROVE  Away(u)
BY DEF Place, Away, Looking, Arriving, Creating, Created, Opening, Seated, Over, Evicted,
       Departing, InRoomPage, Menu, Undistracted, Patient

\* An unruly guest that begins something from a menu is in no room page.
LEMMA BegunHasty ==
  ASSUME NEW u \in User, Hasty(u), ui[u] = "free", page[u] \in Menu
  PROVE  role[u] # "member" /\ NoAnswer(stream[u]) /\ OneAnswer(stream[u])
BY DEF Hasty, Menu

LEMMA Sent ==
  ASSUME TypeOK, NEW us, NEW m \in Messages, SendTo(us, m)
  PROVE  /\ stream' \in [User -> Seq(Messages)]
         /\ \A v \in User : stream'[v] = IF v \in us /\ page[v] # "lost"
                                           THEN Append(stream[v], m) ELSE stream[v]
<1>1. \A v \in User : stream'[v] = IF v \in us /\ page[v] # "lost"
                                     THEN Append(stream[v], m) ELSE stream[v]
  BY DEF SendTo
<1>2. \A v \in User : stream[v] \in Seq(Messages) /\ Append(stream[v], m) \in Seq(Messages)
  BY AppendProperties DEF TypeOK
<1>3. stream' = [v \in User |-> stream'[v]]
  BY <1>1 DEF SendTo
<1> QED
  BY <1>1, <1>2, <1>3

LEMMA ReceivedOne ==
  ASSUME TypeOK, NEW u \in User, NEW k \in Received(u), Take(u, k)
  PROVE  /\ stream' \in [User -> Seq(Messages)] /\ stream[u] # <<>>
         /\ \A v \in User \ {u} : stream'[v] = stream[v]
         /\ Head(stream[u]) \in Messages /\ Head(stream[u]) = stream[u][1]
         /\ k \in 1 .. Len(stream[u]) /\ (u \in Patient => k = 1)
         /\ Len(stream'[u]) = Len(stream[u]) - k
         /\ \A i \in 1 .. Len(stream[u]) - k : stream'[u][i] = stream[u][i + k]
         /\ NoAnswer(stream[u]) => NoAnswer(stream'[u])
         /\ OneAnswer(stream[u]) => OneAnswer(stream'[u])
         /\ OneAnswer(stream[u]) /\ Head(stream[u]).kind \in Answers => NoAnswer(stream'[u])
         /\ OldNews(stream[u]) => OldNews(stream'[u])
         /\ \A m, p \in Messages : u \in Patient =>
              /\ stream[u] = <<m>> => Head(stream[u]) = m /\ stream'[u] = <<>>
              /\ stream[u] = <<m, p>> => Head(stream[u]) = m /\ stream'[u] = <<p>>
<1>1. /\ stream[u] \in Seq(Messages) /\ k \in 1 .. Len(stream[u])
      /\ u \in Patient => k = 1
      /\ stream' = [stream EXCEPT ![u] = SubSeq(stream[u], k + 1, Len(stream[u]))]
  BY DEF TypeOK, Received, Take, Patient
<1>2. PICK s \in Seq(Messages) : s = stream[u]
  BY <1>1
<1>3. PICK r : r = SubSeq(s, k + 1, Len(s))
  OBVIOUS
<1>4. /\ r \in Seq(Messages) /\ Len(r) = Len(s) - k
      /\ \A i \in 1 .. Len(s) - k : r[i] = s[i + k]
      /\ Head(s) \in Messages /\ Head(s) = s[1]
  BY <1>1, <1>2, <1>3, TakenOff
<1>5. /\ NoAnswer(s) => NoAnswer(r)
      /\ OneAnswer(s) => OneAnswer(r)
      /\ OneAnswer(s) /\ s[1].kind \in Answers => NoAnswer(r)
      /\ OldNews(s) => OldNews(r)
  <2>1. k \in 1 .. Len(s)
    BY <1>1, <1>2
  <2>2. NoAnswer(s) => NoAnswer(r)
    BY <1>3, <2>1, AnswersTaken
  <2>3. OneAnswer(s) => OneAnswer(r)
    BY <1>3, <2>1, AnswersTaken
  <2>4. OneAnswer(s) /\ s[1].kind \in Answers => NoAnswer(r)
    BY <1>3, <2>1, AnswersTaken
  <2>5. OldNews(s) => OldNews(r)
    BY <1>3, <2>1, AnswersTaken
  <2> QED
    BY <2>2, <2>3, <2>4, <2>5
<1>6. ASSUME NEW m \in Messages, NEW p \in Messages, u \in Patient
      PROVE  /\ s = <<m>> => Head(s) = m /\ r = <<>>
             /\ s = <<m, p>> => Head(s) = m /\ r = <<p>>
  <2>1. k = 1 /\ k + 1 = 2
    BY <1>1, <1>6
  <2>2. /\ Len(<<m>>) = 1 /\ <<m>>[1] = m /\ SubSeq(<<m>>, 2, 1) = <<>>
        /\ Len(<<m, p>>) = 2 /\ <<m, p>>[1] = m /\ SubSeq(<<m, p>>, 2, 2) = <<p>>
    BY ShortStreams
  <2>3. ASSUME s = <<m>> PROVE Head(s) = m /\ r = <<>>
    BY <1>3, <1>4, <2>1, <2>2, <2>3
  <2>4. ASSUME s = <<m, p>> PROVE Head(s) = m /\ r = <<p>>
    BY <1>3, <1>4, <2>1, <2>2, <2>4
  <2> QED
    BY <2>3, <2>4
<1>7. stream'[u] = r /\ \A v \in User \ {u} : stream'[v] = stream[v]
  BY <1>1, <1>2, <1>3 DEF TypeOK
<1>8. stream' \in [User -> Seq(Messages)]
  BY <1>1, <1>2, <1>3, <1>4 DEF TypeOK
<1>9. s # <<>>
  <2>1. Len(<<>>) = 0
    OBVIOUS
  <2>2. Len(s) # 0
    BY <1>1, <1>2
  <2> QED
    BY <2>1, <2>2
<1> QED
  BY <1>1, <1>2, <1>4, <1>5, <1>6, <1>7, <1>8, <1>9

\* What a user in a room is sent about it
LEMMA RoomMessages ==
  ASSUME TypeOK, InOpenRoom, NEW u \in User, currRoom[u] # NoRoom
  PROVE  /\ Players(u) \in SUBSET User
         /\ List(u) \in Messages /\ List(u).kind = "users" /\ List(u).users = Players(u)
         /\ Made(u) \in Messages /\ Made(u).kind = "created"
         /\ Made(u).rooms = {currRoom[u]}
         /\ currRoom[u] \in Objects /\ currRoom[u] \in 1 .. Len(rooms)
         /\ rooms[currRoom[u]].open
<1>1. currRoom[u] \in 1 .. Len(rooms) /\ rooms[currRoom[u]].open
  BY DEF InOpenRoom, Listed, TypeOK
<1>2. rooms[currRoom[u]] \in Room
  BY <1>1 DEF TypeOK
<1>3. Players(u) \in SUBSET User
  BY <1>2 DEF Players, Room
<1>4. currRoom[u] \in Objects
  BY DEF TypeOK, Objects, NoRoom
<1>5. Made(u) \in Messages /\ Made(u).kind = "created" /\ Made(u).rooms = {currRoom[u]}
  BY <1>4 DEF Made, Message, Messages, Kinds
<1> QED
  BY <1>1, <1>3, <1>4, <1>5, MessagesTyped DEF List

\* A client that takes what was not for it is followed no further.
LEMMA Lost ==
  ASSUME RoomFeedInv, NEW u \in User \ Patient, Lose(u), UNCHANGED <<server, threads>>
  PROVE  RoomFeedInv'
<1>1. TypeOK /\ Steady(u)
  BY DEF RoomFeedInv
<1>2. /\ pc' = pc /\ target' = target /\ known' = known /\ rooms' = rooms
      /\ currRoom' = currRoom /\ role' = role
      /\ page' = [page EXCEPT ![u] = "lost"] /\ ui' = [ui EXCEPT ![u] = "free"]
      /\ listening' = [listening EXCEPT ![u] = FALSE]
      /\ stream' = [stream EXCEPT ![u] = <<>>]
      /\ shown' = [shown EXCEPT ![u] = {}] /\ view' = [view EXCEPT ![u] = {}]
  BY DEF Lose, Show, Await, server, threads
<1>3. TypeOK'
  <2>1. <<>> \in Seq(Messages)
    OBVIOUS
  <2> QED
    BY <1>1, <1>2, <2>1 DEF TypeOK, Pages, Waits
<1>4. Alone(u)
  BY <1>1, <1>2 DEF Alone, Spared, TypeOK, server
<1>5. page'[u] = "lost" /\ ui'[u] = "free" /\ ~listening'[u]
  BY <1>1, <1>2 DEF TypeOK
<1>6. Steady(u)'
  BY <1>1, <1>2, <1>5 DEF Steady, Dutiful, Hasty, Listed, Patient
<1>7. GoesOn(u) /\ Reserved(u)
  BY <1>2 DEF GoesOn, Quiet, Reserved
<1> QED
  BY <1>3, <1>4, <1>6, <1>7, AloneStep

-----------------------------------------------------------------------------
(* The page that lists the rooms, and joining one *)

LEMMA OpenRoomsSound ==
  ASSUME RoomFeedInv, NEW u \in User, OpenRooms(u)
  PROVE  RoomFeedInv'
<1>1. TypeOK /\ Steady(u)
  BY DEF RoomFeedInv
<1>2. /\ pc[u] = "idle" /\ ui[u] = "free" /\ page[u] # "lost"
      /\ pc' \in [User -> Steps] /\ pc'[u] = "rooms"
      /\ \A v \in User \ {u} : pc'[v] = pc[v]
      /\ MayBegin(u)
  BY <1>1, Begun DEF OpenRooms, Steps
<1>3. /\ u \in Guests /\ page[u] \in Menu /\ Undistracted(u)
      /\ ui' = [ui EXCEPT ![u] = "rooms"] /\ page' = [page EXCEPT ![u] = "browsing"]
      /\ shown' = [shown EXCEPT ![u] = {}]
      /\ UNCHANGED <<rooms, currRoom, target, known, stream, role, listening, view>>
  BY DEF OpenRooms, Await, Show, server
<1>4. TypeOK' /\ Alone(u)
  BY <1>1, <1>2, <1>3 DEF TypeOK, Alone, Spared, Pages, Waits, server
<1>5. ui'[u] = "rooms" /\ page'[u] = "browsing"
  BY <1>1, <1>3 DEF TypeOK
<1>6. Dutiful(u)'
  BY <1>1, <1>2, <1>3, <1>5 DEF Steady, Dutiful
<1>7. u \in Unruly \cap Guests => Hasty(u)'
  <2>1. u \in Unruly \cap Guests => Hasty(u)
    BY <1>1 DEF Steady
  <2> QED
    BY <1>2, <1>3, <1>5, <2>1, BegunHasty DEF Hasty
<1>8. u \in Patient => Place(u)'
  <2> SUFFICES ASSUME u \in Patient PROVE Looking(u)'
    BY <1>5 DEF Place
  <2>1. Away(u)
    BY <1>1, <1>2, <1>3, BegunAway DEF Steady
  <2> QED
    BY <1>2, <1>3, <1>5, <2>1 DEF Away, Looking, Outside
<1>9. Reserved(u)
  BY <1>2 DEF Reserved
<1> QED
  BY <1>2, <1>4, <1>6, <1>7, <1>8, <1>9, AloneStep DEF Steady, Patient

LEMMA HandleGetRoomsSound ==
  ASSUME RoomFeedInv, NEW u \in User, HandleGetRooms(u)
  PROVE  RoomFeedInv'
<1>1. TypeOK /\ Steady(u)
  BY DEF RoomFeedInv
<1>2. PICK os \in SUBSET Objects : os = {o \in Objects : Listed(o)}
  OBVIOUS
<1>3. PICK m \in Messages : m = RoomsMessage(os) /\ m.kind = "rooms"
  BY MessagesTyped
<1>4. /\ pc[u] = "rooms" /\ pc' = [pc EXCEPT ![u] = "idle"]
      /\ SendTo({u}, m)
      /\ UNCHANGED <<rooms, currRoom, target, known, page, ui, role, listening, shown, view>>
  BY <1>2, <1>3 DEF HandleGetRooms, Goto, server, client
<1>5. /\ stream' \in [User -> Seq(Messages)]
      /\ stream'[u] = IF page[u] # "lost" THEN Append(stream[u], m) ELSE stream[u]
      /\ \A v \in User \ {u} : stream'[v] = stream[v]
  BY <1>1, <1>4, Sent
<1>6. TypeOK' /\ Alone(u) /\ pc'[u] = "idle"
  BY <1>1, <1>4, <1>5 DEF TypeOK, Alone, Spared, Steps, server
<1>7. Dutiful(u)'
  BY <1>1, <1>4, <1>6 DEF Steady, Dutiful
<1>8. u \in Unruly \cap Guests => Hasty(u)'
  <2>1. stream[u] \in Seq(Messages) /\ m.kind \notin Answers /\ m.kind # "closed"
    BY <1>1, <1>3 DEF TypeOK, Answers
  <2>2. /\ NoAnswer(stream[u]) => NoAnswer(Append(stream[u], m))
        /\ OneAnswer(stream[u]) => OneAnswer(Append(stream[u], m))
        /\ OldNews(stream[u]) => OldNews(Append(stream[u], m))
    BY <2>1, AnswersAppended
  <2> QED
    BY <1>1, <1>4, <1>5, <1>6, <2>2 DEF Steady, Hasty
<1>9. u \in Patient => Place(u)'
  <2> SUFFICES ASSUME u \in Patient PROVE Place(u)'
    OBVIOUS
  <2>1. Place(u)
    BY <1>1 DEF Steady
  <2>2. page[u] # "lost" /\ Looking(u) /\ ui[u] = "rooms" /\ stream[u] = <<>>
    BY <1>4, <2>1 DEF Place, Away, Looking, Arriving, Creating, Created, Opening, Seated,
                      Over, Evicted, Departing
  <2>3. stream'[u] = <<RoomsMessage(os)>>
    BY <1>3, <1>5, <2>2, ShortStreams
  <2>4. Looking(u)'
    BY <1>4, <1>6, <2>2, <2>3 DEF Looking, Outside
  <2> QED
    BY <1>4, <2>2, <2>4 DEF Place
<1>10. GoesOn(u) /\ Reserved(u)
  BY <1>4, <1>6 DEF GoesOn, Quiet, Engaged, Reserved
<1> QED
  BY <1>6, <1>7, <1>8, <1>9, <1>10, AloneStep DEF Steady, Patient

LEMMA ReadRoomsSound ==
  ASSUME RoomFeedInv, NEW u \in User, ReadRooms(u)
  PROVE  RoomFeedInv'
<1>1. TypeOK /\ Steady(u)
  BY DEF RoomFeedInv
<1>2. PICK k \in Received(u) : Take(u, k)
  BY DEF ReadRooms
<1>3. /\ stream' \in [User -> Seq(Messages)] /\ stream[u] # <<>>
      /\ \A v \in User \ {u} : stream'[v] = stream[v]
      /\ Head(stream[u]) \in Messages
      /\ NoAnswer(stream[u]) => NoAnswer(stream'[u])
      /\ OneAnswer(stream[u]) => OneAnswer(stream'[u])
      /\ OldNews(stream[u]) => OldNews(stream'[u])
      /\ \A m \in Messages : u \in Patient /\ stream[u] = <<m>> => stream'[u] = <<>>
  BY <1>1, <1>2, ReceivedOne
<1>4. /\ ui[u] = "rooms" /\ ui' = [ui EXCEPT ![u] = "free"]
      /\ shown' = [shown EXCEPT ![u] = Head(stream[u]).rooms]
      /\ UNCHANGED <<rooms, currRoom, pc, target, known, page, role, listening, view>>
  BY DEF ReadRooms, Await, server, threads
<1>5. Head(stream[u]).rooms \in SUBSET Objects
  BY <1>3 DEF Messages
<1>6. TypeOK' /\ Alone(u) /\ ui'[u] = "free"
  BY <1>1, <1>3, <1>4, <1>5 DEF TypeOK, Alone, Spared, Waits, server
<1>7. Dutiful(u)'
  BY <1>1, <1>4, <1>6 DEF Steady, Dutiful, Listed
<1>8. u \in Unruly \cap Guests => Hasty(u)'
  BY <1>1, <1>3, <1>4, <1>6 DEF Steady, Hasty
<1>9. u \in Patient => Place(u)'
  <2> SUFFICES ASSUME u \in Patient PROVE Place(u)'
    OBVIOUS
  <2>1. Place(u)
    BY <1>1 DEF Steady
  <2>2. /\ page[u] # "lost" /\ Looking(u) /\ pc[u] = "idle"
        /\ \E os \in SUBSET Objects : stream[u] = <<RoomsMessage(os)>>
    BY <1>3, <1>4, <2>1 DEF Place, Away, Looking, Arriving, Creating, Created, Opening,
                            Seated, Over, Evicted, Departing, InRoomPage
  <2>3. stream'[u] = <<>>
    BY <1>3, <2>2, MessagesTyped
  <2>4. Away(u)'
    BY <1>4, <1>6, <2>2, <2>3 DEF Away, Looking, Outside
  <2> QED
    BY <1>4, <2>2, <2>4 DEF Place
<1>10. GoesOn(u) /\ Reserved(u)
  BY <1>4, <1>6 DEF GoesOn, Quiet, Engaged, Reserved
<1> QED
  BY <1>6, <1>7, <1>8, <1>9, <1>10, AloneStep DEF Steady, Patient

LEMMA JoinRoomSound ==
  ASSUME RoomFeedInv, NEW u \in User, JoinRoom(u)
  PROVE  RoomFeedInv'
<1>1. TypeOK /\ Steady(u)
  BY DEF RoomFeedInv
<1>2. /\ pc[u] = "idle" /\ ui[u] = "free" /\ page[u] # "lost"
      /\ pc' \in [User -> Steps] /\ pc'[u] = "join"
      /\ \A v \in User \ {u} : pc'[v] = pc[v]
      /\ u \in Patient /\ listening[u] => stream[u] = <<>>
      /\ MayBegin(u)
  BY <1>1, Begun DEF JoinRoom, Steps
<1>3. PICK o \in shown[u] : target' = [target EXCEPT ![u] = o]
  BY DEF JoinRoom
<1>4. /\ page[u] = "browsing" /\ ui' = [ui EXCEPT ![u] = "join"]
      /\ UNCHANGED <<rooms, currRoom, known, stream, page, role, listening, shown, view>>
  BY DEF JoinRoom, Await, server
<1>5. o \in 0 .. MaxRooms
  BY <1>1, RoomFeedAssumption DEF TypeOK, Objects
<1>6. TypeOK' /\ Alone(u) /\ ui'[u] = "join"
  BY <1>1, <1>2, <1>3, <1>4, <1>5 DEF TypeOK, Alone, Spared, Waits, server
<1>7. u \in Guests
  BY <1>1, <1>4 DEF Steady, Dutiful
<1>8. Dutiful(u)'
  BY <1>1, <1>2, <1>4, <1>6, <1>7 DEF Steady, Dutiful
<1>9. u \in Unruly \cap Guests => Hasty(u)'
  <2>1. u \in Unruly \cap Guests => Hasty(u)
    BY <1>1 DEF Steady
  <2>2. page[u] \in Menu
    BY <1>4 DEF Menu
  <2>3. u \in Unruly \cap Guests =>
          role[u] # "member" /\ NoAnswer(stream[u]) /\ OneAnswer(stream[u])
    BY <1>2, <2>1, <2>2, BegunHasty
  <2> QED
    BY <1>2, <1>4, <1>6, <2>1, <2>3 DEF Hasty
<1>10. u \in Patient => Place(u)'
  <2> SUFFICES ASSUME u \in Patient PROVE Looking(u)'
    BY <1>2, <1>4 DEF Place
  <2>1. Away(u)
    <3>1. Place(u) /\ page[u] \notin {"room", "lost"}
      BY <1>1, <1>4 DEF Steady
    <3>2. ~Departing(u)
      <4>1. <<Message("left")>> # <<>> /\ <<Closed, Closed>> # <<>>
        OBVIOUS
      <4>2. listening[u] => stream[u] = <<>>
        BY <1>2
      <4> QED
        BY <1>2, <4>1, <4>2 DEF Departing
    <3> QED
      BY <1>2, <3>1, <3>2
       DEF Place, Away, Looking, Arriving, Creating, Created, Opening, Seated, Over,
           Evicted, InRoomPage
  <2> QED
    BY <1>2, <1>4, <1>6, <1>7, <2>1 DEF Away, Looking, Outside
<1>11. Reserved(u)
  BY <1>2 DEF Reserved
<1> QED
  BY <1>2, <1>6, <1>8, <1>9, <1>10, <1>11, AloneStep DEF Steady, Patient

LEMMA HandleJoinRoomSound ==
  ASSUME RoomFeedInv, NEW u \in User, HandleJoinRoom(u)
  PROVE  RoomFeedInv'
<1>1. TypeOK /\ Steady(u)
  BY DEF RoomFeedInv
<1>2. PICK m \in Messages : /\ m = Message(IF Listed(target[u]) THEN "joined" ELSE "refused")
                            /\ m.kind = IF Listed(target[u]) THEN "joined" ELSE "refused"
  BY MessagesTyped DEF Kinds
<1>3. /\ pc[u] = "join"
      /\ pc' = [pc EXCEPT ![u] = IF Listed(target[u]) THEN "enter" ELSE "idle"]
      /\ SendTo({u}, m)
      /\ UNCHANGED <<rooms, currRoom, target, known, page, ui, role, listening, shown, view>>
  BY <1>2 DEF HandleJoinRoom, Goto, server, client
<1>4. /\ stream' \in [User -> Seq(Messages)]
      /\ stream'[u] = IF page[u] # "lost" THEN Append(stream[u], m) ELSE stream[u]
      /\ \A v \in User \ {u} : stream'[v] = stream[v]
  BY <1>1, <1>3, Sent
<1>5. TypeOK' /\ Alone(u) /\ pc'[u] = IF Listed(target[u]) THEN "enter" ELSE "idle"
  BY <1>1, <1>3, <1>4 DEF TypeOK, Alone, Spared, Steps, server
<1>6. Dutiful(u)'
  BY <1>1, <1>3, <1>5 DEF Steady, Dutiful, Listed
<1>7. u \in Unruly \cap Guests => Hasty(u)'
  <2> SUFFICES ASSUME u \in Unruly \cap Guests, page[u] # "lost" PROVE Hasty(u)'
    BY <1>3 DEF Hasty
  <2>1. Hasty(u) /\ ui[u] = "join" /\ NoAnswer(stream[u])
    BY <1>1, <1>3 DEF Steady, Hasty
  <2>2. stream[u] \in Seq(Messages) /\ stream'[u] = Append(stream[u], m)
    BY <1>1, <1>4 DEF TypeOK
  <2>3. /\ OneAnswer(stream'[u])
        /\ OldNews(stream[u]) => OldNews(stream'[u])
        /\ Listed(target[u]) => OldNews(stream'[u])
    BY <1>2, <2>1, <2>2, AnswersAppended
  <2> QED
    BY <1>3, <1>5, <2>1, <2>3 DEF Hasty
<1>8. u \in Patient => Place(u)'
  <2> SUFFICES ASSUME u \in Patient PROVE Place(u)'
    OBVIOUS
  <2>1. page[u] # "lost" /\ Looking(u) /\ ui[u] = "join" /\ stream[u] = <<>>
    BY <1>1, <1>3 DEF Steady, Place, Away, Looking, Arriving, Creating, Created, Opening,
                      Seated, Over, Evicted, Departing
  <2>2. stream'[u] = <<m>>
    BY <1>4, <2>1, ShortStreams
  <2>3. Looking(u)'
    BY <1>2, <1>3, <1>5, <2>1, <2>2 DEF Looking, Outside
  <2> QED
    BY <1>3, <2>1, <2>3 DEF Place
<1>9. GoesOn(u) /\ Reserved(u)
  BY <1>3, <1>5 DEF GoesOn, Quiet, Engaged, Reserved
<1> QED
  BY <1>5, <1>6, <1>7, <1>8, <1>9, AloneStep DEF Steady, Patient

LEMMA ReadJoinedSound ==
  ASSUME RoomFeedInv, NEW u \in User, ReadJoined(u)
  PROVE  RoomFeedInv'
<1>1. TypeOK /\ Steady(u) /\ InOpenRoom
  BY DEF RoomFeedInv, RoomsHold
<1>2. ui[u] = "join" /\ UNCHANGED <<rooms, currRoom, pc, target, known>>
  BY DEF ReadJoined, server, threads
<1>3. PICK k \in Received(u) :
        \/ /\ Head(stream[u]).kind \in Answers
           /\ Take(u, k)
           /\ ui' = [ui EXCEPT ![u] =
                       IF Head(stream[u]).kind = "joined" THEN "greeting" ELSE "free"]
           /\ UNCHANGED <<page, role, listening, shown, view>>
        \/ Head(stream[u]).kind \notin Answers /\ Lose(u)
  BY DEF ReadJoined, Await, Answers
<1>4. u \in Patient =>
        /\ page[u] # "lost" /\ Outside(u)
        /\ \/ /\ currRoom[u] = NoRoom
              /\ \/ pc[u] = "idle" /\ stream[u] = <<Message("refused")>>
                 \/ pc[u] = "enter" /\ stream[u] = <<Message("joined")>>
           \/ /\ currRoom[u] # NoRoom /\ currRoom[u] = target[u] /\ pc[u] = "idle"
              /\ stream[u] = <<Message("joined"), List(u)>>
  <2>1. stream[u] # <<>>
    BY <1>1, <1>3 DEF Received, TypeOK
  <2> QED
    BY <1>1, <1>2, <2>1
      DEF Steady, Place, Away, Looking, Arriving, Creating, Created, Opening, Seated, Over,
          Evicted, Departing, InRoomPage
<1>5. u \in Patient => Head(stream[u]).kind \in Answers
  <2>1. /\ Message("refused").kind = "refused" /\ Message("joined").kind = "joined"
        /\ Head(<<Message("refused")>>) = Message("refused")
        /\ Head(<<Message("joined")>>) = Message("joined")
        /\ Head(<<Message("joined"), List(u)>>) = Message("joined")
    BY DEF Message
  <2> QED
    BY <1>4, <2>1 DEF Answers
<1>6. CASE Head(stream[u]).kind \notin Answers /\ Lose(u)
  BY <1>2, <1>5, <1>6, Lost DEF server, threads
<1>7. CASE /\ Head(stream[u]).kind \in Answers
           /\ Take(u, k)
           /\ ui' = [ui EXCEPT ![u] =
                       IF Head(stream[u]).kind = "joined" THEN "greeting" ELSE "free"]
           /\ UNCHANGED <<page, role, listening, shown, view>>
  <2>1. /\ stream' \in [User -> Seq(Messages)]
        /\ \A v \in User \ {u} : stream'[v] = stream[v]
        /\ OneAnswer(stream[u]) => NoAnswer(stream'[u]) /\ OneAnswer(stream'[u])
        /\ OldNews(stream[u]) => OldNews(stream'[u])
        /\ \A m, p \in Messages : u \in Patient =>
             /\ stream[u] = <<m>> => Head(stream[u]) = m /\ stream'[u] = <<>>
             /\ stream[u] = <<m, p>> => Head(stream[u]) = m /\ stream'[u] = <<p>>
    BY <1>1, <1>7, ReceivedOne
  <2>2. ui'[u] = IF Head(stream[u]).kind = "joined" THEN "greeting" ELSE "free"
    BY <1>1, <1>7 DEF TypeOK
  <2>3. TypeOK' /\ Alone(u)
    BY <1>1, <1>2, <1>7, <2>1 DEF TypeOK, Alone, Spared, Waits, server
  <2>4. Dutiful(u)'
    BY <1>1, <1>2, <1>7, <2>2 DEF Steady, Dutiful, Listed
  <2>5. u \in Unruly \cap Guests => Hasty(u)'
    <3>1. stream[u] # <<>> /\ stream[u] \in Seq(Messages) /\ Head(stream[u]) = stream[u][1]
      BY <1>1, <1>7, ReceivedOne DEF TypeOK
    <3>2. 1 \in 1 .. Len(stream[u])
      BY <3>1
    <3>3. ~NoAnswer(stream[u])
      BY <1>7, <3>1, <3>2 DEF NoAnswer
    <3> QED
      BY <1>1, <1>2, <1>7, <2>1, <2>2, <3>3 DEF Steady, Hasty
  <2>6. u \in Patient => Place(u)'
    <3> SUFFICES ASSUME u \in Patient PROVE Place(u)'
      OBVIOUS
    <3>1. /\ Message("refused") \in Messages /\ Message("refused").kind = "refused"
          /\ Message("joined") \in Messages /\ Message("joined").kind = "joined"
      BY MessagesTyped DEF Kinds
    <3>2. page'[u] # "lost" /\ Outside(u)'
      BY <1>4, <1>7 DEF Outside
    <3>3. CASE currRoom[u] = NoRoom /\ pc[u] = "idle" /\ stream[u] = <<Message("refused")>>
      <4>1. stream'[u] = <<>> /\ ui'[u] = "free"
        BY <2>1, <2>2, <3>1, <3>3
      <4> QED
        BY <1>2, <3>2, <3>3, <4>1 DEF Place, Away
    <3>4. CASE currRoom[u] = NoRoom /\ pc[u] = "enter" /\ stream[u] = <<Message("joined")>>
      <4>1. stream'[u] = <<>> /\ ui'[u] = "greeting"
        BY <2>1, <2>2, <3>1, <3>4
      <4> QED
        BY <1>2, <3>2, <3>4, <4>1 DEF Place, Looking
    <3>5. CASE /\ currRoom[u] # NoRoom /\ currRoom[u] = target[u] /\ pc[u] = "idle"
               /\ stream[u] = <<Message("joined"), List(u)>>
      <4>1. List(u) \in Messages /\ List(u)' = List(u)
        BY <1>1, <1>2, <3>5, RoomMessages DEF List, Players
      <4>2. stream'[u] = <<List(u)>> /\ ui'[u] = "greeting"
        BY <2>1, <2>2, <3>1, <3>5, <4>1
      <4> QED
        BY <1>2, <3>2, <3>5, <4>1, <4>2 DEF Place, Arriving
    <3> QED
      BY <1>4, <3>3, <3>4, <3>5
  <2>7. GoesOn(u) /\ Reserved(u)
    BY <1>2, <2>2 DEF GoesOn, Quiet, Engaged, Reserved
  <2> QED
    BY <2>3, <2>4, <2>5, <2>6, <2>7, AloneStep DEF Steady, Patient
<1> QED
  BY <1>3, <1>6, <1>7

LEMMA ReadGreetingSound ==
  ASSUME RoomFeedInv, NEW u \in User, ReadGreeting(u)
  PROVE  RoomFeedInv'
<1>1. TypeOK /\ Steady(u) /\ InOpenRoom
  BY DEF RoomFeedInv, RoomsHold
<1>2. ui[u] = "greeting" /\ UNCHANGED <<rooms, currRoom, pc, target, known>>
  BY DEF ReadGreeting, server, threads
<1>3. PICK k \in Received(u) :
        \/ /\ Head(stream[u]).kind = "users"
           /\ Take(u, k)
           /\ role' = [role EXCEPT ![u] = "member"]
           /\ shown' = [shown EXCEPT ![u] = {}]
           /\ ui' = [ui EXCEPT ![u] = "ask"]
           /\ UNCHANGED <<page, listening, view>>
        \/ Head(stream[u]).kind # "users" /\ Lose(u)
  BY DEF ReadGreeting, Await
<1>4. u \in Patient =>
        /\ page[u] # "lost" /\ Outside(u)
        /\ currRoom[u] # NoRoom /\ currRoom[u] = target[u] /\ pc[u] = "idle"
        /\ stream[u] = <<List(u)>>
  <2>1. stream[u] # <<>>
    BY <1>1, <1>3 DEF Received, TypeOK
  <2> QED
    BY <1>1, <1>2, <2>1
      DEF Steady, Place, Away, Looking, Arriving, Creating, Created, Opening, Seated, Over,
          Evicted, Departing, InRoomPage
<1>5. u \in Patient => Head(stream[u]).kind = "users" /\ List(u) \in Messages
  <2>1. Head(<<List(u)>>) = List(u)
    OBVIOUS
  <2> QED
    BY <1>1, <1>4, <2>1, RoomMessages
<1>6. CASE Head(stream[u]).kind # "users" /\ Lose(u)
  BY <1>2, <1>5, <1>6, Lost DEF server, threads
<1>7. CASE /\ Head(stream[u]).kind = "users"
           /\ Take(u, k)
           /\ role' = [role EXCEPT ![u] = "member"]
           /\ shown' = [shown EXCEPT ![u] = {}]
           /\ ui' = [ui EXCEPT ![u] = "ask"]
           /\ UNCHANGED <<page, listening, view>>
  <2>1. /\ stream' \in [User -> Seq(Messages)]
        /\ \A v \in User \ {u} : stream'[v] = stream[v]
        /\ NoAnswer(stream[u]) => NoAnswer(stream'[u])
        /\ OneAnswer(stream[u]) => OneAnswer(stream'[u])
        /\ OldNews(stream[u]) => OldNews(stream'[u])
        /\ \A m \in Messages : u \in Patient /\ stream[u] = <<m>> => stream'[u] = <<>>
    BY <1>1, <1>7, ReceivedOne
  <2>2. ui'[u] = "ask" /\ role'[u] = "member"
    BY <1>1, <1>7 DEF TypeOK
  <2>3. TypeOK' /\ Alone(u)
    BY <1>1, <1>2, <1>7, <2>1 DEF TypeOK, Alone, Spared, Waits, server
  <2>4. Dutiful(u)'
    BY <1>1, <1>2, <1>7, <2>2 DEF Steady, Dutiful, Listed
  <2>5. u \in Unruly \cap Guests => Hasty(u)'
    BY <1>1, <1>2, <1>7, <2>1, <2>2 DEF Steady, Hasty
  <2>6. u \in Patient => Place(u)'
    <3> SUFFICES ASSUME u \in Patient PROVE Opening(u)'
      BY <1>4, <1>7 DEF Place
    <3>1. stream'[u] = <<>>
      BY <1>4, <1>5, <2>1
    <3> QED
      BY <1>2, <1>4, <1>7, <2>2, <3>1 DEF Opening, Outside
  <2>7. GoesOn(u) /\ Reserved(u)
    BY <1>2, <2>2 DEF GoesOn, Quiet, Engaged, Reserved
  <2> QED
    BY <2>3, <2>4, <2>5, <2>6, <2>7, AloneStep DEF Steady, Patient
<1> QED
  BY <1>3, <1>6, <1>7

-----------------------------------------------------------------------------
(* Opening a room *)

LEMMA CreateRoomSound ==
  ASSUME Civil, RoomFeedInv, NEW u \in User, CreateRoom(u)
  PROVE  RoomFeedInv'
<1>1. TypeOK /\ Steady(u)
  BY DEF RoomFeedInv
<1>2. /\ pc[u] = "idle" /\ ui[u] = "free" /\ page[u] # "lost"
      /\ pc' \in [User -> Steps] /\ pc'[u] = "create"
      /\ \A v \in User \ {u} : pc'[v] = pc[v]
      /\ MayBegin(u)
  BY <1>1, Begun DEF CreateRoom, Steps
<1>3. /\ u \in Hosts \ Guests /\ page[u] \in Menu /\ Undistracted(u)
      /\ ui' = [ui EXCEPT ![u] = "create"]
      /\ UNCHANGED <<rooms, currRoom, target, known, stream, page, role, listening, shown,
                     view>>
  BY DEF CreateRoom, Await, server, Civil
<1>4. TypeOK' /\ Alone(u) /\ ui'[u] = "create"
  BY <1>1, <1>2, <1>3 DEF TypeOK, Alone, Spared, Waits, server
<1>5. Dutiful(u)'
  BY <1>1, <1>2, <1>3, <1>4 DEF Steady, Dutiful
<1>6. u \in Patient => Place(u)'
  <2> SUFFICES ASSUME u \in Patient PROVE Creating(u)'
    BY <1>2, <1>3 DEF Place
  <2>1. Away(u)
    BY <1>1, <1>2, <1>3, BegunAway DEF Steady
  <2> QED
    BY <1>2, <1>3, <1>4, <2>1 DEF Away, Creating, Outside, Closed
<1>7. Reserved(u)
  BY DEF Reserved, CreateRoom
<1> QED
  BY <1>2, <1>3, <1>4, <1>5, <1>6, <1>7, AloneStep DEF Steady, Patient

LEMMA ReadCreatedSound ==
  ASSUME Civil, RoomFeedInv, NEW u \in User, ReadCreated(u)
  PROVE  RoomFeedInv'
<1>1. TypeOK /\ Steady(u) /\ InOpenRoom
  BY DEF RoomFeedInv, RoomsHold
<1>2. /\ ui[u] \in {"create", "stray"}
      /\ UNCHANGED <<rooms, currRoom, pc, known, listening, shown, view>>
  BY DEF ReadCreated, server
<1>3. PICK k \in Received(u) :
        /\ Take(u, k)
        /\ \/ /\ ui[u] = "create" /\ Head(stream[u]).kind = "closed" /\ k = 1
              /\ ui' = [ui EXCEPT ![u] = "stray"]
              /\ UNCHANGED <<target, page, role>>
           \/ /\ ~(ui[u] = "create" /\ Head(stream[u]).kind = "closed" /\ k = 1)
              /\ Head(stream[u]).kind = "created"
              /\ \E o \in Head(stream[u]).rooms : target' = [target EXCEPT ![u] = o]
              /\ role' = [role EXCEPT ![u] = "admin"]
              /\ ui' = [ui EXCEPT ![u] = "ask"]
              /\ UNCHANGED page
           \/ /\ ~(ui[u] = "create" /\ Head(stream[u]).kind = "closed" /\ k = 1)
              /\ Head(stream[u]).kind # "created"
              /\ page' = [page EXCEPT ![u] = "failed"]
              /\ ui' = [ui EXCEPT ![u] = "free"]
              /\ UNCHANGED <<target, role>>
  BY DEF ReadCreated, Await, Show
<1>4. /\ stream' \in [User -> Seq(Messages)] /\ stream[u] # <<>>
      /\ \A v \in User \ {u} : stream'[v] = stream[v]
      /\ Head(stream[u]) \in Messages
      /\ u \in Patient => k = 1
      /\ \A m, p \in Messages : u \in Patient =>
           /\ stream[u] = <<m>> => Head(stream[u]) = m /\ stream'[u] = <<>>
           /\ stream[u] = <<m, p>> => Head(stream[u]) = m /\ stream'[u] = <<p>>
  <2>1. Take(u, k)
    BY <1>3
  <2> QED
    BY <1>1, <2>1, ReceivedOne
<1>5. u \in Hosts \ Guests /\ pc[u] # "enter"
  BY <1>1, <1>2 DEF Civil, Steady, Dutiful
<1>6. u \in Patient =>
        /\ page[u] # "lost" /\ Outside(u)
        /\ \/ /\ currRoom[u] = NoRoom /\ pc[u] = "create"
              /\ ui[u] = "create" /\ stream[u] = <<Closed>>
           \/ /\ currRoom[u] # NoRoom /\ pc[u] = "idle"
              /\ \/ stream[u] = <<Made(u)>>
                 \/ ui[u] = "create" /\ stream[u] = <<Closed, Made(u)>>
  BY <1>1, <1>2, <1>4
    DEF Steady, Place, Away, Looking, Arriving, Creating, Created, Opening, Seated, Over,
        Evicted, Departing, InRoomPage
<1>7. Closed \in Messages /\ Closed.kind = "closed"
  BY MessagesTyped DEF Closed, Kinds
<1>8. currRoom[u] # NoRoom =>
        /\ Made(u) \in Messages /\ Made(u).kind = "created"
        /\ Made(u).rooms = {currRoom[u]} /\ Made(u)' = Made(u)
  BY <1>1, <1>2, RoomMessages DEF Made
<1>9. CASE /\ ui[u] = "create" /\ Head(stream[u]).kind = "closed" /\ k = 1
           /\ ui' = [ui EXCEPT ![u] = "stray"]
           /\ UNCHANGED <<target, page, role>>
  <2>1. TypeOK' /\ Alone(u) /\ ui'[u] = "stray"
    BY <1>1, <1>2, <1>4, <1>9 DEF TypeOK, Alone, Spared, Waits, server
  <2>2. Dutiful(u)'
    BY <1>1, <1>2, <1>5, <1>9, <2>1 DEF Steady, Dutiful
  <2>3. u \in Patient => Place(u)'
    <3> SUFFICES ASSUME u \in Patient PROVE Creating(u)' \/ Created(u)'
      BY <1>6, <1>9 DEF Place
    <3>1. Outside(u)'
      BY <1>2, <1>6, <1>9 DEF Outside
    <3>2. CASE currRoom[u] = NoRoom /\ pc[u] = "create" /\ stream[u] = <<Closed>>
      BY <1>2, <1>4, <1>7, <2>1, <3>1, <3>2 DEF Creating
    <3>3. CASE currRoom[u] # NoRoom /\ pc[u] = "idle" /\ stream[u] = <<Made(u)>>
      BY <1>4, <1>8, <1>9, <3>3
    <3>4. CASE currRoom[u] # NoRoom /\ pc[u] = "idle" /\ stream[u] = <<Closed, Made(u)>>
      BY <1>2, <1>4, <1>7, <1>8, <2>1, <3>1, <3>4 DEF Created
    <3> QED
      BY <1>6, <3>2, <3>3, <3>4
  <2>4. GoesOn(u) /\ Reserved(u)
    BY <1>2 DEF GoesOn, Quiet, Engaged, Reserved
  <2> QED
    BY <1>5, <2>1, <2>2, <2>3, <2>4, AloneStep DEF Steady, Patient
<1>10. CASE /\ Head(stream[u]).kind = "created"
            /\ \E o \in Head(stream[u]).rooms : target' = [target EXCEPT ![u] = o]
            /\ role' = [role EXCEPT ![u] = "admin"]
            /\ ui' = [ui EXCEPT ![u] = "ask"]
            /\ UNCHANGED page
  <2>1. PICK o \in Head(stream[u]).rooms : target' = [target EXCEPT ![u] = o]
    BY <1>10
  <2>2. o \in 0 .. MaxRooms
    BY <1>4, <2>1, RoomFeedAssumption DEF Messages, Objects
  <2>3. TypeOK' /\ Alone(u) /\ ui'[u] = "ask" /\ role'[u] = "admin" /\ target'[u] = o
    BY <1>1, <1>2, <1>4, <1>10, <2>1, <2>2 DEF TypeOK, Alone, Spared, Waits, server
  <2>4. Dutiful(u)'
    BY <1>1, <1>2, <1>5, <1>10, <2>3 DEF Steady, Dutiful
  <2>5. u \in Patient => Place(u)'
    <3> SUFFICES ASSUME u \in Patient PROVE Opening(u)'
      BY <1>6, <1>10 DEF Place
    <3>1. currRoom[u] # NoRoom /\ pc[u] = "idle" /\ stream[u] = <<Made(u)>>
      BY <1>4, <1>6, <1>7, <1>8, <1>10
    <3>2. stream'[u] = <<>> /\ o = currRoom[u]
      BY <1>4, <1>8, <2>1, <3>1
    <3> QED
      BY <1>2, <1>6, <1>10, <2>3, <3>1, <3>2 DEF Opening, Outside
  <2>6. GoesOn(u) /\ Reserved(u)
    BY <1>2 DEF GoesOn, Quiet, Engaged, Reserved
  <2> QED
    BY <1>5, <2>3, <2>4, <2>5, <2>6, AloneStep DEF Steady, Patient
<1>11. CASE /\ ~(ui[u] = "create" /\ Head(stream[u]).kind = "closed" /\ k = 1)
            /\ Head(stream[u]).kind # "created"
            /\ page' = [page EXCEPT ![u] = "failed"]
            /\ ui' = [ui EXCEPT ![u] = "free"]
            /\ UNCHANGED <<target, role>>
  <2>1. TypeOK' /\ Alone(u) /\ ui'[u] = "free" /\ page'[u] = "failed"
    BY <1>1, <1>2, <1>4, <1>11 DEF TypeOK, Alone, Spared, Waits, Pages, server
  <2>2. Dutiful(u)'
    BY <1>1, <1>2, <1>5, <1>11, <2>1 DEF Steady, Dutiful
  <2>3. u \notin Patient
    <3> SUFFICES ASSUME u \in Patient PROVE FALSE
      OBVIOUS
    <3>1. Head(stream[u]).kind = "created" \/ (ui[u] = "create" /\ Head(stream[u]).kind = "closed")
      BY <1>4, <1>6, <1>7, <1>8
    <3> QED
      BY <1>4, <1>11, <3>1
  <2>4. GoesOn(u) /\ Reserved(u)
    BY <1>2, <2>3 DEF GoesOn, Quiet, Reserved
  <2> QED
    BY <1>5, <2>1, <2>2, <2>3, <2>4, AloneStep DEF Steady, Patient
<1> QED
  BY <1>3, <1>9, <1>10, <1>11

-----------------------------------------------------------------------------
(* The room page *)

LEMMA AskUsersSound ==
  ASSUME RoomFeedInv, NEW u \in User, AskUsers(u)
  PROVE  RoomFeedInv'
<1>1. TypeOK /\ Steady(u)
  BY DEF RoomFeedInv
<1>2. /\ ui[u] = "ask" /\ pc[u] = "idle"
      /\ pc' = [pc EXCEPT ![u] = "users"] /\ ui' = [ui EXCEPT ![u] = "users"]
      /\ UNCHANGED <<rooms, currRoom, target, known, stream, page, role, listening, shown,
                     view>>
  BY DEF AskUsers, Goto, Await, server
<1>3. TypeOK' /\ Alone(u) /\ pc'[u] = "users" /\ ui'[u] = "users"
  BY <1>1, <1>2 DEF TypeOK, Alone, Spared, Steps, Waits, server
<1>4. Dutiful(u)'
  BY <1>1, <1>2, <1>3 DEF Steady, Dutiful
<1>5. u \in Unruly \cap Guests => Hasty(u)'
  BY <1>1, <1>2, <1>3 DEF Steady, Hasty
<1>6. u \in Patient => Place(u)'
  <2> SUFFICES ASSUME u \in Patient PROVE Place(u)'
    OBVIOUS
  <2>1. page[u] # "lost" /\ Opening(u) /\ stream[u] = <<>>
    BY <1>1, <1>2 DEF Steady, Place, Away, Looking, Arriving, Creating, Created, Opening,
                      Seated, Over, Evicted, Departing, InRoomPage
  <2>2. Opening(u)'
    BY <1>2, <1>3, <2>1 DEF Opening
  <2> QED
    BY <1>2, <2>1, <2>2 DEF Place
<1>7. GoesOn(u) /\ Reserved(u)
  BY <1>2, <1>3 DEF GoesOn, Quiet, Engaged, Reserved
<1> QED
  BY <1>3, <1>4, <1>5, <1>6, <1>7, AloneStep DEF Steady, Patient

LEMMA HandleGetUsersSound ==
  ASSUME RoomFeedInv, NEW u \in User, HandleGetUsers(u)
  PROVE  RoomFeedInv'
<1>1. TypeOK /\ Steady(u) /\ InOpenRoom
  BY DEF RoomFeedInv, RoomsHold
<1>2. /\ pc[u] = "users"
      /\ UNCHANGED <<rooms, currRoom, target, page, ui, role, listening, shown, view>>
  BY DEF HandleGetUsers, server, client
<1>3. Listed(target[u]) => rooms[target[u]].users \in SUBSET User
  <2>1. Listed(target[u]) => target[u] \in 1 .. Len(rooms)
    BY <1>1 DEF Listed, TypeOK
  <2>2. Listed(target[u]) => rooms[target[u]] \in Room
    BY <1>1, <2>1 DEF TypeOK
  <2> QED
    BY <2>2 DEF Room
<1>4. PICK m \in Messages :
        /\ m.kind \in {"users", "none"} /\ SendTo({u}, m)
        /\ \/ /\ Listed(target[u]) /\ m = UsersMessage(rooms[target[u]].users)
              /\ known' = [known EXCEPT ![u] = rooms[target[u]].users]
              /\ pc' = [pc EXCEPT ![u] = "again"]
           \/ /\ ~Listed(target[u]) /\ known' = known /\ pc' = [pc EXCEPT ![u] = "idle"]
  <2>1. CASE Listed(target[u])
    BY <1>3, <2>1, MessagesTyped DEF HandleGetUsers, Goto
  <2>2. CASE ~Listed(target[u])
    BY <2>2, MessagesTyped DEF HandleGetUsers, Goto, Kinds
  <2> QED
    BY <2>1, <2>2
<1>5. /\ stream' \in [User -> Seq(Messages)]
      /\ stream'[u] = IF page[u] # "lost" THEN Append(stream[u], m) ELSE stream[u]
      /\ \A v \in User \ {u} : stream'[v] = stream[v]
  BY <1>1, <1>4, Sent
<1>6. TypeOK' /\ Alone(u)
  BY <1>1, <1>2, <1>3, <1>4, <1>5 DEF TypeOK, Alone, Spared, Steps, server
<1>7. pc'[u] = IF Listed(target[u]) THEN "again" ELSE "idle"
  BY <1>1, <1>4 DEF TypeOK
<1>8. Dutiful(u)'
  BY <1>1, <1>2, <1>7 DEF Steady, Dutiful
<1>9. u \in Unruly \cap Guests => Hasty(u)'
  <2>1. stream[u] \in Seq(Messages) /\ m.kind \notin Answers /\ m.kind # "closed"
    BY <1>1, <1>4 DEF TypeOK, Answers
  <2>2. /\ NoAnswer(stream[u]) => NoAnswer(Append(stream[u], m))
        /\ OneAnswer(stream[u]) => OneAnswer(Append(stream[u], m))
        /\ OldNews(stream[u]) => OldNews(Append(stream[u], m))
    BY <2>1, AnswersAppended
  <2> QED
    BY <1>1, <1>2, <1>5, <1>7, <2>2 DEF Steady, Hasty
<1>10. u \in Patient => Place(u)'
  <2> SUFFICES ASSUME u \in Patient PROVE Place(u)'
    OBVIOUS
  <2>1. /\ page[u] # "lost" /\ Opening(u) /\ ui[u] = "users" /\ stream[u] = <<>>
    BY <1>1, <1>2 DEF Steady, Place, Away, Looking, Arriving, Creating, Created, Opening,
                      Seated, Over, Evicted, Departing, InRoomPage
  <2>2. /\ currRoom[u] # NoRoom /\ currRoom[u] = target[u] /\ Listed(target[u])
        /\ role[u] # "none" /\ ~listening[u] /\ page[u] # "room"
    BY <1>1, <2>1 DEF Opening, InOpenRoom
  <2>3. m = List(u) /\ List(u)' = List(u) /\ Players(u)' = Players(u)
    BY <1>2, <1>4, <2>2 DEF List, Players
  <2>4. known'[u] = Players(u) /\ pc'[u] = "again"
    BY <1>1, <1>4, <1>7, <2>2 DEF TypeOK, Players
  <2>5. stream'[u] = <<List(u)>>
    BY <1>5, <2>1, <2>3, ShortStreams
  <2>6. Opening(u)'
    BY <1>2, <2>1, <2>2, <2>3, <2>4, <2>5 DEF Opening
  <2> QED
    BY <1>2, <2>1, <2>6 DEF Place
<1>11. GoesOn(u) /\ Reserved(u)
  BY <1>2, <1>7 DEF GoesOn, Quiet, Engaged, Reserved
<1> QED
  BY <1>6, <1>8, <1>9, <1>10, <1>11, AloneStep DEF Steady, Patient

LEMMA SendUsersAgainSound ==
  ASSUME RoomFeedInv, NEW u \in User, SendUsersAgain(u)
  PROVE  RoomFeedInv'
<1>1. TypeOK /\ Steady(u) /\ InOpenRoom
  BY DEF RoomFeedInv, RoomsHold
<1>2. /\ pc[u] = "again" /\ SendTo({u}, UsersMessage(known[u]))
      /\ known' = [known EXCEPT ![u] = {}] /\ pc' = [pc EXCEPT ![u] = "idle"]
      /\ UNCHANGED <<rooms, currRoom, target, page, ui, role, listening, shown, view>>
  BY DEF SendUsersAgain, Goto, server, client
<1>3. PICK m \in Messages : m = UsersMessage(known[u]) /\ m.kind = "users"
  BY <1>1, MessagesTyped DEF TypeOK
<1>4. /\ stream' \in [User -> Seq(Messages)]
      /\ stream'[u] = IF page[u] # "lost" THEN Append(stream[u], m) ELSE stream[u]
      /\ \A v \in User \ {u} : stream'[v] = stream[v]
  BY <1>1, <1>2, <1>3, Sent
<1>5. TypeOK' /\ Alone(u) /\ pc'[u] = "idle"
  BY <1>1, <1>2, <1>4 DEF TypeOK, Alone, Spared, Steps, server
<1>6. Dutiful(u)'
  BY <1>1, <1>2, <1>5 DEF Steady, Dutiful
<1>7. u \in Unruly \cap Guests => Hasty(u)'
  <2>1. stream[u] \in Seq(Messages) /\ m.kind \notin Answers /\ m.kind # "closed"
    BY <1>1, <1>3 DEF TypeOK, Answers
  <2>2. /\ NoAnswer(stream[u]) => NoAnswer(Append(stream[u], m))
        /\ OneAnswer(stream[u]) => OneAnswer(Append(stream[u], m))
        /\ OldNews(stream[u]) => OldNews(Append(stream[u], m))
    BY <2>1, AnswersAppended
  <2> QED
    BY <1>1, <1>2, <1>4, <1>5, <2>2 DEF Steady, Hasty
<1>8. u \in Patient => Place(u)'
  <2> SUFFICES ASSUME u \in Patient PROVE Place(u)'
    OBVIOUS
  <2>1. /\ page[u] # "lost" /\ Opening(u) /\ currRoom[u] # NoRoom
        /\ known[u] = Players(u)
        /\ \/ ui[u] = "users" /\ stream[u] = <<List(u)>>
           \/ ui[u] = "flush" /\ stream[u] = <<>> /\ view[u] = Players(u)
    BY <1>1, <1>2 DEF Steady, Place, Away, Looking, Arriving, Creating, Created, Opening,
                      Seated, Over, Evicted, Departing, InRoomPage
  <2>2. m = List(u) /\ List(u)' = List(u) /\ Players(u)' = Players(u)
    BY <1>2, <1>3, <2>1 DEF List, Players
  <2>3. /\ stream[u] = <<List(u)>> => stream'[u] = <<List(u), List(u)>>
        /\ stream[u] = <<>> => stream'[u] = <<List(u)>>
    <3>1. Append(<<m>>, m) = <<m, m>> /\ Append(<<>>, m) = <<m>>
      BY ShortStreams
    <3> QED
      BY <1>4, <2>1, <2>2, <3>1
  <2>4. Opening(u)'
    BY <1>2, <1>5, <2>1, <2>2, <2>3 DEF Opening
  <2> QED
    BY <1>2, <2>1, <2>4 DEF Place
<1>9. GoesOn(u) /\ Reserved(u)
  BY <1>2, <1>5 DEF GoesOn, Quiet, Engaged, Reserved
<1> QED
  BY <1>5, <1>6, <1>7, <1>8, <1>9, AloneStep DEF Steady, Patient

LEMMA ReadUsersSound ==
  ASSUME RoomFeedInv, NEW u \in User, ReadUsers(u)
  PROVE  RoomFeedInv'
<1>1. TypeOK /\ Steady(u) /\ InOpenRoom
  BY DEF RoomFeedInv, RoomsHold
<1>2. ui[u] = "users" /\ UNCHANGED <<rooms, currRoom, pc, target, known>>
  BY DEF ReadUsers, server, threads
<1>3. PICK k \in Received(u) :
        \/ /\ Head(stream[u]).kind = "users"
           /\ Take(u, k)
           /\ view' = [view EXCEPT ![u] = Head(stream[u]).users]
           /\ ui' = [ui EXCEPT ![u] = "flush"]
           /\ UNCHANGED <<page, role, listening, shown>>
        \/ Head(stream[u]).kind # "users" /\ Lose(u)
  BY DEF ReadUsers, Await
<1>4. u \in Patient =>
        /\ page[u] # "lost" /\ Opening(u) /\ currRoom[u] # NoRoom
        /\ \/ pc[u] = "again" /\ known[u] = Players(u) /\ stream[u] = <<List(u)>>
           \/ pc[u] = "idle" /\ stream[u] = <<List(u), List(u)>>
  <2>1. stream[u] # <<>>
    BY <1>1, <1>3 DEF Received, TypeOK
  <2> QED
    BY <1>1, <1>2, <2>1
      DEF Steady, Place, Away, Looking, Arriving, Creating, Created, Opening, Seated, Over,
          Evicted, Departing, InRoomPage
<1>5. u \in Patient =>
        /\ List(u) \in Messages /\ List(u).kind = "users" /\ List(u).users = Players(u)
        /\ List(u)' = List(u) /\ Players(u)' = Players(u)
  BY <1>1, <1>2, <1>4, RoomMessages DEF List, Players
<1>6. CASE Head(stream[u]).kind # "users" /\ Lose(u)
  <2>1. Head(<<List(u)>>) = List(u) /\ Head(<<List(u), List(u)>>) = List(u)
    OBVIOUS
  <2>2. u \notin Patient
    BY <1>4, <1>5, <1>6, <2>1
  <2> QED
    BY <1>2, <1>6, <2>2, Lost DEF server, threads
<1>7. CASE /\ Head(stream[u]).kind = "users"
           /\ Take(u, k)
           /\ view' = [view EXCEPT ![u] = Head(stream[u]).users]
           /\ ui' = [ui EXCEPT ![u] = "flush"]
           /\ UNCHANGED <<page, role, listening, shown>>
  <2>1. /\ stream' \in [User -> Seq(Messages)]
        /\ \A v \in User \ {u} : stream'[v] = stream[v]
        /\ Head(stream[u]) \in Messages
        /\ NoAnswer(stream[u]) => NoAnswer(stream'[u])
        /\ OneAnswer(stream[u]) => OneAnswer(stream'[u])
        /\ OldNews(stream[u]) => OldNews(stream'[u])
        /\ \A m, p \in Messages : u \in Patient =>
             /\ stream[u] = <<m>> => Head(stream[u]) = m /\ stream'[u] = <<>>
             /\ stream[u] = <<m, p>> => Head(stream[u]) = m /\ stream'[u] = <<p>>
    BY <1>1, <1>7, ReceivedOne
  <2>2. Head(stream[u]).users \in SUBSET User
    BY <2>1 DEF Messages
  <2>3. ui'[u] = "flush" /\ view'[u] = Head(stream[u]).users
    BY <1>1, <1>7 DEF TypeOK
  <2>4. TypeOK' /\ Alone(u)
    BY <1>1, <1>2, <1>7, <2>1, <2>2 DEF TypeOK, Alone, Spared, Waits, server
  <2>5. Dutiful(u)'
    BY <1>1, <1>2, <1>7, <2>3 DEF Steady, Dutiful, Listed
  <2>6. u \in Unruly \cap Guests => Hasty(u)'
    BY <1>1, <1>2, <1>7, <2>1, <2>3 DEF Steady, Hasty
  <2>7. u \in Patient => Place(u)'
    <3> SUFFICES ASSUME u \in Patient PROVE Opening(u)'
      BY <1>4, <1>7 DEF Place
    <3>1. view'[u] = Players(u)
      BY <1>4, <1>5, <2>1, <2>3
    <3>2. /\ stream[u] = <<List(u)>> => stream'[u] = <<>>
          /\ stream[u] = <<List(u), List(u)>> => stream'[u] = <<List(u)>>
      BY <1>5, <2>1
    <3> QED
      BY <1>2, <1>4, <1>5, <1>7, <2>3, <3>1, <3>2 DEF Opening
  <2>8. GoesOn(u) /\ Reserved(u)
    BY <1>2, <2>3 DEF GoesOn, Quiet, Engaged, Reserved
  <2> QED
    BY <2>4, <2>5, <2>6, <2>7, <2>8, AloneStep DEF Steady, Patient
<1> QED
  BY <1>3, <1>6, <1>7

LEMMA FlushSound ==
  ASSUME RoomFeedInv, NEW u \in User, Flush(u)
  PROVE  RoomFeedInv'
<1>1. TypeOK /\ Steady(u) /\ InOpenRoom
  BY DEF RoomFeedInv, RoomsHold
<1>2. PICK k \in Received(u) : Take(u, k)
  BY DEF Flush
<1>3. /\ ui[u] = "flush" /\ listening' = [listening EXCEPT ![u] = TRUE]
      /\ ui' = [ui EXCEPT ![u] = "free"] /\ page' = [page EXCEPT ![u] = "room"]
      /\ UNCHANGED <<rooms, currRoom, pc, target, known, role, shown, view>>
  BY DEF Flush, Await, Show, server, threads
<1>4. /\ stream' \in [User -> Seq(Messages)] /\ stream[u] # <<>>
      /\ \A v \in User \ {u} : stream'[v] = stream[v]
      /\ NoAnswer(stream[u]) => NoAnswer(stream'[u])
      /\ OneAnswer(stream[u]) => OneAnswer(stream'[u])
      /\ OldNews(stream[u]) => OldNews(stream'[u])
      /\ \A m \in Messages : u \in Patient /\ stream[u] = <<m>> => stream'[u] = <<>>
  BY <1>1, <1>2, ReceivedOne
<1>5. TypeOK' /\ Alone(u) /\ ui'[u] = "free" /\ page'[u] = "room" /\ listening'[u]
  BY <1>1, <1>3, <1>4 DEF TypeOK, Alone, Spared, Waits, Pages, server
<1>6. Dutiful(u)'
  BY <1>1, <1>3, <1>5 DEF Steady, Dutiful, Listed
<1>7. u \in Unruly \cap Guests => Hasty(u)'
  <2>1. u \in Unruly \cap Guests /\ page[u] # "lost" => Hasty(u)'
    BY <1>1, <1>3, <1>4, <1>5 DEF Steady, Hasty
  <2>2. page[u] # "lost"
    BY <1>1, <1>3 DEF Steady, Dutiful
  <2> QED
    BY <2>1, <2>2
<1>8. u \in Patient => Place(u)'
  <2> SUFFICES ASSUME u \in Patient PROVE Seated(u)'
    BY <1>5 DEF Place
  <2>1. /\ role[u] # "none" /\ currRoom[u] # NoRoom /\ pc[u] = "idle"
        /\ stream[u] = <<List(u)>> /\ view[u] = Players(u)
    BY <1>1, <1>3, <1>4 DEF Steady, Place, Away, Looking, Arriving, Creating, Created,
                            Opening, Seated, Over, Evicted, Departing, InRoomPage
  <2>2. stream'[u] = <<>>
    BY <1>1, <1>4, <2>1, RoomMessages
  <2>3. Lists(<<>>)
    BY DEF Lists
  <2> QED
    BY <1>3, <1>5, <2>1, <2>2, <2>3 DEF Seated, InRoomPage, Players
<1>9. GoesOn(u) /\ Reserved(u)
  BY <1>3, <1>5 DEF GoesOn, Quiet, Engaged, Reserved
<1> QED
  BY <1>5, <1>6, <1>7, <1>8, <1>9, AloneStep DEF Steady, Patient

\* What a patient client with a thread for its room has been sent
LEMMA Listening ==
  ASSUME NEW u \in User, u \in Patient, Place(u), listening[u], stream[u] # <<>>
  PROVE  /\ page[u] # "lost" /\ ui[u] = "free" /\ pc[u] = "idle"
         /\ Seated(u) \/ Over(u) \/ /\ Departing(u) /\ role[u] = "none" /\ page[u] # "room"
                                    /\ currRoom[u] = NoRoom
                                    /\ \/ stream[u] = <<Message("left")>>
                                       \/ u \notin Guests /\ stream[u] = <<Closed, Closed>>
BY DEF Place, Away, Looking, Arriving, Creating, Created, Opening, Seated, Over, Evicted,
       Departing, InRoomPage, Outside

\* The first message of a room that is over, if no list, is the last.
LEMMA OverEnds ==
  ASSUME TypeOK, NEW u \in User, Over(u), stream[u][1].kind # "users"
  PROVE  Len(stream[u]) = 1 /\ stream[u][1].kind \in {"closed", "question"}
<1>1. stream[u] \in Seq(Messages) /\ stream[u] # <<>>
  BY DEF TypeOK, Over
<1>2. 1 \in 1 .. Len(stream[u])
  BY <1>1
<1> QED
  BY <1>2 DEF Over

LEMMA ListenSound ==
  ASSUME RoomFeedInv, NEW u \in User, Listen(u)
  PROVE  RoomFeedInv'
<1>1. TypeOK /\ Steady(u) /\ InOpenRoom
  BY DEF RoomFeedInv, RoomsHold
<1>2. listening[u] /\ UNCHANGED <<rooms, currRoom, pc, target, known>>
  BY DEF Listen, server, threads
<1>3. PICK k \in Received(u) :
       \/ /\ Head(stream[u]).kind = "users" /\ role[u] # "none"
          /\ Take(u, k)
          /\ view' = [view EXCEPT ![u] = Head(stream[u]).users]
          /\ UNCHANGED <<page, ui, role, listening, shown>>
       \/ /\ Head(stream[u]).kind \in {"closed", "left"}
          /\ Take(u, k)
          /\ listening' = [listening EXCEPT ![u] = FALSE]
          /\ ui' = [ui EXCEPT ![u] = IF Head(stream[u]).kind = "closed" /\ role[u] = "member"
                                       THEN "evicted" ELSE ui[u]]
          /\ UNCHANGED <<page, role, shown, view>>
       \/ /\ Head(stream[u]).kind = "question"
          /\ Take(u, k)
          /\ listening' = [listening EXCEPT ![u] = FALSE]
          /\ role' = [role EXCEPT ![u] = "none"] /\ view' = [view EXCEPT ![u] = {}]
          /\ page' = [page EXCEPT ![u] = "game"]
          /\ UNCHANGED <<ui, shown>>
       \/ /\ \/ Head(stream[u]).kind \notin {"users", "closed", "left", "question"}
             \/ Head(stream[u]).kind = "users" /\ role[u] = "none"
          /\ Lose(u)
  BY DEF Listen, Forget, Show
<1>4. stream[u] # <<>> /\ stream[u] \in Seq(Messages) /\ Head(stream[u]) = stream[u][1]
      /\ 1 \in 1 .. Len(stream[u]) /\ page[u] # "lost"
  <2>1. stream[u] # <<>> /\ stream[u] \in Seq(Messages)
    BY <1>1, <1>3 DEF Received, TypeOK
  <2>2. page[u] # "lost"
    BY <1>1, <1>2 DEF Steady, Dutiful
  <2> QED
    BY <2>1, <2>2
<1>5. u \in Patient =>
        /\ ui[u] = "free" /\ pc[u] = "idle"
        /\ Seated(u) \/ Over(u) \/ /\ Departing(u) /\ role[u] = "none" /\ page[u] # "room"
                                   /\ currRoom[u] = NoRoom
                                   /\ \/ stream[u] = <<Message("left")>>
                                      \/ u \notin Guests /\ stream[u] = <<Closed, Closed>>
  BY <1>1, <1>2, <1>4, Listening DEF Steady
<1>6. /\ Message("left") \in Messages /\ Message("left").kind = "left"
      /\ Closed \in Messages /\ Closed.kind = "closed"
      /\ Head(<<Message("left")>>) = Message("left") /\ Head(<<Closed, Closed>>) = Closed
  BY MessagesTyped DEF Kinds, Closed
<1>7. Seated(u) => Head(stream[u]).kind = "users" /\ role[u] # "none"
  BY <1>4 DEF Seated, Lists, InRoomPage
<1>8. Over(u) /\ Head(stream[u]).kind # "users" =>
        Len(stream[u]) = 1 /\ Head(stream[u]).kind \in {"closed", "question"}
  BY <1>1, <1>4, OverEnds
<1>9. CASE /\ Head(stream[u]).kind = "users" /\ role[u] # "none"
           /\ Take(u, k)
           /\ view' = [view EXCEPT ![u] = Head(stream[u]).users]
           /\ UNCHANGED <<page, ui, role, listening, shown>>
  <2>1. /\ stream' \in [User -> Seq(Messages)]
        /\ \A v \in User \ {u} : stream'[v] = stream[v]
        /\ Head(stream[u]) \in Messages
        /\ k \in 1 .. Len(stream[u]) /\ (u \in Patient => k = 1)
        /\ Len(stream'[u]) = Len(stream[u]) - k
        /\ \A i \in 1 .. Len(stream[u]) - k : stream'[u][i] = stream[u][i + k]
        /\ NoAnswer(stream[u]) => NoAnswer(stream'[u])
        /\ OneAnswer(stream[u]) => OneAnswer(stream'[u])
        /\ OldNews(stream[u]) => OldNews(stream'[u])
    BY <1>1, <1>9, ReceivedOne
  <2>2. Head(stream[u]).users \in SUBSET User
    BY <2>1 DEF Messages
  <2>3. TypeOK' /\ Alone(u) /\ view'[u] = Head(stream[u]).users
    BY <1>1, <1>2, <1>9, <2>1, <2>2 DEF TypeOK, Alone, Spared, server
  <2>4. Dutiful(u)'
    BY <1>1, <1>2, <1>9 DEF Steady, Dutiful, Listed
  <2>5. u \in Unruly \cap Guests => Hasty(u)'
    BY <1>1, <1>2, <1>9, <2>1 DEF Steady, Hasty
  <2>6. u \in Patient => Place(u)'
    <3> SUFFICES ASSUME u \in Patient PROVE Seated(u)' \/ Over(u)'
      BY <1>4, <1>9 DEF Place
    <3>1. PICK n \in Nat : n = Len(stream[u])
      BY <1>4
    <3>2. PICK r \in Seq(Messages) : r = stream'[u]
      BY <2>1
    <3>3. /\ n >= 1 /\ n - 1 \in Nat /\ Len(r) = n - 1
          /\ \A i \in 1 .. n - 1 : r[i] = stream[u][i + 1]
      <4>1. k = 1
        BY <2>1
      <4>2. n >= 1 /\ n - 1 \in Nat
        <5>1. 1 \in 1 .. n
          BY <1>4, <3>1
        <5> QED
          BY <3>1, <5>1
      <4> QED
        BY <2>1, <3>1, <3>2, <4>1, <4>2
    <3>4. /\ r = <<>> <=> n = 1
          /\ n # 1 => n - 1 \in 1 .. n - 1 /\ r[n - 1] = stream[u][n]
      <4>1. r = <<>> <=> Len(r) = 0
        BY <3>2
      <4>2. n # 1 => n - 1 \in 1 .. n - 1 /\ n - 1 + 1 = n
        <5>1. n \in Nat /\ n >= 1
          BY <3>1, <3>3
        <5> QED
          BY <5>1
      <4> QED
        BY <3>3, <4>1, <4>2
    <3>5. \A i \in 1 .. n - 1 : i + 1 \in 1 .. n /\ (i # n - 1 => i + 1 # n)
      BY <3>1, <3>3
    <3>6. CASE Seated(u)
      <4>1. InRoomPage(u)' /\ currRoom'[u] # NoRoom /\ pc'[u] = "idle"
        BY <1>2, <1>5, <1>9, <3>6 DEF Seated, InRoomPage
      <4>2. Lists(r)
        BY <3>1, <3>3, <3>5, <3>6 DEF Seated, Lists
      <4>3. Players(u)' = Players(u) /\ stream[u][n].users = Players(u)
        BY <1>2, <1>4, <3>1, <3>6 DEF Seated, Players
      <4>4. r = <<>> => view'[u] = Players(u)
        BY <1>4, <2>3, <3>4, <4>3
      <4>5. r # <<>> => r[Len(r)].users = Players(u)
        BY <3>3, <3>4, <4>3
      <4> QED
        BY <3>2, <4>1, <4>2, <4>3, <4>4, <4>5 DEF Seated
    <3>7. CASE Over(u)
      <4>1. InRoomPage(u)' /\ currRoom'[u] = NoRoom /\ pc'[u] = "idle"
        BY <1>2, <1>5, <1>9, <3>7 DEF Over, InRoomPage
      <4>2. stream[u][n].kind \in {"closed", "question"}
        BY <3>1, <3>7 DEF Over
      <4>3. n # 1
        BY <1>4, <1>9, <4>2
      <4>4. r # <<>> /\ r[Len(r)].kind \in {"closed", "question"}
        BY <3>3, <3>4, <4>2, <4>3
      <4>5. \A i \in 1 .. Len(r) : i # Len(r) => r[i].kind = "users"
        BY <3>1, <3>3, <3>5, <3>7 DEF Over
      <4> QED
        BY <3>2, <4>1, <4>4, <4>5 DEF Over
    <3> QED
      BY <1>5, <1>9, <3>6, <3>7
  <2>7. GoesOn(u) /\ Reserved(u)
    BY <1>2, <1>9 DEF GoesOn, Quiet, Engaged, Reserved
  <2> QED
    BY <2>3, <2>4, <2>5, <2>6, <2>7, AloneStep DEF Steady, Patient
<1>10. CASE /\ Head(stream[u]).kind \in {"closed", "left"}
            /\ Take(u, k)
            /\ listening' = [listening EXCEPT ![u] = FALSE]
            /\ ui' = [ui EXCEPT ![u] = IF Head(stream[u]).kind = "closed" /\ role[u] = "member"
                                         THEN "evicted" ELSE ui[u]]
            /\ UNCHANGED <<page, role, shown, view>>
  <2>1. /\ stream' \in [User -> Seq(Messages)]
        /\ \A v \in User \ {u} : stream'[v] = stream[v]
        /\ k \in 1 .. Len(stream[u]) /\ (u \in Patient => k = 1)
        /\ Len(stream'[u]) = Len(stream[u]) - k
        /\ NoAnswer(stream[u]) => NoAnswer(stream'[u])
        /\ OneAnswer(stream[u]) => OneAnswer(stream'[u])
        /\ OldNews(stream[u]) => OldNews(stream'[u])
        /\ \A m, p \in Messages : u \in Patient =>
             /\ stream[u] = <<m>> => Head(stream[u]) = m /\ stream'[u] = <<>>
             /\ stream[u] = <<m, p>> => Head(stream[u]) = m /\ stream'[u] = <<p>>
    BY <1>1, <1>10, ReceivedOne
  <2>2. TypeOK' /\ Alone(u) /\ ~listening'[u]
    BY <1>1, <1>2, <1>10, <2>1 DEF TypeOK, Alone, Spared, Waits, server
  <2>3. ui'[u] = IF Head(stream[u]).kind = "closed" /\ role[u] = "member"
                   THEN "evicted" ELSE ui[u]
    BY <1>1, <1>10 DEF TypeOK
  <2>4. Dutiful(u)'
    BY <1>1, <1>2, <1>4, <1>10, <2>3 DEF Steady, Dutiful, Listed
  <2>5. u \in Unruly \cap Guests => Hasty(u)'
    <3> SUFFICES ASSUME u \in Unruly \cap Guests PROVE Hasty(u)'
      OBVIOUS
    <3>1. Hasty(u)
      BY <1>1 DEF Steady
    <3>2. ASSUME Head(stream[u]).kind = "closed", role[u] = "member"
          PROVE  currRoom[u] = NoRoom /\ pc[u] \notin {"join", "enter"}
      <4>1. ui[u] # "join" /\ NoAnswer(stream[u]) /\ pc[u] # "join"
        BY <1>4, <3>1, <3>2 DEF Hasty
      <4>2. ~OldNews(stream[u])
        BY <1>4, <3>2, <4>1 DEF OldNews, NoAnswer, Answers
      <4> QED
        BY <1>4, <3>1, <4>1, <4>2 DEF Hasty
    <3> QED
      BY <1>2, <1>10, <2>1, <2>3, <3>1, <3>2 DEF Hasty
  <2>6. u \in Patient => Place(u)'
    <3> SUFFICES ASSUME u \in Patient PROVE Evicted(u)' \/ Away(u)'
      BY <1>4, <1>10 DEF Place
    <3>1. ~Seated(u)
      BY <1>7, <1>10
    <3>2. CASE Over(u)
      <4>1. Len(stream'[u]) = 0 /\ stream'[u] \in Seq(Messages)
        BY <1>8, <1>10, <2>1, <3>2
      <4>2. stream'[u] = <<>>
        BY <4>1
      <4>3. Head(stream[u]).kind = "closed"
        BY <1>8, <1>10, <3>2
      <4> QED
        BY <1>2, <1>10, <2>2, <2>3, <3>2, <4>2, <4>3 DEF Over, InRoomPage, Evicted
    <3>3. CASE /\ Departing(u) /\ role[u] = "none" /\ page[u] # "room"
               /\ currRoom[u] = NoRoom
               /\ \/ stream[u] = <<Message("left")>>
                  \/ u \notin Guests /\ stream[u] = <<Closed, Closed>>
      <4>1. stream'[u] = <<>> \/ (u \notin Guests /\ stream'[u] = <<Closed>>)
        BY <1>6, <2>1, <3>3
      <4> QED
        BY <1>2, <1>5, <1>10, <2>2, <2>3, <3>3, <4>1 DEF Away, Outside
    <3> QED
      BY <1>5, <3>1, <3>2, <3>3
  <2>7. GoesOn(u) /\ Reserved(u)
    BY <1>2, <1>5, <2>3 DEF GoesOn, Quiet, Engaged, Reserved
  <2> QED
    BY <2>2, <2>4, <2>5, <2>6, <2>7, AloneStep DEF Steady, Patient
<1>11. CASE /\ Head(stream[u]).kind = "question"
            /\ Take(u, k)
            /\ listening' = [listening EXCEPT ![u] = FALSE]
            /\ role' = [role EXCEPT ![u] = "none"] /\ view' = [view EXCEPT ![u] = {}]
            /\ page' = [page EXCEPT ![u] = "game"]
            /\ UNCHANGED <<ui, shown>>
  <2>1. /\ stream' \in [User -> Seq(Messages)]
        /\ \A v \in User \ {u} : stream'[v] = stream[v]
        /\ k \in 1 .. Len(stream[u]) /\ (u \in Patient => k = 1)
        /\ Len(stream'[u]) = Len(stream[u]) - k
        /\ NoAnswer(stream[u]) => NoAnswer(stream'[u])
        /\ OneAnswer(stream[u]) => OneAnswer(stream'[u])
        /\ OldNews(stream[u]) => OldNews(stream'[u])
    BY <1>1, <1>11, ReceivedOne
  <2>2. /\ TypeOK' /\ Alone(u) /\ ~listening'[u] /\ role'[u] = "none" /\ page'[u] = "game"
    BY <1>1, <1>2, <1>11, <2>1 DEF TypeOK, Alone, Spared, Pages, server
  <2>3. Dutiful(u)'
    BY <1>1, <1>2, <1>11, <2>2 DEF Steady, Dutiful, Listed
  <2>4. u \in Unruly \cap Guests => Hasty(u)'
    BY <1>1, <1>2, <1>4, <1>11, <2>1, <2>2 DEF Steady, Hasty
  <2>5. u \in Patient => Place(u)'
    <3> SUFFICES ASSUME u \in Patient PROVE Away(u)'
      BY <2>2 DEF Place
    <3>1. Over(u)
      BY <1>5, <1>6, <1>7, <1>11
    <3>2. Len(stream'[u]) = 0 /\ stream'[u] \in Seq(Messages)
      BY <1>8, <1>11, <2>1, <3>1
    <3>3. stream'[u] = <<>>
      BY <3>2
    <3> QED
      BY <1>2, <1>11, <2>2, <3>1, <3>3 DEF Over, InRoomPage, Away, Outside
  <2>6. GoesOn(u) /\ Reserved(u)
    BY <1>2, <1>11 DEF GoesOn, Quiet, Engaged, Reserved
  <2> QED
    BY <2>2, <2>3, <2>4, <2>5, <2>6, AloneStep DEF Steady, Patient
<1>12. CASE /\ \/ Head(stream[u]).kind \notin {"users", "closed", "left", "question"}
               \/ Head(stream[u]).kind = "users" /\ role[u] = "none"
            /\ Lose(u)
  <2>1. u \notin Patient
    <3> SUFFICES ASSUME u \in Patient PROVE FALSE
      OBVIOUS
    <3>1. Over(u) => role[u] # "none"
      BY DEF Over, InRoomPage
    <3> QED
      BY <1>5, <1>6, <1>7, <1>8, <1>12, <3>1
  <2> QED
    BY <1>2, <1>12, <2>1, Lost DEF server, threads
<1> QED
  BY <1>3, <1>9, <1>10, <1>11, <1>12

-----------------------------------------------------------------------------
(* Leaving, closing and starting *)

LEMMA LeaveRoomSound ==
  ASSUME RoomFeedInv, NEW u \in User, LeaveRoom(u)
  PROVE  RoomFeedInv'
<1>1. TypeOK /\ Steady(u)
  BY DEF RoomFeedInv
<1>2. /\ page[u] = "room" /\ role[u] = "member"
      /\ role' = [role EXCEPT ![u] = "none"] /\ view' = [view EXCEPT ![u] = {}]
      /\ page' = [page EXCEPT ![u] = "home"] /\ ui' = [ui EXCEPT ![u] = "free"]
      /\ UNCHANGED <<rooms, currRoom, target, known, stream, listening, shown>>
  BY DEF LeaveRoom, Forget, Show, Await, server
<1>3. /\ pc[u] = "idle" /\ pc' \in [User -> Steps] /\ pc'[u] = "leave"
      /\ \A v \in User \ {u} : pc'[v] = pc[v]
      /\ \/ /\ ui[u] = "free" /\ MayBegin(u)
            /\ u \in Patient /\ listening[u] => stream[u] = <<>>
         \/ ui[u] = "evicted"
  <2>1. CASE Begin(u, "leave")
    <3>1. "leave" \in Steps
      BY DEF Steps
    <3> QED
      BY <1>1, <2>1, <3>1, Begun
  <2>2. CASE ui[u] = "evicted" /\ pc[u] = "idle" /\ Goto(u, "leave")
    BY <1>1, <2>2 DEF Goto, TypeOK, Steps
  <2> QED
    BY <2>1, <2>2 DEF LeaveRoom
<1>4. ui'[u] = "free" /\ page'[u] = "home" /\ role'[u] = "none"
  BY <1>1, <1>2 DEF TypeOK
<1>5. TypeOK' /\ Alone(u)
  BY <1>1, <1>2, <1>3 DEF TypeOK, Alone, Spared, Pages, Waits, server
<1>6. Dutiful(u)'
  BY <1>1, <1>2, <1>3, <1>4 DEF Steady, Dutiful
<1>7. u \in Unruly \cap Guests => Hasty(u)'
  BY <1>1, <1>2, <1>3, <1>4 DEF Steady, Hasty
<1>8. ui[u] = "evicted" => currRoom[u] = NoRoom
  <2>1. ui[u] = "evicted" => u \in Guests
    BY <1>1 DEF Steady, Dutiful
  <2>2. CASE u \in Unruly
    BY <1>1, <1>2, <2>1, <2>2 DEF Steady, Hasty
  <2>3. CASE u \in Patient
    BY <1>1, <1>2, <2>3
      DEF Steady, Place, Away, Looking, Arriving, Creating, Created, Opening, Seated, Over,
          Evicted, Departing, InRoomPage, Outside
  <2> QED
    BY <2>2, <2>3 DEF Patient
<1>9. u \in Patient => Place(u)'
  <2> SUFFICES ASSUME u \in Patient PROVE Departing(u)'
    BY <1>4 DEF Place
  <2>1. Seated(u) \/ Over(u) \/ Evicted(u)
    BY <1>1, <1>2 DEF Steady, Place, Away, Looking, Arriving, Creating, Created, Opening,
                      Departing, Outside
  <2>2. CASE Seated(u)
    BY <1>2, <1>3, <1>4, <2>2 DEF Seated, InRoomPage, Departing
  <2>3. CASE Over(u)
    BY <1>3, <2>3 DEF Over, InRoomPage
  <2>4. CASE Evicted(u)
    BY <1>2, <1>3, <1>4, <2>4 DEF Evicted, Departing
  <2> QED
    BY <2>1, <2>2, <2>3, <2>4
<1>10. Reserved(u) /\ (MayBegin(u) \/ GoesOn(u))
  <2>1. ui[u] = "evicted" => GoesOn(u)
    BY <1>2, <1>3, <1>4, <1>8 DEF GoesOn, Engaged
  <2> QED
    BY <1>3, <2>1 DEF Reserved
<1> QED
  BY <1>5, <1>6, <1>7, <1>9, <1>10, AloneStep DEF Steady, Patient

\* A host that turns to something on the page of its room
LEMMA BegunSeated ==
  ASSUME NEW u \in User, u \in Patient, Place(u), page[u] = "room", role[u] = "admin",
         currRoom[u] # NoRoom, listening[u] => stream[u] = <<>>
  PROVE  Seated(u) /\ stream[u] = <<>>
BY DEF Place, Away, Looking, Arriving, Creating, Created, Opening, Seated, Over, Evicted,
       Departing, InRoomPage, Outside

LEMMA CloseRoomSound ==
  ASSUME Civil, RoomFeedInv, NEW u \in User, CloseRoom(u)
  PROVE  RoomFeedInv'
<1>1. TypeOK /\ Steady(u)
  BY DEF RoomFeedInv
<1>2. /\ page[u] = "room" /\ role[u] = "admin" /\ currRoom[u] # NoRoom
      /\ role' = [role EXCEPT ![u] = "none"] /\ view' = [view EXCEPT ![u] = {}]
      /\ page' = [page EXCEPT ![u] = "home"]
      /\ UNCHANGED <<rooms, currRoom, target, known, stream, ui, listening, shown>>
  BY DEF CloseRoom, Forget, Show, server
<1>3. /\ pc[u] = "idle" /\ ui[u] = "free" /\ pc' \in [User -> Steps] /\ pc'[u] = "close"
      /\ \A v \in User \ {u} : pc'[v] = pc[v]
      /\ u \in Patient /\ listening[u] => stream[u] = <<>>
      /\ MayBegin(u)
  BY <1>1, Begun DEF CloseRoom, Steps
<1>4. page'[u] = "home" /\ role'[u] = "none"
  BY <1>1, <1>2 DEF TypeOK
<1>5. TypeOK' /\ Alone(u)
  BY <1>1, <1>2, <1>3 DEF TypeOK, Alone, Spared, Pages, server
<1>6. u \in Hosts \ Guests
  BY <1>1, <1>2 DEF Steady, Dutiful, Civil
<1>7. Dutiful(u)'
  BY <1>1, <1>2, <1>3, <1>4, <1>6 DEF Steady, Dutiful
<1>8. u \in Patient => Place(u)'
  <2> SUFFICES ASSUME u \in Patient PROVE Departing(u)'
    BY <1>4 DEF Place
  <2>1. Seated(u) /\ stream[u] = <<>>
    BY <1>1, <1>2, <1>3, BegunSeated DEF Steady
  <2> QED
    BY <1>2, <1>3, <1>4, <2>1 DEF Seated, InRoomPage, Departing
<1>9. Reserved(u)
  BY <1>3 DEF Reserved
<1> QED
  BY <1>3, <1>5, <1>6, <1>7, <1>8, <1>9, AloneStep DEF Steady, Patient

LEMMA StartGameSound ==
  ASSUME Civil, RoomFeedInv, NEW u \in User, StartGame(u)
  PROVE  RoomFeedInv'
<1>1. TypeOK /\ Steady(u)
  BY DEF RoomFeedInv
<1>2. /\ page[u] = "room" /\ role[u] = "admin" /\ currRoom[u] # NoRoom
      /\ UNCHANGED <<rooms, currRoom, target, known, stream, page, ui, role, listening,
                     shown, view>>
  BY DEF StartGame, server, client
<1>3. /\ pc[u] = "idle" /\ ui[u] = "free" /\ pc' \in [User -> Steps] /\ pc'[u] = "start"
      /\ \A v \in User \ {u} : pc'[v] = pc[v]
      /\ u \in Patient /\ listening[u] => stream[u] = <<>>
      /\ MayBegin(u)
  BY <1>1, Begun DEF StartGame, Steps
<1>4. TypeOK' /\ Alone(u)
  BY <1>1, <1>2, <1>3 DEF TypeOK, Alone, Spared, server
<1>5. u \in Hosts \ Guests
  BY <1>1, <1>2 DEF Steady, Dutiful, Civil
<1>6. Dutiful(u)'
  BY <1>1, <1>2, <1>3, <1>5 DEF Steady, Dutiful
<1>7. u \in Patient => Place(u)'
  <2> SUFFICES ASSUME u \in Patient PROVE Seated(u)'
    BY <1>2 DEF Place
  <2>1. Seated(u) /\ stream[u] = <<>>
    BY <1>1, <1>2, <1>3, BegunSeated DEF Steady
  <2> QED
    BY <1>2, <1>3, <2>1 DEF Seated, InRoomPage, Players
<1>8. Reserved(u)
  BY <1>3 DEF Reserved
<1> QED
  BY <1>3, <1>4, <1>5, <1>6, <1>7, <1>8, AloneStep DEF Steady, Patient

LEMMA FinishGameSound ==
  ASSUME RoomFeedInv, NEW u \in User, FinishGame(u)
  PROVE  RoomFeedInv'
<1>1. TypeOK /\ Steady(u)
  BY DEF RoomFeedInv
<1>2. /\ page[u] = "game" /\ ui[u] = "free" /\ page' = [page EXCEPT ![u] = "home"]
      /\ UNCHANGED <<rooms, currRoom, pc, target, known, stream, ui, role, listening, shown,
                     view>>
  BY DEF FinishGame, Show, server, threads
<1>3. TypeOK' /\ Alone(u) /\ page'[u] = "home"
  BY <1>1, <1>2 DEF TypeOK, Alone, Spared, Pages, server
<1>4. Dutiful(u)'
  BY <1>1, <1>2, <1>3 DEF Steady, Dutiful, Listed
<1>5. u \in Unruly \cap Guests => Hasty(u)'
  BY <1>1, <1>2, <1>3 DEF Steady, Hasty
<1>6. u \in Patient => Place(u)'
  <2> SUFFICES ASSUME u \in Patient PROVE Away(u)' \/ Departing(u)'
    BY <1>3 DEF Place
  <2>1. Away(u) \/ Departing(u)
    BY <1>1, <1>2 DEF Steady, Place, Away, Looking, Arriving, Creating, Created, Opening,
                      Seated, Over, Evicted, InRoomPage
  <2> QED
    BY <1>2, <1>3, <2>1 DEF Away, Departing, Outside
<1>7. GoesOn(u) /\ Reserved(u)
  BY <1>2 DEF GoesOn, Quiet, Engaged, Reserved
<1> QED
  BY <1>3, <1>4, <1>5, <1>6, <1>7, AloneStep DEF Steady, Patient

-----------------------------------------------------------------------------
(* What the others are told *)

\* Nothing of v changes but its stream and, perhaps, that it has no room.
Reached(v) ==
  /\ pc'[v] = pc[v] /\ target'[v] = target[v] /\ known'[v] = known[v]
  /\ page'[v] = page[v] /\ ui'[v] = ui[v]
  /\ role'[v] = role[v] /\ listening'[v] = listening[v] /\ view'[v] = view[v]
  /\ currRoom'[v] \in {currRoom[v], NoRoom}

\* While the thread of u has something to tell, the patient others are at rest:
\* those in a room are on its page.
LEMMA OthersRest ==
  ASSUME RoomFeedInv, NEW u \in User, ~Quiet(u), NEW v \in Patient, v # u
  PROVE  /\ ~Engaged(v) /\ Place(v)
         /\ currRoom[v] # NoRoom => Seated(v) /\ pc[v] = "idle"
<1>1. ~Engaged(v) /\ Place(v)
  BY DEF RoomFeedInv, Undisturbed, Steady, Patient
<1>2. currRoom[v] # NoRoom => Seated(v) /\ pc[v] = "idle"
  BY <1>1 DEF Engaged, Place, Away, Looking, Arriving, Creating, Created, Opening, Seated,
              Over, Evicted, Departing, InRoomPage
<1> QED
  BY <1>1, <1>2

LEMMA UndisturbedAfter ==
  ASSUME RoomFeedInv, NEW u \in User, ~Quiet(u), pc'[u] = "idle",
         \A v \in User \ {u} : Reached(v)
  PROVE  Undisturbed'
<1>1. /\ \A v \in Patient : v # u => ~Engaged(v)
      /\ u \in Patient => \A v \in User \ {u} : Quiet(v)
  <2>1. Engaged(u)
    BY DEF Quiet, Engaged
  <2> QED
    BY <2>1 DEF RoomFeedInv, Undisturbed, Patient
<1>2. \A v \in User \ {u} : (Engaged(v)' => Engaged(v)) /\ (Quiet(v) => Quiet(v)')
  BY DEF Reached, Engaged, Quiet
<1>3. Quiet(u)'
  BY DEF Quiet
<1> QED
  BY <1>1, <1>2, <1>3 DEF Undisturbed, Patient

LEMMA SeatedTold ==
  ASSUME TypeOK, NEW v \in User, Seated(v), pc[v] = "idle", Reached(v),
         currRoom'[v] = currRoom[v],
         NEW us \in SUBSET User, Players(v)' = us,
         stream'[v] = Append(stream[v], UsersMessage(us))
  PROVE  Place(v)'
<1>1. PICK m \in Messages : m = UsersMessage(us) /\ m.kind = "users" /\ m.users = us
  BY MessagesTyped
<1>2. PICK s \in Seq(Messages) : s = stream[v]
  BY DEF TypeOK
<1>3. PICK t \in Seq(Messages) : t = Append(s, m)
  BY AppendProperties
<1>4. PICK n \in Nat : n = Len(s)
  BY <1>2
<1>5. /\ t # <<>> /\ Len(t) = n + 1 /\ t[n + 1] = m
      /\ \A i \in 1 .. n : t[i] = s[i]
  BY <1>2, <1>3, <1>4, AppendProperties
<1>6. Lists(t)
  <2>1. \A i \in 1 .. n + 1 : i \in 1 .. n \/ i = n + 1
    BY <1>4
  <2> QED
    BY <1>1, <1>2, <1>4, <1>5, <2>1 DEF Seated, Lists
<1>7. t[Len(t)].users = Players(v)'
  BY <1>1, <1>5
<1>8. stream'[v] = t
  BY <1>1, <1>2, <1>3
<1>9. Seated(v)'
  BY <1>5, <1>6, <1>7, <1>8 DEF Seated, InRoomPage, Reached
<1> QED
  BY <1>9 DEF Place, Seated, InRoomPage

LEMMA SeatedEnded ==
  ASSUME TypeOK, NEW v \in User, Seated(v), pc'[v] = "idle",
         UNCHANGED <<role[v], listening[v], page[v], ui[v]>>, currRoom'[v] = NoRoom,
         NEW m \in Messages, m.kind \in {"closed", "question"},
         stream'[v] = Append(stream[v], m)
  PROVE  Place(v)'
<1>1. PICK s \in Seq(Messages) : s = stream[v]
  BY DEF TypeOK
<1>2. PICK t \in Seq(Messages) : t = Append(s, m)
  BY AppendProperties
<1>3. PICK n \in Nat : n = Len(s)
  BY <1>1
<1>4. /\ t # <<>> /\ Len(t) = n + 1 /\ t[n + 1] = m
      /\ \A i \in 1 .. n : t[i] = s[i]
  BY <1>1, <1>2, <1>3, AppendProperties
<1>5. \A i \in 1 .. n + 1 : i # n + 1 => t[i].kind = "users"
  <2>1. \A i \in 1 .. n + 1 : i \in 1 .. n \/ i = n + 1
    BY <1>3
  <2> QED
    BY <1>1, <1>3, <1>4, <2>1 DEF Seated, Lists
<1>6. stream'[v] = t /\ t[Len(t)].kind \in {"closed", "question"}
  BY <1>1, <1>2, <1>4
<1>7. Over(v)'
  BY <1>4, <1>5, <1>6 DEF Seated, Over, InRoomPage
<1> QED
  BY <1>7 DEF Place, Over, InRoomPage

\* An unruly guest may be told anything of its rooms.
LEMMA HastyTold ==
  ASSUME TypeOK, NEW v \in User, Hasty(v), Reached(v),
         NEW m \in Messages, m.kind \notin Answers,
         m.kind = "closed" => currRoom'[v] = NoRoom /\ pc[v] # "enter",
         stream'[v] = Append(stream[v], m)
  PROVE  Hasty(v)'
<1>1. stream[v] \in Seq(Messages)
  BY DEF TypeOK
<1>2. /\ NoAnswer(stream[v]) => NoAnswer(stream'[v])
      /\ OneAnswer(stream[v]) => OneAnswer(stream'[v])
      /\ OldNews(stream[v]) /\ m.kind # "closed" => OldNews(stream'[v])
  BY <1>1, AnswersAppended
<1> QED
  BY <1>2 DEF Hasty, Reached

LEMMA HastySame ==
  ASSUME NEW v \in User, Hasty(v), Reached(v), stream'[v] = stream[v]
  PROVE  Hasty(v)'
BY DEF Hasty, Reached

\* The players of room o, except perhaps u, are told that us is who they are.
LEMMA RoomTold ==
  ASSUME RoomFeedInv, NEW u \in User, ~Quiet(u), NEW o \in 1 .. Len(rooms), rooms[o].open,
         NEW us \in SUBSET User, \A v \in User \ {u} : v \in us <=> v \in rooms[o].users,
         rooms' = [rooms EXCEPT ![o].users = us],
         \A v \in User \ {u} :
           /\ Reached(v) /\ currRoom'[v] = currRoom[v]
           /\ stream'[v] = IF v \in us /\ page[v] # "lost"
                             THEN Append(stream[v], UsersMessage(us)) ELSE stream[v]
  PROVE  /\ rooms' \in Seq(Room) /\ Len(rooms') = Len(rooms)
         /\ \A p \in 1 .. Len(rooms) :
              /\ rooms'[p].open = rooms[p].open /\ rooms'[p].admin = rooms[p].admin
              /\ rooms'[p].users = IF p = o THEN us ELSE rooms[p].users
         /\ \A v \in User \ {u} : Steady(v)'
<1>1. TypeOK /\ InOpenRoom /\ InOneRoom /\ \A v \in User : Steady(v)
  BY DEF RoomFeedInv, RoomsHold
<1>2. /\ rooms' \in Seq(Room) /\ Len(rooms') = Len(rooms)
      /\ \A p \in 1 .. Len(rooms) :
           /\ rooms'[p].open = rooms[p].open /\ rooms'[p].admin = rooms[p].admin
           /\ rooms'[p].users = IF p = o THEN us ELSE rooms[p].users
  <2>1. rooms \in Seq(Room) /\ \A p \in 1 .. Len(rooms) : rooms[p] \in Room
    BY <1>1 DEF TypeOK
  <2>2. /\ Len(rooms') = Len(rooms)
        /\ rooms'[o] = [rooms[o] EXCEPT !.users = us]
        /\ \A p \in 1 .. Len(rooms) : p # o => rooms'[p] = rooms[p]
    BY <2>1
  <2>3. /\ rooms'[o].open = rooms[o].open /\ rooms'[o].admin = rooms[o].admin
        /\ rooms'[o].users = us /\ rooms'[o] \in Room
    <3>1. PICK r \in Room : r = rooms[o]
      BY <2>1
    <3>2. PICK q : q = [r EXCEPT !.users = us]
      OBVIOUS
    <3>3. q.open = r.open /\ q.admin = r.admin /\ q.users = us /\ q \in Room
      BY <3>2 DEF Room
    <3> QED
      BY <2>2, <3>1, <3>2, <3>3
  <2>4. rooms' \in Seq(Room)
    BY <2>1, <2>3
  <2> QED
    BY <2>2, <2>3, <2>4
<1>3. \A v \in User : Listed(target[v]) => /\ target[v] \in DOMAIN rooms'
                                           /\ rooms'[target[v]].open
  BY <1>1, <1>2 DEF Listed, TypeOK
<1>4. ASSUME NEW v \in User \ {u}
      PROVE  Steady(v)'
  <2>1. Steady(v) /\ Reached(v) /\ currRoom'[v] = currRoom[v]
    BY <1>1
  <2>2. CASE ~(v \in us /\ page[v] # "lost") /\ (v \in us => v \notin Patient)
    <3>1. stream'[v] = stream[v]
      BY <2>2
    <3>2. currRoom[v] # NoRoom /\ v \in Patient =>
            rooms'[currRoom[v]].users = rooms[currRoom[v]].users
      <4>1. currRoom[v] # NoRoom =>
              currRoom[v] \in 1 .. Len(rooms) /\ v \in rooms[currRoom[v]].users
        BY <1>1 DEF InOpenRoom, Listed, TypeOK
      <4> QED
        BY <1>2, <2>2, <4>1
    <3>3. Dutiful(v)'
      BY <1>3, <2>1 DEF Steady, Dutiful, Listed, Reached
    <3>4. v \in Unruly \cap Guests => Hasty(v)'
      BY <2>1, <3>1, HastySame DEF Steady
    <3>5. ASSUME v \in Patient PROVE Steady(v)'
      <4>1. /\ Spared(v)
            /\ pc[v] = "enter" /\ Listed(target[v]) => Listed(target[v])'
            /\ currRoom[v] # NoRoom => rooms'[currRoom[v]].users = rooms[currRoom[v]].users
        BY <1>3, <2>1, <3>1, <3>2, <3>5 DEF Spared, Reached, Listed
      <4> QED
        BY <2>1, <4>1, SparedSteady
    <3> QED
      BY <3>3, <3>4, <3>5 DEF Steady, Patient
  <2>3. CASE v \in us /\ page[v] # "lost"
    <3>1. PICK m \in Messages : m = UsersMessage(us) /\ m.kind = "users"
      BY MessagesTyped
    <3>2. stream'[v] = Append(stream[v], m)
      BY <2>3, <3>1
    <3>3. Dutiful(v)'
      BY <1>3, <2>1 DEF Steady, Dutiful, Listed, Reached
    <3>4. ASSUME v \in Unruly \cap Guests PROVE Hasty(v)'
      <4>1. Hasty(v) /\ m.kind \notin Answers /\ m.kind # "closed"
        BY <2>1, <3>1, <3>4 DEF Steady, Answers
      <4> QED
        BY <1>1, <2>1, <3>2, <4>1, HastyTold
    <3>5. ASSUME v \in Patient PROVE Place(v)'
      <4>1. v \in rooms[o].users /\ currRoom[v] = o
        BY <1>1, <2>3, <3>5 DEF InOneRoom
      <4>2. o # NoRoom
        BY DEF NoRoom
      <4>3. Seated(v) /\ pc[v] = "idle"
        BY <3>5, <4>1, <4>2, OthersRest
      <4>4. Players(v)' = us
        BY <1>2, <2>1, <4>1 DEF Players
      <4> QED
        BY <1>1, <2>1, <2>3, <4>3, <4>4, SeatedTold
    <3> QED
      BY <3>3, <3>4, <3>5 DEF Steady, Patient
  <2>4. v \in Patient => page[v] # "lost"
    BY <2>1 DEF Steady, Place
  <2> QED
    BY <2>2, <2>3, <2>4
<1> QED
  BY <1>2, <1>4

\* No more rooms are to be made than were.
LEMMA FewerMakers ==
  ASSUME TypeOK, RoomForAll, Makers' \subseteq Makers, Len(rooms') = Len(rooms)
  PROVE  RoomForAll'
<1>1. PICK n \in Nat : n = Len(rooms)
  BY DEF TypeOK
<1>2. PICK m \in Nat : m = Cardinality(Makers)
  BY MakersFinite
<1>3. PICK l \in Nat : l = Cardinality(Makers') /\ l <= m
  BY <1>2, MakersFinite, FS_Subset, FS_CardinalityType
<1>4. n + m <= MaxRooms /\ MaxRooms \in Nat
  BY <1>1, <1>2, RoomFeedAssumption DEF RoomForAll
<1>5. n + l <= MaxRooms
  BY <1>3, <1>4
<1> QED
  BY <1>1, <1>3, <1>5 DEF RoomForAll

LEMMA EnterRoomSound ==
  ASSUME RoomFeedInv, NEW u \in User, EnterRoom(u)
  PROVE  RoomFeedInv'
<1>1. TypeOK /\ RoomsHold /\ \A v \in User : Steady(v)
  BY DEF RoomFeedInv
<1>2. PICK o : o = target[u]
  OBVIOUS
<1>3. pc[u] = "enter" /\ o \in 1 .. Len(rooms) /\ rooms[o].open /\ u \in Guests
  BY <1>1, <1>2 DEF EnterRoom, Steady, Dutiful, Listed, TypeOK
<1>4. PICK us \in SUBSET User : us = rooms[o].users \cup {u}
  <2>1. rooms[o] \in Room
    BY <1>1, <1>3 DEF TypeOK
  <2> QED
    BY <2>1 DEF Room
<1>5. /\ rooms' = [rooms EXCEPT ![o].users = us]
      /\ currRoom' = [currRoom EXCEPT ![u] = o]
      /\ SendTo(us, UsersMessage(us))
      /\ pc' = [pc EXCEPT ![u] = "idle"]
      /\ UNCHANGED <<target, known, page, ui, role, listening, shown, view>>
  BY <1>2, <1>4 DEF EnterRoom, WithNewcomer, Goto, client
<1>6. PICK m \in Messages : m = UsersMessage(us) /\ m.kind = "users"
  BY MessagesTyped
<1>7. /\ stream' \in [User -> Seq(Messages)]
      /\ \A v \in User : stream'[v] = IF v \in us /\ page[v] # "lost"
                                        THEN Append(stream[v], m) ELSE stream[v]
  BY <1>1, <1>5, <1>6, Sent
<1>8. /\ currRoom' \in [User -> 0 .. MaxRooms] /\ pc' \in [User -> Steps]
      /\ pc'[u] = "idle" /\ currRoom'[u] = o /\ o # NoRoom
      /\ \A v \in User \ {u} : pc'[v] = pc[v] /\ currRoom'[v] = currRoom[v]
  <2>1. o \in 0 .. MaxRooms /\ o # NoRoom
    BY <1>1, <1>2, <1>3 DEF TypeOK, NoRoom
  <2> QED
    BY <1>1, <1>5, <2>1 DEF TypeOK, Steps
<1>9. /\ ~Quiet(u)
      /\ \A v \in User \ {u} : v \in us <=> v \in rooms[o].users
      /\ \A v \in User \ {u} :
           /\ Reached(v) /\ currRoom'[v] = currRoom[v]
           /\ stream'[v] = IF v \in us /\ page[v] # "lost"
                             THEN Append(stream[v], UsersMessage(us)) ELSE stream[v]
  BY <1>3, <1>4, <1>5, <1>6, <1>7, <1>8 DEF Quiet, Reached
<1>10. /\ rooms' \in Seq(Room) /\ Len(rooms') = Len(rooms)
       /\ \A p \in 1 .. Len(rooms) :
            /\ rooms'[p].open = rooms[p].open /\ rooms'[p].admin = rooms[p].admin
            /\ rooms'[p].users = IF p = o THEN us ELSE rooms[p].users
       /\ \A v \in User \ {u} : Steady(v)'
  BY <1>3, <1>5, <1>9, RoomTold
<1>11. TypeOK'
  BY <1>1, <1>5, <1>7, <1>8, <1>10 DEF TypeOK
<1>12. u \in Patient => /\ page[u] # "lost" /\ Looking(u) /\ currRoom[u] = NoRoom
  BY <1>1, <1>3 DEF Steady, Place, Away, Looking, Arriving, Creating, Created, Opening,
                    Seated, Over, Evicted, Departing
<1>13. RoomsHold'
  <2>1. InOpenRoom'
    <3>1. ASSUME NEW v \in User, currRoom'[v] # NoRoom
          PROVE  /\ currRoom'[v] \in 1 .. Len(rooms) /\ rooms[currRoom'[v]].open
                 /\ v \in rooms'[currRoom'[v]].users
      <4>1. CASE v = u
        BY <1>3, <1>4, <1>8, <1>10, <4>1
      <4>2. CASE v # u
        <5>1. /\ currRoom'[v] = currRoom[v] /\ currRoom[v] \in 1 .. Len(rooms)
              /\ rooms[currRoom[v]].open /\ v \in rooms[currRoom[v]].users
          BY <1>1, <1>8, <3>1, <4>2 DEF RoomsHold, InOpenRoom, Listed, TypeOK
        <5> QED
          BY <1>4, <1>10, <5>1
      <4> QED
        BY <4>1, <4>2
    <3>2. DOMAIN rooms' = 1 .. Len(rooms)
      BY <1>10
    <3> QED
      BY <1>10, <3>1, <3>2 DEF InOpenRoom, Listed
  <2>2. InOneRoom'
    <3> SUFFICES ASSUME NEW v \in Patient, NEW p \in 1 .. Len(rooms),
                        rooms[p].open, v \in rooms'[p].users
                 PROVE  currRoom'[v] = p
      BY <1>10 DEF InOneRoom, Patient
    <3>1. CASE v # u
      BY <1>1, <1>4, <1>8, <1>10, <3>1 DEF RoomsHold, InOneRoom, Patient
    <3>2. CASE v = u
      <4>1. p # o => v \in rooms[p].users
        BY <1>10
      <4>2. p # NoRoom
        BY DEF NoRoom
      <4> QED
        BY <1>1, <1>8, <1>12, <3>2, <4>1, <4>2 DEF RoomsHold, InOneRoom
    <3> QED
      BY <3>1, <3>2
  <2>3. HostsAtHome'
    BY <1>1, <1>3, <1>4, <1>10 DEF RoomsHold, HostsAtHome
  <2>4. RoomForAll'
    <3>1. Makers' \subseteq Makers
      BY <1>8 DEF Makers
    <3> QED
      BY <1>1, <1>10, <3>1, FewerMakers DEF RoomsHold
  <2> QED
    BY <2>1, <2>2, <2>3, <2>4 DEF RoomsHold
<1>14. Undisturbed'
  BY <1>8, <1>9, UndisturbedAfter
<1>15. Steady(u)'
  <2>1. Dutiful(u)'
    BY <1>1, <1>5, <1>8 DEF Steady, Dutiful
  <2>2. u \in Unruly \cap Guests => Hasty(u)'
    <3> SUFFICES ASSUME u \in Unruly \cap Guests, page[u] # "lost" PROVE Hasty(u)'
      BY <1>5 DEF Hasty
    <3>1. Hasty(u) /\ stream[u] \in Seq(Messages) /\ stream'[u] = Append(stream[u], m)
      BY <1>1, <1>4, <1>7 DEF Steady, TypeOK
    <3>2. m.kind \notin Answers /\ m.kind # "closed"
      BY <1>6 DEF Answers
    <3>3. /\ NoAnswer(stream[u]) => NoAnswer(stream'[u])
          /\ OneAnswer(stream[u]) => OneAnswer(stream'[u])
          /\ OldNews(stream[u]) => OldNews(stream'[u])
      BY <3>1, <3>2, AnswersAppended
    <3> QED
      BY <1>3, <1>5, <1>8, <3>1, <3>3 DEF Hasty
  <2>3. u \in Patient => Place(u)'
    <3> SUFFICES ASSUME u \in Patient PROVE Arriving(u)'
      BY <1>5, <1>12 DEF Place
    <3>1. /\ Outside(u)
          /\ \/ ui[u] = "join" /\ stream[u] = <<Message("joined")>>
             \/ ui[u] = "greeting" /\ stream[u] = <<>>
      BY <1>3, <1>12 DEF Looking
    <3>2. Outside(u)' /\ ui'[u] = ui[u] /\ target'[u] = o
      BY <1>2, <1>5, <3>1 DEF Outside
    <3>3. m = List(u)'
      BY <1>6, <1>8, <1>10, <1>3 DEF List, Players
    <3>4. stream'[u] = Append(stream[u], m)
      BY <1>4, <1>7, <1>12
    <3>5. Append(<<Message("joined")>>, m) = <<Message("joined"), m>> /\ Append(<<>>, m) = <<m>>
      <4>1. Message("joined") \in Messages
        BY MessagesTyped DEF Kinds
      <4> QED
        BY <4>1, ShortStreams
    <3> QED
      BY <1>8, <3>1, <3>2, <3>3, <3>4, <3>5 DEF Arriving
  <2> QED
    BY <2>1, <2>2, <2>3 DEF Steady, Patient
<1> QED
  BY <1>10, <1>11, <1>13, <1>14, <1>15 DEF RoomFeedInv

LEMMA HandleCreateRoomSound ==
  ASSUME Civil, RoomFeedInv, NEW u \in User, HandleCreateRoom(u)
  PROVE  RoomFeedInv'
<1>1. TypeOK /\ RoomsHold /\ \A v \in User : Steady(v)
  BY DEF RoomFeedInv
<1>2. /\ pc[u] = "create" /\ pc' = [pc EXCEPT ![u] = "idle"]
      /\ UNCHANGED <<target, known, page, ui, role, listening, shown, view>>
  BY DEF HandleCreateRoom, Goto, client
<1>3. u \in Hosts \ Guests /\ ~Quiet(u)
  BY <1>1, <1>2 DEF Civil, Steady, Dutiful, Quiet
<1>4. pc' \in [User -> Steps] /\ pc'[u] = "idle" /\ \A v \in User \ {u} : pc'[v] = pc[v]
  BY <1>1, <1>2 DEF TypeOK, Steps
<1>5. Dutiful(u)'
  BY <1>1, <1>2, <1>4 DEF Steady, Dutiful
<1>6. u \in Patient =>
        /\ page[u] # "lost" /\ currRoom[u] = NoRoom /\ Outside(u)
        /\ \/ ui[u] = "create" /\ (stream[u] = <<>> \/ stream[u] = <<Closed>>)
           \/ ui[u] = "stray" /\ stream[u] = <<>>
  BY <1>1, <1>2 DEF Steady, Place, Away, Looking, Arriving, Creating, Created, Opening,
                    Seated, Over, Evicted, Departing
<1>7. CASE /\ currRoom[u] # NoRoom
           /\ SendTo({u}, Message("refused"))
           /\ UNCHANGED <<rooms, currRoom>>
  <2>1. Message("refused") \in Messages
    BY MessagesTyped DEF Kinds
  <2>2. stream' \in [User -> Seq(Messages)] /\ \A v \in User \ {u} : stream'[v] = stream[v]
    BY <1>1, <1>7, <2>1, Sent
  <2>3. TypeOK' /\ Alone(u)
    BY <1>1, <1>2, <1>4, <1>7, <2>2 DEF TypeOK, Alone, Spared, server
  <2>4. Steady(u)'
    BY <1>3, <1>5, <1>6, <1>7 DEF Steady, Patient
  <2>5. GoesOn(u) /\ Reserved(u)
    BY <1>3, <1>4, <1>6, <1>7 DEF GoesOn, Reserved
  <2> QED
    BY <2>3, <2>4, <2>5, AloneStep
<1>8. CASE /\ currRoom[u] = NoRoom
           /\ rooms' = Append(rooms, [admin |-> u, users |-> {u}, open |-> TRUE])
           /\ currRoom' = [currRoom EXCEPT ![u] = Len(rooms')]
           /\ SendTo({u}, [Message("created") EXCEPT !.rooms = {NewId}])
  <2>1. PICK n \in Nat : n = Len(rooms)
    BY <1>1 DEF TypeOK
  <2>2. [admin |-> u, users |-> {u}, open |-> TRUE] \in Room
    BY DEF Room
  <2>3. /\ rooms' \in Seq(Room) /\ Len(rooms') = n + 1
        /\ rooms'[n + 1] = [admin |-> u, users |-> {u}, open |-> TRUE]
        /\ \A p \in 1 .. n : rooms'[p] = rooms[p]
    <3>1. rooms \in Seq(Room)
      BY <1>1 DEF TypeOK
    <3> QED
      BY <1>8, <2>1, <2>2, <3>1, AppendProperties
  <2>4. RoomForAll' /\ n + 1 <= MaxRooms
    <3>1. u \in Makers /\ Makers' \subseteq Makers \ {u}
      <4>1. \A v \in User \ {u} : currRoom'[v] = currRoom[v]
        BY <1>1, <1>8 DEF TypeOK
      <4> QED
        BY <1>2, <1>4, <1>8, <4>1 DEF Makers
    <3>2. PICK m \in Nat : m = Cardinality(Makers)
      BY MakersFinite
    <3>3. /\ IsFiniteSet(Makers \ {u}) /\ Cardinality(Makers \ {u}) \in Nat
          /\ Cardinality(Makers \ {u}) = m - 1
      BY <3>1, <3>2, MakersFinite, FS_RemoveElement, FS_CardinalityType
    <3>4. PICK l \in Nat : l = Cardinality(Makers') /\ l <= m - 1
      BY <3>1, <3>3, FS_Subset, FS_CardinalityType
    <3>5. n + m <= MaxRooms /\ MaxRooms \in Nat
      BY <1>1, <2>1, <3>2, RoomFeedAssumption DEF RoomsHold, RoomForAll
    <3>6. n + 1 + l <= MaxRooms /\ n + 1 <= MaxRooms
      BY <3>4, <3>5
    <3> QED
      BY <2>3, <3>4, <3>6 DEF RoomForAll
  <2>5. /\ n + 1 \in 0 .. MaxRooms /\ n + 1 \in Objects /\ n + 1 # NoRoom
        /\ \A p \in 1 .. n : p \in 1 .. n + 1 /\ p # n + 1 /\ p # NoRoom
        /\ \A p \in 1 .. n + 1 : p \in 1 .. n \/ p = n + 1
    BY <2>1, <2>4, RoomFeedAssumption DEF Objects, NoRoom
  <2>6. /\ currRoom' \in [User -> 0 .. MaxRooms] /\ currRoom'[u] = n + 1
        /\ \A v \in User \ {u} : currRoom'[v] = currRoom[v]
    BY <1>1, <1>8, <2>3, <2>5 DEF TypeOK
  <2>7. PICK m \in Messages : m = [Message("created") EXCEPT !.rooms = {n + 1}]
    BY <2>5 DEF Message, Messages, Kinds
  <2>8. /\ stream' \in [User -> Seq(Messages)]
        /\ stream'[u] = IF page[u] # "lost" THEN Append(stream[u], m) ELSE stream[u]
        /\ \A v \in User \ {u} : stream'[v] = stream[v]
    <3>1. SendTo({u}, m)
      BY <1>8, <2>1, <2>7 DEF NewId
    <3> QED
      BY <1>1, <3>1, Sent
  <2>9. TypeOK'
    BY <1>1, <1>2, <1>4, <2>3, <2>4, <2>6, <2>8 DEF TypeOK
  <2>10. DOMAIN rooms = 1 .. n /\ DOMAIN rooms' = 1 .. n + 1
    BY <1>1, <2>1, <2>3 DEF TypeOK
  <2>11. RoomsHold'
    <3>1. InOpenRoom'
      <4> SUFFICES ASSUME NEW v \in User, currRoom'[v] # NoRoom
                   PROVE  /\ currRoom'[v] \in 1 .. n + 1 /\ rooms'[currRoom'[v]].open
                          /\ v \in rooms'[currRoom'[v]].users
        BY <2>10 DEF InOpenRoom, Listed
      <4>1. CASE v = u
        <5>1. n + 1 \in 1 .. n + 1
          BY <2>1
        <5> QED
          BY <2>3, <2>6, <4>1, <5>1
      <4>2. CASE v # u
        <5>1. /\ currRoom'[v] = currRoom[v] /\ currRoom[v] \in 1 .. n
              /\ rooms[currRoom[v]].open /\ v \in rooms[currRoom[v]].users
          BY <1>1, <2>6, <2>10, <4>2 DEF RoomsHold, InOpenRoom, Listed
        <5> QED
          BY <2>3, <2>5, <5>1
      <4> QED
        BY <4>1, <4>2
    <3>2. InOneRoom'
      <4> SUFFICES ASSUME NEW v \in Patient, NEW p \in 1 .. n + 1,
                          rooms'[p].open, v \in rooms'[p].users
                   PROVE  currRoom'[v] = p
        BY <2>3 DEF InOneRoom, Patient
      <4>1. CASE p = n + 1
        BY <2>3, <2>6, <4>1
      <4>2. CASE p \in 1 .. n
        <5>1. currRoom[v] = p /\ p # NoRoom
          BY <1>1, <2>1, <2>3, <2>5, <4>2 DEF RoomsHold, InOneRoom
        <5> QED
          BY <1>8, <2>6, <5>1 DEF Patient
      <4> QED
        BY <2>5, <4>1, <4>2
    <3>3. HostsAtHome'
      <4> SUFFICES ASSUME NEW p \in 1 .. n + 1, NEW v \in rooms'[p].users, v \notin Guests
                   PROVE  rooms'[p].admin = v
        BY <2>3 DEF HostsAtHome
      <4>1. CASE p = n + 1
        BY <2>3, <4>1
      <4>2. CASE p \in 1 .. n
        BY <1>1, <2>1, <2>3, <4>2 DEF RoomsHold, HostsAtHome
      <4> QED
        BY <2>5, <4>1, <4>2
    <3> QED
      BY <2>4, <3>1, <3>2, <3>3 DEF RoomsHold
  <2>12. Undisturbed'
    <3>1. \A v \in User \ {u} : Reached(v)
      BY <1>2, <1>4, <2>6 DEF Reached
    <3> QED
      BY <1>3, <1>4, <3>1, UndisturbedAfter
  <2>13. ASSUME NEW v \in User \ {u} PROVE Steady(v)'
    <3>1. /\ Spared(v) /\ Steady(v)
          /\ pc[v] = "enter" /\ Listed(target[v]) => Listed(target[v])'
      BY <1>1, <1>2, <1>4, <2>3, <2>5, <2>6, <2>8, <2>10 DEF Spared, Listed
    <3>2. currRoom[v] # NoRoom => rooms'[currRoom[v]].users = rooms[currRoom[v]].users
      BY <1>1, <2>3, <2>10 DEF RoomsHold, InOpenRoom, Listed
    <3> QED
      BY <3>1, <3>2, SparedSteady
  <2>14. u \in Patient => Place(u)'
    <3> SUFFICES ASSUME u \in Patient PROVE Created(u)'
      BY <1>2, <1>6 DEF Place
    <3>1. Outside(u)' /\ ui'[u] = ui[u]
      BY <1>2, <1>6 DEF Outside
    <3>2. m = Made(u)'
      BY <2>6, <2>7 DEF Made
    <3>3. Closed \in Messages
      BY MessagesTyped DEF Closed, Kinds
    <3>4. Append(<<>>, m) = <<m>> /\ Append(<<Closed>>, m) = <<Closed, m>>
      BY <3>3, ShortStreams
    <3>5. stream'[u] = Append(stream[u], m)
      BY <1>6, <2>8
    <3> QED
      BY <1>4, <1>6, <2>5, <2>6, <3>1, <3>2, <3>4, <3>5 DEF Created
  <2> QED
    BY <1>3, <1>5, <2>9, <2>11, <2>12, <2>13, <2>14 DEF RoomFeedInv, Steady, Patient
<1> QED
  BY <1>7, <1>8 DEF HandleCreateRoom

\* What HandleLeaveRoom sends: m to the others, and its answer to u
SaidOnLeaving(u, others, m) ==
  stream' = [v \in User |->
    IF page[v] = "lost" THEN stream[v]
    ELSE stream[v] \o (IF v \in others THEN <<m>> ELSE <<>>)
                   \o (IF v \in {u} THEN <<Message("left")>> ELSE <<>>)]

LEMMA SentOnLeaving ==
  ASSUME TypeOK, NEW u \in User, NEW told, u \notin told,
         NEW m \in Messages, SaidOnLeaving(u, told, m)
  PROVE  /\ stream' \in [User -> Seq(Messages)]
         /\ stream'[u] = IF page[u] # "lost" THEN Append(stream[u], Message("left"))
                         ELSE stream[u]
         /\ \A v \in User \ {u} : stream'[v] = IF v \in told /\ page[v] # "lost"
                                                 THEN Append(stream[v], m) ELSE stream[v]
<1>1. PICK l \in Messages : l = Message("left")
  BY MessagesTyped DEF Kinds
<1>2. \A s \in Seq(Messages) :
        /\ s \o <<>> = s /\ s \o <<m>> = Append(s, m) /\ s \o <<l>> = Append(s, l)
        /\ Append(s, m) \in Seq(Messages) /\ Append(s, l) \in Seq(Messages)
  BY AppendProperties, AppendIsConcat, ConcatEmptySeq
<1>3. \A v \in User : stream[v] \in Seq(Messages)
  BY DEF TypeOK
<1>4. \A v \in User : stream'[v] =
        IF page[v] = "lost" THEN stream[v]
        ELSE (stream[v] \o (IF v \in told THEN <<m>> ELSE <<>>))
                        \o (IF v \in {u} THEN <<l>> ELSE <<>>)
  BY <1>1 DEF SaidOnLeaving
<1>5. stream'[u] = IF page[u] # "lost" THEN Append(stream[u], l) ELSE stream[u]
  <2>1. stream'[u] = IF page[u] = "lost" THEN stream[u] ELSE (stream[u] \o <<>>) \o <<l>>
    BY <1>4
  <2> QED
    BY <1>2, <1>3, <2>1
<1>6. ASSUME NEW v \in User \ {u}
      PROVE  stream'[v] = IF v \in told /\ page[v] # "lost"
                            THEN Append(stream[v], m) ELSE stream[v]
  <2>1. stream'[v] = IF page[v] = "lost" THEN stream[v]
                     ELSE (stream[v] \o (IF v \in told THEN <<m>> ELSE <<>>)) \o <<>>
    BY <1>4
  <2>2. CASE v \in told
    BY <1>2, <1>3, <2>1, <2>2
  <2>3. CASE v \notin told
    BY <1>2, <1>3, <2>1, <2>3
  <2> QED
    BY <2>2, <2>3
<1>7. stream' \in [User -> Seq(Messages)]
  <2>1. \A v \in User : stream'[v] \in Seq(Messages)
    BY <1>2, <1>3, <1>5, <1>6
  <2>2. stream' = [v \in User |-> stream'[v]]
    BY DEF SaidOnLeaving
  <2> QED
    BY <2>1, <2>2
<1> QED
  BY <1>1, <1>5, <1>6, <1>7

LEMMA HandleLeaveRoomSound ==
  ASSUME RoomFeedInv, NEW u \in User, HandleLeaveRoom(u)
  PROVE  RoomFeedInv'
<1>1. TypeOK /\ RoomsHold /\ \A v \in User : Steady(v)
  BY DEF RoomFeedInv
<1>2. /\ pc[u] = "leave" /\ pc' = [pc EXCEPT ![u] = "idle"]
      /\ UNCHANGED <<target, known, page, ui, role, listening, shown, view>>
  BY DEF HandleLeaveRoom, Goto, client
<1>3. pc' \in [User -> Steps] /\ pc'[u] = "idle" /\ \A v \in User \ {u} : pc'[v] = pc[v]
  BY <1>1, <1>2 DEF TypeOK, Steps
<1>4. u \in Patient =>
        /\ page[u] # "lost" /\ role[u] = "none" /\ page[u] # "room" /\ ui[u] = "free"
        /\ listening[u] <=> currRoom[u] # NoRoom
        /\ stream[u] = <<>>
  BY <1>1, <1>2 DEF Steady, Place, Away, Looking, Arriving, Creating, Created, Opening,
                    Seated, Over, Evicted, Departing
<1>5. CASE currRoom[u] = NoRoom
  <2>1. UNCHANGED <<rooms, currRoom, stream>>
    BY <1>5 DEF HandleLeaveRoom
  <2>2. TypeOK' /\ Alone(u)
    BY <1>1, <1>2, <1>3, <2>1 DEF TypeOK, Alone, Spared, server
  <2>3. Dutiful(u)'
    BY <1>1, <1>2, <1>3, <2>1 DEF Steady, Dutiful
  <2>4. u \in Unruly \cap Guests => Hasty(u)'
    BY <1>1, <1>2, <1>3, <2>1 DEF Steady, Hasty
  <2>5. u \in Patient => Place(u)'
    <3>1. u \in Patient => Away(u)'
      BY <1>2, <1>3, <1>4, <1>5, <2>1 DEF Away, Outside
    <3> QED
      BY <1>2, <1>4, <3>1 DEF Place
  <2>6. GoesOn(u) /\ Reserved(u)
    BY <1>2, <1>3, <1>4, <1>5, <2>1 DEF GoesOn, Reserved, Engaged
  <2> QED
    BY <2>2, <2>3, <2>4, <2>5, <2>6, AloneStep DEF Steady, Patient
<1>6. CASE currRoom[u] # NoRoom
  <2>1. PICK o : o = currRoom[u]
    OBVIOUS
  <2>2. o \in 1 .. Len(rooms) /\ rooms[o].open /\ u \in rooms[o].users /\ rooms[o] \in Room
    BY <1>1, <1>6, <2>1 DEF RoomsHold, InOpenRoom, Listed, TypeOK
  <2>3. PICK us \in SUBSET User : us = rooms[o].users \ {u}
    BY <2>2 DEF Room
  <2>4. PICK m \in Messages : m = UsersMessage(us)
    BY MessagesTyped
  <2>5. /\ rooms' = [rooms EXCEPT ![o].users = us]
        /\ currRoom' = [currRoom EXCEPT ![u] = NoRoom]
    BY <1>6, <2>1, <2>3 DEF HandleLeaveRoom, Remaining
  <2>6. SaidOnLeaving(u, us, m)
    BY <1>6, <2>1, <2>3, <2>4 DEF HandleLeaveRoom, Others, LeftAnswer, SaidOnLeaving
  <2>7. /\ stream' \in [User -> Seq(Messages)]
        /\ stream'[u] = IF page[u] # "lost" THEN Append(stream[u], Message("left"))
                        ELSE stream[u]
        /\ \A v \in User \ {u} : stream'[v] = IF v \in us /\ page[v] # "lost"
                                                THEN Append(stream[v], m) ELSE stream[v]
    <3>1. u \notin us
      BY <2>3
    <3> QED
      <4>1. TypeOK /\ u \in User /\ m \in Messages /\ u \notin us
        BY <1>1, <2>4, <3>1
      <4>2. stream' \in [User -> Seq(Messages)]
        BY <2>6, <4>1, SentOnLeaving
      <4>3. stream'[u] = IF page[u] # "lost" THEN Append(stream[u], Message("left"))
                        ELSE stream[u]
        BY <2>6, <4>1, SentOnLeaving
      <4>4. \A v \in User \ {u} : stream'[v] = IF v \in us /\ page[v] # "lost"
                                                THEN Append(stream[v], m) ELSE stream[v]
        BY <2>6, <4>1, SentOnLeaving
      <4> QED
        BY <4>2, <4>3, <4>4
  <2>8. /\ currRoom' \in [User -> 0 .. MaxRooms] /\ currRoom'[u] = NoRoom
        /\ \A v \in User \ {u} : currRoom'[v] = currRoom[v]
    <3>1. NoRoom \in 0 .. MaxRooms
      BY RoomFeedAssumption DEF NoRoom
    <3> QED
      BY <1>1, <2>5, <3>1 DEF TypeOK
  <2>9. /\ ~Quiet(u)
        /\ \A v \in User \ {u} : v \in us <=> v \in rooms[o].users
        /\ \A v \in User \ {u} :
             /\ Reached(v) /\ currRoom'[v] = currRoom[v]
             /\ stream'[v] = IF v \in us /\ page[v] # "lost"
                               THEN Append(stream[v], UsersMessage(us)) ELSE stream[v]
    BY <1>2, <1>3, <1>6, <2>3, <2>4, <2>7, <2>8 DEF Quiet, Reached
  <2>10. /\ rooms' \in Seq(Room) /\ Len(rooms') = Len(rooms)
         /\ \A p \in 1 .. Len(rooms) :
              /\ rooms'[p].open = rooms[p].open /\ rooms'[p].admin = rooms[p].admin
              /\ rooms'[p].users = IF p = o THEN us ELSE rooms[p].users
         /\ \A v \in User \ {u} : Steady(v)'
    BY <2>2, <2>5, <2>9, RoomTold
  <2>11. TypeOK'
    BY <1>1, <1>2, <1>3, <2>7, <2>8, <2>10 DEF TypeOK
  <2>12. RoomsHold'
    <3>1. InOpenRoom'
      <4> SUFFICES ASSUME NEW v \in User, currRoom'[v] # NoRoom
                   PROVE  /\ currRoom'[v] \in 1 .. Len(rooms) /\ rooms'[currRoom'[v]].open
                          /\ v \in rooms'[currRoom'[v]].users
        BY <2>10 DEF InOpenRoom, Listed
      <4>1. v # u /\ currRoom'[v] = currRoom[v]
        BY <2>8
      <4>2. /\ currRoom[v] \in 1 .. Len(rooms) /\ rooms[currRoom[v]].open
            /\ v \in rooms[currRoom[v]].users
        BY <1>1, <4>1 DEF RoomsHold, InOpenRoom, Listed, TypeOK
      <4> QED
        BY <2>3, <2>10, <4>1, <4>2
    <3>2. InOneRoom'
      <4> SUFFICES ASSUME NEW v \in Patient, NEW p \in 1 .. Len(rooms),
                          rooms'[p].open, v \in rooms'[p].users
                   PROVE  currRoom'[v] = p
        BY <2>10 DEF InOneRoom, Patient
      <4>1. rooms[p].open /\ v \in rooms[p].users /\ (p = o => v # u)
        BY <2>3, <2>10
      <4>2. currRoom[v] = p
        BY <1>1, <4>1 DEF RoomsHold, InOneRoom
      <4> QED
        BY <2>1, <2>8, <4>1, <4>2 DEF Patient
    <3>3. HostsAtHome'
      BY <1>1, <2>3, <2>10 DEF RoomsHold, HostsAtHome
    <3>4. RoomForAll'
      <4>1. Makers' \subseteq Makers
        BY <1>3, <2>8 DEF Makers
      <4> QED
        BY <1>1, <2>10, <4>1, FewerMakers DEF RoomsHold
    <3> QED
      BY <3>1, <3>2, <3>3, <3>4 DEF RoomsHold
  <2>13. Undisturbed'
    BY <1>3, <2>9, UndisturbedAfter
  <2>14. Steady(u)'
    <3>1. Dutiful(u)'
      BY <1>1, <1>2, <1>3 DEF Steady, Dutiful
    <3>2. u \in Unruly \cap Guests => Hasty(u)'
      <4> SUFFICES ASSUME u \in Unruly \cap Guests, page[u] # "lost" PROVE Hasty(u)'
        BY <1>2 DEF Hasty
      <4>1. PICK l \in Messages : l = Message("left") /\ l.kind = "left"
        BY MessagesTyped DEF Kinds
      <4>2. Hasty(u) /\ stream[u] \in Seq(Messages) /\ stream'[u] = Append(stream[u], l)
        BY <1>1, <2>7, <4>1 DEF Steady, TypeOK
      <4>3. l.kind \notin Answers
        BY <4>1 DEF Answers
      <4>4. /\ NoAnswer(stream[u]) => NoAnswer(stream'[u])
            /\ OneAnswer(stream[u]) => OneAnswer(stream'[u])
        BY <4>2, <4>3, AnswersAppended
      <4> QED
        BY <1>2, <1>3, <2>8, <4>2, <4>4 DEF Hasty
    <3>3. u \in Patient => Place(u)'
      <4> SUFFICES ASSUME u \in Patient PROVE Departing(u)'
        BY <1>2, <1>4 DEF Place
      <4>1. Append(<<>>, Message("left")) = <<Message("left")>>
        BY MessagesTyped, ShortStreams DEF Kinds
      <4>2. stream'[u] = <<Message("left")>>
        BY <1>4, <2>7, <4>1
      <4> QED
        BY <1>2, <1>3, <1>4, <1>6, <2>8, <4>2 DEF Departing
    <3> QED
      BY <3>1, <3>2, <3>3 DEF Steady, Patient
  <2> QED
    BY <2>10, <2>11, <2>12, <2>13, <2>14 DEF RoomFeedInv
<1> QED
  BY <1>5, <1>6

Shut(o) == [rooms EXCEPT ![o].open = FALSE]

LEMMA RoomShut ==
  ASSUME rooms \in Seq(Room), NEW o \in 1 .. Len(rooms), rooms' = Shut(o)
  PROVE  /\ rooms' \in Seq(Room) /\ Len(rooms') = Len(rooms)
         /\ \A p \in 1 .. Len(rooms) :
              /\ rooms'[p].users = rooms[p].users /\ rooms'[p].admin = rooms[p].admin
              /\ rooms'[p].open = IF p = o THEN FALSE ELSE rooms[p].open
<1>1. \A p \in 1 .. Len(rooms) : rooms[p] \in Room
  OBVIOUS
<1>2. PICK r \in Room : r = rooms[o]
  BY <1>1
<1>3. PICK q : q = [r EXCEPT !.open = FALSE]
  OBVIOUS
<1>4. q.users = r.users /\ q.admin = r.admin /\ q.open = FALSE /\ q \in Room
  BY <1>3 DEF Room
<1>5. rooms' = [rooms EXCEPT ![o] = q]
  BY <1>2, <1>3, Zenon DEF Shut
<1>6. /\ rooms' \in Seq(Room) /\ Len(rooms') = Len(rooms) /\ rooms'[o] = q
      /\ \A p \in 1 .. Len(rooms) : p # o => rooms'[p] = rooms[p]
  BY <1>4, <1>5
<1> QED
  BY <1>2, <1>4, <1>6

\* The room of u, that ends it, ends for all its players; the others are told m.
LEMMA RoomEnds ==
  ASSUME Civil, RoomFeedInv, NEW u \in User, pc[u] \in {"close", "start"},
         NEW o, o = currRoom[u], EndRoom(o), Goto(u, "idle"),
         UNCHANGED <<target, known, client>>,
         NEW m \in Messages, m.kind \in {"closed", "question"},
         stream' \in [User -> Seq(Messages)],
         \A v \in User \ {u} : stream'[v] = IF v \in rooms[o].users /\ page[v] # "lost"
                                              THEN Append(stream[v], m) ELSE stream[v],
         currRoom'[u] = NoRoom /\ pc'[u] = "idle" /\ u \in Patient => Place(u)'
  PROVE  RoomFeedInv'
<1>1. TypeOK /\ RoomsHold /\ Undisturbed /\ \A v \in User : Steady(v)
  BY DEF RoomFeedInv
<1>2. /\ pc' = [pc EXCEPT ![u] = "idle"] /\ rooms' = [rooms EXCEPT ![o].open = FALSE]
      /\ currRoom' = [v \in User |-> IF v \in rooms[o].users THEN NoRoom ELSE currRoom[v]]
      /\ UNCHANGED <<target, known, page, ui, role, listening, shown, view>>
  BY DEF EndRoom, Goto, client
<1>3. pc' \in [User -> Steps] /\ pc'[u] = "idle" /\ \A v \in User \ {u} : pc'[v] = pc[v]
  BY <1>1, <1>2 DEF TypeOK, Steps
<1>4. u \in Hosts /\ u \notin Guests /\ o # NoRoom /\ ~Quiet(u) /\ Engaged(u)
  BY <1>1 DEF Civil, Steady, Dutiful, Quiet, Engaged
<1>5. o \in 1 .. Len(rooms) /\ rooms[o].open /\ u \in rooms[o].users /\ rooms[o] \in Room
  BY <1>1, <1>4 DEF RoomsHold, InOpenRoom, Listed, TypeOK
<1>6. /\ currRoom' \in [User -> 0 .. MaxRooms]
      /\ \A v \in User : currRoom'[v] = IF v \in rooms[o].users THEN NoRoom ELSE currRoom[v]
  <2>1. NoRoom \in 0 .. MaxRooms
    BY RoomFeedAssumption DEF NoRoom
  <2> QED
    BY <1>1, <1>2, <2>1 DEF TypeOK
<1>7. /\ rooms' \in Seq(Room) /\ Len(rooms') = Len(rooms)
      /\ \A p \in 1 .. Len(rooms) :
           /\ rooms'[p].users = rooms[p].users /\ rooms'[p].admin = rooms[p].admin
           /\ rooms'[p].open = IF p = o THEN FALSE ELSE rooms[p].open
  BY <1>1, <1>2, <1>5, RoomShut DEF TypeOK, Shut
<1>8. TypeOK'
  BY <1>1, <1>2, <1>3, <1>6, <1>7 DEF TypeOK
<1>9. DOMAIN rooms = 1 .. Len(rooms) /\ DOMAIN rooms' = 1 .. Len(rooms)
  BY <1>1, <1>7 DEF TypeOK
\* A host that is in a room is its host, so nobody else ends this one.
<1>10. \A v \in User \ {u} : v \in rooms[o].users => v \in Guests
  BY <1>1, <1>4, <1>5 DEF RoomsHold, HostsAtHome
<1>11. RoomsHold'
  <2>1. InOpenRoom'
    <3> SUFFICES ASSUME NEW v \in User, currRoom'[v] # NoRoom
                 PROVE  /\ currRoom'[v] \in 1 .. Len(rooms) /\ rooms'[currRoom'[v]].open
                        /\ v \in rooms'[currRoom'[v]].users
      BY <1>9 DEF InOpenRoom, Listed
    <3>1. v \notin rooms[o].users /\ currRoom'[v] = currRoom[v]
      BY <1>6
    <3>2. /\ currRoom[v] \in 1 .. Len(rooms) /\ rooms[currRoom[v]].open
          /\ v \in rooms[currRoom[v]].users
      BY <1>1, <1>9, <3>1 DEF RoomsHold, InOpenRoom, Listed
    <3>3. currRoom[v] # o
      BY <3>1, <3>2
    <3> QED
      BY <1>7, <3>1, <3>2, <3>3
  <2>2. InOneRoom'
    <3> SUFFICES ASSUME NEW v \in Patient, NEW p \in 1 .. Len(rooms),
                        rooms'[p].open, v \in rooms'[p].users
                 PROVE  currRoom'[v] = p
      BY <1>7 DEF InOneRoom, Patient
    <3>1. p # o /\ rooms[p].open /\ v \in rooms[p].users
      BY <1>7
    <3>2. currRoom[v] = p
      BY <1>1, <3>1 DEF RoomsHold, InOneRoom
    <3>3. v \notin rooms[o].users
      BY <1>1, <1>5, <3>1, <3>2 DEF RoomsHold, InOneRoom
    <3> QED
      BY <1>6, <3>2, <3>3 DEF Patient
  <2>3. HostsAtHome'
    BY <1>1, <1>7 DEF RoomsHold, HostsAtHome
  <2>4. RoomForAll'
    <3>1. Makers' \subseteq Makers
      <4> SUFFICES ASSUME NEW v \in User, pc'[v] = "create", currRoom'[v] = NoRoom
                   PROVE  pc[v] = "create" /\ currRoom[v] = NoRoom
        BY DEF Makers
      <4>1. v # u /\ pc[v] = "create"
        BY <1>3
      <4>2. v \notin Guests
        BY <1>1, <4>1 DEF Civil, Steady, Dutiful
      <4> QED
        BY <1>6, <1>10, <4>1, <4>2
    <3> QED
      BY <1>1, <1>7, <3>1, FewerMakers DEF RoomsHold
  <2> QED
    BY <2>1, <2>2, <2>3, <2>4 DEF RoomsHold
<1>12. \A v \in User \ {u} : Reached(v)
  BY <1>2, <1>3, <1>6 DEF Reached
<1>13. Undisturbed'
  BY <1>3, <1>4, <1>12, UndisturbedAfter
\* Nobody is on the way into the room.
<1>14. \A v \in User \ {u} : pc[v] # "enter"
  <2> SUFFICES ASSUME NEW v \in User \ {u}, pc[v] = "enter" PROVE FALSE
    OBVIOUS
  <2>1. v \in Guests /\ ~Quiet(v) /\ Engaged(v)
    BY <1>1 DEF Steady, Dutiful, Quiet, Engaged
  <2>2. u \notin Patient
    BY <1>1, <1>4, <2>1 DEF Undisturbed
  <2>3. v \in Patient
    BY <1>4, <2>1, <2>2 DEF Civil, Patient
  <2> QED
    BY <1>1, <1>4, <2>1, <2>3 DEF Undisturbed
<1>15. ASSUME NEW v \in User \ {u}
       PROVE  Steady(v)'
  <2>1. Steady(v) /\ Reached(v)
    BY <1>1, <1>12
  <2>2. Dutiful(v)'
    <3>1. pc'[v] \in {"close", "start"} => currRoom'[v] # NoRoom
      <4>1. pc[v] \in {"close", "start"} => v \notin Guests /\ currRoom[v] # NoRoom
        BY <2>1 DEF Civil, Steady, Dutiful
      <4> QED
        BY <1>3, <1>6, <1>10, <4>1
    <3> QED
      BY <1>3, <1>14, <2>1, <3>1 DEF Steady, Dutiful, Reached
  <2>3. ASSUME v \in Unruly \cap Guests PROVE Hasty(v)'
    <3>1. Hasty(v)
      BY <2>1, <2>3 DEF Steady
    <3>2. CASE v \in rooms[o].users /\ page[v] # "lost"
      <4>1. m.kind \notin Answers /\ currRoom'[v] = NoRoom /\ pc[v] # "enter"
        BY <1>6, <1>14, <3>2 DEF Answers
      <4>2. stream'[v] = Append(stream[v], m)
        BY <3>2
      <4> QED
        BY <1>1, <2>1, <3>1, <4>1, <4>2, HastyTold
    <3>3. CASE ~(v \in rooms[o].users /\ page[v] # "lost")
      <4>1. stream'[v] = stream[v]
        BY <3>3
      <4> QED
        BY <2>1, <3>1, <4>1, HastySame
    <3> QED
      BY <3>2, <3>3
  <2>4. ASSUME v \in Patient PROVE Place(v)'
    <3>1. page[v] # "lost"
      BY <2>1, <2>4 DEF Steady, Place
    <3>2. CASE v \in rooms[o].users
      <4>1. currRoom[v] = o
        BY <1>1, <1>5, <2>4, <3>2 DEF RoomsHold, InOneRoom
      <4>2. Seated(v) /\ pc'[v] = "idle"
        BY <1>3, <1>4, <2>4, <4>1, OthersRest
      <4>3. UNCHANGED <<role[v], listening[v], page[v], ui[v]>> /\ currRoom'[v] = NoRoom
        BY <1>2, <1>6, <3>2
      <4>4. stream'[v] = Append(stream[v], m)
        BY <3>1, <3>2
      <4> QED
        BY <1>1, <4>2, <4>3, <4>4, SeatedEnded
    <3>3. CASE v \notin rooms[o].users
      <4>1. currRoom'[v] = currRoom[v] /\ Spared(v)
        BY <1>2, <1>3, <1>6, <3>3 DEF Spared
      <4>2. currRoom[v] # NoRoom => rooms'[currRoom[v]].users = rooms[currRoom[v]].users
        BY <1>1, <1>7, <1>9 DEF RoomsHold, InOpenRoom, Listed
      <4>3. Steady(v)'
        BY <1>14, <2>1, <4>1, <4>2, SparedSteady
      <4> QED
        BY <2>4, <4>3 DEF Steady, Patient
    <3> QED
      BY <3>2, <3>3
  <2> QED
    BY <2>2, <2>3, <2>4 DEF Steady, Patient
<1>16. Steady(u)'
  <2>1. Dutiful(u)'
    BY <1>1, <1>2, <1>3 DEF Steady, Dutiful
  <2>2. currRoom'[u] = NoRoom
    BY <1>5, <1>6
  <2> QED
    BY <1>3, <1>4, <2>1, <2>2 DEF Steady, Patient
<1> QED
  BY <1>8, <1>11, <1>13, <1>15, <1>16 DEF RoomFeedInv

\* What HandleCloseRoom sends: to every player, and to the host once more
SaidOnClosing(u, players) ==
  stream' = [v \in User |->
    IF page[v] = "lost" THEN stream[v]
    ELSE stream[v] \o (IF v \in players THEN <<Message("closed")>> ELSE <<>>)
                   \o (IF v = u THEN <<Message("closed")>> ELSE <<>>)]

LEMMA SentOnClosing ==
  ASSUME TypeOK, NEW u \in User, NEW players, u \in players, SaidOnClosing(u, players)
  PROVE  /\ stream' \in [User -> Seq(Messages)]
         /\ stream[u] = <<>> /\ page[u] # "lost" => stream'[u] = <<Closed, Closed>>
         /\ \A v \in User \ {u} : stream'[v] = IF v \in players /\ page[v] # "lost"
                                                 THEN Append(stream[v], Closed) ELSE stream[v]
<1>1. PICK c \in Messages : c = Closed
  BY MessagesTyped DEF Closed, Kinds
<1>2. \A s \in Seq(Messages) : /\ s \o <<>> = s /\ s \o <<c>> = Append(s, c)
                               /\ Append(s, c) \in Seq(Messages)
  BY AppendProperties, AppendIsConcat, ConcatEmptySeq
<1>3. \A v \in User : stream[v] \in Seq(Messages)
  BY DEF TypeOK
<1>4. \A v \in User : stream'[v] =
        IF page[v] = "lost" THEN stream[v]
        ELSE (stream[v] \o (IF v \in players THEN <<c>> ELSE <<>>))
                        \o (IF v = u THEN <<c>> ELSE <<>>)
  BY <1>1 DEF SaidOnClosing, Closed
<1>5. stream'[u] = IF page[u] = "lost" THEN stream[u] ELSE Append(Append(stream[u], c), c)
  <2>1. stream'[u] = IF page[u] = "lost" THEN stream[u] ELSE (stream[u] \o <<c>>) \o <<c>>
    BY <1>4
  <2>2. /\ stream[u] \o <<c>> = Append(stream[u], c)
        /\ Append(stream[u], c) \o <<c>> = Append(Append(stream[u], c), c)
    BY <1>2, <1>3
  <2> QED
    BY <2>1, <2>2
<1>6. ASSUME NEW v \in User \ {u}
      PROVE  stream'[v] = IF v \in players /\ page[v] # "lost"
                            THEN Append(stream[v], c) ELSE stream[v]
  <2>1. stream'[v] = IF page[v] = "lost" THEN stream[v]
                     ELSE (stream[v] \o (IF v \in players THEN <<c>> ELSE <<>>)) \o <<>>
    BY <1>4
  <2>2. CASE v \in players
    BY <1>2, <1>3, <2>1, <2>2
  <2>3. CASE v \notin players
    BY <1>2, <1>3, <2>1, <2>3
  <2> QED
    BY <2>2, <2>3
<1>7. stream' \in [User -> Seq(Messages)]
  <2>1. \A v \in User : stream'[v] \in Seq(Messages)
    BY <1>2, <1>3, <1>5, <1>6
  <2>2. stream' = [v \in User |-> stream'[v]]
    BY DEF SaidOnClosing
  <2> QED
    BY <2>1, <2>2
<1>8. Append(Append(<<>>, c), c) = <<c, c>>
  BY ShortStreams
<1>9. stream[u] = <<>> /\ page[u] # "lost" => stream'[u] = <<c, c>>
  BY <1>5, <1>8
<1> QED
  BY <1>1, <1>6, <1>7, <1>9

LEMMA HandleCloseRoomSound ==
  ASSUME Civil, RoomFeedInv, NEW u \in User, HandleCloseRoom(u)
  PROVE  RoomFeedInv'
<1>1. TypeOK /\ RoomsHold /\ \A v \in User : Steady(v)
  BY DEF RoomFeedInv
<1>2. PICK o : o = currRoom[u]
  OBVIOUS
<1>3. /\ pc[u] = "close" /\ EndRoom(o) /\ Goto(u, "idle")
      /\ UNCHANGED <<target, known, client>>
  BY <1>2 DEF HandleCloseRoom
<1>4. o # NoRoom /\ u \in rooms[o].users /\ u \notin Guests
  <2>1. currRoom[u] # NoRoom /\ u \notin Guests
    BY <1>1, <1>3 DEF Civil, Steady, Dutiful
  <2> QED
    BY <1>1, <1>2, <2>1 DEF RoomsHold, InOpenRoom
<1>5. /\ stream' \in [User -> Seq(Messages)]
      /\ stream[u] = <<>> /\ page[u] # "lost" => stream'[u] = <<Closed, Closed>>
      /\ \A v \in User \ {u} : stream'[v] = IF v \in rooms[o].users /\ page[v] # "lost"
                                              THEN Append(stream[v], Closed) ELSE stream[v]
  <2>1. SaidOnClosing(u, rooms[o].users)
    BY <1>2 DEF HandleCloseRoom, SaidOnClosing
  <2> QED
    BY <1>1, <1>4, <2>1, SentOnClosing
<1>6. Closed \in Messages /\ Closed.kind = "closed"
  BY MessagesTyped DEF Closed, Kinds
<1>7. ASSUME currRoom'[u] = NoRoom /\ pc'[u] = "idle" /\ u \in Patient
      PROVE  Place(u)'
  <2>1. /\ page[u] # "lost" /\ role[u] = "none" /\ page[u] # "room" /\ ui[u] = "free"
        /\ listening[u] /\ stream[u] = <<>>
    BY <1>1, <1>3, <1>7 DEF Steady, Place, Away, Looking, Arriving, Creating, Created,
                            Opening, Seated, Over, Evicted, Departing
  <2>2. UNCHANGED <<page, role, ui, listening>>
    BY <1>3 DEF client
  <2>3. Departing(u)'
    BY <1>4, <1>5, <1>7, <2>1, <2>2 DEF Departing
  <2> QED
    BY <2>1, <2>2, <2>3 DEF Place
<1> QED
  BY <1>2, <1>3, <1>5, <1>6, <1>7, RoomEnds

LEMMA HandleStartGameSound ==
  ASSUME Civil, RoomFeedInv, NEW u \in User, HandleStartGame(u)
  PROVE  RoomFeedInv'
<1>1. TypeOK /\ RoomsHold /\ \A v \in User : Steady(v)
  BY DEF RoomFeedInv
<1>2. PICK o : o = currRoom[u]
  OBVIOUS
<1>3. /\ pc[u] = "start" /\ EndRoom(o) /\ Goto(u, "idle")
      /\ SendTo(rooms[o].users, Message("question"))
      /\ UNCHANGED <<target, known, client>>
  BY <1>2 DEF HandleStartGame, Asked
<1>4. o # NoRoom /\ u \in rooms[o].users
  <2>1. currRoom[u] # NoRoom
    BY <1>1, <1>3 DEF Steady, Dutiful
  <2> QED
    BY <1>1, <1>2, <2>1 DEF RoomsHold, InOpenRoom
<1>5. PICK m \in Messages : m = Message("question") /\ m.kind = "question"
  BY MessagesTyped DEF Kinds
<1>6. /\ stream' \in [User -> Seq(Messages)]
      /\ \A v \in User : stream'[v] = IF v \in rooms[o].users /\ page[v] # "lost"
                                        THEN Append(stream[v], m) ELSE stream[v]
  BY <1>1, <1>3, <1>5, Sent
<1>7. ASSUME currRoom'[u] = NoRoom /\ pc'[u] = "idle" /\ u \in Patient
      PROVE  Place(u)'
  <2>1. Seated(u) /\ page[u] # "lost"
    BY <1>1, <1>3, <1>7 DEF Steady, Place, Away, Looking, Arriving, Creating, Created,
                            Opening, Seated, Over, Evicted, Departing
  <2>2. UNCHANGED <<role[u], listening[u], page[u], ui[u]>>
    BY <1>3 DEF client
  <2>3. stream'[u] = Append(stream[u], m)
    BY <1>4, <1>6, <2>1
  <2> QED
    BY <1>1, <1>5, <1>7, <2>1, <2>2, <2>3, SeatedEnded
<1> QED
  BY <1>2, <1>3, <1>5, <1>6, <1>7, RoomEnds

-----------------------------------------------------------------------------
(* The specification *)

LEMMA InitSound ==
  ASSUME Init
  PROVE  RoomFeedInv
<1>1. TypeOK
  <2>1. <<>> \in Seq(Room) /\ <<>> \in Seq(Messages) /\ Len(<<>>) = 0
    OBVIOUS
  <2> QED
    BY <2>1, RoomFeedAssumption DEF Init, TypeOK, NoRoom, Steps, Pages, Waits
<1>2. RoomsHold
  <2>1. InOpenRoom /\ InOneRoom /\ HostsAtHome
    BY DEF Init, InOpenRoom, InOneRoom, HostsAtHome, Patient
  <2>2. RoomForAll
    <3>1. Makers = {}
      BY DEF Init, Makers
    <3>2. Cardinality(Makers) = 0 /\ Len(rooms) = 0
      BY <3>1, FS_EmptySet DEF Init
    <3> QED
      BY <3>2, RoomFeedAssumption DEF RoomForAll
  <2> QED
    BY <2>1, <2>2 DEF RoomsHold
<1>3. Undisturbed
  BY DEF Init, Undisturbed, Engaged, Patient
<1>4. ASSUME NEW u \in User
      PROVE  Steady(u)
  <2>1. Dutiful(u)
    BY DEF Init, Dutiful
  <2>2. Hasty(u)
    BY DEF Init, Hasty, NoAnswer, OneAnswer
  <2>3. Place(u)
    BY DEF Init, Place, Away, Outside
  <2> QED
    BY <2>1, <2>2, <2>3 DEF Steady
<1> QED
  BY <1>1, <1>2, <1>3, <1>4 DEF RoomFeedInv

LEMMA NextSound ==
  ASSUME Civil, RoomFeedInv, [Next]_vars
  PROVE  RoomFeedInv'
<1>1. CASE UNCHANGED vars
  <2>1. UNCHANGED <<rooms, currRoom, pc, target, known, stream, page, ui, role,
                    listening, shown, view>>
    BY <1>1 DEF vars, server, threads, client
  <2>2. TypeOK' /\ RoomsHold' /\ Undisturbed'
    <3>1. TypeOK'
      BY <2>1 DEF RoomFeedInv, TypeOK
    <3>2. InOpenRoom' /\ InOneRoom' /\ HostsAtHome'
      BY <2>1 DEF RoomFeedInv, RoomsHold, InOpenRoom, InOneRoom, HostsAtHome, Listed, Patient
    <3>3. RoomForAll'
      <4>1. Makers' = Makers
        BY <2>1 DEF Makers
      <4> QED
        BY <2>1, <4>1 DEF RoomFeedInv, RoomsHold, RoomForAll
    <3>4. Undisturbed'
      BY <2>1 DEF RoomFeedInv, Undisturbed, Engaged, Quiet, Patient
    <3> QED
      BY <3>1, <3>2, <3>3, <3>4 DEF RoomsHold
  <2>3. ASSUME NEW u \in User
        PROVE  Steady(u)'
    <3>1. /\ Steady(u) /\ Spared(u)
          /\ pc[u] = "enter" /\ Listed(target[u]) => Listed(target[u])'
          /\ currRoom[u] # NoRoom => rooms'[currRoom[u]].users = rooms[currRoom[u]].users
      BY <2>1 DEF RoomFeedInv, Spared, Listed
    <3> QED
      BY <3>1, SparedSteady
  <2> QED
    BY <2>2, <2>3 DEF RoomFeedInv
<1>2. ASSUME NEW u \in User, Handle(u)
      PROVE  RoomFeedInv'
  BY <1>2, HandleGetRoomsSound, HandleJoinRoomSound, EnterRoomSound, HandleCreateRoomSound,
     HandleGetUsersSound, SendUsersAgainSound, HandleLeaveRoomSound, HandleCloseRoomSound,
     HandleStartGameSound DEF Handle
<1>3. ASSUME NEW u \in User, Turn(u)
      PROVE  RoomFeedInv'
  BY <1>3, ReadRoomsSound, ReadJoinedSound, ReadGreetingSound, ReadCreatedSound,
     AskUsersSound, ReadUsersSound, FlushSound, LeaveRoomSound DEF Turn
<1>4. ASSUME NEW u \in User, Listen(u)
      PROVE  RoomFeedInv'
  BY <1>4, ListenSound
<1>5. ASSUME NEW u \in User, Choose(u)
      PROVE  RoomFeedInv'
  BY <1>5, OpenRoomsSound, JoinRoomSound, CreateRoomSound, LeaveRoomSound, CloseRoomSound,
     StartGameSound, FinishGameSound DEF Choose
<1> QED
  BY <1>1, <1>2, <1>3, <1>4, <1>5 DEF Next

LEMMA AlwaysSound ==
  ASSUME Civil
  PROVE  Spec => []RoomFeedInv
<1>1. Init => RoomFeedInv
  BY InitSound
<1>2. RoomFeedInv /\ [Next]_vars => RoomFeedInv'
  BY NextSound
<1> QED
  BY <1>1, <1>2, PTL DEF Spec

\* Every variable keeps its type: no stream holds a message that nobody sends,
\* and no more rooms are opened than the run has numbers for.
THEOREM RoomFeedTyped ==
  ASSUME Civil
  PROVE  Spec => []TypeOK
<1>1. RoomFeedInv => TypeOK
  BY DEF RoomFeedInv
<1> QED
  BY <1>1, AlwaysSound, PTL

\* A patient client counts right, over any number of rooms and whatever those in a
\* hurry do: the one receive after a request returns its answer, the one that is
\* thrown away is the one meant to be, and the rest is news of the room.
THEOREM ClientsInStep ==
  ASSUME Civil
  PROVE  Spec => []InStep
<1>1. RoomFeedInv => InStep
  BY DEF RoomFeedInv, InStep, Steady, Place, Patient
<1> QED
  BY <1>1, AlwaysSound, PTL

\* A patient user who has read all it was sent about its room is in that room for
\* the server too, and its page lists the players the server has.
THEOREM ViewsCurrent ==
  ASSUME Civil
  PROVE  Spec => []ViewCurrent
<1>1. RoomFeedInv => ViewCurrent
  <2> SUFFICES ASSUME RoomFeedInv, NEW u \in Patient,
                      listening[u] /\ role[u] # "none" /\ stream[u] = <<>> /\ pc[u] = "idle"
               PROVE  currRoom[u] # NoRoom /\ view[u] = rooms[currRoom[u]].users
    BY DEF ViewCurrent
  <2>1. Place(u)
    BY DEF RoomFeedInv, Steady, Patient
  <2>2. Seated(u)
    BY <2>1 DEF Place, Away, Looking, Arriving, Creating, Created, Opening, Seated, Over,
                Evicted, Departing, Outside
  <2> QED
    BY <2>2 DEF Seated, Players
<1> QED
  BY <1>1, AlwaysSound, PTL

\* No thread of a room page outlives its page, to take the answers to later
\* requests: HandlePlayers finds what ends it in its stream.
THEOREM ThreadsEnd ==
  ASSUME Civil
  PROVE  Spec => []ThreadEnds
<1>1. RoomFeedInv => ThreadEnds
  <2> SUFFICES ASSUME RoomFeedInv, NEW u \in Patient,
                      listening[u] /\ role[u] = "none" /\ pc[u] = "idle"
               PROVE  \E i \in 1 .. Len(stream[u]) :
                        stream[u][i].kind \in {"closed", "left", "question"}
    BY DEF ThreadEnds
  <2>1. Place(u)
    BY DEF RoomFeedInv, Steady, Patient
  <2>2. stream[u] = <<Message("left")>> \/ stream[u] = <<Closed, Closed>>
    BY <2>1 DEF Place, Away, Looking, Arriving, Creating, Created, Opening, Seated, Over,
                Evicted, Departing, Outside, InRoomPage
  <2>3. PICK l \in Messages : l = Message("left") /\ l.kind = "left"
    BY MessagesTyped DEF Kinds
  <2>4. PICK c \in Messages : c = Closed /\ c.kind = "closed"
    BY MessagesTyped DEF Closed, Kinds
  <2>5. /\ 1 \in 1 .. Len(<<l>>) /\ <<l>>[1] = l
        /\ 1 \in 1 .. Len(<<c, c>>) /\ <<c, c>>[1] = c
    BY ShortStreams
  <2> QED
    BY <2>2, <2>3, <2>4, <2>5
<1> QED
  BY <1>1, AlwaysSound, PTL

\* The first question of a game is read by the thread of the room page and by
\* nothing else: it runs, and only lists come before the question.
THEOREM QuestionsReached ==
  ASSUME Civil
  PROVE  Spec => []QuestionReached
<1>1. RoomFeedInv => QuestionReached
  <2> SUFFICES ASSUME RoomFeedInv, NEW u \in Patient, NEW i \in 1 .. Len(stream[u]),
                      stream[u][i].kind = "question"
               PROVE  /\ listening[u] /\ role[u] # "none"
                      /\ \A j \in 1 .. i - 1 : stream[u][j].kind = "users"
    BY DEF QuestionReached
  <2>1. Place(u) /\ TypeOK /\ InOpenRoom
    BY DEF RoomFeedInv, RoomsHold, Steady, Patient
  <2>2. Seated(u) => FALSE
    BY DEF Seated, Lists
  <2>3. ASSUME NEW m \in Messages, NEW p \in Messages, m.kind # "question",
               p.kind # "question"
        PROVE  stream[u] # <<>> /\ stream[u] # <<m>> /\ stream[u] # <<m, p>>
    <3>1. /\ Len(<<>>) = 0 /\ Len(<<m>>) = 1 /\ <<m>>[1] = m
          /\ Len(<<m, p>>) = 2 /\ <<m, p>>[1] = m /\ <<m, p>>[2] = p
      BY ShortStreams
    <3>2. stream[u] # <<>>
      BY <3>1
    <3>3. stream[u] # <<m>>
      BY <2>3, <3>1
    <3>4. stream[u] # <<m, p>>
      BY <2>3, <3>1
    <3> QED
      BY <3>2, <3>3, <3>4
  <2>4. Over(u)
    <3>1. /\ Closed \in Messages /\ Closed.kind # "question"
          /\ \A kind \in Kinds \ {"question"} :
               Message(kind) \in Messages /\ Message(kind).kind # "question"
      BY MessagesTyped DEF Closed, Kinds
    <3>2. \A os \in SUBSET Objects : /\ RoomsMessage(os) \in Messages
                                     /\ RoomsMessage(os).kind # "question"
      BY MessagesTyped
    <3>3. currRoom[u] # NoRoom => /\ List(u) \in Messages /\ List(u).kind # "question"
                                  /\ Made(u) \in Messages /\ Made(u).kind # "question"
      BY <2>1, RoomMessages DEF Patient
    <3>4. {"refused", "joined", "left"} \subseteq Kinds \ {"question"}
      BY DEF Kinds
    <3>5. ~Away(u) /\ ~Looking(u) /\ ~Creating(u) /\ ~Evicted(u) /\ ~Departing(u)
      BY <2>3, <3>1, <3>2, <3>4 DEF Away, Looking, Creating, Evicted, Departing
    <3>6. ~Arriving(u) /\ ~Created(u) /\ ~Opening(u)
      BY <2>3, <3>1, <3>3, <3>4 DEF Arriving, Created, Opening
    <3> QED
      BY <2>1, <2>2, <3>5, <3>6 DEF Place
  <2>5. listening[u] /\ role[u] # "none"
    BY <2>4 DEF Over, InRoomPage
  <2>6. \A j \in 1 .. i - 1 : stream[u][j].kind = "users"
    <3>1. PICK n \in Nat : n = Len(stream[u])
      BY <2>1 DEF TypeOK, Patient
    <3>2. i = n
      BY <2>4, <3>1 DEF Over
    <3>3. \A j \in 1 .. n - 1 : j \in 1 .. n /\ j # n
      BY <3>1
    <3> QED
      BY <2>4, <3>1, <3>2, <3>3 DEF Over
  <2> QED
    BY <2>5, <2>6
<1> QED
  BY <1>1, AlwaysSound, PTL

=============================================================================
