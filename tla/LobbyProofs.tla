------------------------------ MODULE LobbyProofs ------------------------------
(***************************************************************************)
(* Proofs about Lobby, for every number of users and rooms: first with     *)
(* handlers that interleave, clients that do not wait and connections that *)
(* are lost, then with paced requests.                                     *)
(***************************************************************************)
EXTENDS Lobby, FiniteSetTheorems, TLAPS

\* Whatever refers to a room refers to one that was made.
RoomsMade ==
  /\ \A u \in User : currRoom[u] <= Len(rooms)
  /\ \A u \in User : pc[u] \in {"register", "enter", "setRoom", "unlist"} =>
                       target[u] \in 1 .. Len(rooms)
  /\ \A k \in Objects : roomsList[k] <= Len(rooms)

\* The threads that draw a number or have yet to make their room
Building == {u \in User : pc[u] \in {"number", "build"}}

\* There is space for every room made and every room to be made.
NumbersDrawn == Len(rooms) + Cardinality(Building) <= MaxRooms

\* A thread that is about to write the next number read one that was not the last.
SeenBelow == \A u \in User : pc[u] = "number" => seen[u] < MaxRooms

\* A thread that is about to set its user's pointer has its user on the list.
OnTheList ==
  \A u \in User : pc[u] = "setRoom" => u \in ToSet(rooms[target[u]].users)

\* The inductive invariant
SeatInv == TypeOK /\ RoomsMade /\ NumbersDrawn /\ OnTheList /\ CountedWhereSeated

-----------------------------------------------------------------------------
(* Facts about lists of players and rooms *)

LEMMA ToSetOf ==
  ASSUME NEW S, NEW s \in Seq(S), NEW e
  PROVE  e \in ToSet(s) <=> \E i \in 1 .. Len(s) : s[i] = e
BY DEF ToSet

\* Who joins is on the list with all that were.
LEMMA JoinedList ==
  ASSUME NEW s \in Seq(User), NEW u \in User
  PROVE  /\ Append(s, u) \in Seq(User) /\ Len(Append(s, u)) = Len(s) + 1
         /\ ToSet(Append(s, u)) = ToSet(s) \cup {u}
<1> DEFINE t == Append(s, u)
<1>1. t \in Seq(User) /\ Len(t) = Len(s) + 1 /\ Len(s) \in Nat
  OBVIOUS
<1>2. /\ \A i \in 1 .. Len(s) : t[i] = s[i]
      /\ t[Len(s) + 1] = u
  OBVIOUS
<1> HIDE DEF t
<1>3. \A e : e \in ToSet(t) <=> e \in ToSet(s) \/ e = u
  <2> SUFFICES ASSUME NEW e
               PROVE  (\E i \in 1 .. Len(t) : t[i] = e)
                        <=> (\E i \in 1 .. Len(s) : s[i] = e) \/ e = u
    BY <1>1, ToSetOf
  <2>1. ASSUME NEW i \in 1 .. Len(t), t[i] = e
        PROVE  (\E j \in 1 .. Len(s) : s[j] = e) \/ e = u
    <3>1. i \in 1 .. Len(s) \/ i = Len(s) + 1
      BY <1>1
    <3> QED
      BY <1>2, <2>1, <3>1
  <2>2. ASSUME NEW i \in 1 .. Len(s), s[i] = e
        PROVE  \E j \in 1 .. Len(t) : t[j] = e
    <3>1. i \in 1 .. Len(t) /\ t[i] = e
      BY <1>1, <1>2, <2>2
    <3> QED
      BY <3>1
  <2>3. Len(s) + 1 \in 1 .. Len(t)
    BY <1>1
  <2> QED
    BY <1>2, <2>1, <2>2, <2>3
<1> QED
  BY <1>1, <1>3 DEF t

\* A set of numbers has a least.
LEMMA LeastOf ==
  ASSUME NEW I \in SUBSET Nat, I # {}
  PROVE  \E x \in I : \A y \in I : x <= y
<1>1. PICK x \in I : \A y \in I : ~ (<<y, x>> \in OpToRel(<, Nat))
  BY NatLessThanWellFounded, WFMin
<1>2. \A y \in I : ~(y < x)
  BY <1>1 DEF OpToRel
<1> QED
  BY <1>2

\* Who leaves takes one entry off the list, and all others stay in their order.
LEMMA LeftList ==
  ASSUME NEW s \in Seq(User), NEW u \in User
  PROVE  LET t == RemoveFirst(s, u) IN
         /\ t \in Seq(User)
         /\ u \notin ToSet(s) => t = s
         /\ u \in ToSet(s) =>
              /\ Len(t) = Len(s) - 1
              /\ \E k \in 1 .. Len(s) :
                   /\ s[k] = u
                   /\ \A i \in 1 .. Len(t) : t[i] = IF i < k THEN s[i] ELSE s[i + 1]
<1> DEFINE t == RemoveFirst(s, u)
<1>1. CASE u \notin ToSet(s)
  <2>1. ~\E i \in 1 .. Len(s) : s[i] = u
    BY <1>1, ToSetOf
  <2> QED
    BY <1>1, <2>1 DEF RemoveFirst
<1>2. CASE u \in ToSet(s)
  <2> DEFINE I == {i \in 1 .. Len(s) : s[i] = u}
             k == SelectInSeq(s, LAMBDA v : v = u)
  <2>1. \E i \in 1 .. Len(s) : s[i] = u
    BY <1>2 DEF ToSet
  <2>2. k = Min(I)
    BY <2>1 DEF SelectInSeq
  <2>3. Min(I) \in I
    <3>1. \E x \in I : \A y \in I : x <= y
      <4>1. I \in SUBSET Nat /\ I # {}
        BY <2>1
      <4> HIDE DEF I
      <4> QED
        BY <4>1, LeastOf
    <3> QED
      BY <3>1 DEF Min
  <2>4. k \in 1 .. Len(s) /\ s[k] = u
    BY <2>2, <2>3
  <2>5. t = RemoveAt(s, k)
    BY <2>1 DEF RemoveFirst
  <2> HIDE DEF k, t
  <2>6. t = SubSeq(s, 1, k - 1) \o SubSeq(s, k + 1, Len(s))
    BY <2>5 DEF RemoveAt
  <2>7. /\ t \in Seq(User) /\ Len(t) = Len(s) - 1
        /\ \A i \in 1 .. Len(t) : t[i] = IF i < k THEN s[i] ELSE s[i + 1]
    <3>1. /\ SubSeq(s, 1, k - 1) \in Seq(User) /\ Len(SubSeq(s, 1, k - 1)) = k - 1
          /\ \A i \in 1 .. k - 1 : SubSeq(s, 1, k - 1)[i] = s[i]
      BY <2>4
    <3>2. /\ SubSeq(s, k + 1, Len(s)) \in Seq(User)
          /\ Len(SubSeq(s, k + 1, Len(s))) = Len(s) - k
          /\ \A i \in 1 .. Len(s) - k : SubSeq(s, k + 1, Len(s))[i] = s[k + i]
      BY <2>4
    <3> DEFINE a == SubSeq(s, 1, k - 1)
               b == SubSeq(s, k + 1, Len(s))
    <3>3. a \in Seq(User) /\ b \in Seq(User) /\ t = a \o b
      BY <2>6, <3>1, <3>2
    <3> HIDE DEF a, b
    <3>4. /\ t \in Seq(User) /\ Len(t) = Len(a) + Len(b)
          /\ \A i \in 1 .. Len(t) : t[i] = IF i <= Len(a) THEN a[i] ELSE b[i - Len(a)]
      BY <3>3
    <3>5. /\ Len(a) = k - 1 /\ \A i \in 1 .. k - 1 : a[i] = s[i]
          /\ Len(b) = Len(s) - k /\ \A i \in 1 .. Len(s) - k : b[i] = s[k + i]
      BY <3>1, <3>2 DEF a, b
    <3>6. Len(t) = Len(s) - 1
      BY <2>4, <3>4, <3>5
    <3>7. ASSUME NEW i \in 1 .. Len(t)
          PROVE  t[i] = IF i < k THEN s[i] ELSE s[i + 1]
      <4>1. CASE i < k
        BY <2>4, <3>4, <3>5, <4>1
      <4>2. CASE i >= k
        <5>1. i - Len(a) \in 1 .. Len(s) - k /\ ~(i <= Len(a)) /\ k + (i - Len(a)) = i + 1
          BY <2>4, <3>5, <3>6, <4>2
        <5>2. b[i - Len(a)] = s[i + 1]
          BY <3>5, <5>1
        <5>3. t[i] = b[i - Len(a)]
          BY <3>4, <5>1
        <5>4. ~(i < k)
          BY <2>4, <4>2
        <5> QED
          BY <5>2, <5>3, <5>4
      <4> QED
        BY <2>4, <4>1, <4>2
    <3> QED
      BY <3>4, <3>6, <3>7
  <2> QED
    BY <1>2, <2>4, <2>7 DEF t
<1> QED
  BY <1>1, <1>2

\* Taking an entry off the list leaves everybody else on it.
LEMMA OthersStay ==
  ASSUME NEW s \in Seq(User), NEW u \in User
  PROVE  /\ RemoveFirst(s, u) \in Seq(User)
         /\ \A v : v # u => (v \in ToSet(RemoveFirst(s, u)) <=> v \in ToSet(s))
         /\ ToSet(RemoveFirst(s, u)) \subseteq ToSet(s)
<1> DEFINE t == RemoveFirst(s, u)
<1>1. /\ t \in Seq(User)
      /\ u \notin ToSet(s) => t = s
      /\ u \in ToSet(s) =>
           /\ Len(t) = Len(s) - 1
           /\ \E k \in 1 .. Len(s) :
                /\ s[k] = u
                /\ \A i \in 1 .. Len(t) : t[i] = IF i < k THEN s[i] ELSE s[i + 1]
  BY LeftList
<1> HIDE DEF t
<1>2. CASE u \notin ToSet(s)
  BY <1>1, <1>2 DEF t
<1>3. CASE u \in ToSet(s)
  <2>1. PICK k \in 1 .. Len(s) :
          /\ s[k] = u
          /\ \A i \in 1 .. Len(t) : t[i] = IF i < k THEN s[i] ELSE s[i + 1]
    BY <1>1, <1>3
  <2>2. Len(t) = Len(s) - 1 /\ Len(s) \in Nat
    BY <1>1, <1>3
  <2>3. ASSUME NEW v \in ToSet(t) PROVE v \in ToSet(s)
    <3>1. PICK i \in 1 .. Len(t) : t[i] = v
      BY <1>1, <2>3, ToSetOf
    <3>2. i \in 1 .. Len(s) /\ i + 1 \in 1 .. Len(s) /\ (s[i] = v \/ s[i + 1] = v)
      BY <2>1, <2>2, <3>1
    <3> QED
      BY <3>2, ToSetOf
  <2>4. ASSUME NEW v \in ToSet(s), v # u PROVE v \in ToSet(t)
    <3>1. PICK i \in 1 .. Len(s) : s[i] = v
      BY <2>4, ToSetOf
    <3>2. i # k
      BY <2>1, <2>4, <3>1
    <3>3. CASE i < k
      <4>1. i \in 1 .. Len(t) /\ t[i] = v
        BY <2>1, <2>2, <3>1, <3>3
      <4> QED
        BY <1>1, <4>1, ToSetOf
    <3>4. CASE i > k
      <4>1. i - 1 \in 1 .. Len(t) /\ ~(i - 1 < k) /\ (i - 1) + 1 = i
        BY <2>1, <2>2, <3>1, <3>4
      <4>2. t[i - 1] = v
        BY <2>1, <3>1, <4>1
      <4> QED
        BY <1>1, <4>1, <4>2, ToSetOf
    <3> QED
      BY <2>1, <3>1, <3>2, <3>3, <3>4
  <2> QED
    BY <1>1, <2>3, <2>4 DEF t
<1> QED
  BY <1>2, <1>3

LEMMA RoomOfType ==
  ASSUME TypeOK, NEW o \in 1 .. Len(rooms)
  PROVE  /\ rooms[o] \in Room /\ rooms[o].users \in Seq(User)
         /\ rooms[o].id \in Nat /\ rooms[o].admin \in User
<1>1. rooms[o] \in Room
  BY DEF TypeOK
<1> QED
  BY <1>1 DEF Room

\* One room gets another list of players.
LEMMA RoomRefilled ==
  ASSUME TypeOK, NEW o \in 1 .. Len(rooms), NEW s \in Seq(User),
         rooms' = [rooms EXCEPT ![o].users = s]
  PROVE  /\ rooms' \in Seq(Room) /\ Len(rooms') = Len(rooms)
         /\ \A p \in 1 .. Len(rooms) :
              /\ rooms'[p].users = IF p = o THEN s ELSE rooms[p].users
              /\ rooms'[p].id = rooms[p].id
              /\ rooms'[p].admin = rooms[p].admin
              /\ rooms'[p].maxUsers = rooms[p].maxUsers
<1> DEFINE r == [rooms[o] EXCEPT !.users = s]
<1>1. rooms[o] \in Room /\ rooms \in Seq(Room)
  BY RoomOfType DEF TypeOK
<1>2. /\ r \in Room /\ r.users = s /\ r.id = rooms[o].id
      /\ r.admin = rooms[o].admin /\ r.maxUsers = rooms[o].maxUsers
  BY <1>1 DEF Room
<1>3. rooms' = [rooms EXCEPT ![o] = r]
  OBVIOUS
<1> HIDE DEF r
<1>4. /\ rooms' \in Seq(Room) /\ Len(rooms') = Len(rooms)
      /\ \A p \in 1 .. Len(rooms) : rooms'[p] = IF p = o THEN r ELSE rooms[p]
  <2>1. /\ Len(rooms) \in Nat /\ DOMAIN rooms = 1 .. Len(rooms)
        /\ \A p \in 1 .. Len(rooms) : rooms[p] \in Room
    BY <1>1
  <2>2. /\ DOMAIN rooms' = 1 .. Len(rooms)
        /\ \A p \in 1 .. Len(rooms) : rooms'[p] = IF p = o THEN r ELSE rooms[p]
    BY <1>3, <2>1
  <2>3. rooms' = [p \in 1 .. Len(rooms) |-> IF p = o THEN r ELSE rooms[p]]
    BY <1>1, <1>3, <2>1
  <2>4. rooms' \in [1 .. Len(rooms) -> Room]
    BY <1>2, <2>1, <2>3
  <2> QED
    BY <2>1, <2>2, <2>4
<1> QED
  BY <1>2, <1>4

\* A room is added to those there are.
LEMMA RoomAdded ==
  ASSUME TypeOK, NEW r \in Room, rooms' = Append(rooms, r)
  PROVE  /\ rooms' \in Seq(Room) /\ Len(rooms') = Len(rooms) + 1 /\ Len(rooms) \in Nat
         /\ rooms'[Len(rooms')] = r
         /\ \A p \in 1 .. Len(rooms) : rooms'[p] = rooms[p]
BY DEF TypeOK

\* A search finds a room that is listed and was made.
LEMMA RoomFound ==
  ASSUME TypeOK, RoomsMade, NEW id, RoomById(id) # NoRoom
  PROVE  RoomById(id) \in 1 .. Len(rooms) /\ \E k \in Objects : roomsList[k] = RoomById(id)
<1> DEFINE keys == {k \in Objects : /\ roomsList[k] # NoRoom
                                    /\ rooms[roomsList[k]].id = id}
<1>1. keys # {}
  BY DEF RoomById
<1>2. \E k \in keys : \A j \in keys : k <= j
  <2>1. keys \in SUBSET Nat
    BY DEF Objects
  <2> HIDE DEF keys
  <2> QED
    BY <1>1, <2>1, LeastOf
<1>3. PICK k \in keys : RoomById(id) = roomsList[k]
  BY <1>1, <1>2 DEF RoomById
<1>4. k \in Objects /\ roomsList[k] \in Nat /\ roomsList[k] # NoRoom /\ roomsList[k] <= Len(rooms)
  BY <1>3 DEF TypeOK, RoomsMade
<1>5. Len(rooms) \in Nat
  BY DEF TypeOK
<1> QED
  BY <1>3, <1>4, <1>5 DEF NoRoom

-----------------------------------------------------------------------------
(* The invariant, step by step *)

\* How many threads have a room to make, after one thread moves
LEMMA BuildingMoves ==
  ASSUME TypeOK, NEW u \in User, NEW step \in Steps, pc' = [pc EXCEPT ![u] = step]
  PROVE  /\ Cardinality(Building) \in Nat /\ Cardinality(Building') \in Nat
         /\ pc[u] \notin {"number", "build"} /\ step \notin {"number", "build"} => Building' = Building
         /\ pc[u] \notin {"number", "build"} /\ step \in {"number", "build"}
              => Cardinality(Building') = Cardinality(Building) + 1
         /\ pc[u] \in {"number", "build"} /\ step \in {"number", "build"} => Building' = Building
         /\ pc[u] \in {"number", "build"} /\ step \notin {"number", "build"}
              => Cardinality(Building') = Cardinality(Building) - 1
<1>1. IsFiniteSet(Building)
  BY FS_Subset, LobbyAssumption DEF Building
<1>2. \A v \in User : pc'[v] = IF v = u THEN step ELSE pc[v]
  BY DEF TypeOK
<1>3. pc[u] \notin {"number", "build"} /\ step \notin {"number", "build"} => Building' = Building
  BY <1>2 DEF Building
<1>4. ASSUME pc[u] \notin {"number", "build"}, step \in {"number", "build"}
      PROVE  Building' = Building \cup {u} /\ u \notin Building
  BY <1>2, <1>4 DEF Building
<1>5. ASSUME pc[u] \in {"number", "build"}, step \notin {"number", "build"}
      PROVE  Building' = Building \ {u} /\ u \in Building
  BY <1>2, <1>5 DEF Building
<1>6. ASSUME pc[u] \in {"number", "build"}, step \in {"number", "build"} PROVE Building' = Building
  BY <1>2, <1>6 DEF Building
<1> DEFINE B == Building
           C == Building'
<1>7. /\ C = B \/ C = B \cup {u} \/ C = B \ {u}
      /\ IsFiniteSet(B)
  BY <1>1, <1>3, <1>4, <1>5, <1>6
<1> HIDE DEF B, C
<1>8. IsFiniteSet(C) /\ Cardinality(B) \in Nat
  <2>1. IsFiniteSet(B \cup {u}) /\ IsFiniteSet(B \ {u})
    BY <1>7, FS_AddElement, FS_RemoveElement
  <2>2. Cardinality(B) \in Nat
    BY <1>7, FS_CardinalityType
  <2> QED
    BY <1>7, <2>1, <2>2
<1>9. Cardinality(C) \in Nat
  BY <1>8, FS_CardinalityType
<1>10. C = B \cup {u} /\ u \notin B => Cardinality(C) = Cardinality(B) + 1
  BY <1>7, FS_AddElement
<1>11. C = B \ {u} /\ u \in B => Cardinality(C) = Cardinality(B) - 1
  BY <1>7, FS_RemoveElement
<1> QED
  BY <1>3, <1>4, <1>5, <1>6, <1>8, <1>9, <1>10, <1>11 DEF B, C

LEMMA InitSeat == Init => SeatInv
<1> SUFFICES ASSUME Init PROVE SeatInv
  OBVIOUS
<1> USE LobbyAssumption DEF Init
<1>1. TypeOK
  BY DEF TypeOK, Steps, Pages, News, NoRoom, Objects
<1>2. RoomsMade
  BY DEF RoomsMade, NoRoom, Objects
<1>3. NumbersDrawn
  <2>1. Building = {}
    BY DEF Building
  <2>2. Cardinality(Building) = 0
    BY <2>1, FS_EmptySet
  <2> QED
    BY <2>2 DEF NumbersDrawn
<1>4. OnTheList /\ CountedWhereSeated
  BY DEF OnTheList, CountedWhereSeated
<1> QED
  BY <1>1, <1>2, <1>3, <1>4 DEF SeatInv

\* A thread moves among rooms that stay as they are.
LEMMA ThreadMoves ==
  ASSUME SeatInv, NEW u \in User, NEW step \in Steps,
         pc' = [pc EXCEPT ![u] = step],
         pc[u] \notin {"number", "build"}, step \notin {"number", "build"},
         rooms' = rooms
  PROVE  NumbersDrawn'
BY BuildingMoves DEF SeatInv, NumbersDrawn

LEMMA CreateRoomKeeps ==
  ASSUME SeatInv, NEW u \in User, CreateRoom(u)
  PROVE  SeatInv'
<1> USE DEF SeatInv, CreateRoom, Request, Goto, registry, users, clients, history
<1>1. pc' = [pc EXCEPT ![u] = "number"] /\ pc[u] = "idle"
  OBVIOUS
<1>2. TypeOK'
  BY <1>1, LobbyAssumption DEF TypeOK, Steps
<1>3. RoomsMade'
  BY <1>1 DEF RoomsMade, TypeOK
<1>4. NumbersDrawn'
  <2>1. Cardinality(Building') = Cardinality(Building) + 1 /\ Cardinality(Building) \in Nat
    BY <1>1, BuildingMoves DEF Steps
  <2>2. Len(rooms) + Cardinality(Building) < MaxRooms /\ Len(rooms) \in Nat /\ MaxRooms \in Nat
    BY LobbyAssumption DEF TypeOK, Building
  <2> QED
    BY <2>1, <2>2 DEF NumbersDrawn
<1>5. OnTheList'
  BY <1>1 DEF OnTheList, TypeOK
<1>6. CountedWhereSeated'
  BY DEF CountedWhereSeated
<1> QED
  BY <1>2, <1>3, <1>4, <1>5, <1>6

LEMMA NumberRoomKeeps ==
  ASSUME SeatInv, SeenBelow, NEW u \in User, NumberRoom(u)
  PROVE  SeatInv'
<1> USE DEF SeatInv, NumberRoom, Goto, users, clients, history
<1>1. pc' = [pc EXCEPT ![u] = "build"] /\ pc[u] = "number"
  OBVIOUS
<1>2. TypeOK'
  <2>1. seen[u] < MaxRooms /\ seen[u] \in Nat /\ MaxRooms \in Nat
    BY LobbyAssumption DEF SeenBelow, TypeOK
  <2>2. roomIdSequence' \in 0 .. MaxRooms
    BY <2>1 DEF NextId
  <2> QED
    BY <1>1, <2>2 DEF TypeOK, Steps
<1>3. RoomsMade'
  BY <1>1 DEF RoomsMade, TypeOK
<1>4. NumbersDrawn'
  <2>1. Building' = Building
    BY <1>1, BuildingMoves DEF Steps
  <2> QED
    BY <2>1 DEF NumbersDrawn
<1>5. OnTheList'
  BY <1>1 DEF OnTheList, TypeOK
<1>6. CountedWhereSeated'
  BY DEF CountedWhereSeated
<1> QED
  BY <1>2, <1>3, <1>4, <1>5, <1>6

\* Pointers to rooms that are taken away leave the others.
LEMMA PointersTaken ==
  ASSUME currRoom \in [User -> Nat], NEW S,
         currRoom' = [v \in User |-> IF v \in S THEN NoRoom ELSE currRoom[v]]
  PROVE  /\ currRoom' \in [User -> Nat]
         /\ \A v \in User : currRoom'[v] \in {currRoom[v], NoRoom}
BY DEF NoRoom

LEMMA PointerTaken ==
  ASSUME currRoom \in [User -> Nat], NEW u \in User,
         currRoom' = [currRoom EXCEPT ![u] = NoRoom]
  PROVE  /\ currRoom' \in [User -> Nat] /\ currRoom'[u] = NoRoom
         /\ \A v \in User : currRoom'[v] \in {currRoom[v], NoRoom}
BY DEF NoRoom

LEMMA BuildRoomKeeps ==
  ASSUME SeatInv, NEW u \in User, BuildRoom(u)
  PROVE  SeatInv'
<1> USE DEF SeatInv
<1>1. CASE currRoom[u] # NoRoom
  <2>1. /\ pc' = [pc EXCEPT ![u] = "idle"] /\ pc[u] = "build"
        /\ UNCHANGED <<roomIdSequence, rooms, roomsList, currRoom, inGame, target, seen, players,
                       page, news, gone, crashedBy, takenBy>>
    BY <1>1 DEF BuildRoom, Goto, clients, history
  <2>2. TypeOK'
    BY <2>1 DEF TypeOK, Steps
  <2>3. RoomsMade'
    BY <2>1 DEF RoomsMade, TypeOK
  <2>4. NumbersDrawn'
    <3>1. Cardinality(Building') = Cardinality(Building) - 1 /\ Cardinality(Building) \in Nat
      BY <2>1, BuildingMoves DEF Steps
    <3>2. Len(rooms) \in Nat /\ rooms' = rooms
      BY <2>1 DEF TypeOK
    <3> QED
      BY <3>1, <3>2, LobbyAssumption DEF NumbersDrawn
  <2>5. OnTheList'
    BY <2>1 DEF OnTheList, TypeOK
  <2>6. CountedWhereSeated'
    BY <2>1 DEF CountedWhereSeated
  <2> QED
    BY <2>2, <2>3, <2>4, <2>5, <2>6
<1>2. CASE currRoom[u] = NoRoom
  <2> DEFINE L == Len(rooms)
  <2>1. PICK m \in MaxUsersOf :
          rooms' = Append(rooms, [id |-> roomIdSequence, admin |-> u,
                                  maxUsers |-> m, users |-> <<u>>])
    BY <1>2 DEF BuildRoom
  <2> DEFINE r == [id |-> roomIdSequence, admin |-> u, maxUsers |-> m, users |-> <<u>>]
  <2>2. r \in Room /\ r.users \in Seq(User) /\ r.users = <<u>>
    BY LobbyAssumption DEF Room, TypeOK
  <2>3. rooms' = Append(rooms, r)
    BY <2>1
  <2> HIDE DEF r
  <2>4. /\ rooms' \in Seq(Room) /\ Len(rooms') = L + 1 /\ L \in Nat
        /\ rooms'[L + 1] = r /\ \A p \in 1 .. L : rooms'[p] = rooms[p]
    BY <2>2, <2>3, RoomAdded
  <2> HIDE DEF L
  <2>5. /\ currRoom' = [currRoom EXCEPT ![u] = L + 1]
        /\ target' = [target EXCEPT ![u] = L + 1]
        /\ pc' = [pc EXCEPT ![u] = "register"] /\ pc[u] = "build"
        /\ takenBy' = [takenBy EXCEPT ![u] = NoRoom]
        /\ UNCHANGED <<roomIdSequence, roomsList, inGame, seen, players, page, news, gone,
                       crashedBy>>
    BY <1>2, <2>4 DEF BuildRoom, Goto, clients, history
  <2>6. L + 1 <= MaxRooms
    <3>1. Cardinality(Building') = Cardinality(Building) - 1
          /\ Cardinality(Building) \in Nat /\ Cardinality(Building') \in Nat
      BY <2>5, BuildingMoves DEF Steps
    <3>2. L + Cardinality(Building) <= MaxRooms /\ MaxRooms \in Nat
      BY LobbyAssumption DEF NumbersDrawn, L
    <3> QED
      BY <2>4, <3>1, <3>2
  <2>7. TypeOK'
    BY <2>4, <2>5, <2>6 DEF TypeOK, Steps, NoRoom
  <2>8. RoomsMade'
    BY <2>4, <2>5 DEF RoomsMade, TypeOK, L
  <2>9. NumbersDrawn'
    <3>1. Cardinality(Building') = Cardinality(Building) - 1 /\ Cardinality(Building) \in Nat
      BY <2>5, BuildingMoves DEF Steps
    <3> QED
      BY <2>4, <2>5, <3>1 DEF NumbersDrawn, TypeOK, L
  <2>10. OnTheList'
    <3> SUFFICES ASSUME NEW v \in User, pc'[v] = "setRoom"
                 PROVE  v \in ToSet(rooms'[target'[v]].users)
      BY DEF OnTheList
    <3>1. v # u /\ pc[v] = "setRoom" /\ target'[v] = target[v]
      BY <2>5 DEF TypeOK
    <3>2. target[v] \in 1 .. L /\ v \in ToSet(rooms[target[v]].users)
      BY <3>1 DEF RoomsMade, OnTheList, L
    <3> QED
      BY <2>4, <3>1, <3>2
  <2>11. CountedWhereSeated'
    <3> SUFFICES ASSUME NEW v \in User, v \notin gone', currRoom'[v] # NoRoom
                 PROVE  v \in ToSet(rooms'[currRoom'[v]].users)
      BY DEF CountedWhereSeated
    <3>1. CASE v = u
      <4>1. currRoom'[v] = L + 1
        BY <2>5, <3>1 DEF TypeOK
      <4>2. u \in ToSet(<<u>>)
        BY DEF ToSet
      <4> QED
        BY <2>2, <2>4, <3>1, <4>1, <4>2
    <3>2. CASE v # u
      <4>1. currRoom'[v] = currRoom[v] /\ v \notin gone /\ currRoom[v] \in Nat
        BY <2>5, <3>2 DEF TypeOK
      <4>2. currRoom[v] \in 1 .. L
        BY <2>4, <4>1 DEF RoomsMade, L, NoRoom
      <4> QED
        BY <2>4, <4>1, <4>2 DEF CountedWhereSeated
    <3> QED
      BY <3>1, <3>2
  <2> QED
    BY <2>7, <2>8, <2>9, <2>10, <2>11
<1> QED
  BY <1>1, <1>2

\* A handler that follows a null pointer ends the server and changes nothing else.
LEMMA CrashKeeps ==
  ASSUME SeatInv, NEW u \in User, Crash(u)
  PROVE  SeatInv'
<1>1. /\ crashedBy' = {u}
      /\ UNCHANGED <<roomIdSequence, rooms, roomsList, currRoom, inGame, pc, target,
                     seen, players, takenBy, page, news, gone>>
  BY DEF Crash, registry, users, threads, clients
<1>2. TypeOK'
  BY <1>1 DEF SeatInv, TypeOK
<1>3. RoomsMade' /\ OnTheList' /\ CountedWhereSeated'
  BY <1>1 DEF SeatInv, RoomsMade, OnTheList, CountedWhereSeated
<1>4. NumbersDrawn'
  BY <1>1 DEF SeatInv, NumbersDrawn, Building
<1> QED
  BY <1>2, <1>3, <1>4 DEF SeatInv

LEMMA RegisterRoomKeeps ==
  ASSUME SeatInv, NEW u \in User, RegisterRoom(u)
  PROVE  SeatInv'
<1>1. CASE currRoom[u] = NoRoom
  <2>1. Crash(u)
    BY <1>1 DEF RegisterRoom
  <2> QED
    BY <2>1, CrashKeeps
<1>2. CASE currRoom[u] # NoRoom
  <2> USE DEF SeatInv
  <2>1. /\ pc' = [pc EXCEPT ![u] = "idle"] /\ pc[u] = "register"
        /\ page' = [page EXCEPT ![u] = "hosting"] /\ news' = [news EXCEPT ![u] = "none"]
        /\ roomsList' = [roomsList EXCEPT ![roomIdSequence] =
                            IF @ = NoRoom THEN currRoom[u] ELSE @]
        /\ UNCHANGED <<roomIdSequence, rooms, currRoom, inGame, target, seen, players, gone,
                       crashedBy, takenBy>>
    BY <1>2 DEF RegisterRoom, Goto, Show, users, history
  <2>2. TypeOK'
    BY <2>1 DEF TypeOK, Steps, Pages, News
  <2>3. RoomsMade'
    <3>1. \A k \in Objects : roomsList'[k] \in {roomsList[k], currRoom[u]}
      BY <2>1 DEF TypeOK
    <3>2. currRoom[u] <= Len(rooms)
      BY DEF RoomsMade
    <3> QED
      BY <2>1, <3>1, <3>2 DEF RoomsMade, TypeOK
  <2>4. NumbersDrawn'
    BY <2>1, ThreadMoves DEF Steps
  <2>5. OnTheList'
    BY <2>1 DEF OnTheList, TypeOK
  <2>6. CountedWhereSeated'
    BY <2>1 DEF CountedWhereSeated
  <2> QED
    BY <2>2, <2>3, <2>4, <2>5, <2>6
<1> QED
  BY <1>1, <1>2

LEMMA JoinRoomKeeps ==
  ASSUME SeatInv, NEW u \in User, JoinRoom(u)
  PROVE  SeatInv'
<1> USE DEF SeatInv, JoinRoom, Request, Goto, registry, users, clients, history
<1>1. PICK r \in 1 .. Len(rooms) : target' = [target EXCEPT ![u] = r]
  BY RoomFound
<1>2. TypeOK'
  BY <1>1 DEF TypeOK, Steps
<1>3. RoomsMade'
  BY <1>1 DEF RoomsMade, TypeOK
<1>4. NumbersDrawn'
  BY ThreadMoves DEF Steps
<1>5. OnTheList'
  BY <1>1 DEF OnTheList, TypeOK
<1>6. CountedWhereSeated'
  BY DEF CountedWhereSeated
<1> QED
  BY <1>2, <1>3, <1>4, <1>5, <1>6

LEMMA EnterRoomKeeps ==
  ASSUME SeatInv, NEW u \in User, EnterRoom(u)
  PROVE  SeatInv'
<1> USE DEF SeatInv
<1>1. CASE inGame[u]
  <2>1. /\ pc' = [pc EXCEPT ![u] = "idle"] /\ page' = [page EXCEPT ![u] = "waiting"]
        /\ pc[u] = "enter"
        /\ UNCHANGED <<roomIdSequence, rooms, roomsList, currRoom, inGame, target, seen, players,
                       news, gone, crashedBy, takenBy>>
    BY <1>1 DEF EnterRoom, Goto, Show, users, history
  <2>2. TypeOK'
    BY <2>1 DEF TypeOK, Steps, Pages
  <2>3. RoomsMade'
    BY <2>1 DEF RoomsMade, TypeOK
  <2>4. NumbersDrawn'
    BY <2>1, ThreadMoves DEF Steps
  <2>5. OnTheList'
    BY <2>1 DEF OnTheList, TypeOK
  <2>6. CountedWhereSeated'
    BY <2>1 DEF CountedWhereSeated
  <2> QED
    BY <2>2, <2>3, <2>4, <2>5, <2>6
<1>2. CASE ~inGame[u]
  <2>1. PICK o \in 1 .. Len(rooms) : o = target[u]
    BY DEF RoomsMade, EnterRoom
  <2>2. rooms[o].users \in Seq(User)
    BY RoomOfType
  <2>3. PICK s \in Seq(User) : /\ s = Append(rooms[o].users, u)
                               /\ ToSet(s) = ToSet(rooms[o].users) \cup {u}
    BY <2>2, JoinedList
  <2>4. rooms' = [rooms EXCEPT ![o].users = s]
    BY <1>2, <2>1, <2>3 DEF EnterRoom
  <2>5. /\ rooms' \in Seq(Room) /\ Len(rooms') = Len(rooms)
        /\ \A p \in 1 .. Len(rooms) :
             rooms'[p].users = IF p = o THEN s ELSE rooms[p].users
    BY <2>4, RoomRefilled
  <2>6. \A p \in 1 .. Len(rooms) : ToSet(rooms[p].users) \subseteq ToSet(rooms'[p].users)
    BY <2>3, <2>5
  <2>7. u \in ToSet(rooms'[o].users)
    BY <2>3, <2>5
  <2>8. PICK step \in {"idle", "setRoom"} : pc' = [pc EXCEPT ![u] = step]
    BY <1>2 DEF EnterRoom, Goto, Disconnect
  <2>9. /\ gone \subseteq gone' /\ gone' \subseteq User /\ pc[u] = "enter"
        /\ UNCHANGED <<roomIdSequence, roomsList, currRoom, inGame, target, seen, players,
                       page, news, crashedBy, takenBy>>
    BY <1>2 DEF TypeOK, EnterRoom, Goto, Disconnect, users, history
  <2>10. TypeOK'
    BY <2>5, <2>8, <2>9 DEF TypeOK, Steps
  <2>11. RoomsMade'
    BY <2>5, <2>8, <2>9 DEF RoomsMade, TypeOK
  <2>12. NumbersDrawn'
    <3>1. Building' = Building
      BY <2>8, <2>9, BuildingMoves DEF Steps
    <3> QED
      BY <2>5, <2>9, <3>1 DEF NumbersDrawn
  <2>13. OnTheList'
    <3> SUFFICES ASSUME NEW v \in User, pc'[v] = "setRoom"
                 PROVE  v \in ToSet(rooms'[target[v]].users)
      BY <2>9 DEF OnTheList
    <3>1. CASE v = u
      BY <2>1, <2>7, <3>1
    <3>2. CASE v # u
      <4>1. pc[v] = "setRoom"
        BY <2>8, <3>2 DEF TypeOK
      <4> QED
        BY <2>6, <4>1 DEF OnTheList, RoomsMade
    <3> QED
      BY <3>1, <3>2
  <2>14. CountedWhereSeated'
    <3> SUFFICES ASSUME NEW v \in User, v \notin gone, currRoom[v] # NoRoom
                 PROVE  v \in ToSet(rooms'[currRoom[v]].users)
      BY <2>9 DEF CountedWhereSeated
    <3>1. currRoom[v] \in 1 .. Len(rooms)
      BY DEF RoomsMade, TypeOK, NoRoom
    <3> QED
      BY <2>6, <3>1 DEF CountedWhereSeated
  <2> QED
    BY <2>10, <2>11, <2>12, <2>13, <2>14
<1> QED
  BY <1>1, <1>2

LEMMA SetRoomKeeps ==
  ASSUME SeatInv, NEW u \in User, SetRoom(u)
  PROVE  SeatInv'
<1> USE DEF SeatInv, SetRoom, Goto, Show, registry, history
<1>1. TypeOK'
  BY DEF TypeOK, Steps, Pages
<1>2. RoomsMade'
  BY DEF RoomsMade, TypeOK
<1>3. NumbersDrawn'
  BY ThreadMoves DEF Steps
<1>4. OnTheList'
  BY DEF OnTheList, TypeOK
<1>5. CountedWhereSeated'
  BY DEF CountedWhereSeated, OnTheList, TypeOK
<1> QED
  BY <1>1, <1>2, <1>3, <1>4, <1>5

LEMMA LeaveRoomKeeps ==
  ASSUME SeatInv, NEW u \in User, LeaveRoom(u)
  PROVE  SeatInv'
<1> USE DEF SeatInv
<1>1. CASE currRoom[u] = NoRoom
  <2>1. /\ page' = [page EXCEPT ![u] = "home"] /\ news' = [news EXCEPT ![u] = "none"]
        /\ UNCHANGED <<roomIdSequence, rooms, roomsList, currRoom, inGame, pc, target,
                       seen, players, takenBy, gone, crashedBy, takenBy>>
    BY <1>1 DEF LeaveRoom, Show, history
  <2>2. TypeOK'
    BY <2>1 DEF TypeOK, Pages, News
  <2>3. RoomsMade' /\ OnTheList' /\ CountedWhereSeated'
    BY <2>1 DEF RoomsMade, OnTheList, CountedWhereSeated
  <2>4. NumbersDrawn'
    BY <2>1 DEF NumbersDrawn, Building
  <2> QED
    BY <2>2, <2>3, <2>4
<1>2. CASE currRoom[u] # NoRoom
  <2>1. PICK o \in 1 .. Len(rooms) : o = currRoom[u]
    BY <1>2 DEF RoomsMade, TypeOK, NoRoom
  <2>2. rooms[o].users \in Seq(User)
    BY RoomOfType
  <2>3. PICK s \in Seq(User) :
          /\ s = RemoveFirst(rooms[o].users, u)
          /\ \A v : v # u => (v \in ToSet(s) <=> v \in ToSet(rooms[o].users))
    BY <2>2, OthersStay
  <2>4. rooms' = [rooms EXCEPT ![o].users = s]
    BY <1>2, <2>1, <2>3 DEF LeaveRoom, Left
  <2>5. /\ rooms' \in Seq(Room) /\ Len(rooms') = Len(rooms)
        /\ \A p \in 1 .. Len(rooms) :
             rooms'[p].users = IF p = o THEN s ELSE rooms[p].users
    BY <2>4, RoomRefilled
  <2>6. ASSUME NEW p \in 1 .. Len(rooms), NEW v \in ToSet(rooms[p].users), v # u
        PROVE  v \in ToSet(rooms'[p].users)
    BY <2>3, <2>5, <2>6
  <2>7. /\ pc' = [pc EXCEPT ![u] = "idle"]
        /\ gone \subseteq gone' /\ gone' \subseteq User /\ pc[u] = "idle"
        /\ page' = [page EXCEPT ![u] = "home"] /\ news' = [news EXCEPT ![u] = "none"]
        /\ currRoom' \in [User -> Nat]
        /\ \A v \in User : currRoom'[v] \in {currRoom[v], NoRoom}
        /\ u \in gone' \/ currRoom'[u] = NoRoom
        /\ UNCHANGED <<roomIdSequence, roomsList, inGame, target, seen, players, crashedBy, takenBy>>
    <3>1. pc[u] = "idle" /\ pc = [pc EXCEPT ![u] = "idle"]
      BY DEF LeaveRoom, Request, TypeOK
    <3>2. /\ page' = [page EXCEPT ![u] = "home"] /\ news' = [news EXCEPT ![u] = "none"]
          /\ UNCHANGED <<roomIdSequence, roomsList, inGame, target, seen, players, crashedBy, takenBy>>
      BY DEF LeaveRoom, Show, history
    <3>3. \/ Disconnect(u) /\ UNCHANGED currRoom
          \/ currRoom' = [currRoom EXCEPT ![u] = NoRoom] /\ UNCHANGED <<pc, gone>>
      BY <1>2 DEF LeaveRoom
    <3>4. /\ pc' = [pc EXCEPT ![u] = "idle"]
          /\ gone \subseteq gone' /\ gone' \subseteq User
      BY <3>1, <3>3 DEF TypeOK, Goto, Disconnect
    <3>5. /\ currRoom' \in [User -> Nat]
          /\ \A v \in User : currRoom'[v] \in {currRoom[v], NoRoom}
          /\ u \in gone' \/ currRoom'[u] = NoRoom
      <4>1. CASE Disconnect(u) /\ UNCHANGED currRoom
        BY <4>1 DEF TypeOK, Disconnect
      <4>2. CASE currRoom' = [currRoom EXCEPT ![u] = NoRoom]
        BY <4>2, PointerTaken DEF TypeOK
      <4> QED
        BY <3>3, <4>1, <4>2
    <3> QED
      BY <3>1, <3>2, <3>4, <3>5
  <2>8. TypeOK'
    BY <2>5, <2>7 DEF TypeOK, Steps, Pages, News
  <2>9. RoomsMade'
    <3>1. \A v \in User : currRoom'[v] <= Len(rooms)
      <4>1. Len(rooms) \in Nat
        BY DEF TypeOK
      <4>2. \A v \in User : currRoom'[v] \in {currRoom[v], NoRoom}
        BY <2>7
      <4> QED
        BY <4>1, <4>2 DEF RoomsMade, NoRoom
    <3>2. \A v \in User : pc'[v] = pc[v]
      BY <2>7 DEF LeaveRoom, Request, TypeOK
    <3> QED
      BY <2>5, <2>7, <3>1, <3>2 DEF RoomsMade
  <2>10. NumbersDrawn'
    <3>1. Building' = Building
      BY <2>7, BuildingMoves DEF Steps
    <3> QED
      BY <2>5, <2>7, <3>1 DEF NumbersDrawn
  <2>11. OnTheList'
    <3> SUFFICES ASSUME NEW v \in User, pc'[v] = "setRoom"
                 PROVE  v \in ToSet(rooms'[target[v]].users)
      BY <2>7 DEF OnTheList
    <3>1. v # u /\ pc[v] = "setRoom"
      BY <2>7 DEF TypeOK
    <3> QED
      BY <2>6, <3>1 DEF OnTheList, RoomsMade
  <2>12. CountedWhereSeated'
    <3> SUFFICES ASSUME NEW v \in User, v \notin gone', currRoom'[v] # NoRoom
                 PROVE  v \in ToSet(rooms'[currRoom'[v]].users)
      BY DEF CountedWhereSeated
    <3>1. v # u /\ v \notin gone /\ currRoom'[v] = currRoom[v]
      BY <2>7
    <3>2. currRoom[v] \in 1 .. Len(rooms)
      BY <3>1 DEF RoomsMade, TypeOK, NoRoom
    <3> QED
      BY <2>6, <3>1, <3>2 DEF CountedWhereSeated
  <2> QED
    BY <2>8, <2>9, <2>10, <2>11, <2>12
<1> QED
  BY <1>1, <1>2

LEMMA CloseRoomKeeps ==
  ASSUME SeatInv, NEW u \in User, CloseRoom(u)
  PROVE  SeatInv'
<1> USE DEF SeatInv
<1>1. CASE currRoom[u] = NoRoom
  <2>1. Crash(u)
    BY <1>1 DEF CloseRoom
  <2> QED
    BY <2>1, CrashKeeps
<1>2. CASE currRoom[u] # NoRoom
  <2>1. /\ pc[u] = "idle"
        /\ target' = [target EXCEPT ![u] = currRoom[u]]
        /\ players' = [players EXCEPT ![u] = {}]
        /\ page' = [page EXCEPT ![u] = "home"]
        /\ UNCHANGED <<roomIdSequence, rooms, roomsList, inGame, seen, crashedBy>>
    BY <1>2 DEF CloseRoom, Request, Show, registry
  <2>2. /\ currRoom' \in [User -> Nat]
        /\ \A v \in User : currRoom'[v] \in {currRoom[v], NoRoom}
    <3>1. currRoom' = [v \in User |-> IF v \in Reached(rooms[currRoom[u]].users)
                                       THEN NoRoom ELSE currRoom[v]]
      BY <1>2 DEF CloseRoom
    <3> QED
      BY <3>1 DEF TypeOK, NoRoom
  <2>11. takenBy' \in [User -> Nat]
    <3>1. currRoom[u] \in Nat
      BY DEF TypeOK
    <3> QED
      BY <1>2, <3>1 DEF CloseRoom, TypeOK
  <2>3. news' \in [User -> News]
    BY <1>2 DEF CloseRoom, TypeOK, News
  <2>4. PICK step \in {"idle", "unlist"} : pc' = [pc EXCEPT ![u] = step]
    BY <1>2 DEF CloseRoom, Goto, Disconnect
  <2>5. gone \subseteq gone' /\ gone' \subseteq User
    BY <1>2 DEF CloseRoom, Disconnect, TypeOK
  <2>6. TypeOK'
    BY <2>1, <2>2, <2>3, <2>4, <2>5, <2>11 DEF TypeOK, Steps, Pages
  <2>7. RoomsMade'
    <3>1. \A v \in User : currRoom'[v] <= Len(rooms)
      <4>1. Len(rooms) \in Nat
        BY DEF TypeOK
      <4> QED
        BY <2>2, <4>1 DEF RoomsMade, NoRoom
    <3>2. currRoom[u] \in 1 .. Len(rooms)
      BY <1>2 DEF RoomsMade, TypeOK, NoRoom
    <3> QED
      BY <2>1, <2>4, <3>1, <3>2 DEF RoomsMade, TypeOK
  <2>8. NumbersDrawn'
    <3>1. Building' = Building
      BY <2>1, <2>4, BuildingMoves DEF Steps
    <3> QED
      BY <2>1, <3>1 DEF NumbersDrawn
  <2>9. OnTheList'
    BY <2>1, <2>4 DEF OnTheList, TypeOK
  <2>10. CountedWhereSeated'
    BY <2>1, <2>2, <2>5 DEF CountedWhereSeated
  <2> QED
    BY <2>6, <2>7, <2>8, <2>9, <2>10
<1> QED
  BY <1>1, <1>2

LEMMA StartGameKeeps ==
  ASSUME SeatInv, NEW u \in User, StartGame(u)
  PROVE  SeatInv'
<1> USE DEF SeatInv
<1>1. CASE currRoom[u] = NoRoom
  <2>1. Crash(u)
    BY <1>1 DEF StartGame
  <2> QED
    BY <2>1, CrashKeeps
<1>2. CASE currRoom[u] # NoRoom
  <2>1. /\ pc[u] = "idle"
        /\ target' = [target EXCEPT ![u] = currRoom[u]]
        /\ players' = [players EXCEPT ![u] = ToSet(rooms[currRoom[u]].users)]
        /\ pc' = [pc EXCEPT ![u] = "unlist"]
        /\ UNCHANGED <<roomIdSequence, rooms, roomsList, seen, page, news, gone, crashedBy>>
    BY <1>2 DEF StartGame, Request, Goto, registry, clients
  <2>2. /\ currRoom' \in [User -> Nat]
        /\ \A v \in User : currRoom'[v] \in {currRoom[v], NoRoom}
    <3>1. PICK S : currRoom' = [v \in User |-> IF v \in S THEN NoRoom ELSE currRoom[v]]
      BY <1>2 DEF StartGame
    <3> QED
      BY <3>1, PointersTaken DEF TypeOK
  <2>3. inGame' \in [User -> BOOLEAN]
    BY <1>2 DEF StartGame, TypeOK
  <2>4. takenBy' \in [User -> Nat]
    <3>1. currRoom[u] \in Nat
      BY DEF TypeOK
    <3> QED
      BY <1>2, <3>1 DEF StartGame, TypeOK
  <2>5. ToSet(rooms[currRoom[u]].users) \in SUBSET User
    <3>1. currRoom[u] \in 1 .. Len(rooms)
      BY <1>2 DEF RoomsMade, TypeOK, NoRoom
    <3>2. rooms[currRoom[u]].users \in Seq(User)
      BY <3>1, RoomOfType
    <3> QED
      BY <3>2 DEF ToSet
  <2>6. TypeOK'
    BY <2>1, <2>2, <2>3, <2>4, <2>5 DEF TypeOK, Steps
  <2>7. RoomsMade'
    <3>1. \A v \in User : currRoom'[v] <= Len(rooms)
      <4>1. Len(rooms) \in Nat
        BY DEF TypeOK
      <4> QED
        BY <2>2, <4>1 DEF RoomsMade, NoRoom
    <3>2. currRoom[u] \in 1 .. Len(rooms)
      BY <1>2 DEF RoomsMade, TypeOK, NoRoom
    <3> QED
      BY <2>1, <3>1, <3>2 DEF RoomsMade, TypeOK
  <2>8. NumbersDrawn'
    <3>1. Building' = Building
      BY <2>1, BuildingMoves DEF Steps
    <3> QED
      BY <2>1, <3>1 DEF NumbersDrawn
  <2>9. OnTheList'
    BY <2>1 DEF OnTheList, TypeOK
  <2>10. CountedWhereSeated'
    BY <2>1, <2>2 DEF CountedWhereSeated
  <2> QED
    BY <2>6, <2>7, <2>8, <2>9, <2>10
<1> QED
  BY <1>1, <1>2

LEMMA UnlistKeeps ==
  ASSUME SeatInv, NEW u \in User, Unlist(u)
  PROVE  SeatInv'
<1> USE DEF SeatInv, Unlist, Goto, users, history
<1>1. TypeOK'
  BY DEF TypeOK, Steps, News, NoRoom
<1>2. RoomsMade'
  <2>1. \A k \in Objects : roomsList'[k] \in {roomsList[k], NoRoom}
    BY DEF TypeOK
  <2> QED
    BY <2>1 DEF RoomsMade, TypeOK, NoRoom
<1>3. NumbersDrawn'
  BY ThreadMoves DEF Steps
<1>4. OnTheList'
  BY DEF OnTheList, TypeOK
<1>5. CountedWhereSeated'
  BY DEF CountedWhereSeated
<1> QED
  BY <1>1, <1>2, <1>3, <1>4, <1>5

LEMMA ReadQuestionKeeps ==
  ASSUME SeatInv, NEW u \in User, ReadQuestion(u)
  PROVE  SeatInv'
<1> USE DEF SeatInv, ReadQuestion, Show, registry, users, threads, history
<1>1. TypeOK'
  BY DEF TypeOK, Pages, News
<1>2. RoomsMade' /\ OnTheList' /\ CountedWhereSeated'
  BY DEF RoomsMade, OnTheList, CountedWhereSeated
<1>3. NumbersDrawn'
  BY DEF NumbersDrawn, Building
<1> QED
  BY <1>1, <1>2, <1>3

LEMMA FinishGameKeeps ==
  ASSUME SeatInv, NEW u \in User, FinishGame(u)
  PROVE  SeatInv'
<1> USE DEF SeatInv
<1>1. /\ page' = [page EXCEPT ![u] = "home"] /\ inGame' = [inGame EXCEPT ![u] = FALSE]
      /\ UNCHANGED <<roomIdSequence, rooms, roomsList, pc, target, seen, players, news, gone,
                     crashedBy, takenBy>>
  BY DEF FinishGame, Show, registry, threads, history
<1>2. /\ currRoom' \in [User -> Nat]
      /\ \A v \in User : currRoom'[v] \in {currRoom[v], NoRoom}
  <2>1. currRoom' = currRoom \/ currRoom' = [currRoom EXCEPT ![u] = NoRoom]
    BY DEF FinishGame
  <2> QED
    BY <2>1, PointerTaken DEF TypeOK
<1>3. TypeOK'
  BY <1>1, <1>2 DEF TypeOK, Pages
<1>4. RoomsMade'
  <2>1. Len(rooms) \in Nat
    BY DEF TypeOK
  <2>2. \A v \in User : currRoom'[v] <= Len(rooms)
    BY <1>2, <2>1 DEF RoomsMade, NoRoom
  <2> QED
    BY <1>1, <2>2 DEF RoomsMade
<1>5. OnTheList' /\ CountedWhereSeated'
  BY <1>1, <1>2 DEF OnTheList, CountedWhereSeated
<1>6. NumbersDrawn'
  BY <1>1 DEF NumbersDrawn, Building
<1> QED
  BY <1>3, <1>4, <1>5, <1>6

LEMMA VanishKeeps ==
  ASSUME SeatInv, NEW u \in User, Vanish(u)
  PROVE  SeatInv'
<1> USE DEF SeatInv, Vanish, registry, users, threads, history
<1>1. TypeOK'
  BY DEF TypeOK
<1>2. RoomsMade' /\ OnTheList' /\ CountedWhereSeated'
  BY DEF RoomsMade, OnTheList, CountedWhereSeated
<1>3. NumbersDrawn'
  BY DEF NumbersDrawn, Building
<1> QED
  BY <1>1, <1>2, <1>3

LEMMA NextSeat == SeatInv /\ SeenBelow /\ [Next]_vars => SeatInv'
<1> SUFFICES ASSUME SeatInv, SeenBelow, [Next]_vars PROVE SeatInv'
  OBVIOUS
<1>1. CASE UNCHANGED vars
  BY <1>1 DEF vars, registry, users, threads, clients, history, SeatInv, TypeOK, RoomsMade,
              NumbersDrawn, Building, OnTheList, CountedWhereSeated
<1>2. ASSUME NEW u \in User,
             \/ CreateRoom(u) \/ NumberRoom(u) \/ BuildRoom(u) \/ RegisterRoom(u)
             \/ JoinRoom(u) \/ EnterRoom(u) \/ SetRoom(u)
             \/ LeaveRoom(u) \/ CloseRoom(u) \/ StartGame(u) \/ Unlist(u)
             \/ ReadQuestion(u) \/ FinishGame(u) \/ Vanish(u)
      PROVE  SeatInv'
  BY <1>2, CreateRoomKeeps, NumberRoomKeeps, BuildRoomKeeps, RegisterRoomKeeps,
     JoinRoomKeeps, EnterRoomKeeps, SetRoomKeeps, LeaveRoomKeeps, CloseRoomKeeps,
     StartGameKeeps, UnlistKeeps, ReadQuestionKeeps, FinishGameKeeps, VanishKeeps
<1> QED
  BY <1>1, <1>2 DEF Next

\* Only who begins to create a room reads the number, and then it was not the last.
LEMMA NextSeen == TypeOK /\ SeenBelow /\ [Next]_vars => SeenBelow'
<1> SUFFICES ASSUME TypeOK, SeenBelow, [Next]_vars PROVE SeenBelow'
  OBVIOUS
<1> USE DEF TypeOK, SeenBelow
<1>1. CASE UNCHANGED vars
  BY <1>1 DEF vars, threads
<1>2. ASSUME NEW u \in User, CreateRoom(u) PROVE SeenBelow'
  <2>1. /\ pc' = [pc EXCEPT ![u] = "number"] /\ seen' = [seen EXCEPT ![u] = roomIdSequence]
        /\ roomIdSequence < MaxRooms
    BY <1>2 DEF CreateRoom, Goto
  <2> QED
    BY <2>1
<1>3. ASSUME NEW u \in User, NEW step \in Steps \ {"number"},
             pc' = [pc EXCEPT ![u] = step], seen' = seen
      PROVE  SeenBelow'
  BY <1>3
<1>4. ASSUME pc' = pc, seen' = seen PROVE SeenBelow'
  BY <1>4
<1>5. ASSUME NEW u \in User, NumberRoom(u) PROVE SeenBelow'
  BY <1>3, <1>5 DEF NumberRoom, Goto, Steps
<1>6. ASSUME NEW u \in User, BuildRoom(u) PROVE SeenBelow'
  BY <1>3, <1>6 DEF BuildRoom, Goto, Steps
<1>7. ASSUME NEW u \in User, RegisterRoom(u) PROVE SeenBelow'
  BY <1>3, <1>4, <1>7 DEF RegisterRoom, Goto, Steps, Crash, threads
<1>8. ASSUME NEW u \in User, JoinRoom(u) PROVE SeenBelow'
  BY <1>3, <1>8 DEF JoinRoom, Goto, Steps
<1>9. ASSUME NEW u \in User, EnterRoom(u) PROVE SeenBelow'
  BY <1>3, <1>9 DEF EnterRoom, Goto, Disconnect, Steps
<1>10. ASSUME NEW u \in User, SetRoom(u) PROVE SeenBelow'
  BY <1>3, <1>10 DEF SetRoom, Goto, Steps
<1>11. ASSUME NEW u \in User, LeaveRoom(u) PROVE SeenBelow'
  BY <1>3, <1>4, <1>11 DEF LeaveRoom, Goto, Disconnect, Steps
<1>12. ASSUME NEW u \in User, CloseRoom(u) PROVE SeenBelow'
  BY <1>3, <1>4, <1>12 DEF CloseRoom, Goto, Disconnect, Steps, Crash, threads
<1>13. ASSUME NEW u \in User, StartGame(u) PROVE SeenBelow'
  BY <1>3, <1>4, <1>13 DEF StartGame, Goto, Steps, Crash, threads
<1>14. ASSUME NEW u \in User, Unlist(u) PROVE SeenBelow'
  BY <1>3, <1>14 DEF Unlist, Goto, Steps
<1>15. ASSUME NEW u \in User, ReadQuestion(u) \/ FinishGame(u) \/ Vanish(u) PROVE SeenBelow'
  BY <1>4, <1>15 DEF ReadQuestion, FinishGame, Vanish, threads
<1> QED
  BY <1>1, <1>2, <1>5, <1>6, <1>7, <1>8, <1>9, <1>10, <1>11, <1>12, <1>13, <1>14, <1>15
     DEF Next

LEMMA SeatAlways == Spec => [](SeatInv /\ SeenBelow)
<1>1. Init => SeenBelow
  BY DEF Init, SeenBelow
<1>2. SeatInv /\ SeenBelow /\ [Next]_vars => (SeatInv /\ SeenBelow)'
  BY NextSeat, NextSeen DEF SeatInv
<1> QED
  BY InitSeat, <1>1, <1>2, PTL DEF Spec

-----------------------------------------------------------------------------
(* What the server keeps whatever interleaves *)

\* Type correctness of the lobby: every pointer to a room, every key of the list and
\* every list of players a game copied keeps its type, for any number of users, rooms
\* and threads at work, whatever updates of the room number are lost between them
\* (TriviaServer.cpp:286).
THEOREM LobbyTyped == Spec => []TypeOK
BY SeatAlways, PTL DEF SeatInv

\* CountedWhereSeated of the server in TriviaServer.cpp, User.cpp and Room.cpp:
\* a connected user's pointer leads to a room whose list of players has the
\* user on it, though no lock is held between the two being changed.
THEOREM CountedAlways == Spec => []CountedWhereSeated
BY SeatAlways, PTL DEF SeatInv

-----------------------------------------------------------------------------
(* Who hosts, and who was left behind as a guest *)

Made == 1 .. Len(rooms)

\* v's client shows the page of a host, or is about to.
Hosting(v) == page[v] = "hosting" \/ pc[v] = "register"

\* u's thread is about to follow its pointer, or u's client may ask for that.
Asking(u) == \/ pc[u] = "register"
             \/ page[u] = "hosting" /\ pc[u] = "idle" /\ news[u] = "none" /\ u \notin gone

\* A host's room is its own.
HostsItsOwn(u) == Hosting(u) /\ currRoom[u] # NoRoom => rooms[currRoom[u]].admin = u

\* A thread that takes a room off the list either goes home with its client, or has
\* the first question for it.
Unlisting(u) ==
  pc[u] = "unlist" => (players[u] = {} /\ page[u] = "home") \/ u \in players[u]

\* Rooms are made and joined from the first page.
MadeAtHome(u) ==
  pc[u] \in {"number", "build", "register", "enter", "setRoom"} => page[u] = "home"

\* A host that may ask has its room, or was on the list of another's that ended.
HostSeated(u) ==
  u \notin Hasty /\ Asking(u) => currRoom[u] # NoRoom \/ Guest(u, takenBy[u])

HostOK(u) == HostsItsOwn(u) /\ Unlisting(u) /\ MadeAtHome(u) /\ HostSeated(u)

\* The inductive invariant of the hosts
HostInv == SeatInv /\ SeenBelow /\ (\A u \in User : HostOK(u)) /\ ServerUp

\* Rooms keep who opened them.
RoomsStand ==
  \A o \in Made : o \in DOMAIN rooms' /\ rooms'[o].admin = rooms[o].admin

\* A step in which u takes no part: nothing of u's changes but its news and its
\* pointer, and who is on the list of a room stays on it.
Still(u) ==
  /\ page'[u] = page[u] /\ pc'[u] = pc[u] /\ players'[u] = players[u]
  /\ news'[u] = "none" => news[u] = "none"
  /\ \A o \in Made : Guest(u, o) => Guest(u, o)'
  /\ \/ currRoom'[u] = currRoom[u] /\ takenBy'[u] = takenBy[u]
     \/ /\ currRoom'[u] = NoRoom
        /\ Hosting(u) => \E o \in Made : takenBy'[u] = o /\ Guest(u, o)'

LEMMA StillHost ==
  ASSUME SeatInv, NEW u \in User, HostOK(u), RoomsStand, Still(u), gone \subseteq gone'
  PROVE  HostOK(u)'
<1>1. HostsItsOwn(u)'
  <2>1. CASE currRoom'[u] = NoRoom
    BY <2>1 DEF HostsItsOwn
  <2>2. CASE currRoom'[u] = currRoom[u] /\ currRoom[u] # NoRoom
    <3>1. currRoom[u] \in Made
      BY <2>2 DEF SeatInv, TypeOK, RoomsMade, Made, NoRoom
    <3> QED
      BY <2>2, <3>1 DEF HostOK, HostsItsOwn, Hosting, RoomsStand, Still
  <2> QED
    BY <2>1, <2>2 DEF Still
<1>2. Unlisting(u)' /\ MadeAtHome(u)'
  BY DEF HostOK, Unlisting, MadeAtHome, Still
<1>3. HostSeated(u)'
  <2> SUFFICES ASSUME u \notin Hasty, Asking(u)', currRoom'[u] = NoRoom
               PROVE  Guest(u, takenBy[u])'
    BY DEF HostSeated
  <2>1. Asking(u) /\ Hosting(u)
    BY DEF Asking, Hosting, Still
  <2>2. CASE \E o \in Made : takenBy'[u] = o /\ Guest(u, o)'
    BY <2>2
  <2>3. CASE currRoom'[u] = currRoom[u] /\ takenBy'[u] = takenBy[u]
    <3>1. Guest(u, takenBy[u])
      BY <2>1, <2>3 DEF HostOK, HostSeated
    <3>2. takenBy[u] \in Made
      BY <3>1 DEF Guest, Made, SeatInv, TypeOK
    <3>3. PICK o \in Made : o = takenBy[u]
      BY <3>2
    <3>4. Guest(u, o)'
      BY <3>1, <3>3 DEF Still
    <3>5. takenBy'[u] = o
      BY <2>3, <3>3
    <3> QED
      BY <3>4, <3>5
  <2> QED
    BY <2>1, <2>2, <2>3 DEF Still
<1> QED
  BY <1>1, <1>2, <1>3 DEF HostOK

\* The lists of players only grow.
LEMMA RoomsUntouched ==
  ASSUME SeatInv, rooms' = rooms
  PROVE  RoomsStand /\ \A v \in User : \A o \in Made : Guest(v, o) => Guest(v, o)'
BY DEF RoomsStand, Made, Guest, SeatInv, TypeOK

\* One list changes, and keeps the others that were on it.
LEMMA OneListChanges ==
  ASSUME SeatInv, NEW o \in Made, NEW s \in Seq(User), NEW u \in User,
         rooms' = [rooms EXCEPT ![o].users = s],
         \A v \in User : v # u /\ v \in ToSet(rooms[o].users) => v \in ToSet(s)
  PROVE  /\ RoomsStand
         /\ \A v \in User \ {u} : \A p \in Made : Guest(v, p) => Guest(v, p)'
<1>1. /\ rooms' \in Seq(Room) /\ Len(rooms') = Len(rooms)
      /\ \A p \in 1 .. Len(rooms) :
           /\ rooms'[p].users = IF p = o THEN s ELSE rooms[p].users
           /\ rooms'[p].admin = rooms[p].admin
  BY RoomRefilled DEF SeatInv, Made
<1>2. DOMAIN rooms' = Made
  BY <1>1 DEF Made
<1> QED
  BY <1>1, <1>2 DEF RoomsStand, Made, Guest

\* Together: everyone else stays where it was, and the one who moves is as it must be.
LEMMA HostsMove ==
  ASSUME HostInv, SeatInv', SeenBelow', up, RoomsStand, NEW u \in User,
         \A v \in User \ {u} : Still(v),
         HostOK(u)', gone \subseteq gone', crashedBy' = crashedBy
  PROVE  HostInv'
<1>1. ASSUME NEW v \in User PROVE HostOK(v)'
  BY StillHost DEF HostInv
<1>2. ServerUp'
  BY DEF ServerUp, up
<1> QED
  BY <1>1, <1>2 DEF HostInv

-----------------------------------------------------------------------------
(* The invariant of the hosts, step by step *)

LEMMA InitHosts == Init => HostInv
<1> SUFFICES ASSUME Init PROVE HostInv
  OBVIOUS
<1>1. SeatInv
  BY InitSeat
<1>2. SeenBelow /\ ServerUp
  BY DEF Init, SeenBelow, ServerUp
<1>3. ASSUME NEW u \in User PROVE HostOK(u)
  BY DEF Init, HostOK, HostsItsOwn, Hosting, Unlisting, MadeAtHome, HostSeated, Asking
<1> QED
  BY <1>1, <1>2, <1>3 DEF HostInv

\* The thread of u goes on to another step; its client and its pointer stay.
LEMMA HostThread ==
  ASSUME HostInv, SeatInv', SeenBelow', NEW u \in User, up,
         NEW step \in {"idle", "number", "build", "enter"},
         pc' = [pc EXCEPT ![u] = step], page[u] = "home",
         UNCHANGED <<rooms, currRoom, players, page, news, gone, crashedBy, takenBy>>
  PROVE  HostInv'
<1>1. RoomsStand /\ \A v \in User : \A o \in Made : Guest(v, o) => Guest(v, o)'
  BY RoomsUntouched DEF HostInv
<1>2. \A v \in User \ {u} : Still(v)
  BY <1>1 DEF Still, HostInv, SeatInv, TypeOK
<1>3. pc'[u] = step /\ page'[u] = "home"
  BY DEF HostInv, SeatInv, TypeOK
<1>4. HostOK(u)'
  BY <1>3 DEF HostOK, HostsItsOwn, Hosting, Unlisting, MadeAtHome, HostSeated, Asking
<1> QED
  BY <1>1, <1>2, <1>4, HostsMove

LEMMA CreateRoomHosts ==
  ASSUME HostInv, SeatInv', SeenBelow', NEW u \in User, CreateRoom(u)
  PROVE  HostInv'
BY HostThread DEF CreateRoom, Request, Goto, registry, users, clients, history

LEMMA NumberRoomHosts ==
  ASSUME HostInv, SeatInv', SeenBelow', NEW u \in User, NumberRoom(u)
  PROVE  HostInv'
<1>1. page[u] = "home"
  BY DEF NumberRoom, HostInv, HostOK, MadeAtHome
<1> QED
  BY <1>1, HostThread DEF NumberRoom, Goto, users, clients, history

LEMMA JoinRoomHosts ==
  ASSUME HostInv, SeatInv', SeenBelow', NEW u \in User, JoinRoom(u)
  PROVE  HostInv'
BY HostThread DEF JoinRoom, Request, Goto, registry, users, clients, history

LEMMA BuildRoomHosts ==
  ASSUME HostInv, SeatInv', SeenBelow', NEW u \in User, BuildRoom(u)
  PROVE  HostInv'
<1>1. page[u] = "home" /\ up /\ pc[u] = "build"
  BY DEF BuildRoom, HostInv, HostOK, MadeAtHome
<1>2. CASE currRoom[u] # NoRoom
  BY <1>1, <1>2, HostThread DEF BuildRoom, Goto, clients
<1>3. CASE currRoom[u] = NoRoom
  <2>1. PICK m \in MaxUsersOf :
          rooms' = Append(rooms, [id |-> roomIdSequence, admin |-> u,
                                  maxUsers |-> m, users |-> <<u>>])
    BY <1>3 DEF BuildRoom
  <2> DEFINE r == [id |-> roomIdSequence, admin |-> u, maxUsers |-> m, users |-> <<u>>]
  <2>2. r \in Room /\ r.admin = u
    BY LobbyAssumption DEF Room, HostInv, SeatInv, TypeOK
  <2>3. rooms' = Append(rooms, r)
    BY <2>1
  <2> HIDE DEF r
  <2>4. /\ rooms' \in Seq(Room) /\ Len(rooms') = Len(rooms) + 1 /\ Len(rooms) \in Nat
        /\ rooms'[Len(rooms')] = r /\ \A p \in 1 .. Len(rooms) : rooms'[p] = rooms[p]
    BY <2>2, <2>3, RoomAdded DEF HostInv, SeatInv
  <2>5. /\ currRoom' = [currRoom EXCEPT ![u] = Len(rooms')]
        /\ takenBy' = [takenBy EXCEPT ![u] = NoRoom]
        /\ pc' = [pc EXCEPT ![u] = "register"]
        /\ UNCHANGED <<players, page, news, gone, crashedBy>>
    BY <1>3 DEF BuildRoom, Goto, clients
  <2>6. \A p \in Made : p \in DOMAIN rooms' /\ p \in DOMAIN rooms /\ rooms'[p] = rooms[p]
    BY <2>4 DEF Made, HostInv, SeatInv, TypeOK
  <2>7. RoomsStand /\ \A v \in User : \A o \in Made : Guest(v, o) => Guest(v, o)'
    BY <2>6 DEF RoomsStand, Guest
  <2>8. \A v \in User \ {u} : Still(v)
    BY <2>5, <2>7 DEF Still, HostInv, SeatInv, TypeOK
  <2>9. pc'[u] = "register" /\ page'[u] = "home" /\ currRoom'[u] = Len(rooms')
    BY <1>1, <2>5 DEF HostInv, SeatInv, TypeOK
  <2>10. HostOK(u)'
    <3>1. Len(rooms') # NoRoom
      BY <2>4 DEF NoRoom
    <3> QED
      BY <2>2, <2>4, <2>9, <3>1 DEF HostOK, HostsItsOwn, Unlisting, MadeAtHome, HostSeated
  <2> QED
    BY <1>1, <2>5, <2>7, <2>8, <2>10, HostsMove
<1> QED
  BY <1>2, <1>3

\* Who follows a null pointer waits for no news, or lost its room as a guest.
LEMMA CrashHosts ==
  ASSUME HostInv, SeatInv', SeenBelow', NEW u \in User, Crash(u),
         Asking(u) \/ u \in Hasty, currRoom[u] = NoRoom
  PROVE  HostInv'
<1>1. /\ crashedBy' = {u}
      /\ UNCHANGED <<rooms, currRoom, pc, players, page, news, gone, takenBy>>
  BY DEF Crash, registry, users, threads, clients
<1>2. u \notin Hasty => Guest(u, takenBy[u])
  BY DEF HostInv, HostOK, HostSeated
<1>3. ServerUp'
  BY <1>1, <1>2 DEF ServerUp, Guest
<1>4. ASSUME NEW v \in User PROVE HostOK(v)'
  BY <1>1 DEF HostInv, HostOK, HostsItsOwn, Hosting, Unlisting, MadeAtHome, HostSeated, Asking, Guest
<1> QED
  BY <1>3, <1>4 DEF HostInv

LEMMA RegisterRoomHosts ==
  ASSUME HostInv, SeatInv', SeenBelow', NEW u \in User, RegisterRoom(u)
  PROVE  HostInv'
<1>1. up /\ pc[u] = "register"
  BY DEF RegisterRoom
<1>2. CASE currRoom[u] = NoRoom /\ Crash(u)
  BY <1>1, <1>2, CrashHosts DEF Asking
<1>3. CASE currRoom[u] # NoRoom
  <2>1. /\ pc' = [pc EXCEPT ![u] = "idle"] /\ page' = [page EXCEPT ![u] = "hosting"]
        /\ news' = [news EXCEPT ![u] = "none"]
        /\ UNCHANGED <<rooms, currRoom, players, gone, crashedBy, takenBy>>
    BY <1>3 DEF RegisterRoom, Goto, Show, users, history
  <2>2. RoomsStand /\ \A v \in User : \A o \in Made : Guest(v, o) => Guest(v, o)'
    BY <2>1, RoomsUntouched DEF HostInv
  <2>3. \A v \in User \ {u} : Still(v)
    BY <2>1, <2>2 DEF Still, HostInv, SeatInv, TypeOK
  <2>4. HostOK(u)'
    <3>1. pc'[u] = "idle" /\ currRoom'[u] # NoRoom
      BY <1>3, <2>1 DEF HostInv, SeatInv, TypeOK
    <3>2. rooms'[currRoom'[u]].admin = u
      BY <1>1, <1>3, <2>1 DEF HostInv, HostOK, HostsItsOwn, Hosting
    <3> QED
      BY <3>1, <3>2 DEF HostOK, HostsItsOwn, Unlisting, MadeAtHome, HostSeated
  <2> QED
    BY <1>1, <2>1, <2>2, <2>3, <2>4, HostsMove
<1> QED
  BY <1>2, <1>3 DEF RegisterRoom

LEMMA EnterRoomHosts ==
  ASSUME HostInv, SeatInv', SeenBelow', NEW u \in User, EnterRoom(u)
  PROVE  HostInv'
<1> DEFINE o == target[u]
           joined == Append(rooms[o].users, u)
<1>1. /\ up /\ pc[u] = "enter" /\ page[u] = "home"
      /\ UNCHANGED <<currRoom, takenBy, players, news, crashedBy>>
  BY DEF EnterRoom, users, history, HostInv, HostOK, MadeAtHome
<1>2. o \in Made
  BY <1>1 DEF HostInv, SeatInv, RoomsMade, Made
<1>3. rooms[o].users \in Seq(User)
  BY <1>2, RoomOfType DEF HostInv, SeatInv, Made
<1>4. joined \in Seq(User) /\ ToSet(joined) = ToSet(rooms[o].users) \cup {u}
  BY <1>3, JoinedList
<1>5. RoomsStand /\ \A v \in User \ {u} : \A p \in Made : Guest(v, p) => Guest(v, p)'
  <2>1. rooms' = rooms \/ rooms' = [rooms EXCEPT ![o].users = joined]
    BY DEF EnterRoom
  <2> HIDE DEF joined, o
  <2> QED
    BY <1>2, <1>4, <2>1, RoomsUntouched, OneListChanges DEF HostInv
<1>6. /\ gone \subseteq gone'
      /\ \/ pc' = [pc EXCEPT ![u] = "idle"] /\ page' = [page EXCEPT ![u] = "waiting"]
         \/ pc' = [pc EXCEPT ![u] = "idle"] /\ page' = page
         \/ pc' = [pc EXCEPT ![u] = "setRoom"] /\ page' = page
  BY DEF EnterRoom, Goto, Show, Disconnect
<1>7. \A v \in User \ {u} : Still(v)
  BY <1>1, <1>5, <1>6 DEF Still, HostInv, SeatInv, TypeOK
<1>8. HostOK(u)'
  <2>1. pc'[u] \in {"idle", "setRoom"} /\ page'[u] \in {"home", "waiting"}
        /\ (pc'[u] = "setRoom" => page'[u] = "home")
    BY <1>1, <1>6 DEF HostInv, SeatInv, TypeOK
  <2> QED
    BY <2>1 DEF HostOK, HostsItsOwn, Hosting, Unlisting, MadeAtHome, HostSeated, Asking
<1> QED
  BY <1>1, <1>5, <1>6, <1>7, <1>8, HostsMove

LEMMA SetRoomHosts ==
  ASSUME HostInv, SeatInv', SeenBelow', NEW u \in User, SetRoom(u)
  PROVE  HostInv'
<1>1. /\ up /\ pc' = [pc EXCEPT ![u] = "idle"] /\ page' = [page EXCEPT ![u] = "waiting"]
      /\ currRoom' = [currRoom EXCEPT ![u] = target[u]]
      /\ UNCHANGED <<rooms, takenBy, players, news, gone, crashedBy>>
  BY DEF SetRoom, Goto, Show, registry, history
<1>2. RoomsStand /\ \A v \in User : \A o \in Made : Guest(v, o) => Guest(v, o)'
  BY <1>1, RoomsUntouched DEF HostInv
<1>3. \A v \in User \ {u} : Still(v)
  BY <1>1, <1>2 DEF Still, HostInv, SeatInv, TypeOK
<1>4. pc'[u] = "idle" /\ page'[u] = "waiting"
  BY <1>1 DEF HostInv, SeatInv, TypeOK
<1>5. HostOK(u)'
  BY <1>4 DEF HostOK, HostsItsOwn, Hosting, Unlisting, MadeAtHome, HostSeated, Asking
<1> QED
  BY <1>1, <1>2, <1>3, <1>5, HostsMove

LEMMA LeaveRoomHosts ==
  ASSUME HostInv, SeatInv', SeenBelow', NEW u \in User, LeaveRoom(u)
  PROVE  HostInv'
<1> DEFINE o == currRoom[u]
           left == RemoveFirst(rooms[o].users, u)
<1>1. /\ up /\ pc[u] = "idle" /\ page' = [page EXCEPT ![u] = "home"]
      /\ news' = [news EXCEPT ![u] = "none"]
      /\ UNCHANGED <<takenBy, players, crashedBy>>
  BY DEF LeaveRoom, Request, Show, history
<1>2. RoomsStand /\ \A v \in User \ {u} : \A p \in Made : Guest(v, p) => Guest(v, p)'
  <2>1. CASE o = NoRoom
    BY <2>1, RoomsUntouched DEF LeaveRoom, HostInv
  <2>2. CASE o # NoRoom
    <3>1. o \in Made
      BY <2>2 DEF HostInv, SeatInv, TypeOK, RoomsMade, Made, NoRoom
    <3>2. rooms[o].users \in Seq(User)
      BY <3>1, RoomOfType DEF HostInv, SeatInv, Made
    <3>3. /\ left \in Seq(User)
          /\ \A v \in User : v # u /\ v \in ToSet(rooms[o].users) => v \in ToSet(left)
      BY <3>2, OthersStay
    <3>4. rooms' = [rooms EXCEPT ![o].users = left]
      BY <2>2 DEF LeaveRoom, Left
    <3> HIDE DEF left, o
    <3> QED
      BY <3>1, <3>3, <3>4, OneListChanges DEF HostInv
  <2> QED
    BY <2>1, <2>2
<1>3. /\ gone \subseteq gone'
      /\ pc' = pc \/ pc' = [pc EXCEPT ![u] = "idle"]
      /\ currRoom' = currRoom \/ currRoom' = [currRoom EXCEPT ![u] = NoRoom]
  BY DEF LeaveRoom, Goto, Disconnect
<1>4. \A v \in User \ {u} : Still(v)
  BY <1>1, <1>2, <1>3 DEF Still, HostInv, SeatInv, TypeOK
<1>5. HostOK(u)'
  <2>1. pc'[u] = "idle" /\ page'[u] = "home"
    BY <1>1, <1>3 DEF HostInv, SeatInv, TypeOK
  <2> QED
    BY <2>1 DEF HostOK, HostsItsOwn, Hosting, Unlisting, MadeAtHome, HostSeated, Asking
<1> QED
  BY <1>1, <1>2, <1>3, <1>4, <1>5, HostsMove

\* The room of u ends, and takes the pointers of the users in S along.
LEMMA OthersOfEndedRoom ==
  ASSUME HostInv, NEW u \in User, Hosting(u), currRoom[u] # NoRoom,
         NEW S, S \subseteq ToSet(rooms[currRoom[u]].users),
         currRoom' = [v \in User |-> IF v \in S THEN NoRoom ELSE currRoom[v]],
         takenBy' = [v \in User |-> IF v \in S THEN currRoom[u] ELSE takenBy[v]],
         rooms' = rooms,
         \A v \in User \ {u} : /\ page'[v] = page[v] /\ pc'[v] = pc[v]
                               /\ players'[v] = players[v]
                               /\ news'[v] = "none" => news[v] = "none"
  PROVE  RoomsStand /\ \A v \in User \ {u} : Still(v)
<1>1. RoomsStand /\ \A v \in User : \A o \in Made : Guest(v, o) => Guest(v, o)'
  BY RoomsUntouched DEF HostInv
<1>2. currRoom[u] \in Made /\ rooms[currRoom[u]].admin = u
  BY DEF HostInv, HostOK, HostsItsOwn, SeatInv, TypeOK, RoomsMade, Made, NoRoom
<1>3. ASSUME NEW v \in User \ {u} PROVE Still(v)
  <2>1. CASE v \notin S
    BY <1>1, <2>1 DEF Still
  <2>2. CASE v \in S
    <3>1. PICK o \in Made : o = currRoom[u]
      BY <1>2
    <3>2. Guest(v, o)
      BY <1>2, <2>2, <3>1 DEF Guest, Made, HostInv, SeatInv, TypeOK
    <3>3. Guest(v, o)'
      BY <1>1, <3>2
    <3>4. currRoom'[v] = NoRoom /\ takenBy'[v] = o
      BY <2>2, <3>1
    <3> QED
      BY <1>1, <3>3, <3>4 DEF Still
  <2> QED
    BY <2>1, <2>2
<1> QED
  BY <1>1, <1>3

LEMMA CloseRoomHosts ==
  ASSUME HostInv, SeatInv', SeenBelow', NEW u \in User, CloseRoom(u)
  PROVE  HostInv'
<1>1. /\ up /\ page[u] = "hosting" /\ pc[u] = "idle" /\ u \notin gone
      /\ u \in Hasty \/ news[u] = "none"
  BY DEF CloseRoom, Request, Informed
<1>2. CASE currRoom[u] = NoRoom
  <2>1. Crash(u)
    BY <1>2 DEF CloseRoom
  <2>2. Asking(u) \/ u \in Hasty
    BY <1>1 DEF Asking
  <2> QED
    BY <1>2, <2>1, <2>2, CrashHosts
<1>3. CASE currRoom[u] # NoRoom
  <2> DEFINE told == Reached(rooms[currRoom[u]].users)
  <2>1. /\ currRoom' = [v \in User |-> IF v \in told THEN NoRoom ELSE currRoom[v]]
        /\ takenBy' = [v \in User |-> IF v \in told THEN currRoom[u] ELSE takenBy[v]]
        /\ news' = [v \in User |-> IF v \in told \ {u} THEN "closed" ELSE news[v]]
        /\ page' = [page EXCEPT ![u] = "home"]
        /\ players' = [players EXCEPT ![u] = {}]
        /\ rooms' = rooms /\ crashedBy' = crashedBy
    BY <1>3 DEF CloseRoom, Show, registry
  <2>2. /\ gone \subseteq gone'
        /\ pc' = [pc EXCEPT ![u] = "idle"] \/ pc' = [pc EXCEPT ![u] = "unlist"]
    BY <1>3 DEF CloseRoom, Goto, Disconnect
  <2>3. told \subseteq ToSet(rooms[currRoom[u]].users)
    BY DEF Reached, ToSet
  <2> HIDE DEF told
  <2>4. /\ page'[u] = "home" /\ players'[u] = {} /\ pc'[u] \in {"idle", "unlist"}
        /\ \A v \in User \ {u} : /\ page'[v] = page[v] /\ pc'[v] = pc[v]
                                 /\ players'[v] = players[v]
                                 /\ news'[v] = "none" => news[v] = "none"
    BY <2>1, <2>2 DEF HostInv, SeatInv, TypeOK
  <2>5. RoomsStand /\ \A v \in User \ {u} : Still(v)
    BY <1>1, <1>3, <2>1, <2>3, <2>4, OthersOfEndedRoom DEF Hosting
  <2>6. HostOK(u)'
    BY <2>4 DEF HostOK, HostsItsOwn, Hosting, Unlisting, MadeAtHome, HostSeated, Asking
  <2> QED
    BY <1>1, <2>1, <2>2, <2>5, <2>6, HostsMove
<1> QED
  BY <1>2, <1>3

LEMMA StartGameHosts ==
  ASSUME HostInv, SeatInv', SeenBelow', NEW u \in User, StartGame(u)
  PROVE  HostInv'
<1>1. /\ up /\ page[u] = "hosting" /\ pc[u] = "idle" /\ u \notin gone
      /\ u \in Hasty \/ news[u] = "none"
  BY DEF StartGame, Request, Informed
<1>2. CASE currRoom[u] = NoRoom
  <2>1. Crash(u)
    BY <1>2 DEF StartGame
  <2>2. Asking(u) \/ u \in Hasty
    BY <1>1 DEF Asking
  <2> QED
    BY <1>2, <2>1, <2>2, CrashHosts
<1>3. CASE currRoom[u] # NoRoom
  <2> DEFINE listed == ToSet(rooms[currRoom[u]].users)
  <2>1. /\ currRoom' = [v \in User |-> IF v \in listed THEN NoRoom ELSE currRoom[v]]
        /\ takenBy' = [v \in User |-> IF v \in listed THEN currRoom[u] ELSE takenBy[v]]
        /\ players' = [players EXCEPT ![u] = listed]
        /\ pc' = [pc EXCEPT ![u] = "unlist"]
        /\ UNCHANGED <<rooms, page, news, gone, crashedBy>>
    BY <1>3 DEF StartGame, Goto, registry, clients
  \* the host is on the list of its own room
  <2>2. u \in listed
    BY <1>1, <1>3 DEF HostInv, SeatInv, CountedWhereSeated
  <2> HIDE DEF listed
  <2>3. /\ page'[u] = "hosting" /\ players'[u] = listed /\ pc'[u] = "unlist"
        /\ currRoom'[u] = NoRoom
        /\ \A v \in User \ {u} : /\ page'[v] = page[v] /\ pc'[v] = pc[v]
                                 /\ players'[v] = players[v]
                                 /\ news'[v] = "none" => news[v] = "none"
    BY <1>1, <2>1, <2>2 DEF HostInv, SeatInv, TypeOK
  <2>4. RoomsStand /\ \A v \in User \ {u} : Still(v)
    BY <1>1, <1>3, <2>1, <2>3, OthersOfEndedRoom DEF Hosting, listed
  <2>5. HostOK(u)'
    BY <2>2, <2>3 DEF HostOK, HostsItsOwn, Hosting, Unlisting, MadeAtHome, HostSeated, Asking
  <2> QED
    BY <1>1, <2>1, <2>4, <2>5, HostsMove
<1> QED
  BY <1>2, <1>3

LEMMA UnlistHosts ==
  ASSUME HostInv, SeatInv', SeenBelow', NEW u \in User, Unlist(u)
  PROVE  HostInv'
<1>1. /\ up /\ pc[u] = "unlist" /\ pc' = [pc EXCEPT ![u] = "idle"]
      /\ news' = [v \in User |-> IF v \in Asked(u) THEN "question" ELSE news[v]]
      /\ UNCHANGED <<rooms, currRoom, takenBy, players, page, gone, crashedBy>>
  BY DEF Unlist, Goto, users, history
<1>2. RoomsStand /\ \A v \in User : \A o \in Made : Guest(v, o) => Guest(v, o)'
  BY <1>1, RoomsUntouched DEF HostInv
<1>3. \A v \in User \ {u} : Still(v)
  BY <1>1, <1>2 DEF Still, HostInv, SeatInv, TypeOK
<1>4. HostOK(u)'
  <2>1. pc'[u] = "idle" /\ page'[u] = page[u]
    BY <1>1 DEF HostInv, SeatInv, TypeOK
  \* the client is home, or has its question, or is gone
  <2>2. page[u] = "home" \/ u \in gone' \/ news'[u] = "question"
    BY <1>1 DEF HostInv, HostOK, Unlisting, Asked
  <2>3. HostsItsOwn(u)'
    BY <1>1, <2>1 DEF HostInv, HostOK, HostsItsOwn, Hosting
  <2>4. Unlisting(u)' /\ MadeAtHome(u)'
    BY <2>1 DEF Unlisting, MadeAtHome
  <2>5. HostSeated(u)'
    BY <2>1, <2>2 DEF HostSeated, Asking
  <2> QED
    BY <2>3, <2>4, <2>5 DEF HostOK
<1> QED
  BY <1>1, <1>2, <1>3, <1>4, HostsMove

\* The client of u goes on to a page on which it hosts nothing.
LEMMA HostTurns ==
  ASSUME HostInv, SeatInv', SeenBelow', NEW u \in User, up, pc[u] = "idle",
         NEW p \in {"home", "game"}, page' = [page EXCEPT ![u] = p],
         \A v \in User \ {u} : /\ currRoom'[v] = currRoom[v]
                               /\ news'[v] = "none" => news[v] = "none",
         UNCHANGED <<rooms, pc, players, gone, crashedBy, takenBy>>
  PROVE  HostInv'
<1>1. RoomsStand /\ \A v \in User : \A o \in Made : Guest(v, o) => Guest(v, o)'
  BY RoomsUntouched DEF HostInv
<1>2. \A v \in User \ {u} : Still(v)
  BY <1>1 DEF Still, HostInv, SeatInv, TypeOK
<1>3. pc'[u] = "idle" /\ page'[u] = p
  BY DEF HostInv, SeatInv, TypeOK
<1>4. HostOK(u)'
  BY <1>3 DEF HostOK, HostsItsOwn, Hosting, Unlisting, MadeAtHome, HostSeated, Asking
<1> QED
  BY <1>1, <1>2, <1>4, HostsMove

LEMMA ReadQuestionHosts ==
  ASSUME HostInv, SeatInv', SeenBelow', NEW u \in User, ReadQuestion(u)
  PROVE  HostInv'
<1>1. \A v \in User \ {u} : currRoom'[v] = currRoom[v] /\ news'[v] = news[v]
  BY DEF ReadQuestion, users, HostInv, SeatInv, TypeOK
<1> QED
  BY <1>1, HostTurns DEF ReadQuestion, Show, registry, threads, history

LEMMA FinishGameHosts ==
  ASSUME HostInv, SeatInv', SeenBelow', NEW u \in User, FinishGame(u)
  PROVE  HostInv'
<1>1. \A v \in User \ {u} : currRoom'[v] = currRoom[v] /\ news'[v] = news[v]
  BY DEF FinishGame, HostInv, SeatInv, TypeOK
<1> QED
  BY <1>1, HostTurns DEF FinishGame, Request, Show, registry, threads, history

LEMMA VanishHosts ==
  ASSUME HostInv, SeatInv', SeenBelow', NEW u \in User, Vanish(u)
  PROVE  HostInv'
<1>1. /\ up /\ gone \subseteq gone'
      /\ UNCHANGED <<rooms, currRoom, pc, players, page, news, crashedBy, takenBy>>
  BY DEF Vanish, registry, users, threads, history
<1>2. RoomsStand /\ \A v \in User : \A o \in Made : Guest(v, o) => Guest(v, o)'
  BY <1>1, RoomsUntouched DEF HostInv
<1>3. \A v \in User : Still(v)
  BY <1>1, <1>2 DEF Still
<1>4. HostOK(u)'
  BY <1>1, <1>2, <1>3, StillHost DEF HostInv
<1> QED
  BY <1>1, <1>2, <1>3, <1>4, HostsMove

LEMMA NextHosts == HostInv /\ [Next]_vars => HostInv'
<1> SUFFICES ASSUME HostInv, [Next]_vars PROVE HostInv'
  OBVIOUS
<1>1. SeatInv' /\ SeenBelow'
  BY NextSeat, NextSeen DEF HostInv, SeatInv
<1>2. CASE UNCHANGED vars
  <2>1. ASSUME NEW v \in User PROVE HostOK(v)'
    BY <1>2 DEF vars, registry, users, threads, clients, history, HostInv, HostOK, HostsItsOwn,
                Hosting, Unlisting, MadeAtHome, HostSeated, Asking, Guest
  <2>2. ServerUp'
    BY <1>2 DEF vars, registry, history, HostInv, ServerUp, Guest
  <2> QED
    BY <1>1, <2>1, <2>2 DEF HostInv
<1>3. ASSUME NEW u \in User,
             \/ CreateRoom(u) \/ NumberRoom(u) \/ BuildRoom(u) \/ RegisterRoom(u)
             \/ JoinRoom(u) \/ EnterRoom(u) \/ SetRoom(u)
             \/ LeaveRoom(u) \/ CloseRoom(u) \/ StartGame(u) \/ Unlist(u)
             \/ ReadQuestion(u) \/ FinishGame(u) \/ Vanish(u)
      PROVE  HostInv'
  BY <1>1, <1>3, CreateRoomHosts, NumberRoomHosts, BuildRoomHosts, RegisterRoomHosts,
     JoinRoomHosts, EnterRoomHosts, SetRoomHosts, LeaveRoomHosts, CloseRoomHosts,
     StartGameHosts, UnlistHosts, ReadQuestionHosts, FinishGameHosts, VanishHosts
<1> QED
  BY <1>2, <1>3 DEF Next

LEMMA HostsAlways == Spec => []HostInv
BY InitHosts, NextHosts, PTL DEF Spec

\* ServerUp of TriviaServer.cpp, User.cpp and Room.cpp: the reads of a user's pointer
\* to its room (TriviaServer.cpp:289-291, and those of a close and of a start) find
\* none for a host that waits for news only when another's room, which still has that
\* host on its list, ended since the host made its own.
THEOREM HostsKeepTheServerUp == Spec => []ServerUp
BY HostsAlways, PTL DEF HostInv

-----------------------------------------------------------------------------
(* Facts about lists with a user on them twice *)

Twice(u, s) == \E i, j \in 1 .. Len(s) : i < j /\ s[i] = u /\ s[j] = u

LEMMA JoinedTwice ==
  ASSUME NEW s \in Seq(User), NEW u \in User
  PROVE  LET t == Append(s, u) IN
         /\ u \in ToSet(s) => Twice(u, t)
         /\ u \notin ToSet(s) => ~Twice(u, t)
         /\ \A v \in User : v # u => (Twice(v, t) <=> Twice(v, s))
<1> DEFINE t == Append(s, u)
<1>1. /\ t \in Seq(User) /\ Len(t) = Len(s) + 1 /\ Len(s) \in Nat
      /\ \A i \in 1 .. Len(s) : t[i] = s[i]
      /\ t[Len(s) + 1] = u
  OBVIOUS
<1> HIDE DEF t
<1>2. ASSUME u \in ToSet(s) PROVE Twice(u, t)
  <2>1. PICK i \in 1 .. Len(s) : s[i] = u
    BY <1>2, ToSetOf
  <2>2. /\ i \in 1 .. Len(t) /\ Len(s) + 1 \in 1 .. Len(t) /\ i < Len(s) + 1
        /\ t[i] = u /\ t[Len(s) + 1] = u
    BY <1>1, <2>1
  <2> QED
    BY <2>2 DEF Twice
<1>3. ASSUME NEW v \in User, Twice(v, t), v # u \/ u \notin ToSet(s)
      PROVE  Twice(v, s) /\ v # u
  <2>1. PICK i \in 1 .. Len(t), j \in 1 .. Len(t) : i < j /\ t[i] = v /\ t[j] = v
    BY <1>3 DEF Twice
  <2>2. i \in 1 .. Len(s) /\ s[i] = v
    BY <1>1, <2>1
  <2>3. v # u
    BY <1>3, <2>2, ToSetOf
  <2>4. j \in 1 .. Len(s) /\ s[j] = v
    BY <1>1, <2>1, <2>3
  <2> QED
    BY <2>1, <2>2, <2>3, <2>4 DEF Twice
<1>4. ASSUME NEW v \in User, Twice(v, s) PROVE Twice(v, t)
  <2>1. PICK i \in 1 .. Len(s), j \in 1 .. Len(s) : i < j /\ s[i] = v /\ s[j] = v
    BY <1>4 DEF Twice
  <2>2. i \in 1 .. Len(t) /\ j \in 1 .. Len(t) /\ t[i] = v /\ t[j] = v
    BY <1>1, <2>1
  <2> QED
    BY <2>1, <2>2 DEF Twice
<1> QED
  BY <1>2, <1>3, <1>4 DEF t

LEMMA LeftTwice ==
  ASSUME NEW s \in Seq(User), NEW u \in User
  PROVE  LET t == RemoveFirst(s, u) IN
         /\ Twice(u, s) => u \in ToSet(t)
         /\ ~Twice(u, s) => u \notin ToSet(t)
         /\ \A v \in User : v # u => (Twice(v, t) <=> Twice(v, s))
<1> DEFINE t == RemoveFirst(s, u)
<1>1. /\ t \in Seq(User)
      /\ u \notin ToSet(s) => t = s
      /\ u \in ToSet(s) =>
           /\ Len(t) = Len(s) - 1
           /\ \E k \in 1 .. Len(s) :
                /\ s[k] = u
                /\ \A i \in 1 .. Len(t) : t[i] = IF i < k THEN s[i] ELSE s[i + 1]
  BY LeftList
<1> HIDE DEF t
<1>2. CASE u \notin ToSet(s)
  <2>1. ~Twice(u, s)
    BY <1>2, ToSetOf DEF Twice
  <2> QED
    BY <1>1, <1>2, <2>1 DEF t
<1>3. CASE u \in ToSet(s)
  <2>1. PICK k \in 1 .. Len(s) :
          /\ s[k] = u
          /\ \A i \in 1 .. Len(t) : t[i] = IF i < k THEN s[i] ELSE s[i + 1]
    BY <1>1, <1>3
  <2>2. Len(t) = Len(s) - 1 /\ Len(s) \in Nat
    BY <1>1, <1>3
  \* the place in s of each place in t, and the other way round
  <2>3. ASSUME NEW i \in 1 .. Len(t)
        PROVE  \E m \in 1 .. Len(s) : m # k /\ s[m] = t[i] /\ m = (IF i < k THEN i ELSE i + 1)
    <3>1. CASE i < k
      BY <2>1, <2>2, <3>1
    <3>2. CASE ~(i < k)
      <4>1. i + 1 \in 1 .. Len(s) /\ i + 1 # k /\ t[i] = s[i + 1]
        BY <2>1, <2>2, <3>2
      <4> QED
        BY <3>2, <4>1
    <3> QED
      BY <3>1, <3>2
  <2>4. ASSUME NEW m \in 1 .. Len(s), m # k
        PROVE  \E i \in 1 .. Len(t) : s[m] = t[i] /\ i = (IF m < k THEN m ELSE m - 1)
    <3>1. CASE m < k
      BY <2>1, <2>2, <3>1
    <3>2. CASE ~(m < k)
      <4>1. m - 1 \in 1 .. Len(t) /\ ~(m - 1 < k) /\ (m - 1) + 1 = m
        BY <2>1, <2>2, <2>4, <3>2
      <4>2. t[m - 1] = s[m]
        BY <2>1, <4>1
      <4> QED
        BY <3>2, <4>1, <4>2
    <3> QED
      BY <3>1, <3>2
  <2>5. ASSUME Twice(u, s) PROVE u \in ToSet(t)
    <3>1. PICK i \in 1 .. Len(s), j \in 1 .. Len(s) : i < j /\ s[i] = u /\ s[j] = u
      BY <2>5 DEF Twice
    <3>2. PICK m \in 1 .. Len(s) : m # k /\ s[m] = u
      BY <3>1
    <3>3. \E x \in 1 .. Len(t) : t[x] = u
      BY <2>4, <3>2
    <3> QED
      BY <1>1, <3>3, ToSetOf
  <2>6. ASSUME u \in ToSet(t) PROVE Twice(u, s)
    <3>1. PICK i \in 1 .. Len(t) : t[i] = u
      BY <1>1, <2>6, ToSetOf
    <3>2. PICK m \in 1 .. Len(s) : m # k /\ s[m] = u
      BY <2>3, <3>1
    <3>3. m < k \/ k < m
      BY <2>1, <3>2
    <3> QED
      BY <2>1, <3>2, <3>3 DEF Twice
  <2>7. ASSUME NEW v \in User, v # u, Twice(v, t) PROVE Twice(v, s)
    <3>1. PICK i \in 1 .. Len(t), j \in 1 .. Len(t) : i < j /\ t[i] = v /\ t[j] = v
      BY <2>7 DEF Twice
    <3>2. PICK m \in 1 .. Len(s) : s[m] = v /\ m = (IF i < k THEN i ELSE i + 1)
      BY <2>3, <3>1
    <3>3. PICK n \in 1 .. Len(s) : s[n] = v /\ n = (IF j < k THEN j ELSE j + 1)
      BY <2>3, <3>1
    <3>4. m < n
      BY <2>1, <2>2, <3>1, <3>2, <3>3
    <3> QED
      BY <3>2, <3>3, <3>4 DEF Twice
  <2>8. ASSUME NEW v \in User, v # u, Twice(v, s) PROVE Twice(v, t)
    <3>1. PICK i \in 1 .. Len(s), j \in 1 .. Len(s) : i < j /\ s[i] = v /\ s[j] = v
      BY <2>8 DEF Twice
    <3>2. i # k /\ j # k
      BY <2>1, <2>8, <3>1
    <3>3. PICK m \in 1 .. Len(t) : t[m] = v /\ m = (IF i < k THEN i ELSE i - 1)
      BY <2>4, <3>1, <3>2
    <3>4. PICK n \in 1 .. Len(t) : t[n] = v /\ n = (IF j < k THEN j ELSE j - 1)
      BY <2>4, <3>1, <3>2
    <3>5. m < n
      BY <2>1, <2>2, <3>1, <3>2, <3>3, <3>4
    <3> QED
      BY <3>3, <3>4, <3>5 DEF Twice
  <2> QED
    BY <2>5, <2>6, <2>7, <2>8 DEF t
<1> QED
  BY <1>2, <1>3

-----------------------------------------------------------------------------
(* The hosts, step by step *)

-----------------------------------------------------------------------------
(***************************************************************************)
(* Paced requests: they are further apart                                  *)
(* than a handler takes, clients wait for news, and nobody is lost.  Any   *)
(* number of users open any number of rooms, join, leave, close and start  *)
(* them, one request at a time.                                            *)
(***************************************************************************)

Paced == MaxBusy <= 1 /\ Hasty = {} /\ MayVanish = {}

Opener(o) == rooms[o].admin
Players(o) == ToSet(rooms[o].users)

\* The opener of room o may close or start it, now or once it is registered.
Open(o) == currRoom[Opener(o)] = o

\* Room o is about to be taken off the list.
Ending(o) == pc[Opener(o)] = "unlist" /\ target[Opener(o)] = o

\* u's game was started and u has not been sent its first question.
Pending(u) == \E x \in User : pc[x] = "unlist" /\ u \in players[x]

AllThere == gone = {} /\ crashedBy = {}

OneAtWork == \A u, v \in User : pc[u] # "idle" /\ pc[v] # "idle" => u = v

\* Every room has a number of its own, and the one drawn last, on which nobody else
\* is at work, is free for the room being made.
NumbersApart ==
  /\ \A o \in Made : rooms[o].id \in 1 .. roomIdSequence /\ rooms[o].maxUsers \in MaxUsersOf
  /\ \A o, p \in Made : rooms[o].id = rooms[p].id => o = p
  /\ \A u \in User : pc[u] = "number" => seen[u] = roomIdSequence
  /\ \A u \in User : pc[u] = "build" =>
       roomIdSequence # 0 /\ \A o \in Made : rooms[o].id # roomIdSequence
  /\ \A u \in User : pc[u] = "register" =>
       /\ target[u] = currRoom[u] /\ rooms[target[u]].id = roomIdSequence
       /\ Opener(target[u]) = u /\ rooms[target[u]].users = <<u>>

KeysAreIds == \A k \in Objects : roomsList[k] # NoRoom => rooms[roomsList[k]].id = k

ListedIsOpen ==
  \A o \in Made : Listed(o) <=> (Open(o) /\ pc[Opener(o)] # "register") \/ Ending(o)

\* The players of an open room are in it, once, or about to be.
PlayersInside ==
  \A o \in Made : Open(o) =>
    /\ rooms[o].maxUsers # 0 => Len(rooms[o].users) <= rooms[o].maxUsers
    /\ \A u \in Players(o) :
         ~Twice(u, rooms[o].users) /\ (currRoom[u] = o \/ (pc[u] = "setRoom" /\ target[u] = o))

\* A user's room is open, and its client is on the page it should be on.
Inside ==
  \A u \in User : currRoom[u] # NoRoom =>
    /\ Open(currRoom[u]) /\ news[u] = "none" /\ ~inGame[u]
    /\ \/ Opener(currRoom[u]) = u /\ pc[u] = "register" /\ page[u] = "home"
       \/ Opener(currRoom[u]) = u /\ pc[u] = "idle" /\ page[u] = "hosting"
       \/ Opener(currRoom[u]) # u /\ pc[u] = "idle" /\ page[u] = "waiting"

\* A user with no room is at home or in a game, or news is on its way.
Outside ==
  \A u \in User : currRoom[u] = NoRoom =>
    /\ page[u] \in {"home", "game"} => news[u] = "none"
    /\ page[u] = "home" => ~inGame[u]
    /\ page[u] = "waiting" => \/ news[u] = "closed" /\ ~inGame[u]
                              \/ news[u] = "question"
                              \/ Pending(u)
    /\ page[u] = "hosting" => news[u] = "question" \/ Pending(u)

Started ==
  \A u \in User : Pending(u) =>
    currRoom[u] = NoRoom /\ page[u] \in {"hosting", "waiting"} /\ news[u] = "none"

\* Who makes or enters a room is in none, and who ends one was its host.
Working ==
  \A u \in User :
    /\ pc[u] \in {"number", "build", "enter", "setRoom"} =>
         page[u] = "home" /\ currRoom[u] = NoRoom
    /\ pc[u] = "enter" =>
         /\ Open(target[u])
         /\ rooms[target[u]].maxUsers # 0
              => Len(rooms[target[u]].users) < rooms[target[u]].maxUsers
    /\ pc[u] = "setRoom" =>
         Open(target[u]) /\ u \in Players(target[u]) /\ Opener(target[u]) # u
    /\ pc[u] = "unlist" => Opener(target[u]) = u /\ currRoom[u] = NoRoom

\* The inductive invariant
PacedInv ==
  /\ SeatInv /\ SeenBelow /\ AllThere /\ OneAtWork /\ NumbersApart /\ KeysAreIds /\ ListedIsOpen
  /\ PlayersInside /\ Inside /\ Outside /\ Started /\ Working

-----------------------------------------------------------------------------
(* What holds of every state *)

LEMMA Typed ==
  ASSUME PacedInv
  PROVE  /\ TypeOK /\ RoomsMade /\ Len(rooms) \in Nat /\ NoRoom \notin Made
         /\ \A o \in Made : /\ rooms[o].users \in Seq(User) /\ rooms[o].admin \in User
                            /\ rooms[o].id \in Nat
         /\ \A u \in User : currRoom[u] # NoRoom => currRoom[u] \in Made
         /\ \A u \in User : pc[u] \in {"register", "enter", "setRoom", "unlist"}
                              => target[u] \in Made
         /\ \A k \in Objects : roomsList[k] # NoRoom => roomsList[k] \in Made
<1>1. TypeOK /\ RoomsMade /\ Len(rooms) \in Nat /\ NoRoom \notin Made
  BY DEF PacedInv, SeatInv, TypeOK, Made, NoRoom
<1>2. \A o \in Made : /\ rooms[o].users \in Seq(User) /\ rooms[o].admin \in User
                      /\ rooms[o].id \in Nat
  BY <1>1, RoomOfType DEF Made
<1>3. \A u \in User : currRoom[u] # NoRoom => currRoom[u] \in Made
  BY <1>1 DEF TypeOK, RoomsMade, Made, NoRoom
<1>4. \A u \in User : pc[u] \in {"register", "enter", "setRoom", "unlist"} => target[u] \in Made
  BY <1>1 DEF RoomsMade, Made
<1>5. \A k \in Objects : roomsList[k] # NoRoom => roomsList[k] \in Made
  BY <1>1 DEF TypeOK, RoomsMade, Made, NoRoom
<1> QED
  BY <1>1, <1>2, <1>3, <1>4, <1>5

\* A request finds every thread waiting for one.
LEMMA AllIdle ==
  ASSUME Paced, TypeOK, NEW u \in User, NEW p, Request(u, p)
  PROVE  /\ \A v \in User : pc[v] = "idle"
         /\ \A v \in User : ~Pending(v)
         /\ up /\ page[u] = p
<1>1. IsFiniteSet(Busy)
  BY FS_Subset, LobbyAssumption DEF Busy
<1>2. Cardinality(Busy) \in Nat /\ Cardinality(Busy) < MaxBusy /\ MaxBusy \in Nat
  BY <1>1, FS_CardinalityType, LobbyAssumption DEF Request
<1>3. Cardinality(Busy) = 0
  BY <1>2 DEF Paced
<1>4. Busy = {}
  BY <1>1, <1>3, FS_EmptySet
<1>5. \A v \in User : pc[v] = "idle"
  BY <1>4 DEF Busy
<1> QED
  BY <1>5 DEF Pending, Request

\* The room of a user counts it as a player.
LEMMA Counted ==
  ASSUME PacedInv, NEW u \in User, currRoom[u] # NoRoom
  PROVE  u \in Players(currRoom[u])
BY DEF PacedInv, SeatInv, CountedWhereSeated, AllThere, Players

\* No send throws while everybody is connected.
LEMMA NothingThrows ==
  ASSUME gone = {}, NEW s \in Seq(User)
  PROVE  ~Throws(s) /\ Reached(s) = ToSet(s)
BY ToSetOf DEF Throws, Reached

LEMMA InitPaced == Init => PacedInv
<1> SUFFICES ASSUME Init PROVE PacedInv
  OBVIOUS
<1>1. SeatInv /\ SeenBelow
  BY InitSeat DEF Init, SeenBelow
<1>2. Made = {} /\ gone = {} /\ crashedBy = {}
  BY DEF Init, Made
<1>3. \A v \in User : /\ pc[v] = "idle" /\ page[v] = "home" /\ news[v] = "none"
                      /\ currRoom[v] = NoRoom /\ inGame[v] = FALSE
  BY DEF Init
<1>4. \A v \in User : ~Pending(v)
  BY <1>3 DEF Pending
<1>5. AllThere /\ OneAtWork /\ NumbersApart
  BY <1>2, <1>3 DEF AllThere, OneAtWork, NumbersApart
<1>6. KeysAreIds
  BY DEF Init, KeysAreIds, Objects, NoRoom
<1>7. ListedIsOpen /\ PlayersInside
  BY <1>2 DEF ListedIsOpen, PlayersInside
<1>8. Inside /\ Outside /\ Started /\ Working
  BY <1>3, <1>4 DEF Inside, Outside, Started, Working
<1> QED
  BY <1>1, <1>5, <1>6, <1>7, <1>8 DEF PacedInv

-----------------------------------------------------------------------------
(* The invariant, step by step *)

LEMMA CreateRoomPaced ==
  ASSUME Paced, PacedInv, SeatInv', SeenBelow', NEW u \in User, CreateRoom(u)
  PROVE  PacedInv'
<1>1. Request(u, "home")
  BY DEF CreateRoom
<1>2. TypeOK
  BY Typed
<1>3. /\ \A v \in User : pc[v] = "idle" /\ ~Pending(v)
      /\ page[u] = "home"
  BY <1>1, <1>2, AllIdle
<1>4. /\ pc' = [pc EXCEPT ![u] = "number"] /\ seen' = [seen EXCEPT ![u] = roomIdSequence]
      /\ UNCHANGED <<roomIdSequence, rooms, roomsList, currRoom, inGame, target, players, page,
                     news, gone, crashedBy>>
  BY DEF CreateRoom, Goto, registry, users, clients, history
<1>5. \A v \in User : pc'[v] = IF v = u THEN "number" ELSE "idle"
  BY <1>2, <1>3, <1>4 DEF TypeOK
<1>6. \A v \in User : ~Pending(v)'
  BY <1>5 DEF Pending
<1>7. Made' = Made /\ \A o \in Made : rooms[o].admin \in User /\ rooms[o].id \in Nat
  BY <1>4, Typed DEF Made
<1>8. \A o \in Made : /\ Open(o)' <=> Open(o)
                      /\ Ending(o)' <=> Ending(o)
                      /\ Listed(o)' <=> Listed(o)
                      /\ pc[Opener(o)] # "register" /\ pc'[Opener(o)] # "register"
  BY <1>3, <1>4, <1>5, <1>7 DEF Open, Ending, Listed, Opener
<1>9. AllThere' /\ OneAtWork' /\ KeysAreIds'
  BY <1>4, <1>5 DEF PacedInv, AllThere, OneAtWork, KeysAreIds
<1>10. NumbersApart'
  <2>1. seen'[u] = roomIdSequence
    BY <1>2, <1>4 DEF TypeOK
  <2> QED
    BY <1>4, <1>5, <1>7, <2>1 DEF PacedInv, NumbersApart
<1>11. ListedIsOpen'
  BY <1>4, <1>7, <1>8 DEF PacedInv, ListedIsOpen, Opener
<1>12. PlayersInside'
  BY <1>3, <1>4, <1>5, <1>7, <1>8 DEF PacedInv, PlayersInside, Players, Twice
<1>13. currRoom[u] = NoRoom
  BY <1>3 DEF PacedInv, Inside
<1>14. Inside'
  BY <1>4, <1>5, <1>8, <1>13, Typed, <1>3 DEF PacedInv, Inside, Opener
<1>15. Outside' /\ Started'
  BY <1>3, <1>4, <1>6 DEF PacedInv, Outside, Started
<1>16. Working'
  BY <1>3, <1>4, <1>5, <1>13 DEF Working
<1> QED
  BY <1>9, <1>10, <1>11, <1>12, <1>14, <1>15, <1>16 DEF PacedInv

\* What a step that changes no room, no pointer, no list and no page keeps
LEMMA RoomsStay ==
  ASSUME PacedInv,
         UNCHANGED <<rooms, roomsList, currRoom, inGame, players, page, news, gone, crashedBy>>,
         \A v \in User : pc[v] # "unlist" /\ pc'[v] # "unlist",
         \A v \in User : pc[v] # "register" /\ pc'[v] # "register"
  PROVE  /\ Made' = Made /\ AllThere' /\ KeysAreIds' /\ ListedIsOpen' /\ Outside' /\ Started'
         /\ \A o \in Made : Open(o)' <=> Open(o)
<1>1. Made' = Made /\ \A o \in Made : rooms[o].admin \in User
  BY Typed DEF Made
<1>2. /\ \A v \in User : ~Pending(v) /\ ~Pending(v)'
      /\ \A o \in Made : ~Ending(o) /\ ~Ending(o)'
  BY <1>1 DEF Pending, Ending, Opener
<1>3. \A o \in Made : /\ Open(o)' <=> Open(o)
                      /\ Listed(o)' <=> Listed(o)
                      /\ pc[Opener(o)] # "register" /\ pc'[Opener(o)] # "register"
                      /\ Opener(o)' = Opener(o)
  BY <1>1 DEF Open, Listed, Opener
<1>4. ListedIsOpen'
  BY <1>1, <1>2, <1>3 DEF PacedInv, ListedIsOpen
<1>5. AllThere' /\ KeysAreIds'
  BY DEF PacedInv, AllThere, KeysAreIds
<1>6. Outside' /\ Started'
  BY <1>2 DEF PacedInv, Outside, Started
<1> QED
  BY <1>1, <1>3, <1>4, <1>5, <1>6

LEMMA NumberRoomPaced ==
  ASSUME Paced, PacedInv, SeatInv', SeenBelow', NEW u \in User, NumberRoom(u)
  PROVE  PacedInv'
<1>1. /\ pc[u] = "number" /\ roomIdSequence' = NextId(u)
      /\ pc' = [pc EXCEPT ![u] = "build"]
      /\ UNCHANGED <<rooms, roomsList, currRoom, inGame, target, seen, players, page, news, gone,
                     crashedBy>>
  BY DEF NumberRoom, Goto, users, clients, history
<1>2. \A v \in User : v # u => pc[v] = "idle"
  BY <1>1 DEF PacedInv, OneAtWork
<1>3. TypeOK
  BY Typed
<1>4. \A v \in User : pc'[v] = IF v = u THEN "build" ELSE "idle"
  BY <1>1, <1>2, <1>3 DEF TypeOK
<1>5. roomIdSequence' = roomIdSequence + 1 /\ roomIdSequence \in Nat
  BY <1>1, <1>3 DEF PacedInv, NumbersApart, NextId, TypeOK
<1>6. /\ \A v \in User : pc[v] # "unlist" /\ pc'[v] # "unlist"
      /\ \A v \in User : pc[v] # "register" /\ pc'[v] # "register"
  BY <1>1, <1>2, <1>4
<1>7. /\ Made' = Made /\ AllThere' /\ KeysAreIds' /\ ListedIsOpen' /\ Outside' /\ Started'
      /\ \A o \in Made : Open(o)' <=> Open(o)
  BY <1>1, <1>6, RoomsStay
<1>8. OneAtWork'
  BY <1>4 DEF OneAtWork
<1>9. NumbersApart'
  <2>1. \A o \in Made : rooms[o].id \in 1 .. roomIdSequence
    BY DEF PacedInv, NumbersApart
  <2>2. \A o \in Made : rooms[o].id \in 1 .. roomIdSequence' /\ rooms[o].id # roomIdSequence'
    BY <1>5, <2>1
  <2>3. roomIdSequence' # 0
    BY <1>5
  <2> QED
    BY <1>1, <1>4, <1>7, <2>2, <2>3 DEF PacedInv, NumbersApart
<1>10. PlayersInside'
  <2>1. \A p \in Made : \A v \in Players(p) : v \in User
    BY Typed, ToSetOf DEF Players
  <2> QED
    BY <1>1, <1>2, <1>7, <2>1 DEF PacedInv, PlayersInside, Players
<1>11. page[u] = "home" /\ currRoom[u] = NoRoom
  BY <1>1 DEF PacedInv, Working
<1>12. Inside'
  <2> SUFFICES ASSUME NEW v \in User, NEW p, p = currRoom[v], p # NoRoom
               PROVE  /\ Open(p)' /\ news[v] = "none" /\ ~inGame[v]
                      /\ \/ Opener(p)' = v /\ pc'[v] = "idle" /\ page[v] = "hosting"
                         \/ Opener(p)' # v /\ pc'[v] = "idle" /\ page[v] = "waiting"
    BY <1>1 DEF Inside, Open, Opener
  <2>1. p \in Made /\ Opener(p)' = Opener(p) /\ v # u
    BY <1>1, <1>11, Typed DEF Opener
  <2> QED
    BY <1>2, <1>4, <1>7, <2>1 DEF PacedInv, Inside
<1>13. Working'
  BY <1>1, <1>4, <1>11 DEF Working
<1> QED
  BY <1>7, <1>8, <1>9, <1>10, <1>12, <1>13 DEF PacedInv

LEMMA BuildRoomPaced ==
  ASSUME Paced, PacedInv, SeatInv', SeenBelow', NEW u \in User, BuildRoom(u)
  PROVE  PacedInv'
<1>1. /\ pc[u] = "build" /\ page[u] = "home" /\ currRoom[u] = NoRoom
      /\ UNCHANGED <<roomIdSequence, roomsList, inGame, players, page, news, gone, crashedBy>>
  BY DEF BuildRoom, clients, history, PacedInv, Working
<1>2. \A v \in User : v # u => pc[v] = "idle"
  BY <1>1 DEF PacedInv, OneAtWork
<1>3. PICK m \in MaxUsersOf :
        rooms' = Append(rooms, [id |-> roomIdSequence, admin |-> u,
                                maxUsers |-> m, users |-> <<u>>])
  BY <1>1 DEF BuildRoom
<1> DEFINE r == [id |-> roomIdSequence, admin |-> u, maxUsers |-> m, users |-> <<u>>]
<1>4. TypeOK /\ Len(rooms) \in Nat
  BY Typed
<1>5. /\ r \in Room /\ r.users = <<u>> /\ r.admin = u /\ r.id = roomIdSequence
      /\ r.maxUsers = m /\ m \in Nat
  BY <1>4, LobbyAssumption DEF Room, TypeOK
<1>6. rooms' = Append(rooms, r)
  BY <1>3
<1> HIDE DEF r
<1>7. PICK n : n = Len(rooms) + 1
  OBVIOUS
<1>8. /\ Len(rooms') = n /\ rooms'[n] = r
      /\ \A p \in Made : rooms'[p] = rooms[p]
  BY <1>4, <1>5, <1>6, <1>7, RoomAdded DEF Made
<1>9. /\ Made' = Made \cup {n} /\ n \notin Made /\ n # NoRoom /\ NoRoom \notin Made
      /\ \A p \in Made : rooms[p].admin \in User
  BY <1>4, <1>7, <1>8, Typed DEF Made, NoRoom
<1>10. /\ pc' = [pc EXCEPT ![u] = "register"]
       /\ currRoom' = [currRoom EXCEPT ![u] = n]
       /\ target' = [target EXCEPT ![u] = n]
  BY <1>1, <1>8 DEF BuildRoom, Goto
<1>11. \A v \in User : /\ pc'[v] = IF v = u THEN "register" ELSE "idle"
                       /\ currRoom'[v] = IF v = u THEN n ELSE currRoom[v]
                       /\ target'[v] = IF v = u THEN n ELSE target[v]
  BY <1>2, <1>4, <1>10 DEF TypeOK
<1>12. /\ \A v \in User : ~Pending(v) /\ ~Pending(v)'
       /\ \A o \in Made : ~Ending(o) /\ ~Ending(o)'
       /\ ~Ending(n)'
  BY <1>1, <1>2, <1>5, <1>8, <1>9, <1>11 DEF Pending, Ending, Opener
<1>13. \A o \in Made : Open(o)' <=> Open(o)
  BY <1>1, <1>8, <1>9, <1>11 DEF Open, Opener
<1>14. Open(n)' /\ Opener(n)' = u /\ pc'[u] = "register" /\ Players(n)' = {u}
  <2>1. ToSet(<<u>>) = {u}
    BY DEF ToSet
  <2> QED
    BY <1>5, <1>8, <1>11, <2>1 DEF Open, Opener, Players
<1>15. AllThere' /\ OneAtWork'
  BY <1>1, <1>11 DEF PacedInv, AllThere, OneAtWork
<1>16. NumbersApart'
  <2>1. roomIdSequence # 0 /\ \A o \in Made : rooms[o].id # roomIdSequence
    BY <1>1 DEF PacedInv, NumbersApart
  <2>2. roomIdSequence \in 1 .. roomIdSequence
    BY <1>4, <2>1 DEF TypeOK
  <2>3. \A o \in Made' : rooms'[o].id \in 1 .. roomIdSequence /\ rooms'[o].maxUsers \in MaxUsersOf
    BY <1>5, <1>8, <1>9, <2>2 DEF PacedInv, NumbersApart
  <2>4. \A o, p \in Made' : rooms'[o].id = rooms'[p].id => o = p
    BY <1>5, <1>8, <1>9, <2>1 DEF PacedInv, NumbersApart
  <2>5. \A v \in User : pc'[v] # "build" /\ pc'[v] # "number"
    BY <1>11
  <2>6. \A v \in User : pc'[v] = "register" =>
          /\ target'[v] = currRoom'[v] /\ rooms'[target'[v]].id = roomIdSequence
          /\ rooms'[target'[v]].admin = v /\ rooms'[target'[v]].users = <<v>>
    BY <1>5, <1>8, <1>11
  <2> QED
    BY <1>1, <2>3, <2>4, <2>5, <2>6 DEF NumbersApart, Opener
<1>17. KeysAreIds'
  BY <1>1, <1>8, Typed DEF PacedInv, KeysAreIds
<1>18. ListedIsOpen'
  <2>1. ~Listed(n)'
    BY <1>1, <1>9, Typed DEF Listed
  <2>2. \A o \in Made : Listed(o)' <=> Listed(o)
    BY <1>1 DEF Listed
  <2>3. \A o \in Made : Open(o) => pc'[Opener(o)] # "register" /\ pc[Opener(o)] # "register"
    BY <1>1, <1>2, <1>9, <1>11 DEF Open, Opener
  <2>4. \A o \in Made : Opener(o)' = Opener(o)
    BY <1>8 DEF Opener
  <2> QED
    BY <1>9, <1>12, <1>13, <1>14, <2>1, <2>2, <2>3, <2>4 DEF PacedInv, ListedIsOpen
<1>19. PlayersInside'
  <2>1. /\ m # 0 => Len(<<u>>) <= m
        /\ ~Twice(u, <<u>>)
    BY <1>5 DEF Twice
  <2>2. ASSUME NEW o \in Made, Open(o)'
        PROVE  /\ rooms'[o].maxUsers # 0 => Len(rooms'[o].users) <= rooms'[o].maxUsers
               /\ \A v \in Players(o)' : ~Twice(v, rooms'[o].users) /\ currRoom'[v] = o
    <3>1. Open(o) /\ rooms'[o] = rooms[o] /\ Players(o)' = Players(o)
      BY <1>8, <1>13, <2>2 DEF Players
    <3>2. \A v \in Players(o) : v \in User
      BY <1>9, Typed, ToSetOf DEF Players
    <3>3. \A v \in Players(o) : ~Twice(v, rooms[o].users) /\ currRoom[v] = o
      BY <1>1, <1>2, <3>1, <3>2 DEF PacedInv, PlayersInside
    <3>4. o # NoRoom
      BY <1>9
    <3> QED
      BY <1>1, <1>11, <3>1, <3>2, <3>3, <3>4 DEF PacedInv, PlayersInside
  <2>3. /\ rooms'[n].maxUsers # 0 => Len(rooms'[n].users) <= rooms'[n].maxUsers
        /\ \A v \in Players(n)' : ~Twice(v, rooms'[n].users) /\ currRoom'[v] = n
    BY <1>5, <1>8, <1>11, <1>14, <2>1
  <2> QED
    BY <1>9, <2>2, <2>3 DEF PlayersInside
<1>20. Inside'
  <2> SUFFICES ASSUME NEW v \in User, NEW o, o = currRoom'[v], o # NoRoom
               PROVE  /\ Open(o)' /\ news[v] = "none" /\ ~inGame[v]
                      /\ \/ Opener(o)' = v /\ pc'[v] = "register" /\ page[v] = "home"
                         \/ Opener(o)' = v /\ pc'[v] = "idle" /\ page[v] = "hosting"
                         \/ Opener(o)' # v /\ pc'[v] = "idle" /\ page[v] = "waiting"
    BY <1>1 DEF Inside, Open, Opener
  <2>1. CASE v = u
    <3>1. news[u] = "none" /\ ~inGame[u]
      BY <1>1 DEF PacedInv, Outside
    <3>2. o = n
      BY <1>11, <2>1
    <3> QED
      BY <1>1, <1>11, <1>14, <2>1, <3>1, <3>2
  <2>2. CASE v # u
    <3>1. o = currRoom[v] /\ pc[v] = "idle" /\ pc'[v] = "idle" /\ o \in Made
      BY <1>2, <1>11, <2>2, Typed
    <3>2. Opener(o)' = Opener(o) /\ (Open(o) => Open(o)')
      BY <1>8, <1>13, <3>1 DEF Opener
    <3> QED
      BY <3>1, <3>2 DEF PacedInv, Inside
  <2> QED
    BY <2>1, <2>2
<1>21. Outside' /\ Started'
  BY <1>1, <1>9, <1>11, <1>12 DEF PacedInv, Outside, Started
<1>22. Working'
  BY <1>11 DEF Working
<1> QED
  BY <1>15, <1>16, <1>17, <1>18, <1>19, <1>20, <1>21, <1>22 DEF PacedInv

\* An open room that is being registered is in none of the server's lists.
LEMMA RegisterRoomPaced ==
  ASSUME Paced, PacedInv, SeatInv', SeenBelow', NEW u \in User, RegisterRoom(u)
  PROVE  PacedInv'
<1>0. pc[u] = "register" /\ currRoom[u] # NoRoom
  <2>1. pc[u] = "register"
    BY DEF RegisterRoom
  <2>2. target[u] = currRoom[u] /\ target[u] \in Made /\ NoRoom \notin Made
    BY <2>1, Typed DEF PacedInv, NumbersApart
  <2> QED
    BY <2>1, <2>2
<1>1. /\ pc[u] = "register"
      /\ pc' = [pc EXCEPT ![u] = "idle"]
      /\ page' = [page EXCEPT ![u] = "hosting"] /\ news' = [news EXCEPT ![u] = "none"]
      /\ UNCHANGED <<roomIdSequence, rooms, currRoom, inGame, target, seen, players, gone, crashedBy>>
  BY <1>0 DEF RegisterRoom, Goto, Show, users, history
<1>2. \A v \in User : v # u => pc[v] = "idle"
  BY <1>1 DEF PacedInv, OneAtWork
<1>3. TypeOK /\ NoRoom \notin Made /\ Made' = Made /\ \A o \in Made : rooms[o].admin \in User
  BY <1>1, Typed DEF Made
<1>4. \A v \in User : /\ pc'[v] = "idle"
                      /\ page'[v] = IF v = u THEN "hosting" ELSE page[v]
                      /\ news'[v] = IF v = u THEN "none" ELSE news[v]
  BY <1>1, <1>2, <1>3 DEF TypeOK
<1>5. PICK o \in Made : o = target[u]
  BY <1>1, Typed
<1>6. PICK key : key = roomIdSequence
  OBVIOUS
<1>7. /\ currRoom[u] = o /\ rooms[o].id = key /\ Opener(o) = u /\ rooms[o].users = <<u>>
      /\ o # NoRoom
  BY <1>1, <1>3, <1>5, <1>6 DEF PacedInv, NumbersApart
<1>8. key \in Objects
  BY <1>3, <1>6, <1>7 DEF PacedInv, NumbersApart, TypeOK, Objects
<1>9. ~Listed(o)
  BY <1>1, <1>7 DEF PacedInv, ListedIsOpen, Ending
<1>10. roomsList[key] = NoRoom
  <2> SUFFICES ASSUME roomsList[key] # NoRoom PROVE FALSE
    OBVIOUS
  <2>1. roomsList[key] \in Made /\ rooms[roomsList[key]].id = key
    BY <1>8, Typed DEF PacedInv, KeysAreIds
  <2>2. roomsList[key] = o
    BY <1>7, <2>1 DEF PacedInv, NumbersApart
  <2> QED
    BY <1>8, <1>9, <2>2 DEF Listed
<1>11. \A k \in Objects : roomsList'[k] = IF k = key THEN o ELSE roomsList[k]
  BY <1>0, <1>3, <1>6, <1>7, <1>10 DEF RegisterRoom, TypeOK
<1>12. /\ \A v \in User : ~Pending(v) /\ ~Pending(v)'
       /\ \A p \in Made : ~Ending(p) /\ ~Ending(p)'
  BY <1>1, <1>2, <1>3, <1>4 DEF Pending, Ending, Opener
<1>13. \A p \in Made : Open(p)' <=> Open(p)
  BY <1>1 DEF Open, Opener
<1>14. AllThere' /\ OneAtWork'
  BY <1>1, <1>4 DEF PacedInv, AllThere, OneAtWork
<1>15. NumbersApart'
  BY <1>1, <1>3, <1>4 DEF PacedInv, NumbersApart
<1>16. KeysAreIds'
  BY <1>1, <1>7, <1>11 DEF PacedInv, KeysAreIds
<1>17. ListedIsOpen'
  <2>1. Listed(o)' /\ Open(o)' /\ pc'[Opener(o)] # "register"
    BY <1>1, <1>4, <1>7, <1>8, <1>11 DEF Listed, Open, Opener
  <2>2. ASSUME NEW p \in Made, p # o
        PROVE  /\ Listed(p)' <=> Listed(p)
               /\ Open(p) => pc[Opener(p)] # "register"
               /\ pc'[Opener(p)] # "register"
    <3>1. p # NoRoom
      BY <1>3
    <3>2. Listed(p)' <=> Listed(p)
      BY <1>10, <1>11, <2>2, <3>1 DEF Listed
    <3>3. Open(p) => Opener(p) # u
      BY <1>7, <2>2 DEF Open
    <3> QED
      BY <1>2, <1>3, <1>4, <3>2, <3>3 DEF Opener
  <2>3. \A p \in Made : Opener(p)' = Opener(p)
    BY <1>1 DEF Opener
  <2> QED
    BY <1>3, <1>12, <1>13, <2>1, <2>2, <2>3 DEF PacedInv, ListedIsOpen
<1>18. PlayersInside'
  <2>1. \A p \in Made : \A v \in Players(p) : v \in User
    BY Typed, ToSetOf DEF Players
  <2>2. \A v \in User : pc[v] # "setRoom"
    BY <1>1, <1>2
  <2> QED
    BY <1>1, <1>3, <1>13, <2>1, <2>2 DEF PacedInv, PlayersInside, Players
<1>19. Inside'
  <2> SUFFICES ASSUME NEW v \in User, NEW p, p = currRoom[v], p # NoRoom
               PROVE  /\ Open(p)' /\ news'[v] = "none" /\ ~inGame[v]
                      /\ \/ Opener(p)' = v /\ pc'[v] = "idle" /\ page'[v] = "hosting"
                         \/ Opener(p)' # v /\ pc'[v] = "idle" /\ page'[v] = "waiting"
    BY <1>1 DEF Inside, Open, Opener
  <2>1. p \in Made /\ Opener(p)' = Opener(p)
    BY <1>1, Typed DEF Opener
  <2> QED
    BY <1>1, <1>2, <1>4, <1>7, <1>13, <2>1 DEF PacedInv, Inside
<1>20. Outside' /\ Started'
  BY <1>1, <1>4, <1>7, <1>12 DEF PacedInv, Outside, Started
<1>21. Working'
  BY <1>4 DEF Working
<1> QED
  BY <1>14, <1>15, <1>16, <1>17, <1>18, <1>19, <1>20, <1>21 DEF PacedInv

LEMMA JoinRoomPaced ==
  ASSUME Paced, PacedInv, SeatInv', SeenBelow', NEW u \in User, JoinRoom(u)
  PROVE  PacedInv'
<1>1. Request(u, "home")
  BY DEF JoinRoom
<1>2. TypeOK /\ RoomsMade /\ \A o \in Made : rooms[o].admin \in User
  BY Typed
<1>3. /\ \A v \in User : pc[v] = "idle" /\ ~Pending(v)
      /\ page[u] = "home"
  BY <1>1, <1>2, AllIdle
<1>4. PICK r : r # NoRoom /\ ~Full(r) /\ target' = [target EXCEPT ![u] = r]
               /\ \E id : r = RoomById(id)
  BY DEF JoinRoom
<1>5. r \in Made /\ Listed(r)
  BY <1>2, <1>4, RoomFound DEF Listed, Made
<1>6. Open(r)
  BY <1>2, <1>3, <1>5 DEF PacedInv, ListedIsOpen, Ending, Opener
<1>7. rooms[r].maxUsers # 0 => Len(rooms[r].users) < rooms[r].maxUsers
  <2>1. rooms[r].maxUsers \in Nat
    BY <1>5, LobbyAssumption DEF PacedInv, NumbersApart
  <2>2. rooms[r].users \in Seq(User)
    BY <1>5, Typed
  <2>3. Len(rooms[r].users) \in Nat
    BY <2>2
  <2>4. rooms[r].maxUsers # 0 => Len(rooms[r].users) <= rooms[r].maxUsers
    BY <1>5, <1>6 DEF PacedInv, PlayersInside
  <2> QED
    BY <1>4, <2>1, <2>3, <2>4 DEF Full
<1>8. /\ pc' = [pc EXCEPT ![u] = "enter"]
      /\ UNCHANGED <<roomIdSequence, rooms, roomsList, currRoom, inGame, players, page, news,
                     gone, crashedBy>>
  BY DEF JoinRoom, Goto, registry, users, clients, history
<1>9. \A v \in User : /\ pc'[v] = IF v = u THEN "enter" ELSE "idle"
                      /\ target'[v] = IF v = u THEN r ELSE target[v]
  BY <1>2, <1>3, <1>4, <1>8 DEF TypeOK
<1>10. /\ Made' = Made /\ AllThere' /\ KeysAreIds' /\ ListedIsOpen' /\ Outside' /\ Started'
       /\ \A o \in Made : Open(o)' <=> Open(o)
  BY <1>3, <1>8, <1>9, RoomsStay
<1>11. OneAtWork'
  BY <1>9 DEF OneAtWork
<1>12. NumbersApart'
  BY <1>8, <1>9, <1>10 DEF PacedInv, NumbersApart
<1>13. PlayersInside'
  <2>1. \A p \in Made : \A v \in Players(p) : v \in User
    BY Typed, ToSetOf DEF Players
  <2> QED
    BY <1>3, <1>8, <1>10, <2>1 DEF PacedInv, PlayersInside, Players
<1>14. currRoom[u] = NoRoom
  BY <1>3 DEF PacedInv, Inside
<1>15. Inside'
  <2> SUFFICES ASSUME NEW v \in User, NEW p, p = currRoom[v], p # NoRoom
               PROVE  /\ Open(p)' /\ news[v] = "none" /\ ~inGame[v]
                      /\ \/ Opener(p)' = v /\ pc'[v] = "idle" /\ page[v] = "hosting"
                         \/ Opener(p)' # v /\ pc'[v] = "idle" /\ page[v] = "waiting"
    BY <1>8 DEF Inside, Open, Opener
  <2>1. p \in Made /\ Opener(p)' = Opener(p) /\ v # u
    BY <1>8, <1>14, Typed DEF Opener
  <2> QED
    BY <1>3, <1>9, <1>10, <2>1 DEF PacedInv, Inside
<1>16. Working'
  <2>1. Open(r)' /\ target'[u] = r
    BY <1>5, <1>6, <1>9, <1>10
  <2> QED
    BY <1>3, <1>7, <1>8, <1>9, <1>14, <2>1 DEF Working, Open, Opener
<1> QED
  BY <1>10, <1>11, <1>12, <1>13, <1>15, <1>16 DEF PacedInv

LEMMA EnterRoomPaced ==
  ASSUME Paced, PacedInv, SeatInv', SeenBelow', NEW u \in User, EnterRoom(u)
  PROVE  PacedInv'
<1>1. /\ pc[u] = "enter" /\ page[u] = "home" /\ currRoom[u] = NoRoom /\ ~inGame[u]
      /\ UNCHANGED <<roomIdSequence, roomsList, currRoom, inGame, target, seen, players, news, crashedBy>>
  BY DEF EnterRoom, users, history, PacedInv, Working, Outside
<1>2. \A v \in User : v # u => pc[v] = "idle"
  BY <1>1 DEF PacedInv, OneAtWork
<1>3. TypeOK /\ NoRoom \notin Made /\ \A p \in Made : rooms[p].admin \in User
  BY Typed
<1>4. PICK o \in Made : o = target[u]
  BY <1>1, Typed
<1>5. /\ Open(o)
      /\ rooms[o].maxUsers # 0 => Len(rooms[o].users) < rooms[o].maxUsers
  BY <1>1, <1>4 DEF PacedInv, Working
<1>6. rooms[o].users \in Seq(User)
  BY Typed
<1>7. PICK s \in Seq(User) : s = Append(rooms[o].users, u)
  BY <1>6, JoinedList
<1>8. u \notin ToSet(rooms[o].users)
  BY <1>1, <1>3, <1>5 DEF PacedInv, PlayersInside, Players
<1>9. /\ ToSet(s) = ToSet(rooms[o].users) \cup {u}
      /\ Len(s) = Len(rooms[o].users) + 1
      /\ ~Twice(u, s)
      /\ \A v \in User : v # u => (Twice(v, s) <=> Twice(v, rooms[o].users))
  BY <1>6, <1>7, <1>8, JoinedList, JoinedTwice
<1>10. rooms' = [rooms EXCEPT ![o].users = s]
  BY <1>1, <1>4, <1>7 DEF EnterRoom
<1>11. /\ Made' = Made
       /\ \A q \in Made : /\ rooms'[q].users = IF q = o THEN s ELSE rooms[q].users
                          /\ rooms'[q].admin = rooms[q].admin
                          /\ rooms'[q].id = rooms[q].id
                          /\ rooms'[q].maxUsers = rooms[q].maxUsers
  BY <1>3, <1>10, RoomRefilled DEF Made
<1>12. ~Throws(s)
  BY NothingThrows DEF PacedInv, AllThere
<1>13. pc' = [pc EXCEPT ![u] = "setRoom"] /\ page' = page /\ gone' = gone
  BY <1>1, <1>4, <1>7, <1>12 DEF EnterRoom, Goto
<1>14. \A v \in User : pc'[v] = IF v = u THEN "setRoom" ELSE "idle"
  BY <1>2, <1>3, <1>13 DEF TypeOK
<1>15. /\ \A v \in User : ~Pending(v) /\ ~Pending(v)'
       /\ \A p \in Made : ~Ending(p) /\ ~Ending(p)'
  BY <1>1, <1>2, <1>3, <1>11, <1>14 DEF Pending, Ending, Opener
<1>16. \A p \in Made : /\ Open(p)' <=> Open(p)
                       /\ Listed(p)' <=> Listed(p)
                       /\ pc[Opener(p)] # "register" /\ pc'[Opener(p)] # "register"
                       /\ Opener(p)' = Opener(p)
  BY <1>1, <1>2, <1>3, <1>11, <1>14 DEF Open, Listed, Opener
<1>17. AllThere' /\ OneAtWork'
  BY <1>1, <1>13, <1>14 DEF PacedInv, AllThere, OneAtWork
<1>18. NumbersApart'
  BY <1>1, <1>11, <1>14 DEF PacedInv, NumbersApart
<1>19. KeysAreIds'
  BY <1>1, <1>11, Typed DEF PacedInv, KeysAreIds
<1>20. ListedIsOpen'
  BY <1>11, <1>15, <1>16 DEF PacedInv, ListedIsOpen
<1>21. PlayersInside'
  <2> SUFFICES ASSUME NEW p \in Made, Open(p)
               PROVE  /\ rooms'[p].maxUsers # 0 => Len(rooms'[p].users) <= rooms'[p].maxUsers
                      /\ \A v \in ToSet(rooms'[p].users) :
                           /\ ~Twice(v, rooms'[p].users)
                           /\ currRoom[v] = p \/ (pc'[v] = "setRoom" /\ target[v] = p)
    BY <1>1, <1>11, <1>16 DEF PlayersInside, Players
  <2>1. \A v \in ToSet(rooms[p].users) : v \in User
    BY Typed, ToSetOf
  <2>2. \A v \in ToSet(rooms[p].users) : ~Twice(v, rooms[p].users) /\ currRoom[v] = p
    BY <1>1, <1>2, <2>1 DEF PacedInv, PlayersInside, Players
  <2>3. CASE p # o
    BY <1>11, <2>2, <2>3 DEF PacedInv, PlayersInside
  <2>4. CASE p = o
    <3>1. rooms[o].maxUsers # 0 => Len(s) <= rooms[o].maxUsers
      <4>1. rooms[o].maxUsers \in Nat
        BY LobbyAssumption DEF PacedInv, NumbersApart
      <4>2. Len(rooms[o].users) \in Nat
        BY <1>6
      <4> QED
        BY <1>5, <1>9, <4>1, <4>2
    <3>2. \A v \in ToSet(s) : /\ ~Twice(v, s)
                              /\ currRoom[v] = o \/ (pc'[v] = "setRoom" /\ target[v] = o)
      BY <1>4, <1>9, <1>14, <2>1, <2>2, <2>4
    <3> QED
      BY <1>11, <2>4, <3>1, <3>2
  <2> QED
    BY <2>3, <2>4
<1>22. Inside'
  <2> SUFFICES ASSUME NEW v \in User, NEW p, p = currRoom[v], p # NoRoom
               PROVE  /\ Open(p)' /\ news[v] = "none" /\ ~inGame[v]
                      /\ \/ Opener(p)' = v /\ pc'[v] = "idle" /\ page[v] = "hosting"
                         \/ Opener(p)' # v /\ pc'[v] = "idle" /\ page[v] = "waiting"
    BY <1>1, <1>13 DEF Inside, Open, Opener
  <2>1. p \in Made /\ v # u
    BY <1>1, Typed
  <2> QED
    BY <1>2, <1>14, <1>16, <2>1 DEF PacedInv, Inside
<1>23. Outside' /\ Started'
  BY <1>1, <1>13, <1>15 DEF PacedInv, Outside, Started
<1>24. Working'
  <2>1. Opener(o) # u
    BY <1>1, <1>3, <1>5 DEF Open
  <2>2. target'[u] = o /\ Open(o)' /\ u \in Players(o)' /\ Opener(o)' # u
    BY <1>1, <1>4, <1>5, <1>9, <1>11, <1>16, <2>1 DEF Players
  <2> QED
    BY <1>1, <1>13, <1>14, <2>2 DEF Working, Open, Opener, Players
<1> QED
  BY <1>17, <1>18, <1>19, <1>20, <1>21, <1>22, <1>23, <1>24 DEF PacedInv

LEMMA SetRoomPaced ==
  ASSUME Paced, PacedInv, SeatInv', SeenBelow', NEW u \in User, SetRoom(u)
  PROVE  PacedInv'
<1>1. /\ pc[u] = "setRoom" /\ page[u] = "home" /\ currRoom[u] = NoRoom
      /\ news[u] = "none" /\ ~inGame[u]
      /\ UNCHANGED <<roomIdSequence, rooms, roomsList, inGame, target, seen, players, news, gone,
                     crashedBy>>
  BY DEF SetRoom, registry, history, PacedInv, Working, Outside
<1>2. \A v \in User : v # u => pc[v] = "idle"
  BY <1>1 DEF PacedInv, OneAtWork
<1>3. TypeOK /\ NoRoom \notin Made /\ Made' = Made /\ \A p \in Made : rooms[p].admin \in User
  BY <1>1, Typed DEF Made
<1>4. PICK o \in Made : o = target[u]
  BY <1>1, Typed
<1>5. Open(o) /\ u \in Players(o) /\ Opener(o) # u
  BY <1>1, <1>4 DEF PacedInv, Working
<1>6. \A v \in User : /\ pc'[v] = "idle"
                      /\ page'[v] = IF v = u THEN "waiting" ELSE page[v]
                      /\ currRoom'[v] = IF v = u THEN o ELSE currRoom[v]
  BY <1>2, <1>3, <1>4 DEF SetRoom, Goto, Show, TypeOK
<1>7. /\ \A v \in User : ~Pending(v) /\ ~Pending(v)'
      /\ \A p \in Made : ~Ending(p) /\ ~Ending(p)'
  BY <1>1, <1>2, <1>3, <1>6 DEF Pending, Ending, Opener
<1>8. \A p \in Made : /\ Open(p)' <=> Open(p)
                      /\ Listed(p)' <=> Listed(p)
                      /\ pc[Opener(p)] # "register" /\ pc'[Opener(p)] # "register"
                      /\ Opener(p)' = Opener(p)
  BY <1>1, <1>2, <1>3, <1>5, <1>6 DEF Open, Listed, Opener
<1>9. AllThere' /\ OneAtWork' /\ KeysAreIds'
  BY <1>1, <1>6 DEF PacedInv, AllThere, OneAtWork, KeysAreIds
<1>10. NumbersApart'
  BY <1>1, <1>3, <1>6 DEF PacedInv, NumbersApart
<1>11. ListedIsOpen'
  BY <1>3, <1>7, <1>8 DEF PacedInv, ListedIsOpen
<1>12. PlayersInside'
  <2> SUFFICES ASSUME NEW p \in Made, Open(p), NEW v \in Players(p)
               PROVE  /\ rooms[p].maxUsers # 0 => Len(rooms[p].users) <= rooms[p].maxUsers
                      /\ ~Twice(v, rooms[p].users)
                      /\ currRoom'[v] = p
    BY <1>1, <1>3, <1>8 DEF PlayersInside, Players, PacedInv
  <2>1. v \in User
    BY Typed, ToSetOf DEF Players
  <2> QED
    BY <1>1, <1>2, <1>3, <1>4, <1>6, <2>1 DEF PacedInv, PlayersInside
<1>13. Inside'
  <2> SUFFICES ASSUME NEW v \in User, NEW p, p = currRoom'[v], p # NoRoom
               PROVE  /\ Open(p)' /\ news[v] = "none" /\ ~inGame[v]
                      /\ \/ Opener(p)' = v /\ pc'[v] = "idle" /\ page'[v] = "hosting"
                         \/ Opener(p)' # v /\ pc'[v] = "idle" /\ page'[v] = "waiting"
    BY <1>1 DEF Inside, Open, Opener
  <2>1. CASE v = u
    BY <1>1, <1>5, <1>6, <1>8, <2>1
  <2>2. CASE v # u
    <3>1. p = currRoom[v] /\ p \in Made
      BY <1>6, <2>2, Typed
    <3> QED
      BY <1>2, <1>6, <1>8, <2>2, <3>1 DEF PacedInv, Inside
  <2> QED
    BY <2>1, <2>2
<1>14. Outside' /\ Started'
  BY <1>1, <1>3, <1>6, <1>7 DEF PacedInv, Outside, Started
<1>15. Working'
  BY <1>6 DEF Working
<1> QED
  BY <1>9, <1>10, <1>11, <1>12, <1>13, <1>14, <1>15 DEF PacedInv

LEMMA ReadQuestionPaced ==
  ASSUME Paced, PacedInv, SeatInv', SeenBelow', NEW u \in User, ReadQuestion(u)
  PROVE  PacedInv'
<1>1. /\ news[u] = "question" /\ page[u] \in {"hosting", "waiting"} /\ pc[u] = "idle"
      /\ page' = [page EXCEPT ![u] = "game"] /\ news' = [news EXCEPT ![u] = "none"]
      /\ UNCHANGED <<roomIdSequence, rooms, roomsList, currRoom, inGame, pc, target, seen, players,
                     gone, crashedBy>>
  BY DEF ReadQuestion, Show, registry, users, threads, history
<1>2. TypeOK /\ Made' = Made
  BY <1>1, Typed DEF Made
<1>3. \A v \in User : /\ page'[v] = IF v = u THEN "game" ELSE page[v]
                      /\ news'[v] = IF v = u THEN "none" ELSE news[v]
  BY <1>1, <1>2 DEF TypeOK
<1>4. currRoom[u] = NoRoom /\ ~Pending(u)
  BY <1>1 DEF PacedInv, Inside, Started
<1>5. \A v : Pending(v)' <=> Pending(v)
  BY <1>1 DEF Pending, Players
<1>6. AllThere' /\ OneAtWork' /\ NumbersApart' /\ KeysAreIds'
  BY <1>1, <1>2 DEF PacedInv, AllThere, OneAtWork, NumbersApart, KeysAreIds, Opener
<1>7. ListedIsOpen' /\ PlayersInside'
  BY <1>1, <1>2
  DEF PacedInv, ListedIsOpen, PlayersInside, Listed, Open, Opener, Ending, Players
<1>8. Inside'
  BY <1>1, <1>3, <1>4 DEF PacedInv, Inside, Open, Opener
<1>9. Outside' /\ Started'
  BY <1>1, <1>3, <1>4, <1>5 DEF PacedInv, Outside, Started
<1>10. Working'
  <2>1. \A v \in User : pc[v] \in {"build", "enter", "setRoom"} => page'[v] = "home"
    BY <1>1, <1>3 DEF PacedInv, Working
  <2> QED
    BY <1>1, <2>1 DEF PacedInv, Working, Open, Opener, Players
<1> QED
  BY <1>6, <1>7, <1>8, <1>9, <1>10 DEF PacedInv

LEMMA FinishGamePaced ==
  ASSUME Paced, PacedInv, SeatInv', SeenBelow', NEW u \in User, FinishGame(u)
  PROVE  PacedInv'
<1>1. Request(u, "game")
  BY DEF FinishGame
<1>2. TypeOK
  BY Typed
<1>3. /\ \A v \in User : pc[v] = "idle" /\ ~Pending(v)
      /\ page[u] = "game"
  BY <1>1, <1>2, AllIdle
<1>4. /\ page' = [page EXCEPT ![u] = "home"] /\ inGame' = [inGame EXCEPT ![u] = FALSE]
      /\ UNCHANGED <<roomIdSequence, rooms, roomsList, currRoom, pc, target, seen, players, news,
                     gone, crashedBy>>
  <2>1. currRoom' = currRoom \/ currRoom' = [currRoom EXCEPT ![u] = NoRoom]
    BY DEF FinishGame
  \* the pointer that is taken is null: a user on the game's page has no room
  <2>2. currRoom[u] = NoRoom
    BY <1>3 DEF PacedInv, Inside
  <2>3. currRoom' = currRoom
    BY <1>2, <2>1, <2>2 DEF TypeOK
  <2> QED
    BY <2>3 DEF FinishGame, Show, registry, threads, history
<1>5. Made' = Made
  BY <1>4 DEF Made
<1>6. \A v \in User : /\ page'[v] = IF v = u THEN "home" ELSE page[v]
                      /\ inGame'[v] = IF v = u THEN FALSE ELSE inGame[v]
  BY <1>2, <1>4 DEF TypeOK
<1>7. currRoom[u] = NoRoom
  BY <1>3 DEF PacedInv, Inside
<1>8. \A v \in User : ~Pending(v)'
  BY <1>3, <1>4 DEF Pending
<1>9. AllThere' /\ OneAtWork' /\ NumbersApart' /\ KeysAreIds'
  BY <1>4, <1>5 DEF PacedInv, AllThere, OneAtWork, NumbersApart, KeysAreIds, Opener
<1>10. ListedIsOpen' /\ PlayersInside'
  BY <1>4, <1>5
  DEF PacedInv, ListedIsOpen, PlayersInside, Listed, Open, Opener, Ending, Players
<1>11. Inside'
  BY <1>4, <1>6, <1>7 DEF PacedInv, Inside, Open, Opener
<1>12. Outside' /\ Started'
  <2>1. ASSUME NEW v \in User, currRoom[v] = NoRoom
        PROVE  /\ page'[v] \in {"home", "game"} => news[v] = "none"
               /\ page'[v] = "home" => ~inGame'[v]
               /\ page'[v] = "waiting" => \/ news[v] = "closed" /\ ~inGame'[v]
                                          \/ news[v] = "question"
               /\ page'[v] = "hosting" => news[v] = "question"
    <3>1. CASE v = u
      BY <1>3, <1>6, <2>1, <3>1 DEF PacedInv, Outside
    <3>2. CASE v # u
      <4>1. page'[v] = page[v] /\ inGame'[v] = inGame[v]
        BY <1>6, <3>2
      <4> QED
        BY <1>3, <2>1, <4>1 DEF PacedInv, Outside
    <3> QED
      BY <3>1, <3>2
  <2>2. Outside'
    BY <1>4, <2>1 DEF Outside
  <2> QED
    BY <1>8, <2>2 DEF Started
<1>13. Working'
  BY <1>3, <1>4 DEF Working
<1> QED
  BY <1>9, <1>10, <1>11, <1>12, <1>13 DEF PacedInv

\* A player that leaves its room is on no list any more, and the room has space.
LEMMA LeaveRoomPaced ==
  ASSUME Paced, PacedInv, SeatInv', SeenBelow', NEW u \in User, LeaveRoom(u)
  PROVE  PacedInv'
<1>1. Request(u, "waiting") /\ (news[u] = "none" \/ news[u] = "closed")
  BY DEF LeaveRoom, Informed, Paced
<1>2. TypeOK /\ NoRoom \notin Made /\ \A p \in Made : rooms[p].admin \in User
  BY Typed
<1>3. /\ \A v \in User : pc[v] = "idle" /\ ~Pending(v)
      /\ page[u] = "waiting"
  BY <1>1, <1>2, AllIdle
<1>4. ~inGame[u]
  BY <1>1, <1>3 DEF PacedInv, Inside, Outside
<1>5. /\ page' = [page EXCEPT ![u] = "home"] /\ news' = [news EXCEPT ![u] = "none"]
      /\ UNCHANGED <<roomIdSequence, roomsList, inGame, target, seen, players, crashedBy>>
  BY DEF LeaveRoom, Show, history
<1>6. \A v \in User : /\ page'[v] = IF v = u THEN "home" ELSE page[v]
                      /\ news'[v] = IF v = u THEN "none" ELSE news[v]
  BY <1>2, <1>5 DEF TypeOK
<1>7. CASE currRoom[u] = NoRoom
  <2>1. UNCHANGED <<rooms, currRoom, pc, gone>>
    BY <1>7 DEF LeaveRoom
  <2>2. Made' = Made /\ \A v \in User : ~Pending(v)'
    BY <1>3, <2>1 DEF Pending, Made
  <2>3. AllThere' /\ OneAtWork' /\ NumbersApart' /\ KeysAreIds'
    BY <1>5, <2>1, <2>2 DEF PacedInv, AllThere, OneAtWork, NumbersApart, KeysAreIds, Opener
  <2>4. ListedIsOpen' /\ PlayersInside'
    BY <1>5, <2>1, <2>2
    DEF PacedInv, ListedIsOpen, PlayersInside, Listed, Open, Opener, Ending, Players
  <2>5. Inside'
    BY <1>5, <1>6, <1>7, <2>1 DEF PacedInv, Inside, Open, Opener
  <2>6. Outside' /\ Started'
    BY <1>3, <1>4, <1>5, <1>6, <2>1, <2>2 DEF PacedInv, Outside, Started
  <2>7. Working'
    BY <1>3, <2>1 DEF Working
  <2> QED
    BY <2>3, <2>4, <2>5, <2>6, <2>7 DEF PacedInv
<1>8. CASE currRoom[u] # NoRoom
  <2>1. PICK o \in Made : o = currRoom[u]
    BY <1>8, Typed
  <2>2. Open(o) /\ Opener(o) # u
    BY <1>3, <1>8, <2>1 DEF PacedInv, Inside
  <2>3. rooms[o].users \in Seq(User) /\ u \in ToSet(rooms[o].users)
    BY <1>8, <2>1, Typed, Counted DEF Players
  <2>4. ~Twice(u, rooms[o].users)
    BY <2>2, <2>3 DEF PacedInv, PlayersInside, Players
  <2>5. PICK s \in Seq(User) : s = RemoveFirst(rooms[o].users, u)
    BY <2>3, OthersStay
  <2>6. /\ \A v : v # u => (v \in ToSet(s) <=> v \in ToSet(rooms[o].users))
        /\ Len(s) = Len(rooms[o].users) - 1
        /\ u \notin ToSet(s)
        /\ \A v \in User : v # u => (Twice(v, s) <=> Twice(v, rooms[o].users))
    BY <2>3, <2>4, <2>5, OthersStay, LeftList, LeftTwice
  <2>7. rooms' = [rooms EXCEPT ![o].users = s]
    BY <1>8, <2>1, <2>5 DEF LeaveRoom, Left
  <2>8. /\ Made' = Made
        /\ \A q \in Made : /\ rooms'[q].users = IF q = o THEN s ELSE rooms[q].users
                           /\ rooms'[q].admin = rooms[q].admin
                           /\ rooms'[q].id = rooms[q].id
                           /\ rooms'[q].maxUsers = rooms[q].maxUsers
    BY <1>2, <2>7, RoomRefilled DEF Made
  <2>9. ~Throws(s)
    BY NothingThrows DEF PacedInv, AllThere
  <2>10. currRoom' = [currRoom EXCEPT ![u] = NoRoom] /\ pc' = pc /\ gone' = gone
    BY <1>8, <2>1, <2>5, <2>9 DEF LeaveRoom, Left
  <2>11. \A v \in User : currRoom'[v] = IF v = u THEN NoRoom ELSE currRoom[v]
    BY <1>2, <2>10 DEF TypeOK
  <2>12. /\ \A v \in User : ~Pending(v)'
         /\ \A p \in Made : ~Ending(p) /\ ~Ending(p)'
    BY <1>2, <1>3, <2>8, <2>10 DEF Pending, Ending, Opener
  <2>13. \A p \in Made : /\ Open(p)' <=> Open(p)
                         /\ Listed(p)' <=> Listed(p)
                         /\ pc[Opener(p)] # "register" /\ pc'[Opener(p)] # "register"
                         /\ Opener(p)' = Opener(p)
    BY <1>2, <1>3, <1>5, <2>1, <2>2, <2>8, <2>10, <2>11 DEF Open, Listed, Opener
  <2>14. AllThere' /\ OneAtWork'
    BY <1>5, <2>10 DEF PacedInv, AllThere, OneAtWork
  <2>15. NumbersApart'
    BY <1>3, <1>5, <2>8, <2>10 DEF PacedInv, NumbersApart
  <2>16. KeysAreIds'
    BY <1>5, <2>8, Typed DEF PacedInv, KeysAreIds
  <2>17. ListedIsOpen'
    BY <2>8, <2>12, <2>13 DEF PacedInv, ListedIsOpen
  <2>18. PlayersInside'
    <3> SUFFICES ASSUME NEW p \in Made, Open(p)
                 PROVE  /\ rooms'[p].maxUsers # 0 => Len(rooms'[p].users) <= rooms'[p].maxUsers
                        /\ \A v \in ToSet(rooms'[p].users) :
                             ~Twice(v, rooms'[p].users) /\ currRoom'[v] = p
      BY <2>8, <2>13 DEF PlayersInside, Players
    <3>1. \A v \in ToSet(rooms[p].users) : v \in User
      BY Typed, ToSetOf
    <3>2. \A v \in ToSet(rooms[p].users) : ~Twice(v, rooms[p].users) /\ currRoom[v] = p
      BY <1>3, <3>1 DEF PacedInv, PlayersInside, Players
    <3>3. rooms[p].maxUsers # 0 => Len(rooms[p].users) <= rooms[p].maxUsers
      BY DEF PacedInv, PlayersInside
    <3>4. CASE p # o
      <4>1. u \notin ToSet(rooms[p].users)
        BY <2>1, <3>2, <3>4
      <4> QED
        BY <2>8, <2>11, <3>1, <3>2, <3>3, <3>4, <4>1
    <3>5. CASE p = o
      <4>1. rooms[o].maxUsers # 0 => Len(s) <= rooms[o].maxUsers
        <5>1. rooms[o].maxUsers \in Nat
          BY LobbyAssumption DEF PacedInv, NumbersApart
        <5>2. Len(rooms[o].users) \in Nat
          BY <2>3
        <5> QED
          BY <2>6, <3>3, <3>5, <5>1, <5>2
      <4>2. \A v \in ToSet(s) : v # u /\ v \in ToSet(rooms[o].users)
        BY <2>6
      <4> QED
        BY <2>6, <2>8, <2>11, <3>1, <3>2, <3>5, <4>1, <4>2
    <3> QED
      BY <3>4, <3>5
  <2>19. Inside'
    <3> SUFFICES ASSUME NEW v \in User, NEW p, p = currRoom'[v], p # NoRoom
                 PROVE  /\ Open(p)' /\ news'[v] = "none" /\ ~inGame[v]
                        /\ \/ Opener(p)' = v /\ pc'[v] = "idle" /\ page'[v] = "hosting"
                           \/ Opener(p)' # v /\ pc'[v] = "idle" /\ page'[v] = "waiting"
      BY <1>5 DEF Inside, Open, Opener
    <3>1. v # u /\ p = currRoom[v] /\ p \in Made
      BY <2>11, Typed
    <3> QED
      BY <1>3, <1>6, <2>10, <2>13, <3>1 DEF PacedInv, Inside
  <2>20. Outside' /\ Started'
    BY <1>3, <1>4, <1>5, <1>6, <2>11, <2>12 DEF PacedInv, Outside, Started
  <2>21. Working'
    BY <1>3, <2>10 DEF Working
  <2> QED
    BY <2>14, <2>15, <2>16, <2>17, <2>18, <2>19, <2>20, <2>21 DEF PacedInv
<1> QED
  BY <1>7, <1>8

\* A room whose host ends it is one no user's pointer leads to any more.
LEMMA EndRoom ==
  ASSUME PacedInv, NEW u \in User, NEW o \in Made,
         currRoom[u] = o, Opener(o) = u,
         \A v \in User : pc[v] = "idle" /\ pc'[v] = (IF v = u THEN "unlist" ELSE "idle"),
         target'[u] = o,
         \A v \in User : currRoom'[v] = IF v \in Players(o) THEN NoRoom ELSE currRoom[v],
         UNCHANGED <<roomIdSequence, rooms, roomsList, gone, crashedBy>>
  PROVE  /\ AllThere' /\ OneAtWork' /\ NumbersApart' /\ KeysAreIds' /\ ListedIsOpen'
         /\ PlayersInside' /\ Working'
         /\ \A v \in Players(o) : /\ v \in User /\ currRoom[v] = o /\ news[v] = "none"
                                  /\ ~inGame[v]
                                  /\ v # u => page[v] = "waiting"
         /\ u \in Players(o)
         /\ \A v \in User : currRoom'[v] # NoRoom =>
              /\ Open(currRoom[v])' /\ v # u
              /\ Opener(currRoom[v])' = Opener(currRoom[v])
<1>1. /\ NoRoom \notin Made /\ Made' = Made
      /\ \A p \in Made : rooms[p].admin \in User /\ rooms[p].users \in Seq(User)
  BY Typed DEF Made
<1>2. /\ \A v \in Players(o) : v \in User /\ currRoom[v] = o
      /\ u \in Players(o)
  <2>1. \A v \in Players(o) : v \in User
    BY <1>1, ToSetOf DEF Players
  <2>2. Open(o)
    BY DEF Open
  <2>3. u \in Players(o)
    BY <1>1, Counted
  <2> QED
    BY <2>1, <2>2, <2>3 DEF PacedInv, PlayersInside
<1>3. \A v \in Players(o) : /\ news[v] = "none" /\ ~inGame[v]
                            /\ v # u => page[v] = "waiting"
  BY <1>1, <1>2 DEF PacedInv, Inside
<1>4. \A p \in Made : Opener(p)' = Opener(p) /\ Players(p)' = Players(p) /\ Opener(p) \in User
  BY <1>1 DEF Opener, Players
<1>5. \A p \in Made : Open(p)' <=> Open(p) /\ p # o
  <2> SUFFICES ASSUME NEW p \in Made, NEW v \in User, v = Opener(p)
               PROVE  currRoom'[v] = p <=> currRoom[v] = p /\ p # o
    BY <1>4 DEF Open
  <2>1. p # NoRoom
    BY <1>1
  <2>2. p = o => v = u
    OBVIOUS
  <2> QED
    BY <1>2, <2>1, <2>2
<1>6. Ending(o)' /\ \A p \in Made : ~Ending(p) /\ (p # o => ~Ending(p)')
  BY <1>4 DEF Ending
<1>7. \A p \in Made : Listed(p)' <=> Listed(p)
  BY DEF Listed
<1>8. ListedIsOpen'
  <2>1. Listed(o)
    BY DEF PacedInv, ListedIsOpen, Open
  <2>2. \A p \in Made : pc[Opener(p)] # "register" /\ pc'[Opener(p)] # "register"
    BY <1>4
  <2>3. ASSUME NEW p \in Made
        PROVE  Listed(p)' <=> Open(p)' \/ Ending(p)'
    <3>1. CASE p = o
      BY <1>5, <1>6, <1>7, <2>1, <3>1
    <3>2. CASE p # o
      BY <1>5, <1>6, <1>7, <2>2, <3>2 DEF PacedInv, ListedIsOpen
    <3> QED
      BY <3>1, <3>2
  <2> QED
    BY <1>1, <1>4, <2>2, <2>3 DEF ListedIsOpen
<1>9. PlayersInside'
  <2> SUFFICES ASSUME NEW p \in Made, p # o, Open(p), NEW v \in Players(p)
               PROVE  /\ rooms[p].maxUsers # 0 => Len(rooms[p].users) <= rooms[p].maxUsers
                      /\ ~Twice(v, rooms[p].users) /\ currRoom'[v] = p
    <3>1. ASSUME NEW p \in Made, p # o, Open(p)
          PROVE  rooms[p].maxUsers # 0 => Len(rooms[p].users) <= rooms[p].maxUsers
      BY <3>1 DEF PacedInv, PlayersInside
    <3> QED
      BY <1>1, <1>4, <1>5, <3>1 DEF PlayersInside
  <2>1. v \in User
    BY <1>1, ToSetOf DEF Players
  <2>2. currRoom[v] = p
    BY <2>1 DEF PacedInv, PlayersInside
  <2> QED
    BY <1>2, <2>1, <2>2 DEF PacedInv, PlayersInside
<1>10. AllThere' /\ OneAtWork' /\ KeysAreIds'
  BY DEF PacedInv, AllThere, OneAtWork, KeysAreIds
<1>11. NumbersApart'
  BY <1>1 DEF PacedInv, NumbersApart
<1>12. Working'
  <2>1. Opener(o)' = u /\ currRoom'[u] = NoRoom
    BY <1>2, <1>4
  <2> QED
    BY <2>1 DEF Working, Opener
<1>13. ASSUME NEW v \in User, currRoom'[v] # NoRoom
       PROVE  /\ Open(currRoom[v])' /\ v # u
              /\ Opener(currRoom[v])' = Opener(currRoom[v])
  <2>1. v \notin Players(o) /\ currRoom[v] # NoRoom
    BY <1>13
  <2>2. PICK p \in Made : p = currRoom[v]
    BY <2>1, Typed
  <2>3. p # o /\ Open(p)
    BY <2>1, <2>2, Counted DEF PacedInv, Inside
  <2>4. currRoom'[v] = currRoom[v]
    BY <2>1
  <2> QED
    BY <1>2, <1>4, <1>5, <2>1, <2>2, <2>3
<1> QED
  BY <1>2, <1>3, <1>8, <1>9, <1>10, <1>11, <1>12, <1>13

\* A host that waits for news has the room it is about to close or start.
LEMMA HostHasRoom ==
  ASSUME Paced, PacedInv, NEW u \in User, Request(u, "hosting"), Informed(u)
  PROVE  /\ \A v \in User : pc[v] = "idle" /\ ~Pending(v)
         /\ page[u] = "hosting" /\ news[u] = "none" /\ ~inGame[u]
         /\ currRoom[u] # NoRoom /\ currRoom[u] \in Made /\ Opener(currRoom[u]) = u
<1>1. /\ \A v \in User : pc[v] = "idle" /\ ~Pending(v)
      /\ page[u] = "hosting"
  BY AllIdle, Typed
<1>2. news[u] = "none"
  BY DEF Informed, Paced
<1>3. currRoom[u] # NoRoom
  BY <1>1, <1>2 DEF PacedInv, Outside
<1> QED
  BY <1>1, <1>2, <1>3, Typed DEF PacedInv, Inside

LEMMA CloseRoomPaced ==
  ASSUME Paced, PacedInv, SeatInv', SeenBelow', NEW u \in User, CloseRoom(u)
  PROVE  PacedInv'
<1>1. Request(u, "hosting") /\ Informed(u)
  BY DEF CloseRoom
<1>2. TypeOK
  BY Typed
<1>3. /\ \A v \in User : pc[v] = "idle" /\ ~Pending(v)
      /\ page[u] = "hosting" /\ news[u] = "none" /\ ~inGame[u]
      /\ currRoom[u] # NoRoom /\ currRoom[u] \in Made /\ Opener(currRoom[u]) = u
  BY <1>1, HostHasRoom
<1>4. PICK o \in Made : o = currRoom[u]
  BY <1>3
<1>5. ~Throws(rooms[o].users) /\ Reached(rooms[o].users) = Players(o)
  BY <1>4, Typed, NothingThrows DEF PacedInv, AllThere, Players
<1>6. /\ currRoom' = [v \in User |-> IF v \in Players(o) THEN NoRoom ELSE currRoom[v]]
      /\ news' = [v \in User |-> IF v \in Players(o) \ {u} THEN "closed" ELSE news[v]]
      /\ page' = [page EXCEPT ![u] = "home"]
      /\ target' = [target EXCEPT ![u] = o]
      /\ players' = [players EXCEPT ![u] = {}]
      /\ pc' = [pc EXCEPT ![u] = "unlist"]
      /\ UNCHANGED <<roomIdSequence, rooms, roomsList, inGame, gone, crashedBy>>
  BY <1>3, <1>4, <1>5 DEF CloseRoom, Show, Goto, registry
<1>7. /\ \A v \in User : /\ pc'[v] = IF v = u THEN "unlist" ELSE "idle"
                         /\ currRoom'[v] = IF v \in Players(o) THEN NoRoom ELSE currRoom[v]
                         /\ news'[v] = IF v \in Players(o) \ {u} THEN "closed" ELSE news[v]
                         /\ page'[v] = IF v = u THEN "home" ELSE page[v]
      /\ target'[u] = o /\ players'[u] = {}
  BY <1>2, <1>3, <1>6 DEF TypeOK
<1>8. Opener(o) = u
  BY <1>3, <1>4
<1>9. /\ AllThere' /\ OneAtWork' /\ NumbersApart' /\ KeysAreIds' /\ ListedIsOpen'
      /\ PlayersInside' /\ Working'
      /\ \A v \in Players(o) : /\ v \in User /\ currRoom[v] = o /\ news[v] = "none"
                               /\ ~inGame[v]
                               /\ v # u => page[v] = "waiting"
      /\ u \in Players(o)
      /\ \A v \in User : currRoom'[v] # NoRoom =>
           /\ Open(currRoom[v])' /\ v # u
           /\ Opener(currRoom[v])' = Opener(currRoom[v])
  BY <1>3, <1>4, <1>6, <1>7, <1>8, EndRoom
<1>10. \A v \in User : ~Pending(v)'
  BY <1>7 DEF Pending
<1>11. Inside'
  <2> SUFFICES ASSUME NEW v \in User, currRoom'[v] # NoRoom
               PROVE  /\ news'[v] = "none" /\ ~inGame[v]
                      /\ \/ Opener(currRoom[v])' = v /\ pc'[v] = "idle" /\ page'[v] = "hosting"
                         \/ Opener(currRoom[v])' # v /\ pc'[v] = "idle" /\ page'[v] = "waiting"
    BY <1>6, <1>9 DEF Inside
  <2>1. v \notin Players(o) /\ v # u /\ currRoom[v] # NoRoom
    BY <1>7, <1>9
  <2>2. Opener(currRoom[v])' = Opener(currRoom[v])
    BY <1>9
  <2> QED
    BY <1>3, <1>7, <2>1, <2>2 DEF PacedInv, Inside
<1>12. Outside'
  <2>1. ASSUME NEW v \in User, currRoom'[v] = NoRoom
        PROVE  /\ page'[v] \in {"home", "game"} => news'[v] = "none"
               /\ page'[v] = "home" => ~inGame[v]
               /\ page'[v] = "waiting" => \/ news'[v] = "closed" /\ ~inGame[v]
                                          \/ news'[v] = "question"
               /\ page'[v] = "hosting" => news'[v] = "question"
    <3>1. CASE v = u
      BY <1>3, <1>7, <3>1
    <3>2. CASE v # u /\ v \in Players(o)
      BY <1>7, <1>9, <3>2
    <3>3. CASE v # u /\ v \notin Players(o)
      BY <1>3, <1>7, <2>1, <3>3 DEF PacedInv, Outside
    <3> QED
      BY <3>1, <3>2, <3>3
  <2> QED
    BY <1>6, <2>1 DEF Outside
<1> QED
  BY <1>9, <1>10, <1>11, <1>12 DEF PacedInv, Started

LEMMA StartGamePaced ==
  ASSUME Paced, PacedInv, SeatInv', SeenBelow', NEW u \in User, StartGame(u)
  PROVE  PacedInv'
<1>1. Request(u, "hosting") /\ Informed(u)
  BY DEF StartGame
<1>2. TypeOK
  BY Typed
<1>3. /\ \A v \in User : pc[v] = "idle" /\ ~Pending(v)
      /\ page[u] = "hosting" /\ news[u] = "none" /\ ~inGame[u]
      /\ currRoom[u] # NoRoom /\ currRoom[u] \in Made /\ Opener(currRoom[u]) = u
  BY <1>1, HostHasRoom
<1>4. PICK o \in Made : o = currRoom[u]
  BY <1>3
<1>5. /\ currRoom' = [v \in User |-> IF v \in Players(o) THEN NoRoom ELSE currRoom[v]]
      /\ inGame' = [v \in User |-> inGame[v] \/ v \in Players(o)]
      /\ target' = [target EXCEPT ![u] = o]
      /\ players' = [players EXCEPT ![u] = Players(o)]
      /\ pc' = [pc EXCEPT ![u] = "unlist"]
      /\ UNCHANGED <<roomIdSequence, rooms, roomsList, page, news, gone, crashedBy>>
  BY <1>3, <1>4 DEF StartGame, Goto, registry, clients, Players
<1>6. /\ \A v \in User : /\ pc'[v] = IF v = u THEN "unlist" ELSE "idle"
                         /\ currRoom'[v] = IF v \in Players(o) THEN NoRoom ELSE currRoom[v]
                         /\ v \notin Players(o) => inGame'[v] = inGame[v]
      /\ target'[u] = o /\ players'[u] = Players(o)
  <2>1. \A v \in User : v \notin Players(o) => inGame'[v] = inGame[v]
    BY <1>2, <1>5, Zenon DEF TypeOK
  <2> QED
    BY <1>2, <1>3, <1>5, <2>1 DEF TypeOK
<1>7. Opener(o) = u
  BY <1>3, <1>4
<1>8. /\ AllThere' /\ OneAtWork' /\ NumbersApart' /\ KeysAreIds' /\ ListedIsOpen'
      /\ PlayersInside' /\ Working'
      /\ \A v \in Players(o) : /\ v \in User /\ currRoom[v] = o /\ news[v] = "none"
                               /\ ~inGame[v]
                               /\ v # u => page[v] = "waiting"
      /\ u \in Players(o)
      /\ \A v \in User : currRoom'[v] # NoRoom =>
           /\ Open(currRoom[v])' /\ v # u
           /\ Opener(currRoom[v])' = Opener(currRoom[v])
  BY <1>3, <1>4, <1>5, <1>6, <1>7, EndRoom
<1>9. \A v \in User : Pending(v)' <=> v \in Players(o)
  BY <1>6 DEF Pending
<1>10. Inside'
  <2> SUFFICES ASSUME NEW v \in User, currRoom'[v] # NoRoom
               PROVE  /\ news[v] = "none" /\ ~inGame'[v]
                      /\ \/ Opener(currRoom[v])' = v /\ pc'[v] = "idle" /\ page[v] = "hosting"
                         \/ Opener(currRoom[v])' # v /\ pc'[v] = "idle" /\ page[v] = "waiting"
    BY <1>5, <1>8 DEF Inside
  <2>1. v \notin Players(o) /\ v # u /\ currRoom[v] # NoRoom
    BY <1>6, <1>8
  <2>2. Opener(currRoom[v])' = Opener(currRoom[v])
    BY <1>8
  <2> QED
    BY <1>3, <1>6, <2>1, <2>2 DEF PacedInv, Inside
<1>11. Outside'
  <2>1. ASSUME NEW v \in User, currRoom'[v] = NoRoom
        PROVE  /\ page[v] \in {"home", "game"} => news[v] = "none"
               /\ page[v] = "home" => ~inGame'[v]
               /\ page[v] = "waiting" => \/ news[v] = "closed" /\ ~inGame'[v]
                                         \/ news[v] = "question"
                                         \/ Pending(v)'
               /\ page[v] = "hosting" => news[v] = "question" \/ Pending(v)'
    <3>1. CASE v \in Players(o)
      <4>1. page[v] \in {"waiting", "hosting"}
        BY <1>3, <1>8, <3>1
      <4> QED
        BY <1>9, <3>1, <4>1
    <3>2. CASE v \notin Players(o)
      BY <1>3, <1>6, <2>1, <3>2 DEF PacedInv, Outside
    <3> QED
      BY <3>1, <3>2
  <2> QED
    BY <1>5, <2>1 DEF Outside
<1>12. Started'
  <2> SUFFICES ASSUME NEW v \in User, v \in Players(o)
               PROVE  currRoom'[v] = NoRoom /\ page[v] \in {"hosting", "waiting"} /\ news[v] = "none"
    BY <1>5, <1>9 DEF Started
  <2> QED
    BY <1>3, <1>6, <1>8
<1> QED
  BY <1>8, <1>10, <1>11, <1>12 DEF PacedInv

\* What is taken off the list is the room that was closed or started.
LEMMA TakesItsRoom ==
  ASSUME PacedInv, NEW u \in User, pc[u] = "unlist"
  PROVE  /\ target[u] \in Made /\ rooms[target[u]].id \in Objects
         /\ roomsList[rooms[target[u]].id] = target[u]
         /\ \A k \in Objects : roomsList[k] = target[u] => k = rooms[target[u]].id
<1>1. PICK o \in Made : o = target[u]
  BY Typed
<1>2. Opener(o) = u
  BY <1>1 DEF PacedInv, Working
<1>3. Listed(o) /\ o # NoRoom
  BY <1>1, <1>2, Typed DEF PacedInv, ListedIsOpen, Ending
<1>4. \A k \in Objects : roomsList[k] = o => k = rooms[o].id
  BY <1>3 DEF PacedInv, KeysAreIds
<1> QED
  BY <1>1, <1>3, <1>4 DEF Listed

LEMMA UnlistPaced ==
  ASSUME Paced, PacedInv, SeatInv', SeenBelow', NEW u \in User, Unlist(u)
  PROVE  PacedInv'
<1>1. /\ pc[u] = "unlist"
      /\ UNCHANGED <<roomIdSequence, rooms, currRoom, inGame, target, seen, players, page, gone,
                     crashedBy>>
  BY DEF Unlist, users, history
<1>2. \A v \in User : v # u => pc[v] = "idle"
  BY <1>1 DEF PacedInv, OneAtWork
<1>3. TypeOK /\ NoRoom \notin Made /\ Made' = Made /\ \A p \in Made : rooms[p].admin \in User
  BY <1>1, Typed DEF Made
<1>4. PICK o \in Made : o = target[u]
  BY <1>1, Typed
<1>5. Opener(o) = u /\ currRoom[u] = NoRoom
  BY <1>1, <1>4 DEF PacedInv, Working
<1>6. PICK key \in Objects : key = rooms[o].id
  BY <1>1, <1>4, TakesItsRoom
<1>7. /\ roomsList[key] = o
      /\ \A k \in Objects : roomsList[k] = o => k = key
  BY <1>1, <1>4, <1>6, TakesItsRoom
<1>8. /\ \A k \in Objects : roomsList'[k] = IF k = key THEN NoRoom ELSE roomsList[k]
      /\ \A v \in User : pc'[v] = "idle"
  BY <1>2, <1>3, <1>4, <1>6 DEF Unlist, Goto, TypeOK
<1>9. \A v \in User : news'[v] = IF v \in players[u] THEN "question" ELSE news[v]
  BY DEF Unlist, Asked, PacedInv, AllThere
<1>10. /\ \A v \in User : Pending(v) <=> v \in players[u]
       /\ \A v \in User : ~Pending(v)'
  BY <1>1, <1>2, <1>8 DEF Pending
<1>11. \A p \in Made : /\ ~Ending(p)'
                       /\ p # o => ~Ending(p)
                       /\ Open(p)' <=> Open(p)
                       /\ Opener(p)' = Opener(p)
                       /\ pc[Opener(p)] # "register" /\ pc'[Opener(p)] # "register"
  BY <1>1, <1>2, <1>3, <1>4, <1>8 DEF Ending, Open, Opener
<1>12. AllThere' /\ OneAtWork'
  BY <1>1, <1>8 DEF PacedInv, AllThere, OneAtWork
<1>13. NumbersApart'
  BY <1>1, <1>3, <1>8 DEF PacedInv, NumbersApart
<1>14. KeysAreIds'
  BY <1>1, <1>8 DEF PacedInv, KeysAreIds
<1>15. ListedIsOpen'
  <2>1. ~Listed(o)' /\ ~Open(o)
    BY <1>3, <1>5, <1>7, <1>8 DEF Listed, Open
  <2>2. \A p \in Made : p # o => (Listed(p)' <=> Listed(p))
    BY <1>3, <1>7, <1>8 DEF Listed
  <2> QED
    BY <1>3, <1>11, <2>1, <2>2 DEF PacedInv, ListedIsOpen
<1>16. PlayersInside'
  <2>1. \A p \in Made : \A v \in Players(p) : v \in User
    BY Typed, ToSetOf DEF Players
  <2>2. \A v \in User : pc[v] # "setRoom"
    BY <1>1, <1>2
  <2> QED
    BY <1>1, <1>3, <1>11, <2>1, <2>2 DEF PacedInv, PlayersInside, Players
<1>17. Inside'
  <2> SUFFICES ASSUME NEW v \in User, NEW p, p = currRoom[v], p # NoRoom
               PROVE  /\ Open(p)' /\ news'[v] = "none" /\ ~inGame[v]
                      /\ \/ Opener(p)' = v /\ pc'[v] = "idle" /\ page[v] = "hosting"
                         \/ Opener(p)' # v /\ pc'[v] = "idle" /\ page[v] = "waiting"
    BY <1>1 DEF Inside, Open, Opener
  <2>1. p \in Made /\ v # u /\ ~Pending(v)
    BY <1>5, Typed DEF PacedInv, Started
  <2> QED
    BY <1>2, <1>8, <1>9, <1>10, <1>11, <2>1 DEF PacedInv, Inside
<1>18. Outside'
  <2> SUFFICES ASSUME NEW v \in User, currRoom[v] = NoRoom
               PROVE  /\ page[v] \in {"home", "game"} => news'[v] = "none"
                      /\ page[v] = "home" => ~inGame[v]
                      /\ page[v] = "waiting" => \/ news'[v] = "closed" /\ ~inGame[v]
                                                \/ news'[v] = "question"
                      /\ page[v] = "hosting" => news'[v] = "question"
    BY <1>1 DEF Outside
  <2>1. CASE Pending(v)
    <3>1. news'[v] = "question" /\ page[v] \in {"hosting", "waiting"}
      BY <1>9, <1>10, <2>1 DEF PacedInv, Started
    <3> QED
      BY <3>1
  <2>2. CASE ~Pending(v)
    <3>1. news'[v] = news[v]
      BY <1>9, <1>10, <2>2
    <3> QED
      BY <2>2, <3>1 DEF PacedInv, Outside
  <2> QED
    BY <2>1, <2>2
<1>19. Started' /\ Working'
  BY <1>8, <1>10 DEF Started, Working
<1> QED
  BY <1>12, <1>13, <1>14, <1>15, <1>16, <1>17, <1>18, <1>19 DEF PacedInv

LEMMA NextPaced == ASSUME Paced PROVE PacedInv /\ [Next]_vars => PacedInv'
<1> SUFFICES ASSUME PacedInv, [Next]_vars PROVE PacedInv'
  OBVIOUS
<1>0. SeatInv' /\ SeenBelow'
  BY NextSeat, NextSeen DEF PacedInv, SeatInv
<1>1. CASE UNCHANGED vars
  BY <1>0, <1>1
  DEF vars, registry, users, threads, clients, history, PacedInv, AllThere, OneAtWork, NumbersApart,
      KeysAreIds, ListedIsOpen, PlayersInside, Inside, Outside, Started, Working, Made, Open,
      Opener, Players, Ending, Pending, Listed
<1>2. ASSUME NEW u \in User, Vanish(u) PROVE FALSE
  BY <1>2 DEF Vanish, Paced
<1>3. CASE Next
  BY <1>0, <1>2, <1>3, CreateRoomPaced, NumberRoomPaced, BuildRoomPaced, RegisterRoomPaced,
     JoinRoomPaced,
     EnterRoomPaced, SetRoomPaced, LeaveRoomPaced, CloseRoomPaced, StartGamePaced,
     UnlistPaced, ReadQuestionPaced, FinishGamePaced DEF Next
<1> QED
  BY <1>1, <1>3

LEMMA PacedAlways == ASSUME Paced PROVE Spec => []PacedInv
BY InitPaced, NextPaced, PTL DEF Spec

-----------------------------------------------------------------------------
(* The theorems *)

\* While requests are paced, server and client agree between them: a user's
\* pointer leads to a listed room that counts it, and the page its client shows
\* is the page for it (Room, User and the pages of the client).
THEOREM PagesAgree == ASSUME Paced PROVE Spec => []Agreement
<1>1. ASSUME PacedInv PROVE Agreement
  <2> SUFFICES ASSUME Busy = {}, NEW u \in User, NEW o, o = currRoom[u]
               PROVE  /\ o # NoRoom => Listed(o) /\ u \in ToSet(rooms[o].users)
                      /\ page[u] = "home" => o = NoRoom /\ ~inGame[u]
                      /\ (page[u] \in {"hosting", "waiting"} /\ news[u] = "none")
                           => o # NoRoom
    BY DEF Agreement
  <2>1. \A v \in User : pc[v] = "idle" /\ ~Pending(v)
    BY DEF Busy, Pending
  <2>2. ASSUME o # NoRoom PROVE Listed(o) /\ u \in ToSet(rooms[o].users) /\ page[u] # "home"
    <3>1. o \in Made /\ Open(o) /\ rooms[o].admin \in User
      BY <1>1, <2>2, Typed DEF PacedInv, Inside
    <3>2. Listed(o)
      BY <1>1, <2>1, <3>1 DEF PacedInv, ListedIsOpen, Opener
    <3>3. u \in ToSet(rooms[o].users)
      BY <1>1, <2>2, Counted DEF Players
    <3> QED
      BY <1>1, <2>1, <2>2, <3>2, <3>3 DEF PacedInv, Inside
  <2>3. ASSUME o = NoRoom
        PROVE  /\ page[u] = "home" => ~inGame[u]
               /\ page[u] \in {"hosting", "waiting"} => news[u] # "none"
    BY <1>1, <2>1, <2>3 DEF PacedInv, Outside
  <2> QED
    BY <2>2, <2>3
<1> QED
  BY <1>1, PacedAlways, PTL

\* While requests are paced, what a start takes off the list is the room it
\* starts (TriviaServer::handleStartGame): the number a room carries is the key
\* it was put under.
THEOREM StartErasesItsRoom == ASSUME Paced PROVE Spec => []ErasesItsRoom
<1>1. ASSUME PacedInv PROVE ErasesItsRoom
  BY <1>1, TakesItsRoom DEF ErasesItsRoom
<1> QED
  BY <1>1, PacedAlways, PTL

\* While requests are paced, nobody follows a null pointer to a room.
THEOREM PacedLobbyStaysUp == ASSUME Paced PROVE Spec => []up
<1>1. ASSUME PacedInv PROVE up
  BY <1>1 DEF PacedInv, AllThere, up
<1> QED
  BY <1>1, PacedAlways, PTL

-----------------------------------------------------------------------------
(* The rooms on the list are those of Rooms.  A room for nobody, which the  *)
(* page for new rooms lets through, is never full, so there is none here.   *)

\* What Rooms sees of room o
Shown(o) == IF Listed(o)
              THEN [host |-> {rooms[o].admin}, capacity |-> rooms[o].maxUsers,
                    members |-> ToSet(rooms[o].users)]
              ELSE [host |-> {}, capacity |-> 0, members |-> {}]

View == [o \in Objects |-> Shown(o)]

\* A list has at least as many places as there are users on it.
LEMMA PlacesSuffice ==
  ASSUME NEW s \in Seq(User)
  PROVE  IsFiniteSet(ToSet(s)) /\ Cardinality(ToSet(s)) <= Len(s)
<1> DEFINE I == 1 .. Len(s)
           T == ToSet(s)
           f == [i \in I |-> s[i]]
<1>1. Len(s) \in Nat
  OBVIOUS
<1>2. IsFiniteSet(I) /\ Cardinality(I) = Len(s)
  BY <1>1, FS_Interval
<1>3. f \in Surjection(I, T)
  BY DEF Surjection, ToSet
<1> HIDE DEF I, T, f
<1>4. IsFiniteSet(T) /\ Cardinality(T) <= Cardinality(I)
  BY <1>2, <1>3, FS_Surjection
<1> QED
  BY <1>2, <1>4 DEF T

\* There is a place in Rooms for every room that is made.
LEMMA MadeIsSeen == PacedInv => Made \subseteq Objects
<1> SUFFICES ASSUME PacedInv, NEW o \in Made PROVE o \in Objects
  OBVIOUS
<1>1. TypeOK /\ Len(rooms) \in Nat
  BY Typed
<1>2. Len(rooms) <= MaxRooms /\ MaxRooms \in Nat
  BY <1>1, LobbyAssumption DEF TypeOK
<1> QED
  BY <1>1, <1>2 DEF Made, Objects

\* A room with other members is otherwise the same.
LEMMA OtherMembers ==
  ASSUME NEW r, NEW h, NEW c, NEW m, NEW n,
         r = [host |-> h, capacity |-> c, members |-> m]
  PROVE  [r EXCEPT !.members = n] = [host |-> h, capacity |-> c, members |-> n]
OBVIOUS

\* Rooms counts as Lobby does.
LEMMA SameCount == \A S : RoomsView!Cardinality(S) = Cardinality(S)
BY DEF RoomsView!Cardinality, Cardinality

\* Only one room looks different.
LEMMA OneRoomShown ==
  ASSUME NEW o \in Objects, \A p \in Objects \ {o} : Shown(p)' = Shown(p)
  PROVE  View' = [View EXCEPT ![o] = Shown(o)']
BY DEF View

\* All rooms look as they did.
LEMMA RoomsShownAsBefore ==
  ASSUME \A p \in Objects : Shown(p)' = Shown(p)
  PROVE  View' = View
BY DEF View

\* Whoever is about to enter or register a room is in no other.
LEMMA NowhereElse ==
  ASSUME PacedInv, NEW u \in User, pc[u] \in {"register", "enter"}
  PROVE  \A p \in Objects : Listed(p) => u \notin ToSet(rooms[p].users)
<1> SUFFICES ASSUME NEW p \in Objects, Listed(p), u \in ToSet(rooms[p].users)
             PROVE  FALSE
  OBVIOUS
<1>1. p \in Made /\ rooms[p].admin \in User /\ p # NoRoom
  <2>1. p # NoRoom
    BY DEF Objects, NoRoom
  <2> QED
    BY <2>1, Typed DEF Listed
<1>2. \A v \in User : v # u => pc[v] = "idle"
  BY DEF PacedInv, OneAtWork
<1>3. Open(p) /\ pc[Opener(p)] # "register"
  BY <1>1, <1>2 DEF PacedInv, ListedIsOpen, Ending, Opener
<1>4. currRoom[u] = p
  BY <1>1, <1>3 DEF PacedInv, PlayersInside, Players
<1>5. pc[u] # "enter"
  BY <1>1, <1>4 DEF PacedInv, Working
<1>6. Opener(p) = u
  BY <1>1, <1>4, <1>5 DEF PacedInv, Inside
<1> QED
  BY <1>3, <1>5, <1>6

LEMMA RegisterOpens ==
  ASSUME Paced, PacedInv, PacedInv', NEW u \in User, RegisterRoom(u)
  PROVE  \E o \in Objects :
           /\ View[o] = [host |-> {}, capacity |-> 0, members |-> {}]
           /\ \A p \in Objects : u \notin View[p].members
           /\ \E c \in MaxUsersOf :
                View' = [View EXCEPT ![o] = [host |-> {u}, capacity |-> c, members |-> {u}]]
<1>0. pc[u] = "register" /\ currRoom[u] # NoRoom
  <2>1. pc[u] = "register"
    BY DEF RegisterRoom
  <2>2. target[u] = currRoom[u] /\ target[u] \in Made /\ NoRoom \notin Made
    BY <2>1, Typed DEF PacedInv, NumbersApart
  <2> QED
    BY <2>1, <2>2
<1>1. pc[u] = "register" /\ UNCHANGED <<roomIdSequence, rooms, currRoom>>
  BY <1>0 DEF RegisterRoom, users
<1>2. TypeOK /\ NoRoom \notin Made /\ Len(rooms) \in Nat /\ \A p \in Made : rooms[p].admin \in User
  BY Typed
<1>3. PICK o \in Made : o = target[u]
  BY <1>1, Typed
<1>4. PICK key : key = roomIdSequence
  OBVIOUS
<1>5. /\ currRoom[u] = o /\ rooms[o].id = key /\ rooms[o].admin = u /\ rooms[o].users = <<u>>
      /\ rooms[o].maxUsers \in MaxUsersOf /\ key \in Objects
  BY <1>1, <1>2, <1>3, <1>4 DEF PacedInv, NumbersApart, Opener, TypeOK, Objects
<1>6. o \in Objects
  BY MadeIsSeen
<1>7. \A v \in User : v # u => pc[v] = "idle"
  BY <1>1 DEF PacedInv, OneAtWork
<1>8. ~Listed(o)
  BY <1>1, <1>5, <1>7 DEF PacedInv, ListedIsOpen, Ending, Opener
<1>9. roomsList[key] = NoRoom
  <2> SUFFICES ASSUME roomsList[key] # NoRoom PROVE FALSE
    OBVIOUS
  <2>1. roomsList[key] \in Made /\ rooms[roomsList[key]].id = key
    BY <1>5, Typed DEF PacedInv, KeysAreIds
  <2>2. roomsList[key] = o
    BY <1>5, <2>1 DEF PacedInv, NumbersApart
  <2> QED
    BY <1>5, <1>8, <2>2 DEF Listed
<1>10. \A k \in Objects : roomsList'[k] = IF k = key THEN o ELSE roomsList[k]
  BY <1>0, <1>2, <1>4, <1>5, <1>9 DEF RegisterRoom, TypeOK
<1>11. Listed(o)' /\ \A p \in Objects \ {o} : Listed(p)' <=> Listed(p)
  <2>1. \A p \in Objects : p # NoRoom
    BY DEF Objects, NoRoom
  <2> QED
    BY <1>5, <1>9, <1>10, <2>1 DEF Listed
<1>12. \A p \in Objects \ {o} : Shown(p)' = Shown(p)
  BY <1>1, <1>11 DEF Shown
<1>13. Shown(o)' = [host |-> {u}, capacity |-> rooms[o].maxUsers, members |-> {u}]
  <2>1. ToSet(<<u>>) = {u}
    BY DEF ToSet
  <2> QED
    BY <1>1, <1>5, <1>11, <2>1 DEF Shown
<1>14. View[o] = [host |-> {}, capacity |-> 0, members |-> {}]
  BY <1>6, <1>8 DEF View, Shown
<1>15. \A p \in Objects : u \notin View[p].members
  BY <1>1, NowhereElse DEF View, Shown
<1> QED
  BY <1>5, <1>6, <1>12, <1>13, <1>14, <1>15, OneRoomShown

LEMMA EnterJoins ==
  ASSUME Paced, 0 \notin MaxUsersOf, PacedInv, NEW u \in User, EnterRoom(u)
  PROVE  \E o \in Objects :
           /\ View[o].host # {}
           /\ \A p \in Objects : u \notin View[p].members
           /\ Cardinality(View[o].members) < View[o].capacity
           /\ View' = [View EXCEPT ![o].members = @ \cup {u}]
<1>1. /\ pc[u] = "enter" /\ page[u] = "home" /\ ~inGame[u]
      /\ UNCHANGED <<roomsList>>
  BY DEF EnterRoom, PacedInv, Working, Outside
<1>2. TypeOK /\ Len(rooms) \in Nat /\ \A p \in Made : rooms[p].admin \in User
  BY Typed
<1>3. PICK o \in Made : o = target[u]
  BY <1>1, Typed
<1>4. o \in Objects
  BY MadeIsSeen
<1>5. \A v \in User : pc[v] # "register"
  BY <1>1 DEF PacedInv, OneAtWork
<1>6. Open(o) /\ Listed(o)
  BY <1>1, <1>2, <1>3, <1>5 DEF PacedInv, Working, ListedIsOpen, Opener
<1>7. PICK s : s = rooms[o].users
  OBVIOUS
<1>8. s \in Seq(User)
  BY <1>7, Typed
<1>9. View[o] = [host |-> {rooms[o].admin}, capacity |-> rooms[o].maxUsers, members |-> ToSet(s)]
  BY <1>4, <1>6, <1>7 DEF View, Shown
<1>10. Cardinality(ToSet(s)) < rooms[o].maxUsers
  <2>1. rooms[o].maxUsers \in Nat /\ rooms[o].maxUsers # 0
    BY LobbyAssumption DEF PacedInv, NumbersApart
  <2>2. Len(s) < rooms[o].maxUsers
    BY <1>1, <1>3, <1>7, <2>1 DEF PacedInv, Working
  <2>3. Len(s) \in Nat /\ IsFiniteSet(ToSet(s)) /\ Cardinality(ToSet(s)) <= Len(s)
    BY <1>8, PlacesSuffice
  <2>4. Cardinality(ToSet(s)) \in Nat
    BY <2>3, FS_CardinalityType
  <2> QED
    BY <2>1, <2>2, <2>3, <2>4
<1>11. PICK t \in Seq(User) : t = Append(s, u) /\ ToSet(t) = ToSet(s) \cup {u}
  BY <1>8, JoinedList
<1>12. rooms' = [rooms EXCEPT ![o].users = t]
  BY <1>1, <1>3, <1>7, <1>11 DEF EnterRoom
<1>13. \A q \in Made : /\ rooms'[q].users = IF q = o THEN t ELSE rooms[q].users
                       /\ rooms'[q].admin = rooms[q].admin
                       /\ rooms'[q].maxUsers = rooms[q].maxUsers
  BY <1>2, <1>12, RoomRefilled DEF Made
<1>14. \A p \in Objects : (Listed(p)' <=> Listed(p)) /\ (Listed(p) => p \in Made)
  <2>1. \A p \in Objects : p # NoRoom
    BY DEF Objects, NoRoom
  <2> QED
    BY <1>1, <2>1, Typed DEF Listed
<1>15. \A p \in Objects \ {o} : Shown(p)' = Shown(p)
  BY <1>13, <1>14 DEF Shown
<1>16. Shown(o)' = [View[o] EXCEPT !.members = View[o].members \cup {u}]
  <2>1. Shown(o)' = [host |-> {rooms[o].admin}, capacity |-> rooms[o].maxUsers,
                     members |-> ToSet(t)]
    BY <1>4, <1>6, <1>13, <1>14 DEF Shown
  <2>2. View[o].members \cup {u} = ToSet(t)
    BY <1>9, <1>11
  <2>3. [View[o] EXCEPT !.members = ToSet(t)]
          = [host |-> {rooms[o].admin}, capacity |-> rooms[o].maxUsers, members |-> ToSet(t)]
    <3>1. PICK r, h, c, m, n :
            /\ r = View[o] /\ h = {rooms[o].admin} /\ c = rooms[o].maxUsers
            /\ m = ToSet(s) /\ n = ToSet(t)
      OBVIOUS
    <3>2. r = [host |-> h, capacity |-> c, members |-> m]
      BY <1>9, <3>1
    <3>3. [r EXCEPT !.members = n] = [host |-> h, capacity |-> c, members |-> n]
      BY <3>2, OtherMembers
    <3> QED
      BY <3>1, <3>3, Zenon
  <2> QED
    BY <2>1, <2>2, <2>3, Zenon
<1>17. View' = [View EXCEPT ![o] = [View[o] EXCEPT !.members = View[o].members \cup {u}]]
  BY <1>4, <1>15, <1>16, OneRoomShown
<1>18. View' = [View EXCEPT ![o].members = @ \cup {u}]
  BY <1>17
<1>19. \A p \in Objects : u \notin View[p].members
  BY <1>1, NowhereElse DEF View, Shown
<1>20. View[o].host # {} /\ Cardinality(View[o].members) < View[o].capacity
  BY <1>9, <1>10
<1> QED
  BY <1>4, <1>18, <1>19, <1>20

LEMMA LeaveLeaves ==
  ASSUME Paced, PacedInv, NEW u \in User, LeaveRoom(u), currRoom[u] # NoRoom
  PROVE  \E o \in Objects : /\ u \in View[o].members \ View[o].host
                            /\ View' = [View EXCEPT ![o].members = @ \ {u}]
<1>1. Request(u, "waiting") /\ UNCHANGED roomsList
  BY DEF LeaveRoom
<1>2. TypeOK /\ Len(rooms) \in Nat /\ \A p \in Made : rooms[p].admin \in User
  BY Typed
<1>3. /\ \A v \in User : pc[v] = "idle"
      /\ page[u] = "waiting"
  BY <1>1, <1>2, AllIdle
<1>4. PICK o \in Made : o = currRoom[u]
  BY Typed
<1>5. o \in Objects
  BY MadeIsSeen
<1>6. Open(o) /\ Opener(o) # u
  BY <1>3, <1>4 DEF PacedInv, Inside
<1>7. Listed(o)
  BY <1>2, <1>3, <1>6 DEF PacedInv, ListedIsOpen, Opener
<1>8. PICK s : s = rooms[o].users
  OBVIOUS
<1>9. s \in Seq(User) /\ u \in ToSet(s)
  BY <1>4, <1>8, Typed, Counted DEF Players
<1>10. ~Twice(u, s)
  BY <1>6, <1>8, <1>9 DEF PacedInv, PlayersInside, Players
<1>11. PICK t \in Seq(User) : t = RemoveFirst(s, u)
  BY <1>9, OthersStay
<1>12. ToSet(t) = ToSet(s) \ {u}
  <2>1. \A v : v # u => (v \in ToSet(t) <=> v \in ToSet(s))
    BY <1>9, <1>11, OthersStay
  <2>2. u \notin ToSet(t)
    BY <1>9, <1>10, <1>11, LeftTwice
  <2> QED
    BY <2>1, <2>2
<1>13. rooms' = [rooms EXCEPT ![o].users = t]
  BY <1>4, <1>8, <1>11 DEF LeaveRoom, Left
<1>14. \A q \in Made : /\ rooms'[q].users = IF q = o THEN t ELSE rooms[q].users
                       /\ rooms'[q].admin = rooms[q].admin
                       /\ rooms'[q].maxUsers = rooms[q].maxUsers
  BY <1>2, <1>13, RoomRefilled DEF Made
<1>15. \A p \in Objects : (Listed(p)' <=> Listed(p)) /\ (Listed(p) => p \in Made)
  <2>1. \A p \in Objects : p # NoRoom
    BY DEF Objects, NoRoom
  <2> QED
    BY <1>1, <2>1, Typed DEF Listed
<1>16. View[o] = [host |-> {rooms[o].admin}, capacity |-> rooms[o].maxUsers, members |-> ToSet(s)]
  BY <1>5, <1>7, <1>8 DEF View, Shown
<1>17. \A p \in Objects \ {o} : Shown(p)' = Shown(p)
  BY <1>14, <1>15 DEF Shown
<1>18. Shown(o)' = [View[o] EXCEPT !.members = View[o].members \ {u}]
  <2>1. Shown(o)' = [host |-> {rooms[o].admin}, capacity |-> rooms[o].maxUsers,
                     members |-> ToSet(t)]
    BY <1>5, <1>7, <1>14, <1>15 DEF Shown
  <2>2. View[o].members \ {u} = ToSet(t)
    BY <1>12, <1>16
  <2>3. [View[o] EXCEPT !.members = ToSet(t)]
          = [host |-> {rooms[o].admin}, capacity |-> rooms[o].maxUsers, members |-> ToSet(t)]
    <3>1. PICK r, h, c, m, n :
            /\ r = View[o] /\ h = {rooms[o].admin} /\ c = rooms[o].maxUsers
            /\ m = ToSet(s) /\ n = ToSet(t)
      OBVIOUS
    <3>2. r = [host |-> h, capacity |-> c, members |-> m]
      BY <1>16, <3>1
    <3>3. [r EXCEPT !.members = n] = [host |-> h, capacity |-> c, members |-> n]
      BY <3>2, OtherMembers
    <3> QED
      BY <3>1, <3>3, Zenon
  <2> QED
    BY <2>1, <2>2, <2>3, Zenon
<1>19. View' = [View EXCEPT ![o] = [View[o] EXCEPT !.members = View[o].members \ {u}]]
  BY <1>5, <1>17, <1>18, OneRoomShown
<1>20. View' = [View EXCEPT ![o].members = @ \ {u}]
  BY <1>19
<1>21. u \in View[o].members \ View[o].host
  BY <1>6, <1>9, <1>16 DEF Opener
<1> QED
  BY <1>5, <1>20, <1>21

LEMMA UnlistDisbands ==
  ASSUME PacedInv, NEW u \in User, Unlist(u)
  PROVE  \E o \in Objects :
           /\ View[o].host # {}
           /\ View' = [View EXCEPT ![o] = [host |-> {}, capacity |-> 0, members |-> {}]]
<1>1. pc[u] = "unlist" /\ UNCHANGED rooms
  BY DEF Unlist
<1>2. TypeOK /\ Len(rooms) \in Nat
  BY Typed
<1>3. PICK o \in Made : o = target[u]
  BY <1>1, Typed
<1>4. o \in Objects /\ NoRoom \notin Objects
  BY MadeIsSeen DEF Objects, NoRoom
<1>5. PICK key \in Objects : key = rooms[o].id
  BY <1>1, <1>3, TakesItsRoom
<1>6. /\ roomsList[key] = o
      /\ \A k \in Objects : roomsList[k] = o => k = key
  BY <1>1, <1>3, <1>5, TakesItsRoom
<1>7. \A k \in Objects : roomsList'[k] = IF k = key THEN NoRoom ELSE roomsList[k]
  BY <1>2, <1>3, <1>5 DEF Unlist, TypeOK
<1>8. ~Listed(o)' /\ \A p \in Objects \ {o} : Listed(p)' <=> Listed(p)
  BY <1>4, <1>6, <1>7 DEF Listed
<1>9. \A p \in Objects \ {o} : Shown(p)' = Shown(p)
  BY <1>1, <1>8 DEF Shown
<1>10. Shown(o)' = [host |-> {}, capacity |-> 0, members |-> {}]
  BY <1>8 DEF Shown
<1>11. View[o].host # {}
  BY <1>4, <1>6 DEF View, Shown, Listed
<1> QED
  BY <1>4, <1>9, <1>10, <1>11, OneRoomShown

\* A room that was made and is not on the list is not seen.
LEMMA BuildUnseen ==
  ASSUME PacedInv, NEW u \in User, BuildRoom(u)
  PROVE  View' = View
<1>1. UNCHANGED roomsList /\ TypeOK /\ NoRoom \notin Objects
  BY Typed DEF BuildRoom, Objects, NoRoom
<1>2. \A p \in Objects : (Listed(p)' <=> Listed(p)) /\ (Listed(p) => p \in Made)
  BY <1>1, Typed DEF Listed
<1>3. \A p \in Made : rooms'[p] = rooms[p]
  <2>1. CASE UNCHANGED rooms
    BY <2>1
  <2>2. CASE \E m \in MaxUsersOf :
               rooms' = Append(rooms, [id |-> roomIdSequence, admin |-> u,
                                       maxUsers |-> m, users |-> <<u>>])
    <3>1. PICK m \in MaxUsersOf :
            rooms' = Append(rooms, [id |-> roomIdSequence, admin |-> u,
                                    maxUsers |-> m, users |-> <<u>>])
      BY <2>2
    <3> DEFINE r == [id |-> roomIdSequence, admin |-> u, maxUsers |-> m, users |-> <<u>>]
    <3>2. r \in Room
      BY <1>1, LobbyAssumption DEF Room, TypeOK
    <3>3. rooms' = Append(rooms, r)
      BY <3>1
    <3> HIDE DEF r
    <3> QED
      BY <1>1, <3>2, <3>3, RoomAdded DEF Made
  <2> QED
    BY <2>1, <2>2 DEF BuildRoom
<1>4. \A p \in Objects : Shown(p)' = Shown(p)
  BY <1>2, <1>3 DEF Shown
<1> QED
  BY <1>4, RoomsShownAsBefore

\* Every other step leaves the rooms and the list alone.
LEMMA RestUnseen ==
  ASSUME UNCHANGED <<rooms, roomsList>>
  PROVE  View' = View
BY DEF View, Shown, Listed

LEMMA RoomsStarts == Init => RoomsView!Init
<1> SUFFICES ASSUME Init PROVE RoomsView!Init
  OBVIOUS
<1>1. \A o \in Objects : ~Listed(o)
  BY DEF Init, Listed, Objects, NoRoom
<1> QED
  BY <1>1 DEF RoomsView!Init, RoomsView!NoRoomThere

LEMMA RoomsStep ==
  ASSUME Paced, 0 \notin MaxUsersOf, PacedInv, PacedInv', [Next]_vars
  PROVE  \/ View' = View
         \/ \E o \in Objects :
              \/ /\ View[o].host # {}
                 /\ View' = [View EXCEPT ![o] = [host |-> {}, capacity |-> 0, members |-> {}]]
              \/ \E u \in User :
                   \/ /\ View[o] = [host |-> {}, capacity |-> 0, members |-> {}]
                      /\ \A p \in Objects : u \notin View[p].members
                      /\ \E c \in MaxUsersOf :
                           View' = [View EXCEPT ![o] = [host |-> {u}, capacity |-> c,
                                                        members |-> {u}]]
                   \/ /\ View[o].host # {}
                      /\ \A p \in Objects : u \notin View[p].members
                      /\ Cardinality(View[o].members) < View[o].capacity
                      /\ View' = [View EXCEPT ![o].members = @ \cup {u}]
                   \/ /\ u \in View[o].members \ View[o].host
                      /\ View' = [View EXCEPT ![o].members = @ \ {u}]
<1>1. CASE UNCHANGED vars
  BY <1>1, RestUnseen DEF vars, registry
<1>2. ASSUME NEW u \in User, Vanish(u) PROVE FALSE
  BY <1>2 DEF Vanish, Paced
<1>3. ASSUME NEW u \in User,
             \/ CreateRoom(u) \/ NumberRoom(u) \/ JoinRoom(u) \/ SetRoom(u)
             \/ CloseRoom(u) \/ StartGame(u) \/ ReadQuestion(u) \/ FinishGame(u)
      PROVE  UNCHANGED <<rooms, roomsList>>
  BY <1>3 DEF CreateRoom, NumberRoom, JoinRoom, SetRoom, CloseRoom, StartGame, ReadQuestion, FinishGame,
              Crash, registry
<1>4. ASSUME NEW u \in User, LeaveRoom(u), currRoom[u] = NoRoom
      PROVE  UNCHANGED <<rooms, roomsList>>
  BY <1>4 DEF LeaveRoom
<1>5. CASE \E u \in User : RegisterRoom(u)
  BY <1>5, RegisterOpens
<1>6. CASE \E u \in User : EnterRoom(u)
  BY SMTT(30), <1>6, EnterJoins
<1>7. CASE \E u \in User : LeaveRoom(u)
  BY <1>4, <1>7, LeaveLeaves, RestUnseen
<1>8. CASE \E u \in User : Unlist(u)
  BY <1>8, UnlistDisbands
<1>9. CASE \E u \in User : BuildRoom(u)
  BY <1>9, BuildUnseen
<1> QED
  BY <1>1, <1>2, <1>3, <1>5, <1>6, <1>7, <1>8, <1>9, RestUnseen DEF Next

\* While requests are paced and no room is for nobody, the listed rooms are
\* those of Rooms: opened by one who is in no other, joined while there is space,
\* left one by one, and ended for all at once (the handlers of TriviaServer.cpp
\* with User::createRoom to User::closeRoom and Room::joinRoom to
\* Room::closeRoom).
THEOREM RoomsImplemented ==
  ASSUME Paced, 0 \notin MaxUsersOf
  PROVE  Spec => ImplementsRooms
<1>1. PacedInv /\ [Next]_vars => PacedInv'
  BY NextPaced
<1>2. PacedInv /\ PacedInv' /\ [Next]_vars => [RoomsView!Next]_View
  <2> SUFFICES ASSUME PacedInv, PacedInv', [Next]_vars
               PROVE  RoomsView!Next \/ View' = View
    OBVIOUS
  <2>1. ASSUME NEW o \in Objects, View[o].host # {},
               View' = [View EXCEPT ![o] = [host |-> {}, capacity |-> 0, members |-> {}]]
        PROVE  RoomsView!Disband(o)
    BY <2>1, Zenon DEF RoomsView!Disband, RoomsView!NoRoomThere, View, Shown
  <2>2. ASSUME NEW o \in Objects, NEW u \in User,
               View[o] = [host |-> {}, capacity |-> 0, members |-> {}],
               \A p \in Objects : u \notin View[p].members,
               \E c \in MaxUsersOf :
                 View' = [View EXCEPT ![o] = [host |-> {u}, capacity |-> c, members |-> {u}]]
        PROVE  RoomsView!Open(u, o)
    BY <2>2, Zenon DEF RoomsView!Open, RoomsView!IsOut, RoomsView!NoRoomThere, View, Shown
  <2>3. ASSUME NEW o \in Objects, NEW u \in User,
               View[o].host # {},
               \A p \in Objects : u \notin View[p].members,
               Cardinality(View[o].members) < View[o].capacity,
               View' = [View EXCEPT ![o].members = @ \cup {u}]
        PROVE  RoomsView!Join(u, o)
    <3>1. View[o] # [host |-> {}, capacity |-> 0, members |-> {}]
      BY <2>3
    <3>2. RoomsView!IsOut(u)
      BY <2>3, Zenon DEF RoomsView!IsOut, View, Shown
    <3> QED
      BY <2>3, <3>1, <3>2, SameCount, Zenon
      DEF RoomsView!Join, RoomsView!NoRoomThere, View, Shown
  <2>4. ASSUME NEW o \in Objects, NEW u \in User,
               u \in View[o].members \ View[o].host,
               View' = [View EXCEPT ![o].members = @ \ {u}]
        PROVE  RoomsView!Leave(u, o)
    BY <2>4, Zenon DEF RoomsView!Leave, View, Shown
  <2> QED
    BY <2>1, <2>2, <2>3, <2>4, RoomsStep, Zenon DEF RoomsView!Next
<1> QED
  BY <1>1, <1>2, InitPaced, RoomsStarts, PTL DEF Spec, ImplementsRooms, RoomsView!Spec, View, Shown

=============================================================================
