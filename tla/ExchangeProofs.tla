---------------------------- MODULE ExchangeProofs ----------------------------
(***************************************************************************)
(* Proofs about Exchange, for every length, number and way of cutting the  *)
(* stream.                                                                 *)
(***************************************************************************)
EXTENDS Exchange, WireProofs

(* The inductive invariant *)

\* A request as the client makes it
Asked(r) ==
  /\ r = Message(r.code, r.values)
  /\ r.code \in Requests /\ r.values \in Seq(Seq(Nat))
  /\ Len(r.values) = Len(Read(r.code).head)
  /\ \A i \in 1 .. Len(r.values) :
       IF Read(r.code).head[i].sized THEN Len(r.values[i]) \in Small
       ELSE r.values[i] \in Seq(Digit) /\ r.values[i] # <<>>

Leave == Message(LeaveGame, <<>>)

Written(r) == Write(Stringed(r.code), r)

\* What is written of the requests that are due
Sent(d) == CASE Len(d) = 0 -> <<>>
             [] Len(d) = 1 -> Written(d[1])
             [] OTHER      -> Written(d[1]) \o Written(d[2])

Stream == arrived \o travelling

\* What is left of request r in the stream after part i, where the length of
\* the next part was read or not
Remains(r, i, size) ==
  LET F == Read(r.code)
      n == Len(r.values)
  IN  IF size = NotAsked THEN PutLast(F, r.values, n - i)
      ELSE r.values[i + 1] \o PutLast(F, r.values, n - (i + 1))

InParts ==
  LET r == Head(due)
      i == Len(thread.values)
  IN
  /\ due # <<>>
  /\ thread.code = r.code /\ Fits(Read(r.code), r)
  /\ i \in 0 .. Len(r.values)
  /\ thread.values = Padded(Read(r.code), r.values, i)
  /\ \/ thread.size = NotAsked
     \/ i < Len(r.values) /\ Read(r.code).head[i + 1].sized /\ thread.size = Len(r.values[i + 1])
  /\ Stream = Remains(r, i, thread.size) \o Sent(Tail(due))

\* The stream holds what is left of the request that is read, and the next one.
InSync ==
  /\ thread.at = "code" => thread = Idle /\ Stream = Sent(due)
  /\ thread.at = "parts" => InParts
  /\ thread.at = "question" => due = <<>> /\ Stream = <<>>
  /\ thread.at # "gone"

Msg == [code : Nat, values : Seq(Seq(Nat))]

\* A reply that is read as it was built
ReadAsBuilt(m) ==
  LET text == ReplyText(m)
      got == SubSeq(text, 2, Len(text))
      F == Parametered(m.code, got)
  IN  /\ m \in Msg
      /\ Fits(F, m) => /\ Parse(F, got) = Read1(F, m.values)
                       /\ Meaning(F, Message(m.code, Padded(F, m.values, Len(m.values)))) = m
      /\ text \in Seq(Nat) /\ Len(text) >= 1

Perm(d) == d \in Seq(0 .. 3) /\ Len(d) = 4 /\ IsInjective(d)

Texts(d) == <<QuestionText>> \o [p \in 1 .. 4 |-> AnswerText(CHOOSE j \in 1 .. 4 : d[j] = p - 1)]

Letters4 == {AnswerText(j) : j \in 1 .. 4}

Verdicts == {Message(TrueFalse, <<Digits(d)>>) : d \in 0 .. 1}

OwedOK ==
  /\ owed \in Seq(Msg)
  /\ \A i \in 1 .. Len(owed) :
       LET m == owed[i] IN
       /\ ReadAsBuilt(m)
       /\ m.code = Question => \E d \in [1 .. 4 -> 0 .. 3] : Perm(d) /\ m = Message(Question, Texts(d))
       /\ m.code = TrueFalse => m \in Verdicts

\* The stream to the client holds the replies it did not read.
Told == ~ off => down = ReplyTexts(owed)

\* The end of a game is told once, and nothing else is due then.
EndOnce ==
  /\ \A i, j \in 1 .. Len(owed) :
       owed[i].code = EndGame /\ owed[j].code = EndGame => i = j
  /\ \A i \in 1 .. Len(owed) : owed[i].code = EndGame => due = <<>> /\ thread.at # "question"

\* The questions are made, and the one on the page is the one the thread judges.
Ready ==
  /\ page = "room" => Perm(drawn)
  /\ page = "game" => Perm(drawn) /\ shown = Texts(drawn)

\* The client may ask.
Resting ==
  /\ waiting = 0 /\ owed = <<>> /\ (due = <<>> \/ due = <<Leave>>)
  /\ thread.at # "question"
  /\ Ready

\* The client waits for the answer to a request that was not handled.
Asking ==
  /\ \E r \in Requested :
       /\ due = <<r>> \/ due = <<Leave, r>>
       /\ waiting = IF r.code = Answer THEN 2 ELSE 1
       /\ r.code = Answer => clicked = IF r.values[1] # Digits(5) THEN shown[Atoi(r.values[1]) + 1] ELSE <<>>
  /\ owed = <<>>
  /\ thread.at # "question"
  /\ Ready

\* The room is made, its questions are drawn.
Drawing == thread.at = "question" /\ due = <<>> /\ owed = <<>> /\ waiting = 1 /\ page = "menu"

\* Replies are on their way.
Answered ==
  /\ due = <<>> /\ thread.at = "code"
  /\ \/ /\ Len(owed) = 1 /\ waiting = 1
        /\ owed[1].code \notin {TrueFalse, EndGame}
        /\ owed[1].code = Joined =>
             owed[1].values[1] \in {Digits(1), Digits(2)} /\ Len(owed[1].values) # 0
        /\ owed[1].code = Created \/ page = "room" => Perm(drawn)
        /\ owed[1].code = Question =>
             Perm(drawn) /\ owed[1] = Message(Question, Texts(drawn))
        /\ page # "game"
     \/ /\ Len(owed) = 2 /\ waiting = 1 /\ page = "menu"
        /\ owed[1].code = Joined /\ owed[1].values[1] = Digits(0) /\ Len(owed[1].values) # 0
        /\ owed[2].code = RoomUsers
     \/ /\ Len(owed) = 2 /\ waiting = 2 /\ page = "game"
        /\ owed[1].code = TrueFalse /\ owed[2].code = EndGame
        /\ owed[1].values[1] = Digits(1) <=> clicked = AnswerText(1)
     \/ /\ Len(owed) = 1 /\ waiting = 1 /\ page = "game"
        /\ owed[1].code = EndGame

Phase == Resting \/ Asking \/ Drawing \/ Answered

TypeInv ==
  /\ page \in Pages /\ waiting \in 0 .. 2
  /\ off \/ shown = <<>> \/ Len(shown) = 5
  /\ due \in Seq([code : Requests, values : Seq(Seq(Nat))])
  /\ \A i \in 1 .. Len(due) : Asked(due[i])
  /\ Len(due) <= MaxDue
  /\ travelling \in Seq(Nat) /\ arrived \in Seq(Nat)
  /\ thread \in [at : {"code", "parts", "question", "gone"}, code : Requests \cup {0},
                values : Seq(Seq(Nat)), size : Nat \cup {NotAsked}]
  /\ thread.at = "parts" => thread.code \in Requests
  /\ drawn \in Seq(0 .. 3) /\ IsInjective(drawn)
  /\ off \in BOOLEAN

IInv ==
  /\ TypeInv /\ OwedOK /\ EndOnce /\ Told
  /\ ~ off => /\ InSync
              /\ Phase
              /\ page = "game" => {shown[i] : i \in 2 .. 5} = Letters4
  /\ HandledAsSent /\ ShownAsBuilt /\ JudgedByText

-----------------------------------------------------------------------------
(* Requests on the wire *)

\* The server reads the requests field by field, at most four, and none of them is a list.
LEMMA ReadFields ==
  ASSUME NEW c \in Requests
  PROVE  /\ Read(c).item = <<>> /\ Read(c).count = 0
         /\ Read(c).head \in Seq({S(2), N(1), N(2), N(4)})
         /\ Len(Read(c).head) \in 0 .. 4
         /\ \A i : FieldAt(Read(c), i) = Read(c).head[i]
<1>1. Read(c).item = <<>> /\ Read(c).count = 0
  BY DEF Read, Fields
<1>2. ASSUME NEW i PROVE FieldAt(Read(c), i) = Read(c).head[i]
  BY <1>1 DEF FieldAt
<1> DEFINE Z == {S(2), N(1), N(2), N(4)}
<1>3. S(2) \in Z /\ N(1) \in Z /\ N(2) \in Z /\ N(4) \in Z
  OBVIOUS
<1>4. Read(c).head \in Seq(Z) /\ Len(Read(c).head) \in 0 .. 4
  <2> HIDE DEF Z
  <2> USE DEF SignIn, ForgotPassword, SignUp, AllRoomsList, AllRoomUsers, JoinRoom, CreateRoom,
              StartGame, Answer, LeaveGame, BestScores, PersonalState
  <2>1. CASE c = SignIn
    BY <1>3, <2>1 DEF Read, Fields
  <2>2. CASE c = SignUp
    BY <1>3, <2>2 DEF Read, Fields
  <2>3. CASE c = ForgotPassword
    BY <1>3, <2>3 DEF Read, Fields
  <2>4. CASE c \in {AllRoomUsers, JoinRoom}
    BY <1>3, <2>4 DEF Read, Fields
  <2>5. CASE c = CreateRoom
    BY <1>3, <2>5 DEF Read, Fields, CreateRoomParts
  <2>6. CASE c = Answer
    BY <1>3, <2>6 DEF Read, Fields
  <2>7. CASE c \in {AllRoomsList, StartGame, LeaveGame, BestScores, PersonalState}
    BY <2>7 DEF Read, Fields
  <2> QED
    BY <2>1, <2>2, <2>3, <2>4, <2>5, <2>6, <2>7 DEF Requests
<1> QED
  BY <1>1, <1>2, <1>4

\* The fields of the formats, as records
LEMMA FieldsAre ==
  /\ S(2) = [sized |-> TRUE, w |-> 2] /\ N(0) = [sized |-> FALSE, w |-> 0]
  /\ N(1) = [sized |-> FALSE, w |-> 1] /\ N(2) = [sized |-> FALSE, w |-> 2]
  /\ N(4) = [sized |-> FALSE, w |-> 4] /\ S(3) = [sized |-> TRUE, w |-> 3]
  /\ N(6) = [sized |-> FALSE, w |-> 6]
BY DEF S, N

\* The fields of the formats, by their kinds
LEMMA FieldKinds ==
  /\ S(2) \in Field /\ S(2).sized /\ S(2).w = 2
  /\ S(3) \in Field /\ S(3).sized /\ S(3).w = 3
  /\ N(0) \in Field /\ ~ N(0).sized /\ N(0).w = 0
  /\ N(1) \in Field /\ ~ N(1).sized /\ N(1).w = 1
  /\ N(2) \in Field /\ ~ N(2).sized /\ N(2).w = 2
  /\ N(4) \in Field /\ ~ N(4).sized /\ N(4).w = 4
  /\ N(6) \in Field /\ ~ N(6).sized /\ N(6).w = 6
BY DEF S, N, Field

\* A request that fits is read field by field.
LEMMA RequestFits ==
  ASSUME NEW r, Asked(r), Fits(Read(r.code), r)
  PROVE  FitsAll(Read(r.code), r.values)
<1> DEFINE F == Read(r.code)
           v == r.values
<1>1. r.code \in Requests /\ v \in Seq(Seq(Nat)) /\ Len(v) = Len(F.head)
  BY DEF Asked
<1>2. Len(v) \in Nat /\ DOMAIN v = 1 .. Len(v)
  BY <1>1, LenProperties
<1>3. ASSUME NEW i \in 1 .. Len(v) PROVE FitsField(FieldAt(F, i), v[i]) /\ FieldAt(F, i).w # 0
  <2> DEFINE f == FieldAt(F, i)
  <2>1. f = F.head[i] /\ F.head \in Seq({S(2), N(1), N(2), N(4)})
    BY <1>1, ReadFields
  <2>2. f \in {S(2), N(1), N(2), N(4)}
    BY <1>1, <2>1, ElementOfSeq
  <2>3. f \in Field /\ f.w # 0 /\ (f.sized => f.w = 2) /\ f.w > 0
    BY <2>2, FieldKinds
  <2>4. v[i] \in Seq(Nat)
    BY <1>1, ElementOfSeq
  <2>5. IF f.sized THEN Len(v[i]) \in Small ELSE v[i] \in Seq(Digit) /\ v[i] # <<>>
    BY <2>1 DEF Asked
  <2>6. Len(v[i]) <= IF f.sized THEN Ten(f.w) - 1 ELSE f.w
    BY <1>2, <2>3 DEF Fits
  <2>7. f.sized => f.w \in 1 .. 3 /\ Len(v[i]) < Ten(f.w)
    <3>1. Ten(2) = 100
      BY TenIs
    <3>2. Len(v[i]) \in Nat
      BY <2>4, LenProperties
    <3> HIDE DEF f
    <3> QED
      BY <2>3, <2>6, <3>1, <3>2
  <2> HIDE DEF f
  <2> QED
    BY <2>3, <2>4, <2>5, <2>6, <2>7 DEF FitsField, f
<1> QED
  BY <1>1, <1>3 DEF FitsAll

\* Both programs write a request in the same way, a number as long as it is included.
LEMMA RequestWritten ==
  ASSUME NEW r, Asked(r)
  PROVE  /\ Written(r) = <<r.code>> \o PutLast(Read(r.code), r.values, Len(r.values))
         /\ PutLast(Read(r.code), r.values, Len(r.values)) \in Seq(Nat)
         /\ Written(r) \in Seq(Nat)
         /\ r.code \in Nat
<1> DEFINE F == Read(r.code)
           G == Stringed(r.code)
           v == r.values
<1>1. r.code \in Requests /\ v \in Seq(Seq(Nat)) /\ Len(v) = Len(F.head)
  BY DEF Asked
<1>2. Len(v) \in Nat
  BY <1>1, LenProperties
<1>3. r.code \in Nat
  BY <1>1 DEF Requests, SignIn, ForgotPassword, SignUp, AllRoomsList, AllRoomUsers, JoinRoom, CreateRoom,
              StartGame, Answer, LeaveGame, BestScores, PersonalState
<1>4. ASSUME NEW i \in 1 .. Len(v) PROVE Put(FieldAt(F, i), v[i]) \in Seq(Nat)
  <2> DEFINE f == FieldAt(F, i)
  <2>1. f = F.head[i] /\ F.head \in Seq({S(2), N(1), N(2), N(4)})
    BY <1>1, ReadFields
  <2>2. f \in {S(2), N(1), N(2), N(4)}
    BY <1>1, <2>1, ElementOfSeq
  <2>3. f \in Field
    BY <2>2, FieldKinds
  <2>4. v[i] \in Seq(Nat)
    BY <1>1, ElementOfSeq
  <2>5. IF f.sized THEN v[i] \in Seq(Nat) /\ Len(v[i]) \in Small ELSE v[i] \in Seq(Digit)
    BY <2>1, <2>4 DEF Asked
  <2> HIDE DEF f
  <2>6. Put(f, v[i]) \in Seq(Nat)
    BY <2>3, <2>5, PutNat
  <2> QED
    BY <2>6 DEF f
<1>5. PutLast(F, v, Len(v)) \in Seq(Nat)
  <2>1. Len(v) \in 0 .. Len(v)
    BY <1>2
  <2> QED
    BY <1>2, <1>4, <2>1, PutLastNat
<1>6. G.item = <<>> /\ G.count = 0 /\ \A i : FieldAt(G, i) = G.head[i]
  BY DEF Stringed, Fields, FieldAt
<1>7. ASSUME NEW i \in 1 .. Len(v) PROVE Put(FieldAt(G, i), v[i]) = Put(FieldAt(F, i), v[i])
  <2>1. FieldAt(G, i) = G.head[i] /\ FieldAt(F, i) = F.head[i]
    BY <1>1, <1>6, ReadFields
  <2>2. CASE F.head[i] = N(1) /\ G.head[i] = N(0)
    <3>1. v[i] \in Seq(Digit) /\ v[i] # <<>>
      BY <2>2, FieldsAre DEF Asked
    <3>2. v[i] \in Seq(Nat) /\ Len(v[i]) \in Nat /\ 0 <= Len(v[i]) /\ 1 <= Len(v[i])
      BY <3>1, DigitText, EmptySeq, LenProperties
    <3>3. PadLeft(v[i], 0) = v[i] /\ PadLeft(v[i], 1) = v[i]
      BY <3>2, PadFull
    <3> QED
      BY <2>1, <2>2, <3>3, FieldsAre DEF Put
  <2>3. CASE F.head[i] = G.head[i]
    BY <2>1, <2>3
  <2>4. F.head[i] = G.head[i] \/ (F.head[i] = N(1) /\ G.head[i] = N(0))
    <3>1. CASE r.code \notin {CreateRoom, Answer}
      <4>1. F = G
        BY <3>1 DEF Read, Stringed
      <4> QED
        BY <4>1
    <3>2. CASE r.code = CreateRoom
      <4>1. /\ G.head = <<S(2), N(0), N(2), N(2)>> /\ F.head = <<S(2), N(1), N(2), N(2)>>
        BY <3>2 DEF Read, Stringed, Fields, CreateRoomParts, SignIn, ForgotPassword, SignUp, AllRoomUsers,
                    JoinRoom, CreateRoom, Answer
      <4> HIDE DEF F, G
      <4>2. i \in 1 .. 4
        BY <1>1, <4>1 DEF F
      <4> QED
        BY <4>1, <4>2
    <3>3. CASE r.code = Answer
      <4>1. /\ G.head = <<N(0), N(2)>> /\ F.head = <<N(1), N(2)>>
        BY <3>3 DEF Read, Stringed, Fields, SignIn, ForgotPassword, SignUp, AllRoomUsers,
                    JoinRoom, CreateRoom, Answer
      <4> HIDE DEF F, G
      <4>2. i \in 1 .. 2
        BY <1>1, <4>1 DEF F
      <4> QED
        BY <4>1, <4>2
    <3> QED
      BY <3>1, <3>2, <3>3
  <2> QED
    BY <2>2, <2>3, <2>4
<1>8. PutLast(G, v, Len(v)) = PutLast(F, v, Len(v))
  <2> HIDE DEF F, G
  <2> QED
    BY <1>2, <1>7, PutSame
<1>9. Written(r) = <<r.code>> \o PutLast(F, v, Len(v))
  <2>1. PutCount(G, Len(v)) = <<>>
    BY <1>6 DEF PutCount
  <2>2. Written(r) = <<r.code>> \o (<<>> \o PutLast(G, v, Len(v)))
    BY <2>1 DEF Written, Write
  <2>3. <<>> \o PutLast(F, v, Len(v)) = PutLast(F, v, Len(v))
    BY <1>5, ConcatEmptySeq
  <2> QED
    BY <1>8, <2>2, <2>3
<1>10. Written(r) \in Seq(Nat)
  <2>1. <<r.code>> \in Seq(Nat)
    BY <1>3
  <2> HIDE DEF F, G
  <2> QED
    BY <1>5, <1>9, <2>1, CutText
<1> QED
  BY <1>3, <1>5, <1>9, <1>10

\* A number of three digits is one that to_string can write.
LEMMA SmallNat ==
  ASSUME NEW n \in Nat, n < 1000
  PROVE  n \in Small
<1>1. Ten(7) = 10000000
  BY TenIs, SMT
<1>2. n < Ten(7)
  BY <1>1, SMT
<1> QED
  BY <1>2 DEF Small

\* The numbers of the server are numbers that to_string can write.
LEMMA NumberSmall ==
  ASSUME NEW n \in Numbers
  PROVE  n \in Nat /\ n < Ten(6) /\ n \in Small
<1>1. n \in Nat /\ n < Ten(6)
  BY ExchangeAssumption
<1>2. Ten(7) = 10000000 /\ Ten(6) = 1000000
  BY TenIs, SMT
<1>3. n < Ten(7)
  BY <1>1, <1>2, SMT
<1> QED
  BY <1>1, <1>3 DEF Small

\* A text of so many letters
LEMMA LettersAre ==
  ASSUME NEW n \in Nat
  PROVE  Letters(n) \in Seq(Nat) /\ Len(Letters(n)) = n
BY DEF Letters, Letter

\* A name is a text whose length can be written.
LEMMA NameText ==
  ASSUME NEW u \in Names
  PROVE  u \in Seq(Nat) /\ Len(u) \in Small
<1>1. PICK n \in Lengths : u = Letters(n)
  BY Zenon DEF Names
<1>2. n \in 0 .. 999
  BY ExchangeAssumption
<1>3. u \in Seq(Nat) /\ Len(u) = n
  BY <1>1, <1>2, LettersAre
<1>4. n \in Nat /\ n < 1000
  BY <1>2
<1>5. n \in Small
  BY <1>4, SmallNat
<1> QED
  BY <1>2, <1>3, <1>5

\* A number as it is typed is a text of digits, and not empty.
LEMMA TypedText ==
  ASSUME NEW n \in Small, NEW t \in Typed(n)
  PROVE  t \in Seq(Digit) /\ t \in Seq(Nat) /\ t # <<>>
<1> DEFINE g(z) == [i \in 1 .. z |-> 0] \o Digits(n)
<1>0. t \in {g(z) : z \in Zeros}
  BY DEF Typed
<1> HIDE DEF g
<1>1. PICK z \in Zeros : t = g(z)
  BY <1>0
<1>2. z \in Nat
  BY ExchangeAssumption
<1> DEFINE o == [i \in 1 .. z |-> 0]
<1>3. o \in Seq(Digit) /\ Len(o) = z
  BY <1>2 DEF Digit
<1>5. Digits(n) \in Seq(Digit) /\ Len(Digits(n)) \in 1 .. 7
  BY DigitsAre
<1> HIDE DEF o
<1>6. o \o Digits(n) \in Seq(Digit) /\ Len(o \o Digits(n)) = Len(o) + Len(Digits(n))
  <2> DEFINE d == Digits(n)
  <2>1. d \in Seq(Digit)
    BY <1>5
  <2> HIDE DEF d
  <2>2. o \o d \in Seq(Digit) /\ Len(o \o d) = Len(o) + Len(d)
    BY <1>3, <2>1, ConcatProperties
  <2> QED
    BY <2>2 DEF d
<1>7. Len(o \o Digits(n)) # 0
  <2>1. PICK k \in 1 .. 7 : k = Len(Digits(n))
    BY <1>5
  <2>2. z + k # 0
    BY <1>2
  <2>3. Len(o \o Digits(n)) = z + k
    BY <1>3, <1>6, <2>1, Zenon
  <2> QED
    BY <2>2, <2>3, Zenon
<1>8. t = o \o Digits(n)
  BY <1>1 DEF o, g
<1>9. t # <<>>
  BY <1>7, <1>8, EmptySeq
<1> QED
  BY <1>6, <1>8, <1>9, DigitText

\* So is a number as a program writes it.
LEMMA DigitsText ==
  ASSUME NEW n \in Small
  PROVE  Digits(n) \in Seq(Digit) /\ Digits(n) \in Seq(Nat) /\ Digits(n) # <<>>
BY DigitsSome, DigitText

\* What the fields of a request are
LEMMA ReadHeads ==
  /\ Read(SignIn).head = <<S(2), S(2)>>
  /\ Read(SignUp).head = <<S(2), S(2), S(2)>>
  /\ Read(ForgotPassword).head = <<S(2)>>
  /\ Read(AllRoomUsers).head = <<N(4)>>
  /\ Read(JoinRoom).head = <<N(4)>>
  /\ Read(CreateRoom).head = <<S(2), N(1), N(2), N(2)>>
  /\ Read(Answer).head = <<N(1), N(2)>>
  /\ \A c \in {AllRoomsList, StartGame, LeaveGame, BestScores, PersonalState} : Read(c).head = <<>>
<1> USE DEF Read, Fields, CreateRoomParts, SignIn, ForgotPassword, SignUp, AllRoomsList, AllRoomUsers,
            JoinRoom, CreateRoom, StartGame, Answer, LeaveGame, BestScores, PersonalState
<1>1. Read(SignIn).head = <<S(2), S(2)>>
  OBVIOUS
<1>2. Read(SignUp).head = <<S(2), S(2), S(2)>>
  OBVIOUS
<1>3. Read(ForgotPassword).head = <<S(2)>>
  OBVIOUS
<1>4. Read(AllRoomUsers).head = <<N(4)>>
  OBVIOUS
<1>5. Read(JoinRoom).head = <<N(4)>>
  OBVIOUS
<1>6. Read(CreateRoom).head = <<S(2), N(1), N(2), N(2)>>
  OBVIOUS
<1>7. Read(Answer).head = <<N(1), N(2)>>
  OBVIOUS
<1>8. ASSUME NEW c \in {AllRoomsList, StartGame, LeaveGame, BestScores, PersonalState}
      PROVE  Read(c).head = <<>>
  OBVIOUS
<1> QED
  BY <1>1, <1>2, <1>3, <1>4, <1>5, <1>6, <1>7, <1>8

\* The codes of the requests differ.
LEMMA RequestCodes ==
  /\ \A c \in {SignIn, SignUp, ForgotPassword, AllRoomUsers, JoinRoom, CreateRoom, Answer, AllRoomsList,
               StartGame, LeaveGame, BestScores, PersonalState} : c \in Requests
  /\ \A c \in {SignIn, SignUp, ForgotPassword, JoinRoom, CreateRoom, AllRoomsList, BestScores, PersonalState} :
        c \notin {StartGame, Answer, LeaveGame, AllRoomUsers}
  /\ StartGame # Answer /\ StartGame # LeaveGame /\ Answer # LeaveGame
BY DEF Requests, SignIn, ForgotPassword, SignUp, AllRoomsList, AllRoomUsers, JoinRoom, CreateRoom,
       StartGame, Answer, LeaveGame, BestScores, PersonalState

\* Requests as the client makes them, by the number of their values
LEMMA AskedEmpty ==
  ASSUME NEW c \in {AllRoomsList, StartGame, LeaveGame, BestScores, PersonalState}
  PROVE  Asked(Message(c, <<>>))
<1>1. c \in Requests
  BY RequestCodes
<1>2. Read(c).head = <<>>
  BY ReadHeads
<1>3. Message(c, <<>>) = [code |-> c, values |-> <<>>]
  BY DEF Message
<1>4. <<>> \in Seq(Seq(Nat)) /\ Len(<<>>) = 0
  BY EmptySeq
<1> QED
  BY <1>1, <1>2, <1>3, <1>4 DEF Asked, Message

LEMMA AskedOne ==
  ASSUME NEW c \in Requests, NEW f, NEW a \in Seq(Nat), Read(c).head = <<f>>,
         IF f.sized THEN Len(a) \in Small ELSE a \in Seq(Digit) /\ a # <<>>
  PROVE  Asked(Message(c, <<a>>))
<1>1. Message(c, <<a>>).code = c /\ Message(c, <<a>>).values = <<a>>
  BY DEF Message
<1>2. <<a>> \in Seq(Seq(Nat)) /\ Len(<<a>>) = 1 /\ <<a>>[1] = a
  OBVIOUS
<1> QED
  BY <1>1, <1>2 DEF Asked, Message

LEMMA AskedTwo ==
  ASSUME NEW c \in Requests, NEW f, NEW g, NEW a \in Seq(Nat), NEW b \in Seq(Nat), Read(c).head = <<f, g>>,
         IF f.sized THEN Len(a) \in Small ELSE a \in Seq(Digit) /\ a # <<>>,
         IF g.sized THEN Len(b) \in Small ELSE b \in Seq(Digit) /\ b # <<>>
  PROVE  Asked(Message(c, <<a, b>>))
<1> DEFINE v == <<a, b>>
<1>1. Message(c, v) = [code |-> c, values |-> v]
  BY DEF Message
<1>2. v \in Seq(Seq(Nat)) /\ Len(v) = 2 /\ v[1] = a /\ v[2] = b
  OBVIOUS
<1> HIDE DEF v
<1>3. ASSUME NEW i \in 1 .. Len(v)
      PROVE  IF Read(c).head[i].sized THEN Len(v[i]) \in Small ELSE v[i] \in Seq(Digit) /\ v[i] # <<>>
  <2>1. i = 1 \/ i = 2
    BY <1>2
  <2> QED
    BY <1>2, <2>1
<1> QED
  BY <1>1, <1>2, <1>3 DEF Asked, Message, v

LEMMA AskedThree ==
  ASSUME NEW c \in Requests, NEW a \in Seq(Nat), NEW b \in Seq(Nat), NEW d \in Seq(Nat),
         Read(c).head = <<S(2), S(2), S(2)>>, Len(a) \in Small, Len(b) \in Small, Len(d) \in Small
  PROVE  Asked(Message(c, <<a, b, d>>))
<1> DEFINE v == <<a, b, d>>
<1>1. Message(c, v) = [code |-> c, values |-> v]
  BY DEF Message
<1>2. v \in Seq(Seq(Nat)) /\ Len(v) = 3 /\ v[1] = a /\ v[2] = b /\ v[3] = d
  OBVIOUS
<1> HIDE DEF v
<1>3. ASSUME NEW i \in 1 .. Len(v)
      PROVE  Read(c).head[i].sized /\ Len(v[i]) \in Small
  <2>1. i = 1 \/ i = 2 \/ i = 3
    BY <1>2
  <2>2. Read(c).head[i] = S(2)
    BY <2>1
  <2> QED
    BY <1>2, <2>1, <2>2, FieldKinds
<1> QED
  BY <1>1, <1>2, <1>3 DEF Asked, Message, v

LEMMA AskedFour ==
  ASSUME NEW c \in Requests, NEW a \in Seq(Nat), NEW b \in Seq(Digit), NEW d \in Seq(Digit), NEW e \in Seq(Digit),
         Read(c).head = <<S(2), N(1), N(2), N(2)>>, Len(a) \in Small, b # <<>>, d # <<>>, e # <<>>
  PROVE  Asked(Message(c, <<a, b, d, e>>))
<1> DEFINE v == <<a, b, d, e>>
<1>1. Message(c, v) = [code |-> c, values |-> v]
  BY DEF Message
<1>0. b \in Seq(Nat) /\ d \in Seq(Nat) /\ e \in Seq(Nat)
  BY DigitText
<1>2. v \in Seq(Seq(Nat)) /\ Len(v) = 4 /\ v[1] = a /\ v[2] = b /\ v[3] = d /\ v[4] = e
  BY <1>0
<1> HIDE DEF v
<1>3. ASSUME NEW i \in 1 .. Len(v)
      PROVE  IF Read(c).head[i].sized THEN Len(v[i]) \in Small ELSE v[i] \in Seq(Digit) /\ v[i] # <<>>
  <2>1. i = 1 \/ i = 2 \/ i = 3 \/ i = 4
    BY <1>2
  <2>2. CASE i = 1
    BY <1>2, <2>2, FieldKinds
  <2>3. CASE i = 2
    BY <1>2, <2>3, FieldKinds
  <2>4. CASE i = 3
    BY <1>2, <2>4, FieldKinds
  <2>5. CASE i = 4
    BY <1>2, <2>5, FieldKinds
  <2> QED
    BY <2>1, <2>2, <2>3, <2>4, <2>5
<1> QED
  BY <1>1, <1>2, <1>3 DEF Asked, Message, v

\* What a page may ask
LEMMA RequestedIs ==
  ASSUME NEW r \in Requested, page \in Pages
  PROVE  /\ Asked(r) /\ page # "error"
         /\ page = "menu" => r.code \notin {StartGame, Answer, LeaveGame, AllRoomUsers}
         /\ page = "room" => r.code = StartGame
         /\ page = "game" => r.code = Answer /\ \E b \in 1 .. 5 : r.values[1] = Digits(b)
<1>1. CASE page = "menu"
  <2>1. \/ \E u \in Names, w \in Names : r = Message(SignIn, <<u, w>>)
        \/ \E u \in Names, w \in Names : r = Message(SignUp, <<u, w, Letters(9)>>)
        \/ \E u \in Names : r = Message(ForgotPassword, <<u>>)
        \/ \E n \in Numbers : r = Message(JoinRoom, <<Digits(n)>>)
        \/ \E u \in Names, k \in Typed(9), q \in Typed(10), t \in Typed(7) :
             r = Message(CreateRoom, <<u, k, q, t>>)
        \/ \E c \in {AllRoomsList, BestScores, PersonalState} : r = Message(c, <<>>)
    <3> DEFINE A == {Message(SignIn, <<u, w>>) : u \in Names, w \in Names}
               B == {Message(SignUp, <<u, w, Letters(9)>>) : u \in Names, w \in Names}
               C == {Message(ForgotPassword, <<u>>) : u \in Names}
               D == {Message(JoinRoom, <<Digits(n)>>) : n \in Numbers}
               E == {Message(CreateRoom, <<u, k, q, t>>) :
                       u \in Names, k \in Typed(9), q \in Typed(10), t \in Typed(7)}
               G == {Message(code, <<>>) : code \in {AllRoomsList, BestScores, PersonalState}}
    <3>1. Requested = A \cup B \cup C \cup D \cup E \cup G
      BY <1>1 DEF Requested
    <3>2. r \in A => \E u \in Names, w \in Names : r = Message(SignIn, <<u, w>>)
      BY SMT
    <3>3. r \in B => \E u \in Names, w \in Names : r = Message(SignUp, <<u, w, Letters(9)>>)
      BY SMTT(30)
    <3>4. r \in C => \E u \in Names : r = Message(ForgotPassword, <<u>>)
      BY SMTT(30)
    <3>5. r \in D => \E n \in Numbers : r = Message(JoinRoom, <<Digits(n)>>)
      BY SMT
    <3>6. r \in E => \E u \in Names, k \in Typed(9), q \in Typed(10), t \in Typed(7) :
                       r = Message(CreateRoom, <<u, k, q, t>>)
      BY SMTT(30)
    <3>7. r \in G => \E c \in {AllRoomsList, BestScores, PersonalState} : r = Message(c, <<>>)
      BY SMT
    <3> HIDE DEF A, B, C, D, E, G
    <3>8. r \in A \/ r \in B \/ r \in C \/ r \in D \/ r \in E \/ r \in G
      BY <3>1
    <3> QED
      BY <3>2, <3>3, <3>4, <3>5, <3>6, <3>7, <3>8, Zenon
  <2>2. CASE \E u \in Names, w \in Names : r = Message(SignIn, <<u, w>>)
    <3>1. PICK u \in Names, w \in Names : r = Message(SignIn, <<u, w>>)
      BY <2>2
    <3>2. u \in Seq(Nat) /\ Len(u) \in Small
      BY NameText
    <3>9. w \in Seq(Nat) /\ Len(w) \in Small
      BY NameText
    <3>3. SignIn \in Requests /\ Read(SignIn).head = <<S(2), S(2)>> /\ S(2).sized
      BY RequestCodes, ReadHeads, FieldKinds
    <3>4. Asked(Message(SignIn, <<u, w>>))
      BY <3>2, <3>3, <3>9, AskedTwo
    <3>5. r.code = SignIn
      BY <3>1 DEF Message
    <3> QED
      BY <1>1, <3>1, <3>4, <3>5, RequestCodes
  <2>3. CASE \E u \in Names, w \in Names : r = Message(SignUp, <<u, w, Letters(9)>>)
    <3>1. PICK u \in Names, w \in Names : r = Message(SignUp, <<u, w, Letters(9)>>)
      BY <2>3
    <3>2. u \in Seq(Nat) /\ Len(u) \in Small
      BY NameText
    <3>9. w \in Seq(Nat) /\ Len(w) \in Small
      BY NameText
    <3>6. Letters(9) \in Seq(Nat) /\ Len(Letters(9)) \in Small
      <4>1. Letters(9) \in Seq(Nat) /\ Len(Letters(9)) = 9
        BY LettersAre
      <4>2. 9 \in Small
        BY SmallNat
      <4> QED
        BY <4>1, <4>2
    <3>3. SignUp \in Requests /\ Read(SignUp).head = <<S(2), S(2), S(2)>>
      BY RequestCodes, ReadHeads
    <3>4. Asked(Message(SignUp, <<u, w, Letters(9)>>))
      BY <3>2, <3>3, <3>6, <3>9, AskedThree
    <3>5. r.code = SignUp
      BY <3>1 DEF Message
    <3> QED
      BY <1>1, <3>1, <3>4, <3>5, RequestCodes
  <2>4. CASE \E u \in Names : r = Message(ForgotPassword, <<u>>)
    <3>1. PICK u \in Names : r = Message(ForgotPassword, <<u>>)
      BY <2>4
    <3>2. u \in Seq(Nat) /\ Len(u) \in Small
      BY NameText
    <3>3. ForgotPassword \in Requests /\ Read(ForgotPassword).head = <<S(2)>> /\ S(2).sized
      BY RequestCodes, ReadHeads, FieldKinds
    <3>4. Asked(Message(ForgotPassword, <<u>>))
      BY <3>2, <3>3, AskedOne
    <3>5. r.code = ForgotPassword
      BY <3>1 DEF Message
    <3> QED
      BY <1>1, <3>1, <3>4, <3>5, RequestCodes
  <2>5. CASE \E n \in Numbers : r = Message(JoinRoom, <<Digits(n)>>)
    <3>1. PICK n \in Numbers : r = Message(JoinRoom, <<Digits(n)>>)
      BY <2>5
    <3>2. Digits(n) \in Seq(Digit) /\ Digits(n) \in Seq(Nat) /\ Digits(n) # <<>>
      <4>1. n \in Small
        BY NumberSmall
      <4> QED
        BY <4>1, DigitsText
    <3>3. JoinRoom \in Requests /\ Read(JoinRoom).head = <<N(4)>> /\ ~ N(4).sized
      BY RequestCodes, ReadHeads, FieldKinds
    <3>4. Asked(Message(JoinRoom, <<Digits(n)>>))
      BY <3>2, <3>3, AskedOne
    <3>5. r.code = JoinRoom
      BY <3>1 DEF Message
    <3> QED
      BY <1>1, <3>1, <3>4, <3>5, RequestCodes
  <2>6. CASE \E u \in Names, k \in Typed(9), q \in Typed(10), t \in Typed(7) :
             r = Message(CreateRoom, <<u, k, q, t>>)
    <3>1. PICK u \in Names, k \in Typed(9), q \in Typed(10), t \in Typed(7) :
             r = Message(CreateRoom, <<u, k, q, t>>)
      BY <2>6
    <3>2. u \in Seq(Nat) /\ Len(u) \in Small
      BY NameText
    <3>6. k \in Seq(Digit) /\ k # <<>>
      <4>1. 9 \in Small
        BY SmallNat
      <4> QED
        BY <4>1, TypedText
    <3>7. q \in Seq(Digit) /\ q # <<>>
      <4>1. 10 \in Small
        BY SmallNat
      <4> QED
        BY <4>1, TypedText
    <3>8. t \in Seq(Digit) /\ t # <<>>
      <4>1. 7 \in Small
        BY SmallNat
      <4> QED
        BY <4>1, TypedText
    <3>3. CreateRoom \in Requests /\ Read(CreateRoom).head = <<S(2), N(1), N(2), N(2)>>
      BY RequestCodes, ReadHeads
    <3>4. Asked(Message(CreateRoom, <<u, k, q, t>>))
      BY <3>2, <3>3, <3>6, <3>7, <3>8, AskedFour
    <3>5. r.code = CreateRoom
      BY <3>1 DEF Message
    <3> QED
      BY <1>1, <3>1, <3>4, <3>5, RequestCodes
  <2>7. CASE \E c \in {AllRoomsList, BestScores, PersonalState} : r = Message(c, <<>>)
    <3>1. PICK c \in {AllRoomsList, BestScores, PersonalState} : r = Message(c, <<>>)
      BY <2>7
    <3>2. Asked(Message(c, <<>>))
      BY AskedEmpty
    <3>3. r.code = c
      BY <3>1 DEF Message
    <3> QED
      BY <1>1, <3>1, <3>2, <3>3, RequestCodes
  <2> QED
    BY <2>1, <2>2, <2>3, <2>4, <2>5, <2>6, <2>7
<1>2. CASE page = "room"
  <2>1. r = Message(StartGame, <<>>)
    BY <1>2 DEF Requested
  <2>2. Asked(Message(StartGame, <<>>)) /\ r.code = StartGame
    BY <2>1, AskedEmpty DEF Message
  <2> QED
    BY <1>2, <2>1, <2>2
<1>3. CASE page = "game"
  <2>0. Requested = {Message(Answer, <<Digits(b), t>>) : b \in 1 .. 5, t \in {Digits(0), Digits(99)}}
    BY <1>3 DEF Requested
  <2>1. PICK b \in 1 .. 5, t \in {Digits(0), Digits(99)} : r = Message(Answer, <<Digits(b), t>>)
    BY <2>0, SMT
  <2>2. b \in Small /\ 0 \in Small /\ 99 \in Small
    <3>1. b \in Nat /\ b < 1000
      OBVIOUS
    <3>2. b \in Small
      BY <3>1, SmallNat
    <3>3. 0 \in Small
      BY SmallNat
    <3>4. 99 \in Small
      BY SmallNat
    <3> QED
      BY <3>2, <3>3, <3>4
  <2>3. Digits(b) \in Seq(Digit) /\ Digits(b) \in Seq(Nat) /\ Digits(b) # <<>>
    BY <2>2, DigitsText
  <2>4. t \in Seq(Digit) /\ t \in Seq(Nat) /\ t # <<>>
    BY <2>2, DigitsText
  <2>5. Answer \in Requests /\ Read(Answer).head = <<N(1), N(2)>> /\ ~ N(1).sized /\ ~ N(2).sized
    BY RequestCodes, ReadHeads, FieldKinds
  <2>6. Asked(Message(Answer, <<Digits(b), t>>))
    BY <2>3, <2>4, <2>5, AskedTwo
  <2>7. r.code = Answer /\ r.values[1] = Digits(b)
    BY <2>1 DEF Message
  <2> QED
    BY <1>3, <2>1, <2>6, <2>7
<1>4. CASE page = "error"
  BY <1>4 DEF Requested
<1> QED
  BY <1>1, <1>2, <1>3, <1>4 DEF Pages

-----------------------------------------------------------------------------
(* Replies on the wire *)

\* Values as the server has them: texts, and numbers that to_string wrote
Valued(F, v) ==
  /\ v \in Seq(Seq(Nat))
  /\ \A i \in 1 .. Len(v) :
       /\ FieldAt(F, i) \in Field
       /\ FieldAt(F, i).sized => FieldAt(F, i).w \in 1 .. 3 /\ Len(v[i]) \in Small
       /\ ~ FieldAt(F, i).sized => \E n \in Small : v[i] = Digits(n)
       /\ FieldAt(F, i).w = 0 => i = Len(v)

\* A text fits its field by its length, a number by its digits.
LEMMA SizedFits ==
  ASSUME NEW f \in Field, NEW x \in Seq(Nat), f.sized, f.w \in 1 .. 3, Len(x) <= Ten(f.w) - 1
  PROVE  FitsField(f, x)
<1>1. Ten(f.w) \in Nat
  <2>1. f.w = 1 \/ f.w = 2 \/ f.w = 3
    OBVIOUS
  <2>2. Ten(1) = 10 /\ Ten(2) = 100 /\ Ten(3) = 1000
    BY TenIs
  <2> QED
    BY <2>1, <2>2
<1>2. Len(x) < Ten(f.w)
  <2>1. Len(x) \in Nat
    BY LenProperties
  <2> QED
    BY <1>1, <2>1
<1> QED
  BY <1>2 DEF FitsField

LEMMA DigitsFit ==
  ASSUME NEW f \in Field, NEW x \in Seq(Nat), ~ f.sized, \E n \in Small : x = Digits(n),
         f.w > 0 => Len(x) <= f.w
  PROVE  FitsField(f, x)
<1>1. x # <<>> /\ x \in Seq(Digit)
  BY DigitsSome
<1> QED
  BY <1>1 DEF FitsField

\* Values of the server whose message fits, fit one by one.
LEMMA ValuedFits ==
  ASSUME NEW F, NEW v, Valued(F, v), NEW c, Fits(F, [code |-> c, values |-> v])
  PROVE  FitsAll(F, v) /\ Exact(F, v)
<1>1. v \in Seq(Seq(Nat)) /\ DOMAIN v = 1 .. Len(v)
  BY LenProperties DEF Valued
<1>2. Exact(F, v)
  BY DEF Exact, Valued
<1>3. ASSUME NEW i \in 1 .. Len(v), NEW f, f = FieldAt(F, i) PROVE FitsField(f, v[i])
  <2>1. f \in Field /\ (f.sized => f.w \in 1 .. 3) /\ (~ f.sized => \E n \in Small : v[i] = Digits(n))
    BY <1>3 DEF Valued
  <2>2. f.w > 0 => Len(v[i]) <= IF f.sized THEN Ten(f.w) - 1 ELSE f.w
    BY <1>1, <1>3 DEF Fits
  <2>3. v[i] \in Seq(Nat)
    BY <1>1, ElementOfSeq
  <2>5. CASE f.sized
    <3>1. f.w \in 1 .. 3 /\ f.w > 0
      BY <2>1, <2>5
    <3>2. Len(v[i]) <= Ten(f.w) - 1
      BY <2>2, <2>5, <3>1
    <3> QED
      BY <2>1, <2>3, <2>5, <3>1, <3>2, SizedFits
  <2>6. CASE ~ f.sized
    <3>1. f.w > 0 => Len(v[i]) <= f.w
      BY <2>2, <2>6
    <3> QED
      BY <2>1, <2>3, <2>6, <3>1, DigitsFit
  <2> QED
    BY <2>5, <2>6
<1> QED
  BY <1>1, <1>2, <1>3, Zenon DEF FitsAll, Valued

\* They are written as a text.
LEMMA ValuedText ==
  ASSUME NEW F, NEW v, Valued(F, v)
  PROVE  PutLast(F, v, Len(v)) \in Seq(Nat)
<1>1. v \in Seq(Seq(Nat)) /\ Len(v) \in Nat
  BY LenProperties DEF Valued
<1>2. ASSUME NEW i \in 1 .. Len(v) PROVE Put(FieldAt(F, i), v[i]) \in Seq(Nat)
  <2> DEFINE f == FieldAt(F, i)
  <2>1. /\ f \in Field /\ (f.sized => Len(v[i]) \in Small)
        /\ (~ f.sized => \E n \in Small : v[i] = Digits(n))
    BY DEF Valued
  <2>2. v[i] \in Seq(Nat)
    BY <1>1, ElementOfSeq
  <2> HIDE DEF f
  <2>3. ~ f.sized => v[i] \in Seq(Digit)
    BY <2>1, DigitsSome
  <2>4. Put(f, v[i]) \in Seq(Nat)
    BY <2>1, <2>2, <2>3, PutNat
  <2> QED
    BY <2>4 DEF f
<1>3. Len(v) \in 0 .. Len(v)
  BY <1>1
<1> QED
  BY <1>1, <1>2, <1>3, PutLastNat

\* What a reply is after its code: the count of its items, then its values.
LEMMA BuiltIs ==
  ASSUME NEW c \in Nat, NEW v, Valued(Built(c), v), NEW k, k = PutCount(Built(c), Len(v)), k \in Seq(Nat)
  PROVE  /\ Write(Built(c), Message(c, v)) \in Seq(Nat)
         /\ Len(Write(Built(c), Message(c, v))) >= 1
         /\ SubSeq(Write(Built(c), Message(c, v)), 2, Len(Write(Built(c), Message(c, v))))
              = k \o PutLast(Built(c), v, Len(v))
<1> DEFINE t == PutLast(Built(c), v, Len(v))
<1>1. t \in Seq(Nat)
  BY ValuedText
<1>2. Write(Built(c), Message(c, v)) = <<c>> \o (k \o t)
  BY DEF Write, Message
<1> HIDE DEF t
<1>3. k \o t \in Seq(Nat)
  BY <1>1, CutText
<1>4. <<c>> \in Seq(Nat) /\ Len(<<c>>) + 1 = 2
  OBVIOUS
<1>5. <<c>> \o (k \o t) \in Seq(Nat)
  BY <1>3, <1>4, CutText
<1>6. SubSeq(<<c>> \o (k \o t), Len(<<c>>) + 1, Len(<<c>> \o (k \o t))) = k \o t
  BY <1>3, <1>4, CutText
<1>7. SubSeq(<<c>> \o (k \o t), 2, Len(<<c>> \o (k \o t))) = k \o t
  BY <1>4, <1>6
<1>8. Len(<<c>> \o (k \o t)) >= 1
  <2>1. Len(<<c>> \o (k \o t)) = Len(<<c>>) + Len(k \o t)
    BY <1>3, <1>4, CutText
  <2>2. Len(<<c>>) = 1 /\ Len(k \o t) \in Nat
    BY <1>3, LenProperties
  <2> QED
    BY <2>1, <2>2
<1> QED
  BY <1>2, <1>5, <1>7, <1>8 DEF t

\* The server pads what it writes itself, and the client takes the padding off.
LEMMA ExactRead ==
  ASSUME NEW F, NEW v, FitsAll(F, v), Exact(F, v), NEW c
  PROVE  Meaning(F, Message(c, Padded(F, v, Len(v)))) = Message(c, v)
BY MeaningKept, MeaningExact DEF Message

\* Fields
LEMMA KeptFields ==
  ASSUME NEW c \in Nat, NEW F, NEW v, F.item = <<>>, F.count = 0, Len(F.head) = Len(v), Valued(F, v),
         Built(c) = F, Parametered(c, PutLast(F, v, Len(v))) = F
  PROVE  ReadAsBuilt(Message(c, v))
<1> DEFINE t == PutLast(F, v, Len(v))
           text == Write(Built(c), Message(c, v))
           got == SubSeq(text, 2, Len(text))
<1>1. PutCount(F, Len(v)) = <<>> /\ <<>> \in Seq(Nat)
  BY DEF PutCount
<1>2. text \in Seq(Nat) /\ Len(text) >= 1 /\ got = <<>> \o t
  BY <1>1, BuiltIs
<1>3. got = t
  <2>1. t \in Seq(Nat)
    BY ValuedText
  <2> HIDE DEF t
  <2> QED
    BY <1>2, <2>1, ConcatEmptySeq
<1>4. ASSUME Fits(F, Message(c, v))
      PROVE  Parse(F, t) = Read1(F, v) /\ Meaning(F, Message(c, Padded(F, v, Len(v)))) = Message(c, v)
  <2>1. FitsAll(F, v) /\ Exact(F, v)
    BY <1>4, ValuedFits DEF Message
  <2> QED
    BY <2>1, ParseFields, ExactRead
<1>5. Message(c, v).code = c /\ Message(c, v).values = v
  BY DEF Message
<1>6. Message(c, v) \in Msg
  BY DEF Message, Msg, Valued
<1> HIDE DEF t, text, got
<1> QED
  BY <1>2, <1>3, <1>4, <1>5, <1>6, Zenon DEF ReadAsBuilt, ReplyText, t, text, got

\* Items after their number
LEMMA KeptItems ==
  ASSUME NEW c \in Nat, NEW F, NEW v, NEW n \in Nat, F.item # <<>>, F.count \in 1 .. 4, n < Ten(F.count),
         Len(v) = n * Len(F.item), Len(v) \div Len(F.item) = n, Valued(F, v),
         Built(c) = F, \A t : Parametered(c, t) = F
  PROVE  ReadAsBuilt(Message(c, v))
<1> DEFINE t == PutLast(F, v, Len(v))
           k == PutCount(F, Len(v))
           text == Write(Built(c), Message(c, v))
           got == SubSeq(text, 2, Len(text))
<1>1. k \in Seq(Nat)
  <2>1. F.count # 0
    OBVIOUS
  <2>2. k = PadLeft(Digits(n), F.count)
    BY <2>1, Zenon DEF PutCount
  <2>3. F.count \in 1 .. 6
    OBVIOUS
  <2> QED
    BY <2>2, <2>3, LengthField
<1>2. text \in Seq(Nat) /\ Len(text) >= 1 /\ got = k \o t
  BY <1>1, BuiltIs
<1>4. ASSUME Fits(F, Message(c, v))
      PROVE  Parse(F, k \o t) = Read1(F, v) /\ Meaning(F, Message(c, Padded(F, v, Len(v)))) = Message(c, v)
  <2>1. FitsAll(F, v) /\ Exact(F, v)
    BY <1>4, ValuedFits DEF Message
  <2>2. Parse(F, k \o t) = Read1(F, v)
    BY <2>1, ParseCounted
  <2> QED
    BY <2>1, <2>2, ExactRead
<1>5. Message(c, v).code = c /\ Message(c, v).values = v
  BY DEF Message
<1>6. Message(c, v) \in Msg
  BY DEF Message, Msg, Valued
<1> HIDE DEF t, text, got, k
<1> QED
  BY <1>2, <1>4, <1>5, <1>6, Zenon DEF ReadAsBuilt, ReplyText, text, got

\* At most three items that nobody counts
LEMMA KeptOpen ==
  ASSUME NEW c \in Nat, NEW F, NEW v, F.item # <<>>, F.count = 0, 3 * Len(F.item) \in Nat,
         Len(v) <= 3 * Len(F.item), Len(v) % Len(F.item) = 0, Valued(F, v),
         Built(c) = F, \A t : Parametered(c, t) = F
  PROVE  ReadAsBuilt(Message(c, v))
<1> DEFINE t == PutLast(F, v, Len(v))
           text == Write(Built(c), Message(c, v))
           got == SubSeq(text, 2, Len(text))
<1>1. PutCount(F, Len(v)) = <<>> /\ <<>> \in Seq(Nat)
  BY DEF PutCount
<1>2. text \in Seq(Nat) /\ Len(text) >= 1 /\ got = <<>> \o t
  BY <1>1, BuiltIs
<1>3. got = t
  <2>1. t \in Seq(Nat)
    BY ValuedText
  <2> HIDE DEF t
  <2> QED
    BY <1>2, <2>1, ConcatEmptySeq
<1>4. ASSUME Fits(F, Message(c, v))
      PROVE  Parse(F, t) = Read1(F, v) /\ Meaning(F, Message(c, Padded(F, v, Len(v)))) = Message(c, v)
  <2>1. FitsAll(F, v) /\ Exact(F, v)
    BY <1>4, ValuedFits DEF Message
  <2>2. Parse(F, t) = Read1(F, v)
    BY <2>1, ParseOpen
  <2> QED
    BY <2>1, <2>2, ExactRead
<1>5. Message(c, v).code = c /\ Message(c, v).values = v
  BY DEF Message
<1>6. Message(c, v) \in Msg
  BY DEF Message, Msg, Valued
<1> HIDE DEF t, text, got
<1> QED
  BY <1>2, <1>3, <1>4, <1>5, <1>6, Zenon DEF ReadAsBuilt, ReplyText, t, text, got

\* A number of one digit is that digit.
LEMMA DigitIs ==
  ASSUME NEW d \in 0 .. 9
  PROVE  Digits(d) = <<d>> /\ d \in Small
<1>1. d \in Small
  BY SmallNat
<1>2. Size(d) = 1
  <2>1. Size(d) \in 1 .. 7 /\ (Size(d) = 1 \/ d >= Ten(Size(d) - 1))
    BY <1>1, SizeIs
  <2>2. \A k \in 1 .. 6 : Ten(k) >= 10
    BY TenIs, SMT
  <2>3. ASSUME NEW s \in 1 .. 7, s = Size(d), s # 1 PROVE FALSE
    <3>1. s - 1 \in 1 .. 6
      BY <2>3
    <3>2. d >= Ten(s - 1)
      BY <2>1, <2>3
    <3>3. s - 1 = 1 \/ s - 1 = 2 \/ s - 1 = 3 \/ s - 1 = 4 \/ s - 1 = 5 \/ s - 1 = 6
      BY <3>1
    <3> HIDE DEF Ten
    <3> QED
      BY <3>2, <3>3, TenIs, SMT
  <2> QED
    BY <2>1, <2>3
<1>3. Digits(d) \in Seq(Digit) /\ Len(Digits(d)) = 1 /\ Digits(d)[1] = (d \div Ten(0)) % 10
  <2>1. /\ Digits(d) \in Seq(Digit) /\ Len(Digits(d)) = Size(d)
        /\ \A i \in 1 .. Size(d) : Digits(d)[i] = (d \div Ten(Size(d) - i)) % 10
    BY <1>1, DigitsAre
  <2>2. 1 \in 1 .. 1 /\ 1 - 1 = 0
    OBVIOUS
  <2> QED
    BY <1>2, <2>1, <2>2
<1>4. (d \div Ten(0)) % 10 = d
  <2>1. Ten(0) = 1
    BY TenIs
  <2>2. d \div 1 = d /\ d % 10 = d
    OBVIOUS
  <2> QED
    BY <2>1, <2>2
<1>5. Digits(d) = <<d>>
  <2> DEFINE t == Digits(d)
  <2>1. t \in Seq(Digit) /\ Len(t) = 1 /\ t[1] = d
    BY <1>3, <1>4
  <2> HIDE DEF t
  <2>2. t = <<d>>
    BY <2>1
  <2> QED
    BY <2>2 DEF t
<1> QED
  BY <1>1, <1>5

\* The fields of a list are those of its items, again and again.
LEMMA FieldOfItem ==
  ASSUME NEW k
  PROVE  /\ \A f, i : i \in Nat \ {0} => FieldAt(Items(k, <<f>>), i) = f
         /\ \A f, g, i : i \in Nat \ {0} => FieldAt(Items(k, <<f, g>>), i) = IF i % 2 = 1 THEN f ELSE g
<1>1. ASSUME NEW f, NEW i \in Nat \ {0} PROVE FieldAt(Items(k, <<f>>), i) = f
  <2> DEFINE q == <<f>>
  <2>1. Items(k, q).item = q /\ q # <<>> /\ Len(q) = 1 /\ q[1] = f
    BY DEF Items
  <2>2. ((i - 1) % 1) + 1 = 1
    OBVIOUS
  <2> HIDE DEF q
  <2>3. FieldAt(Items(k, q), i) = q[((i - 1) % 1) + 1]
    BY <2>1 DEF FieldAt
  <2>4. FieldAt(Items(k, q), i) = f
    BY <2>1, <2>2, <2>3
  <2> QED
    BY <2>4 DEF q
<1>2. ASSUME NEW f, NEW g, NEW i \in Nat \ {0}
      PROVE  FieldAt(Items(k, <<f, g>>), i) = IF i % 2 = 1 THEN f ELSE g
  <2> DEFINE q == <<f, g>>
  <2>1. Items(k, q).item = q /\ q # <<>> /\ Len(q) = 2 /\ q[1] = f /\ q[2] = g
    BY DEF Items
  <2>2. ((i - 1) % 2) + 1 = IF i % 2 = 1 THEN 1 ELSE 2
    OBVIOUS
  <2> HIDE DEF q
  <2>3. FieldAt(Items(k, q), i) = q[((i - 1) % 2) + 1]
    BY <2>1 DEF FieldAt
  <2>4. FieldAt(Items(k, q), i) = IF i % 2 = 1 THEN f ELSE g
    BY <2>1, <2>2, <2>3
  <2> QED
    BY <2>4 DEF q
<1> QED
  BY <1>1, <1>2

\* The fields of a message that is no list
LEMMA FieldOfHead ==
  ASSUME NEW h
  PROVE  /\ Fields(h).item = <<>> /\ Fields(h).count = 0 /\ Fields(h).head = h
         /\ \A i : FieldAt(Fields(h), i) = h[i]
BY DEF Fields, FieldAt

\* The two programs have the same format for every reply, except for what follows
\* a refusal.
LEMMA ReplyFormats ==
  /\ \A c \in {SignInReply, SignUpReply, ForgotReply, TrueFalse} :
       Built(c) = Fields(<<N(1)>>) /\ \A t : Parametered(c, t) = Fields(<<N(1)>>)
  /\ Built(Rooms) = Items(4, <<N(4), S(2)>>) /\ \A t : Parametered(Rooms, t) = Items(4, <<N(4), S(2)>>)
  /\ Built(RoomUsers) = Items(1, <<S(2)>>) /\ \A t : Parametered(RoomUsers, t) = Items(1, <<S(2)>>)
  /\ Built(Joined) = Fields(<<N(1), N(2), N(2), N(1)>>)
  /\ \A t : Parametered(Joined, t) = IF t # <<>> /\ t[1] = 0 THEN Fields(<<N(1), N(2), N(2), N(1)>>)
                                     ELSE Fields(<<N(1)>>)
  /\ Built(Created) = Fields(<<N(1), N(4)>>)
  /\ \A t : t # <<>> /\ t[1] = 0 => Parametered(Created, t) = Fields(<<N(1), N(4)>>)
  /\ Built(Question) = Fields(Five(S(3))) /\ \A t : Parametered(Question, t) = Fields(Five(S(3)))
  /\ Built(EndGame) = Items(1, <<S(2), N(2)>>) /\ \A t : Parametered(EndGame, t) = Items(1, <<S(2), N(2)>>)
  /\ Built(Scores) = Items(0, <<S(2), N(6)>>) /\ \A t : Parametered(Scores, t) = Items(0, <<S(2), N(6)>>)
  /\ Built(Status) = Fields(<<N(4), N(6), N(6), N(0)>>)
  /\ \A t : Parametered(Status, t) = Fields(<<N(4), N(6), N(6), N(0)>>)
<1> USE DEF SignInReply, ForgotReply, SignUpReply, Rooms, RoomUsers, Joined, Created, Question, TrueFalse,
            EndGame, Scores, Status
<1> HIDE DEF N, S, Fields, Items, Five
<1>1. ASSUME NEW c \in {SignInReply, SignUpReply, ForgotReply, TrueFalse}, NEW t
      PROVE  Built(c) = Fields(<<N(1)>>) /\ Parametered(c, t) = Fields(<<N(1)>>)
  BY DEF Built, Parametered
<1>2. ASSUME NEW t
      PROVE Built(Rooms) = Items(4, <<N(4), S(2)>>) /\ Parametered(Rooms, t) = Items(4, <<N(4), S(2)>>)
  BY DEF Built, Parametered
<1>3. ASSUME NEW t
      PROVE Built(RoomUsers) = Items(1, <<S(2)>>) /\ Parametered(RoomUsers, t) = Items(1, <<S(2)>>)
  BY DEF Built, Parametered
<1>4. Built(Joined) = Fields(<<N(1), N(2), N(2), N(1)>>)
  BY DEF Built
<1>5. ASSUME NEW t
      PROVE Parametered(Joined, t) = IF t # <<>> /\ t[1] = 0 THEN Fields(<<N(1), N(2), N(2), N(1)>>)
                                     ELSE Fields(<<N(1)>>)
  BY DEF Parametered
<1>6. Built(Created) = Fields(<<N(1), N(4)>>)
  BY DEF Built
<1>7. ASSUME NEW t, t # <<>>, t[1] = 0 PROVE Parametered(Created, t) = Fields(<<N(1), N(4)>>)
  BY <1>7 DEF Parametered
<1>8. ASSUME NEW t
      PROVE Built(Question) = Fields(Five(S(3))) /\ Parametered(Question, t) = Fields(Five(S(3)))
  BY DEF Built, Parametered
<1>9. ASSUME NEW t
      PROVE Built(EndGame) = Items(1, <<S(2), N(2)>>) /\ Parametered(EndGame, t) = Items(1, <<S(2), N(2)>>)
  BY DEF Built, Parametered
<1>10. ASSUME NEW t
      PROVE Built(Scores) = Items(0, <<S(2), N(6)>>) /\ Parametered(Scores, t) = Items(0, <<S(2), N(6)>>)
  BY DEF Built, Parametered, Score
<1>11. ASSUME NEW t
      PROVE /\ Built(Status) = Fields(<<N(4), N(6), N(6), N(0)>>)
            /\ Parametered(Status, t) = Fields(<<N(4), N(6), N(6), N(0)>>)
  BY DEF Built, Parametered
<1> HIDE DEF SignInReply, ForgotReply, SignUpReply, Rooms, RoomUsers, Joined, Created, Question, TrueFalse,
            EndGame, Scores, Status
<1> QED
  BY <1>1, <1>2, <1>3, <1>4, <1>5, <1>6, <1>7, <1>8, <1>9, <1>10, <1>11, Zenon

\* The codes of the replies are numbers.
LEMMA ReplyCodes ==
  /\ SignInReply \in Nat /\ ForgotReply \in Nat /\ SignUpReply \in Nat /\ Rooms \in Nat /\ RoomUsers \in Nat
  /\ Joined \in Nat /\ Created \in Nat /\ Question \in Nat /\ TrueFalse \in Nat /\ EndGame \in Nat
  /\ Scores \in Nat /\ Status \in Nat
<1>1. /\ SignInReply \in Nat /\ ForgotReply \in Nat /\ SignUpReply \in Nat /\ Rooms \in Nat
      /\ RoomUsers \in Nat
  BY DEF SignInReply, ForgotReply, SignUpReply, Rooms, RoomUsers
<1>2. Joined \in Nat /\ Created \in Nat /\ Question \in Nat /\ TrueFalse \in Nat
  BY DEF Joined, Created, Question, TrueFalse
<1>3. EndGame \in Nat /\ Scores \in Nat /\ Status \in Nat
  BY DEF EndGame, Scores, Status
<1> QED
  BY <1>1, <1>2, <1>3

\* A name the server knows has a length of two digits.
LEMMA KnownText ==
  ASSUME NEW u \in Known
  PROVE  u \in Seq(Nat) /\ Len(u) \in Small /\ Len(u) \in 1 .. 99
<1>1. u \in Names /\ Len(u) \in 1 .. 99
  BY DEF Known
<1> QED
  BY <1>1, NameText

\* Replies of one digit: sign-ins, sign-ups, passwords, answers that are judged
LEMMA KeptDigit ==
  ASSUME NEW c \in {SignInReply, SignUpReply, ForgotReply, TrueFalse}, NEW d \in 0 .. 9
  PROVE  ReadAsBuilt(Message(c, <<Digits(d)>>))
<1> DEFINE F == Fields(<<N(1)>>)
           v == <<Digits(d)>>
<1>1. Built(c) = F /\ Parametered(c, PutLast(F, v, Len(v))) = F
  BY ReplyFormats
<1>2. c \in Nat
  BY ReplyCodes
<1>3. F.item = <<>> /\ F.count = 0 /\ F.head = <<N(1)>> /\ \A i : FieldAt(F, i) = <<N(1)>>[i]
  BY FieldOfHead
<1>4. d \in Small /\ Digits(d) \in Seq(Nat)
  <2>1. d \in Small
    BY DigitIs
  <2> QED
    BY <2>1, DigitsText
<1>5. v \in Seq(Seq(Nat)) /\ Len(v) = 1 /\ v[1] = Digits(d) /\ Len(F.head) = 1
  BY <1>3, <1>4
<1> HIDE DEF F, v
<1>6. Valued(F, v)
  <2>1. FieldAt(F, 1) = N(1)
    BY <1>3
  <2>2. ASSUME NEW i \in 1 .. Len(v) PROVE i = 1
    BY <1>5
  <2> QED
    BY <1>4, <1>5, <2>1, <2>2, FieldKinds DEF Valued
<1>7. ReadAsBuilt(Message(c, v))
  BY <1>1, <1>2, <1>3, <1>5, <1>6, KeptFields
<1> QED
  BY <1>7 DEF v

\* One digit is written as it is.
LEMMA PutOne ==
  ASSUME NEW d \in 0 .. 9, NEW w \in 0 .. 1
  PROVE  Put(N(w), Digits(d)) = <<d>>
<1>0. Digits(d) = <<d>>
  BY DigitIs
<1>1. Digits(d) = <<d>> /\ <<d>> \in Seq(Nat) /\ Len(<<d>>) = 1
  <2>1. <<d>> \in Seq(Nat) /\ Len(<<d>>) = 1
    OBVIOUS
  <2> QED
    BY <1>0, <2>1
<1>2. w <= Len(<<d>>) /\ w \in Nat
  BY <1>1
<1>3. PadLeft(<<d>>, w) = <<d>>
  BY <1>1, <1>2, PadFull
<1> QED
  BY <1>1, <1>3 DEF Put, N

\* The digit in front of a reply
LEMMA FirstDigit ==
  ASSUME NEW F, NEW v, Valued(F, v), Len(v) >= 1, NEW d \in 0 .. 9, v[1] = Digits(d), FieldAt(F, 1) = N(1)
  PROVE  PutLast(F, v, Len(v)) # <<>> /\ PutLast(F, v, Len(v))[1] = d
<1>1. v \in Seq(Seq(Nat)) /\ Len(v) \in Nat
  BY LenProperties DEF Valued
<1>2. 1 \in 1 .. Len(v) /\ Len(v) - 1 + 1 = Len(v)
  BY <1>1
<1> DEFINE r == PutLast(F, v, Len(v) - 1)
<1>3. PutLast(F, v, Len(v)) = <<d>> \o r
  <2>1. PutLast(F, v, Len(v) - 1 + 1) = Put(FieldAt(F, 1), v[1]) \o r
    BY <1>1, <1>2, PutLastStep
  <2>2. Put(FieldAt(F, 1), v[1]) = <<d>>
    BY PutOne
  <2> QED
    BY <1>2, <2>1, <2>2
<1>4. r \in Seq(Nat)
  <2>1. ASSUME NEW i \in 1 .. Len(v) PROVE Put(FieldAt(F, i), v[i]) \in Seq(Nat)
    <3>1. PICK f : f = FieldAt(F, i)
      OBVIOUS
    <3>2. f \in Field /\ (f.sized => Len(v[i]) \in Small) /\ (~ f.sized => \E n \in Small : v[i] = Digits(n))
      BY <3>1 DEF Valued
    <3>3. v[i] \in Seq(Nat)
      BY <1>1, ElementOfSeq
    <3>4. ~ f.sized => v[i] \in Seq(Digit)
      BY <3>2, DigitsSome
    <3>5. Put(f, v[i]) \in Seq(Nat)
      BY <3>2, <3>3, <3>4, PutNat
    <3> QED
      BY <3>1, <3>5
  <2>2. Len(v) - 1 \in 0 .. Len(v)
    BY <1>1
  <2> QED
    BY <1>1, <2>1, <2>2, PutLastNat
<1> HIDE DEF r
<1>5. <<d>> \in Seq(Nat) /\ Len(<<d>>) = 1 /\ <<d>>[1] = d
  OBVIOUS
<1>6. (<<d>> \o r)[1] = d /\ <<d>> \o r # <<>>
  <2>1. 1 \in 1 .. Len(<<d>>) + Len(r) /\ 1 <= Len(<<d>>)
    BY <1>4, <1>5, LenProperties
  <2>2. Len(<<d>> \o r) = Len(<<d>>) + Len(r)
    BY <1>4, <1>5, ConcatProperties
  <2>3. Len(<<d>> \o r) # 0
    BY <1>4, <1>5, <2>2, LenProperties
  <2> QED
    BY <1>4, <1>5, <2>1, <2>3, ConcatProperties
<1> QED
  BY <1>3, <1>6

\* A join that failed
LEMMA KeptRefused ==
  ASSUME NEW d \in 1 .. 2
  PROVE  ReadAsBuilt(Message(Joined, <<Digits(d)>>))
<1> DEFINE F == Fields(<<N(1)>>)
           G == Fields(<<N(1), N(2), N(2), N(1)>>)
           v == <<Digits(d)>>
           t == PutLast(F, v, Len(v))
           m == Message(Joined, v)
           text == Write(Built(m.code), m)
           got == SubSeq(text, 2, Len(text))
<1>0. d \in 0 .. 9
  OBVIOUS
<1>1. Built(Joined) = G /\ \A x : Parametered(Joined, x) = IF x # <<>> /\ x[1] = 0 THEN G ELSE F
  BY ReplyFormats
<1>2. Joined \in Nat
  BY ReplyCodes
<1>3. F.item = <<>> /\ F.count = 0 /\ F.head = <<N(1)>> /\ FieldAt(F, 1) = N(1)
  BY FieldOfHead
<1>4. G.item = <<>> /\ G.count = 0 /\ FieldAt(G, 1) = N(1)
  BY FieldOfHead
<1>5. d \in Small /\ Digits(d) \in Seq(Nat)
  <2>1. d \in Small /\ Digits(d) = <<d>>
    BY <1>0, DigitIs, Zenon
  <2>2. <<d>> \in Seq(Nat)
    OBVIOUS
  <2> QED
    BY <2>1, <2>2, Zenon
<1>6. v \in Seq(Seq(Nat)) /\ Len(v) = 1 /\ v[1] = Digits(d) /\ Len(F.head) = 1
  BY <1>3, <1>5
<1>7. m.code = Joined /\ m.values = v /\ m = [code |-> Joined, values |-> v]
  BY DEF Message
<1> HIDE DEF F, G, v, m
<1>8. Valued(F, v) /\ Valued(G, v)
  <2>1. ASSUME NEW i \in 1 .. Len(v) PROVE i = 1
    BY <1>6
  <2>2. Valued(F, v)
    BY <1>3, <1>5, <1>6, <2>1, FieldKinds DEF Valued
  <2>3. Valued(G, v)
    BY <1>4, <1>5, <1>6, <2>1, FieldKinds DEF Valued
  <2> QED
    BY <2>2, <2>3
<1>9. PutLast(G, v, Len(v)) = t
  <2>1. \A i \in 1 .. Len(v) : Put(FieldAt(G, i), v[i]) = Put(FieldAt(F, i), v[i])
    BY <1>3, <1>4, <1>6
  <2>2. Len(v) \in Nat
    BY <1>6
  <2> QED
    BY <2>1, <2>2, PutSame, Zenon
<1>10. PutCount(G, Len(v)) = <<>> /\ <<>> \in Seq(Nat)
  BY <1>4 DEF PutCount
<1>11. text \in Seq(Nat) /\ Len(text) >= 1 /\ got = <<>> \o t
  <2>1. /\ Write(Built(Joined), Message(Joined, v)) \in Seq(Nat)
        /\ Len(Write(Built(Joined), Message(Joined, v))) >= 1
        /\ SubSeq(Write(Built(Joined), Message(Joined, v)), 2, Len(Write(Built(Joined), Message(Joined, v))))
             = <<>> \o PutLast(Built(Joined), v, Len(v))
    BY <1>1, <1>2, <1>8, <1>10, BuiltIs
  <2> QED
    BY <1>1, <1>7, <1>9, <2>1 DEF m
<1>12. t \in Seq(Nat)
  BY <1>8, ValuedText
<1>13. t[1] = d
  <2>1. Len(v) >= 1 /\ Valued(F, v) /\ v[1] = Digits(d) /\ FieldAt(F, 1) = N(1)
    BY <1>3, <1>6, <1>8
  <2> QED
    BY <1>0, <2>1, FirstDigit, Zenon
<1> HIDE DEF t, text, got
<1>14. got = t
  BY <1>11, <1>12, ConcatEmptySeq
<1>15. Parametered(Joined, got) = F
  <2>1. d # 0
    OBVIOUS
  <2> QED
    BY <1>1, <1>13, <1>14, <2>1
<1>16. ASSUME Fits(F, m)
       PROVE  Parse(F, t) = Read1(F, v) /\ Meaning(F, Message(Joined, Padded(F, v, Len(v)))) = m
  <2>1. FitsAll(F, v) /\ Exact(F, v)
    BY <1>7, <1>8, <1>16, ValuedFits
  <2>2. Parse(F, t) = Read1(F, v)
    BY <1>3, <1>6, <2>1, ParseFields DEF t
  <2> QED
    BY <2>1, <2>2, ExactRead DEF m
<1>18. m \in Msg
  BY <1>2, <1>6, <1>7 DEF Msg
<1>17. ReadAsBuilt(m)
  BY <1>18, <1>7, <1>11, <1>14, <1>15, <1>16, Zenon DEF ReadAsBuilt, ReplyText, text, got
<1> QED
  BY <1>17 DEF m, v

\* A list of values by the kinds of their fields
LEMMA ValuedNumber ==
  ASSUME NEW f \in {N(0), N(1), N(2), N(4), N(6)}, NEW n \in Small
  PROVE  f \in Field /\ ~ f.sized /\ Digits(n) \in Seq(Nat)
<1>1. f \in Field /\ ~ f.sized
  BY FieldKinds
<1>2. Digits(n) \in Seq(Nat)
  BY DigitsText
<1> QED
  BY <1>1, <1>2

\* Each of the other replies is read as it was built: a room that was joined,
LEMMA KeptJoined ==
  ReadAsBuilt(Message(Joined, <<Digits(0), Digits(10), Digits(7), Digits(9)>>))
<1> DEFINE h == <<N(1), N(2), N(2), N(1)>>
           F == Fields(h)
           v == <<Digits(0), Digits(10), Digits(7), Digits(9)>>
<1>1. Built(Joined) = F /\ \A x : x # <<>> /\ x[1] = 0 => Parametered(Joined, x) = F
  BY ReplyFormats
<1>2. Joined \in Nat
  BY ReplyCodes
<1>3. F.item = <<>> /\ F.count = 0 /\ F.head = h /\ \A i : FieldAt(F, i) = h[i]
  BY FieldOfHead
<1>4. Len(h) = 4 /\ h[1] = N(1) /\ h[2] = N(2) /\ h[3] = N(2) /\ h[4] = N(1)
  OBVIOUS
<1>5. 0 \in Small /\ 10 \in Small /\ 7 \in Small /\ 9 \in Small
  <2>1. \A n \in {0, 10, 7, 9} : n \in Small
    BY SmallNat
  <2> QED
    BY <2>1
<1>6. Digits(0) \in Seq(Nat) /\ Digits(10) \in Seq(Nat) /\ Digits(7) \in Seq(Nat) /\ Digits(9) \in Seq(Nat)
  <2>1. \A n \in Small : Digits(n) \in Seq(Nat)
    BY DigitsText
  <2> QED
    BY <1>5, <2>1, Zenon
<1>7. /\ v \in Seq(Seq(Nat)) /\ Len(v) = 4
      /\ v[1] = Digits(0) /\ v[2] = Digits(10) /\ v[3] = Digits(7) /\ v[4] = Digits(9)
  BY <1>6
<1> HIDE DEF F, v, h
<1>8. Valued(F, v)
  <2>1. ASSUME NEW i \in 1 .. Len(v)
        PROVE  /\ FieldAt(F, i) \in {N(1), N(2)}
               /\ \E n \in Small : v[i] = Digits(n)
    <3>1. i = 1 \/ i = 2 \/ i = 3 \/ i = 4
      BY <1>7
    <3>2. FieldAt(F, i) = h[i]
      BY <1>3
    <3> QED
      BY <1>4, <1>5, <1>7, <3>1, <3>2
  <2>2. \A f \in {N(1), N(2)} : f \in Field /\ ~ f.sized /\ f.w # 0
    BY FieldKinds
  <2> QED
    BY <1>7, <2>1, <2>2, Zenon DEF Valued
<1>9. Parametered(Joined, PutLast(F, v, Len(v))) = F
  <2>1. FieldAt(F, 1) = N(1) /\ Len(v) >= 1 /\ 0 \in 0 .. 9
    BY <1>3, <1>4, <1>7
  <2>2. PutLast(F, v, Len(v)) # <<>> /\ PutLast(F, v, Len(v))[1] = 0
    BY <1>7, <1>8, <2>1, FirstDigit, Zenon
  <2> QED
    BY <1>1, <2>2, Zenon
<1>10. Len(F.head) = Len(v)
  BY <1>3, <1>4, <1>7
<1>11. ReadAsBuilt(Message(Joined, v))
  BY <1>1, <1>2, <1>3, <1>8, <1>9, <1>10, KeptFields
<1> QED
  BY <1>11 DEF v

\* a room that was created,
LEMMA KeptCreated ==
  ASSUME NEW n \in Numbers
  PROVE  ReadAsBuilt(Message(Created, <<Digits(0), Digits(n)>>))
<1> DEFINE h == <<N(1), N(4)>>
           F == Fields(h)
           v == <<Digits(0), Digits(n)>>
<1>1. Built(Created) = F /\ \A x : x # <<>> /\ x[1] = 0 => Parametered(Created, x) = F
  BY ReplyFormats
<1>2. Created \in Nat
  BY ReplyCodes
<1>3. F.item = <<>> /\ F.count = 0 /\ F.head = h /\ \A i : FieldAt(F, i) = h[i]
  BY FieldOfHead
<1>4. Len(h) = 2 /\ h[1] = N(1) /\ h[2] = N(4)
  OBVIOUS
<1>5. 0 \in Small /\ n \in Small
  <2>1. 0 \in Small
    BY SmallNat
  <2>2. n \in Small
    BY NumberSmall
  <2> QED
    BY <2>1, <2>2
<1>6. Digits(0) \in Seq(Nat) /\ Digits(n) \in Seq(Nat)
  <2>1. \A k \in Small : Digits(k) \in Seq(Nat)
    BY DigitsText
  <2> QED
    BY <1>5, <2>1, Zenon
<1>7. v \in Seq(Seq(Nat)) /\ Len(v) = 2 /\ v[1] = Digits(0) /\ v[2] = Digits(n)
  BY <1>6
<1> HIDE DEF F, v, h
<1>8. Valued(F, v)
  <2>1. ASSUME NEW i \in 1 .. Len(v)
        PROVE  /\ FieldAt(F, i) \in {N(1), N(4)}
               /\ \E k \in Small : v[i] = Digits(k)
    <3>1. i = 1 \/ i = 2
      BY <1>7
    <3>2. FieldAt(F, i) = h[i]
      BY <1>3
    <3> QED
      BY <1>4, <1>5, <1>7, <3>1, <3>2
  <2>2. \A f \in {N(1), N(4)} : f \in Field /\ ~ f.sized /\ f.w # 0
    BY FieldKinds
  <2> QED
    BY <1>7, <2>1, <2>2, Zenon DEF Valued
<1>9. Parametered(Created, PutLast(F, v, Len(v))) = F
  <2>1. FieldAt(F, 1) = N(1) /\ Len(v) >= 1 /\ 0 \in 0 .. 9
    BY <1>3, <1>4, <1>7
  <2>2. PutLast(F, v, Len(v)) # <<>> /\ PutLast(F, v, Len(v))[1] = 0
    BY <1>7, <1>8, <2>1, FirstDigit, Zenon
  <2> QED
    BY <1>1, <2>2, Zenon
<1>10. Len(F.head) = Len(v)
  BY <1>3, <1>4, <1>7
<1>11. ReadAsBuilt(Message(Created, v))
  BY <1>1, <1>2, <1>3, <1>8, <1>9, <1>10, KeptFields
<1> QED
  BY <1>11 DEF v

\* a status,
LEMMA KeptStatus ==
  ASSUME NEW n \in Numbers
  PROVE  ReadAsBuilt(Message(Status, <<Digits(n), Digits(7), Digits(n), Digits(3)>>))
<1> DEFINE h == <<N(4), N(6), N(6), N(0)>>
           F == Fields(h)
           v == <<Digits(n), Digits(7), Digits(n), Digits(3)>>
<1>1. Built(Status) = F /\ \A x : Parametered(Status, x) = F
  BY ReplyFormats
<1>2. Status \in Nat
  BY ReplyCodes
<1>3. F.item = <<>> /\ F.count = 0 /\ F.head = h /\ \A i : FieldAt(F, i) = h[i]
  BY FieldOfHead
<1>4. Len(h) = 4 /\ h[1] = N(4) /\ h[2] = N(6) /\ h[3] = N(6) /\ h[4] = N(0)
  OBVIOUS
<1>5. 3 \in Small /\ 7 \in Small /\ n \in Small
  <2>1. 3 \in Small
    BY SmallNat
  <2>3. 7 \in Small
    BY SmallNat
  <2>2. n \in Small
    BY NumberSmall
  <2> QED
    BY <2>1, <2>2, <2>3
<1>6. Digits(3) \in Seq(Nat) /\ Digits(7) \in Seq(Nat) /\ Digits(n) \in Seq(Nat)
  <2>1. \A k \in Small : Digits(k) \in Seq(Nat)
    BY DigitsText
  <2> QED
    BY <1>5, <2>1, Zenon
<1>7. /\ v \in Seq(Seq(Nat)) /\ Len(v) = 4
      /\ v[1] = Digits(n) /\ v[2] = Digits(7) /\ v[3] = Digits(n) /\ v[4] = Digits(3)
  BY <1>6
<1> HIDE DEF F, v, h
<1>8. Valued(F, v)
  <2>1. ASSUME NEW i \in 1 .. Len(v)
        PROVE  /\ FieldAt(F, i) \in {N(0), N(4), N(6)}
               /\ \E k \in Small : v[i] = Digits(k)
               /\ FieldAt(F, i) = N(0) => i = Len(v)
    <3>1. i = 1 \/ i = 2 \/ i = 3 \/ i = 4
      BY <1>7
    <3>2. FieldAt(F, i) = h[i]
      BY <1>3
    <3>3. N(4) # N(0) /\ N(6) # N(0)
      BY FieldKinds
    <3> QED
      BY <1>4, <1>5, <1>7, <3>1, <3>2, <3>3
  <2>2. \A f \in {N(0), N(4), N(6)} : f \in Field /\ ~ f.sized /\ (f.w = 0 => f = N(0))
    BY FieldKinds
  <2> QED
    BY <1>7, <2>1, <2>2, Zenon DEF Valued
<1>10. Len(F.head) = Len(v)
  BY <1>3, <1>4, <1>7
<1>11. ReadAsBuilt(Message(Status, v))
  BY <1>1, <1>2, <1>3, <1>8, <1>10, KeptFields
<1> QED
  BY <1>11 DEF v

\* the players of a room,
LEMMA KeptUsers ==
  ASSUME NEW k \in {2, 9}, NEW u \in Known
  PROVE  ReadAsBuilt(Message(RoomUsers, [i \in 1 .. k |-> u]))
<1> DEFINE F == Items(1, <<S(2)>>)
           v == [i \in 1 .. k |-> u]
<1>1. Built(RoomUsers) = F /\ \A x : Parametered(RoomUsers, x) = F
  BY ReplyFormats
<1>2. RoomUsers \in Nat
  BY ReplyCodes
<1>3. F.item = <<S(2)>> /\ F.count = 1
  BY DEF Items
<1>4. \A i \in Nat \ {0} : FieldAt(F, i) = S(2)
  BY FieldOfItem
<1>5. u \in Seq(Nat) /\ Len(u) \in Small
  BY KnownText
<1>6. v \in Seq(Seq(Nat)) /\ Len(v) = k /\ (\A i \in 1 .. k : v[i] = u) /\ k \in Nat
  BY <1>5
<1> HIDE DEF F, v
<1>7. Valued(F, v)
  <2>1. ASSUME NEW i \in 1 .. Len(v) PROVE FieldAt(F, i) = S(2) /\ v[i] = u
    <3>1. i \in Nat \ {0} /\ i \in 1 .. k
      BY <1>6
    <3> QED
      BY <1>4, <1>6, <3>1
  <2>2. S(2) \in Field /\ S(2).sized /\ S(2).w \in 1 .. 3 /\ S(2).w # 0
    BY FieldKinds
  <2> QED
    BY <1>5, <1>6, <2>1, <2>2, Zenon DEF Valued
<1>8. F.item # <<>> /\ Len(F.item) = 1 /\ F.count \in 1 .. 4
  BY <1>3
<1>9. k < Ten(F.count)
  BY <1>3, TenIs
<1>10. Len(v) = k * Len(F.item) /\ Len(v) \div Len(F.item) = k
  <2>1. k * 1 = k /\ k \div 1 = k
    OBVIOUS
  <2> QED
    BY <1>6, <1>8, <2>1
<1>11. ReadAsBuilt(Message(RoomUsers, v))
  BY <1>1, <1>2, <1>6, <1>7, <1>8, <1>9, <1>10, KeptItems
<1> QED
  BY <1>11 DEF v

\* the list of rooms,
LEMMA KeptRooms ==
  ASSUME NEW n \in Counts, NEW u \in Known
  PROVE  ReadAsBuilt(Message(Rooms, [i \in 1 .. 2 * n |-> IF i % 2 = 1 THEN Digits((i + 1) \div 2) ELSE u]))
<1> DEFINE F == Items(4, <<N(4), S(2)>>)
           v == [i \in 1 .. 2 * n |-> IF i % 2 = 1 THEN Digits((i + 1) \div 2) ELSE u]
<1>1. Built(Rooms) = F /\ \A x : Parametered(Rooms, x) = F
  BY ReplyFormats
<1>2. Rooms \in Nat
  BY ReplyCodes
<1>3. F.item = <<N(4), S(2)>> /\ F.count = 4
  BY DEF Items
<1>4. \A i \in Nat \ {0} : FieldAt(F, i) = IF i % 2 = 1 THEN N(4) ELSE S(2)
  BY FieldOfItem
<1>5. u \in Seq(Nat) /\ Len(u) \in Small
  BY KnownText
<1>6. n \in Nat /\ n < 1000
  BY ExchangeAssumption
<1>7. ASSUME NEW i \in 1 .. 2 * n
      PROVE  (i + 1) \div 2 \in Small /\ Digits((i + 1) \div 2) \in Seq(Nat)
  <2>1. (i + 1) \div 2 \in Nat /\ (i + 1) \div 2 < 1000
    BY <1>6
  <2>2. (i + 1) \div 2 \in Small
    BY <2>1, SmallNat
  <2> QED
    BY <2>2, DigitsText
<1>8. v \in Seq(Seq(Nat)) /\ Len(v) = 2 * n
  <2>1. 2 * n \in Nat
    BY <1>6
  <2>2. \A i \in 1 .. 2 * n : (IF i % 2 = 1 THEN Digits((i + 1) \div 2) ELSE u) \in Seq(Nat)
    BY <1>5, <1>7
  <2> QED
    BY <2>1, <2>2
<1>9. \A i \in 1 .. 2 * n : v[i] = IF i % 2 = 1 THEN Digits((i + 1) \div 2) ELSE u
  OBVIOUS
<1> HIDE DEF F, v
<1>10. Valued(F, v)
  <2>1. ASSUME NEW i \in 1 .. Len(v)
        PROVE  \/ FieldAt(F, i) = S(2) /\ v[i] = u
               \/ FieldAt(F, i) = N(4) /\ \E k \in Small : v[i] = Digits(k)
    <3>1. i \in Nat \ {0} /\ i \in 1 .. 2 * n
      BY <1>6, <1>8
    <3>2. CASE i % 2 = 1
      <4>1. FieldAt(F, i) = N(4) /\ v[i] = Digits((i + 1) \div 2)
        BY <1>4, <1>9, <3>1, <3>2
      <4>2. (i + 1) \div 2 \in Small
        BY <1>7, <3>1
      <4> QED
        BY <4>1, <4>2, Zenon
    <3>3. CASE i % 2 # 1
      <4>1. FieldAt(F, i) = S(2) /\ v[i] = u
        BY <1>4, <1>9, <3>1, <3>3
      <4> QED
        BY <4>1
    <3> QED
      BY <3>2, <3>3
  <2>2. S(2) \in Field /\ S(2).sized /\ S(2).w \in 1 .. 3 /\ S(2).w # 0
    BY FieldKinds
  <2>3. N(4) \in Field /\ ~ N(4).sized /\ N(4).w # 0
    BY FieldKinds
  <2> QED
    BY <1>5, <1>8, <2>1, <2>2, <2>3, Zenon DEF Valued
<1>11. F.item # <<>> /\ Len(F.item) = 2 /\ F.count \in 1 .. 4
  BY <1>3
<1>12. n < Ten(F.count)
  <2>1. Ten(F.count) = 10000
    BY <1>3, TenIs, SMT
  <2> QED
    BY <1>6, <2>1, SMT
<1>13. Len(v) = n * Len(F.item) /\ Len(v) \div Len(F.item) = n
  <2>1. n * 2 = 2 * n /\ (2 * n) \div 2 = n
    BY <1>6
  <2> QED
    BY <1>8, <1>11, <2>1
<1>14. ReadAsBuilt(Message(Rooms, v))
  BY <1>1, <1>2, <1>6, <1>10, <1>11, <1>12, <1>13, KeptItems, ZenonT(30)
<1> QED
  BY <1>14 DEF v

\* the end of a game,
LEMMA KeptEnd ==
  ASSUME NEW u \in Known, NEW n \in Numbers
  PROVE  ReadAsBuilt(Message(EndGame, <<u, Digits(n), u, Digits(0)>>))
<1> DEFINE F == Items(1, <<S(2), N(2)>>)
           v == <<u, Digits(n), u, Digits(0)>>
<1>1. Built(EndGame) = F /\ \A x : Parametered(EndGame, x) = F
  BY ReplyFormats
<1>2. EndGame \in Nat
  BY ReplyCodes
<1>3. F.item = <<S(2), N(2)>> /\ F.count = 1
  BY DEF Items
<1>4. \A i \in Nat \ {0} : FieldAt(F, i) = IF i % 2 = 1 THEN S(2) ELSE N(2)
  BY FieldOfItem
<1>5. u \in Seq(Nat) /\ Len(u) \in Small
  BY KnownText
<1>6. 0 \in Small /\ n \in Small
  <2>1. 0 \in Small
    BY SmallNat
  <2>2. n \in Small
    BY NumberSmall
  <2> QED
    BY <2>1, <2>2
<1>7. Digits(0) \in Seq(Nat) /\ Digits(n) \in Seq(Nat)
  <2>1. \A k \in Small : Digits(k) \in Seq(Nat)
    BY DigitsText
  <2> QED
    BY <1>6, <2>1, Zenon
<1>8. /\ v \in Seq(Seq(Nat)) /\ Len(v) = 4
      /\ v[1] = u /\ v[2] = Digits(n) /\ v[3] = u /\ v[4] = Digits(0)
  BY <1>5, <1>7
<1> HIDE DEF F, v
<1>10. Valued(F, v)
  <2>1. ASSUME NEW i \in 1 .. Len(v)
        PROVE  \/ FieldAt(F, i) = S(2) /\ v[i] = u
               \/ FieldAt(F, i) = N(2) /\ \E k \in Small : v[i] = Digits(k)
    <3>1. i = 1 \/ i = 2 \/ i = 3 \/ i = 4
      BY <1>8
    <3>2. FieldAt(F, i) = IF i % 2 = 1 THEN S(2) ELSE N(2)
      BY <1>4, <3>1
    <3>3. FieldAt(F, i) = IF i = 1 \/ i = 3 THEN S(2) ELSE N(2)
      <4>1. 1 % 2 = 1 /\ 2 % 2 = 0 /\ 3 % 2 = 1 /\ 4 % 2 = 0
        OBVIOUS
      <4> QED
        BY <3>1, <3>2, <4>1
    <3> QED
      BY <1>6, <1>8, <3>1, <3>3
  <2>2. S(2) \in Field /\ S(2).sized /\ S(2).w \in 1 .. 3 /\ S(2).w # 0
    BY FieldKinds
  <2>3. N(2) \in Field /\ ~ N(2).sized /\ N(2).w # 0
    BY FieldKinds
  <2> QED
    BY <1>5, <1>8, <2>1, <2>2, <2>3, Zenon DEF Valued
<1>11. F.item # <<>> /\ Len(F.item) = 2 /\ F.count \in 1 .. 4
  BY <1>3
<1>12. 2 < Ten(F.count)
  BY <1>3, TenIs
<1>13. Len(v) = 2 * Len(F.item) /\ Len(v) \div Len(F.item) = 2 /\ 2 \in Nat
  <2>1. 2 * 2 = 4 /\ 4 \div 2 = 2
    OBVIOUS
  <2> QED
    BY <1>8, <1>11, <2>1
<1>14. ReadAsBuilt(Message(EndGame, v))
  BY <1>1, <1>2, <1>10, <1>11, <1>12, <1>13, KeptItems
<1> QED
  BY <1>14 DEF v

\* and the best scores, at most three that nobody counts.
LEMMA KeptScores ==
  ASSUME NEW k \in 0 .. 3, NEW u \in Known, NEW n \in Numbers
  PROVE  ReadAsBuilt(Message(Scores, [i \in 1 .. 2 * k |-> IF i % 2 = 1 THEN u ELSE Digits(n)]))
<1> DEFINE F == Items(0, <<S(2), N(6)>>)
           v == [i \in 1 .. 2 * k |-> IF i % 2 = 1 THEN u ELSE Digits(n)]
<1>1. Built(Scores) = F /\ \A x : Parametered(Scores, x) = F
  BY ReplyFormats
<1>2. Scores \in Nat
  BY ReplyCodes
<1>3. F.item = <<S(2), N(6)>> /\ F.count = 0
  BY DEF Items
<1>4. \A i \in Nat \ {0} : FieldAt(F, i) = IF i % 2 = 1 THEN S(2) ELSE N(6)
  BY FieldOfItem
<1>5. u \in Seq(Nat) /\ Len(u) \in Small
  BY KnownText
<1>6. n \in Small
  BY NumberSmall
<1>7. Digits(n) \in Seq(Nat)
  BY <1>6, DigitsText
<1>8. v \in Seq(Seq(Nat)) /\ Len(v) = 2 * k
  <2>1. 2 * k \in Nat
    OBVIOUS
  <2> QED
    BY <1>5, <1>7, <2>1
<1>9. \A i \in 1 .. 2 * k : v[i] = IF i % 2 = 1 THEN u ELSE Digits(n)
  OBVIOUS
<1> HIDE DEF F, v
<1>10. Valued(F, v)
  <2>1. ASSUME NEW i \in 1 .. Len(v)
        PROVE  \/ FieldAt(F, i) = S(2) /\ v[i] = u
               \/ FieldAt(F, i) = N(6) /\ v[i] = Digits(n)
    <3>1. i \in Nat \ {0} /\ i \in 1 .. 2 * k
      BY <1>8
    <3> QED
      BY <1>4, <1>9, <3>1
  <2>2. S(2) \in Field /\ S(2).sized /\ S(2).w \in 1 .. 3 /\ S(2).w # 0
    BY FieldKinds
  <2>3. N(6) \in Field /\ ~ N(6).sized /\ N(6).w # 0
    BY FieldKinds
  <2> QED
    BY <1>5, <1>6, <1>8, <2>1, <2>2, <2>3, Zenon DEF Valued
<1>11. F.item # <<>> /\ Len(F.item) = 2 /\ F.count = 0 /\ 3 * Len(F.item) \in Nat
  BY <1>3
<1>13. Len(v) <= 3 * Len(F.item) /\ Len(v) % Len(F.item) = 0
  <2>1. 2 * k <= 3 * 2 /\ (2 * k) % 2 = 0
    OBVIOUS
  <2> QED
    BY <1>8, <1>11, <2>1
<1>14. ReadAsBuilt(Message(Scores, v))
  BY <1>1, <1>2, <1>10, <1>11, <1>13, KeptOpen
<1> QED
  BY <1>14 DEF v

\* The place of every answer is some place.
LEMMA PermIs ==
  ASSUME NEW d, Perm(d)
  PROVE  /\ d \in [1 .. 4 -> 0 .. 3]
         /\ \A p \in 0 .. 3 : \E j \in 1 .. 4 : d[j] = p
         /\ \A i, j \in 1 .. 4 : d[i] = d[j] => i = j
<1>1. d \in [1 .. 4 -> 0 .. 3] /\ DOMAIN d = 1 .. 4
  BY ElementOfSeq, LenProperties DEF Perm
<1>2. \A i, j \in 1 .. 4 : d[i] = d[j] => i = j
  BY <1>1 DEF Perm, IsInjective
<1>3. ASSUME NEW p \in 0 .. 3 PROVE \E j \in 1 .. 4 : d[j] = p
  <2>1. d[1] \in 0 .. 3 /\ d[2] \in 0 .. 3 /\ d[3] \in 0 .. 3 /\ d[4] \in 0 .. 3
    BY <1>1
  <2>2. d[1] # d[2] /\ d[1] # d[3] /\ d[1] # d[4] /\ d[2] # d[3] /\ d[2] # d[4] /\ d[3] # d[4]
    BY <1>2
  <2>3. d[1] = p \/ d[2] = p \/ d[3] = p \/ d[4] = p
    BY <2>1, <2>2
  <2> QED
    BY <2>3
<1> QED
  BY <1>1, <1>2, <1>3

\* Where the answers are
LEMMA TextsAre ==
  ASSUME NEW d, Perm(d)
  PROVE  /\ Texts(d) \in Seq(Seq(Nat)) /\ Len(Texts(d)) = 5
         /\ Texts(d)[1] = QuestionText
         /\ \A p \in 1 .. 4 : \E j \in 1 .. 4 : d[j] = p - 1 /\ Texts(d)[p + 1] = AnswerText(j)
<1> DEFINE at(p) == CHOOSE j \in 1 .. 4 : d[j] = p - 1
           q == [p \in 1 .. 4 |-> AnswerText(at(p))]
<1>1. ASSUME NEW p \in 1 .. 4 PROVE at(p) \in 1 .. 4 /\ d[at(p)] = p - 1
  <2>1. p - 1 \in 0 .. 3
    OBVIOUS
  <2>2. \E j \in 1 .. 4 : d[j] = p - 1
    BY <2>1, PermIs
  <2> QED
    BY <2>2
<1>2. Texts(d) = <<QuestionText>> \o q
  BY DEF Texts
<1> HIDE DEF at
<1>3. ASSUME NEW p \in 1 .. 4 PROVE AnswerText(at(p)) \in Seq(Nat)
  <2>1. PICK j \in 1 .. 4 : j = at(p)
    BY <1>1
  <2>2. Letters(j) \in Seq(Nat)
    BY LettersAre
  <2> QED
    BY <2>1, <2>2 DEF AnswerText
<1>4. q \in Seq(Seq(Nat)) /\ Len(q) = 4 /\ \A p \in 1 .. 4 : q[p] = AnswerText(at(p))
  BY <1>3
<1>5. QuestionText \in Seq(Nat)
  BY LettersAre DEF QuestionText
<1>6. <<QuestionText>> \in Seq(Seq(Nat)) /\ Len(<<QuestionText>>) = 1 /\ <<QuestionText>>[1] = QuestionText
  BY <1>5
<1> HIDE DEF q
<1>7. /\ <<QuestionText>> \o q \in Seq(Seq(Nat)) /\ Len(<<QuestionText>> \o q) = 1 + 4
      /\ \A i \in 1 .. 1 + 4 :
           (<<QuestionText>> \o q)[i] = IF i <= 1 THEN <<QuestionText>>[i] ELSE q[i - 1]
  <2> DEFINE a == <<QuestionText>>
  <2>1. a \in Seq(Seq(Nat)) /\ Len(a) = 1
    BY <1>6
  <2> HIDE DEF a
  <2>2. /\ a \o q \in Seq(Seq(Nat)) /\ Len(a \o q) = Len(a) + Len(q)
        /\ \A i \in 1 .. Len(a) + Len(q) : (a \o q)[i] = IF i <= Len(a) THEN a[i] ELSE q[i - Len(a)]
    BY <1>4, <2>1, ConcatProperties
  <2>3. /\ a \o q \in Seq(Seq(Nat)) /\ Len(a \o q) = 1 + 4
        /\ \A i \in 1 .. 1 + 4 : (a \o q)[i] = IF i <= 1 THEN a[i] ELSE q[i - 1]
    BY <1>4, <2>1, <2>2
  <2> QED
    BY <2>3 DEF a
<1>8. ASSUME NEW p \in 1 .. 4 PROVE Texts(d)[p + 1] = AnswerText(at(p))
  <2>1. p + 1 \in 1 .. 1 + 4 /\ ~ (p + 1 <= 1) /\ p + 1 - 1 = p
    OBVIOUS
  <2>2. Texts(d)[p + 1] = q[p]
    BY <1>2, <1>7, <2>1
  <2> QED
    BY <1>4, <2>2
<1>9. Texts(d)[1] = QuestionText
  BY <1>2, <1>6, <1>7
<1> QED
  BY <1>1, <1>2, <1>7, <1>8, <1>9, SMTT(30)

\* The texts of a question are short.
LEMMA AnswerShort ==
  ASSUME NEW d, Perm(d), NEW i \in 1 .. 5
  PROVE  Texts(d)[i] \in Seq(Nat) /\ Len(Texts(d)[i]) <= 12
<1>1. ASSUME NEW k \in 1 .. 12 PROVE Letters(k) \in Seq(Nat) /\ Len(Letters(k)) <= 12
  BY LettersAre
<1>2. CASE i = 1
  <2>1. Texts(d)[i] = Letters(12)
    BY <1>2, TextsAre DEF QuestionText
  <2> QED
    BY <1>1, <2>1
<1>3. CASE i # 1
  <2> DEFINE p == i - 1
  <2>1. p \in 1 .. 4 /\ p + 1 = i
    BY <1>3
  <2> HIDE DEF p
  <2>2. PICK j \in 1 .. 4 : Texts(d)[p + 1] = AnswerText(j)
    BY <2>1, TextsAre
  <2>3. Texts(d)[i] = Letters(j) /\ j \in 1 .. 12
    BY <2>1, <2>2 DEF AnswerText
  <2> QED
    BY <1>1, <2>3
<1> QED
  BY <1>2, <1>3

\* A question is read as it was built, and always fits its fields and the buffer of
\* the client (Game.cpp:190-207, Classes.cs:409-426), wherever its answers were put.
THEOREM KeptQuestion ==
  ASSUME NEW d, Perm(d), NEW m, m = Message(Question, Texts(d)), NEW F, F = Fields(Five(S(3)))
  PROVE  /\ ReadAsBuilt(m) /\ Fits(F, m)
         /\ Len(Write(Built(m.code), m)) <= Buffer
         /\ Padded(F, Texts(d), Len(Texts(d))) = Texts(d)
<1> DEFINE v == Texts(d)
<1>1. Built(Question) = F /\ \A x : Parametered(Question, x) = F
  BY ReplyFormats
<1>2. Question \in Nat
  BY ReplyCodes
<1>3. F.item = <<>> /\ F.count = 0 /\ F.head = Five(S(3)) /\ \A i : FieldAt(F, i) = Five(S(3))[i]
  BY FieldOfHead
<1>4. Len(Five(S(3))) = 5 /\ \A i \in 1 .. 5 : Five(S(3))[i] = S(3)
  BY DEF Five
<1>5. v \in Seq(Seq(Nat)) /\ Len(v) = 5 /\ DOMAIN v = 1 .. 5
  BY TextsAre, LenProperties
<1>6. ASSUME NEW i \in 1 .. 5 PROVE v[i] \in Seq(Nat) /\ Len(v[i]) <= 12 /\ Len(v[i]) \in Nat
  BY AnswerShort, LenProperties
<1> HIDE DEF v
<1>7. ASSUME NEW i \in 1 .. 5 PROVE FieldAt(F, i) = S(3)
  BY <1>3, <1>4
<1>8. S(3) \in Field /\ S(3).sized /\ S(3).w \in 1 .. 3 /\ S(3).w # 0 /\ S(3).w = 3
  BY FieldKinds
<1>9. ASSUME NEW n \in Nat, n <= 12 PROVE n \in Small
  BY <1>9, SmallNat
<1>10. Valued(F, v)
  <2>1. \A i \in 1 .. 5 : Len(v[i]) \in Small
    BY <1>6, <1>9
  <2> QED
    BY <1>5, <1>7, <1>8, <2>1, Zenon DEF Valued
<1>11. ReadAsBuilt(Message(Question, v))
  <2>1. Len(F.head) = Len(v)
    BY <1>3, <1>4, <1>5
  <2> QED
    BY <1>1, <1>2, <1>3, <1>10, <2>1, KeptFields
<1>12. m.code = Question /\ m.values = v
  BY DEF Message, v
<1>13. Fits(F, m)
  <2>1. ASSUME NEW i \in 1 .. 5, NEW f, f = FieldAt(F, i), f.w > 0
        PROVE  Len(v[i]) <= IF f.sized THEN Ten(f.w) - 1 ELSE f.w
    <3>1. f.sized /\ f.w = 3
      BY <1>7, <1>8, <2>1
    <3>2. Ten(f.w) = 1000
      BY <3>1, TenIs
    <3> QED
      BY <1>6, <3>1, <3>2, SMTT(30)
  <2> QED
    BY <1>5, <1>12, <2>1, Zenon DEF Fits
<1>14. ASSUME NEW i \in 1 .. 5 PROVE Put(FieldAt(F, i), v[i]) \in Seq(Nat) /\ Len(Put(FieldAt(F, i), v[i])) <= 15
  <2>1. PICK f : f = FieldAt(F, i)
    OBVIOUS
  <2>2. PICK x : x = v[i]
    OBVIOUS
  <2>3. f \in Field /\ f.sized /\ f.w = 3 /\ x \in Seq(Nat) /\ Len(x) <= 12 /\ Len(x) \in Nat
    BY <1>6, <1>7, <1>8, <2>1, <2>2
  <2>4. FitsField(f, x)
    <3>1. Ten(f.w) - 1 = 999
      BY <2>3, TenIs
    <3>2. Len(x) <= Ten(f.w) - 1 /\ f.w \in 1 .. 3
      BY <2>3, <3>1
    <3> QED
      BY <2>3, <3>2, SizedFits
  <2> DEFINE a == PadLeft(Digits(Len(x)), f.w)
  <2>5. Put(f, x) = a \o x /\ a \in Seq(Nat) /\ Len(a) = f.w
    BY <2>3, <2>4, TextField
  <2> HIDE DEF a
  <2>6. a \o x \in Seq(Nat) /\ Len(a \o x) = Len(a) + Len(x)
    BY <2>3, <2>5, CutText
  <2>7. Put(f, x) \in Seq(Nat) /\ Len(Put(f, x)) = 3 + Len(x)
    BY <2>3, <2>5, <2>6
  <2> QED
    BY <2>1, <2>2, <2>3, <2>7
<1>15. ASSUME NEW k \in 0 .. 5 PROVE PutLast(F, v, k) \in Seq(Nat)
  <2>1. \A i \in 1 .. Len(v) : Put(FieldAt(F, i), v[i]) \in Seq(Nat)
    BY <1>5, <1>14
  <2>2. Len(v) \in Nat /\ k \in 0 .. Len(v)
    BY <1>5
  <2> QED
    BY <2>1, <2>2, PutLastNat
<1>16. ASSUME NEW k \in 0 .. 4, Len(PutLast(F, v, k)) <= 15 * k
       PROVE  Len(PutLast(F, v, k + 1)) <= 15 * (k + 1)
  <2> DEFINE i == 5 - k
             r == PutLast(F, v, k)
  <2>1. i \in 1 .. 5 /\ 5 - i + 1 = k + 1 /\ 5 - i = k
    OBVIOUS
  <2> HIDE DEF i
  <2>2. PutLast(F, v, Len(v) - i + 1) = Put(FieldAt(F, i), v[i]) \o PutLast(F, v, Len(v) - i)
    <3>1. Len(v) \in Nat /\ i \in 1 .. Len(v)
      BY <1>5, <2>1
    <3> QED
      BY <3>1, PutLastStep
  <2>3. PutLast(F, v, k + 1) = Put(FieldAt(F, i), v[i]) \o r
    BY <1>5, <2>1, <2>2
  <2>4. r \in Seq(Nat) /\ Len(r) <= 15 * k
    BY <1>15, <1>16
  <2> HIDE DEF r
  <2>5. PICK a : a = Put(FieldAt(F, i), v[i])
    OBVIOUS
  <2>6. a \in Seq(Nat) /\ Len(a) <= 15
    BY <1>14, <2>1, <2>5
  <2>7. Len(a \o r) = Len(a) + Len(r) /\ Len(a) \in Nat /\ Len(r) \in Nat
    BY <2>4, <2>6, CutText, LenProperties
  <2>8. Len(a) + Len(r) <= 15 * (k + 1)
    BY <2>4, <2>6, <2>7
  <2> QED
    BY <2>3, <2>5, <2>7, <2>8
<1>17. Len(PutLast(F, v, 5)) <= 75
  <2>1. Len(PutLast(F, v, 0)) <= 15 * 0
    <3>1. PutLast(F, v, 0) = <<>>
      <4>1. Len(v) \in Nat
        BY <1>5
      <4> QED
        BY <4>1, PutStep
    <3> QED
      BY <3>1
  <2> DEFINE L(k) == Len(PutLast(F, v, k)) <= 15 * k
  <2>2. L(0) /\ \A k \in 0 .. 4 : L(k) => L(k + 1)
    BY <1>16, <2>1
  <2>3. L(0 + 1)
    BY <2>2
  <2>4. L(1 + 1)
    BY <2>2, <2>3
  <2>5. L(2 + 1)
    BY <2>2, <2>4
  <2>6. L(3 + 1)
    BY <2>2, <2>5
  <2>7. L(4 + 1)
    BY <2>2, <2>6
  <2> QED
    BY <2>7
<1>18. Len(Write(Built(m.code), m)) <= Buffer
  <2> DEFINE t == PutLast(F, v, 5)
  <2>1. PutCount(F, 5) = <<>>
    BY <1>3 DEF PutCount
  <2>2. Write(Built(m.code), m) = <<Question>> \o (<<>> \o t)
    BY <1>1, <1>5, <1>12, <2>1 DEF Write
  <2>3. t \in Seq(Nat) /\ Len(t) <= 75
    BY <1>15, <1>17
  <2> HIDE DEF t
  <2>4. <<>> \o t = t
    BY <2>3, ConcatEmptySeq
  <2>5. <<Question>> \in Seq(Nat) /\ Len(<<Question>>) = 1
    BY <1>2
  <2>6. Len(<<Question>> \o t) = Len(<<Question>>) + Len(t) /\ Len(t) \in Nat
    BY <2>3, <2>5, CutText, LenProperties
  <2>7. Len(<<Question>> \o t) <= 76
    BY <2>3, <2>5, <2>6
  <2>8. Len(<<Question>> \o t) \in Nat
    BY <2>5, <2>6
  <2> QED
    BY <2>2, <2>4, <2>7, <2>8 DEF Buffer
<1>19. Padded(F, v, Len(v)) = v
  <2>1. \A i \in 1 .. 5 : Received(FieldAt(F, i), v[i]) = v[i]
    BY <1>7, <1>8 DEF Received
  <2>2. Padded(F, v, Len(v)) = [i \in 1 .. 5 |-> v[i]]
    BY <1>5, <2>1 DEF Padded
  <2>3. v = [i \in DOMAIN v |-> v[i]]
    BY <1>5
  <2> QED
    BY <1>5, <2>2, <2>3, Zenon
<1> QED
  BY <1>11, <1>13, <1>18, <1>19 DEF v

-----------------------------------------------------------------------------
(* The stream of requests *)

\* A stream cut in two
LEMMA SubSeqCat ==
  ASSUME NEW a \in Seq(Nat), NEW n \in Nat, n <= Len(a)
  PROVE  /\ SubSeq(a, 1, n) \in Seq(Nat) /\ SubSeq(a, n + 1, Len(a)) \in Seq(Nat)
         /\ SubSeq(a, 1, n) \o SubSeq(a, n + 1, Len(a)) = a
<1> DEFINE x == SubSeq(a, 1, n)
           z == SubSeq(a, n + 1, Len(a))
<1>1. Len(a) \in Nat
  BY LenProperties
<1>2. x \in Seq(Nat) /\ Len(x) = n /\ \A i \in 1 .. n : x[i] = a[i]
  <2>1. 1 \in 1 .. Len(a) + 1 /\ n \in 1 - 1 .. Len(a)
    BY <1>1
  <2>2. /\ x \in Seq(Nat)
        /\ Len(x) = IF 1 <= n THEN n - 1 + 1 ELSE 0
        /\ \A i \in 1 .. n - 1 + 1 : x[i] = a[1 + i - 1]
    BY <2>1, SubSeqProperties, SMTT(30)
  <2>3. \A i \in 1 .. n : 1 + i - 1 = i
    OBVIOUS
  <2>4. n - 1 + 1 = n /\ (~ 1 <= n => n = 0)
    OBVIOUS
  <2> HIDE DEF x
  <2> QED
    BY <2>2, <2>3, <2>4
<1>3. z \in Seq(Nat) /\ Len(z) = Len(a) - n /\ \A i \in 1 .. Len(a) - n : z[i] = a[n + i]
  <2>1. n + 1 \in 1 .. Len(a) + 1 /\ Len(a) \in (n + 1) - 1 .. Len(a)
    BY <1>1
  <2>2. /\ z \in Seq(Nat)
        /\ Len(z) = IF n + 1 <= Len(a) THEN Len(a) - (n + 1) + 1 ELSE 0
        /\ \A i \in 1 .. Len(a) - (n + 1) + 1 : z[i] = a[(n + 1) + i - 1]
    BY <2>1, SubSeqProperties
  <2>3. \A i \in 1 .. Len(a) - n : (n + 1) + i - 1 = n + i
    BY <1>1
  <2>4. Len(a) - (n + 1) + 1 = Len(a) - n /\ (~ n + 1 <= Len(a) => Len(a) - n = 0)
    BY <1>1
  <2> HIDE DEF z
  <2> QED
    BY <2>2, <2>3, <2>4, Zenon
<1> HIDE DEF x, z
<1>4. x \o z \in Seq(Nat) /\ Len(x \o z) = n + (Len(a) - n)
  <2>1. x \o z \in Seq(Nat) /\ Len(x \o z) = Len(x) + Len(z)
    BY <1>2, <1>3, CutText
  <2> QED
    BY <1>2, <1>3, <2>1
<1>5. Len(x \o z) = Len(a)
  BY <1>1, <1>4
<1>6. ASSUME NEW i \in 1 .. Len(a) PROVE (x \o z)[i] = a[i]
  <2>1. i \in 1 .. Len(x) + Len(z) /\ i \in Nat
    BY <1>1, <1>2, <1>3
  <2>2. (x \o z)[i] = IF i <= Len(x) THEN x[i] ELSE z[i - Len(x)]
    BY <1>2, <1>3, <2>1, ConcatProperties
  <2>3. CASE i <= n
    <3>1. i \in 1 .. n
      BY <2>3
    <3> QED
      BY <1>2, <2>2, <2>3, <3>1
  <2>4. CASE ~ i <= n
    <3>1. i - n \in 1 .. Len(a) - n /\ n + (i - n) = i
      BY <1>1, <2>4
    <3>2. z[i - n] = a[n + (i - n)]
      BY <1>3, <3>1
    <3> QED
      BY <1>2, <2>2, <2>4, <3>1, <3>2
  <2> QED
    BY <2>3, <2>4
<1>7. x \o z = a
  BY <1>4, <1>5, <1>6, SeqEqual
<1> QED
  BY <1>2, <1>3, <1>7 DEF x, z

\* What arrived of a stream begins as the stream begins.
CutAfter(a, b, x, y) == a \o b = x \o y /\ Len(x) <= Len(a)

\* The beginning is all of that piece which arrived, the rest is where it was.
LEMMA StreamCut ==
  ASSUME NEW a \in Seq(Nat), NEW b \in Seq(Nat), NEW x \in Seq(Nat), NEW y \in Seq(Nat),
         CutAfter(a, b, x, y)
  PROVE  /\ SubSeq(a, 1, Len(x)) = x
         /\ SubSeq(a, Len(x) + 1, Len(a)) \o b = y
         /\ SubSeq(a, Len(x) + 1, Len(a)) \in Seq(Nat)
<1> DEFINE n == Len(x)
           z == SubSeq(a, n + 1, Len(a))
<1>0. a \o b = x \o y /\ Len(x) <= Len(a)
  BY DEF CutAfter
<1>1. n \in Nat /\ Len(a) \in Nat /\ Len(b) \in Nat /\ Len(y) \in Nat
  BY LenProperties
<1>2. Len(a) + Len(b) = n + Len(y)
  <2>1. Len(a \o b) = Len(a) + Len(b)
    BY CutText
  <2>2. Len(x \o y) = Len(x) + Len(y)
    BY CutText
  <2> QED
    BY <1>0, <2>1, <2>2
<1>3. ASSUME NEW i \in 1 .. n PROVE a[i] = x[i]
  <2>1. i \in 1 .. Len(a) + Len(b) /\ i \in 1 .. n + Len(y) /\ i <= Len(a) /\ i <= n
    BY <1>0, <1>1
  <2>2. (a \o b)[i] = a[i]
    BY <2>1, ConcatProperties
  <2>3. (x \o y)[i] = x[i]
    BY <2>1, ConcatProperties
  <2> QED
    BY <1>0, <2>2, <2>3
<1>4. SubSeq(a, 1, n) = x
  <2>1. SubSeq(a, 1, n) \in Seq(Nat) /\ Len(SubSeq(a, 1, n)) = n
        /\ \A i \in 1 .. n : SubSeq(a, 1, n)[i] = a[i]
    <3>1. 1 \in 1 .. Len(a) + 1 /\ n \in 1 - 1 .. Len(a)
      BY <1>0, <1>1
    <3>2. /\ SubSeq(a, 1, n) \in Seq(Nat)
          /\ Len(SubSeq(a, 1, n)) = IF 1 <= n THEN n - 1 + 1 ELSE 0
          /\ \A i \in 1 .. n - 1 + 1 : SubSeq(a, 1, n)[i] = a[1 + i - 1]
      BY <3>1, SubSeqProperties, SMTT(30)
    <3>3. \A i \in 1 .. n : 1 + i - 1 = i
      OBVIOUS
    <3>4. n - 1 + 1 = n /\ (~ 1 <= n => n = 0)
      BY <1>1
    <3> QED
      BY <3>2, <3>3, <3>4
  <2> HIDE DEF n
  <2>2. Len(x) = n
    BY DEF n
  <2> QED
    BY <1>3, <2>1, <2>2, SeqEqual
<1>5. SubSeq(a, 1, n) \o z = a /\ z \in Seq(Nat)
  BY <1>0, <1>1, SubSeqCat
<1> HIDE DEF z, n
<1>6. a \o b = x \o (z \o b)
  <2>1. a = x \o z
    BY <1>4, <1>5
  <2> QED
    BY <1>5, <2>1, CatAgain, ZenonT(30)
<1>7. z \o b \in Seq(Nat)
  BY <1>5, CutText
<1>8. SubSeq(x \o y, Len(x) + 1, Len(x \o y)) = y
  BY CutText
<1>9. SubSeq(x \o (z \o b), Len(x) + 1, Len(x \o (z \o b))) = z \o b
  BY <1>7, CutText
<1>10. z \o b = y
  BY <1>0, <1>6, <1>8, <1>9
<1> QED
  BY <1>4, <1>5, <1>10 DEF z, n

\* What is written of the requests that are due is a text, the first request in front.
LEMMA SentText ==
  ASSUME NEW X, NEW d \in Seq(X), \A i \in 1 .. Len(d) : Asked(d[i]), Len(d) <= 2
  PROVE  /\ Sent(d) \in Seq(Nat)
         /\ d # <<>> => Sent(d) = Written(Head(d)) \o Sent(Tail(d)) /\ Sent(Tail(d)) \in Seq(Nat)
<1>0. Len(d) \in Nat
  BY LenProperties
<1>1. Len(d) = 0 \/ Len(d) = 1 \/ Len(d) = 2
  <2>1. PICK n \in Nat : n = Len(d)
    BY <1>0
  <2>2. n <= 2
    BY <2>1
  <2>3. n = 0 \/ n = 1 \/ n = 2
    BY <2>2
  <2> QED
    BY <2>1, <2>3
<1>2. \A i \in 1 .. Len(d) : Written(d[i]) \in Seq(Nat)
  BY RequestWritten
<1>3. <<>> \in Seq(Nat)
  BY EmptySeq
<1>4. CASE Len(d) = 0
  <2>1. d = <<>>
    BY <1>4, EmptySeq
  <2> QED
    BY <1>3, <1>4, <2>1 DEF Sent
<1>5. CASE Len(d) # 0
  <2>1. d # <<>>
    BY <1>5, EmptySeq
  <2>2. /\ Head(d) = d[1] /\ Len(Tail(d)) = Len(d) - 1
        /\ \A i \in 1 .. Len(d) - 1 : Tail(d)[i] = d[i + 1]
    BY <2>1, HeadTailProperties
  <2>3. 1 \in 1 .. Len(d)
    BY <1>0, <1>5
  <2>4. Written(d[1]) \in Seq(Nat)
    BY <1>2, <2>3
  <2> DEFINE e == Tail(d)
  <2> HIDE DEF e
  <2>5. CASE Len(d) = 1
    <3>1. Len(e) = 0
      BY <2>2, <2>5 DEF e
    <3>2. Sent(d) = Written(d[1]) /\ Sent(e) = <<>>
      BY <2>5, <3>1 DEF Sent
    <3>3. Written(d[1]) \o <<>> = Written(d[1])
      BY <2>4, ConcatEmptySeq
    <3>4. Sent(d) = Written(Head(d)) \o Sent(e)
      BY <2>2, <3>2, <3>3
    <3> QED
      BY <1>3, <2>4, <3>2, <3>4 DEF e
  <2>6. CASE Len(d) = 2
    <3>1. Len(e) = 1 /\ e[1] = d[2] /\ 2 \in 1 .. Len(d)
      <4>1. 1 \in 1 .. Len(d) - 1 /\ Len(d) - 1 = 1 /\ 1 + 1 = 2 /\ 2 \in 1 .. Len(d)
        BY <2>6
      <4>2. Tail(d)[1] = d[1 + 1]
        BY <2>2, <4>1
      <4> QED
        BY <2>2, <4>1, <4>2 DEF e
    <3>2. Sent(d) = Written(d[1]) \o Written(d[2])
      BY <2>6 DEF Sent
    <3>3. Sent(e) = Written(d[2])
      BY <3>1 DEF Sent
    <3>4. Written(d[2]) \in Seq(Nat)
      BY <1>2, <3>1
    <3>5. Written(d[1]) \o Written(d[2]) \in Seq(Nat)
      BY <2>4, <3>4, CutText
    <3>6. Sent(d) = Written(Head(d)) \o Sent(e)
      BY <2>2, <3>2, <3>3
    <3> QED
      BY <3>2, <3>3, <3>4, <3>5, <3>6 DEF e
  <2> QED
    BY <1>1, <1>5, <2>5, <2>6
<1> QED
  BY <1>4, <1>5

\* One more request at the end
LEMMA SentMore ==
  ASSUME NEW d, d = <<>> \/ (\E l : d = <<l>> /\ Written(l) \in Seq(Nat)),
         NEW r, Written(r) \in Seq(Nat)
  PROVE  Sent(Append(d, r)) = Sent(d) \o Written(r)
<1>1. CASE d = <<>>
  <2>1. Append(d, r) = <<r>> /\ Len(<<r>>) = 1 /\ <<r>>[1] = r
    BY <1>1
  <2>2. Sent(d) = <<>>
    BY <1>1 DEF Sent
  <2>3. Sent(Append(d, r)) = Written(r)
    BY <2>1 DEF Sent
  <2>4. <<>> \o Written(r) = Written(r)
    BY ConcatEmptySeq
  <2> QED
    BY <2>2, <2>3, <2>4
<1>2. CASE \E l : d = <<l>> /\ Written(l) \in Seq(Nat)
  <2>1. PICK l : d = <<l>> /\ Written(l) \in Seq(Nat)
    BY <1>2
  <2>3. Len(<<l>>) = 1 /\ <<l>>[1] = l
    OBVIOUS
  <2>2. Len(Append(d, r)) = 2 /\ Append(d, r)[1] = l /\ Append(d, r)[2] = r
    <3>1. d \in Seq({l, r}) /\ r \in {l, r} /\ Len(d) = 1 /\ d[1] = l
      BY <2>1
    <3> DEFINE Y == {l, r}
    <3> HIDE DEF Y
    <3>2. d \in Seq(Y) /\ r \in Y
      BY <3>1 DEF Y
    <3>3. Len(Append(d, r)) = Len(d) + 1
      BY <3>2, AppendProperties
    <3>4. \A i \in 1 .. Len(d) : Append(d, r)[i] = d[i]
      BY <3>2, AppendProperties
    <3>5. Append(d, r)[Len(d) + 1] = r
      BY <3>2, AppendProperties
    <3>6. 1 \in 1 .. Len(d) /\ Len(d) + 1 = 2
      BY <3>1
    <3> QED
      BY <3>1, <3>3, <3>4, <3>5, <3>6
  <2>4. Sent(Append(d, r)) = Written(l) \o Written(r)
    BY <2>2 DEF Sent
  <2>5. Sent(d) = Written(l)
    BY <2>1, <2>3 DEF Sent
  <2> QED
    BY <2>4, <2>5
<1> QED
  BY <1>1, <1>2

\* The next part of a request in the stream
LEMMA NextPart ==
  ASSUME NEW r, Asked(r), Fits(Read(r.code), r), NEW i \in 0 .. Len(r.values) - 1, NEW f, f = Read(r.code).head[i + 1]
  PROVE  /\ f \in Field /\ FieldAt(Read(r.code), i + 1) = f /\ f.w \in 1 .. 6
         /\ FitsField(f, r.values[i + 1])
         /\ PutLast(Read(r.code), r.values, Len(r.values) - i)
              = Put(f, r.values[i + 1]) \o PutLast(Read(r.code), r.values, Len(r.values) - (i + 1))
         /\ PutLast(Read(r.code), r.values, Len(r.values) - (i + 1)) \in Seq(Nat)
<1> DEFINE F == Read(r.code)
           v == r.values
<1>1. r.code \in Requests /\ v \in Seq(Seq(Nat)) /\ Len(v) \in Nat
  BY LenProperties DEF Asked
<1>2. FitsAll(F, v)
  BY RequestFits
<1>3. FieldAt(F, i + 1) = f /\ F.head \in Seq({S(2), N(1), N(2), N(4)}) /\ Len(F.head) = Len(v)
  BY <1>1, ReadFields DEF Asked
<1> HIDE DEF F, v
<1>4. i + 1 \in 1 .. Len(v) /\ Len(v) - (i + 1) + 1 = Len(v) - i /\ Len(v) - (i + 1) \in 0 .. Len(v)
  BY <1>1 DEF v
<1>5. FitsField(f, v[i + 1])
  BY <1>2, <1>3, <1>4, FitsAt
<1>6. f \in {S(2), N(1), N(2), N(4)}
  <2>1. f = F.head[i + 1] /\ i + 1 \in 1 .. Len(F.head)
    BY <1>3, <1>4 DEF F
  <2> QED
    BY <1>3, <2>1, ElementOfSeq
<1>7. f \in Field /\ f.w \in 1 .. 6
  BY <1>6, FieldKinds
<1>8. PutLast(F, v, Len(v) - (i + 1) + 1) = Put(FieldAt(F, i + 1), v[i + 1]) \o PutLast(F, v, Len(v) - (i + 1))
  BY <1>1, <1>4, PutLastStep
<1>9. PutLast(F, v, Len(v) - (i + 1)) \in Seq(Nat)
  BY <1>2, <1>4, PutLastText
<1>10. PutLast(F, v, Len(v) - i) = Put(f, v[i + 1]) \o PutLast(F, v, Len(v) - (i + 1))
  BY <1>3, <1>4, <1>8
<1> QED
  BY <1>3, <1>5, <1>7, <1>9, <1>10 DEF F, v

-----------------------------------------------------------------------------
(* What a handler sends *)

RepliesAre(c, s) ==
  /\ s \in Seq(Msg) /\ Len(s) \in 0 .. 2
  /\ \A i \in 1 .. Len(s) :
       /\ ReadAsBuilt(s[i])
       /\ s[i].code = Question => c = StartGame /\ s[i] = QuestionMessage
       /\ s[i].code = EndGame => c = Answer /\ i = 2
       /\ s[i].code = TrueFalse => c = Answer /\ s[i] \in Verdicts
       /\ s[i].code = Created => c = CreateRoom
       /\ s[i].code = Joined => c = JoinRoom /\ Len(s[i].values) # 0
  /\ c = LeaveGame => Len(s) = 0
  /\ c = Answer => Len(s) = 2 /\ s[1].code = TrueFalse /\ s[2].code = EndGame
  /\ c = JoinRoom => \/ Len(s) = 1 /\ s[1].code = Joined /\ s[1].values[1] \in {Digits(1), Digits(2)}
                     \/ /\ Len(s) = 2 /\ s[1].code = Joined /\ s[1].values[1] = Digits(0)
                        /\ s[2].code = RoomUsers
  /\ c \notin {LeaveGame, Answer, JoinRoom} => Len(s) = 1

\* The codes of the replies differ where the page does something of its own.
LEMMA CodesDiffer ==
  /\ \A c \in {SignInReply, ForgotReply, SignUpReply, Rooms, RoomUsers, Scores, Status} :
       c \notin {Question, EndGame, TrueFalse, Created, Joined}
  /\ \A c \in {Question, EndGame, TrueFalse, Created, Joined} :
       \A d \in {Question, EndGame, TrueFalse, Created, Joined} \ {c} : c # d
  /\ Question # EndGame /\ Question # TrueFalse /\ Question # Created /\ Question # Joined
  /\ EndGame # TrueFalse /\ EndGame # Created /\ EndGame # Joined
  /\ TrueFalse # Created /\ TrueFalse # Joined /\ Created # Joined
BY DEF SignInReply, ForgotReply, SignUpReply, Rooms, RoomUsers, Joined, Created, Question, TrueFalse,
       EndGame, Scores, Status

\* One reply of a code that means nothing to the game
LEMMA OnePlain ==
  ASSUME NEW c, c \notin {LeaveGame, Answer, JoinRoom}, NEW x, ReadAsBuilt(x),
         x.code \in {SignInReply, ForgotReply, SignUpReply, Rooms, RoomUsers, Scores, Status}
  PROVE  RepliesAre(c, <<x>>)
<1>1. x \in Msg
  BY DEF ReadAsBuilt
<1>2. <<x>> \in Seq(Msg) /\ Len(<<x>>) = 1 /\ <<x>>[1] = x
  BY <1>1
<1>3. x.code \notin {Question, EndGame, TrueFalse, Created, Joined}
  BY CodesDiffer
<1>4. ASSUME NEW i \in 1 .. Len(<<x>>) PROVE <<x>>[i] = x
  BY <1>2
<1> QED
  BY <1>2, <1>3, <1>4 DEF RepliesAre

\* What each handler sends, by the code of its request
LEMMA RepliesOf ==
  ASSUME NEW m
  PROVE  /\ m.code = SignIn => Replies(m) = {<<Message(SignInReply, <<Digits(d)>>)>> : d \in 0 .. 2}
         /\ m.code = SignUp => Replies(m) = {<<Message(SignUpReply, <<Digits(d)>>)>> : d \in 0 .. 4}
         /\ m.code = ForgotPassword => Replies(m) = {<<Message(ForgotReply, <<Digits(d)>>)>> : d \in 0 .. 1}
         /\ m.code = CreateRoom => Replies(m) = {<<Message(Created, <<Digits(0), Digits(n)>>)>> : n \in Numbers}
         /\ m.code = StartGame => Replies(m) = {<<QuestionMessage>>}
         /\ m.code = LeaveGame => Replies(m) = {<<>>}
<1> USE DEF SignIn, ForgotPassword, SignUp, AllRoomsList, AllRoomUsers, JoinRoom, CreateRoom,
            StartGame, Answer, LeaveGame, BestScores, PersonalState
<1> HIDE DEF Digits, Message, QuestionMessage
<1>1. ASSUME m.code = SignIn PROVE Replies(m) = {<<Message(SignInReply, <<Digits(d)>>)>> : d \in 0 .. 2}
  BY <1>1 DEF Replies
<1>2. ASSUME m.code = SignUp PROVE Replies(m) = {<<Message(SignUpReply, <<Digits(d)>>)>> : d \in 0 .. 4}
  BY <1>2 DEF Replies
<1>3. ASSUME m.code = ForgotPassword PROVE Replies(m) = {<<Message(ForgotReply, <<Digits(d)>>)>> : d \in 0 .. 1}
  BY <1>3 DEF Replies
<1>4. ASSUME m.code = CreateRoom PROVE Replies(m) = {<<Message(Created, <<Digits(0), Digits(n)>>)>> : n \in Numbers}
  BY <1>4 DEF Replies
<1>5. ASSUME m.code = StartGame PROVE Replies(m) = {<<QuestionMessage>>}
  BY <1>5 DEF Replies
<1>6. ASSUME m.code = LeaveGame PROVE Replies(m) = {<<>>}
  BY <1>6 DEF Replies
<1> QED
  BY <1>1, <1>2, <1>3, <1>4, <1>5, <1>6

RoomList(n, u) == [i \in 1 .. 2 * n |-> IF i % 2 = 1 THEN Digits((i + 1) \div 2) ELSE u]

\* The handlers whose replies are lists, and those that send two
LEMMA RoomsReplies ==
  ASSUME NEW m, m.code = AllRoomsList
  PROVE  Replies(m) = {<<Message(Rooms, RoomList(n, u))>> : n \in Counts, u \in Known}
<1> USE DEF SignIn, ForgotPassword, SignUp, AllRoomsList, AllRoomUsers, JoinRoom, CreateRoom,
            StartGame, Answer, LeaveGame, BestScores, PersonalState
<1> HIDE DEF Digits, Message, QuestionMessage
<1> QED
  BY DEF Replies, RoomList

LEMMA JoinReplies ==
  ASSUME NEW m, m.code = JoinRoom
  PROVE  Replies(m) =
    {<<Message(Joined, <<Digits(d)>>)>> : d \in 1 .. 2}
    \cup {<<Message(Joined, <<Digits(0), Digits(10), Digits(7), Digits(9)>>),
            Message(RoomUsers, [i \in 1 .. k |-> u])>> : k \in {2, 9}, u \in Known}
<1> USE DEF SignIn, ForgotPassword, SignUp, AllRoomsList, AllRoomUsers, JoinRoom, CreateRoom,
            StartGame, Answer, LeaveGame, BestScores, PersonalState
<1> HIDE DEF Digits, Message, QuestionMessage
<1> QED
  BY DEF Replies

LEMMA AnswerReplies ==
  ASSUME NEW m, m.code = Answer
  PROVE  Replies(m) =
    {<<Message(TrueFalse, <<IF Judge(Atoi(m.values[1])) THEN <<1>> ELSE <<0>> >>),
       Message(EndGame, <<u, Digits(n), u, Digits(0)>>)>> : u \in Known, n \in Numbers}
<1> USE DEF SignIn, ForgotPassword, SignUp, AllRoomsList, AllRoomUsers, JoinRoom, CreateRoom,
            StartGame, Answer, LeaveGame, BestScores, PersonalState
<1> HIDE DEF Digits, Message, QuestionMessage
<1> QED
  BY DEF Replies

LEMMA ScoresReplies ==
  ASSUME NEW m, m.code = BestScores
  PROVE  Replies(m) =
    {<<Message(Scores, [i \in 1 .. 2 * k |-> IF i % 2 = 1 THEN u ELSE Digits(n)])>> :
       k \in 0 .. 3, u \in Known, n \in Numbers}
<1> USE DEF SignIn, ForgotPassword, SignUp, AllRoomsList, AllRoomUsers, JoinRoom, CreateRoom,
            StartGame, Answer, LeaveGame, BestScores, PersonalState
<1> HIDE DEF Digits, Message, QuestionMessage
<1> QED
  BY DEF Replies

LEMMA StatusReplies ==
  ASSUME NEW m, m.code = PersonalState
  PROVE  Replies(m) =
    {<<Message(Status, <<Digits(n), Digits(7), Digits(n), Digits(3)>>)>> : n \in Numbers}
<1> USE DEF SignIn, ForgotPassword, SignUp, AllRoomsList, AllRoomUsers, JoinRoom, CreateRoom,
            StartGame, Answer, LeaveGame, BestScores, PersonalState
<1> HIDE DEF Digits, Message, QuestionMessage
<1> QED
  BY DEF Replies

\* Every reply of a handler is read as it was built and leads where it should: those
\* to the menu,
LEMMA RepliesFitMenu ==
  ASSUME NEW m, NEW s \in Replies(m),
         m.code \in {SignIn, SignUp, ForgotPassword, AllRoomsList, CreateRoom, BestScores, PersonalState}
  PROVE  RepliesAre(m.code, s)
<1>0. m.code \notin {LeaveGame, Answer, JoinRoom}
  BY RequestCodes DEF JoinRoom, SignIn, ForgotPassword, SignUp, AllRoomsList, CreateRoom, BestScores, PersonalState
<1>1. CASE m.code = SignIn
  <2>1. PICK d \in 0 .. 2 : s = <<Message(SignInReply, <<Digits(d)>>)>>
    BY <1>1, RepliesOf, SMT
  <2>2. d \in 0 .. 9
    OBVIOUS
  <2>3. ReadAsBuilt(Message(SignInReply, <<Digits(d)>>)) /\ Message(SignInReply, <<Digits(d)>>).code = SignInReply
    BY <2>2, KeptDigit DEF Message
  <2> QED
    BY <1>0, <2>1, <2>3, OnePlain
<1>2. CASE m.code = SignUp
  <2>1. PICK d \in 0 .. 4 : s = <<Message(SignUpReply, <<Digits(d)>>)>>
    BY <1>2, RepliesOf, SMT
  <2>2. d \in 0 .. 9
    OBVIOUS
  <2>3. ReadAsBuilt(Message(SignUpReply, <<Digits(d)>>)) /\ Message(SignUpReply, <<Digits(d)>>).code = SignUpReply
    BY <2>2, KeptDigit DEF Message
  <2> QED
    BY <1>0, <2>1, <2>3, OnePlain
<1>3. CASE m.code = ForgotPassword
  <2>1. PICK d \in 0 .. 1 : s = <<Message(ForgotReply, <<Digits(d)>>)>>
    BY <1>3, RepliesOf, SMT
  <2>2. d \in 0 .. 9
    OBVIOUS
  <2>3. ReadAsBuilt(Message(ForgotReply, <<Digits(d)>>)) /\ Message(ForgotReply, <<Digits(d)>>).code = ForgotReply
    BY <2>2, KeptDigit DEF Message
  <2> QED
    BY <1>0, <2>1, <2>3, OnePlain
<1>4. CASE m.code = AllRoomsList
  <2>1. Replies(m) = {<<Message(Rooms, RoomList(n, u))>> : n \in Counts, u \in Known}
    BY <1>4, RoomsReplies
  <2>2. ASSUME NEW n \in Counts, NEW u \in Known
        PROVE  ReadAsBuilt(Message(Rooms, RoomList(n, u)))
    BY KeptRooms DEF RoomList
  <2>3. PICK n \in Counts, u \in Known : s = <<Message(Rooms, RoomList(n, u))>>
    BY <2>1, SMT
  <2>4. ReadAsBuilt(Message(Rooms, RoomList(n, u))) /\ Message(Rooms, RoomList(n, u)).code = Rooms
    BY <2>2 DEF Message
  <2> QED
    BY <1>0, <2>3, <2>4, OnePlain
<1>5. CASE m.code = CreateRoom
  <2>1. PICK n \in Numbers : s = <<Message(Created, <<Digits(0), Digits(n)>>)>>
    BY <1>5, RepliesOf, SMT
  <2> DEFINE x == Message(Created, <<Digits(0), Digits(n)>>)
  <2>2. ReadAsBuilt(x) /\ x.code = Created
    BY KeptCreated DEF Message
  <2> HIDE DEF x
  <2>3. x \in Msg
    BY <2>2 DEF ReadAsBuilt
  <2>4. s = <<x>>
    BY <2>1 DEF x
  <2>5. s \in Seq(Msg) /\ Len(s) = 1 /\ s[1] = x /\ \A i \in 1 .. Len(s) : s[i] = x
    BY <2>3, <2>4
  <2>6. x.code \notin {Question, EndGame, TrueFalse, Joined}
    BY <2>2, CodesDiffer
  <2> QED
    BY <1>0, <1>5, <2>2, <2>5, <2>6 DEF RepliesAre
<1>6. CASE m.code = BestScores
  <2> DEFINE v(k, u, n) == [i \in 1 .. 2 * k |-> IF i % 2 = 1 THEN u ELSE Digits(n)]
  <2>1. Replies(m) = {<<Message(Scores, v(k, u, n))>> : k \in 0 .. 3, u \in Known, n \in Numbers}
    BY <1>6, ScoresReplies, SMTT(30)
  <2>2. ASSUME NEW k \in 0 .. 3, NEW u \in Known, NEW n \in Numbers
        PROVE  ReadAsBuilt(Message(Scores, v(k, u, n)))
    BY KeptScores
  <2> HIDE DEF v
  <2>3. PICK k \in 0 .. 3, u \in Known, n \in Numbers : s = <<Message(Scores, v(k, u, n))>>
    BY <2>1, SMT
  <2>4. ReadAsBuilt(Message(Scores, v(k, u, n))) /\ Message(Scores, v(k, u, n)).code = Scores
    BY <2>2 DEF Message
  <2> QED
    BY <1>0, <2>3, <2>4, OnePlain
<1>7. CASE m.code = PersonalState
  <2> DEFINE x(n) == Message(Status, <<Digits(n), Digits(7), Digits(n), Digits(3)>>)
  <2>1. Replies(m) = {<<x(n)>> : n \in Numbers}
    BY <1>7, StatusReplies
  <2>2. ASSUME NEW n \in Numbers PROVE ReadAsBuilt(x(n)) /\ x(n).code = Status
    BY KeptStatus DEF Message
  <2> HIDE DEF x
  <2>3. PICK n \in Numbers : s = <<x(n)>>
    BY <2>1, SMT
  <2>4. ReadAsBuilt(x(n)) /\ x(n).code = Status
    BY <2>2
  <2> QED
    BY <1>0, <2>3, <2>4, OnePlain
<1> QED
  BY <1>1, <1>2, <1>3, <1>4, <1>5, <1>6, <1>7

\* and those of a room and a game, whose questions are drawn.
LEMMA RepliesFitGame ==
  ASSUME NEW m, NEW s \in Replies(m), m.code \in {JoinRoom, StartGame, Answer, LeaveGame},
         m.code = StartGame => Perm(drawn)
  PROVE  /\ RepliesAre(m.code, s)
         /\ m.code = Answer => (s[1].values[1] = Digits(1) <=> Judge(Atoi(m.values[1])))
<1> USE RequestCodes
<1>0. JoinRoom \notin {StartGame, Answer, LeaveGame}
  OBVIOUS
<1>1. CASE m.code = LeaveGame
  <2>0. s = <<>>
    BY <1>1, RepliesOf
  <2>1. s = <<>> /\ s \in Seq(Msg) /\ Len(s) = 0
    BY <2>0, EmptySeq
  <2> QED
    BY <1>0, <1>1, <2>1 DEF RepliesAre
<1>2. CASE m.code = StartGame
  <2> DEFINE x == QuestionMessage
  <2>1. s = <<x>>
    BY <1>2, RepliesOf
  <2>2. x = Message(Question, Texts(drawn)) /\ x.code = Question
    BY DEF QuestionMessage, Texts, Message
  <2>3. ReadAsBuilt(x)
    BY <1>2, <2>2, KeptQuestion
  <2>4. x \in Msg
    BY <2>3 DEF ReadAsBuilt
  <2> HIDE DEF x
  <2>5. s \in Seq(Msg) /\ Len(s) = 1 /\ s[1] = x /\ \A i \in 1 .. Len(s) : s[i] = x
    BY <2>1, <2>4
  <2>6. x.code \notin {EndGame, TrueFalse, Joined, Created}
    BY <2>2, CodesDiffer
  <2>7. RepliesAre(m.code, s)
    BY <1>0, <1>2, <2>2, <2>3, <2>5, <2>6 DEF RepliesAre, x
  <2> QED
    BY <1>2, <2>7
<1>3. CASE m.code = JoinRoom
  <2> DEFINE A == {<<Message(Joined, <<Digits(d)>>)>> : d \in 1 .. 2}
             j == Message(Joined, <<Digits(0), Digits(10), Digits(7), Digits(9)>>)
             x(k, u) == Message(RoomUsers, [i \in 1 .. k |-> u])
             B == {<<j, x(k, u)>> : k \in {2, 9}, u \in Known}
  <2>1. Replies(m) = A \cup B
    BY <1>3, JoinReplies
  <2>2. s \in A => \E d \in 1 .. 2 : s = <<Message(Joined, <<Digits(d)>>)>>
    BY SMT
  <2>3. \A k \in {2, 9}, u \in Known : ReadAsBuilt(x(k, u)) /\ x(k, u).code = RoomUsers
    BY KeptUsers DEF Message
  <2>4. ReadAsBuilt(j) /\ j.code = Joined /\ j.values[1] = Digits(0) /\ Len(j.values) # 0
    BY KeptJoined DEF Message
  <2> HIDE DEF j, x
  <2>5. s \in B => \E k \in {2, 9}, u \in Known : s = <<j, x(k, u)>>
    BY SMT
  <2> HIDE DEF A, B
  <2>6. CASE s \in A
    <3>1. PICK d \in 1 .. 2 : s = <<Message(Joined, <<Digits(d)>>)>>
      BY <2>2, <2>6
    <3> DEFINE y == Message(Joined, <<Digits(d)>>)
    <3>2. ReadAsBuilt(y) /\ y.code = Joined /\ y.values[1] = Digits(d) /\ Len(y.values) # 0
      BY KeptRefused DEF Message
    <3>3. y.values[1] \in {Digits(1), Digits(2)}
      BY <3>2
    <3>4. y \in Msg
      BY <3>2 DEF ReadAsBuilt
    <3> HIDE DEF y
    <3>5. s = <<y>>
      BY <3>1 DEF y
    <3>6. s \in Seq(Msg) /\ Len(s) = 1 /\ s[1] = y /\ \A i \in 1 .. Len(s) : s[i] = y
      BY <3>4, <3>5
    <3>7. y.code \notin {EndGame, TrueFalse, Question, Created}
      BY <3>2, CodesDiffer
    <3>8. RepliesAre(m.code, s)
      BY <1>0, <1>3, <3>2, <3>3, <3>6, <3>7 DEF RepliesAre
    <3> QED
      BY <1>0, <1>3, <3>8
  <2>7. CASE s \in B
    <3>1. PICK k \in {2, 9}, u \in Known : s = <<j, x(k, u)>>
      BY <2>5, <2>7
    <3>2. PICK z : z = x(k, u)
      OBVIOUS
    <3>3. ReadAsBuilt(z) /\ z.code = RoomUsers
      BY <2>3, <3>2
    <3>4. z \in Msg /\ j \in Msg
      BY <2>4, <3>3 DEF ReadAsBuilt
    <3>5. s \in Seq(Msg) /\ Len(s) = 2 /\ s[1] = j /\ s[2] = z /\ \A i \in 1 .. Len(s) : s[i] = j \/ s[i] = z
      BY <3>1, <3>2, <3>4
    <3>6. j.code \notin {EndGame, TrueFalse, Question, Created} /\ z.code \notin {EndGame, TrueFalse, Question, Created, Joined}
      BY <2>4, <3>3, CodesDiffer
    <3>7. RepliesAre(m.code, s)
      BY <1>0, <1>3, <2>4, <3>3, <3>5, <3>6 DEF RepliesAre
    <3> QED
      BY <1>0, <1>3, <3>7
  <2> QED
    BY <2>1, <2>6, <2>7
<1>4. CASE m.code = Answer
  <2>0. Message(TrueFalse, <<Digits(0)>>) \in Verdicts /\ Message(TrueFalse, <<Digits(1)>>) \in Verdicts
    BY DEF Verdicts
  <2> DEFINE g == Judge(Atoi(m.values[1]))
             j == Message(TrueFalse, <<IF g THEN <<1>> ELSE <<0>> >>)
             x(u, n) == Message(EndGame, <<u, Digits(n), u, Digits(0)>>)
  <2>1. Replies(m) = {<<j, x(u, n)>> : u \in Known, n \in Numbers}
    BY <1>4, AnswerReplies
  <2>2. \A u \in Known, n \in Numbers : ReadAsBuilt(x(u, n)) /\ x(u, n).code = EndGame
    BY KeptEnd DEF Message
  <2>3. Digits(1) = <<1>> /\ Digits(0) = <<0>>
    <3>1. Digits(1) = <<1>>
      BY DigitIs
    <3>2. Digits(0) = <<0>>
      BY DigitIs
    <3> QED
      BY <3>1, <3>2
  <2> HIDE DEF g
  <2>4. ReadAsBuilt(j) /\ j \in Verdicts /\ j.code = TrueFalse /\ (j.values[1] = Digits(1) <=> g)
    <3>1. CASE g
      <4>1. j = Message(TrueFalse, <<Digits(1)>>)
        BY <2>3, <3>1
      <4>2. ReadAsBuilt(Message(TrueFalse, <<Digits(1)>>))
        BY KeptDigit
      <4>3. j.code = TrueFalse /\ j.values[1] = Digits(1)
        BY <4>1 DEF Message
      <4> QED
        BY <2>0, <3>1, <4>1, <4>2, <4>3
    <3>2. CASE ~ g
      <4>1. j = Message(TrueFalse, <<Digits(0)>>)
        BY <2>3, <3>2
      <4>2. ReadAsBuilt(Message(TrueFalse, <<Digits(0)>>))
        BY KeptDigit
      <4>3. j.code = TrueFalse /\ j.values[1] = Digits(0)
        BY <4>1 DEF Message
      <4>4. <<0>>[1] # <<1>>[1]
        OBVIOUS
      <4>5. Digits(0) # Digits(1)
        BY <2>3, <4>4
      <4> QED
        BY <2>0, <3>2, <4>1, <4>2, <4>3, <4>5
    <3> QED
      BY <3>1, <3>2
  <2> HIDE DEF j, x
  <2>5. PICK u \in Known, n \in Numbers : s = <<j, x(u, n)>>
    BY <2>1, SMT
  <2>6. PICK z : z = x(u, n)
    OBVIOUS
  <2>7. ReadAsBuilt(z) /\ z.code = EndGame
    BY <2>2, <2>6
  <2>8. z \in Msg /\ j \in Msg
    BY <2>4, <2>7 DEF ReadAsBuilt
  <2>9. /\ s \in Seq(Msg) /\ Len(s) = 2 /\ s[1] = j /\ s[2] = z
        /\ \A i \in 1 .. Len(s) : (i = 1 /\ s[i] = j) \/ (i = 2 /\ s[i] = z)
    BY <2>5, <2>6, <2>8
  <2>10. j.code \notin {EndGame, Joined, Question, Created} /\ z.code \notin {TrueFalse, Question, Created, Joined}
    BY <2>4, <2>7, CodesDiffer
  <2>11. RepliesAre(m.code, s)
    BY <1>0, <1>4, <2>4, <2>7, <2>9, <2>10 DEF RepliesAre
  <2>12. s[1].values[1] = Digits(1) <=> g
    BY <2>4, <2>9
  <2> QED
    BY <2>11, <2>12 DEF g
<1> QED
  BY <1>1, <1>2, <1>3, <1>4

-----------------------------------------------------------------------------
(* Steps *)

\* The histories of a step that handles and reads nothing
LEMMA QuietKeeps ==
  ASSUME IInv, Quiet, page' = page, shown' = shown, ~ off' => ~ off
  PROVE  HandledAsSent' /\ ShownAsBuilt' /\ JudgedByText'
<1>1. Nothing.meant = Nothing.got /\ Nothing.meant.code = 0 /\ TrueFalse # 0
  BY DEF Nothing, Message, TrueFalse
<1>2. handled' = Nothing /\ read' = Nothing
  BY DEF Quiet
<1>3. HandledAsSent'
  BY <1>1, <1>2 DEF HandledAsSent
<1>4. ShownAsBuilt'
  BY <1>1, <1>2 DEF ShownAsBuilt, IInv
<1>5. JudgedByText'
  BY <1>1, <1>2 DEF JudgedByText, IInv
<1> QED
  BY <1>3, <1>4, <1>5

\* A step of the thread that neither handles nor replies leaves the phase.
LEMMA PhaseKeeps ==
  ASSUME Phase, UNCHANGED <<page, waiting, shown, clicked, due, drawn, down, owed>>,
         thread' = thread \/ (due # <<>> /\ thread.at # "question" /\ thread'.at # "question")
  PROVE  Phase'
<1>1. CASE Resting
  <2>1. Resting'
    BY <1>1 DEF Resting, Ready
  <2> QED
    BY <2>1 DEF Phase
<1>2. CASE Asking
  <2>1. Requested' = Requested
    BY DEF Requested
  <2>2. Asking'
    BY <1>2, <2>1 DEF Asking, Ready
  <2> QED
    BY <2>2 DEF Phase
<1>3. CASE Drawing
  <2>1. Drawing'
    BY <1>3 DEF Drawing
  <2> QED
    BY <2>1 DEF Phase
<1>4. CASE Answered
  <2>1. Answered'
    BY <1>4 DEF Answered
  <2> QED
    BY <2>1 DEF Phase
<1> QED
  BY <1>1, <1>2, <1>3, <1>4 DEF Phase

\* At most two requests are due, the first of two to leave the game.
LEMMA DueShort ==
  ASSUME Phase
  PROVE  /\ due = <<>> \/ (\E r : due = <<r>>) \/ (\E r, s : due = <<r, s>>)
         /\ Len(due) <= 2
         /\ due = <<>> \/ (owed = <<>> /\ (Resting \/ Asking))
<1>1. CASE Resting
  <2>1. owed = <<>> /\ (due = <<>> \/ due = <<Leave>>)
    BY <1>1 DEF Resting
  <2>2. Len(<<>>) = 0 /\ Len(<<Leave>>) = 1
    OBVIOUS
  <2>3. Len(due) <= 2
    BY <2>1, <2>2
  <2> QED
    BY <1>1, <2>1, <2>3, Zenon
<1>2. CASE Asking
  <2>1. PICK r : due = <<r>> \/ due = <<Leave, r>>
    BY <1>2 DEF Asking
  <2>2. owed = <<>>
    BY <1>2 DEF Asking
  <2>3. Len(<<r>>) = 1 /\ Len(<<Leave, r>>) = 2
    OBVIOUS
  <2>4. Len(due) <= 2
    <3>1. Len(due) = 1 \/ Len(due) = 2
      BY <2>1, <2>3, Zenon
    <3>2. PICK n : n = Len(due)
      OBVIOUS
    <3>3. n = 1 \/ n = 2
      BY <3>1, <3>2, Zenon
    <3>4. n <= 2
      BY <3>3
    <3> QED
      BY <3>2, <3>4, Zenon
  <2> QED
    BY <1>2, <2>1, <2>2, <2>4, Zenon
<1>3. CASE Drawing
  BY <1>3 DEF Drawing
<1>4. CASE Answered
  BY <1>4 DEF Answered
<1> QED
  BY <1>1, <1>2, <1>3, <1>4 DEF Phase

\* The requests that are due, in the stream
LEMMA DueSent ==
  ASSUME TypeInv, Phase
  PROVE  /\ Sent(due) \in Seq(Nat)
         /\ due # <<>> => /\ Sent(due) = Written(Head(due)) \o Sent(Tail(due)) /\ Sent(Tail(due)) \in Seq(Nat)
                          /\ Asked(Head(due)) /\ Head(due) = due[1]
         /\ due = <<>> => Sent(due) = <<>>
<1>1. Len(due) <= 2
  BY DueShort
<1>2. due \in Seq([code : Requests, values : Seq(Seq(Nat))]) /\ \A i \in 1 .. Len(due) : Asked(due[i])
  BY DEF TypeInv
<1>3. Sent(due) \in Seq(Nat)
  BY <1>1, <1>2, SentText
<1>4. due # <<>> => Sent(due) = Written(Head(due)) \o Sent(Tail(due)) /\ Sent(Tail(due)) \in Seq(Nat)
  BY <1>1, <1>2, SentText
<1>5. due # <<>> => Asked(Head(due)) /\ Head(due) = due[1]
  <2>1. SUFFICES ASSUME due # <<>> PROVE Asked(Head(due)) /\ Head(due) = due[1]
    OBVIOUS
  <2>2. Len(due) \in Nat /\ Len(due) # 0
    BY <1>2, <2>1, LenProperties, EmptySeq
  <2>3. 1 \in 1 .. Len(due)
    BY <2>2
  <2>4. Head(due) = due[1]
    OBVIOUS
  <2> QED
    BY <1>2, <2>3, <2>4
<1>6. due = <<>> => Sent(due) = <<>>
  BY DEF Sent
<1> QED
  BY <1>3, <1>4, <1>5, <1>6

\* Whatever arrives of the stream, the stream is the same.
LEMMA ArriveKeeps ==
  ASSUME IInv, Arrive
  PROVE  IInv'
<1>1. /\ UNCHANGED <<page, waiting, shown, clicked, due, thread, drawn, down, owed, off>> /\ Quiet
  BY DEF Arrive, client, server
<1>2. TypeInv /\ travelling \in Seq(Nat) /\ arrived \in Seq(Nat)
  BY DEF IInv, TypeInv
<1>3. PICK k \in {Len(travelling)} \cup
                 {k \in Ahead : k < Len(travelling) /\ Head(travelling) \in Begins} :
        /\ arrived' = arrived \o SubSeq(travelling, 1, k)
        /\ travelling' = SubSeq(travelling, k + 1, Len(travelling))
  BY DEF Arrive
<1>4. k \in Nat /\ k <= Len(travelling)
  <2>1. Len(travelling) \in Nat
    BY <1>2, LenProperties
  <2>2. k = Len(travelling) \/ (k \in Ahead /\ k < Len(travelling))
    BY <1>3
  <2>3. k \in Ahead => k \in Nat
    BY ExchangeAssumption
  <2> QED
    BY <2>1, <2>2, <2>3
<1> DEFINE x == SubSeq(travelling, 1, k)
           y == SubSeq(travelling, k + 1, Len(travelling))
<1>5. x \in Seq(Nat) /\ y \in Seq(Nat) /\ x \o y = travelling
  BY <1>2, <1>4, SubSeqCat
<1> HIDE DEF x, y
<1>6. arrived' = arrived \o x /\ travelling' = y
  BY <1>3 DEF x, y
<1>7. arrived' \in Seq(Nat) /\ travelling' \in Seq(Nat)
  BY <1>2, <1>5, <1>6, CutText
<1>8. Stream' = Stream
  <2>1. (arrived \o x) \o y = arrived \o (x \o y)
    BY <1>2, <1>5, CatAgain
  <2> QED
    BY <1>5, <1>6, <2>1 DEF Stream
<1>9. TypeInv'
  BY <1>1, <1>2, <1>7 DEF TypeInv
<1>10. OwedOK' /\ Told'
  BY <1>1 DEF IInv, OwedOK, Told
<1>11. EndOnce'
  BY <1>1 DEF IInv, EndOnce
<1>12. ASSUME ~ off' PROVE InSync' /\ Phase' /\ (page' = "game" => {shown'[i] : i \in 2 .. 5} = Letters4)
  <2>1. InSync /\ Phase /\ (page = "game" => {shown[i] : i \in 2 .. 5} = Letters4)
    BY <1>1, <1>12 DEF IInv
  <2>2. InParts => InParts'
    BY <1>1, <1>8 DEF InParts
  <2>3. InSync'
    BY <1>1, <1>8, <2>1, <2>2 DEF InSync
  <2>4. Phase'
    BY <1>1, <2>1, PhaseKeeps
  <2> QED
    BY <1>1, <2>1, <2>3, <2>4
<1>13. HandledAsSent' /\ ShownAsBuilt' /\ JudgedByText'
  BY <1>1, QuietKeeps
<1> QED
  BY <1>9, <1>10, <1>11, <1>12, <1>13 DEF IInv

\* A code is read where the request begins.
LEMMA ReadCodeKeeps ==
  ASSUME IInv, ReadCode
  PROVE  IInv'
<1>1. /\ UNCHANGED <<page, waiting, shown, clicked, due, travelling, drawn, down, owed>> /\ Quiet
      /\ thread.at = "code" /\ arrived # <<>>
      /\ arrived' = Tail(arrived)
      /\ thread' = IF Head(arrived) \in Requests THEN Building(Head(arrived)) ELSE [Idle EXCEPT !.at = "gone"]
      /\ off' = (off \/ ~ Fits(Read(Head(due).code), Head(due)))
  BY DEF ReadCode, client
<1>2. TypeInv /\ travelling \in Seq(Nat) /\ arrived \in Seq(Nat) /\ off \in BOOLEAN
  BY DEF IInv, TypeInv
<1>3. Tail(arrived) \in Seq(Nat) /\ arrived = <<Head(arrived)>> \o Tail(arrived)
  BY <1>1, <1>2, HeadTailProperties
<1>4. /\ thread'.at \in {"parts", "gone"}
      /\ thread' \in [at : {"code", "parts", "question", "gone"}, code : Requests \cup {0},
                     values : Seq(Seq(Nat)), size : Nat \cup {NotAsked}]
      /\ thread'.at = "parts" => thread'.code \in Requests
  <2>1. CASE Head(arrived) \in Requests
    BY <1>1, <2>1 DEF Building
  <2>2. CASE Head(arrived) \notin Requests
    <3>1. thread' = [at |-> "gone", code |-> 0, values |-> <<>>, size |-> NotAsked]
      BY <1>1, <2>2 DEF Idle
    <3> QED
      BY <3>1
  <2> QED
    BY <2>1, <2>2
<1>5. TypeInv'
  BY <1>1, <1>2, <1>3, <1>4 DEF TypeInv
<1>6. OwedOK' /\ Told'
  BY <1>1 DEF IInv, OwedOK, Told
<1>7. EndOnce'
  BY <1>1, <1>4 DEF IInv, EndOnce
<1>8. HandledAsSent' /\ ShownAsBuilt' /\ JudgedByText'
  BY <1>1, QuietKeeps
<1>9. ASSUME ~ off' PROVE InSync' /\ Phase' /\ (page' = "game" => {shown'[i] : i \in 2 .. 5} = Letters4)
  <2> DEFINE r == Head(due)
             T == Sent(Tail(due))
             p == PutLast(Read(r.code), r.values, Len(r.values))
  <2>1. ~ off /\ Fits(Read(r.code), r)
    BY <1>1, <1>9
  <2>2. InSync /\ Phase /\ (page = "game" => {shown[i] : i \in 2 .. 5} = Letters4)
    BY <2>1 DEF IInv
  <2>3. Stream = Sent(due)
    BY <1>1, <2>2 DEF InSync
  <2>4. due # <<>>
    <3>1. Stream \in Seq(Nat) /\ Len(Stream) = Len(arrived) + Len(travelling)
      BY <1>2, CutText DEF Stream
    <3>2. Len(arrived) # 0 /\ Len(arrived) \in Nat /\ Len(travelling) \in Nat
      BY <1>1, <1>2, LenProperties, EmptySeq
    <3>3. Len(Stream) # 0
      BY <3>1, <3>2
    <3>4. Stream # <<>>
      BY <3>3
    <3> QED
      BY <1>2, <2>2, <2>3, <3>4, DueSent
  <2>5. Sent(due) = Written(r) \o T /\ T \in Seq(Nat) /\ Asked(r)
    BY <1>2, <2>2, <2>4, DueSent
  <2> HIDE DEF T, r
  <2>6. Written(r) = <<r.code>> \o p /\ p \in Seq(Nat) /\ r.code \in Nat /\ r.code \in Requests
    BY <2>5, RequestWritten DEF Asked
  <2> HIDE DEF p
  <2>7. arrived \o travelling = <<r.code>> \o (p \o T) /\ p \o T \in Seq(Nat) /\ <<r.code>> \in Seq(Nat)
    <3>1. <<r.code>> \in Seq(Nat)
      BY <2>6
    <3>2. (<<r.code>> \o p) \o T = <<r.code>> \o (p \o T)
      BY <2>5, <2>6, <3>1, CatAgain
    <3>3. p \o T \in Seq(Nat)
      BY <2>5, <2>6, CutText
    <3> QED
      BY <2>3, <2>5, <2>6, <3>1, <3>2, <3>3 DEF Stream
  <2>8. SubSeq(arrived, 1, 1) = <<r.code>> /\ SubSeq(arrived, 2, Len(arrived)) \o travelling = p \o T
    <3> DEFINE c == <<r.code>>
               q == p \o T
    <3>1. Len(c) = 1 /\ 1 + 1 = 2
      OBVIOUS
    <3>2. Len(c) <= Len(arrived)
      <4>1. Len(arrived) # 0 /\ Len(arrived) \in Nat
        BY <1>1, <1>2, LenProperties, EmptySeq
      <4> QED
        BY <3>1, <4>1
    <3>5. arrived \o travelling = c \o q /\ q \in Seq(Nat) /\ c \in Seq(Nat)
      BY <2>7
    <3> HIDE DEF c, q
    <3>7. CutAfter(arrived, travelling, c, q)
      BY <3>2, <3>5, Zenon DEF CutAfter
    <3>3. SubSeq(arrived, 1, Len(c)) = c
      BY <1>2, <3>5, <3>7, StreamCut, Zenon
    <3>4. SubSeq(arrived, Len(c) + 1, Len(arrived)) \o travelling = q
      BY <1>2, <3>5, <3>7, StreamCut, Zenon
    <3>6. SubSeq(arrived, 1, 1) = c /\ SubSeq(arrived, 2, Len(arrived)) \o travelling = q
      BY <3>1, <3>3, <3>4
    <3> QED
      BY <3>6 DEF c, q
  <2>9. Head(arrived) = r.code /\ Tail(arrived) = SubSeq(arrived, 2, Len(arrived))
    <3>1. Tail(arrived) = SubSeq(arrived, 2, Len(arrived))
      BY <1>1, <1>2, TailIsSubSeq
    <3>2. 1 \in 1 .. 1 /\ SubSeq(arrived, 1, 1)[1] = arrived[1]
      <4>1. Len(arrived) # 0 /\ Len(arrived) \in Nat
        BY <1>1, <1>2, LenProperties, EmptySeq
      <4>2. \A i \in 1 .. 1 : arrived[i] \in Nat
        BY <1>2, <4>1, ElementOfSeq
      <4>3. \A i \in 1 .. 1 - 1 + 1 : SubSeq(arrived, 1, 1)[i] = arrived[1 + i - 1]
        BY <4>2, SubSeqProperties
      <4> QED
        BY <4>3
    <3>3. <<r.code>>[1] = r.code /\ Head(arrived) = arrived[1]
      BY <1>1
    <3> QED
      BY <2>8, <3>1, <3>2, <3>3
  <2>10. thread' = Building(r.code)
    BY <1>1, <2>6, <2>9
  <2>11. thread'.at = "parts" /\ thread'.code = r.code /\ thread'.values = <<>> /\ thread'.size = NotAsked
    BY <2>10 DEF Building
  <2>12. Stream' = p \o T
    BY <1>1, <2>8, <2>9 DEF Stream
  <2>13. InParts'
    <3>1. r = Head(due) /\ Head(due)' = r /\ T = Sent(Tail(due)')
      BY <1>1 DEF r, T
    <3>2. Len(r.values) \in Nat
      BY <2>5, LenProperties DEF Asked
    <3>3. Padded(Read(r.code), r.values, 0) = <<>>
      BY DEF Padded
    <3>4. Len(thread'.values) = 0 /\ 0 \in 0 .. Len(r.values) /\ Len(r.values) - 0 = Len(r.values)
      BY <2>11, <3>2
    <3>5. Remains(r, 0, NotAsked) = p
      BY <3>4 DEF Remains, p
    <3> QED
      BY <1>1, <2>1, <2>4, <2>11, <2>12, <3>1, <3>3, <3>4, <3>5 DEF InParts
  <2>14. InSync'
    BY <2>11, <2>13 DEF InSync
  <2>15. Phase'
    <3>1. thread.at # "question" /\ thread'.at # "question"
      BY <1>1, <2>11
    <3> QED
      BY <1>1, <2>2, <2>4, <3>1, PhaseKeeps
  <2> QED
    BY <1>1, <2>2, <2>14, <2>15
<1> QED
  BY <1>5, <1>6, <1>7, <1>8, <1>9 DEF IInv

\* atoi of any text is a number.
LEMMA AtoiNat ==
  ASSUME NEW t \in Seq(Nat)
  PROVE  Atoi(t) \in Nat
<1>1. Len(t) \in Nat
  BY LenProperties
<1> DEFINE Good(k) == /\ \A i \in 1 .. k : t[i] \in Digit
                      /\ k = Len(t) \/ t[k + 1] \notin Digit
<1>2. \E k \in 0 .. Len(t) : Good(k)
  <2>1. SUFFICES ASSUME \A k \in 0 .. Len(t) : ~ Good(k) PROVE FALSE
    OBVIOUS
  <2> DEFINE T == {k \in Nat : k <= Len(t) /\ \A i \in 1 .. k : t[i] \in Digit}
  <2>2. T \in SUBSET Nat
    OBVIOUS
  <2>3. 0 \in T
    BY <1>1
  <2>4. ASSUME NEW k \in T PROVE k + 1 \in T
    <3>1. k \in Nat /\ k <= Len(t) /\ \A i \in 1 .. k : t[i] \in Digit
      OBVIOUS
    <3>2. k \in 0 .. Len(t)
      BY <1>1, <3>1
    <3>3. k # Len(t) /\ t[k + 1] \in Digit
      BY <2>1, <3>1, <3>2
    <3>4. k + 1 \in Nat /\ k + 1 <= Len(t)
      BY <1>1, <3>1, <3>3
    <3>5. ASSUME NEW i \in 1 .. k + 1 PROVE t[i] \in Digit
      <4>1. i \in 1 .. k \/ i = k + 1
        BY <3>1
      <4> QED
        BY <3>1, <3>3, <4>1
    <3> QED
      BY <3>4, <3>5
  <2> HIDE DEF T
  <2>5. T = Nat
    BY <2>2, <2>3, <2>4, NatSet
  <2>6. Len(t) + 1 \in T
    BY <1>1, <2>5
  <2>7. Len(t) + 1 <= Len(t)
    BY <2>6 DEF T
  <2> QED
    BY <1>1, <2>7
<1>3. Leading(t) \in 0 .. Len(t)
  <2>1. Leading(t) = CHOOSE k \in 0 .. Len(t) : Good(k)
    BY DEF Leading
  <2> HIDE DEF Good
  <2> QED
    BY <1>2, <2>1
<1> DEFINE U == {k \in Nat : k <= Len(t) => Number(t, k) \in Nat}
<1>4. U = Nat
  <2>1. U \in SUBSET Nat
    OBVIOUS
  <2>2. 0 \in U
    BY <1>1, NumberStep
  <2>3. ASSUME NEW k \in U PROVE k + 1 \in U
    <3>1. k \in Nat /\ (k <= Len(t) => Number(t, k) \in Nat)
      OBVIOUS
    <3>2. CASE k + 1 <= Len(t)
      <4>1. k + 1 \in 1 .. Len(t) /\ k + 1 - 1 = k /\ k <= Len(t)
        BY <1>1, <3>1, <3>2
      <4>2. Number(t, k + 1) = 10 * Number(t, k) + t[k + 1]
        BY <1>1, <4>1, NumberStep
      <4>3. t[k + 1] \in Nat
        BY <4>1, ElementOfSeq
      <4>4. Number(t, k) \in Nat
        BY <3>1, <4>1
      <4>5. \A a, b \in Nat : 10 * a + b \in Nat
        OBVIOUS
      <4>6. Number(t, k + 1) \in Nat
        BY <4>2, <4>3, <4>4, <4>5
      <4> QED
        BY <3>1, <4>6
    <3>3. CASE ~ k + 1 <= Len(t)
      BY <3>1, <3>3
    <3> QED
      BY <3>2, <3>3
  <2> HIDE DEF U
  <2> QED
    BY <2>1, <2>2, <2>3, NatSet
<1>5. Leading(t) \in U /\ Leading(t) <= Len(t)
  BY <1>1, <1>3, <1>4
<1>6. Number(t, Leading(t)) \in Nat
  BY <1>5
<1> QED
  BY <1>6 DEF Atoi

\* What a receive finds that finds all it asked for
LEMMA PartRead ==
  ASSUME ReadPart, ~ off', travelling \in Seq(Nat), arrived \in Seq(Nat),
         NEW x \in Seq(Nat), NEW y \in Seq(Nat), Stream = x \o y, Wanted = Len(x)
  PROVE  /\ Stream' = y
         /\ thread' = IF Part.sized /\ thread.size = NotAsked
                        THEN [thread EXCEPT !.size = Atoi(x)]
                        ELSE [thread EXCEPT !.size = NotAsked, !.values = Append(@, x)]
<1> DEFINE n == IF Wanted < Len(arrived) THEN Wanted ELSE Len(arrived)
           part(c) == SubSeq(arrived, 1, n) \o [j \in 1 .. Wanted - n |-> c]
<1>1. /\ arrived' = SubSeq(arrived, n + 1, Len(arrived)) /\ travelling' = travelling
      /\ off' = (off \/ n < Wanted)
      /\ \E c \in IF n < Wanted THEN Unwritten ELSE {0} :
            thread' = IF Part.sized /\ thread.size = NotAsked
                        THEN [thread EXCEPT !.size = Atoi(part(c))]
                        ELSE [thread EXCEPT !.size = NotAsked, !.values = Append(@, part(c))]
  BY DEF ReadPart
<1>2. Len(arrived) \in Nat /\ Len(x) \in Nat
  BY LenProperties
<1>3. ~ n < Wanted
  BY <1>1
<1>4. n = Len(x) /\ Len(x) <= Len(arrived) /\ Wanted - n = 0
  BY <1>2, <1>3
<1>5. SubSeq(arrived, 1, Len(x)) = x /\ SubSeq(arrived, Len(x) + 1, Len(arrived)) \o travelling = y
  <2>1. arrived \o travelling = x \o y /\ Len(x) <= Len(arrived)
    BY <1>4 DEF Stream
  <2>4. CutAfter(arrived, travelling, x, y)
    BY <2>1, Zenon DEF CutAfter
  <2>2. SubSeq(arrived, 1, Len(x)) = x
    BY <2>4, StreamCut, Zenon
  <2>3. SubSeq(arrived, Len(x) + 1, Len(arrived)) \o travelling = y
    BY <2>4, StreamCut, Zenon
  <2> QED
    BY <2>2, <2>3
<1>6. ASSUME NEW c PROVE part(c) = x
  <2>1. [j \in 1 .. Wanted - n |-> c] = <<>>
    BY <1>4
  <2>2. SubSeq(arrived, 1, n) = x
    BY <1>4, <1>5
  <2>3. x \o <<>> = x
    BY ConcatEmptySeq
  <2> HIDE DEF n
  <2> QED
    BY <2>1, <2>2, <2>3
<1> HIDE DEF n, part
<1>7. thread' = IF Part.sized /\ thread.size = NotAsked
                  THEN [thread EXCEPT !.size = Atoi(x)]
                  ELSE [thread EXCEPT !.size = NotAsked, !.values = Append(@, x)]
  <2>1. PICK c : thread' = IF Part.sized /\ thread.size = NotAsked
                        THEN [thread EXCEPT !.size = Atoi(part(c))]
                        ELSE [thread EXCEPT !.size = NotAsked, !.values = Append(@, part(c))]
    BY <1>1, Zenon
  <2>2. part(c) = x
    BY <1>6
  <2> QED
    BY <2>1, <2>2
<1>8. Stream' = y
  BY <1>1, <1>4, <1>5 DEF Stream
<1> QED
  BY <1>7, <1>8

\* A receive, whole or short, leaves the thread in its type.
LEMMA ReadPartType ==
  ASSUME TypeInv, ReadPart
  PROVE  TypeInv'
<1>1. /\ UNCHANGED <<page, waiting, shown, clicked, due, travelling, drawn, down, owed>>
      /\ thread.at = "parts" /\ Len(thread.values) < Len(Read(thread.code).head)
  BY DEF ReadPart, client
<1>2. /\ travelling \in Seq(Nat) /\ arrived \in Seq(Nat) /\ off \in BOOLEAN
      /\ thread \in [at : {"code", "parts", "question", "gone"}, code : Requests \cup {0},
                     values : Seq(Seq(Nat)), size : Nat \cup {NotAsked}]
      /\ thread.code \in Requests
  BY <1>1 DEF TypeInv
<1>3. Len(thread.values) \in Nat /\ Len(arrived) \in Nat /\ thread.values \in Seq(Seq(Nat))
  BY <1>2, LenProperties
<1>4. Part \in {S(2), N(1), N(2), N(4)}
  <2>1. Read(thread.code).head \in Seq({S(2), N(1), N(2), N(4)}) /\ Len(Read(thread.code).head) \in 0 .. 4
    BY <1>2, ReadFields
  <2>2. Len(thread.values) + 1 \in 1 .. Len(Read(thread.code).head)
    BY <1>1, <1>3, <2>1
  <2> QED
    BY <2>1, <2>2, ElementOfSeq DEF Part
<1>5. Wanted \in Nat
  <2>1. Part.w \in Nat
    BY <1>4, FieldKinds
  <2>2. thread.size # NotAsked => thread.size \in Nat
    BY <1>2
  <2> QED
    BY <2>1, <2>2 DEF Wanted
<1> DEFINE n == IF Wanted < Len(arrived) THEN Wanted ELSE Len(arrived)
           part(c) == SubSeq(arrived, 1, n) \o [j \in 1 .. Wanted - n |-> c]
<1>6. /\ arrived' = SubSeq(arrived, n + 1, Len(arrived))
      /\ off' = (off \/ n < Wanted)
      /\ \E c \in IF n < Wanted THEN Unwritten ELSE {0} :
            thread' = IF Part.sized /\ thread.size = NotAsked
                        THEN [thread EXCEPT !.size = Atoi(part(c))]
                        ELSE [thread EXCEPT !.size = NotAsked, !.values = Append(@, part(c))]
  BY DEF ReadPart
<1>7. n \in Nat /\ n <= Len(arrived) /\ Wanted - n \in Nat
  BY <1>3, <1>5
<1> HIDE DEF n
<1>8. arrived' \in Seq(Nat) /\ SubSeq(arrived, 1, n) \in Seq(Nat)
  BY <1>2, <1>6, <1>7, SubSeqCat
<1>9. \A c \in Nat : part(c) \in Seq(Nat)
  <2>1. ASSUME NEW c \in Nat PROVE part(c) \in Seq(Nat)
    <3> DEFINE z == [j \in 1 .. Wanted - n |-> c]
    <3>1. z \in Seq(Nat)
      BY <1>7
    <3> HIDE DEF z
    <3>2. SubSeq(arrived, 1, n) \o z \in Seq(Nat)
      BY <1>8, <3>1, CutText
    <3> QED
      BY <3>2 DEF z
  <2> QED
    BY <2>1
<1> HIDE DEF part
<1>10. PICK c \in Nat : thread' = IF Part.sized /\ thread.size = NotAsked
                        THEN [thread EXCEPT !.size = Atoi(part(c))]
                        ELSE [thread EXCEPT !.size = NotAsked, !.values = Append(@, part(c))]
  <2>1. \A c \in Unwritten : c \in Nat
    BY ExchangeAssumption DEF Digit, Letter
  <2>2. \A c \in IF n < Wanted THEN Unwritten ELSE {0} : c \in Nat
    BY <2>1
  <2> QED
    BY <1>6, <2>2
<1>11. part(c) \in Seq(Nat) /\ Atoi(part(c)) \in Nat
  BY <1>9, AtoiNat
<1>12. /\ thread' \in [at : {"code", "parts", "question", "gone"}, code : Requests \cup {0},
                       values : Seq(Seq(Nat)), size : Nat \cup {NotAsked}]
       /\ thread'.code = thread.code /\ thread'.at = thread.at
  <2>1. CASE Part.sized /\ thread.size = NotAsked
    <3>1. thread' = [thread EXCEPT !.size = Atoi(part(c))]
      BY <1>10, <2>1
    <3> QED
      BY <1>2, <1>11, <3>1
  <2>2. CASE ~ (Part.sized /\ thread.size = NotAsked)
    <3>1. thread' = [thread EXCEPT !.size = NotAsked, !.values = Append(thread.values, part(c))]
      BY <1>10, <2>2
    <3>2. Append(thread.values, part(c)) \in Seq(Seq(Nat))
      BY <1>3, <1>11, AppendProperties
    <3> QED
      BY <1>2, <3>1, <3>2
  <2> QED
    BY <2>1, <2>2
<1>13. off' \in BOOLEAN
  BY <1>2, <1>6
<1> QED
  BY <1>1, <1>2, <1>6, <1>8, <1>12, <1>13 DEF TypeInv

\* A receive that was not short takes its part and nothing of the next.
LEMMA ReadPartSync ==
  ASSUME TypeInv, InSync, Phase, ReadPart, ~ off'
  PROVE  InParts' /\ due # <<>> /\ thread'.at = "parts"
<1> DEFINE r == Head(due)
           F == Read(r.code)
           v == r.values
           i == Len(thread.values)
           T == Sent(Tail(due))
           f == F.head[i + 1]
           x == v[i + 1]
           q == PutLast(F, v, Len(v) - (i + 1))
           d == PadLeft(Digits(Len(x)), f.w)
           e == PadLeft(x, f.w)
<1>1. /\ due' = due /\ thread.at = "parts" /\ i < Len(Read(thread.code).head)
  BY DEF ReadPart
<1>2. /\ due # <<>> /\ thread.code = r.code /\ Fits(F, r) /\ i \in 0 .. Len(v)
      /\ thread.values = Padded(F, v, i)
      /\ \/ thread.size = NotAsked
         \/ i < Len(v) /\ f.sized /\ thread.size = Len(x)
      /\ Stream = Remains(r, i, thread.size) \o T
  BY <1>1 DEF InSync, InParts
<1>3. travelling \in Seq(Nat) /\ arrived \in Seq(Nat)
      /\ thread \in [at : {"code", "parts", "question", "gone"}, code : Requests \cup {0},
                     values : Seq(Seq(Nat)), size : Nat \cup {NotAsked}]
  BY DEF TypeInv
<1>4. Asked(r) /\ T \in Seq(Nat)
  BY <1>2, DueSent
<1>5. Len(v) \in Nat /\ Len(F.head) = Len(v) /\ v \in Seq(Seq(Nat))
  BY <1>4, LenProperties DEF Asked
<1>6. i \in 0 .. Len(v) - 1 /\ i \in Nat /\ i + 1 \in 0 .. Len(v) /\ i + 1 \in 1 .. Len(v)
  BY <1>1, <1>2, <1>5, SMTT(30)
<1>7. /\ f \in Field /\ FieldAt(F, i + 1) = f /\ f.w \in 1 .. 6
      /\ FitsField(f, x)
      /\ PutLast(F, v, Len(v) - i) = Put(f, x) \o q
      /\ q \in Seq(Nat)
  BY <1>2, <1>4, <1>6, NextPart, Zenon
<1>8. Part = f
  BY <1>2 DEF Part
<1>9. FitsAll(F, v)
  BY <1>2, <1>4, RequestFits, Zenon
<1>10. Append(Padded(F, v, i), Received(f, x)) = Padded(F, v, i + 1)
  <2>1. i + 1 - 1 = i
    BY <1>6
  <2>2. Append(Padded(F, v, i + 1 - 1), Received(FieldAt(F, i + 1), v[i + 1])) = Padded(F, v, i + 1)
    BY <1>6, <1>9, PaddedStep
  <2> QED
    BY <1>7, <2>1, <2>2, Zenon
<1>11. Len(Padded(F, v, i + 1)) = i + 1
  BY <1>6 DEF Padded
<1>12. x \in Seq(Nat) /\ Len(x) \in Nat /\ Len(x) # NotAsked
  <2>1. x \in Seq(Nat)
    BY <1>7, Zenon DEF FitsField
  <2>2. Len(x) \in Nat
    BY <2>1, LenProperties
  <2> QED
    BY <2>1, <2>2 DEF NotAsked
<1>13. r = Head(due)' /\ T = Sent(Tail(due))'
  BY <1>1, SMTT(30)
<1>14. /\ Remains(r, i, NotAsked) = Put(f, x) \o q
       /\ Remains(r, i, Len(x)) = x \o q
       /\ Remains(r, i + 1, NotAsked) = q
  BY <1>7, <1>12, Zenon DEF Remains
<1> HIDE DEF r, T, q, f, x, d, e, i, v
<1>15. CASE f.sized /\ thread.size = NotAsked
  <2>1. Put(f, x) = d \o x /\ d \in Seq(Nat) /\ Len(d) = f.w /\ Atoi(d) = Len(x)
    BY <1>7, <1>15, TextField DEF d
  <2>2. Stream = d \o ((x \o q) \o T) /\ (x \o q) \o T \in Seq(Nat)
    <3>1. Stream = ((d \o x) \o q) \o T
      BY <1>2, <1>14, <1>15, <2>1
    <3>2. (d \o x) \o q = d \o (x \o q)
      BY <1>7, <1>12, <2>1, CatAgain
    <3>3. x \o q \in Seq(Nat)
      BY <1>7, <1>12, CutText
    <3>4. (d \o (x \o q)) \o T = d \o ((x \o q) \o T)
      BY <1>4, <2>1, <3>3, CatAgain
    <3>5. (x \o q) \o T \in Seq(Nat)
      BY <1>4, <3>3, CutText
    <3> QED
      BY <3>1, <3>2, <3>4, <3>5
  <2>3. Wanted = Len(d)
    BY <1>8, <1>15, <2>1 DEF Wanted
  <2>4. Stream' = (x \o q) \o T /\ thread' = [thread EXCEPT !.size = Atoi(d)]
    BY <1>3, <1>8, <1>15, <2>1, <2>2, <2>3, PartRead
  <2>5. thread'.at = "parts" /\ thread'.code = thread.code /\ thread'.values = thread.values /\ thread'.size = Len(x)
    BY <1>1, <1>3, <2>1, <2>4
  <2>6. Stream' = Remains(r, i, thread'.size) \o T
    BY <1>14, <2>4, <2>5
  <2>7. Len(thread'.values) = i /\ i < Len(v)
    BY <1>5, <1>6, <2>5 DEF i
  <2>8. thread'.code = r.code /\ thread'.values = Padded(F, v, i)
    BY <1>2, <2>5
  <2> QED
    BY <1>1, <1>2, <1>13, <1>15, <2>5, <2>6, <2>7, <2>8, Zenon DEF InParts, v, x, f
<1>16. CASE f.sized /\ thread.size # NotAsked
  <2>1. thread.size = Len(x)
    BY <1>2, <1>16
  <2>2. Stream = x \o (q \o T) /\ q \o T \in Seq(Nat)
    <3>1. Stream = (x \o q) \o T
      BY <1>2, <1>14, <2>1
    <3>2. (x \o q) \o T = x \o (q \o T)
      BY <1>4, <1>7, <1>12, CatAgain
    <3>3. q \o T \in Seq(Nat)
      BY <1>4, <1>7, CutText
    <3> QED
      BY <3>1, <3>2, <3>3
  <2>3. Wanted = Len(x)
    BY <1>8, <1>16, <2>1 DEF Wanted
  <2>4. Stream' = q \o T /\ thread' = [thread EXCEPT !.size = NotAsked, !.values = Append(@, x)]
    BY <1>3, <1>8, <1>12, <1>16, <2>2, <2>3, PartRead
  <2>5. Received(f, x) = x
    BY <1>16 DEF Received
  <2>6. /\ thread'.at = "parts" /\ thread'.code = thread.code /\ thread'.size = NotAsked
        /\ thread'.values = Padded(F, v, i + 1)
    BY <1>1, <1>2, <1>3, <1>10, <2>4, <2>5
  <2>7. Stream' = Remains(r, i + 1, thread'.size) \o T
    BY <1>14, <2>4, <2>6
  <2>8. Len(thread'.values) = i + 1
    BY <1>11, <2>6
  <2>9. thread'.code = r.code
    BY <1>2, <2>6
  <2> QED
    BY <1>1, <1>2, <1>6, <1>13, <2>6, <2>7, <2>8, <2>9, Zenon DEF InParts, v
<1>17. CASE ~ f.sized
  <2>0. thread.size = NotAsked
    BY <1>2, <1>17
  <2>1. Put(f, x) = e /\ e \in Seq(Nat) /\ Len(e) = f.w /\ Received(f, x) = e
    <3>1. f.w > 0
      BY <1>7
    <3> QED
      BY <1>7, <1>17, <3>1, NumberField DEF e
  <2>2. Stream = e \o (q \o T) /\ q \o T \in Seq(Nat)
    <3>1. Stream = (e \o q) \o T
      BY <1>2, <1>14, <2>0, <2>1
    <3>2. (e \o q) \o T = e \o (q \o T)
      BY <1>4, <1>7, <2>1, CatAgain
    <3>3. q \o T \in Seq(Nat)
      BY <1>4, <1>7, CutText
    <3> QED
      BY <3>1, <3>2, <3>3
  <2>3. Wanted = Len(e)
    BY <1>8, <1>17, <2>1 DEF Wanted
  <2>4. Stream' = q \o T /\ thread' = [thread EXCEPT !.size = NotAsked, !.values = Append(@, e)]
    BY <1>3, <1>8, <1>17, <2>1, <2>2, <2>3, PartRead
  <2>6. /\ thread'.at = "parts" /\ thread'.code = thread.code /\ thread'.size = NotAsked
        /\ thread'.values = Padded(F, v, i + 1)
    BY <1>1, <1>2, <1>3, <1>10, <2>1, <2>4
  <2>7. Stream' = Remains(r, i + 1, thread'.size) \o T
    BY <1>14, <2>4, <2>6
  <2>8. Len(thread'.values) = i + 1
    BY <1>11, <2>6
  <2>9. thread'.code = r.code
    BY <1>2, <2>6
  <2> QED
    BY <1>1, <1>2, <1>6, <1>13, <2>6, <2>7, <2>8, <2>9, Zenon DEF InParts, v
<1> QED
  BY <1>2, <1>15, <1>16, <1>17

\* So it keeps the invariant.
LEMMA ReadPartKeeps ==
  ASSUME IInv, ReadPart
  PROVE  IInv'
<1>1. /\ UNCHANGED <<page, waiting, shown, clicked, due, travelling, drawn, down, owed>> /\ Quiet
      /\ thread.at = "parts" /\ (off => off')
  BY DEF ReadPart, client
<1>2. TypeInv'
  BY ReadPartType DEF IInv
<1>3. OwedOK' /\ Told'
  BY <1>1 DEF IInv, OwedOK, Told
<1>4. thread'.at = "parts"
  <2>1. thread \in [at : {"code", "parts", "question", "gone"}, code : Requests \cup {0},
                     values : Seq(Seq(Nat)), size : Nat \cup {NotAsked}]
    BY DEF IInv, TypeInv
  <2>2. \/ \E a : thread' = [thread EXCEPT !.size = a]
        \/ \E a : thread' = [thread EXCEPT !.size = NotAsked, !.values = Append(@, a)]
    BY DEF ReadPart
  <2> QED
    BY <1>1, <2>1, <2>2
<1>5. EndOnce'
  BY <1>1, <1>4 DEF IInv, EndOnce
<1>6. HandledAsSent' /\ ShownAsBuilt' /\ JudgedByText'
  BY <1>1, QuietKeeps
<1>7. ASSUME ~ off' PROVE InSync' /\ Phase' /\ (page' = "game" => {shown'[i] : i \in 2 .. 5} = Letters4)
  <2>1. InSync /\ Phase /\ TypeInv /\ (page = "game" => {shown[i] : i \in 2 .. 5} = Letters4)
    BY <1>1, <1>7 DEF IInv
  <2>2. InParts' /\ due # <<>>
    BY <1>7, <2>1, ReadPartSync
  <2>3. InSync'
    BY <1>4, <2>2 DEF InSync
  <2>4. Phase'
    BY <1>1, <1>4, <2>1, <2>2, PhaseKeeps
  <2> QED
    BY <1>1, <2>1, <2>3, <2>4
<1> QED
  BY <1>2, <1>3, <1>5, <1>6, <1>7 DEF IInv

\* What becomes of the replies on their way
LEMMA ReplyKeeps ==
  ASSUME OwedOK, NEW c, NEW s, RepliesAre(c, s), c = StartGame => Perm(drawn),
         owed' = owed \o s
  PROVE  /\ OwedOK' /\ Len(owed') = Len(owed) + Len(s) /\ Len(owed) \in Nat /\ Len(s) \in 0 .. 2
         /\ \A i \in 1 .. Len(owed) : owed'[i] = owed[i]
         /\ \A i \in 1 .. Len(s) : owed'[Len(owed) + i] = s[i]
<1> DEFINE n == Len(s)
<1>1. s \in Seq(Msg) /\ n \in 0 .. 2
  BY DEF RepliesAre
<1>2. owed \in Seq(Msg) /\ Len(owed) \in Nat
  BY LenProperties DEF OwedOK
<1>3. \A i \in 1 .. n : /\ ReadAsBuilt(s[i])
                        /\ s[i].code = Question => c = StartGame /\ s[i] = QuestionMessage
                        /\ s[i].code = TrueFalse => s[i] \in Verdicts
  BY DEF RepliesAre
<1>4. QuestionMessage = Message(Question, Texts(drawn))
  BY DEF QuestionMessage, Texts
<1>5. c = StartGame => drawn \in [1 .. 4 -> 0 .. 3]
  BY PermIs
<1> HIDE DEF n
<1>6. owed \o s \in Seq(Msg) /\ Len(owed \o s) = Len(owed) + n
  BY <1>1, <1>2, ConcatProperties DEF n
<1>7. \A i \in 1 .. Len(owed) + n : (owed \o s)[i] = IF i <= Len(owed) THEN owed[i] ELSE s[i - Len(owed)]
  BY <1>1, <1>2, ConcatProperties DEF n
<1>8. ASSUME NEW i \in 1 .. Len(owed) PROVE owed'[i] = owed[i]
  <2>1. i \in 1 .. Len(owed) + n /\ i <= Len(owed)
    BY <1>1, <1>2
  <2> QED
    BY <1>7, <2>1
<1>9. ASSUME NEW i \in 1 .. n PROVE owed'[Len(owed) + i] = s[i]
  <2> DEFINE k == Len(owed) + i
  <2>1. k \in 1 .. Len(owed) + n /\ ~ (k <= Len(owed)) /\ k - Len(owed) = i
    BY <1>1, <1>2
  <2> HIDE DEF k
  <2>2. owed'[k] = s[i]
    BY <1>7, <2>1
  <2> QED
    BY <2>2 DEF k
<1>10. ASSUME NEW i \in 1 .. Len(owed')
       PROVE  /\ ReadAsBuilt(owed'[i])
              /\ owed'[i].code = Question =>
                   \E d \in [1 .. 4 -> 0 .. 3] : Perm(d) /\ owed'[i] = Message(Question, Texts(d))
              /\ owed'[i].code = TrueFalse => owed'[i] \in Verdicts
  <2>1. i \in 1 .. Len(owed) \/ \E k \in 1 .. n : i = Len(owed) + k
    <3>1. i \in 1 .. Len(owed) + n
      BY <1>6
    <3>2. i \notin 1 .. Len(owed) => i - Len(owed) \in 1 .. n /\ i = Len(owed) + (i - Len(owed))
      BY <1>1, <1>2, <3>1
    <3> QED
      BY <3>2
  <2>2. CASE i \in 1 .. Len(owed)
    <3>1. owed'[i] = owed[i]
      BY <1>8, <2>2
    <3> QED
      BY <2>2, <3>1 DEF OwedOK
  <2>3. CASE \E k \in 1 .. n : i = Len(owed) + k
    <3>1. PICK k \in 1 .. n : i = Len(owed) + k
      BY <2>3
    <3>2. owed'[i] = s[k]
      BY <1>9, <3>1
    <3> QED
      BY <1>3, <1>4, <1>5, <3>2
  <2> QED
    BY <2>1, <2>2, <2>3
<1>11. OwedOK'
  BY <1>6, <1>10 DEF OwedOK
<1> QED
  BY <1>1, <1>2, <1>6, <1>8, <1>9, <1>11 DEF n

\* Where nothing was on its way, the replies are all there is.
LEMMA ToldFirst ==
  ASSUME Told, ~ off, owed = <<>>, NEW c, NEW s, RepliesAre(c, s),
         owed' = owed \o s, down' = down \o ReplyTexts(s)
  PROVE  Told'
<1>1. s \in Seq(Msg) /\ Len(s) \in 0 .. 2 /\ \A i \in 1 .. Len(s) : ReplyText(s[i]) \in Seq(Nat)
  BY DEF RepliesAre, ReadAsBuilt
<1>2. ReplyTexts(s) \in Seq(Nat)
  <2>1. CASE Len(s) = 0
    BY <2>1 DEF ReplyTexts
  <2>2. CASE Len(s) = 1
    <3>1. 1 \in 1 .. Len(s)
      BY <2>2
    <3> QED
      BY <1>1, <2>2, <3>1 DEF ReplyTexts
  <2>3. CASE Len(s) = 2
    <3>1. 1 \in 1 .. Len(s) /\ 2 \in 1 .. Len(s)
      BY <2>3
    <3>2. ReplyText(s[1]) \o ReplyText(s[2]) \in Seq(Nat)
      BY <1>1, <3>1, CutText
    <3> QED
      BY <2>3, <3>2 DEF ReplyTexts
  <2> QED
    BY <1>1, <2>1, <2>2, <2>3
<1>3. down = <<>>
  BY DEF Told, ReplyTexts
<1>4. down' = ReplyTexts(s) /\ owed' = s
  BY <1>1, <1>2, <1>3, ConcatEmptySeq
<1> QED
  BY <1>4 DEF Told

\* A place that is free is not drawn twice.
LEMMA DrawKeeps ==
  ASSUME IInv, NEW p \in 0 .. 3, Draw(p)
  PROVE  IInv'
<1>1. /\ UNCHANGED <<page, waiting, shown, clicked, due, travelling, arrived, thread, down, owed, off>> /\ Quiet
      /\ thread.at = "question" /\ Len(drawn) < 4
      /\ \A j \in DOMAIN drawn : drawn[j] # p
      /\ drawn' = Append(drawn, p)
  BY DEF Draw, client, Free
<1>2. TypeInv
  BY DEF IInv
<1>3. drawn' \in Seq(0 .. 3) /\ IsInjective(drawn')
  <2>1. drawn \in Seq(0 .. 3) /\ IsInjective(drawn) /\ Len(drawn) \in Nat /\ DOMAIN drawn = 1 .. Len(drawn)
    BY <1>2, LenProperties DEF TypeInv
  <2>2. drawn' \in Seq(0 .. 3)
    BY <1>1, <2>1, AppendProperties
  <2>3. Len(drawn') = Len(drawn) + 1
    BY <1>1, <2>1, AppendProperties
  <2>4. \A i \in 1 .. Len(drawn) : drawn'[i] = drawn[i]
    BY <1>1, <2>1, AppendProperties
  <2>5. drawn'[Len(drawn) + 1] = p
    BY <1>1, <2>1, AppendProperties
  <2>6. DOMAIN drawn' = 1 .. Len(drawn) + 1
    BY <2>2, <2>3, LenProperties
  <2>7. ASSUME NEW i \in 1 .. Len(drawn) + 1, NEW j \in 1 .. Len(drawn) + 1, drawn'[i] = drawn'[j]
        PROVE  i = j
    <3>1. CASE i \in 1 .. Len(drawn) /\ j \in 1 .. Len(drawn)
      BY <2>1, <2>4, <2>7, <3>1 DEF IsInjective
    <3>2. CASE i = Len(drawn) + 1 /\ j \in 1 .. Len(drawn)
      BY <1>1, <2>1, <2>4, <2>5, <2>7, <3>2
    <3>3. CASE i \in 1 .. Len(drawn) /\ j = Len(drawn) + 1
      BY <1>1, <2>1, <2>4, <2>5, <2>7, <3>3
    <3> QED
      BY <2>1, <3>1, <3>2, <3>3
  <2> QED
    BY <2>2, <2>6, <2>7 DEF IsInjective
<1>4. TypeInv'
  BY <1>1, <1>2, <1>3 DEF TypeInv
<1>5. OwedOK' /\ Told'
  BY <1>1 DEF IInv, OwedOK, Told
<1>6. EndOnce'
  BY <1>1 DEF IInv, EndOnce
<1>7. HandledAsSent' /\ ShownAsBuilt' /\ JudgedByText'
  BY <1>1, QuietKeeps
<1>8. ASSUME ~ off' PROVE InSync' /\ Phase' /\ (page' = "game" => {shown'[i] : i \in 2 .. 5} = Letters4)
  <2>1. InSync /\ Phase /\ (page = "game" => {shown[i] : i \in 2 .. 5} = Letters4)
    BY <1>1, <1>8 DEF IInv
  <2>2. InSync'
    BY <1>1, <2>1 DEF InSync, Stream
  <2>3. Drawing
    BY <1>1, <2>1 DEF Phase, Resting, Asking, Answered
  <2>4. Drawing'
    BY <1>1, <2>3 DEF Drawing
  <2> QED
    BY <1>1, <2>1, <2>2, <2>4 DEF Phase
<1> QED
  BY <1>4, <1>5, <1>6, <1>7, <1>8 DEF IInv

\* When the questions are made the room is announced.
LEMMA AnswerCreateKeeps ==
  ASSUME IInv, AnswerCreate
  PROVE  IInv'
<1>1. /\ UNCHANGED <<page, waiting, shown, clicked, due, travelling, arrived, drawn, off>> /\ Quiet
      /\ thread.at = "question" /\ Len(drawn) = 4
      /\ thread' = Idle /\ Reply(Message(CreateRoom, <<>>))
  BY DEF AnswerCreate, client
<1>2. TypeInv /\ OwedOK /\ EndOnce
  BY DEF IInv
<1>3. thread'.at = "code" /\ thread' \in [at : {"code", "parts", "question", "gone"}, code : Requests \cup {0},
                     values : Seq(Seq(Nat)), size : Nat \cup {NotAsked}]
  BY <1>1 DEF Idle
<1>4. TypeInv'
  BY <1>1, <1>2, <1>3 DEF TypeInv
<1>5. Perm(drawn)
  BY <1>1, <1>2 DEF TypeInv, Perm
<1> DEFINE m == Message(CreateRoom, <<>>)
<1>6. m.code = CreateRoom /\ CreateRoom \notin {StartGame, LeaveGame, Answer, JoinRoom}
  BY RequestCodes DEF Message, CreateRoom, JoinRoom
<1> HIDE DEF m
<1>7. PICK s \in Replies(m) :
        owed' = owed \o s /\ down' = down \o ReplyTexts(s)
  BY <1>1 DEF Reply, m
<1>8. RepliesAre(CreateRoom, s)
  BY <1>6, RepliesFitMenu
<1>9. OwedOK' /\ Len(owed') = Len(owed) + Len(s) /\ Len(owed) \in Nat
      /\ (\A i \in 1 .. Len(owed) : owed'[i] = owed[i])
      /\ (\A i \in 1 .. Len(s) : owed'[Len(owed) + i] = s[i])
  BY <1>2, <1>6, <1>7, <1>8, ReplyKeeps
<1>10. s[1].code = Created /\ Len(s) = 1
  <2>1. Replies(m) = {<<Message(Created, <<Digits(0), Digits(n)>>)>> : n \in Numbers}
    BY <1>6, RepliesOf
  <2>2. PICK n \in Numbers : s = <<Message(Created, <<Digits(0), Digits(n)>>)>>
    BY <2>1, SMT
  <2> DEFINE x == Message(Created, <<Digits(0), Digits(n)>>)
  <2>3. x.code = Created
    BY DEF Message
  <2> HIDE DEF x
  <2>4. s = <<x>>
    BY <2>2 DEF x
  <2> QED
    BY <2>3, <2>4
<1>11. Len(owed') = Len(owed) + 1 /\ owed'[Len(owed) + 1].code = Created
  BY <1>9, <1>10
<1>12. EndOnce'
  <2>1. \A i \in 1 .. Len(owed) : owed[i].code # EndGame
    BY <1>1, <1>2 DEF EndOnce
  <2>2. ASSUME NEW i \in 1 .. Len(owed') PROVE owed'[i].code # EndGame
    <3>1. i \in 1 .. Len(owed) \/ i = Len(owed) + 1
      BY <1>9, <1>11
    <3> QED
      BY <1>9, <1>11, <2>1, <3>1, CodesDiffer
  <2> QED
    BY <2>2 DEF EndOnce
<1>13. HandledAsSent' /\ ShownAsBuilt' /\ JudgedByText'
  BY <1>1, QuietKeeps
<1>14. ASSUME ~ off' PROVE InSync' /\ Phase' /\ (page' = "game" => {shown'[i] : i \in 2 .. 5} = Letters4)
  <2>1. InSync /\ Phase /\ (page = "game" => {shown[i] : i \in 2 .. 5} = Letters4)
    BY <1>1, <1>14 DEF IInv
  <2>2. Drawing /\ Stream = <<>>
    BY <1>1, <2>1 DEF Phase, Resting, Asking, Answered, InSync
  <2>3. InSync'
    <3>1. Stream' = <<>> /\ due' = <<>>
      BY <1>1, <2>2 DEF Stream, Drawing
    <3>2. Sent(due') = <<>>
      BY <3>1 DEF Sent
    <3> QED
      BY <1>1, <1>3, <3>1, <3>2 DEF InSync
  <2>4. Len(owed') = 1 /\ owed'[1].code = Created
    <3>1. Len(owed) = 0
      BY <2>2 DEF Drawing
    <3> QED
      BY <1>11, <3>1
  <2>5. Answered'
    BY <1>1, <1>3, <1>5, <2>2, <2>4, CodesDiffer DEF Answered, Drawing
  <2> QED
    BY <1>1, <2>1, <2>3, <2>5 DEF Phase
<1>15. Told'
  <2>1. ~ off => owed = <<>> /\ Told
    BY <1>1 DEF IInv, Phase, Resting, Asking, Drawing, Answered
  <2>2. ASSUME ~ off PROVE Told'
    BY <1>7, <1>8, <2>1, <2>2, ToldFirst
  <2> QED
    BY <1>1, <2>2 DEF Told
<1> QED
  BY <1>4, <1>9, <1>15, <1>12, <1>13, <1>14 DEF IInv

\* Nothing is left of a request without values.
LEMMA NothingRemains ==
  ASSUME NEW r, Len(r.values) = 0, NEW size, size = NotAsked
  PROVE  Remains(r, 0, size) = <<>>
<1>1. PutLast(Read(r.code), r.values, 0) = <<>>
  BY PutStep
<1>2. Len(r.values) - 0 = 0
  OBVIOUS
<1> QED
  BY <1>1, <1>2 DEF Remains

\* The request to leave is a request.
LEMMA LeaveIs ==
  /\ Asked(Leave) /\ Leave.code = LeaveGame /\ Leave.values = <<>> /\ Len(Leave.values) = 0
  /\ Leave \in [code : Requests, values : Seq(Seq(Nat))]
<1>1. Asked(Leave)
  BY AskedEmpty DEF Leave
<1>2. Leave = [code |-> LeaveGame, values |-> <<>>]
  BY DEF Leave, Message
<1>3. LeaveGame \in Requests
  BY RequestCodes
<1> QED
  BY <1>1, <1>2, <1>3

\* A request behind another one
LEMMA TwoDue ==
  ASSUME NEW l, NEW r
  PROVE  Append(<<l>>, r) = <<l, r>> /\ Head(<<l>>) = l /\ Tail(<<l>>) = <<>>
<1>1. Head(<<l>>) = l /\ Tail(<<l>>) = <<>>
  OBVIOUS
<1> DEFINE Y == {l, r}
           a == Append(<<l>>, r)
           b == <<l, r>>
<1>2. <<l>> \in Seq(Y) /\ r \in Y /\ Len(<<l>>) = 1 /\ <<l>>[1] = l
  OBVIOUS
<1>3. b \in Seq(Y) /\ Len(b) = 2 /\ b[1] = l /\ b[2] = r
  OBVIOUS
<1> HIDE DEF Y, b
<1>4. a \in Seq(Y)
  BY <1>2, AppendProperties
<1>5. Len(a) = Len(<<l>>) + 1
  BY <1>2, AppendProperties
<1>6. \A i \in 1 .. Len(<<l>>) : a[i] = <<l>>[i]
  BY <1>2, AppendProperties
<1>7. a[Len(<<l>>) + 1] = r
  BY <1>2, AppendProperties
<1>8. Len(a) = 2 /\ a[1] = l /\ a[2] = r
  BY <1>2, <1>5, <1>6, <1>7
<1> HIDE DEF a
<1>9. \A i \in 1 .. Len(a) : a[i] = b[i]
  BY <1>3, <1>8
<1>10. a = b
  BY <1>3, <1>4, <1>8, <1>9, SeqEqual
<1> QED
  BY <1>1, <1>10 DEF a, b

\* A request is written behind those that are due.
LEMMA SendKeeps ==
  ASSUME IInv, NEW r \in Requested, Send(r)
  PROVE  IInv'
<1>1. /\ waiting = 0 /\ Len(due) < MaxDue /\ ~ off /\ off' = off
      /\ due' = Append(due, r) /\ travelling' = travelling \o Written(r)
      /\ Quiet
      /\ waiting' = IF r.code = Answer THEN 2 ELSE 1
      /\ clicked' = IF r.code = Answer /\ r.values[1] # Digits(5)
                      THEN shown[Atoi(r.values[1]) + 1] ELSE <<>>
      /\ UNCHANGED <<page, shown, arrived, thread, drawn, down, owed>>
  BY DEF Send, Deliver, server, Written
<1>2. TypeInv /\ InSync /\ Phase
  BY <1>1 DEF IInv
<1>3. Asked(r) /\ (page = "game" => r.code = Answer)
  BY <1>2, RequestedIs DEF TypeInv
<1>4. Resting
  BY <1>1, <1>2 DEF Phase, Asking, Drawing, Answered
<1>5. r \in [code : Requests, values : Seq(Seq(Nat))]
  BY <1>3 DEF Asked, Message
<1>6. Written(r) \in Seq(Nat)
  BY <1>3, RequestWritten
<1>7. /\ travelling \in Seq(Nat) /\ arrived \in Seq(Nat)
      /\ due \in Seq([code : Requests, values : Seq(Seq(Nat))]) /\ Len(due) \in Nat
      /\ \A i \in 1 .. Len(due) : Asked(due[i])
  BY <1>2, LenProperties DEF TypeInv
<1>8. travelling' \in Seq(Nat)
  BY <1>1, <1>6, <1>7, CutText
<1>9. /\ due' \in Seq([code : Requests, values : Seq(Seq(Nat))]) /\ Len(due') = Len(due) + 1
      /\ \A i \in 1 .. Len(due') : Asked(due'[i])
  <2> DEFINE R == [code : Requests, values : Seq(Seq(Nat))]
  <2> HIDE DEF R
  <2>0. due \in Seq(R) /\ r \in R
    BY <1>5, <1>7 DEF R
  <2>1. due' \in Seq(R) /\ Len(due') = Len(due) + 1
    BY <1>1, <2>0, AppendProperties
  <2>2. \A i \in 1 .. Len(due) : due'[i] = due[i]
    BY <1>1, <2>0, AppendProperties
  <2>3. due'[Len(due) + 1] = r
    BY <1>1, <2>0, AppendProperties
  <2>4. ASSUME NEW i \in 1 .. Len(due') PROVE Asked(due'[i])
    <3>1. i \in 1 .. Len(due) \/ i = Len(due) + 1
      BY <1>7, <2>1
    <3>2. CASE i \in 1 .. Len(due)
      BY <1>7, <2>2, <3>2
    <3>3. CASE i = Len(due) + 1
      BY <1>3, <2>3, <3>3
    <3> QED
      BY <3>1, <3>2, <3>3
  <2> QED
    BY <2>1, <2>4 DEF R
<1>10. Len(due') <= MaxDue
  BY <1>1, <1>7, <1>9, ExchangeAssumption
<1>11. waiting' \in 0 .. 2
  BY <1>1
<1>12. TypeInv'
  BY <1>1, <1>2, <1>8, <1>9, <1>10, <1>11 DEF TypeInv
<1>13. OwedOK' /\ Told'
  BY <1>1 DEF IInv, OwedOK, Told
<1>14. EndOnce'
  <2>1. Len(owed') = 0
    BY <1>1, <1>4 DEF Resting
  <2> QED
    BY <2>1 DEF EndOnce
<1>15. HandledAsSent' /\ ShownAsBuilt' /\ JudgedByText'
  BY <1>1, QuietKeeps
<1>16. Stream' = Stream \o Written(r)
  BY <1>1, <1>6, <1>7, CatAgain DEF Stream
<1>17. InSync'
  <2>1. due = <<>> \/ due = <<Leave>>
    BY <1>4 DEF Resting
  <2>2. ASSUME thread.at = "code" PROVE Stream' = Sent(due')
    <3>1. Stream = Sent(due)
      BY <1>2, <2>2 DEF InSync
    <3>2. Written(Leave) \in Seq(Nat)
      BY LeaveIs, RequestWritten
    <3>3. Sent(Append(due, r)) = Sent(due) \o Written(r)
      BY <1>6, <2>1, <3>2, SentMore
    <3> QED
      BY <1>1, <1>16, <3>1, <3>3
  <2>3. ASSUME thread.at = "parts" PROVE InParts'
    <3>1. InParts
      BY <1>2, <2>3 DEF InSync
    <3>2. due = <<Leave>>
      BY <2>1, <3>1 DEF InParts
    <3>3. Head(due) = Leave /\ Tail(due) = <<>> /\ due' = <<Leave, r>>
      BY <1>1, <3>2, TwoDue
    <3>4. Head(due') = Leave /\ Tail(due') = <<r>> /\ due' # <<>>
      BY <3>3
    <3>5. Len(Leave.values) = 0
      BY LeaveIs
    <3>6. Len(thread.values) = 0 /\ thread.size = NotAsked
      BY <3>1, <3>3, <3>5 DEF InParts
    <3>7. Remains(Leave, 0, thread.size) = <<>>
      BY <3>5, <3>6, NothingRemains
    <3>8. Sent(<<>>) = <<>> /\ Sent(<<r>>) = Written(r)
      BY DEF Sent
    <3>9. Stream = <<>>
      <4>1. Stream = <<>> \o <<>>
        BY <3>1, <3>3, <3>6, <3>7, <3>8 DEF InParts
      <4> QED
        BY <4>1
    <3>10. Stream' = Written(r) /\ <<>> \o Written(r) = Written(r)
      BY <1>6, <1>16, <3>9, ConcatEmptySeq
    <3>11. Stream' = Remains(Leave, 0, thread.size) \o Sent(Tail(due'))
      BY <3>4, <3>7, <3>8, <3>10
    <3> QED
      BY <1>1, <3>1, <3>3, <3>4, <3>6, <3>11 DEF InParts
  <2>4. thread'.at = thread.at /\ thread.at # "question" /\ thread.at # "gone" /\ (thread.at = "code" => thread' = Idle)
    BY <1>1, <1>2, <1>4 DEF Resting, InSync
  <2> QED
    BY <2>2, <2>3, <2>4 DEF InSync
<1>18. Phase'
  <2>1. Requested' = Requested
    BY <1>1 DEF Requested
  <2>2. due' = <<r>> \/ due' = <<Leave, r>>
    <3>1. due = <<>> \/ due = <<Leave>>
      BY <1>4 DEF Resting
    <3>2. CASE due = <<>>
      BY <1>1, <3>2
    <3>3. CASE due = <<Leave>>
      BY <1>1, <3>3, TwoDue
    <3> QED
      BY <3>1, <3>2, <3>3
  <2>3. Ready'
    BY <1>1, <1>4 DEF Resting, Ready
  <2>4. r.code = Answer => clicked' = IF r.values[1] # Digits(5) THEN shown'[Atoi(r.values[1]) + 1] ELSE <<>>
    BY <1>1
  <2>5. owed' = <<>> /\ thread'.at # "question"
    BY <1>1, <1>4 DEF Resting
  <2>6. Asking'
    BY <1>1, <2>1, <2>2, <2>3, <2>4, <2>5, Zenon DEF Asking
  <2> QED
    BY <2>6 DEF Phase
<1>19. page' = "game" => {shown'[i] : i \in 2 .. 5} = Letters4
  BY <1>1 DEF IInv
<1> QED
  BY <1>12, <1>13, <1>14, <1>15, <1>17, <1>18, <1>19 DEF IInv

\* A step that reads no reply shows none that is wrong.
LEMMA ReadNothing ==
  ASSUME IInv, read' = Nothing, page' = page, shown' = shown, ~ off' => ~ off
  PROVE  ShownAsBuilt' /\ JudgedByText'
<1>1. Nothing.meant = Nothing.got /\ Nothing.meant.code = 0 /\ TrueFalse # 0
  BY DEF Nothing, Message, TrueFalse
<1>2. ShownAsBuilt'
  BY <1>1 DEF ShownAsBuilt, IInv
<1>3. JudgedByText'
  BY <1>1 DEF JudgedByText, IInv
<1> QED
  BY <1>2, <1>3

\* The requests behind the first one
LEMMA DueTail ==
  ASSUME TypeInv, due # <<>>
  PROVE  /\ Tail(due) \in Seq([code : Requests, values : Seq(Seq(Nat))])
         /\ Len(Tail(due)) <= MaxDue
         /\ \A i \in 1 .. Len(Tail(due)) : Asked(Tail(due)[i])
<1> DEFINE R == [code : Requests, values : Seq(Seq(Nat))]
<1> HIDE DEF R
<1>1. due \in Seq(R) /\ Len(due) \in Nat /\ Len(due) <= MaxDue /\ \A i \in 1 .. Len(due) : Asked(due[i])
  BY LenProperties DEF TypeInv, R
<1>2. Tail(due) \in Seq(R)
  BY <1>1, HeadTailProperties
<1>3. Len(Tail(due)) = Len(due) - 1
  BY <1>1, HeadTailProperties
<1>4. \A i \in 1 .. Len(Tail(due)) : Tail(due)[i] = due[i + 1]
  BY <1>1, HeadTailProperties
<1>5. ASSUME NEW i \in 1 .. Len(Tail(due)) PROVE Asked(Tail(due)[i])
  <2>1. i + 1 \in 1 .. Len(due)
    BY <1>1, <1>3
  <2> QED
    BY <1>1, <1>4, <2>1
<1>6. Len(Tail(due)) <= MaxDue
  BY <1>1, <1>3, ExchangeAssumption
<1> QED
  BY <1>2, <1>5, <1>6 DEF R

\* A request that is handled leaves the queue.
LEMMA HandleType ==
  ASSUME IInv, Handle
  PROVE  TypeInv'
<1>1. /\ due # <<>> /\ due' = Tail(due)
      /\ thread' = [Idle EXCEPT !.at = "gone"] \/ thread' = [Idle EXCEPT !.at = "question"] \/ thread' = Idle
      /\ drawn' = <<>> \/ drawn' = drawn
      /\ UNCHANGED <<page, waiting, shown, travelling, arrived, off>>
  BY DEF Handle, client
<1>2. TypeInv
  BY DEF IInv
<1>3. thread' \in [at : {"code", "parts", "question", "gone"}, code : Requests \cup {0},
                  values : Seq(Seq(Nat)), size : Nat \cup {NotAsked}] /\ thread'.at # "parts"
  <2> DEFINE x(a) == [at |-> a, code |-> 0, values |-> <<>>, size |-> NotAsked]
  <2>1. thread' = x("gone") \/ thread' = x("question") \/ thread' = x("code")
    BY <1>1 DEF Idle
  <2>2. <<>> \in Seq(Seq(Nat))
    OBVIOUS
  <2>3. CASE thread' = x("gone")
    BY <2>2, <2>3
  <2>4. CASE thread' = x("question")
    BY <2>2, <2>4
  <2>5. CASE thread' = x("code")
    BY <2>2, <2>5
  <2> QED
    BY <2>1, <2>3, <2>4, <2>5
<1>4. drawn' \in Seq(0 .. 3) /\ IsInjective(drawn')
  <2>1. CASE drawn' = <<>>
    BY <2>1 DEF IsInjective
  <2>2. CASE drawn' = drawn
    BY <1>2, <2>2 DEF TypeInv
  <2> QED
    BY <1>1, <2>1, <2>2
<1>5. due' \in Seq([code : Requests, values : Seq(Seq(Nat))])
      /\ Len(due') <= MaxDue
      /\ \A i \in 1 .. Len(due') : Asked(due'[i])
  BY <1>1, <1>2, DueTail
<1> QED
  BY <1>1, <1>2, <1>3, <1>4, <1>5 DEF TypeInv

\* What the thread handles when everything was in its place
LEMMA HandledIs ==
  ASSUME IInv, Handle, ~ off
  PROVE  /\ due # <<>> /\ due' = Tail(due)
         /\ Asked(Head(due)) /\ thread.code = Head(due).code
         /\ FitsAll(Read(Head(due).code), Head(due).values)
         /\ thread.values = Padded(Read(Head(due).code), Head(due).values, Len(Head(due).values))
         /\ Stream' = Sent(due')
         /\ HandledAsSent'
<1> DEFINE r == Head(due)
           F == Read(r.code)
           v == r.values
           i == Len(thread.values)
<1>1. /\ due # <<>> /\ due' = Tail(due) /\ thread.at = "parts"
      /\ Len(thread.values) = Len(Read(thread.code).head)
      /\ handled' = [meant |-> Meaning(F, r),
                     got |-> Meaning(Read(thread.code), Message(thread.code, thread.values))]
      /\ UNCHANGED <<arrived, travelling>>
  BY DEF Handle
<1>2. TypeInv /\ Phase /\ InParts
  BY <1>1 DEF IInv, InSync
<1>3. Asked(r) /\ Sent(Tail(due)) \in Seq(Nat)
  BY <1>1, <1>2, DueSent
<1>4. thread.code = r.code /\ Fits(F, r)
      /\ thread.values = Padded(F, v, i)
      /\ (thread.size = NotAsked \/ i < Len(v))
      /\ Stream = Remains(r, i, thread.size) \o Sent(Tail(due))
  BY <1>2 DEF InParts
<1>5. i = Len(v) /\ Len(v) \in Nat /\ v \in Seq(Seq(Nat)) /\ r = Message(r.code, v)
  BY <1>1, <1>3, <1>4, LenProperties DEF Asked
<1>6. FitsAll(F, v)
  BY <1>3, <1>4, RequestFits
<1> HIDE DEF r, F, v, i
<1>7. thread.size = NotAsked
  BY <1>4, <1>5
<1>8. Remains(r, i, thread.size) = <<>>
  <2>1. PutLast(F, v, 0) = <<>>
    BY <1>5, PutStep
  <2>2. Len(v) - i = 0
    BY <1>5
  <2> QED
    BY <1>7, <2>1, <2>2 DEF Remains, F, v
<1>9. Stream = Sent(Tail(due))
  BY <1>3, <1>4, <1>8, ConcatEmptySeq
<1>10. Stream' = Sent(due')
  BY <1>1, <1>9 DEF Stream
<1>11. thread.values = Padded(F, v, Len(v))
  BY <1>4, <1>5
<1>12. Meaning(F, [code |-> r.code, values |-> v])
         = Meaning(F, [code |-> r.code, values |-> Padded(F, v, Len(v))])
  BY <1>6, MeaningKept
<1>13. r = [code |-> r.code, values |-> v]
       /\ Message(thread.code, thread.values) = [code |-> r.code, values |-> Padded(F, v, Len(v))]
  BY <1>4, <1>5, <1>11 DEF Message
<1>14. Read(thread.code) = F
  BY <1>4 DEF F
<1>15. handled'.meant = handled'.got
  BY <1>1, <1>12, <1>13, <1>14
<1> QED
  BY <1>1, <1>3, <1>4, <1>6, <1>10, <1>11, <1>15 DEF HandledAsSent, r, F, v

\* A thread that was led astray ends.
LEMMA HandleOff ==
  ASSUME IInv, Handle, off
  PROVE  IInv'
<1>1. /\ off' /\ due # <<>> /\ thread' = [Idle EXCEPT !.at = "gone"]
      /\ read' = Nothing /\ UNCHANGED <<page, shown, down, owed>> /\ off' = off
  BY DEF Handle, client
<1>2. TypeInv'
  BY HandleType
<1>3. OwedOK' /\ Told'
  BY <1>1 DEF IInv, OwedOK, Told
<1>4. EndOnce'
  <2>1. ASSUME NEW i \in 1 .. Len(owed) PROVE owed[i].code # EndGame
    BY <1>1 DEF IInv, EndOnce
  <2> QED
    BY <1>1, <2>1 DEF EndOnce
<1>5. HandledAsSent'
  BY <1>1 DEF HandledAsSent
<1>6. ShownAsBuilt' /\ JudgedByText'
  BY <1>1, ReadNothing
<1> QED
  BY <1>1, <1>2, <1>3, <1>4, <1>5, <1>6 DEF IInv

\* The page that was clicked on and the thread agree.
LEMMA JudgedRight ==
  ASSUME Perm(drawn), shown = Texts(drawn), NEW b \in 1 .. 5,
         clicked = IF Digits(b) # Digits(5) THEN shown[b + 1] ELSE <<>>
  PROVE  Judge(b) <=> clicked = AnswerText(1)
<1>1. drawn \in [1 .. 4 -> 0 .. 3] /\ \A i, j \in 1 .. 4 : drawn[i] = drawn[j] => i = j
  BY PermIs
<1>2. ASSUME NEW j \in 1 .. 4 PROVE Len(AnswerText(j)) = j
  BY LettersAre DEF AnswerText
<1>3. CASE b = 5
  <2>1. clicked = <<>>
    BY <1>3
  <2>2. Len(AnswerText(1)) = 1
    BY <1>2
  <2>3. clicked # AnswerText(1)
    <3>1. PICK t : t = AnswerText(1)
      OBVIOUS
    <3>2. Len(t) = 1
      BY <2>2, <3>1
    <3>3. t # <<>>
      BY <3>2
    <3> QED
      BY <2>1, <3>1, <3>3
  <2>4. drawn[1] \in 0 .. 3
    BY <1>1
  <2>5. ~ Judge(b)
    BY <1>3, <2>4 DEF Judge
  <2> QED
    BY <2>3, <2>5
<1>4. CASE b # 5
  <2>1. b \in 1 .. 4
    BY <1>4
  <2>2. Digits(b) # Digits(5)
    <3>1. Digits(b) = <<b>>
      <4>1. b \in 0 .. 9
        OBVIOUS
      <4> QED
        BY <4>1, DigitIs
    <3>2. Digits(5) = <<5>>
      BY DigitIs
    <3>3. <<b>>[1] # <<5>>[1]
      BY <1>4
    <3> QED
      BY <3>1, <3>2, <3>3
  <2>3. PICK j \in 1 .. 4 : drawn[j] = b - 1 /\ Texts(drawn)[b + 1] = AnswerText(j)
    BY <2>1, TextsAre
  <2>4. clicked = AnswerText(j)
    BY <2>2, <2>3
  <2>5. AnswerText(j) = AnswerText(1) <=> j = 1
    <3>1. Len(AnswerText(j)) = j
      BY <1>2
    <3>2. Len(AnswerText(1)) = 1
      BY <1>2
    <3>3. j = 1 => AnswerText(j) = AnswerText(1)
      OBVIOUS
    <3>4. AnswerText(j) = AnswerText(1) => j = 1
      BY <3>1, <3>2, Zenon
    <3> QED
      BY <3>3, <3>4
  <2>6. j = 1 <=> drawn[1] = b - 1
    BY <1>1, <2>3
  <2>7. drawn[1] = b - 1 <=> b = drawn[1] + 1
    BY <1>1
  <2> QED
    BY <2>4, <2>5, <2>6, <2>7 DEF Judge
<1> QED
  BY <1>3, <1>4

\* What the client waits for after it asked for r
Waits(r) ==
  /\ waiting = IF r.code = Answer THEN 2 ELSE 1
  /\ r.code = Answer => clicked = IF r.values[1] # Digits(5) THEN shown[Atoi(r.values[1]) + 1] ELSE <<>>

\* The request that is handled is the one the client waits for, or one to leave.
LEMMA DueCases ==
  ASSUME Phase, due # <<>>
  PROVE  /\ owed = <<>> /\ Ready
         /\ \/ due = <<Leave>> /\ waiting = 0
            \/ \E r \in Requested : due = <<Leave, r>> /\ Waits(r)
            \/ \E r \in Requested : due = <<r>> /\ Waits(r)
<1>1. CASE Resting
  BY <1>1 DEF Resting
<1>2. CASE Asking
  BY <1>2, Zenon DEF Asking, Waits
<1>3. CASE Drawing
  BY <1>3 DEF Drawing
<1>4. CASE Answered
  BY <1>4 DEF Answered
<1> QED
  BY <1>1, <1>2, <1>3, <1>4 DEF Phase

\* Nothing was on its way when the replies were sent.
LEMMA FirstReplies ==
  ASSUME OwedOK, owed = <<>>, NEW c, NEW s, RepliesAre(c, s), c = StartGame => Perm(drawn),
         owed' = owed \o s
  PROVE  /\ OwedOK' /\ Len(owed') = Len(s) /\ Len(s) \in 0 .. 2
         /\ \A i \in 1 .. Len(s) : owed'[i] = s[i]
<1>1. Len(owed) = 0
  OBVIOUS
<1>2. OwedOK' /\ Len(owed') = Len(owed) + Len(s) /\ Len(s) \in 0 .. 2
      /\ \A i \in 1 .. Len(s) : owed'[Len(owed) + i] = s[i]
  BY ReplyKeeps
<1>3. ASSUME NEW i \in 1 .. Len(s) PROVE owed'[i] = s[i]
  <2>1. Len(owed) + i = i
    BY <1>1, <1>2
  <2> QED
    BY <1>2, <2>1
<1> QED
  BY <1>1, <1>2, <1>3

\* Nobody waits for an answer to a request to leave.
LEMMA HandleLeave ==
  ASSUME IInv, Handle, ~ off, Head(due) = Leave
  PROVE  /\ owed' = <<>> /\ thread' = Idle /\ drawn' = drawn /\ Phase' /\ OwedOK' /\ Told'
<1>1. /\ due # <<>> /\ due' = Tail(due) /\ thread.code = LeaveGame
  BY HandledIs, LeaveIs
<1>2. Phase /\ OwedOK
  BY DEF IInv
<1>3. owed = <<>> /\ Ready
  BY <1>1, <1>2, DueCases
<1>4. LeaveGame # CreateRoom /\ LeaveGame # Answer /\ LeaveGame # StartGame
  BY RequestCodes DEF CreateRoom, LeaveGame
<1> DEFINE m == Message(thread.code, thread.values)
<1>5. /\ Reply(m) /\ thread' = Idle /\ drawn' = drawn
      /\ UNCHANGED <<page, waiting, shown, clicked>>
  BY <1>1, <1>4 DEF Handle, client
<1>6. m.code = LeaveGame
  BY <1>1 DEF Message
<1> HIDE DEF m
<1>7. PICK s \in Replies(m) :
        owed' = owed \o s /\ down' = down \o ReplyTexts(s)
  BY <1>5 DEF Reply
<1>8. RepliesAre(LeaveGame, s)
  BY <1>4, <1>6, RepliesFitGame
<1>9. OwedOK' /\ Len(owed') = Len(s)
  BY <1>2, <1>3, <1>4, <1>7, <1>8, FirstReplies
<1>10. owed' = <<>>
  <2>1. Len(owed') = 0 /\ owed' \in Seq(Msg)
    BY <1>8, <1>9 DEF RepliesAre, OwedOK
  <2> QED
    BY <2>1, EmptySeq
<1>11. Ready'
  BY <1>3, <1>5 DEF Ready
<1>12. thread'.at # "question"
  BY <1>5 DEF Idle
<1>13. Phase'
  <2>0. \/ due = <<Leave>> /\ waiting = 0
        \/ \E r \in Requested : due = <<Leave, r>> /\ Waits(r)
        \/ \E r \in Requested : due = <<r>> /\ Waits(r)
    BY <1>1, <1>2, DueCases
  <2>1. CASE due = <<Leave>> /\ waiting = 0
    <3>1. due' = <<>>
      BY <1>1, <2>1, TwoDue
    <3>2. Resting'
      BY <1>5, <1>10, <1>11, <1>12, <2>1, <3>1 DEF Resting
    <3> QED
      BY <3>2 DEF Phase
  <2>2. CASE \E r \in Requested : due = <<Leave, r>> /\ Waits(r)
    <3>1. PICK r \in Requested : due = <<Leave, r>> /\ Waits(r)
      BY <2>2
    <3>2. due' = <<r>>
      BY <1>1, <3>1
    <3>3. r \in Requested'
      <4>1. Requested' = Requested
        BY <1>5 DEF Requested
      <4> QED
        BY <4>1
    <3>4. /\ waiting' = IF r.code = Answer THEN 2 ELSE 1
          /\ r.code = Answer => clicked' = IF r.values[1] # Digits(5) THEN shown'[Atoi(r.values[1]) + 1] ELSE <<>>
      BY <1>5, <3>1 DEF Waits
    <3>5. Asking'
      BY <1>10, <1>11, <1>12, <3>2, <3>3, <3>4, Zenon DEF Asking
    <3> QED
      BY <3>5 DEF Phase
  <2>3. CASE \E r \in Requested : due = <<r>> /\ Waits(r)
    <3>1. PICK r \in Requested : due = <<r>> /\ Waits(r)
      BY <2>3
    <3>2. r = Leave
      BY <3>1
    <3>3. page \in Pages
      BY DEF IInv, TypeInv
    <3>4. page # "error" /\ r.code # LeaveGame
      <4>1. /\ page # "error"
            /\ page = "menu" => r.code \notin {StartGame, Answer, LeaveGame, AllRoomUsers}
            /\ page = "room" => r.code = StartGame
            /\ page = "game" => r.code = Answer
        BY <3>3, RequestedIs
      <4> QED
        BY <1>4, <3>3, <4>1 DEF Pages
    <3> QED
      BY <3>2, <3>4, LeaveIs
  <2> QED
    BY <2>0, <2>1, <2>2, <2>3
<1>14. Told'
  BY <1>3, <1>7, <1>8, ToldFirst DEF IInv
<1> QED
  BY <1>5, <1>9, <1>10, <1>13, <1>14

\* A room is answered when its questions are made.
LEMMA HandleCreate ==
  ASSUME IInv, Handle, ~ off, thread.code = CreateRoom
  PROVE  /\ thread' = [Idle EXCEPT !.at = "question"] /\ UNCHANGED <<down, owed>> /\ due' = <<>> /\ Drawing'
         /\ Stream' = <<>>
<1>1. /\ due # <<>> /\ due' = Tail(due) /\ Head(due).code = CreateRoom /\ Stream' = Sent(due')
  BY HandledIs
<1>2. Phase /\ page \in Pages
  BY DEF IInv, TypeInv
<1>3. /\ thread' = [Idle EXCEPT !.at = "question"]
      /\ UNCHANGED <<page, waiting, down, owed>>
  BY DEF Handle, client
<1>4. owed = <<>>
  BY <1>1, <1>2, DueCases
<1>5. CreateRoom # LeaveGame /\ CreateRoom # Answer /\ CreateRoom # StartGame
  BY RequestCodes DEF CreateRoom, LeaveGame
<1>6. PICK r \in Requested : due = <<r>> /\ Waits(r)
  <2>1. \/ due = <<Leave>> /\ waiting = 0
        \/ \E r \in Requested : due = <<Leave, r>> /\ Waits(r)
        \/ \E r \in Requested : due = <<r>> /\ Waits(r)
    BY <1>1, <1>2, DueCases
  <2>2. Head(due) # Leave
    BY <1>1, <1>5, LeaveIs
  <2>3. \A r : Head(<<Leave, r>>) = Leave /\ Head(<<Leave>>) = Leave
    OBVIOUS
  <2> QED
    BY <2>1, <2>2, <2>3
<1>7. Head(due) = r /\ Tail(due) = <<>>
  BY <1>6, TwoDue
<1>8. r.code = CreateRoom /\ due' = <<>> /\ waiting = 1
  BY <1>1, <1>5, <1>6, <1>7 DEF Waits
<1>9. page = "menu"
  <2>1. /\ page # "error"
        /\ page = "room" => r.code = StartGame
        /\ page = "game" => r.code = Answer
    BY <1>2, RequestedIs
  <2> QED
    BY <1>2, <1>5, <1>8, <2>1 DEF Pages
<1>10. thread'.at = "question"
  BY <1>3 DEF Idle
<1>11. Drawing'
  BY <1>3, <1>4, <1>8, <1>9, <1>10 DEF Drawing
<1>12. Stream' = <<>>
  <2>1. Sent(<<>>) = <<>>
    BY DEF Sent
  <2> QED
    BY <1>1, <1>8, <2>1
<1> QED
  BY <1>3, <1>8, <1>11, <1>12

\* The codes of a request whose thread sends one reply that is no part of a game
PlainCodes == {SignIn, SignUp, ForgotPassword, AllRoomsList, BestScores, PersonalState}

\* Each code is of one kind.
LEMMA CodesAre ==
  /\ \A c \in PlainCodes : c \notin {LeaveGame, Answer, JoinRoom, CreateRoom, StartGame}
  /\ \A c \in Requests : \/ c \in PlainCodes
                         \/ c \in {LeaveGame, Answer, JoinRoom, CreateRoom, StartGame, AllRoomUsers}
  /\ JoinRoom \notin {StartGame, LeaveGame, Answer, CreateRoom}
  /\ StartGame \notin {LeaveGame, Answer, CreateRoom}
  /\ Answer \notin {LeaveGame, CreateRoom}
  /\ CreateRoom # LeaveGame
BY DEF PlainCodes, Requests, SignIn, ForgotPassword, SignUp, AllRoomsList, AllRoomUsers, JoinRoom, CreateRoom,
       StartGame, Answer, LeaveGame, BestScores, PersonalState

\* The request that the client waits for
LEMMA AskedFor ==
  ASSUME IInv, Handle, ~ off, Head(due) # Leave
  PROVE  /\ owed = <<>> /\ Ready /\ due' = <<>> /\ Stream' = <<>>
         /\ \E r \in Requested :
              /\ r = Head(due) /\ Waits(r) /\ thread.code = r.code
              /\ r.code # LeaveGame /\ r.code # AllRoomUsers
              /\ page = "menu" => r.code \notin {StartGame, Answer}
              /\ page = "room" => r.code = StartGame
              /\ page = "game" => r.code = Answer /\ \E b \in 1 .. 5 : r.values[1] = Digits(b)
              /\ page \in {"menu", "room", "game"}
<1>1. /\ due # <<>> /\ due' = Tail(due) /\ thread.code = Head(due).code /\ Stream' = Sent(due')
  BY HandledIs
<1>2. Phase /\ page \in Pages
  BY DEF IInv, TypeInv
<1>4. owed = <<>> /\ Ready
  BY <1>1, <1>2, DueCases
<1>6. PICK r \in Requested : due = <<r>> /\ Waits(r)
  <2>1. \/ due = <<Leave>> /\ waiting = 0
        \/ \E r \in Requested : due = <<Leave, r>> /\ Waits(r)
        \/ \E r \in Requested : due = <<r>> /\ Waits(r)
    BY <1>1, <1>2, DueCases
  <2>3. \A r : Head(<<Leave, r>>) = Leave /\ Head(<<Leave>>) = Leave
    OBVIOUS
  <2> QED
    BY <2>1, <2>3
<1>7. Head(due) = r /\ Tail(due) = <<>>
  BY <1>6, TwoDue
<1>8. page # "error"
  BY <1>2, RequestedIs
<1>9. page = "menu" => r.code \notin {StartGame, Answer, LeaveGame, AllRoomUsers}
  BY <1>2, RequestedIs
<1>10. page = "room" => r.code = StartGame
  BY <1>2, RequestedIs
<1>11. page = "game" => r.code = Answer /\ \E b \in 1 .. 5 : r.values[1] = Digits(b)
  BY <1>2, RequestedIs
<1>12. page \in {"menu", "room", "game"}
  BY <1>2, <1>8 DEF Pages
<1>13. r.code # LeaveGame /\ r.code # AllRoomUsers
  BY <1>9, <1>10, <1>11, <1>12 DEF StartGame, Answer, LeaveGame, AllRoomUsers
<1>14. Stream' = <<>>
  <2>1. Sent(<<>>) = <<>>
    BY DEF Sent
  <2> QED
    BY <1>1, <1>7, <2>1
<1> QED
  BY <1>1, <1>4, <1>6, <1>7, <1>9, <1>10, <1>11, <1>12, <1>13, <1>14, Zenon

\* The answer that came is the button that was clicked.
LEMMA AnswerCame ==
  ASSUME NEW r, Asked(r), r.code = Answer, NEW b \in 1 .. 5, r.values[1] = Digits(b),
         NEW v, v = Padded(Read(r.code), r.values, Len(r.values))
  PROVE  Atoi(r.values[1]) = b /\ Atoi(v[1]) = b
<1>1. Read(r.code).head = <<N(1), N(2)>> /\ Len(<<N(1), N(2)>>) = 2 /\ <<N(1), N(2)>>[1] = N(1)
  BY ReadHeads
<1>2. r.code \in Requests /\ Len(r.values) = 2
  BY <1>1 DEF Asked
<1>3. Read(r.code).item = <<>>
  BY <1>2, ReadFields
<1>4. FieldAt(Read(r.code), 1) = N(1)
  BY <1>1, <1>3 DEF FieldAt
<1>5. v[1] = PadLeft(Digits(b), 1)
  <2>1. v[1] = Received(FieldAt(Read(r.code), 1), r.values[1])
    BY <1>2 DEF Padded
  <2>2. ~ N(1).sized /\ N(1).w = 1
    BY DEF N
  <2> QED
    BY <1>4, <2>1, <2>2 DEF Received
<1>6. b \in Small
  <2>1. b \in 0 .. 9
    OBVIOUS
  <2> QED
    BY <2>1, DigitIs
<1>7. Digits(b) \in Seq(Digit)
  BY <1>6, DigitsText
<1>8. Atoi(Digits(b)) = b
  BY <1>6, AtoiDigits
<1>9. Atoi(PadLeft(Digits(b), 1)) = Atoi(Digits(b))
  BY <1>7, AtoiPad
<1> QED
  BY <1>5, <1>8, <1>9

\* Any other request is answered at once, by what its handler sends.
LEMMA HandleAsked ==
  ASSUME IInv, Handle, ~ off, Head(due) # Leave, thread.code # CreateRoom
  PROVE  /\ due' = <<>> /\ thread' = Idle /\ Stream' = <<>>
         /\ OwedOK' /\ Answered' /\ Told'
         /\ \A i, j \in 1 .. Len(owed') :
              owed'[i].code = EndGame /\ owed'[j].code = EndGame => i = j
<1>1. owed = <<>> /\ Ready /\ due' = <<>> /\ Stream' = <<>>
  BY AskedFor
<1>2. PICK r \in Requested :
        /\ r = Head(due) /\ Waits(r) /\ thread.code = r.code
        /\ r.code # LeaveGame /\ r.code # AllRoomUsers
        /\ page = "menu" => r.code \notin {StartGame, Answer}
        /\ page = "room" => r.code = StartGame
        /\ page = "game" => r.code = Answer /\ \E b \in 1 .. 5 : r.values[1] = Digits(b)
        /\ page \in {"menu", "room", "game"}
  BY AskedFor
<1>3. /\ due # <<>> /\ Asked(r) /\ thread.values = Padded(Read(r.code), r.values, Len(r.values))
  BY <1>2, HandledIs
<1>4. Phase /\ OwedOK
  BY DEF IInv
<1>5. r.code \in Requests /\ r.code # CreateRoom
  BY <1>2, <1>3 DEF Asked
<1> DEFINE m == Message(thread.code, thread.values)
<1>6. /\ Reply(m) /\ thread' = Idle /\ drawn' = IF r.code = Answer THEN <<>> ELSE drawn
      /\ UNCHANGED <<page, waiting, shown, clicked>>
  BY <1>2 DEF Handle, client
<1>7. m.code = r.code /\ m.values = thread.values
  BY <1>2 DEF Message
<1> HIDE DEF m
<1>8. PICK s \in Replies(m) :
        owed' = owed \o s /\ down' = down \o ReplyTexts(s)
  BY <1>6 DEF Reply
<1>9. r.code = StartGame => Perm(drawn) /\ page = "room"
  <2>1. r.code = StartGame => page = "room"
    BY <1>2, CodesAre
  <2> QED
    BY <1>1, <2>1 DEF Ready
<1>10. r.code = Answer => page = "game"
  BY <1>2, CodesAre
<1>11. r.code \in PlainCodes \/ r.code \in {JoinRoom, StartGame, Answer}
  BY <1>2, <1>5, CodesAre
<1>12. RepliesAre(r.code, s)
  <2>1. CASE r.code \in PlainCodes
    <3>1. m.code \in {SignIn, SignUp, ForgotPassword, AllRoomsList, CreateRoom, BestScores, PersonalState}
      BY <1>7, <2>1 DEF PlainCodes
    <3> QED
      BY <1>7, <3>1, RepliesFitMenu
  <2>2. CASE r.code \in {JoinRoom, StartGame, Answer}
    <3>1. m.code \in {JoinRoom, StartGame, Answer, LeaveGame} /\ (m.code = StartGame => Perm(drawn))
      BY <1>7, <1>9, <2>2
    <3> QED
      BY <1>7, <3>1, RepliesFitGame
  <2> QED
    BY <1>11, <2>1, <2>2
<1>13. OwedOK' /\ Len(owed') = Len(s) /\ \A i \in 1 .. Len(s) : owed'[i] = s[i]
  BY <1>1, <1>4, <1>8, <1>9, <1>12, FirstReplies
<1>14. \A i, j \in 1 .. Len(owed') :
         owed'[i].code = EndGame /\ owed'[j].code = EndGame => i = j
  <2>1. \A i \in 1 .. Len(s) : s[i].code = EndGame => i = 2
    BY <1>12 DEF RepliesAre
  <2> QED
    BY <1>13, <2>1
<1>15. due' = <<>> /\ thread'.at = "code"
  BY <1>1, <1>6 DEF Idle
<1>20. Told'
  BY <1>1, <1>8, <1>12, ToldFirst DEF IInv
<1>16. CASE r.code \in PlainCodes
  <2>0. r.code \notin {LeaveGame, Answer, JoinRoom, CreateRoom, StartGame}
    BY <1>16, CodesAre
  <2>1. Len(s) = 1 /\ s[1].code \notin {TrueFalse, EndGame, Joined, Created, Question}
    <3>1. Len(s) = 1
      BY <1>12, <2>0 DEF RepliesAre
    <3>2. 1 \in 1 .. Len(s)
      BY <3>1
    <3> QED
      BY <1>12, <2>0, <3>1, <3>2 DEF RepliesAre
  <2>2. Len(owed') = 1 /\ owed'[1] = s[1]
    BY <1>13, <2>1
  <2>3. page' = "menu" /\ waiting' = 1
    BY <1>2, <1>6, <2>0 DEF Waits
  <2> QED
    BY <1>1, <1>6, <1>13, <1>14, <1>15, <1>20, <2>1, <2>2, <2>3 DEF Answered
<1>17. CASE r.code = StartGame
  <2>0. StartGame \notin {LeaveGame, Answer, JoinRoom, CreateRoom}
    BY CodesAre
  <2>1. Len(s) = 1 /\ s[1].code \notin {TrueFalse, EndGame, Joined, Created}
        /\ (s[1].code = Question => s[1] = QuestionMessage)
    <3>1. Len(s) = 1
      BY <1>12, <1>17, <2>0 DEF RepliesAre
    <3>2. 1 \in 1 .. Len(s)
      BY <3>1
    <3> QED
      BY <1>12, <1>17, <2>0, <3>1, <3>2 DEF RepliesAre
  <2>2. Len(owed') = 1 /\ owed'[1] = s[1]
    BY <1>13, <2>1
  <2>3. page' = "room" /\ waiting' = 1 /\ drawn' = drawn /\ Perm(drawn)
    BY <1>2, <1>6, <1>9, <1>17, <2>0 DEF Waits
  <2>4. QuestionMessage = Message(Question, Texts(drawn))
    BY DEF QuestionMessage, Texts
  <2> QED
    BY <1>1, <1>6, <1>13, <1>14, <1>15, <1>20, <2>1, <2>2, <2>3, <2>4 DEF Answered
<1>18. CASE r.code = JoinRoom
  <2>0. JoinRoom \notin {LeaveGame, Answer, StartGame, CreateRoom}
    BY CodesAre
  <2>1. page' = "menu" /\ waiting' = 1
    BY <1>2, <1>6, <1>18, <2>0 DEF Waits
  <2>2. \/ Len(s) = 1 /\ s[1].code = Joined /\ s[1].values[1] \in {Digits(1), Digits(2)}
        \/ Len(s) = 2 /\ s[1].code = Joined /\ s[1].values[1] = Digits(0) /\ s[2].code = RoomUsers
    BY <1>12, <1>18 DEF RepliesAre
  <2>5. Len(s[1].values) # 0
    <3>1. 1 \in 1 .. Len(s) /\ s[1].code = Joined
      BY <2>2
    <3> QED
      BY <1>12, <3>1 DEF RepliesAre
  <2>3. CASE Len(s) = 1 /\ s[1].code = Joined /\ s[1].values[1] \in {Digits(1), Digits(2)}
    <3>1. Len(owed') = 1 /\ owed'[1] = s[1]
      BY <1>13, <2>3
    <3>2. Joined \notin {TrueFalse, EndGame, Created, Question}
      BY CodesDiffer
    <3> QED
      BY <1>1, <1>6, <1>13, <1>14, <1>15, <1>20, <2>1, <2>3, <2>5, <3>1, <3>2 DEF Answered
  <2>4. CASE Len(s) = 2 /\ s[1].code = Joined /\ s[1].values[1] = Digits(0) /\ s[2].code = RoomUsers
    <3>1. Len(owed') = 2 /\ owed'[1] = s[1] /\ owed'[2] = s[2]
      BY <1>13, <2>4
    <3> QED
      BY <1>1, <1>6, <1>13, <1>14, <1>15, <1>20, <2>1, <2>4, <2>5, <3>1 DEF Answered
  <2> QED
    BY <2>2, <2>3, <2>4
<1>19. CASE r.code = Answer
  <2>1. page = "game" /\ page' = "game" /\ waiting' = 2 /\ Perm(drawn) /\ shown = Texts(drawn)
    BY <1>1, <1>2, <1>6, <1>10, <1>19 DEF Waits, Ready
  <2>2. PICK b \in 1 .. 5 : r.values[1] = Digits(b)
    BY <1>2, <2>1
  <2>3. Atoi(r.values[1]) = b /\ Atoi(m.values[1]) = b
    BY <1>3, <1>7, <1>19, <2>2, AnswerCame
  <2>4. clicked = IF Digits(b) # Digits(5) THEN shown[b + 1] ELSE <<>>
    BY <1>2, <1>19, <2>2, <2>3 DEF Waits
  <2>5. Judge(b) <=> clicked = AnswerText(1)
    BY <2>1, <2>4, JudgedRight
  <2>6. s[1].values[1] = Digits(1) <=> Judge(Atoi(m.values[1]))
    <3>1. m.code \in {JoinRoom, StartGame, Answer, LeaveGame} /\ (m.code = StartGame => Perm(drawn)) /\ m.code = Answer
      BY <1>7, <1>9, <1>19
    <3> QED
      BY <3>1, RepliesFitGame
  <2>7. s[1].values[1] = Digits(1) <=> clicked' = AnswerText(1)
    BY <1>6, <2>3, <2>5, <2>6
  <2>8. Len(s) = 2 /\ s[1].code = TrueFalse /\ s[2].code = EndGame
    BY <1>12, <1>19 DEF RepliesAre
  <2>9. Len(owed') = 2 /\ owed'[1] = s[1] /\ owed'[2] = s[2]
    BY <1>13, <2>8
  <2> QED
    BY <1>1, <1>6, <1>13, <1>14, <1>15, <1>20, <2>1, <2>7, <2>8, <2>9 DEF Answered
<1> QED
  BY <1>1, <1>6, <1>11, <1>13, <1>14, <1>16, <1>17, <1>18, <1>19, <1>20

\* In each case the invariant is kept.
LEMMA HandleKeeps ==
  ASSUME IInv, Handle
  PROVE  IInv'
<1>1. SUFFICES ASSUME ~ off PROVE IInv'
  BY HandleOff
<1>2. TypeInv'
  BY HandleType
<1>3. HandledAsSent' /\ Stream' = Sent(due')
  BY <1>1, HandledIs
<1>4. read' = Nothing /\ UNCHANGED <<page, shown, off>>
  BY DEF Handle, client
<1>5. ShownAsBuilt' /\ JudgedByText'
  BY <1>4, ReadNothing
<1>6. page' = "game" => {shown'[i] : i \in 2 .. 5} = Letters4
  BY <1>1, <1>4 DEF IInv
<1>7. OwedOK /\ EndOnce
  BY DEF IInv
<1>8. CASE Head(due) = Leave
  <2>1. owed' = <<>> /\ thread' = Idle /\ Phase' /\ OwedOK' /\ Told'
    BY <1>1, <1>8, HandleLeave
  <2>2. EndOnce'
    <3>1. Len(owed') = 0
      BY <2>1
    <3> QED
      BY <3>1 DEF EndOnce
  <2>3. InSync'
    BY <1>3, <2>1 DEF InSync, Idle
  <2> QED
    BY <1>2, <1>3, <1>5, <1>6, <2>1, <2>2, <2>3 DEF IInv
<1>9. CASE Head(due) # Leave /\ thread.code = CreateRoom
  <2>1. thread' = [Idle EXCEPT !.at = "question"] /\ UNCHANGED <<down, owed>> /\ due' = <<>> /\ Drawing' /\ Stream' = <<>>
    BY <1>1, <1>9, HandleCreate
  <2>2. OwedOK' /\ Told'
    BY <1>1, <1>4, <1>7, <2>1 DEF OwedOK, IInv, Told
  <2>3. owed' = <<>>
    BY <2>1 DEF Drawing
  <2>4. EndOnce'
    <3>1. Len(owed') = 0
      BY <2>3
    <3> QED
      BY <3>1 DEF EndOnce
  <2>5. thread'.at = "question"
    BY <2>1 DEF Idle
  <2>6. InSync'
    BY <2>1, <2>5 DEF InSync
  <2>7. Phase'
    BY <2>1 DEF Phase
  <2> QED
    BY <1>2, <1>3, <1>5, <1>6, <2>2, <2>4, <2>6, <2>7 DEF IInv
<1>10. CASE Head(due) # Leave /\ thread.code # CreateRoom
  <2>1. due' = <<>> /\ thread' = Idle /\ OwedOK' /\ Answered' /\ Told'
        /\ \A i, j \in 1 .. Len(owed') :
              owed'[i].code = EndGame /\ owed'[j].code = EndGame => i = j
    BY <1>1, <1>10, HandleAsked
  <2>2. thread'.at = "code"
    BY <2>1 DEF Idle
  <2>3. EndOnce'
    BY <2>1, <2>2 DEF EndOnce
  <2>4. InSync'
    BY <1>3, <2>1, <2>2 DEF InSync
  <2>5. Phase'
    BY <2>1 DEF Phase
  <2> QED
    BY <1>2, <1>3, <1>5, <1>6, <2>1, <2>3, <2>4, <2>5 DEF IInv
<1> QED
  BY <1>8, <1>9, <1>10

\* The replies behind the first one
LEMMA OwedTail ==
  ASSUME OwedOK, owed # <<>>, owed' = Tail(owed)
  PROVE  /\ OwedOK' /\ Len(owed) \in Nat \ {0} /\ Len(owed') = Len(owed) - 1
         /\ \A i \in 1 .. Len(owed') : owed'[i] = owed[i + 1]
         /\ Head(owed) = owed[1]
<1>1. owed \in Seq(Msg) /\ Len(owed) \in Nat \ {0}
  BY LenProperties, EmptySeq DEF OwedOK
<1>2. Tail(owed) \in Seq(Msg)
  BY <1>1, HeadTailProperties
<1>3. Len(Tail(owed)) = Len(owed) - 1
  BY <1>1, HeadTailProperties
<1>4. \A i \in 1 .. Len(Tail(owed)) : Tail(owed)[i] = owed[i + 1]
  BY <1>1, HeadTailProperties
<1>5. ASSUME NEW i \in 1 .. Len(owed')
      PROVE  LET m == owed'[i] IN
             /\ ReadAsBuilt(m)
             /\ m.code = Question => \E d \in [1 .. 4 -> 0 .. 3] : Perm(d) /\ m = Message(Question, Texts(d))
             /\ m.code = TrueFalse => m \in Verdicts
  <2>1. owed'[i] = owed[i + 1]
    BY <1>4
  <2>2. i + 1 \in 1 .. Len(owed)
    BY <1>1, <1>3
  <2> QED
    BY <2>1, <2>2 DEF OwedOK
<1>6. OwedOK'
  BY <1>2, <1>5 DEF OwedOK
<1> QED
  BY <1>1, <1>3, <1>4, <1>6

\* The first of two texts, without its code
LEMMA PartOfFirst ==
  ASSUME NEW a \in Seq(Nat), NEW b \in Seq(Nat), Len(a) >= 1
  PROVE  SubSeq(a \o b, 2, Len(a)) = SubSeq(a, 2, Len(a))
<1> DEFINE c == a \o b
           n == Len(a)
           x == SubSeq(c, 2, n)
           y == SubSeq(a, 2, n)
<1>1. n \in Nat /\ n >= 1 /\ Len(b) \in Nat
  BY LenProperties
<1>2. c \in Seq(Nat) /\ Len(c) = n + Len(b)
  BY CutText
<1>3. \A i \in 1 .. n : c[i] = a[i]
  <2>1. \A i \in 1 .. n + Len(b) : c[i] = IF i <= n THEN a[i] ELSE b[i - n]
    BY ConcatProperties
  <2> QED
    BY <1>1, <2>1
<1> HIDE DEF c
<1>4. 2 \in 1 .. Len(c) + 1 /\ n \in 2 - 1 .. Len(c) /\ 2 \in 1 .. n + 1 /\ n \in 2 - 1 .. n
  BY <1>1, <1>2
<1> HIDE DEF n
<1>5. /\ x \in Seq(Nat) /\ Len(x) = IF 2 <= n THEN n - 2 + 1 ELSE 0
      /\ \A i \in 1 .. n - 2 + 1 : x[i] = c[2 + i - 1]
  BY <1>2, <1>4, SubSeqProperties, SMTT(30)
<1>6. /\ y \in Seq(Nat) /\ Len(y) = IF 2 <= n THEN n - 2 + 1 ELSE 0
      /\ \A i \in 1 .. n - 2 + 1 : y[i] = a[2 + i - 1]
  BY <1>4, SubSeqProperties, SMTT(30) DEF n
<1> HIDE DEF x, y
<1>7. n - 2 + 1 = n - 1 /\ (~ 2 <= n => n - 1 = 0)
  BY <1>1
<1>8. Len(x) = n - 1 /\ Len(y) = n - 1
  BY <1>1, <1>5, <1>6
<1>9. ASSUME NEW i \in 1 .. n - 1 PROVE x[i] = y[i]
  <2>1. 2 + i - 1 \in 1 .. n
    BY <1>1
  <2> QED
    BY <1>3, <1>5, <1>6, <1>7, <2>1
<1>10. x = y
  BY <1>5, <1>6, <1>8, <1>9, SeqEqual
<1> QED
  BY <1>10 DEF x, y, c, n

\* A receive that takes the first reply takes nothing else.
LEMMA TakeWhole ==
  ASSUME OwedOK, owed # <<>>, Len(owed) <= 2, Told, ~ off, NEW k, k = Len(ReplyText(owed[1]))
  PROVE  /\ SubSeq(down, 2, k) = SubSeq(ReplyText(owed[1]), 2, k)
         /\ SubSeq(down, k + 1, Len(down)) = ReplyTexts(Tail(owed))
<1>1. owed \in Seq(Msg) /\ Len(owed) \in Nat \ {0} /\ Tail(owed) \in Seq(Msg) /\ Len(Tail(owed)) = Len(owed) - 1
      /\ \A i \in 1 .. Len(Tail(owed)) : Tail(owed)[i] = owed[i + 1]
  BY LenProperties, EmptySeq, HeadTailProperties DEF OwedOK
<1>2. \A i \in 1 .. Len(owed) : ReplyText(owed[i]) \in Seq(Nat) /\ Len(ReplyText(owed[i])) >= 1
  BY DEF OwedOK, ReadAsBuilt
<1> DEFINE a == ReplyText(owed[1])
           b == ReplyTexts(Tail(owed))
<1>3. a \in Seq(Nat) /\ Len(a) >= 1 /\ k = Len(a)
  BY <1>1, <1>2
<1>4. down = ReplyTexts(owed)
  BY DEF Told
<1>5. b \in Seq(Nat) /\ down = a \o b
  <2>1. CASE Len(owed) = 1
    <3>1. down = a /\ b = <<>>
      BY <1>1, <1>4, <2>1 DEF ReplyTexts
    <3>2. a \o <<>> = a /\ <<>> \in Seq(Nat)
      BY <1>3, ConcatEmptySeq
    <3> QED
      BY <3>1, <3>2
  <2>2. CASE Len(owed) = 2
    <3>1. Len(Tail(owed)) = 1 /\ 2 \in 1 .. Len(owed) /\ 1 \in 1 .. Len(Tail(owed)) /\ 1 + 1 = 2
      BY <1>1, <2>2
    <3>2. Tail(owed)[1] = owed[2]
      BY <1>1, <3>1
    <3>3. b = ReplyText(owed[2])
      BY <3>1, <3>2 DEF ReplyTexts
    <3>4. down = a \o ReplyText(owed[2])
      BY <1>4, <2>2 DEF ReplyTexts
    <3> QED
      BY <1>2, <3>1, <3>3, <3>4
  <2> QED
    BY <1>1, <2>1, <2>2
<1> HIDE DEF a, b
<1>6. SubSeq(a \o b, 2, Len(a)) = SubSeq(a, 2, Len(a))
  BY <1>3, <1>5, PartOfFirst
<1>7. SubSeq(a \o b, Len(a) + 1, Len(a \o b)) = b
  BY <1>3, <1>5, CutText
<1> QED
  BY <1>3, <1>5, <1>6, <1>7 DEF a, b

\* The answers of a question are the four answers.
LEMMA LettersShown ==
  ASSUME NEW d, Perm(d)
  PROVE  {Texts(d)[i] : i \in 2 .. 5} = Letters4
<1>1. ASSUME NEW i \in 2 .. 5 PROVE \E j \in 1 .. 4 : Texts(d)[i] = AnswerText(j)
  <2> DEFINE p == i - 1
  <2>1. p \in 1 .. 4 /\ p + 1 = i
    OBVIOUS
  <2> HIDE DEF p
  <2> QED
    BY <2>1, TextsAre
<1>2. ASSUME NEW j \in 1 .. 4 PROVE \E i \in 2 .. 5 : Texts(d)[i] = AnswerText(j)
  <2> DEFINE p == d[j] + 1
  <2>1. d[j] \in 0 .. 3 /\ \A k \in 1 .. 4 : d[k] = d[j] => k = j
    BY PermIs
  <2>2. p \in 1 .. 4 /\ p - 1 = d[j] /\ p + 1 \in 2 .. 5
    BY <2>1
  <2> HIDE DEF p
  <2>3. PICK k \in 1 .. 4 : d[k] = p - 1 /\ Texts(d)[p + 1] = AnswerText(k)
    BY <2>2, TextsAre
  <2>4. k = j
    BY <2>1, <2>2, <2>3
  <2> QED
    BY <2>2, <2>3, <2>4
<1> QED
  BY <1>1, <1>2, Zenon DEF Letters4

\* What a receive of one reply finds, and reads it as
Comes(m, got, F) ==
  got = SubSeq(ReplyText(m), 2, Len(ReplyText(m))) /\ F = Parametered(m.code, got)

\* A reply that is received whole has one reading, its own.
LEMMA ReceivedIs ==
  ASSUME NEW m, ReadAsBuilt(m), NEW got, NEW F, Comes(m, got, F), Fits(F, m)
  PROVE  /\ Parse(F, got) = Read1(F, m.values)
         /\ Meaning(F, Message(m.code, Padded(F, m.values, Len(m.values)))) = m
BY Zenon DEF ReadAsBuilt, Comes

\* A question that arrives whole is shown as it was made.
LEMMA QuestionShown ==
  ASSUME NEW d, Perm(d), NEW m, m = Message(Question, Texts(d)), NEW got, NEW F,
         Comes(m, got, F), NEW p, p \in Parse(F, got)
  PROVE  p.values = Texts(d) /\ Len(p.values) = 5
<1>0. F = Parametered(m.code, got)
  BY DEF Comes
<1>1. m.code = Question /\ m.values = Texts(d)
  BY DEF Message
<1> DEFINE G == Fields(Five(S(3)))
<1>2. F = G
  BY <1>0, <1>1, ReplyFormats
<1> HIDE DEF G
<1>3. ReadAsBuilt(m) /\ Fits(F, m) /\ Padded(F, Texts(d), Len(Texts(d))) = Texts(d)
  BY <1>2, KeptQuestion DEF G
<1>6. Parse(F, got) = Read1(F, m.values)
  BY <1>3, ReceivedIs
<1>7. p = [rest |-> <<>>, values |-> Padded(F, m.values, Len(m.values))]
  BY <1>6 DEF Read1
<1>8. p.values = Texts(d)
  BY <1>1, <1>3, <1>7
<1> QED
  BY <1>8, TextsAre

\* The first value of an answer to a request to join
LEMMA JoinedFirst ==
  ASSUME NEW t, NEW F, F = Parametered(Joined, t), NEW v, Len(v) \in Nat \ {0}, NEW d \in 0 .. 9, v[1] = Digits(d)
  PROVE  Padded(F, v, Len(v))[1] = <<d>>
<1>2. FieldAt(F, 1) = N(1)
  <2>1. F = Fields(<<N(1), N(2), N(2), N(1)>>) \/ F = Fields(<<N(1)>>)
    BY DEF Parametered, Rooms, RoomUsers, Joined, Created, Question, EndGame, Scores, Status
  <2>2. <<N(1), N(2), N(2), N(1)>>[1] = N(1) /\ <<N(1)>>[1] = N(1)
    OBVIOUS
  <2> QED
    BY <2>1, <2>2 DEF Fields, FieldAt
<1>3. Padded(F, v, Len(v))[1] = PadLeft(Digits(d), 1)
  <2>1. Padded(F, v, Len(v))[1] = Received(FieldAt(F, 1), v[1])
    BY DEF Padded
  <2>2. ~ N(1).sized /\ N(1).w = 1
    BY DEF N
  <2> QED
    BY <1>2, <2>1, <2>2 DEF Received
<1>4. Digits(d) = <<d>>
  BY DigitIs
<1>5. <<d>> \in Seq(Nat) /\ Len(<<d>>) = 1
  OBVIOUS
<1>6. PadLeft(<<d>>, 1) = <<d>>
  <2>1. 1 <= Len(<<d>>) /\ 1 \in Nat
    BY <1>5
  <2> QED
    BY <1>5, <2>1, PadFull, Zenon
<1> QED
  BY <1>3, <1>4, <1>6

\* A receive, in terms of the first reply
ReadReply(m, F, p) ==
  /\ read' = [meant |-> m, got |-> Meaning(F, Message(m.code, p.values))]
  /\ waiting' = IF m.code = Joined /\ p.values[1] = <<0>> THEN 1 ELSE waiting - 1
  /\ page' = CASE m.code = Created -> "room"
               [] m.code = Question -> "game"
               [] m.code = EndGame -> "menu"
               [] OTHER -> page
  /\ shown' = CASE m.code = Question -> p.values
                [] m.code = EndGame -> <<>>
                [] OTHER -> shown
  /\ IF m.code = EndGame THEN due' = Append(due, Leave) /\ travelling' = travelling \o Written(Leave)
     ELSE UNCHANGED <<due, travelling>>

\* The page and the history after a receive
Takes(m, whole, got) ==
  /\ off' = (~ whole \/ ~ Fits(Parametered(m.code, got), m))
  /\ \/ \E p \in Seen(m.code, whole, got) : ReadReply(m, Parametered(m.code, got), p)
     \/ /\ Seen(m.code, whole, got) = {} /\ page' = "error" /\ read' = Nothing
        /\ UNCHANGED <<waiting, shown, due, travelling>>

\* A receive takes the first reply away, and goes on by what it found of it.
LEMMA ReceiveIs ==
  ASSUME IInv, Receive, NEW m, m = owed[1]
  PROVE  /\ waiting > 0 /\ page # "error" /\ ~ off /\ owed # <<>> /\ owed' = Tail(owed) /\ Answered
         /\ UNCHANGED <<clicked, arrived, thread, drawn>> /\ handled' = Nothing
         /\ \E whole, got :
              /\ whole \in BOOLEAN
              /\ Takes(m, whole, got)
              /\ whole => Told' /\ Comes(m, got, Parametered(m.code, got))
<1>1. down # <<>> /\ waiting > 0 /\ page # "error" /\ ~ off
  BY DEF Receive
<1>2. PICK k \in Found : Take(k)
  BY DEF Receive
<1>3. /\ owed' = Tail(owed) /\ down' = SubSeq(down, k + 1, Len(down))
      /\ UNCHANGED <<clicked, arrived, thread, drawn>> /\ handled' = Nothing
  BY <1>2 DEF Take, server
<1>4. owed # <<>>
  <2>1. ReplyTexts(<<>>) = <<>>
    BY DEF ReplyTexts
  <2> QED
    BY <1>1, <2>1 DEF IInv, Told
<1>5. Answered
  BY <1>1, <1>4 DEF IInv, Phase, Resting, Asking, Drawing
<1>6. Len(owed) <= 2
  <2>1. Len(owed) = 1 \/ Len(owed) = 2
    BY <1>5, Zenon DEF Answered
  <2>2. \A n : n = 1 \/ n = 2 => n <= 2
    OBVIOUS
  <2> QED
    BY <2>1, <2>2, Zenon
<1>7. Head(owed) = m /\ OwedOK /\ Told
  BY <1>3, <1>4, OwedTail DEF IInv
<1> DEFINE whole == k = Len(ReplyText(m))
           got == SubSeq(down, 2, k)
<1>8. Takes(m, whole, got)
  BY <1>2, <1>7, Zenon DEF Take, Takes, ReadReply, Deliver, Leave, Written, Message
<1>9. ASSUME whole PROVE Told' /\ Comes(m, got, Parametered(m.code, got))
  <2>1. got = SubSeq(ReplyText(m), 2, k) /\ SubSeq(down, k + 1, Len(down)) = ReplyTexts(Tail(owed))
    BY <1>1, <1>4, <1>6, <1>7, <1>9, TakeWhole
  <2>2. down' = ReplyTexts(owed')
    BY <1>3, <2>1
  <2> QED
    BY <1>9, <2>1, <2>2 DEF Told, Comes
<1>10. whole \in BOOLEAN
  OBVIOUS
<1> HIDE DEF whole, got
<1> QED
  BY <1>1, <1>3, <1>4, <1>5, <1>8, <1>9, <1>10

\* The format of a verdict, which fits it
LEMMA VerdictFits ==
  ASSUME NEW m \in Verdicts, NEW t
  PROVE  /\ m.code = TrueFalse /\ Parametered(m.code, t) = Fields(<<N(1)>>)
         /\ Fits(Fields(<<N(1)>>), m)
<1>1. PICK d \in 0 .. 1 : m = Message(TrueFalse, <<Digits(d)>>)
  BY DEF Verdicts
<1>2. m.code = TrueFalse /\ m.values = <<Digits(d)>>
  BY <1>1 DEF Message
<1>3. Parametered(m.code, t) = Fields(<<N(1)>>)
  BY <1>2, ReplyFormats
<1>4. Digits(d) = <<d>>
  <2>1. d \in 0 .. 9
    OBVIOUS
  <2> QED
    BY <2>1, DigitIs
<1> DEFINE F == Fields(<<N(1)>>)
<1>5. FieldAt(F, 1) = N(1)
  BY FieldOfHead
<1> HIDE DEF F
<1>6. DOMAIN m.values = {1} /\ m.values[1] = <<d>> /\ Len(<<d>>) = 1
  BY <1>2, <1>4
<1>7. Fits(F, m)
  <2>1. ~ N(1).sized /\ N(1).w = 1
    BY DEF N
  <2>2. ASSUME NEW i \in DOMAIN m.values
        PROVE  LET f == FieldAt(F, i)
               IN  f.w > 0 => Len(m.values[i]) <= IF f.sized THEN Ten(f.w) - 1 ELSE f.w
    <3>1. i = 1
      BY <1>6
    <3>2. FieldAt(F, i) = N(1) /\ Len(m.values[i]) = 1
      BY <1>5, <1>6, <3>1
    <3> QED
      BY <2>1, <3>2
  <2> QED
    BY <2>2 DEF Fits
<1> QED
  BY <1>2, <1>3, <1>7 DEF F

\* A click that is called right is right, whatever a receive found of the verdict.
LEMMA NeverCalledRight ==
  ASSUME IInv, Receive, read'.meant.code = TrueFalse, read'.got.values[1] = Digits(1)
  PROVE  clicked' = AnswerText(1)
<1> DEFINE m == owed[1]
<1>1. /\ owed # <<>> /\ Answered /\ clicked' = clicked
      /\ \E whole, got :
           /\ whole \in BOOLEAN
           /\ Takes(m, whole, got)
           /\ whole => Comes(m, got, Parametered(m.code, got))
  BY ReceiveIs
<1>2. PICK whole, got :
        /\ whole \in BOOLEAN
        /\ Takes(m, whole, got) /\ (whole => Comes(m, got, Parametered(m.code, got)))
  BY <1>1
<1>3. Nothing.meant.code # TrueFalse
  BY DEF Nothing, Message, TrueFalse
<1>4. PICK p \in Seen(m.code, whole, got) : ReadReply(m, Parametered(m.code, got), p)
  BY <1>2, <1>3 DEF Takes
<1>5. /\ read'.meant = m /\ read'.got = Meaning(Parametered(m.code, got), Message(m.code, p.values))
      /\ m.code = TrueFalse
  BY <1>4 DEF ReadReply
<1>6. m \in Verdicts /\ ReadAsBuilt(m)
  <2>1. owed \in Seq(Msg) /\ Len(owed) \in Nat \ {0}
    BY <1>1, LenProperties, EmptySeq DEF IInv, OwedOK
  <2>2. 1 \in 1 .. Len(owed)
    BY <2>1
  <2> QED
    BY <1>5, <2>2 DEF IInv, OwedOK
<1> DEFINE F == Fields(<<N(1)>>)
<1>7. Parametered(m.code, got) = F /\ Fits(F, m)
  BY <1>6, VerdictFits
<1>8. m.values[1] = Digits(1) <=> clicked = AnswerText(1)
  <2>1. TrueFalse # Joined /\ TrueFalse # EndGame
    BY CodesDiffer
  <2> QED
    BY <1>1, <1>5, <2>1 DEF Answered
<1> HIDE DEF m, F
<1>9. CASE whole
  <2>1. Seen(m.code, whole, got) = Parse(F, got)
    BY <1>7, <1>9 DEF Seen
  <2>2. Comes(m, got, F)
    BY <1>2, <1>7, <1>9
  <2>3. Parse(F, got) = Read1(F, m.values)
        /\ Meaning(F, Message(m.code, Padded(F, m.values, Len(m.values)))) = m
    BY <1>6, <1>7, <2>2, ReceivedIs
  <2>4. p.values = Padded(F, m.values, Len(m.values))
    BY <1>4, <2>1, <2>3 DEF Read1
  <2>5. read'.got = m
    BY <1>5, <1>7, <2>3, <2>4
  <2> QED
    BY <1>1, <1>8, <2>5
<1>10. CASE ~ whole
  <2>1. Seen(m.code, whole, got) = Unlike
    BY <1>5, <1>10 DEF Seen, Compared
  <2>2. p.values = << <<9>> >>
    BY <1>4, <2>1 DEF Unlike
  <2>3. FieldAt(F, 1) = N(1) /\ ~ N(1).sized
    <3>1. FieldAt(F, 1) = <<N(1)>>[1]
      BY FieldOfHead DEF F
    <3>2. ~ N(1).sized
      BY DEF N
    <3> QED
      BY <3>1, <3>2
  <2>4. DOMAIN << <<9>> >> = {1} /\ << <<9>> >>[1] = <<9>>
    OBVIOUS
  <2>5. Meaning(F, Message(m.code, p.values)).values[1] = Digits(Atoi(<<9>>))
    BY <2>2, <2>3, <2>4 DEF Meaning, Message
  <2>6. Digits(9) = <<9>> /\ 9 \in Small /\ Digits(1) = <<1>>
    <3>1. 9 \in 0 .. 9 /\ 1 \in 0 .. 9
      OBVIOUS
    <3> QED
      BY <3>1, DigitIs
  <2>7. Atoi(<<9>>) = 9
    BY <2>6, AtoiDigits
  <2>8. <<9>> # <<1>>
    <3>1. <<9>>[1] # <<1>>[1]
      OBVIOUS
    <3> QED
      BY <3>1
  <2> QED
    BY <1>5, <1>7, <2>5, <2>6, <2>7, <2>8
<1> QED
  BY <1>9, <1>10

\* A receive leaves the client in its type, also where the parser throws.
LEMMA ReceiveType ==
  ASSUME IInv, Receive
  PROVE  TypeInv' /\ OwedOK' /\ EndOnce' /\ Told'
<1> DEFINE m == owed[1]
<1>1. /\ waiting > 0 /\ owed # <<>> /\ page # "error" /\ owed' = Tail(owed)
      /\ UNCHANGED <<clicked, arrived, thread, drawn>> /\ handled' = Nothing
      /\ \E whole, got :
           /\ whole \in BOOLEAN
           /\ Takes(m, whole, got)
           /\ whole => Told' /\ Comes(m, got, Parametered(m.code, got))
  BY ReceiveIs, Zenon
<1> HIDE DEF m
<1>13. PICK whole, got :
        /\ whole \in BOOLEAN
        /\ Takes(m, whole, got)
        /\ whole => Told' /\ Comes(m, got, Parametered(m.code, got))
  BY <1>1
<1> DEFINE F == Parametered(m.code, got)
           P == Seen(m.code, whole, got)
<1>14. /\ off' = (~ whole \/ ~ Fits(F, m))
       /\ \/ \E p \in P : ReadReply(m, F, p)
          \/ /\ P = {} /\ page' = "error" /\ read' = Nothing
             /\ UNCHANGED <<waiting, shown, due, travelling>>
  BY <1>13 DEF Takes
<1>15. whole => Comes(m, got, F) /\ P = Parse(F, got)
  BY <1>13 DEF Seen
<1>16. Told'
  BY <1>13, <1>14 DEF Told
<1> HIDE DEF F, P
<1>2. TypeInv /\ OwedOK /\ EndOnce
  BY DEF IInv
<1>3. /\ OwedOK' /\ Len(owed) \in Nat \ {0} /\ Len(owed') = Len(owed) - 1
      /\ \A i \in 1 .. Len(owed') : owed'[i] = owed[i + 1]
  BY <1>1, <1>2, OwedTail
<1>4. m.code = Question => \E d \in [1 .. 4 -> 0 .. 3] : Perm(d) /\ m = Message(Question, Texts(d))
  <2>1. 1 \in 1 .. Len(owed)
    BY <1>3
  <2> QED
    BY <1>2, <2>1 DEF OwedOK, m
<1>17. ~ off
  BY ReceiveIs
<1>5. m.code = EndGame => due = <<>> /\ thread.at # "question" /\ \A i \in 1 .. Len(owed') : owed'[i].code # EndGame
  <2>1. 1 \in 1 .. Len(owed)
    BY <1>3
  <2>2. ASSUME NEW i \in 1 .. Len(owed'), m.code = EndGame PROVE owed'[i].code # EndGame
    <3>1. i + 1 \in 1 .. Len(owed) /\ i + 1 # 1
      BY <1>3
    <3>2. owed[i + 1].code # EndGame
      BY <1>2, <2>1, <2>2, <3>1 DEF EndOnce, m
    <3> QED
      BY <1>3, <3>2
  <2>3. m.code = EndGame => due = <<>> /\ thread.at # "question"
    BY <1>2, <2>1 DEF EndOnce, m
  <2> QED
    BY <2>2, <2>3
<1>6. ASSUME NEW i \in 1 .. Len(owed'), NEW j \in 1 .. Len(owed'),
             owed'[i].code = EndGame, owed'[j].code = EndGame
      PROVE  i = j
  <2>1. i + 1 \in 1 .. Len(owed) /\ j + 1 \in 1 .. Len(owed)
    BY <1>3
  <2>2. owed[i + 1].code = EndGame /\ owed[j + 1].code = EndGame
    BY <1>3, <1>6
  <2>3. i + 1 = j + 1
    BY <1>2, <2>1, <2>2 DEF EndOnce
  <2> QED
    BY <2>3
<1>7. ASSUME NEW i \in 1 .. Len(owed'), owed'[i].code = EndGame
      PROVE  due = <<>> /\ thread.at # "question"
  <2>1. i + 1 \in 1 .. Len(owed)
    BY <1>3
  <2>2. owed[i + 1].code = EndGame
    BY <1>3, <1>7
  <2> QED
    BY <1>2, <2>1, <2>2 DEF EndOnce
<1>8. due' = due \/ m.code = EndGame
  BY <1>14 DEF ReadReply
<1>9. EndOnce'
  <2>1. ASSUME NEW i \in 1 .. Len(owed'), owed'[i].code = EndGame
        PROVE  due' = <<>> /\ thread'.at # "question"
    BY <1>1, <1>5, <1>7, <1>8, <2>1
  <2> QED
    BY <1>6, <2>1 DEF EndOnce
<1>10. off' \in BOOLEAN
  BY <1>14
<1>11. CASE P = {} /\ page' = "error" /\ UNCHANGED <<waiting, shown, due, travelling>>
  <2>1. TypeInv'
    BY <1>1, <1>2, <1>10, <1>11, <1>17 DEF TypeInv, Pages
  <2> QED
    BY <1>3, <1>9, <1>16, <2>1
<1>12. CASE \E p \in P : ReadReply(m, F, p)
  <2>1. PICK p \in P : ReadReply(m, F, p)
    BY <1>12
  <2>2. page' \in Pages
    <3>1. page' = "room" \/ page' = "game" \/ page' = "menu" \/ page' = page
      BY <2>1 DEF ReadReply
    <3> QED
      BY <1>2, <3>1 DEF TypeInv, Pages
  <2>3. waiting' \in 0 .. 2
    <3>1. waiting' = 1 \/ waiting' = waiting - 1
      BY <2>1 DEF ReadReply
    <3> QED
      BY <1>1, <1>2, <3>1 DEF TypeInv
  <2>4. off' \/ shown' = <<>> \/ Len(shown') = 5
    <3>1. CASE m.code = Question /\ ~ off'
      <4>1. PICK d \in [1 .. 4 -> 0 .. 3] : Perm(d) /\ m = Message(Question, Texts(d))
        BY <1>4, <3>1
      <4>2. Comes(m, got, F) /\ p \in Parse(F, got)
        BY <1>14, <1>15, <2>1, <3>1
      <4>4. Len(p.values) = 5
        BY <4>1, <4>2, QuestionShown
      <4> QED
        BY <2>1, <3>1, <4>4 DEF ReadReply
    <3>2. CASE m.code # Question
      <4>1. shown' = <<>> \/ shown' = shown
        BY <2>1, <3>2 DEF ReadReply
      <4> QED
        BY <1>2, <1>17, <4>1 DEF TypeInv
    <3> QED
      BY <3>1, <3>2
  <2>5. /\ due' \in Seq([code : Requests, values : Seq(Seq(Nat))])
        /\ \A i \in 1 .. Len(due') : Asked(due'[i])
        /\ Len(due') <= MaxDue /\ travelling' \in Seq(Nat)
    <3>1. CASE m.code = EndGame
      <4>1. due' = Append(<<>>, Leave) /\ travelling' = travelling \o Written(Leave)
        BY <1>5, <2>1, <3>1 DEF ReadReply
      <4>2. Asked(Leave) /\ Leave \in [code : Requests, values : Seq(Seq(Nat))]
        BY LeaveIs
      <4>3. Written(Leave) \in Seq(Nat)
        BY <4>2, RequestWritten
      <4>4. travelling' \in Seq(Nat)
        BY <1>2, <4>1, <4>3, CutText DEF TypeInv
      <4> DEFINE l == Leave
                 R == [code : Requests, values : Seq(Seq(Nat))]
      <4> HIDE DEF l, R
      <4>5. due' = <<l>> /\ Asked(l) /\ l \in R
        BY <4>1, <4>2 DEF l, R
      <4>6. due' \in Seq(R) /\ Len(due') = 1 /\ \A i \in 1 .. Len(due') : due'[i] = l
        BY <4>5
      <4>7. Len(due') <= MaxDue
        BY <4>6, ExchangeAssumption
      <4> QED
        BY <4>4, <4>5, <4>6, <4>7 DEF R
    <3>2. CASE m.code # EndGame
      <4>1. due' = due /\ travelling' = travelling
        BY <2>1, <3>2 DEF ReadReply
      <4> QED
        BY <1>2, <4>1 DEF TypeInv
    <3> QED
      BY <3>1, <3>2
  <2>6. TypeInv'
    BY <1>1, <1>2, <1>10, <2>2, <2>3, <2>4, <2>5 DEF TypeInv
  <2> QED
    BY <1>3, <1>9, <1>16, <2>6
<1> QED
  BY <1>11, <1>12, <1>14


\* Unless it was short or something did not fit, the page goes on in step.
LEMMA ReceiveGood ==
  ASSUME IInv, Receive, ~ off'
  PROVE  /\ InSync' /\ Phase' /\ (page' = "game" => {shown'[i] : i \in 2 .. 5} = Letters4)
         /\ read'.meant = read'.got /\ page' # "error"
         /\ read'.meant.code = TrueFalse =>
              (read'.got.values[1] = Digits(1) <=> clicked' = AnswerText(1))
<1> DEFINE m == owed[1]
<1>1. /\ waiting > 0 /\ owed # <<>> /\ page # "error" /\ owed' = Tail(owed) /\ ~ off /\ Answered
      /\ UNCHANGED <<clicked, arrived, thread, drawn>>
      /\ \E whole, got :
           /\ whole \in BOOLEAN
           /\ Takes(m, whole, got)
           /\ whole => Comes(m, got, Parametered(m.code, got))
  BY ReceiveIs
<1> HIDE DEF m
<1>2. PICK whole, got :
        /\ whole \in BOOLEAN
        /\ Takes(m, whole, got)
        /\ whole => Comes(m, got, Parametered(m.code, got))
  BY <1>1
<1> DEFINE F == Parametered(m.code, got)
           v == m.values
           P == Padded(F, v, Len(v))
<1>5. /\ whole /\ Fits(F, m) /\ Comes(m, got, F) /\ Seen(m.code, whole, got) = Parse(F, got)
      /\ \/ \E p \in Parse(F, got) : ReadReply(m, F, p)
         \/ Parse(F, got) = {}
  BY <1>2 DEF Takes, Seen
<1> HIDE DEF F, P
<1>3. TypeInv /\ OwedOK /\ EndOnce /\ InSync /\ Phase
      /\ (page = "game" => {shown[i] : i \in 2 .. 5} = Letters4)
  BY <1>1 DEF IInv
<1>4. /\ Len(owed) \in Nat \ {0} /\ Len(owed') = Len(owed) - 1
      /\ \A i \in 1 .. Len(owed') : owed'[i] = owed[i + 1]
      /\ owed' \in Seq(Msg)
  BY <1>1, <1>3, OwedTail DEF OwedOK
<1>6. ReadAsBuilt(m)
  <2>1. 1 \in 1 .. Len(owed)
    BY <1>4
  <2> QED
    BY <1>3, <2>1 DEF OwedOK, m
<1>7. Parse(F, got) = Read1(F, m.values)
      /\ Meaning(F, Message(m.code, Padded(F, m.values, Len(m.values)))) = m
  BY <1>5, <1>6, ReceivedIs
<1>8. PICK p \in Parse(F, got) : ReadReply(m, F, p)
  BY <1>5, <1>7 DEF Read1
<1>9. p.values = P
  BY <1>7, <1>8 DEF Read1, P
<1>10. read' = [meant |-> m, got |-> m]
  <2>1. read' = [meant |-> m, got |-> Meaning(F, Message(m.code, p.values))]
    BY <1>8 DEF ReadReply
  <2> QED
    BY <1>7, <1>9, <2>1 DEF P
<1>11. read'.meant = m /\ read'.got = m
  BY <1>10
<1>12. page' = "room" \/ page' = "game" \/ page' = "menu" \/ page' = page
  BY <1>8 DEF ReadReply
<1>13. page' # "error"
  BY <1>1, <1>12
<1>14. Answered
  BY <1>1
<1>15. due = <<>> /\ thread.at = "code" /\ thread'.at = "code" /\ thread = Idle /\ thread' = Idle /\ Stream = Sent(<<>>)
  BY <1>1, <1>3, <1>14 DEF Answered, InSync
<1>16. ASSUME m.code # EndGame PROVE InSync' /\ due' = <<>>
  <2>1. due' = <<>> /\ travelling' = travelling
    BY <1>8, <1>15, <1>16 DEF ReadReply
  <2>2. Stream' = Stream
    BY <1>1, <2>1 DEF Stream
  <2> QED
    BY <1>15, <2>1, <2>2 DEF InSync
<1>17. v \in Seq(Seq(Nat)) /\ Len(v) \in Nat
  BY <1>6, LenProperties DEF ReadAsBuilt, Msg
<1>18. ASSUME m.code = Joined, Len(v) # 0, NEW d \in 0 .. 9, v[1] = Digits(d)
       PROVE  p.values[1] = <<d>>
  <2>1. Len(v) \in Nat \ {0} /\ F = Parametered(Joined, got)
    BY <1>17, <1>18 DEF F
  <2>2. Padded(F, v, Len(v))[1] = <<d>>
    BY <1>18, <2>1, JoinedFirst
  <2> QED
    BY <1>9, <2>2 DEF P
<1>19. owed' = <<>> \/ Len(owed') # 0
  BY <1>4, EmptySeq
<1>20. CASE /\ Len(owed) = 1 /\ waiting = 1
            /\ m.code \notin {TrueFalse, EndGame}
            /\ m.code = Joined => m.values[1] \in {Digits(1), Digits(2)} /\ Len(m.values) # 0
            /\ m.code = Created \/ page = "room" => Perm(drawn)
            /\ m.code = Question => Perm(drawn) /\ m = Message(Question, Texts(drawn))
            /\ page # "game"
  <2>1. owed' = <<>>
    BY <1>4, <1>19, <1>20
  <2>2. waiting' = 0
    <3>1. CASE m.code = Joined
      <4>1. PICK d \in 1 .. 2 : v[1] = Digits(d)
        BY <1>20, <3>1
      <4>2. d \in 0 .. 9 /\ d # 0
        BY <4>1
      <4>3. p.values[1] = <<d>>
        BY <1>18, <1>20, <3>1, <4>1, <4>2
      <4>4. <<d>> # <<0>>
        <5>1. <<d>>[1] # <<0>>[1]
          BY <4>2
        <5> QED
          BY <5>1
      <4>5. waiting' = waiting - 1
        BY <1>8, <4>3, <4>4 DEF ReadReply
      <4> QED
        BY <1>20, <4>5
    <3>2. CASE m.code # Joined
      <4>1. waiting' = waiting - 1
        BY <1>8, <3>2 DEF ReadReply
      <4> QED
        BY <1>20, <4>1
    <3> QED
      BY <3>1, <3>2
  <2>3. page' = "game" => m.code = Question
    BY <1>8, <1>20 DEF ReadReply
  <2>4. page' = "room" => Perm(drawn)
    BY <1>8, <1>20 DEF ReadReply
  <2>5. ASSUME m.code = Question PROVE Perm(drawn) /\ shown' = Texts(drawn) /\ {shown'[i] : i \in 2 .. 5} = Letters4
    <3>1. Perm(drawn) /\ m = Message(Question, Texts(drawn))
      BY <1>20, <2>5
    <3>2. p.values = Texts(drawn)
      BY <1>5, <1>8, <3>1, QuestionShown
    <3>3. shown' = p.values
      <4>1. Question # Created /\ Question # EndGame
        BY CodesDiffer
      <4> QED
        BY <1>8, <2>5, <4>1 DEF ReadReply
    <3>4. {Texts(drawn)[i] : i \in 2 .. 5} = Letters4
      BY <3>1, LettersShown
    <3> QED
      BY <3>1, <3>2, <3>3, <3>4, Zenon
  <2>6. Ready'
    BY <1>1, <2>3, <2>4, <2>5, Zenon DEF Ready
  <2>7. Resting'
    BY <1>15, <1>16, <1>20, <2>1, <2>2, <2>6 DEF Resting
  <2>8. Phase'
    BY <2>7 DEF Phase
  <2>9. m.code # TrueFalse /\ m.code # EndGame
    BY <1>20
  <2> QED
    BY <1>11, <1>13, <1>16, <2>3, <2>5, <2>8, <2>9, Zenon
<1>21. CASE /\ Len(owed) = 2 /\ waiting = 1 /\ page = "menu"
            /\ m.code = Joined /\ m.values[1] = Digits(0) /\ Len(m.values) # 0
            /\ owed[2].code = RoomUsers
  <2>1. Len(owed') = 1 /\ owed'[1].code = RoomUsers
    <3>1. Len(owed') = 1
      BY <1>4, <1>21
    <3>2. 1 \in 1 .. Len(owed') /\ 1 + 1 = 2
      BY <3>1
    <3>3. owed'[1] = owed[2]
      BY <1>4, <3>2
    <3> QED
      BY <1>21, <3>1, <3>3
  <2>2. p.values[1] = <<0>>
    <3>1. 0 \in 0 .. 9
      OBVIOUS
    <3> QED
      BY <1>18, <1>21, <3>1
  <2>3. waiting' = 1
    BY <1>8, <1>21, <2>2 DEF ReadReply
  <2>4. Joined \notin {Created, Question, EndGame, TrueFalse} /\ RoomUsers \notin {TrueFalse, EndGame, Joined, Created, Question}
    BY CodesDiffer
  <2>5. page' = "menu"
    BY <1>8, <1>21, <2>4 DEF ReadReply
  <2>6. InSync' /\ due' = <<>>
    BY <1>16, <1>21, <2>4
  <2>7. Answered'
    BY <1>15, <2>1, <2>3, <2>4, <2>5, <2>6 DEF Answered
  <2>8. Phase'
    BY <2>7 DEF Phase
  <2>9. m.code # TrueFalse
    BY <1>21, <2>4
  <2> QED
    BY <1>11, <1>13, <2>5, <2>6, <2>8, <2>9
<1>22. CASE /\ Len(owed) = 2 /\ waiting = 2 /\ page = "game"
            /\ m.code = TrueFalse /\ owed[2].code = EndGame
            /\ m.values[1] = Digits(1) <=> clicked = AnswerText(1)
  <2>1. Len(owed') = 1 /\ owed'[1].code = EndGame
    <3>1. Len(owed') = 1
      BY <1>4, <1>22
    <3>2. 1 \in 1 .. Len(owed') /\ 1 + 1 = 2
      BY <3>1
    <3>3. owed'[1] = owed[2]
      BY <1>4, <3>2
    <3> QED
      BY <1>22, <3>1, <3>3
  <2>2. TrueFalse \notin {Joined, Created, Question, EndGame}
    BY CodesDiffer
  <2>3. waiting' = 1
    BY <1>8, <1>22, <2>2 DEF ReadReply
  <2>4. page' = "game" /\ shown' = shown
    BY <1>8, <1>22, <2>2 DEF ReadReply
  <2>5. InSync' /\ due' = <<>>
    BY <1>16, <1>22, <2>2
  <2>6. Answered'
    BY <1>15, <2>1, <2>3, <2>4, <2>5 DEF Answered
  <2>7. Phase'
    BY <2>6 DEF Phase
  <2>8. {shown'[i] : i \in 2 .. 5} = Letters4
    BY <1>3, <1>22, <2>4
  <2>9. m.values[1] = Digits(1) <=> clicked' = AnswerText(1)
    BY <1>1, <1>22
  <2> QED
    BY <1>11, <1>13, <2>5, <2>7, <2>8, <2>9
<1>23. CASE Len(owed) = 1 /\ waiting = 1 /\ page = "game" /\ m.code = EndGame
  <2>1. owed' = <<>>
    BY <1>4, <1>19, <1>23
  <2>2. EndGame \notin {Joined, Created, Question, TrueFalse}
    BY CodesDiffer
  <2>3. waiting' = 0 /\ page' = "menu"
    BY <1>8, <1>23, <2>2 DEF ReadReply
  <2>4. due' = <<Leave>> /\ travelling' = travelling \o Written(Leave)
    <3>1. due' = Append(<<>>, Leave) /\ travelling' = travelling \o Written(Leave)
      BY <1>8, <1>15, <1>23 DEF ReadReply
    <3> QED
      BY <3>1
  <2>5. Stream' = Sent(due')
    <3>1. Written(Leave) \in Seq(Nat)
      BY LeaveIs, RequestWritten
    <3>2. Stream' = Stream \o Written(Leave)
      BY <1>1, <1>3, <2>4, <3>1, CatAgain DEF Stream, TypeInv
    <3>3. Sent(<<>>) = <<>> /\ Sent(<<Leave>>) = Written(Leave)
      BY DEF Sent
    <3>4. <<>> \o Written(Leave) = Written(Leave)
      BY <3>1, ConcatEmptySeq
    <3> QED
      BY <1>15, <2>4, <3>2, <3>3, <3>4
  <2>6. InSync'
    BY <1>15, <2>5 DEF InSync
  <2>7. Resting'
    BY <1>15, <2>1, <2>3, <2>4 DEF Resting, Ready
  <2>8. Phase'
    BY <2>7 DEF Phase
  <2>9. m.code # TrueFalse
    BY <1>23, <2>2
  <2> QED
    BY <1>11, <1>13, <2>3, <2>6, <2>8, <2>9
<1> QED
  BY <1>14, <1>20, <1>21, <1>22, <1>23, Zenon DEF Answered, m

\* So it keeps the invariant.
LEMMA ReceiveKeeps ==
  ASSUME IInv, Receive
  PROVE  IInv'
<1>1. TypeInv' /\ OwedOK' /\ EndOnce' /\ Told'
  BY ReceiveType
<1>2. HandledAsSent'
  <2>1. handled' = Nothing
    BY ReceiveIs
  <2> QED
    BY <2>1 DEF HandledAsSent, Nothing
<1>3. ~ off' => /\ InSync' /\ Phase' /\ (page' = "game" => {shown'[i] : i \in 2 .. 5} = Letters4)
                /\ read'.meant = read'.got /\ page' # "error"
                /\ read'.meant.code = TrueFalse =>
                     (read'.got.values[1] = Digits(1) <=> clicked' = AnswerText(1))
  BY ReceiveGood
<1>4. ShownAsBuilt'
  BY <1>3 DEF ShownAsBuilt
<1>5. JudgedByText'
  BY <1>3, NeverCalledRight DEF JudgedByText, Letters4
<1> QED
  BY <1>1, <1>2, <1>3, <1>4, <1>5 DEF IInv

\* A client in the menu whose thread waits for a code
LEMMA InitKeeps ==
  ASSUME Init
  PROVE  IInv
<1>1. /\ page = "menu" /\ waiting = 0 /\ shown = <<>> /\ clicked = <<>>
      /\ due = <<>> /\ travelling = <<>> /\ arrived = <<>>
      /\ thread = Idle /\ drawn = <<>> /\ owed = <<>> /\ down = <<>>
      /\ handled = Nothing /\ read = Nothing /\ off = FALSE
  BY DEF Init
<1>2. thread = [at |-> "code", code |-> 0, values |-> <<>>, size |-> NotAsked]
  BY <1>1 DEF Idle
<1>3. Len(due) = 0 /\ Len(owed) = 0
  BY <1>1
<1>4. TypeInv
  <2>1. thread \in [at : {"code", "parts", "question", "gone"}, code : Requests \cup {0},
                    values : Seq(Seq(Nat)), size : Nat \cup {NotAsked}] /\ thread.at # "parts"
    BY <1>2
  <2>2. due \in Seq([code : Requests, values : Seq(Seq(Nat))]) /\ Len(due) <= MaxDue
    BY <1>1, <1>3, ExchangeAssumption
  <2>3. \A i \in 1 .. Len(due) : Asked(due[i])
    BY <1>3
  <2>4. IsInjective(drawn)
    BY <1>1 DEF IsInjective
  <2>5. drawn \in Seq(0 .. 3) /\ travelling \in Seq(Nat) /\ arrived \in Seq(Nat)
    BY <1>1
  <2>6. page \in Pages /\ waiting \in 0 .. 2 /\ off \in BOOLEAN
    <3>1. 0 \in 0 .. 2 /\ FALSE \in BOOLEAN
      OBVIOUS
    <3>2. page \in Pages
      BY <1>1 DEF Pages
    <3> QED
      BY <1>1, <3>1, <3>2
  <2> QED
    BY <1>1, <2>1, <2>2, <2>3, <2>4, <2>5, <2>6, Zenon DEF TypeInv
<1>5. OwedOK /\ EndOnce /\ Told
  BY <1>1, <1>3 DEF OwedOK, EndOnce, Told, ReplyTexts
<1>6. InSync
  <2>1. Sent(<<>>) = <<>> /\ <<>> \o <<>> = <<>>
    BY DEF Sent
  <2> QED
    BY <1>1, <1>2, <2>1 DEF InSync, Stream
<1>7. Resting
  BY <1>1, <1>2 DEF Resting, Ready
<1>8. Nothing.meant = Nothing.got /\ Nothing.meant.code # TrueFalse
  BY DEF Nothing, Message, TrueFalse
<1>9. HandledAsSent /\ ShownAsBuilt /\ JudgedByText
  BY <1>1, <1>8 DEF HandledAsSent, ShownAsBuilt, JudgedByText
<1> QED
  BY <1>1, <1>4, <1>5, <1>6, <1>7, <1>9 DEF IInv, Phase

\* The invariant is about the variables and nothing else.
LEMMA StutterKeeps ==
  ASSUME IInv, UNCHANGED vars
  PROVE  IInv'
<1>1. UNCHANGED <<page, waiting, shown, clicked, due, travelling, arrived, thread, drawn, down, owed, handled, read, off>>
  BY DEF vars, client, server
<1>2. TypeInv'
  BY <1>1 DEF IInv, TypeInv
<1>3. OwedOK' /\ EndOnce' /\ Told'
  BY <1>1 DEF IInv, OwedOK, EndOnce, Told
<1>4. InSync => InSync'
  BY <1>1 DEF InSync, InParts, Stream
<1>5. Phase => Phase'
  BY <1>1, PhaseKeeps
<1>6. HandledAsSent' /\ ShownAsBuilt' /\ JudgedByText'
  BY <1>1 DEF IInv, HandledAsSent, ShownAsBuilt, JudgedByText
<1> QED
  BY <1>1, <1>2, <1>3, <1>4, <1>5, <1>6 DEF IInv

\* Every step keeps the invariant.
LEMMA StepKeeps ==
  ASSUME IInv, [Next]_vars
  PROVE  IInv'
<1>1. CASE \E r \in Requested : Send(r)
  BY <1>1, SendKeeps
<1>2. CASE Receive
  BY <1>2, ReceiveKeeps
<1>3. CASE Arrive
  BY <1>3, ArriveKeeps
<1>4. CASE Serve
  BY <1>4, ReadCodeKeeps, ReadPartKeeps, HandleKeeps, AnswerCreateKeeps DEF Serve
<1>5. CASE \E p \in 0 .. 3 : Draw(p)
  BY <1>5, DrawKeeps
<1>6. CASE UNCHANGED vars
  BY <1>6, StutterKeeps
<1> QED
  BY <1>1, <1>2, <1>3, <1>4, <1>5, <1>6 DEF Next

\* Every state of a run satisfies the invariant.
LEMMA Invariance == Spec => []IInv
<1>1. Init => IInv
  BY InitKeeps
<1>2. IInv /\ [Next]_vars => IInv'
  BY StepKeeps
<1> QED
  BY <1>1, <1>2, PTL DEF Spec

\* Every variable of the client, the stream and the thread keeps its type, for names
\* of any length, numbers typed with any zeros and any bytes a short receive left
\* unwritten; no two answers get the same place (Question.cpp:17-25).
THEOREM ExchangeTyped == Spec => []TypeOK
<1>1. IInv => TypeOK
  <2>1. SUFFICES ASSUME TypeInv PROVE TypeOK
    BY DEF IInv
  <2>2. Len(due) \in Nat /\ Len(due) <= MaxDue /\ MaxDue \in Nat
    BY <2>1, LenProperties, ExchangeAssumption DEF TypeInv
  <2>3. Len(due) \in 0 .. MaxDue + 1
    BY <2>2
  <2>4. thread.at \in {"code", "parts", "question", "gone"} /\ thread.code \in Requests \cup {0}
    BY <2>1 DEF TypeInv
  <2>5. off \/ Len(shown) \in {0, 5}
    BY <2>1 DEF TypeInv
  <2> QED
    BY <2>1, <2>3, <2>4, <2>5 DEF TypeInv, TypeOK
<1> QED
  BY <1>1, Invariance, PTL

\* What handleReceivedMessage is given (TriviaServer.cpp:466-611) is what the page
\* asked for, however the stream of requests is cut and whatever was asked before, as
\* long as what was typed fits its field and no receive was short: the thread never
\* takes the end of one request for the beginning of the next.
THEOREM RequestsKept == Spec => []HandledAsSent
<1>1. IInv => HandledAsSent
  BY DEF IInv
<1> QED
  BY <1>1, Invariance, PTL

\* What the page is given by the parsers (Classes.cs:276-497) is what the handlers
\* built (TriviaServer.cpp:127-464), for every list, name and number the server may
\* have, as long as it fits its field and a receive (Classes.cs:85-96,
\* Game.xaml.cs:143) finds one reply and no more; no parser throws then.
THEOREM RepliesKept == Spec => []ShownAsBuilt
<1>1. IInv => ShownAsBuilt
  BY DEF IInv
<1> QED
  BY <1>1, Invariance, PTL

\* Wherever the shuffle puts the answers (Question.cpp:9-25), the page shows each once,
\* and the answer called right (Game.xaml.cs:108) is the text of the correct one, also
\* where the verdict is cut or merged with the next message.
THEOREM AnswerJudged == Spec => []JudgedByText
<1>1. IInv => JudgedByText
  BY DEF IInv
<1> QED
  BY <1>1, Invariance, PTL

=============================================================================
