--------------------------------- MODULE Wire ---------------------------------
(***************************************************************************)
(* What a message looks like on the wire: the requests as the client       *)
(* writes them (Classes.cs:203-261) and the server reads them              *)
(* (TriviaServer.cpp:547-611), the replies as the server writes them and   *)
(* the client parses them (Classes.cs:276-497).  Each format is there      *)
(* twice, once for either program.                                         *)
(*                                                                         *)
(* A text is a sequence of characters, of which only digits differ.  The   *)
(* three bytes of a code are one unit.                                     *)
(***************************************************************************)
EXTENDS Integers, Sequences

Letter == 10
Digit == 0 .. 9

Letters(n) == [i \in 1 .. n |-> Letter]

\* 10 ^ k
Ten(k) == <<1, 10, 100, 1000, 10000, 100000, 1000000, 10000000>>[k + 1]

\* to_string, ToString, of a number of at most seven digits
Size(n) == CHOOSE k \in 1 .. 7 : n < Ten(k) /\ (k = 1 \/ n >= Ten(k - 1))
Digits(n) == [i \in 1 .. Size(n) |-> (n \div Ten(Size(n) - i)) % 10]

\* The number the first k characters make
Number(t, k) ==
  LET number[i \in 0 .. Len(t)] == IF i = 0 THEN 0 ELSE 10 * number[i - 1] + t[i]
  IN  number[k]

\* atoi, Convert.ToInt16: the number the digits in front make
Leading(t) ==
  CHOOSE k \in 0 .. Len(t) : /\ \A i \in 1 .. k : t[i] \in Digit
                             /\ k = Len(t) \/ t[k + 1] \notin Digit
Atoi(t) == Number(t, Leading(t))

\* PadLeft, getPaddedNumber: both fill up and neither cuts.
PadLeft(t, w) == [i \in 1 .. (IF Len(t) < w THEN w - Len(t) ELSE 0) |-> 0] \o t

-----------------------------------------------------------------------------
(* A field is a number in w characters, or a text after its length in w.
   A number in 0 characters is as long as it happens to be. *)
N(w) == [sized |-> FALSE, w |-> w]
S(w) == [sized |-> TRUE, w |-> w]

\* A format is some fields, the width of a count, and the fields of each item
\* (of at most three items where nothing counts them).
Fields(head) == [head |-> head, count |-> 0, item |-> <<>>]
Items(count, item) == [head |-> <<>>, count |-> count, item |-> item]

FieldAt(F, i) == IF F.item = <<>> THEN F.head[i] ELSE F.item[((i - 1) % Len(F.item)) + 1]

Put(f, t) == IF f.sized THEN PadLeft(Digits(Len(t)), f.w) \o t ELSE PadLeft(t, f.w)

\* The last k of some values
PutLast(F, values, k) ==
  LET n == Len(values)
      put[j \in 0 .. n] == IF j = 0 THEN <<>>
                           ELSE Put(FieldAt(F, n - j + 1), values[n - j + 1]) \o put[j - 1]
  IN  put[k]

PutCount(F, n) == IF F.count = 0 THEN <<>> ELSE PadLeft(Digits(n \div Len(F.item)), F.count)

Write(F, m) ==
  <<m.code>> \o (PutCount(F, Len(m.values)) \o PutLast(F, m.values, Len(m.values)))

Fits(F, m) ==
  \A i \in DOMAIN m.values :
    LET f == FieldAt(F, i)
    IN  f.w > 0 => Len(m.values[i]) <= IF f.sized THEN Ten(f.w) - 1 ELSE f.w

\* What a message says: of a number only the value counts.
Meaning(F, m) ==
  [code |-> m.code,
   values |-> [i \in DOMAIN m.values |-> IF FieldAt(F, i).sized THEN m.values[i]
                                         ELSE Digits(Atoi(m.values[i]))]]

-----------------------------------------------------------------------------
(* Requests *)
SignIn == 200          ForgotPassword == 202  SignUp == 203
AllRoomsList == 205    AllRoomUsers == 207    JoinRoom == 209
CreateRoom == 213      StartGame == 217       Answer == 219
LeaveGame == 222       BestScores == 223      PersonalState == 225

\* The Stringed... methods.  The number of players is sent as it was typed.
Stringed(code) == Fields(
  CASE code = SignIn -> <<S(2), S(2)>>
    [] code = SignUp -> <<S(2), S(2), S(2)>>
    [] code = ForgotPassword -> <<S(2)>>
    [] code \in {AllRoomUsers, JoinRoom} -> <<N(4)>>
    [] code = CreateRoom -> <<S(2), N(0), N(2), N(2)>>
    [] code = Answer -> <<N(0), N(2)>>
    [] OTHER -> <<>>)

Requests == {SignIn, ForgotPassword, SignUp, AllRoomsList, AllRoomUsers, JoinRoom,
             CreateRoom, StartGame, Answer, LeaveGame, BestScores, PersonalState}

CreateRoomPartsShort == <<S(2), N(1), N(2), N(1)>>  \* One_Byte for the time

CreateRoomParts == <<S(2), N(1), N(2), N(2)>>

\* buildRecieveMessage
Read(code) == Fields(
  CASE code = SignIn -> <<S(2), S(2)>>
    [] code = SignUp -> <<S(2), S(2), S(2)>>
    [] code = ForgotPassword -> <<S(2)>>
    [] code \in {AllRoomUsers, JoinRoom} -> <<N(4)>>
    [] code = CreateRoom -> CreateRoomParts
    [] code = Answer -> <<N(1), N(2)>>
    [] OTHER -> <<>>)

-----------------------------------------------------------------------------
(* Replies *)
SignInReply == 102     ForgotReply == 103     SignUpReply == 104
Rooms == 106           RoomUsers == 108       Joined == 110
Created == 114         Question == 118        TrueFalse == 120
EndGame == 121         Scores == 124          Status == 126

Five(f) == <<f, f, f, f, f>>

\* What the handlers build (TriviaServer.cpp:127-464, Room.cpp:46-57,
\* Game.cpp:80-96, 190-207)
Built(code) ==
  CASE code = Rooms -> Items(4, <<N(4), S(2)>>)
    [] code = RoomUsers -> Items(1, <<S(2)>>)
    [] code = Joined -> Fields(<<N(1), N(2), N(2), N(1)>>)
    [] code = Created -> Fields(<<N(1), N(4)>>)
    [] code = Question -> Fields(Five(S(3)))
    [] code = EndGame -> Items(1, <<S(2), N(2)>>)
    [] code = Scores -> Items(0, <<S(2), N(6)>>)
    [] code = Status -> Fields(<<N(4), N(6), N(6), N(0)>>)
    [] OTHER -> Fields(<<N(1)>>)

ScoreNarrow == <<S(2), N(4)>>  \* a score in four characters

Score == <<S(2), N(6)>>

\* The Parametered... methods, and CreateRoom.xaml.cs:110-113: the format of a
\* message with this code and this beginning
Parametered(code, t) ==
  CASE code = Rooms -> Items(4, <<N(4), S(2)>>)
    [] code = RoomUsers -> Items(1, <<S(2)>>)
    [] code = Joined /\ t # <<>> /\ t[1] = 0 -> Fields(<<N(1), N(2), N(2), N(1)>>)
    [] code = Created /\ t # <<>> /\ t[1] = 0 -> Fields(<<N(1), N(4)>>)
    [] code = Question -> Fields(Five(S(3)))
    [] code = EndGame -> Items(1, <<S(2), N(2)>>)
    [] code = Scores -> Items(0, Score)
    [] code = Status -> Fields(<<N(4), N(6), N(6), N(0)>>)
    [] OTHER -> Fields(<<N(1)>>)

\* A receive has room for 1024 bytes, three of them for the code.
Buffer == 1024 - 2

IsNumber(t) == t # <<>> /\ \A i \in DOMAIN t : t[i] \in Digit

\* A parser at work: what is left of the text, and the values so far.  It throws
\* where there is too little (Substring) or no number (Convert).
CanTake(p, f) ==
  LET w == IF f.w = 0 THEN Len(p.rest) ELSE f.w
      digits == SubSeq(p.rest, 1, w)
  IN  /\ w <= Len(p.rest)
      /\ IsNumber(digits)
      /\ f.sized => w + Atoi(digits) <= Len(p.rest)

Taken(p, f) ==
  LET w == IF f.w = 0 THEN Len(p.rest) ELSE f.w
      digits == SubSeq(p.rest, 1, w)
      end == IF f.sized THEN w + Atoi(digits) ELSE w
  IN  [rest |-> SubSeq(p.rest, end + 1, Len(p.rest)),
       values |-> Append(p.values, IF f.sized THEN SubSeq(p.rest, w + 1, end) ELSE digits)]

\* Items of which nobody knows the number are read until nothing is left.
Ended(F, p) ==
  /\ F.item # <<>> /\ F.count = 0
  /\ p.rest = <<>> /\ Len(p.values) % Len(F.item) = 0

\* The outcome of a parser is a set, which is empty where it throws: the one after
\* field i, and the one of n fields.
TakeNext(F, P, i) ==
  {IF Ended(F, p) THEN p ELSE Taken(p, FieldAt(F, i)) :
     p \in {p \in P : Ended(F, p) \/ CanTake(p, FieldAt(F, i))}}

TakeAll(F, n, t) ==
  LET after[i \in 0 .. n] == IF i = 0 THEN {[rest |-> t, values |-> <<>>]}
                             ELSE TakeNext(F, after[i - 1], i)
  IN  after[n]

Parse(F, t) ==
  CASE F.item = <<>> -> TakeAll(F, Len(F.head), t)
    [] F.item # <<>> /\ F.count > 0 ->
         UNION {TakeAll(F, Atoi(p.values[1]) * Len(F.item), p.rest) :
                  p \in TakeAll(Fields(<<N(F.count)>>), 1, t)}
    [] OTHER -> TakeAll(F, 3 * Len(F.item), t)

=============================================================================
