------------------------------- MODULE Exchange -------------------------------
(***************************************************************************)
(* One client and its thread of the server, a message at a time: what is   *)
(* written, how much of it a receive finds, what the other side makes of   *)
(* it, and a question from its making (Question.cpp) over the page to the  *)
(* judgement of the answer.                                                *)
(*                                                                         *)
(* What the replies say is any data the server may have.  A side that was  *)
(* led astray by a message, or received something else than one message,   *)
(* is followed to the end of that step.                                    *)
(***************************************************************************)
EXTENDS Wire, Functions, FiniteSets

CONSTANTS
  Lengths,   \* lengths of the names people type
  Zeros,     \* zeros people type before a number
  Numbers,   \* numbers of the server
  Counts,    \* lengths of its list of rooms
  Ahead,     \* units of the stream that may arrive before the others
  Begins,    \* bound: units before which that may happen
  Unwritten, \* what the bytes may be that a receive did not write
  MaxDue     \* bound: requests the server has not handled

ASSUME ExchangeAssumption ==
  /\ Lengths \subseteq 0 .. 999 /\ Zeros \subseteq Nat
  /\ Numbers \subseteq {n \in Nat : n < Ten(6)} /\ Counts \subseteq 0 .. 999
  /\ Ahead \subseteq Nat \ {0} /\ Unwritten \subseteq Digit \cup {Letter}
  /\ MaxDue \in Nat \ {0}

VARIABLES
  page,       \* of the client: menu, room or game, or an exception
  waiting,    \* messages the client still receives before it does anything else
  shown,      \* the question on the page: its text and the four answers
  clicked,    \* the text of the answer that was clicked
  due,        \* requests sent and not handled
  travelling, \* what of them is on its way, as one stream
  arrived,    \* what of them the server can receive
  thread,     \* the thread of the server: the message it builds
  drawn,      \* Question: the places of the correct answer, the second, ...
  down,       \* the replies on their way, as one stream
  owed,       \* history: the replies in that stream, as they were meant
  handled,    \* history: the request handled in this step, as it was meant and as it came
  read,       \* history: the reply read in this step, as it was meant and as it came
  off         \* history: a value did not fit, or a receive was not what it was meant to be

client == <<page, waiting, shown, clicked>>
server == <<thread, drawn>>
vars == <<client, due, travelling, arrived, server, down, owed, handled, read, off>>

-----------------------------------------------------------------------------
Message(code, values) == [code |-> code, values |-> values]
Nothing == [meant |-> Message(0, <<>>), got |-> Message(0, <<>>)]

\* A number as somebody types it
Typed(n) == {[i \in 1 .. z |-> 0] \o Digits(n) : z \in Zeros}

Names == {Letters(n) : n \in Lengths}

\* Names on the server came in fields of two digits.
Known == {t \in Names : Len(t) \in 1 .. 99}

Quiet == handled' = Nothing /\ read' = Nothing

Pages == {"menu", "room", "game", "error"}

NotAsked == -1  \* the length of the next part was not read yet
Building(code) == [at |-> "parts", code |-> code, values |-> <<>>, size |-> NotAsked]
Idle == [at |-> "code", code |-> 0, values |-> <<>>, size |-> NotAsked]

-----------------------------------------------------------------------------
(* Question *)
AnswerText(j) == Letters(j)  \* 1 is the correct one
QuestionText == Letters(12)

\* The four answers in their places, and the question before them
QuestionMessage ==
  Message(Question, <<QuestionText>> \o
    [p \in 1 .. 4 |-> AnswerText(CHOOSE j \in 1 .. 4 : drawn[j] = p - 1)])

JudgeIndex(n) == n = drawn[1]  \* places from 0, answers from 1

\* handleAnswerFromUser: answerNo == getCorrectAnswerIndex() + 1
Judge(n) == n = drawn[1] + 1

-----------------------------------------------------------------------------
(* The client *)

\* What each page sends
Requested ==
  CASE page = "menu" ->
         {Message(SignIn, <<u, w>>) : u \in Names, w \in Names}
         \cup {Message(SignUp, <<u, w, Letters(9)>>) : u \in Names, w \in Names}
         \cup {Message(ForgotPassword, <<u>>) : u \in Names}
         \cup {Message(JoinRoom, <<Digits(n)>>) : n \in Numbers}
         \cup {Message(CreateRoom, <<u, k, q, t>>) :
                 u \in Names, k \in Typed(9), q \in Typed(10), t \in Typed(7)}
         \cup {Message(code, <<>>) : code \in {AllRoomsList, BestScores, PersonalState}}
    [] page = "room" -> {Message(StartGame, <<>>)}
    [] page = "game" -> {Message(Answer, <<Digits(b), t>>) :
                           b \in 1 .. 5, t \in {Digits(0), Digits(99)}}
    [] page = "error" -> {}

Deliver(r) == /\ due' = Append(due, r)
              /\ travelling' = travelling \o Write(Stringed(r.code), r)

\* An answer is followed by its result and by the next message of the game.
Send(r) ==
  /\ waiting = 0 /\ Len(due) < MaxDue /\ ~off
  /\ Deliver(r)
  /\ Quiet
  /\ waiting' = IF r.code = Answer THEN 2 ELSE 1
  /\ clicked' = IF r.code = Answer /\ r.values[1] # Digits(5)
                  THEN shown[Atoi(r.values[1]) + 1] ELSE <<>>
  /\ UNCHANGED <<page, shown, arrived, server, down, owed, off>>

\* Units of a text the programs receive: a code is three bytes.
Bytes(t) == Len(t) + 2 * Cardinality({i \in DOMAIN t : t[i] > Letter})

ReplyText(m) == Write(Built(m.code), m)

\* A handler sends two replies at most.
ReplyTexts(s) == CASE Len(s) = 0 -> <<>>
                   [] Len(s) = 1 -> ReplyText(s[1])
                   [] OTHER      -> ReplyText(s[1]) \o ReplyText(s[2])

\* A receive takes what has arrived of the replies, as far as its buffer goes:
\* the first one, a beginning of it, or it and others behind it.
Found ==
  {k \in Ahead \cup {Len(ReplyText(Head(owed))), Len(down), Buffer} :
     k \in 1 .. Len(down) /\ Bytes(SubSeq(down, 1, k)) <= 1024}

\* Replies the pages compare as a whole (Login.xaml.cs:75-95, SignUp.xaml.cs:59-82,
\* Classes.cs:327, Game.xaml.cs:108), and what such a page makes of another text
Compared == {SignInReply, SignUpReply, ForgotReply, TrueFalse}
Unlike == {[rest |-> <<>>, values |-> << <<9>> >>]}

Seen(code, whole, got) ==
  IF code \in Compared /\ ~whole THEN Unlike ELSE Parse(Parametered(code, got), got)

\* SendBackToServer and the other receives: k units, parsed as the reply the page
\* expects; what is behind that reply is dropped.  (Two pages keep the zeros that
\* fill the buffer: a name cut short shows them there, where this one throws.)
\* The page of the game leaves at the end by itself.
Take(k) ==
  LET m == Head(owed)
      whole == k = Len(ReplyText(m))
      got == SubSeq(down, 2, k)
      F == Parametered(m.code, got)
  IN
  /\ down' = SubSeq(down, k + 1, Len(down))
  /\ owed' = Tail(owed)
  /\ off' = (~whole \/ ~Fits(F, m))
  /\ \/ \E p \in Seen(m.code, whole, got) :
          /\ read' = [meant |-> m, got |-> Meaning(F, Message(m.code, p.values))]
          /\ waiting' = IF m.code = Joined /\ p.values[1] = <<0>> THEN 1 ELSE waiting - 1
          /\ page' = CASE m.code = Created -> "room"
                       [] m.code = Question -> "game"
                       [] m.code = EndGame -> "menu"
                       [] OTHER -> page
          /\ shown' = CASE m.code = Question -> p.values
                        [] m.code = EndGame -> <<>>
                        [] OTHER -> shown
          /\ IF m.code = EndGame THEN Deliver(Message(LeaveGame, <<>>))
             ELSE UNCHANGED <<due, travelling>>
     \/ /\ Seen(m.code, whole, got) = {}
        /\ page' = "error"
        /\ read' = Nothing
        /\ UNCHANGED <<waiting, shown, due, travelling>>
  /\ UNCHANGED <<clicked, arrived, server>>
  /\ handled' = Nothing

Receive ==
  /\ waiting > 0 /\ down # <<>> /\ page # "error" /\ ~off
  /\ \E k \in Found : Take(k)

-----------------------------------------------------------------------------
(* The network: a stream, of which all arrives or a beginning. *)
Arrive ==
  /\ travelling # <<>>
  /\ \E k \in {Len(travelling)} \cup
              {k \in Ahead : k < Len(travelling) /\ Head(travelling) \in Begins} :
       /\ arrived' = arrived \o SubSeq(travelling, 1, k)
       /\ travelling' = SubSeq(travelling, k + 1, Len(travelling))
  /\ UNCHANGED <<client, due, server, down, owed, off>>
  /\ Quiet

-----------------------------------------------------------------------------
(* The thread of the server *)

\* getMessageTypeCode.  A code nobody knows makes a null message, and the thread
\* ends with the process.
ReadCode ==
  /\ thread.at = "code" /\ arrived # <<>>
  /\ arrived' = Tail(arrived)
  /\ thread' = IF Head(arrived) \in Requests THEN Building(Head(arrived))
               ELSE [Idle EXCEPT !.at = "gone"]
  /\ off' = (off \/ ~Fits(Read(Head(due).code), Head(due)))
  /\ UNCHANGED <<client, due, travelling, drawn, down, owed>>
  /\ Quiet

Part == Read(thread.code).head[Len(thread.values) + 1]

\* The bytes the next receive asks for
Wanted == IF Part.sized /\ thread.size # NotAsked THEN thread.size ELSE Part.w

\* getPartFromSocket.  Nothing is received where nothing is wanted; a short
\* receive leaves the rest of its part unwritten.
ReadPart ==
  LET n == IF Wanted < Len(arrived) THEN Wanted ELSE Len(arrived) IN
  /\ thread.at = "parts" /\ Len(thread.values) < Len(Read(thread.code).head)
  /\ Wanted > 0 => arrived # <<>>
  /\ arrived' = SubSeq(arrived, n + 1, Len(arrived))
  /\ off' = (off \/ n < Wanted)
  /\ \E c \in IF n < Wanted THEN Unwritten ELSE {0} :
       LET part == SubSeq(arrived, 1, n) \o [i \in 1 .. Wanted - n |-> c] IN
       thread' = IF Part.sized /\ thread.size = NotAsked
                   THEN [thread EXCEPT !.size = Atoi(part)]
                   ELSE [thread EXCEPT !.size = NotAsked, !.values = Append(@, part)]
  /\ UNCHANGED <<client, due, travelling, drawn, down, owed>>
  /\ Quiet

\* What the handler of a message may send: lists of what the server knows.
Replies(m) ==
  CASE m.code = SignIn -> {<<Message(SignInReply, <<Digits(d)>>)>> : d \in 0 .. 2}
    [] m.code = SignUp -> {<<Message(SignUpReply, <<Digits(d)>>)>> : d \in 0 .. 4}
    [] m.code = ForgotPassword -> {<<Message(ForgotReply, <<Digits(d)>>)>> : d \in 0 .. 1}
    [] m.code = AllRoomsList ->
         {<<Message(Rooms, [i \in 1 .. 2 * n |-> IF i % 2 = 1 THEN Digits((i + 1) \div 2) ELSE u])>> :
            n \in Counts, u \in Known}
    [] m.code = JoinRoom ->
         {<<Message(Joined, <<Digits(d)>>)>> : d \in 1 .. 2}
         \cup {<<Message(Joined, <<Digits(0), Digits(10), Digits(7), Digits(9)>>),
                 Message(RoomUsers, [i \in 1 .. k |-> u])>> : k \in {2, 9}, u \in Known}
    [] m.code = CreateRoom ->
         {<<Message(Created, <<Digits(0), Digits(n)>>)>> : n \in Numbers}
    [] m.code = StartGame -> {<<QuestionMessage>>}
    [] m.code = Answer ->
         {<<Message(TrueFalse, <<IF Judge(Atoi(m.values[1])) THEN <<1>> ELSE <<0>> >>),
            Message(EndGame, <<u, Digits(n), u, Digits(0)>>)>> : u \in Known, n \in Numbers}
    [] m.code = BestScores ->
         {<<Message(Scores, [i \in 1 .. 2 * k |-> IF i % 2 = 1 THEN u ELSE Digits(n)])>> :
            k \in 0 .. 3, u \in Known, n \in Numbers}
    [] m.code = PersonalState ->
         {<<Message(Status, <<Digits(n), Digits(7), Digits(n), Digits(3)>>)>> : n \in Numbers}
    [] OTHER -> {<<>>}

Reply(m) ==
  \E s \in Replies(m) :
    /\ owed' = owed \o s
    /\ down' = down \o ReplyTexts(s)

\* handleReceivedMessage.  The questions of a room are made before it is answered.
Handle ==
  LET m == Message(thread.code, thread.values) IN
  /\ thread.at = "parts" /\ Len(thread.values) = Len(Read(thread.code).head)
  /\ due # <<>>
  /\ due' = Tail(due)
  /\ handled' = [meant |-> Meaning(Read(Head(due).code), Head(due)),
                 got |-> Meaning(Read(thread.code), m)]
  /\ \/ /\ off
        /\ thread' = [Idle EXCEPT !.at = "gone"]
        /\ UNCHANGED <<down, owed, drawn>>
     \/ /\ ~off /\ thread.code = CreateRoom
        /\ thread' = [Idle EXCEPT !.at = "question"]
        /\ drawn' = <<>>
        /\ UNCHANGED <<down, owed>>
     \/ /\ ~off /\ thread.code # CreateRoom
        /\ Reply(m)
        /\ thread' = Idle
        /\ drawn' = IF thread.code = Answer THEN <<>> ELSE drawn
  /\ read' = Nothing
  /\ UNCHANGED <<client, travelling, arrived, off>>

FreeAny(p) == TRUE  \* no loop around rand

FreeOfThree(p) == p < 3 /\ \A j \in DOMAIN drawn : drawn[j] # p  \* rand() % 3

Free(p) == \A j \in DOMAIN drawn : drawn[j] # p

\* Question::Question: rand() % 4 until the place is free
Draw(p) ==
  /\ thread.at = "question" /\ Len(drawn) < 4
  /\ Free(p)
  /\ drawn' = Append(drawn, p)
  /\ UNCHANGED <<client, due, travelling, arrived, thread, down, owed, off>>
  /\ Quiet

AnswerCreate ==
  /\ thread.at = "question" /\ Len(drawn) = 4
  /\ Reply(Message(CreateRoom, <<>>))
  /\ thread' = Idle
  /\ UNCHANGED <<client, due, travelling, arrived, drawn, off>>
  /\ Quiet

-----------------------------------------------------------------------------
Init ==
  /\ page = "menu" /\ waiting = 0 /\ shown = <<>> /\ clicked = <<>>
  /\ due = <<>> /\ travelling = <<>> /\ arrived = <<>>
  /\ thread = Idle /\ drawn = <<>>
  /\ down = <<>> /\ owed = <<>>
  /\ handled = Nothing /\ read = Nothing
  /\ off = FALSE

Serve == ReadCode \/ ReadPart \/ Handle \/ AnswerCreate

Next == \/ \E r \in Requested : Send(r)
        \/ Receive \/ Arrive \/ Serve
        \/ \E p \in 0 .. 3 : Draw(p)

Spec == Init /\ [][Next]_vars

\* What was sent arrives, threads are scheduled, and rand() gets to every value.
FairSpec == /\ Spec
            /\ WF_vars(Receive) /\ WF_vars(Arrive) /\ WF_vars(Serve)
            /\ \A p \in 0 .. 3 : WF_vars(Draw(p))

-----------------------------------------------------------------------------
(* Properties *)

\* Every variable keeps its type; no place is drawn twice.
TypeOK ==
  /\ page \in Pages /\ waiting \in 0 .. 2
  /\ off \/ Len(shown) \in {0, 5}
  /\ Len(due) \in 0 .. MaxDue + 1
  /\ thread.at \in {"code", "parts", "question", "gone"}
  /\ thread.code \in Requests \cup {0}
  /\ drawn \in Seq(0 .. 3) /\ IsInjective(drawn)
  /\ off \in BOOLEAN

\* As long as everything fits its field and every receive found what it was meant
\* to, the server handles exactly what the client asked for, whatever was asked
\* before: the code, the texts, the values of the numbers.  Empty texts, which are
\* not received at all (Helper.cpp:65), and numbers typed with zeros that fit are no
\* exception.
HandledAsSent == ~off => handled.meant = handled.got

\* As long as everything fits its field and the buffer, and a receive finds one
\* reply, the client reads exactly what the server wrote, from every reply, a list
\* of scores that ends anywhere included.
ShownAsBuilt == ~off => read.meant = read.got /\ page # "error"

\* Wherever the shuffle puts the answers, the page shows each of them once, and the
\* click that is called right is the click on the correct one (Question.cpp:9-25,
\* Game.cpp:151): the places count from 0 and the buttons from 1.  A wrong click is
\* never called right, even if the verdict came in pieces or together with the
\* message behind it, when a right one is called wrong (Game.xaml.cs:108).
JudgedByText ==
  /\ ~off /\ page = "game" => {shown[i] : i \in 2 .. 5} = {AnswerText(j) : j \in 1 .. 4}
  /\ read.meant.code = TrueFalse =>
       /\ read.got.values[1] = Digits(1) => clicked = AnswerText(1)
       /\ ~off /\ clicked = AnswerText(1) => read.got.values[1] = Digits(1)

\* Unless a value did not fit or a receive found something else than one message,
\* every request is answered and the client gets on: nobody waits for more bytes
\* than were sent, and the shuffle ends.  A receive that takes two replies at once
\* is the exception to see here: the page waits for the one it threw away
\* (Game.xaml.cs:143).
AnsweredInTheEnd == waiting > 0 ~> waiting = 0 \/ off

=============================================================================
