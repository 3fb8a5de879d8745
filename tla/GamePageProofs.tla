----------------------------- MODULE GamePageProofs -----------------------------
(***************************************************************************)
(* Proofs about GamePage, for every number of players and of questions,    *)
(* with clocks that run out and receives that return several messages.     *)
(***************************************************************************)
EXTENDS GamePage, FiniteSetTheorems, SequenceTheorems, TLAPS

\* The places of the replies to right answers in what is on its way
Rights(s) == {i \in DOMAIN s : s[i] = TrueFalse(TRUE)}

\* Every right answer the server counted for u was counted by the page, is on
\* its way, or was missed.
Counted ==
  \A u \in Player : correctAnswers[u] + Cardinality(Rights(stream[u])) <= results[u]

\* All that was sent to u is on its way: a reply, if its window waits for one,
\* and nothing after it.
Waits(u) ==
  /\ requests[u] = <<>>
  /\ \/ /\ ui[u] = "next" /\ stream[u] = <<>> /\ results[u] = correctAnswers[u]
     \/ /\ ui[u] = "reply"
        /\ \E right \in BOOLEAN :
             /\ stream[u] = <<TrueFalse(right)>>
             /\ results[u] = correctAnswers[u] + (IF right THEN 1 ELSE 0)

\* The same, and m after it
Expects(u, m) ==
  /\ requests[u] = <<>>
  /\ \/ /\ ui[u] = "next" /\ stream[u] = <<m>> /\ results[u] = correctAnswers[u]
     \/ /\ ui[u] = "reply"
        /\ \E right \in BOOLEAN :
             /\ stream[u] = <<TrueFalse(right), m>>
             /\ results[u] = correctAnswers[u] + (IF right THEN 1 ELSE 0)

\* u has the question of its copy on the page.
Chooses(u) ==
  /\ ui[u] = "choosing" /\ requests[u] = <<>> /\ stream[u] = <<>>
  /\ shown[u] = index[u] /\ results[u] = correctAnswers[u]

\* u has answered it.
Sent(u) ==
  /\ ui[u] = "reply" /\ stream[u] = <<>> /\ results[u] = correctAnswers[u]
  /\ \E choice \in {"right", "wrong"} :
       requests[u] = <<[index |-> index[u], choice |-> choice]>>

\* u took two messages for one, and waits for what it has received.
Swallowed(u) ==
  u \in merged /\ ui[u] = "next" /\ stream[u] = <<>> /\ requests[u] = <<>>

\* u has question i to answer ...
Asked(u, i) ==
  /\ index[u] = i
  /\ \/ u \notin merged /\ (Expects(u, Question(i)) \/ Chooses(u) \/ Sent(u))
     \/ Swallowed(u)

\* ... or waits for the others to.
Answered(u, i) == u \notin merged /\ index[u] = i + 1 /\ Waits(u)

Ahead(i) == {u \in Player : index[u] = i + 1}

\* The turn of question i
InTurn(i) ==
  /\ inGame = Player
  /\ \A u \in Player : Asked(u, i) \/ Answered(u, i)
  /\ turnAnswers = Cardinality(Ahead(i)) /\ turnAnswers < Cardinality(Player)

\* The end of the game is on its way to u, or was read.
Ends(u) ==
  \/ u \notin merged /\ Expects(u, EndGame)
  \/ /\ u \notin merged /\ ui[u] = "home" /\ stream[u] = <<>> /\ requests[u] = <<>>
     /\ results[u] = correctAnswers[u]
  \/ Swallowed(u)

\* As long as no clock ran out, all players are in one turn or at the end, and
\* everyone has the messages its place in the code is for.
Played ==
  late = {} =>
    /\ up /\ \A u \in Player : clocks[u] = 0
    /\ (\A u \in Player : Ends(u)) \/ \E i \in 0 .. QuestionNo - 1 : InTurn(i)

\* The inductive invariant
GamePageInv == TypeOK /\ Counted /\ Played

-----------------------------------------------------------------------------
(* Messages and sequences of them *)

LEMMA MessagesApart ==
  /\ \A i \in Nat : /\ Question(i) \in Messages /\ Question(i).type = "question"
                    /\ Question(i).index = i /\ Question(i) # TrueFalse(TRUE)
  /\ EndGame \in Messages /\ EndGame.type = "end" /\ EndGame # TrueFalse(TRUE)
  /\ \A right \in BOOLEAN : /\ TrueFalse(right) \in Messages
                            /\ TrueFalse(right).type = "reply"
                            /\ TrueFalse(right) = TrueFalse(TRUE) <=> right
<1>1. \A i \in Nat : /\ Question(i) \in Messages /\ Question(i).type = "question"
                     /\ Question(i).index = i
  BY DEF Question, Messages
<1>2. EndGame \in Messages /\ EndGame.type = "end"
  BY DEF EndGame, Messages
<1>3. \A right \in BOOLEAN : /\ TrueFalse(right) \in Messages
                             /\ TrueFalse(right).type = "reply"
                             /\ TrueFalse(right).right = right
  BY DEF TrueFalse, Messages
<1> QED
  BY <1>1, <1>2, <1>3

\* A message joins a stream.
LEMMA Joined ==
  ASSUME NEW s \in Seq(Messages), NEW m \in Messages
  PROVE  /\ s \o <<m>> \in Seq(Messages) /\ s \o <<>> = s
         /\ Cardinality(Rights(s)) \in Nat
         /\ Cardinality(Rights(s \o <<m>>)) =
              Cardinality(Rights(s)) + (IF m = TrueFalse(TRUE) THEN 1 ELSE 0)
<1>1. PICK k \in Nat : k = Len(s)
  OBVIOUS
<1>2. DOMAIN s = 1 .. k
  BY <1>1
<1>3. /\ s \o <<m>> \in Seq(Messages) /\ s \o <<>> = s
      /\ DOMAIN (s \o <<m>>) = 1 .. k + 1
      /\ \A i \in 1 .. k : (s \o <<m>>)[i] = s[i]
      /\ (s \o <<m>>)[k + 1] = m
  BY <1>1
<1>4. IsFiniteSet(Rights(s))
  <2>1. IsFiniteSet(1 .. k)
    BY FS_Interval
  <2>2. Rights(s) \in SUBSET (1 .. k)
    BY <1>2 DEF Rights
  <2> QED
    BY <2>1, <2>2, FS_Subset
<1>5. k + 1 \notin Rights(s)
  <2>1. k + 1 \notin 1 .. k
    OBVIOUS
  <2> QED
    BY <1>2, <2>1 DEF Rights
<1>6. Rights(s \o <<m>>) = IF m = TrueFalse(TRUE) THEN Rights(s) \cup {k + 1} ELSE Rights(s)
  <2>1. \A i \in 1 .. k + 1 : i \in 1 .. k \/ i = k + 1
    OBVIOUS
  <2>2. \A i \in 1 .. k : i \in 1 .. k + 1
    OBVIOUS
  <2>3. k + 1 \in 1 .. k + 1
    OBVIOUS
  <2> QED
    BY <1>2, <1>3, <1>5, <2>1, <2>2, <2>3 DEF Rights
<1>7. Cardinality(Rights(s)) \in Nat
  BY <1>4, FS_CardinalityType
<1>8. Cardinality(Rights(s) \cup {k + 1}) = Cardinality(Rights(s)) + 1
  BY <1>4, <1>5, FS_AddElement
<1>9. Cardinality(Rights(s \o <<m>>)) =
        Cardinality(Rights(s)) + (IF m = TrueFalse(TRUE) THEN 1 ELSE 0)
  <2>1. CASE m = TrueFalse(TRUE)
    BY <1>6, <1>8, <2>1
  <2>2. CASE m # TrueFalse(TRUE)
    <3>1. Rights(s \o <<m>>) = Rights(s)
      BY <1>6, <2>2
    <3> QED
      BY <1>7, <2>2, <3>1
  <2> QED
    BY <2>1, <2>2
<1> QED
  BY <1>3, <1>7, <1>9

\* Messages are received.
LEMMA TakenOff ==
  ASSUME NEW s \in Seq(Messages), NEW n \in 1 .. Len(s)
  PROVE  /\ SubSeq(s, n + 1, Len(s)) \in Seq(Messages)
         /\ Head(s) \in Messages /\ Head(s) = s[1]
         /\ Cardinality(Rights(SubSeq(s, n + 1, Len(s))))
              + (IF Head(s) = TrueFalse(TRUE) THEN 1 ELSE 0) <= Cardinality(Rights(s))
         /\ Cardinality(Rights(SubSeq(s, n + 1, Len(s)))) \in Nat
<1>1. PICK k \in Nat : k = Len(s)
  OBVIOUS
<1>2. DOMAIN s = 1 .. k /\ n \in 1 .. k /\ k - n \in Nat /\ 1 \in 1 .. k
  BY <1>1
<1>3. PICK t : t = SubSeq(s, n + 1, k)
  OBVIOUS
<1>4. /\ t \in Seq(Messages) /\ DOMAIN t = 1 .. k - n
      /\ \A i \in 1 .. k - n : t[i] = s[i + n]
  <2>1. \A i \in n + 1 .. k : s[i] \in Messages
    BY <1>1, <1>2
  <2>2. /\ t \in Seq(Messages)
        /\ Len(t) = IF n + 1 <= k THEN k - (n + 1) + 1 ELSE 0
        /\ \A i \in 1 .. k - (n + 1) + 1 : t[i] = s[n + 1 + i - 1]
    BY <1>2, <1>3, <2>1, SubSeqProperties
  <2>3. Len(t) = k - n
    BY <1>2, <2>2
  <2>4. \A i \in 1 .. k - n : i \in 1 .. k - (n + 1) + 1 /\ n + 1 + i - 1 = i + n
    BY <1>2
  <2> QED
    BY <1>2, <2>2, <2>3, <2>4
<1>5. Head(s) \in Messages /\ Head(s) = s[1]
  BY <1>1, <1>2
<1>6. IsFiniteSet(Rights(s)) /\ Cardinality(Rights(s)) \in Nat
  <2>1. IsFiniteSet(1 .. k)
    BY FS_Interval
  <2>2. Rights(s) \in SUBSET (1 .. k)
    BY <1>2 DEF Rights
  <2> QED
    BY <2>1, <2>2, FS_Subset, FS_CardinalityType
<1>7. PICK R : R = Rights(s) \ {1}
  OBVIOUS
<1>8. /\ IsFiniteSet(R) /\ Cardinality(R) \in Nat
      /\ Cardinality(R) = IF 1 \in Rights(s) THEN Cardinality(Rights(s)) - 1
                          ELSE Cardinality(Rights(s))
  BY <1>6, <1>7, FS_RemoveElement, FS_CardinalityType
<1>9. Cardinality(Rights(t)) <= Cardinality(R) /\ IsFiniteSet(Rights(t))
  <2> DEFINE f == [i \in Rights(t) |-> i + n]
  <2>1. \A i \in Rights(t) : i \in 1 .. k - n /\ s[i + n] = TrueFalse(TRUE)
    BY <1>4 DEF Rights
  <2>2. \A i \in 1 .. k - n : i + n \in 1 .. k /\ i + n # 1
    BY <1>2
  <2>3. \A i \in Rights(t) : f[i] = i + n /\ i + n \in R
    BY <1>2, <1>7, <2>1, <2>2 DEF Rights
  <2>4. f \in [Rights(t) -> R]
    BY <2>3
  <2>5. \A i, j \in Rights(t) : f[i] = f[j] => i = j
    <3> SUFFICES ASSUME NEW i \in Rights(t), NEW j \in Rights(t), i + n = j + n PROVE i = j
      BY <2>3
    <3>1. i \in Nat /\ j \in Nat /\ n \in Nat
      <4>1. k \in Nat /\ n \in Nat
        BY <1>1, <1>2
      <4>2. i \in 1 .. k - n /\ j \in 1 .. k - n
        BY <2>1
      <4> QED
        BY <4>1, <4>2
    <3> QED
      BY <3>1
  <2> HIDE DEF f
  <2>6. f \in Injection(Rights(t), R)
    BY <2>4, <2>5 DEF Injection, IsInjective
  <2> QED
    BY <1>8, <2>6, FS_Injection
<1>10. Cardinality(Rights(t)) \in Nat
  BY <1>9, FS_CardinalityType
<1>11. 1 \in Rights(s) <=> Head(s) = TrueFalse(TRUE)
  BY <1>2, <1>5 DEF Rights
<1>12. Cardinality(Rights(t)) + (IF Head(s) = TrueFalse(TRUE) THEN 1 ELSE 0)
         <= Cardinality(Rights(s))
  <2>1. PICK a \in Nat, b \in Nat, c \in Nat :
          a = Cardinality(Rights(t)) /\ b = Cardinality(R) /\ c = Cardinality(Rights(s))
    BY <1>6, <1>8, <1>10
  <2>2. a <= b /\ b = IF Head(s) = TrueFalse(TRUE) THEN c - 1 ELSE c
    BY <1>8, <1>9, <1>11, <2>1
  <2>3. a + (IF Head(s) = TrueFalse(TRUE) THEN 1 ELSE 0) <= c
    <3>1. CASE Head(s) = TrueFalse(TRUE)
      <4>1. a <= c - 1
        BY <2>2, <3>1
      <4> QED
        BY <3>1, <4>1
    <3>2. CASE Head(s) # TrueFalse(TRUE)
      BY <2>2, <3>2
    <3> QED
      BY <3>1, <3>2
  <2> QED
    BY <2>1, <2>3
<1> QED
  BY <1>1, <1>3, <1>4, <1>5, <1>10, <1>12

\* The short streams of a player in step
LEMMA ShortStreams ==
  ASSUME NEW m \in Messages, NEW p \in Messages
  PROVE  /\ Len(<<m>>) = 1 /\ Head(<<m>>) = m /\ SubSeq(<<m>>, 2, 1) = <<>>
         /\ Len(<<m, p>>) = 2 /\ Head(<<m, p>>) = m
         /\ SubSeq(<<m, p>>, 2, 2) = <<p>> /\ SubSeq(<<m, p>>, 3, 2) = <<>>
         /\ <<>> \o <<m>> = <<m>> /\ <<m>> \o <<>> = <<m>> /\ <<>> \o <<>> = <<>>
         /\ <<m>> \o <<p>> = <<m, p>>
<1>1. /\ Len(<<m>>) = 1 /\ Head(<<m>>) = m
      /\ Len(<<m, p>>) = 2 /\ Head(<<m, p>>) = m
  OBVIOUS
<1>2. SubSeq(<<m>>, 2, 1) = <<>> /\ SubSeq(<<m, p>>, 3, 2) = <<>>
  BY SubSeqEmpty
<1>3. <<m>> \in Seq(Messages) /\ <<p>> \in Seq(Messages) /\ <<m, p>> \in Seq(Messages)
  OBVIOUS
<1>4. SubSeq(<<m, p>>, 2, 2) = <<p>>
  <2>1. /\ SubSeq(<<m, p>>, 2, 2) \in Seq(Messages)
        /\ Len(SubSeq(<<m, p>>, 2, 2)) = 1
        /\ SubSeq(<<m, p>>, 2, 2)[1] = <<m, p>>[2]
    <3>1. \A i \in 2 .. 2 : <<m, p>>[i] \in Messages
      OBVIOUS
    <3>2. /\ SubSeq(<<m, p>>, 2, 2) \in Seq(Messages)
          /\ Len(SubSeq(<<m, p>>, 2, 2)) = IF 2 <= 2 THEN 2 - 2 + 1 ELSE 0
          /\ \A i \in 1 .. 2 - 2 + 1 : SubSeq(<<m, p>>, 2, 2)[i] = <<m, p>>[2 + i - 1]
      BY <3>1, SubSeqProperties
    <3> QED
      BY <3>2
  <2>2. \A i \in 1 .. 1 : SubSeq(<<m, p>>, 2, 2)[i] = <<p>>[i]
    BY <2>1
  <2> QED
    BY <1>3, <2>1, <2>2, SeqEqual
<1>5. <<>> \o <<m>> = <<m>> /\ <<m>> \o <<>> = <<m>> /\ <<>> \o <<>> = <<>>
  OBVIOUS
<1>6. <<m>> \o <<p>> = <<m, p>>
  <2>1. /\ <<m>> \o <<p>> \in Seq(Messages) /\ Len(<<m>> \o <<p>>) = 2
        /\ \A i \in 1 .. 2 : (<<m>> \o <<p>>)[i] = <<m, p>>[i]
    <3>1. Len(<<m>>) = 1 /\ Len(<<p>>) = 1 /\ 1 + 1 = 2
      OBVIOUS
    <3>2. /\ <<m>> \o <<p>> \in Seq(Messages) /\ Len(<<m>> \o <<p>>) = 2
          /\ \A i \in 1 .. 2 : (<<m>> \o <<p>>)[i] = IF i <= 1 THEN <<m>>[i] ELSE <<p>>[i - 1]
      BY <1>3, <3>1, ConcatProperties
    <3>3. \A i \in 1 .. 2 : i = 1 \/ i = 2
      OBVIOUS
    <3> QED
      BY <3>2, <3>3
  <2>2. Len(<<m, p>>) = 2
    OBVIOUS
  <2> QED
    BY <1>3, <2>1, <2>2, SeqEqual
<1> QED
  BY <1>1, <1>2, <1>4, <1>5, <1>6

-----------------------------------------------------------------------------
(* What the actions do to the streams and to those who do not act *)

\* What the last answer of a turn makes the server send to everybody
News(u) == IF index[u] + 1 = QuestionNo THEN EndGame ELSE Question(index[u] + 1)

LEMMA NewsBroadcast ==
  ASSUME TypeOK, NEW u \in Player, NEW last \in BOOLEAN
  PROVE  /\ News(u) \in Messages /\ News(u) # TrueFalse(TRUE)
         /\ \A v \in Player : Broadcast(u, last)[v] = IF last THEN <<News(u)>> ELSE <<>>
<1>1. index[u] + 1 \in Nat
  BY GamePageAssumption DEF TypeOK
<1>2. News(u) \in Messages /\ News(u) # TrueFalse(TRUE)
  BY <1>1, MessagesApart DEF News
<1>3. \A v \in Player : Broadcast(u, last)[v] = IF last THEN <<News(u)>> ELSE <<>>
  BY DEF Broadcast, ToAll, News
<1> QED
  BY <1>2, <1>3

\* The reply and the news join the streams.
LEMMA StreamsGrow ==
  ASSUME TypeOK, NEW u \in Player, NEW right \in BOOLEAN, NEW last \in BOOLEAN,
         NEW m \in Messages, m # TrueFalse(TRUE),
         stream' = [v \in Player |->
           stream[v] \o (IF v = u THEN <<TrueFalse(right)>> ELSE <<>>)
                     \o (IF last THEN <<m>> ELSE <<>>)]
  PROVE  /\ stream' \in [Player -> Seq(Messages)]
         /\ \A v \in Player :
              /\ Cardinality(Rights(stream[v])) \in Nat
              /\ Cardinality(Rights(stream'[v])) =
                   Cardinality(Rights(stream[v])) + (IF v = u /\ right THEN 1 ELSE 0)
<1> DEFINE first(v) == stream[v] \o (IF v = u THEN <<TrueFalse(right)>> ELSE <<>>)
           second(v) == first(v) \o (IF last THEN <<m>> ELSE <<>>)
<1>1. stream' = [v \in Player |-> second(v)]
  OBVIOUS
<1>2. ASSUME NEW v \in Player
      PROVE  /\ first(v) \in Seq(Messages)
             /\ Cardinality(Rights(stream[v])) \in Nat
             /\ Cardinality(Rights(first(v))) =
                  Cardinality(Rights(stream[v])) + (IF v = u /\ right THEN 1 ELSE 0)
  <2>1. PICK s \in Seq(Messages) : s = stream[v]
    BY DEF TypeOK
  <2>2. PICK r \in Messages : r = TrueFalse(right) /\ (r = TrueFalse(TRUE) <=> right)
    BY MessagesApart
  <2>3. /\ s \o <<r>> \in Seq(Messages) /\ s \o <<>> = s
        /\ Cardinality(Rights(s)) \in Nat
        /\ Cardinality(Rights(s \o <<r>>)) =
             Cardinality(Rights(s)) + (IF r = TrueFalse(TRUE) THEN 1 ELSE 0)
    BY Joined
  <2>4. CASE v = u
    <3>1. first(v) = s \o <<r>>
      BY <2>1, <2>2, <2>4
    <3> HIDE DEF first
    <3> QED
      BY <2>1, <2>2, <2>3, <2>4, <3>1
  <2>5. CASE v # u
    <3>1. first(v) = s
      BY <2>1, <2>3, <2>5
    <3> HIDE DEF first
    <3> QED
      BY <2>1, <2>3, <2>5, <3>1
  <2> QED
    BY <2>4, <2>5
<1> HIDE DEF first
<1>3. ASSUME NEW v \in Player
      PROVE  /\ second(v) \in Seq(Messages)
             /\ Cardinality(Rights(second(v))) = Cardinality(Rights(first(v)))
  <2>1. PICK s \in Seq(Messages) : s = first(v)
    BY <1>2
  <2>2. /\ s \o <<m>> \in Seq(Messages) /\ s \o <<>> = s
        /\ Cardinality(Rights(s)) \in Nat
        /\ Cardinality(Rights(s \o <<m>>)) =
             Cardinality(Rights(s)) + (IF m = TrueFalse(TRUE) THEN 1 ELSE 0)
    BY Joined
  <2>3. Cardinality(Rights(s \o <<m>>)) = Cardinality(Rights(s))
    BY <2>2
  <2>4. second(v) = IF last THEN s \o <<m>> ELSE s \o <<>>
    BY <2>1
  <2> HIDE DEF second
  <2> QED
    BY <2>1, <2>2, <2>3, <2>4
<1> HIDE DEF second
<1> QED
  BY <1>1, <1>2, <1>3

LEMMA AnswerHandled ==
  ASSUME TypeOK, NEW u \in Player, HandlePlayerAnswer(u)
  PROVE  /\ requests[u] # <<>> /\ up
         /\ requests' = [requests EXCEPT ![u] = Tail(requests[u])]
         /\ UNCHANGED <<ui, shown, ticking, clocks, correctAnswers, late, merged>>
         /\ \/ /\ u \notin inGame
               /\ UNCHANGED <<index, inGame, turnAnswers, results, up, stream>>
            \/ /\ u \in inGame /\ PastEnd(u) /\ up' = FALSE
               /\ UNCHANGED <<index, inGame, turnAnswers, results, stream>>
            \/ /\ u \in inGame /\ ~PastEnd(u) /\ UNCHANGED up
               /\ \E right \in BOOLEAN, last \in BOOLEAN :
                    /\ last = TurnOver
                    /\ results' = [results EXCEPT ![u] = IF right THEN @ + 1 ELSE @]
                    /\ stream' = [v \in Player |->
                         stream[v] \o (IF v = u THEN <<TrueFalse(right)>> ELSE <<>>)
                                   \o (IF last THEN <<News(u)>> ELSE <<>>)]
                    /\ IF last /\ index[u] + 1 = QuestionNo
                         THEN /\ inGame' = inGame \ {u}
                              /\ turnAnswers' = turnAnswers + 1 /\ UNCHANGED index
                         ELSE /\ index' = [index EXCEPT ![u] = @ + 1] /\ UNCHANGED inGame
                              /\ turnAnswers' = IF last THEN 0 ELSE turnAnswers + 1
<1>1. PICK last \in BOOLEAN : last = TurnOver
  BY DEF TurnOver
<1>2. \A v \in Player : Broadcast(u, last)[v] = IF last THEN <<News(u)>> ELSE <<>>
  BY NewsBroadcast
<1>3. Judgements(u, Head(requests[u])) \subseteq BOOLEAN
  BY DEF Judgements
<1>4. ASSUME NEW right \in BOOLEAN,
             stream' = [v \in Player |->
               stream[v] \o (IF v = u THEN <<TrueFalse(right)>> ELSE <<>>)
                         \o Broadcast(u, last)[v]]
      PROVE  stream' = [v \in Player |->
               stream[v] \o (IF v = u THEN <<TrueFalse(right)>> ELSE <<>>)
                         \o (IF last THEN <<News(u)>> ELSE <<>>)]
  BY <1>2, <1>4
<1>5. /\ requests[u] # <<>> /\ up
      /\ requests' = [requests EXCEPT ![u] = Tail(requests[u])]
      /\ UNCHANGED <<ui, shown, ticking, clocks, correctAnswers, late, merged>>
  BY DEF HandlePlayerAnswer, page, history, TypeOK
<1>6. CASE u \in inGame /\ ~PastEnd(u)
  <2>1. PICK right \in BOOLEAN :
          /\ results' = [results EXCEPT ![u] = IF right THEN @ + 1 ELSE @]
          /\ stream' = [v \in Player |->
               stream[v] \o (IF v = u THEN <<TrueFalse(right)>> ELSE <<>>)
                         \o Broadcast(u, last)[v]]
    BY <1>1, <1>3, <1>6 DEF HandlePlayerAnswer
  <2>2. /\ UNCHANGED up
        /\ IF last /\ index[u] + 1 = QuestionNo
             THEN /\ inGame' = inGame \ {u}
                  /\ turnAnswers' = turnAnswers + 1 /\ UNCHANGED index
             ELSE /\ index' = [index EXCEPT ![u] = @ + 1] /\ UNCHANGED inGame
                  /\ turnAnswers' = IF last THEN 0 ELSE turnAnswers + 1
    BY <1>1, <1>6 DEF HandlePlayerAnswer
  <2> QED
    BY <1>1, <1>4, <1>5, <1>6, <2>1, <2>2
<1>7. CASE ~(u \in inGame /\ ~PastEnd(u))
  BY <1>5, <1>7 DEF HandlePlayerAnswer, server
<1> QED
  BY <1>6, <1>7

LEMMA ReceivedBy ==
  ASSUME TypeOK, NEW u \in Player, NEW n \in 1 .. Len(stream[u]), Receive(u, n)
  PROVE  /\ stream' \in [Player -> Seq(Messages)]
         /\ stream'[u] = SubSeq(stream[u], n + 1, Len(stream[u]))
         /\ \A v \in Player \ {u} : stream'[v] = stream[v]
         /\ Head(stream[u]) \in Messages
         /\ Cardinality(Rights(stream'[u])) \in Nat
         /\ Cardinality(Rights(stream'[u]))
              + (IF Head(stream[u]) = TrueFalse(TRUE) THEN 1 ELSE 0)
              <= Cardinality(Rights(stream[u]))
         /\ merged' \subseteq Player
         /\ \A v \in Player \ {u} : v \in merged' <=> v \in merged
         /\ n = 1 => merged' = merged
         /\ n > 1 => u \in merged'
<1>1. PICK s \in Seq(Messages) : s = stream[u]
  BY DEF TypeOK
<1>2. PICK t : t = SubSeq(s, n + 1, Len(s))
  OBVIOUS
<1>3. /\ t \in Seq(Messages) /\ Head(s) \in Messages
      /\ Cardinality(Rights(t)) \in Nat
      /\ Cardinality(Rights(t)) + (IF Head(s) = TrueFalse(TRUE) THEN 1 ELSE 0)
           <= Cardinality(Rights(s))
  BY <1>1, <1>2, TakenOff
<1>4. stream' = [stream EXCEPT ![u] = t]
  BY <1>1, <1>2 DEF Receive, TypeOK
<1>5. /\ stream' \in [Player -> Seq(Messages)] /\ stream'[u] = t
      /\ \A v \in Player \ {u} : stream'[v] = stream[v]
  BY <1>3, <1>4 DEF TypeOK
<1>6. n \in Nat
  BY <1>1
<1>7. /\ merged' \subseteq Player
      /\ \A v \in Player \ {u} : v \in merged' <=> v \in merged
      /\ n = 1 => merged' = merged
      /\ n > 1 => u \in merged'
  BY <1>6 DEF Receive, TypeOK
<1> QED
  BY <1>1, <1>2, <1>3, <1>5, <1>7

\* Nothing of v changes.
Same(v) ==
  UNCHANGED <<index[v], requests[v], stream[v], ui[v], shown[v], results[v],
              correctAnswers[v], v \in merged>>

LEMMA ShapesStay ==
  ASSUME NEW v, Same(v)
  PROVE  /\ \A i : (Asked(v, i) => Asked(v, i)') /\ (Answered(v, i) => Answered(v, i)')
         /\ Ends(v) => Ends(v)'
<1>1. \A m : Expects(v, m) => Expects(v, m)'
  BY DEF Expects, Same
<1>2. /\ Waits(v) => Waits(v)'
      /\ Chooses(v) => Chooses(v)'
      /\ Sent(v) => Sent(v)'
      /\ Swallowed(v) => Swallowed(v)'
  BY DEF Waits, Chooses, Sent, Swallowed, Same
<1>3. v \notin merged => v \notin merged'
  BY DEF Same
<1>4. index'[v] = index[v]
  BY DEF Same
<1>5. \A i : (Asked(v, i) => Asked(v, i)') /\ (Answered(v, i) => Answered(v, i)')
  BY <1>1, <1>2, <1>3, <1>4 DEF Asked, Answered
<1>6. Ends(v) => Ends(v)'
  BY <1>1, <1>2, <1>3 DEF Ends, Same
<1> QED
  BY <1>5, <1>6

\* An action of u's client leaves the game where it is.
LEMMA PlayedStays ==
  ASSUME Played, late' = late, NEW u \in Player,
         UNCHANGED <<index, inGame, turnAnswers, up, clocks>>,
         \A v \in Player \ {u} : Same(v),
         late = {} => /\ \A i \in Nat : (Asked(u, i) => Asked(u, i)') /\ (Answered(u, i) => Answered(u, i)')
                      /\ Ends(u) => Ends(u)'
  PROVE  Played'
<1> SUFFICES ASSUME late = {} PROVE Played'
  BY DEF Played
<1>1. up' /\ \A v \in Player : clocks'[v] = 0
  BY DEF Played
<1>2. \A v \in Player : /\ \A i \in Nat : (Asked(v, i) => Asked(v, i)') /\ (Answered(v, i) => Answered(v, i)')
                        /\ Ends(v) => Ends(v)'
  BY ShapesStay
<1>3. CASE \A v \in Player : Ends(v)
  BY <1>1, <1>2, <1>3 DEF Played
<1>4. ASSUME NEW i \in 0 .. QuestionNo - 1, InTurn(i) PROVE InTurn(i)'
  <2>1. i \in Nat
    OBVIOUS
  <2>2. \A v \in Player : Asked(v, i)' \/ Answered(v, i)'
    BY <1>2, <1>4, <2>1 DEF InTurn
  <2>3. Ahead(i)' = Ahead(i)
    BY DEF Ahead
  <2> QED
    BY <1>4, <2>2, <2>3 DEF InTurn
<1>5. CASE \E i \in 0 .. QuestionNo - 1 : InTurn(i)
  BY <1>1, <1>4, <1>5 DEF Played
<1> QED
  BY <1>3, <1>5 DEF Played

-----------------------------------------------------------------------------
(* The actions of the client *)

LEMMA InitGamePage == Init => GamePageInv
<1> SUFFICES ASSUME Init PROVE GamePageInv
  OBVIOUS
<1>1. Question(0) \in Messages /\ Question(0) # TrueFalse(TRUE)
  BY MessagesApart
<1>2. <<Question(0)>> \in Seq(Messages)
  BY <1>1
<1>3. TypeOK
  BY <1>2, GamePageAssumption DEF Init, TypeOK, Stages
<1>4. Counted
  <2>1. Rights(<<Question(0)>>) = {}
    <3>1. DOMAIN <<Question(0)>> = 1 .. 1 /\ <<Question(0)>>[1] = Question(0)
      OBVIOUS
    <3>2. \A i \in 1 .. 1 : i = 1
      OBVIOUS
    <3> QED
      BY <1>1, <3>1, <3>2 DEF Rights
  <2>2. Cardinality({}) = 0
    BY FS_EmptySet
  <2>3. \A u \in Player :
          correctAnswers[u] = 0 /\ results[u] = 0 /\ stream[u] = <<Question(0)>>
    BY DEF Init
  <2>4. \A u \in Player : Cardinality(Rights(stream[u])) = 0
    BY <2>1, <2>2, <2>3
  <2> QED
    BY <2>3, <2>4 DEF Counted
<1>5. Played
  <2>1. \A u \in Player : Asked(u, 0)
    BY DEF Init, Asked, Expects
  <2>2. Ahead(0) = {}
    BY DEF Init, Ahead
  <2>3. Cardinality({}) = 0 /\ 0 < Cardinality(Player)
    BY GamePageAssumption, FS_EmptySet, FS_CardinalityType
  <2>4. InTurn(0)
    BY <2>1, <2>2, <2>3 DEF Init, InTurn
  <2>5. 0 \in 0 .. QuestionNo - 1
    BY GamePageAssumption
  <2> QED
    BY <2>4, <2>5 DEF Init, Played
<1> QED
  BY <1>3, <1>4, <1>5 DEF GamePageInv

LEMMA AnswerClickSound ==
  ASSUME GamePageInv, NEW u \in Player, AnswerClick(u)
  PROVE  GamePageInv'
<1>1. TypeOK
  BY DEF GamePageInv
<1>2. PICK choice \in {"right", "wrong"} :
        requests' = [requests EXCEPT ![u] = Append(@, [index |-> shown[u], choice |-> choice])]
  BY DEF AnswerClick, Send
<1> DEFINE a == [index |-> shown[u], choice |-> choice]
<1>3. /\ ui[u] = "choosing" /\ ui' = [ui EXCEPT ![u] = "reply"]
      /\ ticking' = ticking \ {u}
      /\ UNCHANGED <<index, inGame, turnAnswers, results, up, stream, shown, clocks,
                     correctAnswers, late, merged>>
  BY DEF AnswerClick, server, history
<1>4. a \in Answers /\ requests[u] \in Seq(Answers)
  BY <1>1 DEF TypeOK, Answers
<1>5. requests' = [requests EXCEPT ![u] = Append(requests[u], a)]
  BY <1>1, <1>2 DEF TypeOK
<1> HIDE DEF a
<1>6. Append(requests[u], a) \in Seq(Answers)
  BY <1>4
<1>7. /\ requests' \in [Player -> Seq(Answers)] /\ requests'[u] = Append(requests[u], a)
      /\ \A v \in Player \ {u} : requests'[v] = requests[v]
  BY <1>1, <1>5, <1>6 DEF TypeOK
<1>8. /\ ui' \in [Player -> Stages] /\ ui'[u] = "reply"
      /\ \A v \in Player \ {u} : ui'[v] = ui[v]
  BY <1>1, <1>3 DEF TypeOK, Stages
<1>9. TypeOK'
  BY <1>1, <1>3, <1>7, <1>8 DEF TypeOK
<1>10. Counted'
  BY <1>3 DEF GamePageInv, Counted
<1>11. Chooses(u) => Sent(u)'
  <2> SUFFICES ASSUME Chooses(u) PROVE Sent(u)'
    OBVIOUS
  <2>1. requests'[u] = <<a>>
    BY <1>7 DEF Chooses
  <2>2. a = [index |-> index[u], choice |-> choice]
    BY DEF Chooses, a
  <2> QED
    BY <1>3, <1>8, <2>1, <2>2 DEF Chooses, Sent
<1>12. /\ \A i \in Nat : (Asked(u, i) => Asked(u, i)') /\ (Answered(u, i) => Answered(u, i)')
       /\ Ends(u) => Ends(u)'
  <2>1. ~Waits(u) /\ ~Sent(u) /\ ~Swallowed(u) /\ \A m : ~Expects(u, m)
    BY <1>3 DEF Waits, Sent, Swallowed, Expects
  <2>2. \A i \in Nat : (Asked(u, i) => Asked(u, i)')
    BY <1>3, <1>11, <2>1 DEF Asked
  <2>3. \A i \in Nat : ~Answered(u, i)
    BY <2>1 DEF Answered
  <2>4. ~Ends(u)
    BY <1>3, <2>1 DEF Ends
  <2> QED
    BY <2>2, <2>3, <2>4
<1>13. Played'
  <2>1. \A v \in Player \ {u} : Same(v)
    BY <1>3, <1>7, <1>8 DEF Same
  <2> QED
    BY <1>3, <1>12, <2>1, PlayedStays DEF GamePageInv
<1> QED
  BY <1>9, <1>10, <1>13 DEF GamePageInv

LEMMA ReadReplySound ==
  ASSUME GamePageInv, NEW u \in Player, ReadReply(u)
  PROVE  GamePageInv'
<1>1. TypeOK
  BY DEF GamePageInv
<1>2. PICK n \in 1 .. Len(stream[u]) :
        /\ Receive(u, n)
        /\ correctAnswers' = [correctAnswers EXCEPT ![u] = IF Counts(u, n) THEN @ + 1 ELSE @]
  BY DEF ReadReply
<1>3. /\ ui[u] = "reply" /\ ui' = [ui EXCEPT ![u] = "next"]
      /\ UNCHANGED <<index, inGame, turnAnswers, results, up, requests, shown, ticking,
                     clocks, late>>
  BY DEF ReadReply, server
<1>4. /\ stream' \in [Player -> Seq(Messages)]
      /\ stream'[u] = SubSeq(stream[u], n + 1, Len(stream[u]))
      /\ \A v \in Player \ {u} : stream'[v] = stream[v]
      /\ Head(stream[u]) \in Messages
      /\ Cardinality(Rights(stream'[u])) \in Nat
      /\ Cardinality(Rights(stream'[u]))
           + (IF Head(stream[u]) = TrueFalse(TRUE) THEN 1 ELSE 0)
           <= Cardinality(Rights(stream[u]))
      /\ merged' \subseteq Player
      /\ \A v \in Player \ {u} : v \in merged' <=> v \in merged
      /\ n = 1 => merged' = merged
      /\ n > 1 => u \in merged'
  BY <1>1, <1>2, ReceivedBy
<1>5. /\ correctAnswers' \in [Player -> Nat]
      /\ correctAnswers'[u] = correctAnswers[u] + (IF Counts(u, n) THEN 1 ELSE 0)
      /\ \A v \in Player \ {u} : correctAnswers'[v] = correctAnswers[v]
  BY <1>1, <1>2 DEF TypeOK
<1>6. /\ ui' \in [Player -> Stages] /\ ui'[u] = "next"
      /\ \A v \in Player \ {u} : ui'[v] = ui[v]
  BY <1>1, <1>3 DEF TypeOK, Stages
<1>7. TypeOK'
  BY <1>1, <1>3, <1>4, <1>5, <1>6 DEF TypeOK
<1>8. Counted'
  <2> SUFFICES ASSUME NEW v \in Player
               PROVE  correctAnswers'[v] + Cardinality(Rights(stream'[v])) <= results[v]
    BY <1>3 DEF Counted
  <2>1. correctAnswers[v] + Cardinality(Rights(stream[v])) <= results[v]
    BY DEF GamePageInv, Counted
  <2>2. CASE v = u
    <3>1. Counts(u, n) => Head(stream[u]) = TrueFalse(TRUE)
      BY DEF Counts
    <3>2. /\ correctAnswers[u] \in Nat /\ results[u] \in Nat
          /\ Cardinality(Rights(stream[u])) \in Nat
      <4>1. stream[u] \in Seq(Messages) /\ Question(0) \in Messages
        BY <1>1, MessagesApart DEF TypeOK
      <4> QED
        BY <1>1, <4>1, Joined DEF TypeOK
    <3>3. PICK a \in Nat, b \in Nat, c \in Nat, d \in Nat :
            /\ a = correctAnswers[u] /\ b = results[u]
            /\ c = Cardinality(Rights(stream[u])) /\ d = Cardinality(Rights(stream'[u]))
      BY <1>4, <3>2
    <3>4. a + c <= b
      BY <2>1, <2>2, <3>3
    <3>5. CASE Head(stream[u]) = TrueFalse(TRUE)
      <4>1. d + 1 <= c
        BY <1>4, <3>3, <3>5
      <4>2. correctAnswers'[u] = a \/ correctAnswers'[u] = a + 1
        BY <1>5, <3>3
      <4> QED
        BY <2>2, <3>3, <3>4, <4>1, <4>2
    <3>6. CASE Head(stream[u]) # TrueFalse(TRUE)
      <4>1. d <= c
        BY <1>4, <3>3, <3>6
      <4>2. correctAnswers'[u] = a
        <5>1. ~Counts(u, n)
          BY <3>1, <3>6
        <5>2. correctAnswers'[u] = a + 0
          BY <1>5, <3>3, <5>1
        <5> QED
          BY <5>2
      <4> QED
        BY <2>2, <3>3, <3>4, <4>1, <4>2
    <3> QED
      BY <3>5, <3>6
  <2>3. CASE v # u
    BY <1>4, <1>5, <2>1, <2>3
  <2> QED
    BY <2>2, <2>3
<1>9. ASSUME NEW right \in BOOLEAN, stream[u] = <<TrueFalse(right)>>, u \notin merged,
             results[u] = correctAnswers[u] + (IF right THEN 1 ELSE 0)
      PROVE  u \notin merged' /\ stream'[u] = <<>> /\ results'[u] = correctAnswers'[u]
  <2>1. PICK m \in Messages : m = TrueFalse(right) /\ (m = TrueFalse(TRUE) <=> right)
    BY MessagesApart
  <2>2. stream[u] = <<m>>
    BY <1>9, <2>1
  <2>3. Len(stream[u]) = 1 /\ Head(stream[u]) = m /\ n = 1
    BY <2>2
  <2>4. stream'[u] = <<>>
    BY <1>4, <2>2, <2>3, ShortStreams
  <2>5. Counts(u, n) <=> right
    BY <2>1, <2>3 DEF Counts
  <2> QED
    BY <1>3, <1>4, <1>5, <1>9, <2>3, <2>4, <2>5
<1>10. ASSUME NEW right \in BOOLEAN, NEW p \in Messages, stream[u] = <<TrueFalse(right), p>>,
              u \notin merged, results[u] = correctAnswers[u] + (IF right THEN 1 ELSE 0)
       PROVE  \/ u \notin merged' /\ stream'[u] = <<p>> /\ results'[u] = correctAnswers'[u]
              \/ u \in merged' /\ stream'[u] = <<>>
  <2>1. PICK m \in Messages : m = TrueFalse(right) /\ (m = TrueFalse(TRUE) <=> right)
    BY MessagesApart
  <2>2. stream[u] = <<m, p>>
    BY <1>10, <2>1
  <2>3. Len(stream[u]) = 2 /\ Head(stream[u]) = m /\ n \in 1 .. 2
    BY <2>2
  <2>4. CASE n = 1
    <3>1. stream'[u] = SubSeq(<<m, p>>, 2, 2)
      BY <1>4, <2>2, <2>3, <2>4
    <3>2. stream'[u] = <<p>>
      BY <3>1, ShortStreams
    <3>3. Counts(u, n) <=> right
      BY <2>1, <2>3, <2>4 DEF Counts
    <3> QED
      BY <1>3, <1>4, <1>5, <1>10, <2>4, <3>2, <3>3
  <2>5. CASE n = 2
    <3>1. stream'[u] = SubSeq(<<m, p>>, 3, 2)
      BY <1>4, <2>2, <2>3, <2>5
    <3> QED
      BY <1>4, <2>5, <3>1, ShortStreams
  <2> QED
    BY <2>3, <2>4, <2>5
<1>11. u \notin merged /\ Waits(u) => u \notin merged' /\ Waits(u)'
  BY <1>3, <1>6, <1>9 DEF Waits
<1>12. ASSUME NEW p \in Messages, u \notin merged, Expects(u, p)
       PROVE  (u \notin merged' /\ Expects(u, p)') \/ Swallowed(u)'
  <2>1. PICK right \in BOOLEAN :
          /\ stream[u] = <<TrueFalse(right), p>>
          /\ results[u] = correctAnswers[u] + (IF right THEN 1 ELSE 0)
    BY <1>3, <1>12 DEF Expects
  <2>2. requests'[u] = <<>>
    BY <1>3, <1>12 DEF Expects
  <2>3. \/ u \notin merged' /\ stream'[u] = <<p>> /\ results'[u] = correctAnswers'[u]
        \/ u \in merged' /\ stream'[u] = <<>>
    BY <1>10, <1>12, <2>1
  <2> QED
    BY <1>6, <2>2, <2>3 DEF Expects, Swallowed
<1>13. stream[u] # <<>>
  BY <1>2
<1>14. /\ \A i \in Nat : (Asked(u, i) => Asked(u, i)') /\ (Answered(u, i) => Answered(u, i)')
       /\ Ends(u) => Ends(u)'
  <2>1. ~Chooses(u) /\ ~Sent(u) /\ ~Swallowed(u)
    BY <1>3, <1>13 DEF Chooses, Sent, Swallowed
  <2>2. ASSUME NEW i \in Nat, Asked(u, i) PROVE Asked(u, i)'
    <3>1. Question(i) \in Messages
      BY MessagesApart
    <3>2. u \notin merged /\ Expects(u, Question(i)) /\ index'[u] = i
      BY <1>3, <2>1, <2>2 DEF Asked
    <3>3. Question(i)' = Question(i)
      BY DEF Question
    <3>4. (u \notin merged' /\ Expects(u, Question(i))') \/ Swallowed(u)'
      BY <1>12, <3>1, <3>2, <3>3
    <3> QED
      BY <3>2, <3>4 DEF Asked
  <2>3. \A i \in Nat : Answered(u, i) => Answered(u, i)'
    BY <1>3, <1>11 DEF Answered
  <2>4. Ends(u) => Ends(u)'
    <3>1. EndGame \in Messages
      BY MessagesApart
    <3>2. Ends(u) => u \notin merged /\ Expects(u, EndGame)
      BY <1>3, <2>1 DEF Ends
    <3>3. Ends(u) => (u \notin merged' /\ Expects(u, EndGame)') \/ Swallowed(u)'
      BY <1>12, <3>1, <3>2 DEF EndGame
    <3> QED
      BY <3>3 DEF Ends
  <2> QED
    BY <2>2, <2>3, <2>4
<1>15. Played'
  <2>1. \A v \in Player \ {u} : Same(v)
    BY <1>3, <1>4, <1>5, <1>6 DEF Same
  <2> QED
    BY <1>3, <1>14, <2>1, PlayedStays DEF GamePageInv
<1> QED
  BY <1>7, <1>8, <1>15 DEF GamePageInv

LEMMA GetNextQuestionSound ==
  ASSUME GamePageInv, NEW u \in Player, GetNextQuestion(u)
  PROVE  GamePageInv'
<1>1. TypeOK
  BY DEF GamePageInv
<1>2. PICK n \in 1 .. Len(stream[u]) : Receive(u, n)
  BY DEF GetNextQuestion
<1>3. PICK m : m = Head(stream[u])
  OBVIOUS
<1>4. /\ ui[u] = "next"
      /\ UNCHANGED <<index, inGame, turnAnswers, results, up, requests, clocks,
                     correctAnswers, late>>
  BY DEF GetNextQuestion, server
<1>5. \/ /\ m.type = "question" /\ ui' = [ui EXCEPT ![u] = "choosing"]
         /\ shown' = [shown EXCEPT ![u] = m.index] /\ ticking' = ticking \cup {u}
      \/ /\ m.type = "end" /\ ui' = [ui EXCEPT ![u] = "home"] /\ UNCHANGED <<shown, ticking>>
      \/ /\ m.type = "reply" /\ ui' = [ui EXCEPT ![u] = "stuck"] /\ UNCHANGED <<shown, ticking>>
  BY <1>3 DEF GetNextQuestion
<1>6. /\ stream' \in [Player -> Seq(Messages)]
      /\ stream'[u] = SubSeq(stream[u], n + 1, Len(stream[u]))
      /\ \A v \in Player \ {u} : stream'[v] = stream[v]
      /\ Head(stream[u]) \in Messages
      /\ Cardinality(Rights(stream'[u])) \in Nat
      /\ Cardinality(Rights(stream'[u]))
           + (IF Head(stream[u]) = TrueFalse(TRUE) THEN 1 ELSE 0)
           <= Cardinality(Rights(stream[u]))
      /\ merged' \subseteq Player
      /\ \A v \in Player \ {u} : v \in merged' <=> v \in merged
      /\ n = 1 => merged' = merged
      /\ n > 1 => u \in merged'
  BY <1>1, <1>2, ReceivedBy
<1>7. m.index \in Nat
  BY <1>3, <1>6 DEF Messages
<1>8. /\ ui' \in [Player -> Stages] /\ \A v \in Player \ {u} : ui'[v] = ui[v]
      /\ shown' \in [Player -> Nat] /\ \A v \in Player \ {u} : shown'[v] = shown[v]
      /\ ticking' \subseteq Player
      /\ m.type = "question" => ui'[u] = "choosing" /\ shown'[u] = m.index
      /\ m.type = "end" => ui'[u] = "home"
  <2>1. CASE /\ m.type = "question" /\ ui' = [ui EXCEPT ![u] = "choosing"]
             /\ shown' = [shown EXCEPT ![u] = m.index] /\ ticking' = ticking \cup {u}
    BY <1>1, <1>7, <2>1 DEF TypeOK, Stages
  <2>2. CASE /\ m.type = "end" /\ ui' = [ui EXCEPT ![u] = "home"]
             /\ UNCHANGED <<shown, ticking>>
    BY <1>1, <2>2 DEF TypeOK, Stages
  <2>3. CASE /\ m.type = "reply" /\ ui' = [ui EXCEPT ![u] = "stuck"]
             /\ UNCHANGED <<shown, ticking>>
    BY <1>1, <2>3 DEF TypeOK, Stages
  <2> QED
    BY <1>5, <2>1, <2>2, <2>3
<1>9. TypeOK'
  BY <1>1, <1>4, <1>6, <1>8 DEF TypeOK
<1>10. Counted'
  <2> SUFFICES ASSUME NEW v \in Player
               PROVE  correctAnswers[v] + Cardinality(Rights(stream'[v])) <= results[v]
    BY <1>4 DEF Counted
  <2>1. correctAnswers[v] + Cardinality(Rights(stream[v])) <= results[v]
    BY DEF GamePageInv, Counted
  <2>2. CASE v = u
    <3>1. /\ correctAnswers[u] \in Nat /\ results[u] \in Nat
          /\ Cardinality(Rights(stream[u])) \in Nat
      <4>1. stream[u] \in Seq(Messages) /\ Question(0) \in Messages
        BY <1>1, MessagesApart DEF TypeOK
      <4> QED
        BY <1>1, <4>1, Joined DEF TypeOK
    <3>2. PICK a \in Nat, b \in Nat, c \in Nat, d \in Nat :
            /\ a = correctAnswers[u] /\ b = results[u]
            /\ c = Cardinality(Rights(stream[u])) /\ d = Cardinality(Rights(stream'[u]))
      BY <1>6, <3>1
    <3>3. a + c <= b
      BY <2>1, <2>2, <3>2
    <3>4. d + 1 <= c \/ d + 0 <= c
      BY <1>6, <3>2
    <3>5. a + d <= b
      BY <3>3, <3>4
    <3> QED
      BY <2>2, <3>2, <3>5
  <2>3. CASE v # u
    BY <1>6, <2>1, <2>3
  <2> QED
    BY <2>2, <2>3
<1>11. ASSUME NEW p \in Messages, u \notin merged, Expects(u, p)
       PROVE  /\ u \notin merged' /\ m = p /\ stream'[u] = <<>>
              /\ requests'[u] = <<>> /\ results'[u] = correctAnswers'[u]
  <2>1. stream[u] = <<p>> /\ requests[u] = <<>> /\ results[u] = correctAnswers[u]
    BY <1>4, <1>11 DEF Expects
  <2>2. n = 1 /\ m = p /\ Len(stream[u]) = 1
    BY <1>3, <2>1
  <2>3. stream'[u] = <<>>
    BY <1>6, <2>1, <2>2, ShortStreams
  <2> QED
    BY <1>4, <1>6, <1>11, <2>1, <2>2, <2>3
<1>12. stream[u] # <<>>
  BY <1>2
<1>13. ~Waits(u) /\ ~Chooses(u) /\ ~Sent(u) /\ ~Swallowed(u)
  BY <1>4, <1>12 DEF Waits, Chooses, Sent, Swallowed
<1>14. ASSUME NEW i \in Nat PROVE (Asked(u, i) => Asked(u, i)') /\ (Answered(u, i) => Answered(u, i)')
  <2>1. ASSUME Asked(u, i) PROVE Asked(u, i)'
    <3>1. /\ Question(i) \in Messages /\ Question(i).type = "question"
          /\ Question(i).index = i
      BY MessagesApart
    <3>2. u \notin merged /\ Expects(u, Question(i)) /\ index'[u] = i
      BY <1>4, <1>13, <2>1 DEF Asked
    <3>3. /\ u \notin merged' /\ m = Question(i) /\ stream'[u] = <<>>
          /\ requests'[u] = <<>> /\ results'[u] = correctAnswers'[u]
      BY <1>11, <3>1, <3>2
    <3>4. Chooses(u)'
      BY <1>8, <3>1, <3>2, <3>3 DEF Chooses
    <3> QED
      BY <3>2, <3>3, <3>4 DEF Asked
  <2>2. ~Answered(u, i)
    BY <1>13 DEF Answered
  <2> QED
    BY <2>1, <2>2
<1>15. Ends(u) => Ends(u)'
  <2> SUFFICES ASSUME Ends(u) PROVE Ends(u)'
    OBVIOUS
  <2>1. EndGame \in Messages /\ EndGame.type = "end"
    BY MessagesApart
  <2>2. u \notin merged /\ Expects(u, EndGame)
    BY <1>4, <1>13 DEF Ends
  <2>3. /\ u \notin merged' /\ m = EndGame /\ stream'[u] = <<>>
        /\ requests'[u] = <<>> /\ results'[u] = correctAnswers'[u]
    BY <1>11, <2>1, <2>2
  <2>4. ui'[u] = "home"
    BY <1>8, <2>1, <2>3
  <2> QED
    BY <2>3, <2>4 DEF Ends
<1>16. Played'
  <2>1. \A v \in Player \ {u} : Same(v)
    BY <1>4, <1>6, <1>8 DEF Same
  <2> QED
    BY <1>4, <1>14, <1>15, <2>1, PlayedStays DEF GamePageInv
<1> QED
  BY <1>9, <1>10, <1>16 DEF GamePageInv

LEMMA DefaultAnswerSound ==
  ASSUME GamePageInv, NEW u \in Player, DefaultAnswer(u)
  PROVE  GamePageInv'
<1>1. TypeOK
  BY DEF GamePageInv
<1> DEFINE a == [index |-> shown[u], choice |-> "five"]
<1>2. /\ requests' = [requests EXCEPT ![u] = Append(requests[u], a)]
      /\ ticking' = ticking \ {u} /\ clocks' = [clocks EXCEPT ![u] = @ + 1]
      /\ late' = late \cup {u}
      /\ UNCHANGED <<index, inGame, turnAnswers, results, up, stream, ui, shown,
                     correctAnswers, merged>>
  BY <1>1 DEF DefaultAnswer, Send, server, TypeOK
<1>3. a \in Answers /\ requests[u] \in Seq(Answers)
  BY <1>1 DEF TypeOK, Answers
<1> HIDE DEF a
<1>4. Append(requests[u], a) \in Seq(Answers)
  BY <1>3
<1>5. requests' \in [Player -> Seq(Answers)] /\ clocks' \in [Player -> Nat]
  BY <1>1, <1>2, <1>4 DEF TypeOK
<1>6. TypeOK'
  BY <1>1, <1>2, <1>5 DEF TypeOK
<1>7. Counted'
  BY <1>2 DEF GamePageInv, Counted
<1>8. Played'
  BY <1>2 DEF Played
<1> QED
  BY <1>6, <1>7, <1>8 DEF GamePageInv

LEMMA ClockReadsSound ==
  ASSUME GamePageInv, NEW u \in Player, ClockReads(u)
  PROVE  GamePageInv'
<1>1. TypeOK
  BY DEF GamePageInv
<1>2. PICK n \in 1 .. Len(stream[u]) : Receive(u, n)
  BY DEF ClockReads
<1>3. /\ clocks[u] > 0 /\ clocks' = [clocks EXCEPT ![u] = @ - 1]
      /\ UNCHANGED <<index, inGame, turnAnswers, results, up, requests, ui, shown, ticking,
                     correctAnswers, late>>
  BY DEF ClockReads, server
<1>4. /\ stream' \in [Player -> Seq(Messages)]
      /\ \A v \in Player \ {u} : stream'[v] = stream[v]
      /\ Cardinality(Rights(stream'[u])) \in Nat
      /\ Cardinality(Rights(stream'[u]))
           + (IF Head(stream[u]) = TrueFalse(TRUE) THEN 1 ELSE 0)
           <= Cardinality(Rights(stream[u]))
      /\ merged' \subseteq Player
  BY <1>1, <1>2, ReceivedBy
<1>5. clocks' \in [Player -> Nat]
  <2>1. clocks[u] - 1 \in Nat
    BY <1>1, <1>3 DEF TypeOK
  <2> QED
    BY <1>1, <1>3, <2>1 DEF TypeOK
<1>6. TypeOK'
  BY <1>1, <1>3, <1>4, <1>5 DEF TypeOK
<1>7. Counted'
  <2> SUFFICES ASSUME NEW v \in Player
               PROVE  correctAnswers[v] + Cardinality(Rights(stream'[v])) <= results[v]
    BY <1>3 DEF Counted
  <2>1. correctAnswers[v] + Cardinality(Rights(stream[v])) <= results[v]
    BY DEF GamePageInv, Counted
  <2>2. CASE v = u
    <3>1. /\ correctAnswers[u] \in Nat /\ results[u] \in Nat
          /\ Cardinality(Rights(stream[u])) \in Nat
      <4>1. stream[u] \in Seq(Messages) /\ Question(0) \in Messages
        BY <1>1, MessagesApart DEF TypeOK
      <4> QED
        BY <1>1, <4>1, Joined DEF TypeOK
    <3>2. PICK a \in Nat, b \in Nat, c \in Nat, d \in Nat :
            /\ a = correctAnswers[u] /\ b = results[u]
            /\ c = Cardinality(Rights(stream[u])) /\ d = Cardinality(Rights(stream'[u]))
      BY <1>4, <3>1
    <3>3. a + c <= b
      BY <2>1, <2>2, <3>2
    <3>4. d + 1 <= c \/ d + 0 <= c
      BY <1>4, <3>2
    <3>5. a + d <= b
      BY <3>3, <3>4
    <3> QED
      BY <2>2, <3>2, <3>5
  <2>3. CASE v # u
    BY <1>4, <2>1, <2>3
  <2> QED
    BY <2>2, <2>3
<1>8. Played'
  <2>1. clocks[u] # 0
    BY <1>1, <1>3 DEF TypeOK
  <2> QED
    BY <1>3, <2>1 DEF GamePageInv, Played
<1> QED
  BY <1>6, <1>7, <1>8 DEF GamePageInv

-----------------------------------------------------------------------------
(* The server *)

\* Counting the players who answered
LEMMA AnswersCounted ==
  ASSUME TypeOK, NEW i \in 0 .. QuestionNo - 1, InTurn(i), NEW u \in Player, index[u] = i
  PROVE  /\ u \notin Ahead(i) /\ Ahead(i) \subseteq Player
         /\ turnAnswers \in Nat /\ Cardinality(Player) \in Nat \ {0}
         /\ Cardinality(Ahead(i) \cup {u}) = turnAnswers + 1
         /\ TurnOver <=> Ahead(i) \cup {u} = Player
<1>1. u \notin Ahead(i) /\ Ahead(i) \subseteq Player
  BY DEF Ahead
<1>2. IsFiniteSet(Player) /\ IsFiniteSet(Ahead(i))
  BY <1>1, GamePageAssumption, FS_Subset
<1>3. Cardinality(Player) \in Nat \ {0}
  BY <1>2, GamePageAssumption, FS_CardinalityType, FS_EmptySet
<1>4. Cardinality(Ahead(i) \cup {u}) = turnAnswers + 1
  BY <1>1, <1>2, FS_AddElement DEF InTurn
<1>5. Cardinality(Ahead(i) \cup {u}) = Cardinality(Player) => Ahead(i) \cup {u} = Player
  <2>1. Ahead(i) \cup {u} \subseteq Player
    BY <1>1
  <2> QED
    BY <1>2, <2>1, FS_Subset
<1> QED
  BY <1>1, <1>3, <1>4, <1>5 DEF TypeOK, TurnOver

\* What an answer in its turn does to the one who sent it
LEMMA Replied ==
  ASSUME TypeOK, NEW u \in Player, NEW i \in 0 .. QuestionNo - 1, index[u] = i,
         u \notin merged, Sent(u), NEW right \in BOOLEAN, NEW last \in BOOLEAN,
         requests'[u] = Tail(requests[u]),
         results'[u] = IF right THEN results[u] + 1 ELSE results[u],
         stream'[u] = stream[u] \o <<TrueFalse(right)>> \o (IF last THEN <<News(u)>> ELSE <<>>),
         UNCHANGED <<ui, correctAnswers, merged>>
  PROVE  IF last THEN \A m : m = News(u) => Expects(u, m)' ELSE Waits(u)'
<1>1. PICK r \in Messages : r = TrueFalse(right)
  BY MessagesApart
<1>2. PICK m \in Messages : m = News(u)
  BY NewsBroadcast
<1>3. /\ requests'[u] = <<>> /\ ui'[u] = "reply" /\ stream[u] = <<>>
      /\ results[u] = correctAnswers[u]
  BY DEF Sent
<1>4. results'[u] = correctAnswers'[u] + (IF right THEN 1 ELSE 0)
  BY <1>3 DEF TypeOK
<1>5. CASE last
  <2>1. stream'[u] = <<>> \o <<r>> \o <<m>>
    BY <1>1, <1>2, <1>3, <1>5
  <2>2. stream'[u] = <<r, m>>
    BY <2>1, ShortStreams
  <2>3. stream'[u] = <<TrueFalse(right), m>>
    BY <1>1, <2>2
  <2>4. Expects(u, m)'
    BY <1>3, <1>4, <2>3 DEF Expects, TrueFalse
  <2> QED
    BY <1>2, <1>5, <2>4
<1>6. CASE ~last
  <2>1. stream'[u] = <<>> \o <<r>> \o <<>>
    BY <1>1, <1>3, <1>6
  <2>2. stream'[u] = <<r>>
    BY <2>1, ShortStreams
  <2>3. Waits(u)'
    BY <1>1, <1>3, <1>4, <2>2 DEF Waits, TrueFalse
  <2> QED
    BY <1>6, <2>3
<1> QED
  BY <1>5, <1>6

\* What it does to another, who waits for the turn to end
LEMMA NewsJoins ==
  ASSUME NEW v \in Player, NEW m \in Messages, Waits(v),
         stream'[v] = stream[v] \o <<>> \o <<m>>,
         requests'[v] = requests[v], results'[v] = results[v],
         UNCHANGED <<ui, correctAnswers>>
  PROVE  Expects(v, m)'
<1>1. CASE ui[v] = "next" /\ stream[v] = <<>>
  <2>1. stream'[v] = <<m>>
    BY <1>1, ShortStreams
  <2> QED
    BY <1>1, <2>1 DEF Waits, Expects
<1>2. CASE ui[v] = "reply"
  <2>1. PICK right \in BOOLEAN : /\ stream[v] = <<TrueFalse(right)>>
                                 /\ results[v] = correctAnswers[v] + (IF right THEN 1 ELSE 0)
    BY <1>2 DEF Waits
  <2>2. PICK r \in Messages : r = TrueFalse(right)
    BY MessagesApart
  <2>3. stream'[v] = <<r>> \o <<>> \o <<m>>
    BY <2>1, <2>2
  <2>4. stream'[v] = <<r, m>>
    BY <2>3, ShortStreams
  <2>5. stream'[v] = <<TrueFalse(right), m>>
    BY <2>2, <2>4
  <2> QED
    BY <1>2, <2>1, <2>5 DEF Waits, Expects, TrueFalse
<1> QED
  BY <1>1, <1>2 DEF Waits

LEMMA HandlePlayerAnswerSound ==
  ASSUME GamePageInv, NEW u \in Player, HandlePlayerAnswer(u)
  PROVE  GamePageInv'
<1>1. TypeOK
  BY DEF GamePageInv
<1>2. /\ requests[u] # <<>> /\ up
      /\ requests' = [requests EXCEPT ![u] = Tail(requests[u])]
      /\ UNCHANGED <<ui, shown, ticking, clocks, correctAnswers, late, merged>>
  BY <1>1, AnswerHandled
<1>3. /\ requests' \in [Player -> Seq(Answers)] /\ requests'[u] = Tail(requests[u])
      /\ \A v \in Player \ {u} : requests'[v] = requests[v]
  <2>1. requests[u] \in Seq(Answers)
    BY <1>1 DEF TypeOK
  <2>2. Tail(requests[u]) \in Seq(Answers)
    BY <1>2, <2>1
  <2> QED
    BY <1>1, <1>2, <2>2 DEF TypeOK
\* In a game in its turns, only who was asked has sent an answer.
<1>4. ASSUME late = {}
      PROVE  /\ \A v \in Player : clocks[v] = 0
             /\ \E i \in 0 .. QuestionNo - 1 : InTurn(i) /\ index[u] = i /\ Sent(u) /\ u \notin merged
  <2>1. ~Ends(u)
    BY <1>2 DEF Ends, Expects, Swallowed
  <2>2. PICK i \in 0 .. QuestionNo - 1 : InTurn(i)
    BY <1>4, <2>1 DEF GamePageInv, Played
  <2>3. Asked(u, i) \/ Answered(u, i)
    BY <2>2 DEF InTurn
  <2>4. ~Answered(u, i)
    BY <1>2 DEF Answered, Waits
  <2>5. index[u] = i /\ Sent(u) /\ u \notin merged
    BY <1>2, <2>3, <2>4 DEF Asked, Expects, Chooses, Swallowed
  <2> QED
    BY <1>4, <2>2, <2>5 DEF GamePageInv, Played
<1>5. late = {} => u \in inGame /\ ~PastEnd(u)
  <2> SUFFICES ASSUME late = {} PROVE u \in inGame /\ ~PastEnd(u)
    OBVIOUS
  <2>1. PICK i \in 0 .. QuestionNo - 1 : InTurn(i) /\ index[u] = i
    BY <1>4
  <2>2. i \in Nat /\ i < QuestionNo /\ QuestionNo \in Nat
    BY GamePageAssumption
  <2> QED
    BY <2>1, <2>2 DEF InTurn, PastEnd
<1>6. CASE ~(u \in inGame /\ ~PastEnd(u))
  <2>1. up' \in BOOLEAN /\ UNCHANGED <<index, inGame, turnAnswers, results, stream>>
    BY <1>1, <1>6, AnswerHandled DEF TypeOK
  <2>2. TypeOK'
    BY <1>1, <1>2, <1>3, <2>1 DEF TypeOK
  <2>3. Counted'
    BY <1>2, <2>1 DEF GamePageInv, Counted
  <2>4. Played'
    BY <1>2, <1>5, <1>6 DEF Played
  <2> QED
    BY <2>2, <2>3, <2>4 DEF GamePageInv
<1>7. CASE u \in inGame /\ ~PastEnd(u)
  <2>1. PICK right \in BOOLEAN, last \in BOOLEAN :
          /\ last = TurnOver /\ UNCHANGED up
          /\ results' = [results EXCEPT ![u] = IF right THEN @ + 1 ELSE @]
          /\ stream' = [v \in Player |->
               stream[v] \o (IF v = u THEN <<TrueFalse(right)>> ELSE <<>>)
                         \o (IF last THEN <<News(u)>> ELSE <<>>)]
          /\ IF last /\ index[u] + 1 = QuestionNo
               THEN /\ inGame' = inGame \ {u}
                    /\ turnAnswers' = turnAnswers + 1 /\ UNCHANGED index
               ELSE /\ index' = [index EXCEPT ![u] = @ + 1] /\ UNCHANGED inGame
                    /\ turnAnswers' = IF last THEN 0 ELSE turnAnswers + 1
    BY <1>1, <1>7, AnswerHandled
  <2>2. PICK m \in Messages : m = News(u) /\ m # TrueFalse(TRUE)
    BY <1>1, NewsBroadcast
  <2>3. /\ stream' \in [Player -> Seq(Messages)]
        /\ \A v \in Player :
             /\ Cardinality(Rights(stream[v])) \in Nat
             /\ Cardinality(Rights(stream'[v])) =
                  Cardinality(Rights(stream[v])) + (IF v = u /\ right THEN 1 ELSE 0)
    <3>1. stream' = [v \in Player |->
            stream[v] \o (IF v = u THEN <<TrueFalse(right)>> ELSE <<>>)
                      \o (IF last THEN <<m>> ELSE <<>>)]
      BY <2>1, <2>2
    <3>2. right \in BOOLEAN /\ last \in BOOLEAN /\ m \in Messages /\ m # TrueFalse(TRUE)
      BY <2>1, <2>2
    <3> QED
      BY <1>1, <3>1, <3>2, StreamsGrow, ZenonT(60)
  <2>4. /\ results' \in [Player -> Nat]
        /\ results'[u] = IF right THEN results[u] + 1 ELSE results[u]
        /\ \A v \in Player \ {u} : results'[v] = results[v]
    BY <1>1, <2>1 DEF TypeOK
  <2>5. /\ index' \in [Player -> 0 .. QuestionNo] /\ inGame' \subseteq Player /\ turnAnswers' \in Nat
        /\ \A v \in Player \ {u} : index'[v] = index[v]
    <3>1. index[u] + 1 \in 0 .. QuestionNo
      BY <1>1, <1>7, GamePageAssumption DEF TypeOK, PastEnd
    <3>2. \/ index' = index /\ inGame' = inGame \ {u} /\ turnAnswers' = turnAnswers + 1
          \/ /\ index' = [index EXCEPT ![u] = @ + 1] /\ inGame' = inGame
             /\ turnAnswers' = 0 \/ turnAnswers' = turnAnswers + 1
      BY <2>1
    <3>3. inGame' \subseteq Player /\ turnAnswers' \in Nat
      BY <1>1, <3>2 DEF TypeOK
    <3>4. CASE index' = index
      BY <1>1, <3>3, <3>4 DEF TypeOK
    <3>5. CASE index' = [index EXCEPT ![u] = index[u] + 1]
      BY <1>1, <3>1, <3>3, <3>5 DEF TypeOK
    <3> QED
      BY <3>2, <3>3, <3>4, <3>5
  <2>6. TypeOK'
    BY <1>1, <1>2, <1>3, <2>1, <2>3, <2>4, <2>5 DEF TypeOK
  <2>7. Counted'
    <3> SUFFICES ASSUME NEW v \in Player
                 PROVE  correctAnswers[v] + Cardinality(Rights(stream'[v])) <= results'[v]
      BY <1>2 DEF Counted
    <3>1. correctAnswers[v] + Cardinality(Rights(stream[v])) <= results[v]
      BY DEF GamePageInv, Counted
    <3>2. results[v] \in Nat /\ correctAnswers[v] \in Nat
      BY <1>1 DEF TypeOK
    <3>3. PICK a \in Nat, b \in Nat, c \in Nat :
            /\ a = correctAnswers[v] /\ b = results[v]
            /\ c = Cardinality(Rights(stream[v]))
      BY <2>3, <3>2
    <3>4. CASE v = u /\ right
      BY <2>3, <2>4, <3>1, <3>3, <3>4
    <3>5. CASE ~(v = u /\ right)
      <4>1. results'[v] = b /\ Cardinality(Rights(stream'[v])) = c + 0
        BY <2>3, <2>4, <3>3, <3>5
      <4> QED
        BY <3>1, <3>3, <4>1
    <3> QED
      BY <3>4, <3>5
  <2>8. ASSUME late = {}
        PROVE  (\A v \in Player : Ends(v)') \/ \E i \in 0 .. QuestionNo - 1 : InTurn(i)'
    <3>1. PICK i \in 0 .. QuestionNo - 1 : InTurn(i) /\ index[u] = i /\ Sent(u) /\ u \notin merged
      BY <1>4, <2>8
    <3>2. i \in Nat /\ i < QuestionNo /\ QuestionNo \in Nat
      BY GamePageAssumption
    <3>3. /\ u \notin Ahead(i) /\ Ahead(i) \subseteq Player
          /\ turnAnswers \in Nat /\ Cardinality(Player) \in Nat \ {0}
          /\ Cardinality(Ahead(i) \cup {u}) = turnAnswers + 1
          /\ last <=> Ahead(i) \cup {u} = Player
          /\ turnAnswers < Cardinality(Player)
      BY <1>1, <2>1, <3>1, AnswersCounted DEF InTurn
    <3>4. /\ last => Expects(u, m)'
          /\ ~last => Waits(u)'
      <4>1. stream'[u] = stream[u] \o <<TrueFalse(right)>> \o (IF last THEN <<News(u)>> ELSE <<>>)
        BY <2>1
      <4> QED
        BY <1>1, <1>2, <1>3, <2>2, <2>4, <3>1, <4>1, Replied
    <3>5. u \notin merged'
      BY <1>2, <3>1
    <3>6. CASE ~last
      <4>1. index' = [index EXCEPT ![u] = i + 1] /\ inGame' = Player /\ turnAnswers' = turnAnswers + 1
        BY <2>1, <3>1, <3>6 DEF InTurn
      <4>2. index'[u] = i + 1
        BY <1>1, <4>1 DEF TypeOK
      <4>3. Answered(u, i)'
        BY <3>4, <3>5, <3>6, <4>2 DEF Answered
      <4>4. ASSUME NEW v \in Player \ {u} PROVE Asked(v, i)' \/ Answered(v, i)'
        <5>1. stream'[v] = stream[v]
          <6>1. stream[v] \in Seq(Messages) /\ m \in Messages
            BY <1>1 DEF TypeOK
          <6>2. stream'[v] = stream[v] \o <<>> \o <<>>
            BY <2>1, <3>6
          <6>3. stream[v] \o <<>> = stream[v]
            BY <6>1, Joined
          <6> QED
            BY <6>2, <6>3
        <5>2. Same(v)
          BY <1>2, <1>3, <2>4, <2>5, <5>1 DEF Same
        <5>3. Asked(v, i) \/ Answered(v, i)
          BY <3>1 DEF InTurn
        <5> QED
          BY <5>2, <5>3, ShapesStay
      <4>5. Ahead(i)' = Ahead(i) \cup {u}
        BY <2>5, <4>2 DEF Ahead
      <4>6. turnAnswers' = Cardinality(Ahead(i)') /\ turnAnswers' < Cardinality(Player)
        <5>1. turnAnswers + 1 # Cardinality(Player)
          BY <2>1, <3>6 DEF TurnOver
        <5> QED
          BY <3>3, <4>1, <4>5, <5>1
      <4> QED
        BY <4>1, <4>3, <4>4, <4>6 DEF InTurn
    <3>7. CASE last
      \* Everybody else waits.
      <4>1. \A v \in Player \ {u} : Answered(v, i)
        <5>1. \A v \in Player \ {u} : index[v] = i + 1
          BY <3>3, <3>7 DEF Ahead
        <5>2. \A v \in Player \ {u} : ~Asked(v, i)
          BY <3>2, <5>1 DEF Asked
        <5> QED
          BY <3>1, <5>2 DEF InTurn
      <4>2. ASSUME NEW v \in Player \ {u}
            PROVE  v \notin merged' /\ Expects(v, m)' /\ index'[v] = i + 1
        <5>1. v \notin merged /\ Waits(v) /\ index[v] = i + 1
          BY <4>1 DEF Answered
        <5>2. stream'[v] = stream[v] \o <<>> \o <<m>>
          BY <2>1, <2>2, <3>7
        <5>3. requests'[v] = requests[v] /\ results'[v] = results[v]
          BY <1>3, <2>4
        <5>4. Expects(v, m)'
          BY <1>2, <5>1, <5>2, <5>3, NewsJoins
        <5> QED
          BY <1>2, <2>5, <5>1, <5>4
      <4>3. \A v \in Player : v \notin merged' /\ Expects(v, m)'
        BY <3>4, <3>5, <3>7, <4>2
      <4>4. CASE i + 1 = QuestionNo
        <5>1. m = EndGame
          BY <2>2, <3>1, <4>4 DEF News
        <5>2. m = EndGame'
          BY <5>1 DEF EndGame
        <5>3. \A v \in Player : Ends(v)'
          BY <4>3, <5>2 DEF Ends
        <5> QED
          BY <5>3
      <4>5. CASE i + 1 # QuestionNo
        <5>1. m = Question(i + 1)
          BY <2>2, <3>1, <4>5 DEF News
        <5>2. /\ index' = [index EXCEPT ![u] = i + 1] /\ inGame' = Player /\ turnAnswers' = 0
          BY <2>1, <3>1, <3>7, <4>5 DEF InTurn
        <5>3. \A v \in Player : index'[v] = i + 1
          BY <1>1, <4>2, <5>2 DEF TypeOK
        <5>4. \A v \in Player : Asked(v, i + 1)'
          <6>1. m = Question(i + 1)'
            BY <5>1 DEF Question
          <6> QED
            BY <4>3, <5>3, <6>1 DEF Asked
        <5>5. Ahead(i + 1)' = {}
          <6>1. i + 1 # i + 1 + 1
            BY <3>2
          <6> QED
            BY <5>3, <6>1 DEF Ahead
        <5>6. Cardinality({}) = 0
          BY FS_EmptySet
        <5>7. InTurn(i + 1)'
          BY <3>3, <5>2, <5>4, <5>5, <5>6 DEF InTurn
        <5>8. i + 1 \in 0 .. QuestionNo - 1
          BY <3>2, <4>5
        <5> QED
          BY <5>7, <5>8
      <4> QED
        BY <4>4, <4>5
    <3> QED
      BY <3>6, <3>7
  <2>9. Played'
    BY <1>2, <1>4, <2>1, <2>8 DEF Played
  <2> QED
    BY <2>6, <2>7, <2>9 DEF GamePageInv
<1> QED
  BY <1>6, <1>7

-----------------------------------------------------------------------------
LEMMA NextSound == GamePageInv /\ [Next]_vars => GamePageInv'
<1> SUFFICES ASSUME GamePageInv, [Next]_vars PROVE GamePageInv'
  OBVIOUS
<1>1. CASE UNCHANGED vars
  <2>1. /\ UNCHANGED <<index, inGame, turnAnswers, results, up, requests, stream>>
        /\ UNCHANGED <<ui, shown, ticking, clocks, correctAnswers, late, merged>>
    BY <1>1 DEF vars, server, page, history
  <2>2. TypeOK'
    BY <2>1 DEF GamePageInv, TypeOK
  <2>3. Counted'
    BY <2>1 DEF GamePageInv, Counted
  <2>4. Played'
    <3>1. PICK u : u \in Player
      BY GamePageAssumption
    <3>2. \A v \in Player : Same(v)
      BY <2>1 DEF Same
    <3> QED
      BY <2>1, <3>1, <3>2, ShapesStay, PlayedStays DEF GamePageInv
  <2> QED
    BY <2>2, <2>3, <2>4 DEF GamePageInv
<1>2. ASSUME NEW u \in Player, HandlePlayerAnswer(u) PROVE GamePageInv'
  BY <1>2, HandlePlayerAnswerSound
<1>3. ASSUME NEW u \in Player, AnswerClick(u) PROVE GamePageInv'
  BY <1>3, AnswerClickSound
<1>4. ASSUME NEW u \in Player, Reads(u) PROVE GamePageInv'
  BY <1>4, ReadReplySound, GetNextQuestionSound, ClockReadsSound DEF Reads
<1>5. ASSUME NEW u \in Player, DefaultAnswer(u) PROVE GamePageInv'
  BY <1>5, DefaultAnswerSound
<1> QED
  BY <1>1, <1>2, <1>3, <1>4, <1>5 DEF Next

LEMMA SpecSound == Spec => []GamePageInv
BY InitGamePage, NextSound, PTL DEF Spec

-----------------------------------------------------------------------------
\* What the page, its streams and the server's side of the game hold stays what
\* the code takes it for, through clocks that run out and receives that return
\* several messages (Game.xaml.cs, Game.cpp).
THEOREM GamePageTyped == Spec => []TypeOK
<1>1. GamePageInv => TypeOK
  BY DEF GamePageInv
<1> QED
  BY <1>1, SpecSound, PTL

\* As long as no clock runs out, the page of a player that never got two messages
\* at once takes every message for what it is: Answer_Click gets the reply,
\* GetNextQuestion the question or the end, and the question on the page is the
\* one the server will judge the answer by.
THEOREM PagesInStep == Spec => []InStep
<1>1. ASSUME GamePageInv PROVE InStep
  <2> SUFFICES ASSUME late = {}, NEW u \in Player \ merged
               PROVE  /\ ui[u] = "reply" /\ stream[u] # <<>> => Head(stream[u]).type = "reply"
                      /\ ui[u] = "next" /\ stream[u] # <<>> => Head(stream[u]).type # "reply"
                      /\ ui[u] = "choosing" => /\ stream[u] = <<>> /\ requests[u] = <<>>
                                               /\ shown[u] = index[u] /\ u \in inGame
                      /\ ui[u] # "stuck"
    BY DEF InStep
  <2>1. ASSUME NEW m \in Messages, m.type # "reply", Expects(u, m)
        PROVE  /\ ui[u] = "reply" => Head(stream[u]).type = "reply"
               /\ ui[u] = "next" => Head(stream[u]).type # "reply"
               /\ ui[u] \in {"reply", "next"}
    <3>1. CASE ui[u] = "next" /\ stream[u] = <<m>>
      BY <2>1, <3>1
    <3>2. CASE ui[u] = "reply" /\ \E right \in BOOLEAN : stream[u] = <<TrueFalse(right), m>>
      <4>1. PICK right \in BOOLEAN : stream[u] = <<TrueFalse(right), m>>
        BY <3>2
      <4>2. Head(stream[u]) = TrueFalse(right)
        BY <4>1
      <4> QED
        BY <3>2, <4>1, <4>2, MessagesApart
    <3> QED
      BY <2>1, <3>1, <3>2 DEF Expects
  <2>2. CASE \A v \in Player : Ends(v)
    <3>1. \/ Expects(u, EndGame)
          \/ ui[u] = "home"
      BY <2>2 DEF Ends, Swallowed
    <3>2. EndGame \in Messages /\ EndGame.type # "reply"
      BY MessagesApart
    <3> QED
      BY <2>1, <3>1, <3>2
  <2>3. ASSUME NEW i \in 0 .. QuestionNo - 1, InTurn(i)
        PROVE  /\ ui[u] = "reply" /\ stream[u] # <<>> => Head(stream[u]).type = "reply"
               /\ ui[u] = "next" /\ stream[u] # <<>> => Head(stream[u]).type # "reply"
               /\ ui[u] = "choosing" => /\ stream[u] = <<>> /\ requests[u] = <<>>
                                        /\ shown[u] = index[u] /\ u \in inGame
               /\ ui[u] # "stuck"
    <3>1. Asked(u, i) \/ Answered(u, i)
      BY <2>3 DEF InTurn
    <3>2. Question(i) \in Messages /\ Question(i).type # "reply"
      <4>1. i \in Nat
        OBVIOUS
      <4> QED
        BY <4>1, MessagesApart
    <3>3. CASE Expects(u, Question(i))
      BY <2>1, <3>2, <3>3
    <3>4. CASE Chooses(u)
      BY <2>3, <3>4 DEF Chooses, InTurn
    <3>5. CASE Sent(u)
      BY <3>5 DEF Sent
    <3>6. CASE Waits(u)
      <4>1. (ui[u] = "next" /\ stream[u] = <<>>) \/ ui[u] = "reply"
        BY <3>6 DEF Waits
      <4>2. ui[u] = "reply" => Head(stream[u]).type = "reply"
        <5> SUFFICES ASSUME ui[u] = "reply" PROVE Head(stream[u]).type = "reply"
          OBVIOUS
        <5>1. PICK right \in BOOLEAN : stream[u] = <<TrueFalse(right)>>
          BY <3>6 DEF Waits
        <5>2. Head(stream[u]) = TrueFalse(right)
          BY <5>1
        <5> QED
          BY <5>1, <5>2, MessagesApart
      <4> QED
        BY <4>1, <4>2
    <3> QED
      BY <3>1, <3>3, <3>4, <3>5, <3>6 DEF Asked, Answered, Swallowed
  <2> QED
    BY <1>1, <2>2, <2>3 DEF GamePageInv, Played
<1> QED
  BY <1>1, SpecSound, PTL

\* Whatever clocks and receives do, the page's _correctAnswers never exceeds what
\* the server counted; and it is the same for a page in step that waits for no
\* reply.
THEOREM ScoresKept == Spec => []ScoreKept
<1>1. ASSUME GamePageInv PROVE ScoreKept
  <2> SUFFICES ASSUME NEW u \in Player
               PROVE  /\ correctAnswers[u] <= results[u]
                      /\ late = {} /\ u \notin merged /\ ui[u] \in {"choosing", "home"} =>
                           correctAnswers[u] = results[u]
    BY DEF ScoreKept
  <2>1. correctAnswers[u] <= results[u]
    <3>1. /\ correctAnswers[u] \in Nat /\ results[u] \in Nat
          /\ Cardinality(Rights(stream[u])) \in Nat
      <4>1. stream[u] \in Seq(Messages) /\ Question(0) \in Messages
        BY <1>1, MessagesApart DEF GamePageInv, TypeOK
      <4> QED
        BY <1>1, <4>1, Joined DEF GamePageInv, TypeOK
    <3>2. correctAnswers[u] + Cardinality(Rights(stream[u])) <= results[u]
      BY <1>1 DEF GamePageInv, Counted
    <3>3. PICK a \in Nat, b \in Nat, c \in Nat :
            /\ a = correctAnswers[u] /\ b = results[u] /\ c = Cardinality(Rights(stream[u]))
      BY <3>1
    <3> QED
      BY <3>2, <3>3
  <2>2. ASSUME late = {}, u \notin merged, ui[u] \in {"choosing", "home"}
        PROVE  correctAnswers[u] = results[u]
    <3>1. \A m : ~Expects(u, m)
      BY <2>2 DEF Expects
    <3>2. ~Waits(u) /\ ~Sent(u) /\ ~Swallowed(u)
      BY <2>2 DEF Waits, Sent, Swallowed
    <3>3. CASE Ends(u)
      BY <3>1, <3>2, <3>3 DEF Ends
    <3>4. CASE \E i \in 0 .. QuestionNo - 1 : InTurn(i)
      <4>1. Chooses(u)
        BY <3>1, <3>2, <3>4 DEF InTurn, Asked, Answered
      <4> QED
        BY <4>1 DEF Chooses
    <3> QED
      BY <1>1, <2>2, <3>3, <3>4 DEF GamePageInv, Played
  <2> QED
    BY <2>1, <2>2
<1> QED
  BY <1>1, SpecSound, PTL

=============================================================================
