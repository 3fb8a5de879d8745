------------------------------ MODULE WireProofs ------------------------------
(***************************************************************************)
(* What the operators of Wire compute, for every text.                     *)
(***************************************************************************)
EXTENDS Wire, WellFoundedInduction, SequenceTheorems, TLAPS

\* Induction over the numbers, as a set that has 0 and the next of each of its members.
\* It is how what the recursive functions of Wire compute is proved for every input.
LEMMA NatSet ==
  ASSUME NEW T \in SUBSET Nat, 0 \in T, \A n \in T : n + 1 \in T
  PROVE  T = Nat
<1>1. SUFFICES ASSUME Nat \ T # {} PROVE FALSE
  OBVIOUS
<1>2. \E x \in Nat \ T : \A y \in Nat : y < x => y \in T
  <2>1. Nat \ T \subseteq Nat
    OBVIOUS
  <2>2. PICK z \in Nat \ T : \A y \in Nat \ T : ~ (<<y, z>> \in OpToRel(<, Nat))
    BY <1>1, <2>1, NatLessThanWellFounded, WFMin
  <2>3. ASSUME NEW y \in Nat, y < z PROVE <<y, z>> \in OpToRel(<, Nat)
    BY <2>3 DEF OpToRel
  <2> QED
    BY <2>2, <2>3
<1>3. PICK x \in Nat \ T : \A y \in Nat : y < x => y \in T
  BY <1>2
<1>4. x \in Nat /\ x # 0
  BY <1>3
<1>5. x - 1 \in Nat /\ x - 1 < x /\ x - 1 + 1 = x
  BY <1>4
<1> QED
  BY <1>3, <1>5

\* The number the first k characters make is the function it is written as.
LEMMA NumberFcn ==
  ASSUME NEW t, NEW m \in Nat
  PROVE  \E f : f = [i \in 0 .. m |-> IF i = 0 THEN 0 ELSE 10 * f[i - 1] + t[i]]
<1> DEFINE T == {n \in Nat : \E f : f = [i \in 0 .. n |-> IF i = 0 THEN 0 ELSE 10 * f[i - 1] + t[i]]}
<1>1. 0 \in T
  <2> DEFINE f == [i \in 0 .. 0 |-> 0]
  <2>1. f = [i \in 0 .. 0 |-> IF i = 0 THEN 0 ELSE 10 * f[i - 1] + t[i]]
    OBVIOUS
  <2> QED
    BY <2>1
<1>2. ASSUME NEW n \in T PROVE n + 1 \in T
  <2>1. n \in Nat /\ n + 1 \in Nat
    OBVIOUS
  <2>2. PICK f : f = [i \in 0 .. n |-> IF i = 0 THEN 0 ELSE 10 * f[i - 1] + t[i]]
    OBVIOUS
  <2> DEFINE g == [i \in 0 .. n + 1 |-> IF i = n + 1 THEN 10 * f[n] + t[n + 1] ELSE f[i]]
  <2>3. ASSUME NEW i \in 0 .. n + 1 PROVE g[i] = IF i = 0 THEN 0 ELSE 10 * g[i - 1] + t[i]
    BY <2>1, <2>2
  <2>4. g = [i \in 0 .. n + 1 |-> g[i]]
    OBVIOUS
  <2> HIDE DEF g
  <2>5. g = [i \in 0 .. n + 1 |-> IF i = 0 THEN 0 ELSE 10 * g[i - 1] + t[i]]
    BY <2>3, <2>4
  <2> QED
    BY <2>1, <2>5
<1>3. T = Nat
  <2> HIDE DEF T
  <2>1. T \subseteq Nat
    BY DEF T
  <2> QED
    BY <1>1, <1>2, <2>1, NatSet
<1> QED
  BY <1>3

\* The number k characters make, from that of k - 1
LEMMA NumberStep ==
  ASSUME NEW t, Len(t) \in Nat
  PROVE  /\ Number(t, 0) = 0
         /\ \A k \in 1 .. Len(t) : Number(t, k) = 10 * Number(t, k - 1) + t[k]
<1> DEFINE f == CHOOSE f : f = [i \in 0 .. Len(t) |-> IF i = 0 THEN 0 ELSE 10 * f[i - 1] + t[i]]
<1>1. f = [i \in 0 .. Len(t) |-> IF i = 0 THEN 0 ELSE 10 * f[i - 1] + t[i]]
  BY NumberFcn
<1>2. ASSUME NEW k PROVE Number(t, k) = f[k]
  BY DEF Number
<1> HIDE DEF f
<1>3. f[0] = 0
  BY <1>1
<1>4. ASSUME NEW k \in 1 .. Len(t) PROVE f[k] = 10 * f[k - 1] + t[k]
  <2>1. k \in 0 .. Len(t) /\ k # 0
    OBVIOUS
  <2> QED
    BY <1>1, <2>1
<1> QED
  BY <1>2, <1>3, <1>4

\* The written values are the function they are written as.
PutRec(F, values, len, m, f) ==
  [j \in 0 .. m |-> IF j = 0 THEN <<>>
                    ELSE Put(FieldAt(F, len - j + 1), values[len - j + 1]) \o f[j - 1]]

\* There is a function that writes the last values one by one,
LEMMA PutFcn ==
  ASSUME NEW F, NEW values, NEW len \in Nat, NEW m \in Nat
  PROVE  \E f : f = PutRec(F, values, len, m, f)
<1> DEFINE E(j) == Put(FieldAt(F, len - j + 1), values[len - j + 1])
<1> DEFINE T == {n \in Nat : \E f : f = [j \in 0 .. n |-> IF j = 0 THEN <<>> ELSE E(j) \o f[j - 1]]}
<1> HIDE DEF E
<1>1. 0 \in T
  <2> DEFINE f == [i \in 0 .. 0 |-> <<>>]
  <2>1. f = [j \in 0 .. 0 |-> IF j = 0 THEN <<>> ELSE E(j) \o f[j - 1]]
    OBVIOUS
  <2> QED
    BY <2>1
<1>2. ASSUME NEW n \in T PROVE n + 1 \in T
  <2>1. n \in Nat /\ n + 1 \in Nat
    OBVIOUS
  <2>2. PICK f : f = [j \in 0 .. n |-> IF j = 0 THEN <<>> ELSE E(j) \o f[j - 1]]
    OBVIOUS
  <2> DEFINE g == [j \in 0 .. n + 1 |-> IF j = n + 1 THEN E(n + 1) \o f[n] ELSE f[j]]
  <2>3. ASSUME NEW j \in 0 .. n + 1 PROVE g[j] = IF j = 0 THEN <<>> ELSE E(j) \o g[j - 1]
    <3>1. CASE j = n + 1
      <4> HIDE DEF T
      <4>1. g[j] = E(n + 1) \o f[n] /\ g[n] = f[n] /\ n + 1 # 0 /\ j - 1 = n
        <5> DEFINE a == E(n + 1) \o f[n]
        <5> HIDE DEF a
        <5>1. g[j] = a
          BY <3>1 DEF a
        <5>2. g[n] = f[n] /\ n + 1 # 0 /\ j - 1 = n
          BY <2>1, <3>1
        <5> QED
          BY <5>1, <5>2 DEF a
      <4> QED
        BY <3>1, <4>1
    <3>2. CASE j \in 0 .. n
      <4>1. g[j] = f[j] /\ (j # 0 => g[j - 1] = f[j - 1])
        BY <2>1, <3>2
      <4> HIDE DEF g
      <4> QED
        BY <2>2, <3>2, <4>1
    <3> QED
      BY <2>1, <3>1, <3>2
  <2>4. g = [j \in 0 .. n + 1 |-> g[j]]
    OBVIOUS
  <2> HIDE DEF g
  <2>5. g = [j \in 0 .. n + 1 |-> IF j = 0 THEN <<>> ELSE E(j) \o g[j - 1]]
    BY <2>3, <2>4
  <2> QED
    BY <2>1, <2>5
<1>3. T = Nat
  <2> HIDE DEF T
  <2>1. T \subseteq Nat
    BY DEF T
  <2> QED
    BY <1>1, <1>2, <2>1, NatSet
<1> QED
  BY <1>3 DEF E, PutRec

\* and it is what PutLast computes.
LEMMA PutStep ==
  ASSUME NEW F, NEW values, Len(values) \in Nat
  PROVE  /\ PutLast(F, values, 0) = <<>>
         /\ \A k \in 1 .. Len(values) :
              PutLast(F, values, k) = Put(FieldAt(F, Len(values) - k + 1), values[Len(values) - k + 1])
                                        \o PutLast(F, values, k - 1)
<1> DEFINE n == Len(values)
           f == CHOOSE f : f = PutRec(F, values, n, n, f)
<1>1. f = PutRec(F, values, n, n, f)
  <2>1. \E g : g = PutRec(F, values, n, n, g)
    BY PutFcn
  <2> QED
    BY <2>1
<1>2. ASSUME NEW k PROVE PutLast(F, values, k) = f[k]
  BY DEF PutLast, PutRec
<1> HIDE DEF f
<1>3. f[0] = <<>>
  BY <1>1 DEF PutRec
<1>4. ASSUME NEW k \in 1 .. n PROVE f[k] = Put(FieldAt(F, n - k + 1), values[n - k + 1]) \o f[k - 1]
  <2>1. k \in 0 .. n /\ k # 0
    OBVIOUS
  <2> QED
    BY <1>1, <2>1 DEF PutRec
<1> QED
  BY <1>2, <1>3, <1>4

\* The parser of n fields is the function it is written as.
TakeRec(F, t, m, f) ==
  [i \in 0 .. m |-> IF i = 0 THEN {[rest |-> t, values |-> <<>>]} ELSE TakeNext(F, f[i - 1], i)]

\* There is a function that takes the fields one by one,
LEMMA TakeFcn ==
  ASSUME NEW F, NEW t, NEW m \in Nat
  PROVE  \E f : f = TakeRec(F, t, m, f)
<1> DEFINE A == {[rest |-> t, values |-> <<>>]}
<1> DEFINE T == {n \in Nat : \E f : f = [i \in 0 .. n |-> IF i = 0 THEN A ELSE TakeNext(F, f[i - 1], i)]}
<1> HIDE DEF A
<1>1. 0 \in T
  <2> DEFINE f == [i \in 0 .. 0 |-> A]
  <2>1. f = [i \in 0 .. 0 |-> IF i = 0 THEN A ELSE TakeNext(F, f[i - 1], i)]
    OBVIOUS
  <2> QED
    BY <2>1
<1>2. ASSUME NEW n \in T PROVE n + 1 \in T
  <2>1. n \in Nat /\ n + 1 \in Nat
    OBVIOUS
  <2>2. PICK f : f = [i \in 0 .. n |-> IF i = 0 THEN A ELSE TakeNext(F, f[i - 1], i)]
    OBVIOUS
  <2> DEFINE g == [i \in 0 .. n + 1 |-> IF i = n + 1 THEN TakeNext(F, f[n], n + 1) ELSE f[i]]
  <2>3. ASSUME NEW i \in 0 .. n + 1 PROVE g[i] = IF i = 0 THEN A ELSE TakeNext(F, g[i - 1], i)
    BY <2>1, <2>2
  <2>4. g = [i \in 0 .. n + 1 |-> g[i]]
    OBVIOUS
  <2> HIDE DEF g
  <2>5. g = [i \in 0 .. n + 1 |-> IF i = 0 THEN A ELSE TakeNext(F, g[i - 1], i)]
    BY <2>3, <2>4
  <2> QED
    BY <2>1, <2>5
<1>3. T = Nat
  <2> HIDE DEF T
  <2>1. T \subseteq Nat
    BY DEF T
  <2> QED
    BY <1>1, <1>2, <2>1, NatSet
<1>4. PICK f : f = [i \in 0 .. m |-> IF i = 0 THEN A ELSE TakeNext(F, f[i - 1], i)]
  BY <1>3
<1> WITNESS f
<1> QED
  BY <1>4 DEF A, TakeRec

\* f is the parser of n fields, field after field.
TakeRun(F, t, n, f) ==
  /\ TakeAll(F, n, t) = f[n]
  /\ f[0] = {[rest |-> t, values |-> <<>>]}
  /\ \A i \in 1 .. n : f[i] = TakeNext(F, f[i - 1], i)

\* and it is what TakeAll computes.
LEMMA TakeStep ==
  ASSUME NEW F, NEW t, NEW n \in Nat
  PROVE  \E f : TakeRun(F, t, n, f)
<1> DEFINE f == CHOOSE f : f = TakeRec(F, t, n, f)
<1>1. f = TakeRec(F, t, n, f)
  <2>1. \E g : g = TakeRec(F, t, n, g)
    BY TakeFcn
  <2> QED
    BY <2>1
<1>2. TakeAll(F, n, t) = f[n]
  BY DEF TakeAll, TakeRec
<1> HIDE DEF f
<1>3. f[0] = {[rest |-> t, values |-> <<>>]}
  BY <1>1 DEF TakeRec
<1>4. ASSUME NEW i \in 1 .. n PROVE f[i] = TakeNext(F, f[i - 1], i)
  <2>1. i \in 0 .. n /\ i # 0
    OBVIOUS
  <2> QED
    BY <1>1, <2>1 DEF TakeRec
<1>5. TakeRun(F, t, n, f)
  BY <1>2, <1>3, <1>4 DEF TakeRun
<1> QED
  BY <1>5

\* What Digits can write
Small == {n \in Nat : n < Ten(7)}

\* The powers of ten
LEMMA TenIs ==
  /\ Ten(0) = 1 /\ Ten(1) = 10 /\ Ten(2) = 100 /\ Ten(3) = 1000
  /\ Ten(4) = 10000 /\ Ten(5) = 100000 /\ Ten(6) = 1000000 /\ Ten(7) = 10000000
BY SMT DEF Ten

\* A number has a number of digits.
LEMMA SizeIs ==
  ASSUME NEW n \in Small
  PROVE  /\ Size(n) \in 1 .. 7
         /\ n < Ten(Size(n))
         /\ Size(n) = 1 \/ n >= Ten(Size(n) - 1)
<1>1. \E k \in 1 .. 7 : n < Ten(k) /\ (k = 1 \/ n >= Ten(k - 1))
  <2>1. CASE n < 10
    <3>1. 1 \in 1 .. 7 /\ n < Ten(1)
      BY <2>1, TenIs, SMT
    <3> QED
      BY <3>1
  <2>2. CASE n >= 10 /\ n < 100
    <3>1. 2 \in 1 .. 7 /\ n < Ten(2) /\ n >= Ten(2 - 1)
      BY <2>2, TenIs, SMT
    <3> QED
      BY <3>1
  <2>3. CASE n >= 100 /\ n < 1000
    <3>1. 3 \in 1 .. 7 /\ n < Ten(3) /\ n >= Ten(3 - 1)
      BY <2>3, TenIs, SMT
    <3> QED
      BY <3>1
  <2>4. CASE n >= 1000 /\ n < 10000
    <3>1. 4 \in 1 .. 7 /\ n < Ten(4) /\ n >= Ten(4 - 1)
      BY <2>4, TenIs, SMT
    <3> QED
      BY <3>1
  <2>5. CASE n >= 10000 /\ n < 100000
    <3>1. 5 \in 1 .. 7 /\ n < Ten(5) /\ n >= Ten(5 - 1)
      BY <2>5, TenIs, SMT
    <3> QED
      BY <3>1
  <2>6. CASE n >= 100000 /\ n < 1000000
    <3>1. 6 \in 1 .. 7 /\ n < Ten(6) /\ n >= Ten(6 - 1)
      BY <2>6, TenIs, SMT
    <3> QED
      BY <3>1
  <2>7. CASE n >= 1000000
    <3>1. 7 \in 1 .. 7 /\ n < Ten(7) /\ n >= Ten(7 - 1)
      <4>1. n < Ten(7) /\ n \in Nat
        BY DEF Small
      <4> QED
        BY <2>7, <4>1, TenIs, SMT
    <3> QED
      BY <3>1
  <2> QED
    <3>1. n \in Nat
      BY DEF Small
    <3> QED
      BY <2>1, <2>2, <2>3, <2>4, <2>5, <2>6, <2>7, <3>1, SMT
<1> QED
  BY <1>1 DEF Size

\* The last digit of what is left of a number after j digits were cut off
LEMMA TenShift ==
  ASSUME NEW n \in Nat, NEW j \in 0 .. 6
  PROVE  /\ n \div Ten(j) = 10 * (n \div Ten(j + 1)) + ((n \div Ten(j)) % 10)
         /\ n \div Ten(j) \in Nat
         /\ (n \div Ten(j)) % 10 \in Digit
<1>0. \A x \in Nat : x = 10 * (x \div 10) + (x % 10) /\ x % 10 \in Digit
  BY DEF Digit
<1>1. CASE j = 0
  <2>1. n \div 1 = n
    BY SMT
  <2>2. Ten(j) = 1 /\ Ten(j + 1) = 10
    BY <1>1, TenIs, SMT
  <2> QED
    BY <1>0, <2>1, <2>2
<1>2. CASE j = 1
  <2>1. n \div 100 = (n \div 10) \div 10 /\ n \div 10 \in Nat
    BY SMT
  <2>2. Ten(j) = 10 /\ Ten(j + 1) = 100
    BY <1>2, TenIs, SMT
  <2> QED
    BY <1>0, <2>1, <2>2
<1>3. CASE j = 2
  <2>1. n \div 1000 = (n \div 100) \div 10 /\ n \div 100 \in Nat
    BY SMT
  <2>2. Ten(j) = 100 /\ Ten(j + 1) = 1000
    BY <1>3, TenIs, SMT
  <2> QED
    BY <1>0, <2>1, <2>2
<1>4. CASE j = 3
  <2>1. n \div 10000 = (n \div 1000) \div 10 /\ n \div 1000 \in Nat
    BY SMT
  <2>2. Ten(j) = 1000 /\ Ten(j + 1) = 10000
    BY <1>4, TenIs, SMT
  <2> QED
    BY <1>0, <2>1, <2>2
<1>5. CASE j = 4
  <2>1. n \div 100000 = (n \div 10000) \div 10 /\ n \div 10000 \in Nat
    BY SMT
  <2>2. Ten(j) = 10000 /\ Ten(j + 1) = 100000
    BY <1>5, TenIs, SMT
  <2> QED
    BY <1>0, <2>1, <2>2
<1>6. CASE j = 5
  <2>1. n \div 1000000 = (n \div 100000) \div 10 /\ n \div 100000 \in Nat
    BY SMT
  <2>2. Ten(j) = 100000 /\ Ten(j + 1) = 1000000
    BY <1>6, TenIs, SMT
  <2> QED
    BY <1>0, <2>1, <2>2
<1>7. CASE j = 6
  <2>1. n \div 10000000 = (n \div 1000000) \div 10 /\ n \div 1000000 \in Nat
    BY SMT
  <2>2. Ten(j) = 1000000 /\ Ten(j + 1) = 10000000
    BY <1>7, TenIs, SMT
  <2> QED
    BY <1>0, <2>1, <2>2
<1> QED
  BY <1>1, <1>2, <1>3, <1>4, <1>5, <1>6, <1>7

\* Nothing is left of a number after all its digits.
LEMMA TenTop ==
  ASSUME NEW k \in 1 .. 7, NEW n \in Nat, n < Ten(k)
  PROVE  n \div Ten(k) = 0
BY TenIs, SMT

\* to_string makes digits.
LEMMA DigitsAre ==
  ASSUME NEW n \in Small
  PROVE  /\ Digits(n) \in Seq(Digit)
         /\ Len(Digits(n)) = Size(n)
         /\ Len(Digits(n)) \in 1 .. 7
         /\ \A i \in 1 .. Size(n) : Digits(n)[i] = (n \div Ten(Size(n) - i)) % 10
<1> DEFINE k == Size(n)
<1>1. k \in 1 .. 7
  BY SizeIs
<1>2. ASSUME NEW i \in 1 .. k PROVE (n \div Ten(k - i)) % 10 \in Digit
  <2>1. k - i \in 0 .. 6
    <3> HIDE DEF k
    <3> QED
      BY <1>1
  <2>2. n \in Nat
    BY DEF Small
  <2> QED
    BY <2>1, <2>2, TenShift
<1>3. Digits(n) = [i \in 1 .. k |-> (n \div Ten(k - i)) % 10]
  BY DEF Digits
<1> HIDE DEF k
<1>4. Digits(n) \in [1 .. k -> Digit]
  BY <1>2, <1>3
<1>5. Digits(n) \in Seq(Digit) /\ Len(Digits(n)) = k
  BY <1>1, <1>4
<1> QED
  BY <1>1, <1>3, <1>5 DEF k

\* atoi reads all of a text of digits.
LEMMA LeadingAll ==
  ASSUME NEW t \in Seq(Digit)
  PROVE  Leading(t) = Len(t)
<1>1. Len(t) \in Nat /\ \A i \in 1 .. Len(t) : t[i] \in Digit
  OBVIOUS
<1>2. Len(t) \in 0 .. Len(t) /\ \A i \in 1 .. Len(t) : t[i] \in Digit
  BY <1>1
<1>3. ASSUME NEW k \in 0 .. Len(t), k = Len(t) \/ t[k + 1] \notin Digit PROVE k = Len(t)
  <2>1. k # Len(t) => k + 1 \in 1 .. Len(t)
    BY <1>1
  <2> QED
    BY <1>1, <1>3, <2>1
<1> QED
  BY <1>2, <1>3 DEF Leading

\* atoi undoes to_string: what the server reads of a number of at most seven digits
\* is the number that was written (Helper.cpp:43-47, 85-91).
THEOREM AtoiDigits ==
  ASSUME NEW n \in Small
  PROVE  Atoi(Digits(n)) = n
<1> DEFINE k == Size(n)
           d == Digits(n)
<1>0. n \in Nat
  BY DEF Small
<1>1. k \in 1 .. 7 /\ n < Ten(k) /\ Len(d) = k /\ d \in Seq(Digit)
  BY SizeIs, DigitsAre
<1>2. /\ Number(d, 0) = 0
      /\ \A i \in 1 .. k : Number(d, i) = 10 * Number(d, i - 1) + d[i]
  <2>1. Len(d) \in Nat
    BY <1>1
  <2> QED
    BY <1>1, <2>1, NumberStep
<1>3. \A i \in 1 .. k : d[i] = (n \div Ten(k - i)) % 10
  BY DigitsAre
<1> HIDE DEF k, d
<1> DEFINE T == {i \in Nat : i <= k => Number(d, i) = n \div Ten(k - i)}
<1>4. 0 \in T
  <2>1. k - 0 = k
    BY <1>1
  <2>2. n \div Ten(k) = 0
    BY <1>0, <1>1, TenTop
  <2> QED
    BY <1>2, <2>1, <2>2
<1>5. ASSUME NEW i \in T PROVE i + 1 \in T
  <2>1. CASE i + 1 <= k
    <3>1. i + 1 \in 1 .. k /\ k - (i + 1) \in 0 .. 6 /\ k - (i + 1) + 1 = k - i /\ i + 1 - 1 = i /\ i <= k
      BY <1>1, <2>1
    <3>2. Number(d, i) = n \div Ten(k - i)
      BY <3>1
    <3>3. Number(d, i + 1) = 10 * Number(d, i) + d[i + 1]
      BY <1>2, <3>1
    <3>4. d[i + 1] = (n \div Ten(k - (i + 1))) % 10
      BY <1>3, <3>1
    <3>5. n \div Ten(k - (i + 1)) = 10 * (n \div Ten(k - i)) + ((n \div Ten(k - (i + 1))) % 10)
      <4> DEFINE j == k - (i + 1)
      <4>1. j \in 0 .. 6 /\ j + 1 = k - i
        BY <3>1
      <4> HIDE DEF j
      <4>2. n \div Ten(j) = 10 * (n \div Ten(j + 1)) + ((n \div Ten(j)) % 10)
        BY <1>0, <4>1, TenShift
      <4> QED
        BY <4>1, <4>2 DEF j
    <3>6. Number(d, i + 1) = n \div Ten(k - (i + 1))
      BY <3>2, <3>3, <3>4, <3>5
    <3> QED
      BY <3>6
  <2>2. CASE ~ (i + 1 <= k)
    BY <2>2
  <2> QED
    BY <2>1, <2>2
<1>6. T = Nat
  <2> HIDE DEF T
  <2>1. T \subseteq Nat
    BY DEF T
  <2> QED
    BY <1>4, <1>5, <2>1, NatSet
<1>7. Number(d, k) = n \div Ten(k - k)
  BY <1>1, <1>6
<1>8. n \div Ten(k - k) = n
  <2>1. Ten(k - k) = 1
    BY <1>1, TenIs
  <2>2. n \div 1 = n
    BY <1>0, SMT
  <2> QED
    BY <2>1, <2>2
<1>9. Leading(d) = k
  BY <1>1, LeadingAll
<1> QED
  BY <1>7, <1>8, <1>9 DEF Atoi, d

\* Padding puts zeros in front.
LEMMA PadIs ==
  ASSUME NEW t \in Seq(Digit), NEW w \in Nat
  PROVE  /\ PadLeft(t, w) \in Seq(Digit)
         /\ Len(PadLeft(t, w)) = IF Len(t) < w THEN w ELSE Len(t)
         /\ \A i \in 1 .. Len(PadLeft(t, w)) :
              PadLeft(t, w)[i] = IF i <= Len(PadLeft(t, w)) - Len(t) THEN 0
                                 ELSE t[i - (Len(PadLeft(t, w)) - Len(t))]
<1> DEFINE z == IF Len(t) < w THEN w - Len(t) ELSE 0
           o == [i \in 1 .. z |-> 0]
<1>1. z \in Nat /\ Len(t) \in Nat
  OBVIOUS
<1>2. 0 \in Digit
  BY DEF Digit
<1>3. PadLeft(t, w) = o \o t
  BY DEF PadLeft
<1>4. z + Len(t) = IF Len(t) < w THEN w ELSE Len(t)
  BY <1>1
<1> HIDE DEF z
<1>5. o \in Seq(Digit) /\ Len(o) = z /\ \A i \in 1 .. z : o[i] = 0
  BY <1>1, <1>2
<1> HIDE DEF o
<1>6. PadLeft(t, w) \in Seq(Digit) /\ Len(PadLeft(t, w)) = z + Len(t)
  BY <1>1, <1>3, <1>5, ConcatProperties
<1>7. ASSUME NEW i \in 1 .. z + Len(t)
      PROVE  PadLeft(t, w)[i] = IF i <= z THEN 0 ELSE t[i - z]
  <2>1. (o \o t)[i] = IF i <= Len(o) THEN o[i] ELSE t[i - Len(o)]
    BY <1>5, ConcatProperties
  <2>2. i <= z => i \in 1 .. z
    BY <1>1
  <2> QED
    BY <1>3, <1>5, <2>1, <2>2
<1>8. Len(PadLeft(t, w)) - Len(t) = z
  BY <1>1, <1>6
<1> QED
  BY <1>4, <1>6, <1>7, <1>8

\* Nothing is filled up where nothing is missing, and nothing is cut.
LEMMA PadFull ==
  ASSUME NEW t \in Seq(Nat), NEW w \in Nat, w <= Len(t)
  PROVE  PadLeft(t, w) = t
<1> DEFINE o == [i \in 1 .. 0 |-> 0]
<1>1. PadLeft(t, w) = o \o t
  BY DEF PadLeft
<1>2. o = <<>>
  OBVIOUS
<1> QED
  BY <1>1, <1>2

\* Zeros in front do not change a number.
LEMMA AtoiPad ==
  ASSUME NEW t \in Seq(Digit), NEW w \in Nat
  PROVE  Atoi(PadLeft(t, w)) = Atoi(t)
<1> DEFINE p == PadLeft(t, w)
           z == Len(p) - Len(t)
<1>1. /\ p \in Seq(Digit) /\ z \in Nat /\ Len(p) = z + Len(t)
      /\ Len(t) \in Nat /\ Len(p) \in Nat
  BY PadIs
<1>2. \A i \in 1 .. Len(p) : p[i] = IF i <= z THEN 0 ELSE t[i - z]
  BY PadIs
<1> HIDE DEF p, z
<1>3. Number(p, 0) = 0 /\ \A i \in 1 .. Len(p) : Number(p, i) = 10 * Number(p, i - 1) + p[i]
  BY <1>1, NumberStep
<1>4. Number(t, 0) = 0 /\ \A i \in 1 .. Len(t) : Number(t, i) = 10 * Number(t, i - 1) + t[i]
  BY <1>1, NumberStep
<1>5. \A i \in Nat : i <= z => Number(p, i) = 0
  <2> DEFINE T == {i \in Nat : i <= z => Number(p, i) = 0}
  <2>1. 0 \in T
    BY <1>3
  <2>2. ASSUME NEW i \in T PROVE i + 1 \in T
    <3>1. CASE i + 1 <= z
      <4>1. i + 1 \in 1 .. Len(p) /\ i + 1 - 1 = i /\ i <= z
        BY <1>1, <3>1
      <4>2. Number(p, i) = 0 /\ p[i + 1] = 0
        BY <1>2, <3>1, <4>1
      <4>3. Number(p, i + 1) = 10 * Number(p, i) + p[i + 1]
        BY <1>3, <4>1
      <4> QED
        BY <4>2, <4>3
    <3>2. CASE ~ (i + 1 <= z)
      BY <3>2
    <3> QED
      BY <3>1, <3>2
  <2>3. T = Nat
    <3> HIDE DEF T
    <3>1. T \subseteq Nat
      BY DEF T
    <3> QED
      BY <2>1, <2>2, <3>1, NatSet
  <2> QED
    BY <2>3
<1>6. \A i \in Nat : i <= Len(t) => Number(p, z + i) = Number(t, i)
  <2> DEFINE T == {i \in Nat : i <= Len(t) => Number(p, z + i) = Number(t, i)}
  <2>1. 0 \in T
    <3>1. z + 0 = z /\ z <= z
      BY <1>1
    <3> QED
      BY <1>1, <1>4, <1>5, <3>1
  <2>2. ASSUME NEW i \in T PROVE i + 1 \in T
    <3>1. CASE i + 1 <= Len(t)
      <4>1. /\ z + (i + 1) \in 1 .. Len(p) /\ z + (i + 1) - 1 = z + i /\ i <= Len(t)
            /\ ~ (z + (i + 1) <= z) /\ z + (i + 1) - z = i + 1
            /\ i + 1 \in 1 .. Len(t) /\ i + 1 - 1 = i
        BY <1>1, <3>1
      <4>2. Number(p, z + i) = Number(t, i)
        BY <4>1
      <4> DEFINE j == z + (i + 1)
      <4>6. j \in 1 .. Len(p) /\ ~ (j <= z) /\ j - z = i + 1 /\ j - 1 = z + i
        BY <1>1, <4>1
      <4> HIDE DEF j
      <4>3. p[j] = t[i + 1]
        BY <1>2, <4>6
      <4>4. Number(p, j) = 10 * Number(p, z + i) + p[j]
        BY <1>3, <4>6
      <4>5. Number(t, i + 1) = 10 * Number(t, i) + t[i + 1]
        BY <1>4, <4>1
      <4> QED
        BY <4>2, <4>3, <4>4, <4>5 DEF j
    <3>2. CASE ~ (i + 1 <= Len(t))
      BY <3>2
    <3> QED
      BY <3>1, <3>2
  <2>3. T = Nat
    <3> HIDE DEF T
    <3>1. T \subseteq Nat
      BY DEF T
    <3> QED
      BY <2>1, <2>2, <3>1, NatSet
  <2> QED
    BY <2>3
<1>7. Number(p, z + Len(t)) = Number(t, Len(t))
  BY <1>1, <1>6
<1>8. Leading(p) = z + Len(t) /\ Leading(t) = Len(t)
  BY <1>1, LeadingAll
<1> QED
  BY <1>7, <1>8 DEF Atoi, p

\* A text before another one is cut off by its length.
LEMMA CutText ==
  ASSUME NEW a \in Seq(Nat), NEW b \in Seq(Nat)
  PROVE  /\ a \o b \in Seq(Nat)
         /\ Len(a \o b) = Len(a) + Len(b)
         /\ SubSeq(a \o b, 1, Len(a)) = a
         /\ SubSeq(a \o b, Len(a) + 1, Len(a \o b)) = b
<1>1. a \o b \in Seq(Nat) /\ Len(a \o b) = Len(a) + Len(b) /\ Len(a) \in Nat /\ Len(b) \in Nat
  BY ConcatProperties, LenProperties
<1>2. \A i \in 1 .. Len(a) + Len(b) : (a \o b)[i] = IF i <= Len(a) THEN a[i] ELSE b[i - Len(a)]
  BY ConcatProperties
<1> DEFINE c == a \o b
<1> HIDE DEF c
<1>3. c \in Seq(Nat) /\ Len(c) = Len(a) + Len(b)
  BY <1>1 DEF c
<1>4. \A i \in 1 .. Len(c) : c[i] \in Nat
  BY <1>3
<1>5. SubSeq(c, 1, Len(a)) = a
  <2>1. \A i \in 1 .. Len(a) : c[i] \in Nat
    BY <1>1, <1>3, <1>4
  <2>2. /\ SubSeq(c, 1, Len(a)) \in Seq(Nat)
        /\ Len(SubSeq(c, 1, Len(a))) = IF 1 <= Len(a) THEN Len(a) - 1 + 1 ELSE 0
        /\ \A i \in 1 .. Len(a) - 1 + 1 : SubSeq(c, 1, Len(a))[i] = c[1 + i - 1]
    BY <1>1, <2>1, SubSeqProperties
  <2>3. Len(SubSeq(c, 1, Len(a))) = Len(a)
    BY <1>1, <2>2
  <2>4. ASSUME NEW i \in 1 .. Len(a) PROVE SubSeq(c, 1, Len(a))[i] = a[i]
    <3>1. 1 + i - 1 = i /\ i \in 1 .. Len(a) - 1 + 1 /\ i \in 1 .. Len(a) + Len(b) /\ i <= Len(a)
      BY <1>1
    <3>2. c[i] = a[i]
      BY <1>2, <3>1 DEF c
    <3> QED
      BY <2>2, <3>1, <3>2
  <2> QED
    BY <2>2, <2>3, <2>4, SeqEqual
<1>6. SubSeq(c, Len(a) + 1, Len(c)) = b
  <2>1. \A i \in Len(a) + 1 .. Len(c) : c[i] \in Nat
    BY <1>1, <1>3, <1>4
  <2>2. /\ SubSeq(c, Len(a) + 1, Len(c)) \in Seq(Nat)
        /\ Len(SubSeq(c, Len(a) + 1, Len(c))) =
             IF Len(a) + 1 <= Len(c) THEN Len(c) - (Len(a) + 1) + 1 ELSE 0
        /\ \A i \in 1 .. Len(c) - (Len(a) + 1) + 1 :
             SubSeq(c, Len(a) + 1, Len(c))[i] = c[Len(a) + 1 + i - 1]
    BY <1>1, <1>3, <2>1, SubSeqProperties
  <2>3. Len(SubSeq(c, Len(a) + 1, Len(c))) = Len(b)
    BY <1>1, <1>3, <2>2
  <2>4. ASSUME NEW i \in 1 .. Len(b) PROVE SubSeq(c, Len(a) + 1, Len(c))[i] = b[i]
    <3> DEFINE j == Len(a) + 1 + i - 1
    <3>1. /\ j \in 1 .. Len(a) + Len(b) /\ ~ (j <= Len(a)) /\ j - Len(a) = i
          /\ i \in 1 .. Len(c) - (Len(a) + 1) + 1
      BY <1>1, <1>3
    <3>3. SubSeq(c, Len(a) + 1, Len(c))[i] = c[j]
      BY <2>2, <3>1
    <3> HIDE DEF j
    <3>2. c[j] = b[i]
      BY <1>2, <3>1 DEF c
    <3> QED
      BY <3>2, <3>3
  <2> QED
    BY <2>2, <2>3, <2>4, SeqEqual
<1> QED
  BY <1>1, <1>5, <1>6 DEF c

\* The middle of three texts
LEMMA CutMiddle ==
  ASSUME NEW a \in Seq(Nat), NEW b \in Seq(Nat), NEW c \in Seq(Nat)
  PROVE  SubSeq((a \o b) \o c, Len(a) + 1, Len(a) + Len(b)) = b
<1> DEFINE e == a \o b
           q == e \o c
           s == SubSeq(q, Len(a) + 1, Len(a) + Len(b))
<1>1. e \in Seq(Nat) /\ Len(e) = Len(a) + Len(b)
  BY CutText
<1>2. q \in Seq(Nat) /\ Len(q) = Len(e) + Len(c)
  BY <1>1, CutText
<1>3. Len(a) \in Nat /\ Len(b) \in Nat /\ Len(c) \in Nat
  BY LenProperties
<1>4. \A i \in 1 .. Len(a) + Len(b) : e[i] = IF i <= Len(a) THEN a[i] ELSE b[i - Len(a)]
  BY ConcatProperties
<1> HIDE DEF e
<1>5. \A i \in 1 .. Len(e) + Len(c) : q[i] = IF i <= Len(e) THEN e[i] ELSE c[i - Len(e)]
  BY <1>1, ConcatProperties
<1> HIDE DEF q
<1>6. \A i \in Len(a) + 1 .. Len(a) + Len(b) : q[i] \in Nat
  <2>1. SUFFICES ASSUME NEW i \in Len(a) + 1 .. Len(a) + Len(b) PROVE q[i] \in Nat
    OBVIOUS
  <2>2. i \in 1 .. Len(q)
    BY <1>1, <1>2, <1>3
  <2> QED
    BY <1>2, <2>2, ElementOfSeq
<1>7. /\ s \in Seq(Nat)
      /\ Len(s) = IF Len(a) + 1 <= Len(a) + Len(b) THEN Len(a) + Len(b) - (Len(a) + 1) + 1 ELSE 0
      /\ \A i \in 1 .. Len(a) + Len(b) - (Len(a) + 1) + 1 : s[i] = q[Len(a) + 1 + i - 1]
  <2>1. Len(a) + 1 \in Int /\ Len(a) + Len(b) \in Int
    BY <1>3
  <2> QED
    BY <1>6, <2>1, SubSeqProperties
<1> HIDE DEF s
<1>8. Len(s) = Len(b)
  BY <1>3, <1>7
<1>9. ASSUME NEW i \in 1 .. Len(b) PROVE s[i] = b[i]
  <2> DEFINE j == Len(a) + 1 + i - 1
  <2>1. /\ i \in 1 .. Len(a) + Len(b) - (Len(a) + 1) + 1
        /\ j \in 1 .. Len(a) + Len(b) /\ ~ (j <= Len(a)) /\ j - Len(a) = i
        /\ j \in 1 .. Len(e) + Len(c) /\ j <= Len(e)
    BY <1>1, <1>3
  <2>2. s[i] = q[j]
    BY <1>7, <2>1
  <2> HIDE DEF j
  <2> QED
    BY <1>4, <1>5, <2>1, <2>2
<1> QED
  BY <1>7, <1>8, <1>9, SeqEqual DEF s, q, e

\* Texts are put together in any order.
LEMMA CatAgain ==
  ASSUME NEW a \in Seq(Nat), NEW b \in Seq(Nat), NEW c \in Seq(Nat)
  PROVE  (a \o b) \o c = a \o (b \o c)
BY ConcatAssociative

-----------------------------------------------------------------------------
(* One field *)

\* What a value is when it was received: a number keeps the zeros before it
Received(f, v) == IF f.sized THEN v ELSE PadLeft(v, f.w)

\* The fields of the formats
Field == [sized : BOOLEAN, w : 0 .. 6]

\* A value that fits its field
FitsField(f, v) ==
  /\ f \in Field /\ v \in Seq(Nat)
  /\ f.sized => f.w \in 1 .. 3 /\ Len(v) < Ten(f.w)
  /\ ~ f.sized => v \in Seq(Digit) /\ v # <<>> /\ (f.w > 0 => Len(v) <= f.w)

\* A number below a power of ten has no more digits than that.
LEMMA LenDigits ==
  ASSUME NEW n \in Nat, NEW w \in 1 .. 6, n < Ten(w)
  PROVE  n \in Small /\ Len(Digits(n)) <= w /\ Len(Digits(n)) \in 1 .. 7
<1>1. n < Ten(7)
  BY TenIs, SMT
<1>2. n \in Small
  BY <1>1 DEF Small
<1>3. /\ Size(n) \in 1 .. 7
      /\ Size(n) = 1 \/ n >= Ten(Size(n) - 1)
      /\ Len(Digits(n)) = Size(n)
  BY <1>2, SizeIs, DigitsAre
<1>4. ASSUME Size(n) > w PROVE FALSE
  <2>1. PICK s \in 2 .. 7 : s > w /\ n >= Ten(s - 1)
    BY <1>3, <1>4
  <2>2. Ten(s - 1) >= Ten(w)
    BY <2>1, TenIs, SMT
  <2>3. Ten(w) \in Nat /\ Ten(s - 1) \in Nat
    BY <2>1, TenIs, SMT
  <2> HIDE DEF Ten
  <2> QED
    BY <2>1, <2>2, <2>3
<1> QED
  BY <1>2, <1>3, <1>4

\* A length in w characters
LEMMA LengthField ==
  ASSUME NEW n \in Nat, NEW w \in 1 .. 6, n < Ten(w)
  PROVE  /\ PadLeft(Digits(n), w) \in Seq(Digit)
         /\ PadLeft(Digits(n), w) \in Seq(Nat)
         /\ Len(PadLeft(Digits(n), w)) = w
         /\ Atoi(PadLeft(Digits(n), w)) = n
<1>1. n \in Small /\ Len(Digits(n)) <= w
  BY LenDigits
<1>2. Digits(n) \in Seq(Digit) /\ Len(Digits(n)) \in Nat
  BY <1>1, DigitsAre
<1>3. PadLeft(Digits(n), w) \in Seq(Digit)
  BY <1>2, PadIs
<1>4. Len(PadLeft(Digits(n), w)) = IF Len(Digits(n)) < w THEN w ELSE Len(Digits(n))
  BY <1>2, PadIs
<1>5. Len(PadLeft(Digits(n), w)) = w
  BY <1>1, <1>2, <1>4
<1>6. Atoi(PadLeft(Digits(n), w)) = n
  BY <1>1, <1>2, AtoiPad, AtoiDigits
<1>7. Digit \subseteq Nat
  BY DEF Digit
<1>8. PadLeft(Digits(n), w) \in Seq(Nat)
  BY <1>3, <1>7, SeqMonotonic
<1> QED
  BY <1>3, <1>5, <1>6, <1>8

\* A number has at least one digit.
LEMMA DigitsSome ==
  ASSUME NEW n \in Small
  PROVE  Digits(n) # <<>> /\ Digits(n) \in Seq(Digit)
<1>1. Len(Digits(n)) \in 1 .. 7 /\ Digits(n) \in Seq(Digit)
  BY DigitsAre
<1>2. Len(Digits(n)) # 0
  BY <1>1
<1> QED
  BY <1>1, <1>2, EmptySeq

\* Digits are characters.
LEMMA DigitText ==
  ASSUME NEW t \in Seq(Digit)
  PROVE  t \in Seq(Nat)
<1>1. Digit \subseteq Nat
  BY DEF Digit
<1> QED
  BY <1>1, SeqMonotonic

\* A number in its field
LEMMA NumberField ==
  ASSUME NEW f, NEW v, FitsField(f, v), ~ f.sized
  PROVE  /\ Put(f, v) = PadLeft(v, f.w) /\ Received(f, v) = PadLeft(v, f.w)
         /\ PadLeft(v, f.w) \in Seq(Digit)
         /\ PadLeft(v, f.w) \in Seq(Nat)
         /\ PadLeft(v, f.w) # <<>>
         /\ f.w > 0 => Len(PadLeft(v, f.w)) = f.w
         /\ f.w = 0 => PadLeft(v, f.w) = v
         /\ Atoi(PadLeft(v, f.w)) = Atoi(v)
<1>1. f.w \in Nat /\ v \in Seq(Digit) /\ v # <<>> /\ (f.w > 0 => Len(v) <= f.w)
  BY DEF FitsField, Field
<1>2. v \in Seq(Nat) /\ Len(v) \in Nat /\ Len(v) > 0
  BY <1>1, DigitText, EmptySeq
<1>3. PadLeft(v, f.w) \in Seq(Digit) /\ Len(PadLeft(v, f.w)) = IF Len(v) < f.w THEN f.w ELSE Len(v)
  BY <1>1, PadIs
<1>4. Len(PadLeft(v, f.w)) > 0 /\ (f.w > 0 => Len(PadLeft(v, f.w)) = f.w)
  BY <1>1, <1>2, <1>3
<1>5. PadLeft(v, f.w) # <<>>
  BY <1>4, EmptySeq
<1>6. PadLeft(v, f.w) \in Seq(Nat)
  BY <1>3, DigitText
<1>7. f.w = 0 => PadLeft(v, f.w) = v
  BY <1>1, <1>2, PadFull
<1>8. Atoi(PadLeft(v, f.w)) = Atoi(v)
  BY <1>1, AtoiPad
<1>9. Put(f, v) = PadLeft(v, f.w) /\ Received(f, v) = PadLeft(v, f.w)
  BY DEF Put, Received
<1> QED
  BY <1>3, <1>4, <1>5, <1>6, <1>7, <1>8, <1>9

\* A text after its length
LEMMA TextField ==
  ASSUME NEW f, NEW v, FitsField(f, v), f.sized
  PROVE  /\ Put(f, v) = PadLeft(Digits(Len(v)), f.w) \o v /\ Received(f, v) = v
         /\ v \in Seq(Nat) /\ f.w \in 1 .. 3
         /\ PadLeft(Digits(Len(v)), f.w) \in Seq(Digit)
         /\ PadLeft(Digits(Len(v)), f.w) \in Seq(Nat)
         /\ Len(PadLeft(Digits(Len(v)), f.w)) = f.w
         /\ Atoi(PadLeft(Digits(Len(v)), f.w)) = Len(v)
         /\ Put(f, v) \in Seq(Nat)
<1>1. f.w \in 1 .. 3 /\ Len(v) < Ten(f.w) /\ v \in Seq(Nat) /\ Len(v) \in Nat
  BY LenProperties DEF FitsField
<1>2. f.w \in 1 .. 6
  BY <1>1
<1>3. /\ PadLeft(Digits(Len(v)), f.w) \in Seq(Digit)
      /\ PadLeft(Digits(Len(v)), f.w) \in Seq(Nat)
      /\ Len(PadLeft(Digits(Len(v)), f.w)) = f.w
      /\ Atoi(PadLeft(Digits(Len(v)), f.w)) = Len(v)
  BY <1>1, <1>2, LengthField
<1>4. Put(f, v) = PadLeft(Digits(Len(v)), f.w) \o v /\ Received(f, v) = v
  BY DEF Put, Received
<1>5. Put(f, v) \in Seq(Nat)
  BY <1>1, <1>3, <1>4, CutText
<1> QED
  BY <1>1, <1>3, <1>4, <1>5

\* A value that fits is written as a text.
LEMMA PutText ==
  ASSUME NEW f, NEW v, FitsField(f, v)
  PROVE  Put(f, v) \in Seq(Nat)
BY NumberField, TextField

\* A parser takes a field as it was written, and nothing more.
LEMMA TakeField ==
  ASSUME NEW f, NEW v, FitsField(f, v), NEW r \in Seq(Nat), f.w = 0 => r = <<>>,
         NEW p, p.rest = Put(f, v) \o r
  PROVE  /\ CanTake(p, f)
         /\ Taken(p, f) = [rest |-> r, values |-> Append(p.values, Received(f, v))]
<1>1. CASE f.sized
  <2> DEFINE d == PadLeft(Digits(Len(v)), f.w)
  <2>1. /\ d \in Seq(Digit) /\ d \in Seq(Nat) /\ Len(d) = f.w /\ Atoi(d) = Len(v)
        /\ Put(f, v) = d \o v /\ Received(f, v) = v /\ v \in Seq(Nat) /\ f.w \in 1 .. 3
    BY <1>1, TextField
  <2> HIDE DEF d
  <2>2. p.rest = d \o (v \o r) /\ v \o r \in Seq(Nat)
    <3>1. (d \o v) \o r = d \o (v \o r)
      BY <2>1, CatAgain
    <3>2. v \o r \in Seq(Nat)
      BY <2>1, CutText
    <3> QED
      BY <2>1, <3>1, <3>2
  <2>3. /\ p.rest \in Seq(Nat)
        /\ Len(p.rest) = f.w + Len(v \o r)
        /\ SubSeq(p.rest, 1, f.w) = d
        /\ SubSeq(p.rest, f.w + 1, Len(p.rest)) = v \o r
    <3>1. /\ d \o (v \o r) \in Seq(Nat)
          /\ Len(d \o (v \o r)) = Len(d) + Len(v \o r)
          /\ SubSeq(d \o (v \o r), 1, Len(d)) = d
          /\ SubSeq(d \o (v \o r), Len(d) + 1, Len(d \o (v \o r))) = v \o r
      BY <2>1, <2>2, CutText
    <3> QED
      BY <2>1, <2>2, <3>1
  <2>4. /\ Len(v \o r) = Len(v) + Len(r) /\ Len(v) \in Nat /\ Len(r) \in Nat
    BY <2>1, CutText, LenProperties
  <2>5. d \o v \in Seq(Nat) /\ Len(d \o v) = f.w + Len(v) /\ p.rest = (d \o v) \o r
    BY <2>1, CutText
  <2>6. SubSeq(p.rest, f.w + Len(v) + 1, Len(p.rest)) = r
    BY <2>5, CutText
  <2>7. SubSeq(p.rest, f.w + 1, f.w + Len(v)) = v
    <3>1. SubSeq((d \o v) \o r, Len(d) + 1, Len(d) + Len(v)) = v
      BY <2>1, CutMiddle
    <3> QED
      BY <2>1, <2>5, <3>1
  <2>8. IsNumber(d)
    <3>1. Len(d) \in Nat /\ Len(d) > 0 /\ DOMAIN d = 1 .. Len(d) /\ \A i \in 1 .. Len(d) : d[i] \in Digit
      BY <2>1, LenProperties
    <3>2. d # <<>>
      BY <3>1, EmptySeq
    <3> QED
      BY <3>1, <3>2 DEF IsNumber
  <2>9. CanTake(p, f)
    <3>1. f.w # 0 /\ f.w <= Len(p.rest) /\ f.w + Len(v) <= Len(p.rest)
      <4>1. /\ f.w \in 1 .. 3 /\ Len(p.rest) = f.w + (Len(v) + Len(r))
            /\ Len(v) \in Nat /\ Len(r) \in Nat
        BY <2>1, <2>3, <2>4
      <4> QED
        BY <4>1
    <3> QED
      BY <2>1, <2>3, <2>8, <3>1 DEF CanTake
  <2>10. Taken(p, f) = [rest |-> r, values |-> Append(p.values, v)]
    <3>1. f.w # 0
      BY <2>1
    <3> QED
      BY <1>1, <2>1, <2>3, <2>6, <2>7, <3>1 DEF Taken
  <2> QED
    BY <2>1, <2>9, <2>10
<1>2. CASE ~ f.sized
  <2> DEFINE d == PadLeft(v, f.w)
             w == IF f.w = 0 THEN Len(p.rest) ELSE f.w
  <2>1. /\ d \in Seq(Digit) /\ d \in Seq(Nat) /\ d # <<>> /\ Put(f, v) = d /\ Received(f, v) = d
        /\ (f.w > 0 => Len(d) = f.w) /\ f.w \in Nat
    <3>1. f.w \in Nat
      BY DEF FitsField, Field
    <3> QED
      BY <1>2, <3>1, NumberField
  <2> HIDE DEF d
  <2>2. /\ p.rest = d \o r /\ p.rest \in Seq(Nat)
        /\ Len(p.rest) = Len(d) + Len(r)
        /\ SubSeq(p.rest, 1, Len(d)) = d
        /\ SubSeq(p.rest, Len(d) + 1, Len(p.rest)) = r
    BY <2>1, CutText
  <2>3. Len(d) \in Nat /\ Len(r) \in Nat
    BY <2>1, LenProperties
  <2>4. w = Len(d)
    <3>1. CASE f.w = 0
      <4>1. Len(r) = 0
        BY <3>1, EmptySeq
      <4> QED
        BY <2>2, <2>3, <3>1, <4>1
    <3>2. CASE f.w # 0
      BY <2>1, <3>2
    <3> QED
      BY <3>1, <3>2
  <2>5. IsNumber(d)
    <3>1. DOMAIN d = 1 .. Len(d) /\ \A i \in 1 .. Len(d) : d[i] \in Digit
      BY <2>1, LenProperties
    <3> QED
      BY <2>1, <3>1 DEF IsNumber
  <2>6. Len(d) <= Len(p.rest)
    BY <2>2, <2>3
  <2>7. CanTake(p, f)
    BY <1>2, <2>2, <2>4, <2>5, <2>6 DEF CanTake
  <2>8. Taken(p, f) = [rest |-> r, values |-> Append(p.values, d)]
    BY <1>2, <2>2, <2>4 DEF Taken
  <2> QED
    BY <2>1, <2>7, <2>8
<1> QED
  BY <1>1, <1>2

-----------------------------------------------------------------------------
(* All the values of a message *)

\* Values that fit; a number as long as it happens to be is the last one.
FitsAll(F, values) ==
  /\ values \in Seq(Seq(Nat))
  /\ \A i \in 1 .. Len(values) :
       FitsField(FieldAt(F, i), values[i]) /\ (FieldAt(F, i).w = 0 => i = Len(values))

\* The first k values as they are received
Padded(F, values, k) == [i \in 1 .. k |-> Received(FieldAt(F, i), values[i])]

\* The values from i on: value i, and those after it
LEMMA PutLastStep ==
  ASSUME NEW F, NEW values, Len(values) \in Nat, NEW i \in 1 .. Len(values)
  PROVE  PutLast(F, values, Len(values) - i + 1)
           = Put(FieldAt(F, i), values[i]) \o PutLast(F, values, Len(values) - i)
<1> DEFINE k == Len(values) - i + 1
<1>1. k \in 1 .. Len(values) /\ Len(values) - k + 1 = i /\ k - 1 = Len(values) - i
  OBVIOUS
<1> HIDE DEF k
<1>2. PutLast(F, values, k) = Put(FieldAt(F, Len(values) - k + 1), values[Len(values) - k + 1])
                                \o PutLast(F, values, k - 1)
  BY <1>1, PutStep
<1> QED
  BY <1>1, <1>2 DEF k

\* Each value of a message that fits, fits.
LEMMA FitsAt ==
  ASSUME NEW F, NEW values, FitsAll(F, values), NEW i \in 1 .. Len(values)
  PROVE  FitsField(FieldAt(F, i), values[i]) /\ (FieldAt(F, i).w = 0 => i = Len(values))
<1>1. \A j \in 1 .. Len(values) :
        FitsField(FieldAt(F, j), values[j]) /\ (FieldAt(F, j).w = 0 => j = Len(values))
  BY DEF FitsAll
<1> QED
  BY <1>1

\* Values whose fields are texts are written as a text.
LEMMA PutLastNat ==
  ASSUME NEW F, NEW values, Len(values) \in Nat,
         \A i \in 1 .. Len(values) : Put(FieldAt(F, i), values[i]) \in Seq(Nat),
         NEW k \in 0 .. Len(values)
  PROVE  PutLast(F, values, k) \in Seq(Nat)
<1> DEFINE n == Len(values)
<1>1. n \in Nat
  OBVIOUS
<1>2. PutLast(F, values, 0) = <<>>
  BY <1>1, PutStep
<1> HIDE DEF n
<1> DEFINE T == {j \in Nat : j <= n => PutLast(F, values, j) \in Seq(Nat)}
<1>3. 0 \in T
  BY <1>2, EmptySeq
<1>4. ASSUME NEW j \in T PROVE j + 1 \in T
  <2>1. CASE j + 1 <= n
    <3> DEFINE i == n - j
    <3>1. i \in 1 .. n /\ n - i + 1 = j + 1 /\ n - i = j /\ j <= n
      BY <1>1, <2>1
    <3> HIDE DEF i
    <3>2. PutLast(F, values, n - i + 1) = Put(FieldAt(F, i), values[i]) \o PutLast(F, values, n - i)
      BY <1>1, <3>1, PutLastStep DEF n
    <3>3. PutLast(F, values, j) \in Seq(Nat)
      BY <3>1
    <3>4. Put(FieldAt(F, i), values[i]) \in Seq(Nat)
      BY <3>1 DEF n
    <3>5. Put(FieldAt(F, i), values[i]) \o PutLast(F, values, j) \in Seq(Nat)
      BY <3>3, <3>4, CutText
    <3>6. PutLast(F, values, j + 1) \in Seq(Nat)
      BY <3>1, <3>2, <3>5
    <3> QED
      BY <3>6
  <2>2. CASE ~ (j + 1 <= n)
    BY <2>2
  <2> QED
    BY <2>1, <2>2
<1>5. T = Nat
  <2> HIDE DEF T
  <2>1. T \subseteq Nat
    BY DEF T
  <2> QED
    BY <1>3, <1>4, <2>1, NatSet
<1>6. k \in Nat /\ k <= n
  BY <1>1 DEF n
<1> QED
  BY <1>5, <1>6

\* So are values that fit.
LEMMA PutLastText ==
  ASSUME NEW F, NEW values, FitsAll(F, values), NEW k \in 0 .. Len(values)
  PROVE  PutLast(F, values, k) \in Seq(Nat)
<1>1. Len(values) \in Nat
  BY LenProperties DEF FitsAll
<1>2. ASSUME NEW i \in 1 .. Len(values) PROVE Put(FieldAt(F, i), values[i]) \in Seq(Nat)
  <2>1. FitsField(FieldAt(F, i), values[i])
    BY FitsAt
  <2> QED
    BY <2>1, PutText
<1> QED
  BY <1>1, <1>2, PutLastNat

\* Also a value that does not fit is written as a text.
LEMMA PutNat ==
  ASSUME NEW f \in Field, NEW v,
         IF f.sized THEN v \in Seq(Nat) /\ Len(v) \in Small ELSE v \in Seq(Digit)
  PROVE  Put(f, v) \in Seq(Nat)
<1>1. f.w \in Nat
  BY DEF Field
<1>2. CASE f.sized
  <2>1. Digits(Len(v)) \in Seq(Digit)
    BY <1>2, DigitsAre
  <2>2. PadLeft(Digits(Len(v)), f.w) \in Seq(Digit)
    BY <1>1, <2>1, PadIs
  <2>3. PadLeft(Digits(Len(v)), f.w) \in Seq(Nat) /\ v \in Seq(Nat)
    BY <1>2, <2>2, DigitText
  <2>4. PadLeft(Digits(Len(v)), f.w) \o v \in Seq(Nat)
    BY <2>3, CutText
  <2> QED
    BY <1>2, <2>4 DEF Put
<1>3. CASE ~ f.sized
  <2>1. PadLeft(v, f.w) \in Seq(Digit)
    BY <1>1, <1>3, PadIs
  <2>2. PadLeft(v, f.w) \in Seq(Nat)
    BY <2>1, DigitText
  <2> QED
    BY <1>3, <2>2 DEF Put
<1> QED
  BY <1>2, <1>3

\* No field is written as nothing.
LEMMA PutSome ==
  ASSUME NEW f, NEW v, FitsField(f, v), NEW r \in Seq(Nat)
  PROVE  Put(f, v) \o r # <<>>
<1>1. Put(f, v) \in Seq(Nat) /\ Put(f, v) # <<>>
  <2>1. CASE f.sized
    <3> DEFINE d == PadLeft(Digits(Len(v)), f.w)
    <3>1. d \in Seq(Nat) /\ v \in Seq(Nat) /\ Len(d) > 0 /\ Put(f, v) = d \o v
      <4>1. /\ d \in Seq(Nat) /\ v \in Seq(Nat) /\ Put(f, v) = d \o v
            /\ f.w \in 1 .. 3 /\ Len(d) = f.w
        BY <2>1, TextField
      <4> HIDE DEF d
      <4> QED
        BY <4>1
    <3> HIDE DEF d
    <3>2. Len(d \o v) = Len(d) + Len(v) /\ Len(d) \in Nat /\ Len(v) \in Nat /\ d \o v \in Seq(Nat)
      BY <3>1, CutText, LenProperties
    <3>3. Len(d \o v) # 0
      BY <3>1, <3>2
    <3> QED
      BY <3>1, <3>2, <3>3, EmptySeq
  <2>2. CASE ~ f.sized
    BY <2>2, NumberField
  <2> QED
    BY <2>1, <2>2
<1>2. Len(Put(f, v)) \in Nat \ {0} /\ Len(r) \in Nat
  BY <1>1, EmptySeq, LenProperties
<1>3. Len(Put(f, v) \o r) = Len(Put(f, v)) + Len(r)
  BY <1>1, CutText
<1>4. Len(Put(f, v) \o r) # 0
  BY <1>2, <1>3
<1> QED
  BY <1>4, EmptySeq

\* What is received of a value that fits is a text.
LEMMA ReceivedText ==
  ASSUME NEW f, NEW v, FitsField(f, v)
  PROVE  Received(f, v) \in Seq(Nat)
BY NumberField, TextField

\* One more value was received.
LEMMA PaddedStep ==
  ASSUME NEW F, NEW values, FitsAll(F, values), NEW k \in 1 .. Len(values)
  PROVE  Append(Padded(F, values, k - 1), Received(FieldAt(F, k), values[k])) = Padded(F, values, k)
<1>1. Len(values) \in Nat
  BY LenProperties DEF FitsAll
<1> DEFINE R(i) == Received(FieldAt(F, i), values[i])
<1>2. \A i \in 1 .. k : R(i) \in Seq(Nat)
  <2>1. SUFFICES ASSUME NEW i \in 1 .. k PROVE R(i) \in Seq(Nat)
    OBVIOUS
  <2>3. i \in 1 .. Len(values)
    BY <1>1
  <2>2. FitsField(FieldAt(F, i), values[i])
    BY <2>3, FitsAt
  <2> QED
    BY <2>2, ReceivedText
<1> HIDE DEF R
<1> DEFINE a == [i \in 1 .. k - 1 |-> R(i)]
           b == [i \in 1 .. k |-> R(i)]
<1>3. k \in Nat /\ k - 1 \in Nat /\ k \in 1 .. k
  BY <1>1
<1>4. a \in Seq(Seq(Nat)) /\ Len(a) = k - 1 /\ \A i \in 1 .. k - 1 : a[i] = R(i)
  BY <1>2, <1>3
<1>5. b \in Seq(Seq(Nat)) /\ Len(b) = k /\ \A i \in 1 .. k : b[i] = R(i)
  BY <1>2, <1>3
<1> HIDE DEF a, b
<1>6. R(k) \in Seq(Nat)
  BY <1>2, <1>3
<1>7. /\ Append(a, R(k)) \in Seq(Seq(Nat))
      /\ Len(Append(a, R(k))) = Len(a) + 1
      /\ \A i \in 1 .. Len(a) : Append(a, R(k))[i] = a[i]
      /\ Append(a, R(k))[Len(a) + 1] = R(k)
  BY <1>4, <1>6, AppendProperties
<1>8. ASSUME NEW i \in 1 .. k PROVE Append(a, R(k))[i] = b[i]
  <2>1. CASE i = k
    BY <1>3, <1>4, <1>5, <1>7, <2>1
  <2>2. CASE i # k
    <3>1. i \in 1 .. k - 1
      BY <1>3, <2>2
    <3> QED
      BY <1>4, <1>5, <1>7, <3>1
  <2> QED
    BY <2>1, <2>2
<1>9. Len(Append(a, R(k))) = Len(b)
  BY <1>3, <1>4, <1>5, <1>7
<1>10. Append(a, R(k)) = b
  BY <1>5, <1>7, <1>8, <1>9, SeqEqual
<1> QED
  BY <1>10 DEF a, b, R, Padded

\* What is left after the first i fields, and their values
At(F, values, i) == [rest |-> PutLast(F, values, Len(values) - i), values |-> Padded(F, values, i)]

\* A parser of the client takes the values one by one as they were written, texts
\* as they are and numbers with the zeros that fill their field, and nothing is left:
\* for any number of fields (Classes.cs:326-497), and for a list without a count that
\* ends before the last item the parser has room for (Classes.cs:453-479).
THEOREM TakeValues ==
  ASSUME NEW F, NEW values, FitsAll(F, values), NEW n \in Nat, n >= Len(values),
         n = Len(values) \/ (F.item # <<>> /\ F.count = 0 /\ Len(values) % Len(F.item) = 0)
  PROVE  TakeAll(F, n, PutLast(F, values, Len(values)))
           = {[rest |-> <<>>, values |-> Padded(F, values, Len(values))]}
<1> DEFINE m == Len(values)
           t == PutLast(F, values, m)
<1>1. m \in Nat
  BY LenProperties DEF FitsAll
<1> HIDE DEF t
<1>2. PICK f : TakeRun(F, t, n, f)
  BY TakeStep
<1> USE DEF t
<1>3. At(F, values, m) = [rest |-> <<>>, values |-> Padded(F, values, m)]
  <2>1. m - m = 0
    BY <1>1
  <2>2. PutLast(F, values, 0) = <<>>
    BY <1>1, PutStep
  <2> QED
    BY <2>1, <2>2 DEF At
<1> DEFINE T == {i \in Nat : i <= n => f[i] = {At(F, values, IF i <= m THEN i ELSE m)}}
<1>4. 0 \in T
  <2>1. m - 0 = m /\ 0 <= m
    BY <1>1
  <2>2. Padded(F, values, 0) = <<>>
    BY DEF Padded
  <2>3. At(F, values, 0) = [rest |-> t, values |-> <<>>]
    BY <2>1, <2>2 DEF At
  <2>4. f[0] = {[rest |-> t, values |-> <<>>]}
    BY <1>2 DEF TakeRun
  <2> QED
    BY <2>1, <2>3, <2>4
<1>5. ASSUME NEW i \in T PROVE i + 1 \in T
  <2>0. i \in Nat /\ (i <= n => f[i] = {At(F, values, IF i <= m THEN i ELSE m)})
    OBVIOUS
  <2> HIDE DEF T
  <2> DEFINE g == FieldAt(F, i + 1)
             q == At(F, values, IF i <= m THEN i ELSE m)
  <2>1. ASSUME i + 1 <= n PROVE f[i + 1] = {At(F, values, IF i + 1 <= m THEN i + 1 ELSE m)}
    <3>1. i + 1 \in 1 .. n /\ i + 1 - 1 = i /\ i <= n
      BY <2>0, <2>1
    <3>2. f[i] = {q}
      BY <2>0, <3>1
    <3>3. f[i + 1] = {IF Ended(F, p) THEN p ELSE Taken(p, g) :
                        p \in {p \in f[i] : Ended(F, p) \/ CanTake(p, g)}}
      <4>1. PICK k \in 1 .. n : k = i + 1 /\ k - 1 = i
        BY <2>0, <3>1
      <4>2. f[k] = TakeNext(F, f[i], k)
        <5>1. f[k] = TakeNext(F, f[k - 1], k)
          BY <1>2 DEF TakeRun
        <5> QED
          BY <4>1, <5>1
      <4>3. f[k] = {IF Ended(F, p) THEN p ELSE Taken(p, FieldAt(F, k)) :
                      p \in {p \in f[i] : Ended(F, p) \/ CanTake(p, FieldAt(F, k))}}
        BY <4>2 DEF TakeNext
      <4> QED
        BY <4>1, <4>3
    <3>4. CASE i + 1 <= m
      <4> DEFINE k == i + 1
      <4>1. k \in 1 .. m /\ m - k + 1 = m - i /\ i <= m /\ k - 1 = i /\ m - k \in 0 .. m
        BY <1>1, <2>0, <3>4
      <4>2. q = At(F, values, i)
        BY <4>1
      <4> HIDE DEF q
      <4>3. q.rest = PutLast(F, values, m - i) /\ q.values = Padded(F, values, i)
        BY <4>2 DEF At
      <4> HIDE DEF k
      <4>4. PutLast(F, values, m - k + 1) = Put(FieldAt(F, k), values[k]) \o PutLast(F, values, m - k)
        BY <1>1, <4>1, PutLastStep
      <4>5. PutLast(F, values, m - k) \in Seq(Nat)
        BY <4>1, PutLastText
      <4>6. FitsField(FieldAt(F, k), values[k]) /\ (FieldAt(F, k).w = 0 => k = m)
        BY <4>1, FitsAt
      <4>7. FieldAt(F, k).w = 0 => PutLast(F, values, m - k) = <<>>
        <5>1. k = m => m - k = 0
          BY <1>1
        <5>2. PutLast(F, values, 0) = <<>>
          BY <1>1, PutStep
        <5> QED
          BY <4>6, <5>1, <5>2
      <4>8. q.rest = Put(FieldAt(F, k), values[k]) \o PutLast(F, values, m - k)
        BY <4>1, <4>3, <4>4
      <4>9. /\ CanTake(q, FieldAt(F, k))
            /\ Taken(q, FieldAt(F, k)) = [rest |-> PutLast(F, values, m - k),
                                          values |-> Append(q.values, Received(FieldAt(F, k), values[k]))]
        BY <4>5, <4>6, <4>7, <4>8, TakeField
      <4>10. q.rest # <<>>
        BY <4>5, <4>6, <4>8, PutSome
      <4>11. ~ Ended(F, q)
        BY <4>10 DEF Ended
      <4>12. Append(q.values, Received(FieldAt(F, k), values[k])) = Padded(F, values, k)
        BY <4>1, <4>3, PaddedStep
      <4>13. Taken(q, FieldAt(F, k)) = At(F, values, k)
        BY <4>9, <4>12 DEF At
      <4>14. CanTake(q, g) /\ Taken(q, g) = At(F, values, k)
        BY <4>9, <4>13 DEF k
      <4> HIDE DEF g
      <4>15. f[i + 1] = {Taken(q, g)}
        BY <3>2, <3>3, <4>11, <4>14
      <4> QED
        BY <3>4, <4>14, <4>15 DEF k
    <3>5. CASE ~ (i + 1 <= m)
      <4>1. q = At(F, values, m) /\ n # m
        <5>1. CASE i = m
          BY <1>1, <2>0, <2>1, <5>1
        <5>2. CASE i # m
          <6>1. ~ (i <= m) /\ n # m
            BY <1>1, <2>0, <2>1, <3>5, <5>2
          <6> QED
            BY <6>1
        <5> QED
          BY <5>1, <5>2
      <4> HIDE DEF q, g
      <4>2. F.item # <<>> /\ F.count = 0 /\ m % Len(F.item) = 0
        BY <4>1
      <4>3. q.rest = <<>> /\ q.values = Padded(F, values, m)
        BY <1>3, <4>1
      <4>4. Len(Padded(F, values, m)) = m
        BY <1>1 DEF Padded
      <4>5. Ended(F, q)
        BY <4>2, <4>3, <4>4 DEF Ended
      <4>6. f[i + 1] = {q}
        BY <3>2, <3>3, <4>5
      <4> QED
        BY <3>5, <4>1, <4>6
    <3> QED
      BY <3>4, <3>5
  <2> QED
    BY <2>0, <2>1 DEF T
<1>6. T = Nat
  <2> HIDE DEF T
  <2>1. T \subseteq Nat
    BY DEF T
  <2> QED
    BY <1>4, <1>5, <2>1, NatSet
<1>7. f[n] = {At(F, values, IF n <= m THEN n ELSE m)}
  <2>1. n \in T /\ n <= n
    BY <1>6
  <2> QED
    BY <2>1
<1>8. f[n] = {At(F, values, m)}
  <2>1. n <= m => n = m
    BY <1>1
  <2> QED
    BY <1>7, <2>1
<1> QED
  <2>1. TakeAll(F, n, t) = f[n]
    BY <1>2 DEF TakeRun
  <2> QED
    BY <1>3, <1>8, <2>1

\* What is written depends on what each field is written as.
LEMMA PutSame ==
  ASSUME NEW F, NEW G, NEW values, Len(values) \in Nat,
         \A i \in 1 .. Len(values) : Put(FieldAt(F, i), values[i]) = Put(FieldAt(G, i), values[i])
  PROVE  PutLast(F, values, Len(values)) = PutLast(G, values, Len(values))
<1> DEFINE n == Len(values)
           T == {j \in Nat : j <= n => PutLast(F, values, j) = PutLast(G, values, j)}
<1>1. 0 \in T
  <2>1. PutLast(F, values, 0) = <<>>
    BY PutStep
  <2>2. PutLast(G, values, 0) = <<>>
    BY PutStep
  <2> QED
    BY <2>1, <2>2
<1>2. ASSUME NEW j \in T PROVE j + 1 \in T
  <2>1. CASE j + 1 <= n
    <3> DEFINE i == n - j
    <3>1. i \in 1 .. n /\ n - i + 1 = j + 1 /\ n - i = j /\ j <= n
      BY <2>1
    <3> HIDE DEF i
    <3>2. PutLast(F, values, n - i + 1) = Put(FieldAt(F, i), values[i]) \o PutLast(F, values, n - i)
      BY <3>1, PutLastStep
    <3>3. PutLast(G, values, n - i + 1) = Put(FieldAt(G, i), values[i]) \o PutLast(G, values, n - i)
      BY <3>1, PutLastStep
    <3>4. Put(FieldAt(F, i), values[i]) = Put(FieldAt(G, i), values[i])
      BY <3>1
    <3>5. PutLast(F, values, j) = PutLast(G, values, j)
      BY <3>1
    <3>6. PutLast(F, values, n - i + 1) = PutLast(G, values, n - i + 1)
      BY <3>1, <3>2, <3>3, <3>4, <3>5
    <3>7. PutLast(F, values, j + 1) = PutLast(G, values, j + 1)
      BY <3>1, <3>6
    <3> QED
      BY <3>7
  <2>2. CASE ~ (j + 1 <= n)
    BY <2>2
  <2> QED
    BY <2>1, <2>2
<1>3. T = Nat
  <2> HIDE DEF T
  <2>1. T \subseteq Nat
    BY DEF T
  <2> QED
    BY <1>1, <1>2, <2>1, NatSet
<1>4. n \in T /\ n <= n
  BY <1>3
<1> QED
  BY <1>4

\* The outcome of a parser that read these values
Read1(F, values) == {[rest |-> <<>>, values |-> Padded(F, values, Len(values))]}

\* A message of some fields has one reading, what was written,
LEMMA ParseFields ==
  ASSUME NEW F, NEW values, FitsAll(F, values), F.item = <<>>, Len(F.head) = Len(values)
  PROVE  Parse(F, PutLast(F, values, Len(values))) = Read1(F, values)
<1> DEFINE t == PutLast(F, values, Len(values))
<1>1. Len(values) \in Nat /\ Len(values) >= Len(values)
  BY LenProperties DEF FitsAll
<1>2. TakeAll(F, Len(values), t) = Read1(F, values)
  BY <1>1, TakeValues DEF Read1
<1> HIDE DEF t
<1>3. Parse(F, t) = TakeAll(F, Len(F.head), t)
  BY DEF Parse
<1> QED
  BY <1>2, <1>3 DEF t

\* a list that nobody counts has one, also where it ends early,
LEMMA ParseOpen ==
  ASSUME NEW F, NEW values, FitsAll(F, values), F.item # <<>>, F.count = 0,
         3 * Len(F.item) \in Nat, Len(values) <= 3 * Len(F.item), Len(values) % Len(F.item) = 0
  PROVE  Parse(F, PutLast(F, values, Len(values))) = Read1(F, values)
<1> DEFINE t == PutLast(F, values, Len(values))
           n == 3 * Len(F.item)
<1>1. n \in Nat /\ n >= Len(values)
  <2>1. Len(values) \in Nat
    BY LenProperties DEF FitsAll
  <2> HIDE DEF n
  <2>2. n \in Nat /\ Len(values) <= n
    BY DEF n
  <2> QED
    BY <2>1, <2>2
<1> HIDE DEF n
<1>2. TakeAll(F, n, t) = Read1(F, values)
  BY <1>1, TakeValues DEF Read1
<1> HIDE DEF t
<1>3. Parse(F, t) = TakeAll(F, n, t)
  BY DEF Parse, n
<1> QED
  BY <1>2, <1>3 DEF t

\* and so has a list behind its number.
LEMMA ParseCounted ==
  ASSUME NEW F, NEW values, FitsAll(F, values), F.item # <<>>, F.count \in 1 .. 4,
         NEW n \in Nat, n < Ten(F.count), Len(values) = n * Len(F.item),
         Len(values) \div Len(F.item) = n
  PROVE  /\ Parse(F, PutCount(F, Len(values)) \o PutLast(F, values, Len(values))) = Read1(F, values)
         /\ PutCount(F, Len(values)) \in Seq(Nat)
<1> DEFINE m == Len(values)
           r == PutLast(F, values, m)
           d == PadLeft(Digits(n), F.count)
           H == Fields(<<N(F.count)>>)
           t == d \o r
           P == TakeAll(H, 1, t)
<1>0. m \in Nat /\ m >= m
  BY LenProperties DEF FitsAll
<1>1. PutCount(F, m) = d
  <2>1. F.count # 0
    OBVIOUS
  <2> QED
    BY <2>1, Zenon DEF PutCount
<1>2. r \in Seq(Nat)
  <2>1. m \in 0 .. m
    BY <1>0
  <2> QED
    BY <2>1, PutLastText
<1>3. n \in Small /\ Len(Digits(n)) <= F.count /\ Len(Digits(n)) \in 1 .. 7
  <2>1. F.count \in 1 .. 6
    OBVIOUS
  <2> QED
    BY <2>1, LenDigits
<1>4. /\ d \in Seq(Nat) /\ d \in Seq(Digit) /\ Atoi(d) = n
  <2>1. F.count \in 1 .. 6
    OBVIOUS
  <2> QED
    BY <2>1, LengthField
<1>5. FitsField(N(F.count), Digits(n))
  <2>1. N(F.count) = [sized |-> FALSE, w |-> F.count]
    BY DEF N
  <2>2. N(F.count) \in Field /\ ~ N(F.count).sized /\ N(F.count).w = F.count
    BY <2>1 DEF Field
  <2>3. Digits(n) \in Seq(Digit)
    BY <1>3, DigitsAre
  <2>4. Digits(n) \in Seq(Nat)
    BY <2>3, DigitText
  <2>5. Digits(n) # <<>>
    BY <1>3, DigitsSome
  <2> QED
    BY <1>3, <2>2, <2>3, <2>4, <2>5 DEF FitsField
<1>6. Put(N(F.count), Digits(n)) = d /\ Received(N(F.count), Digits(n)) = d
  BY DEF Put, Received, N
<1> HIDE DEF d, r
<1>7. PICK f : TakeRun(H, t, 1, f)
  BY TakeStep
<1> DEFINE q0 == [rest |-> t, values |-> <<>>]
           q == [rest |-> r, values |-> <<d>>]
<1>8. f[0] = {q0} /\ f[1] = TakeNext(H, f[0], 1) /\ P = f[1]
  <2>1. 1 \in 1 .. 1 /\ 1 - 1 = 0
    OBVIOUS
  <2>2. f[1] = TakeNext(H, f[1 - 1], 1)
    BY <1>7, <2>1 DEF TakeRun
  <2> QED
    BY <1>7, <2>1, <2>2 DEF TakeRun
<1>9. FieldAt(H, 1) = N(F.count) /\ H.item = <<>>
  BY DEF FieldAt, Fields
<1>10. CanTake(q0, N(F.count)) /\ Taken(q0, N(F.count)) = q
  <2>1. q0.rest = Put(N(F.count), Digits(n)) \o r
    BY <1>6
  <2>2. N(F.count).w # 0
    BY DEF N
  <2>3. /\ CanTake(q0, N(F.count))
        /\ Taken(q0, N(F.count)) = [rest |-> r, values |-> Append(q0.values, Received(N(F.count), Digits(n)))]
    <3> HIDE DEF q0
    <3> QED
      BY <1>2, <1>5, <2>1, <2>2, TakeField
  <2>4. Append(<<>>, d) = <<d>>
    BY <1>4
  <2> QED
    BY <1>6, <2>3, <2>4
<1>11. ~ Ended(H, q0)
  BY <1>9 DEF Ended
<1> HIDE DEF q0, q, H, t
<1>12. P = {q}
  <2>1. f[1] = {IF Ended(H, p) THEN p ELSE Taken(p, FieldAt(H, 1)) :
                  p \in {p \in f[0] : Ended(H, p) \/ CanTake(p, FieldAt(H, 1))}}
    BY <1>8 DEF TakeNext
  <2> QED
    BY <1>8, <1>9, <1>10, <1>11, <2>1
<1> HIDE DEF P
<1>13. Parse(F, t) = UNION {TakeAll(F, Atoi(p.values[1]) * Len(F.item), p.rest) : p \in P}
  BY DEF Parse, P, H
<1>14. Parse(F, t) = TakeAll(F, Atoi(q.values[1]) * Len(F.item), q.rest)
  BY <1>12, <1>13
<1>15. Atoi(q.values[1]) = n /\ q.rest = r
  BY <1>4 DEF q
<1>16. Parse(F, t) = TakeAll(F, m, r)
  BY <1>14, <1>15
<1>17. TakeAll(F, m, r) = Read1(F, values)
  BY <1>0, TakeValues DEF Read1, r
<1>18. Parse(F, t) = Read1(F, values)
  BY <1>16, <1>17
<1> QED
  BY <1>1, <1>4, <1>18 DEF t, r

\* A message as it was received means what it meant when it was sent: the zeros that
\* fill the fields change no number, and the texts are the same.
THEOREM MeaningKept ==
  ASSUME NEW F, NEW values, FitsAll(F, values), NEW c
  PROVE  Meaning(F, [code |-> c, values |-> values])
           = Meaning(F, [code |-> c, values |-> Padded(F, values, Len(values))])
<1> DEFINE p == Padded(F, values, Len(values))
           V(v) == [i \in DOMAIN v |-> IF FieldAt(F, i).sized THEN v[i] ELSE Digits(Atoi(v[i]))]
<1>1. DOMAIN values = 1 .. Len(values) /\ DOMAIN p = 1 .. Len(values)
  BY LenProperties DEF FitsAll, Padded
<1>2. \A i \in 1 .. Len(values) : p[i] = Received(FieldAt(F, i), values[i])
  BY DEF Padded
<1> HIDE DEF p
<1>3. ASSUME NEW i \in 1 .. Len(values)
      PROVE  (IF FieldAt(F, i).sized THEN values[i] ELSE Digits(Atoi(values[i])))
               = (IF FieldAt(F, i).sized THEN p[i] ELSE Digits(Atoi(p[i])))
  <2>1. FitsField(FieldAt(F, i), values[i]) /\ p[i] = Received(FieldAt(F, i), values[i])
    BY <1>2, FitsAt
  <2>2. CASE FieldAt(F, i).sized
    BY <2>1, <2>2 DEF Received
  <2>3. CASE ~ FieldAt(F, i).sized
    <3>1. Atoi(p[i]) = Atoi(values[i])
      BY <2>1, <2>3, NumberField
    <3> QED
      BY <2>3, <3>1
  <2> QED
    BY <2>2, <2>3
<1>4. V(values) = V(p)
  BY <1>1, <1>3
<1> QED
  BY <1>4 DEF Meaning, p

\* Of numbers as to_string writes them the meaning is what was written.
Exact(F, values) ==
  \A i \in 1 .. Len(values) : ~ FieldAt(F, i).sized => \E n \in Small : values[i] = Digits(n)

\* What the server wrote itself means what it is.
LEMMA MeaningExact ==
  ASSUME NEW F, NEW values, FitsAll(F, values), Exact(F, values), NEW c
  PROVE  Meaning(F, [code |-> c, values |-> values]) = [code |-> c, values |-> values]
<1>1. values \in Seq(Seq(Nat)) /\ DOMAIN values = 1 .. Len(values)
  BY LenProperties DEF FitsAll
<1>2. ASSUME NEW i \in 1 .. Len(values), ~ FieldAt(F, i).sized PROVE Digits(Atoi(values[i])) = values[i]
  <2>1. PICK n \in Small : values[i] = Digits(n)
    BY <1>2 DEF Exact
  <2>2. Atoi(values[i]) = n
    BY <2>1, AtoiDigits
  <2> QED
    BY <2>1, <2>2
<1>3. [i \in 1 .. Len(values) |-> IF FieldAt(F, i).sized THEN values[i] ELSE Digits(Atoi(values[i]))]
        = [i \in 1 .. Len(values) |-> values[i]]
  BY <1>2
<1>4. [i \in 1 .. Len(values) |-> values[i]] = values
  BY <1>1
<1> QED
  BY <1>1, <1>3, <1>4 DEF Meaning

=============================================================================
