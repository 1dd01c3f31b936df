----------------------------- MODULE WireProofs -----------------------------
(* Theorems about Wire: the types, the refinement of Channel and the errors *)
(* that are read back, for every set of messages, every size of the buffer  *)
(* and every way in which the stream is cut.  What Decimal and Number       *)
(* compute is proved by induction over the natural numbers, said of sets    *)
(* of them.                                                                 *)
EXTENDS Wire, FiniteSetTheorems, WellFoundedInduction, SequenceTheorems, TLAPS

-----------------------------------------------------------------------------
(* Induction over the natural numbers, and the digits of a number. *)

\* Every set of numbers has a least one.
LEMMA LeastNatural ==
  ASSUME NEW T \in SUBSET Nat, T # {}
  PROVE  \E n \in T : \A k \in T : n <= k
<1> DEFINE R == { p \in Nat \X Nat : p[1] < p[2] }
<1>1. OpToRel(<, Nat) = R
  BY DEF OpToRel
<1>2. IsWellFoundedOn(R, Nat)
  BY <1>1, NatLessThanWellFounded
<1>3. PICK n \in T : \A k \in T : ~(<<k, n>> \in R)
  <2> HIDE DEF R
  <2> QED
    BY <1>2, WFMin
<1>4. ASSUME NEW k \in T
      PROVE  n <= k
  <2>1. <<k, n>> \in Nat \X Nat /\ <<k, n>>[1] = k /\ <<k, n>>[2] = n
    OBVIOUS
  <2>2. ~(k < n)
    BY <1>3, <2>1
  <2>3. QED
    BY <2>2
<1>5. QED
  BY <1>4

\* What holds of a number when it holds of all that are smaller, holds of all.
LEMMA Induction ==
  ASSUME NEW S, \A n \in Nat : (\A k \in Nat : k < n => k \in S) => n \in S
  PROVE  Nat \subseteq S
<1> SUFFICES ASSUME Nat \ S # {}
             PROVE  FALSE
  OBVIOUS
<1>1. PICK n \in Nat \ S : \A k \in Nat \ S : n <= k
  BY LeastNatural
<1>2. \A k \in Nat : k < n => k \in S
  BY <1>1
<1>3. QED
  BY <1>1, <1>2

\* The digits of the numbers below n, and of n.
DigitsUpTo(n) ==
  { f \in [0..n -> Seq(Bytes)] :
      \A k \in 0..n : f[k] = IF k < 10 THEN <<48 + k>> ELSE Append(f[k \div 10], 48 + (k % 10)) }

\* A number, without its last digit.
LEMMA Tenth ==
  ASSUME NEW n \in Nat, n >= 10
  PROVE  /\ n \div 10 \in Nat /\ n \div 10 < n /\ n \div 10 > 0
         /\ n % 10 \in 0..9 /\ n = 10 * (n \div 10) + (n % 10)
<1>1. n \div 10 \in Nat /\ n \div 10 < n /\ n \div 10 > 0
  OBVIOUS
<1>2. n % 10 \in 0..9
  OBVIOUS
<1>3. n = 10 * (n \div 10) + (n % 10)
  OBVIOUS
<1>4. QED
  BY <1>1, <1>2, <1>3

\* There is one such function at most.
LEMMA DigitsAgree ==
  ASSUME NEW n \in Nat, NEW m \in Nat, n <= m, NEW f \in DigitsUpTo(n), NEW g \in DigitsUpTo(m)
  PROVE  \A k \in 0..n : f[k] = g[k]
<1> DEFINE S == { k \in Nat : k <= n => f[k] = g[k] }
<1>1. ASSUME NEW k \in Nat, \A i \in Nat : i < k => i \in S
      PROVE  k \in S
  <2> SUFFICES ASSUME k <= n
               PROVE  f[k] = g[k]
    OBVIOUS
  <2>1. k \in 0..n /\ k \in 0..m
    OBVIOUS
  <2>2. CASE k < 10
    BY <2>1, <2>2 DEF DigitsUpTo
  <2>3. CASE k >= 10
    <3>1. k \div 10 \in Nat /\ k \div 10 < k
      BY <2>3, Tenth
    <3>2. f[k \div 10] = g[k \div 10]
      BY <3>1, <1>1
    <3>3. QED
      BY <2>1, <2>3, <3>2 DEF DigitsUpTo
  <2>4. QED
    BY <2>2, <2>3
<1>2. Nat \subseteq S
  <2> HIDE DEF S
  <2> QED
    BY <1>1, Induction
<1>3. QED
  BY <1>2

\* There is such a function, for every number.
LEMMA DigitsExist ==
  ASSUME NEW n \in Nat
  PROVE  DigitsUpTo(n) # {}
<1> DEFINE S == { k \in Nat : DigitsUpTo(k) # {} }
<1>1. ASSUME NEW k \in Nat, \A i \in Nat : i < k => i \in S
      PROVE  k \in S
  <2>1. PICK v \in Seq(Bytes), h \in [0..k -> Seq(Bytes)] :
          \A i \in 0..k : h[i] = IF i < 10 THEN <<48 + i>> ELSE Append(h[i \div 10], 48 + (i % 10))
    <3>1. CASE k = 0
      <4> DEFINE h == [i \in 0..k |-> <<48>>]
      <4>1. <<48>> \in Seq(Bytes)
        BY DEF Bytes
      <4>2. h \in [0..k -> Seq(Bytes)]
        BY <4>1
      <4>3. \A i \in 0..k : i < 10 /\ h[i] = <<48 + i>>
        BY <3>1
      <4>4. QED
        BY <4>1, <4>2, <4>3
    <3>2. CASE k # 0
      <4>1. k - 1 \in Nat /\ k - 1 < k
        BY <3>2
      <4>2. PICK f : f \in DigitsUpTo(k - 1)
        BY <4>1, <1>1
      <4> DEFINE v == IF k < 10 THEN <<48 + k>> ELSE Append(f[k \div 10], 48 + (k % 10))
      <4> DEFINE h == [i \in 0..k |-> IF i = k THEN v ELSE f[i]]
      <4>3. f \in [0..(k-1) -> Seq(Bytes)]
        BY <4>2 DEF DigitsUpTo
      <4>4. v \in Seq(Bytes)
        <5>1. CASE k < 10
          BY <5>1 DEF Bytes
        <5>2. CASE k >= 10
          <6>1. k \div 10 \in 0..(k - 1) /\ k % 10 \in 0..9
            BY <5>2, Tenth
          <6>2. f[k \div 10] \in Seq(Bytes) /\ 48 + (k % 10) \in Bytes
            BY <4>3, <6>1 DEF Bytes
          <6>3. QED
            BY <5>2, <6>2, AppendProperties
        <5>3. QED
          BY <5>1, <5>2
      <4>5. h \in [0..k -> Seq(Bytes)]
        BY <4>3, <4>4
      <4>6. ASSUME NEW i \in 0..k
            PROVE  h[i] = IF i < 10 THEN <<48 + i>> ELSE Append(h[i \div 10], 48 + (i % 10))
        <5>1. i >= 10 => i \div 10 \in 0..(k - 1)
          BY Tenth
        <5>2. i >= 10 => h[i \div 10] = f[i \div 10]
          BY <5>1
        <5>3. CASE i = k
          BY <5>2, <5>3
        <5>4. CASE i # k
          <6>1. i \in 0..(k - 1)
            BY <5>4
          <6>2. f[i] = IF i < 10 THEN <<48 + i>> ELSE Append(f[i \div 10], 48 + (i % 10))
            BY <6>1, <4>2 DEF DigitsUpTo
          <6>3. QED
            BY <5>2, <5>4, <6>2
        <5>5. QED
          BY <5>3, <5>4
      <4> HIDE DEF v, h
      <4>7. QED
        BY <4>4, <4>5, <4>6
    <3>3. QED
      BY <3>1, <3>2
  <2>2. h \in DigitsUpTo(k)
    BY <2>1 DEF DigitsUpTo
  <2>3. QED
    BY <2>2
<1>2. Nat \subseteq S
  <2> HIDE DEF S
  <2> QED
    BY <1>1, Induction
<1>3. QED
  BY <1>2

\* Decimal, unfolded once.
LEMMA DecimalUnfolds ==
  \A n \in Nat :
    /\ Decimal(n) \in Seq(Bytes)
    /\ Decimal(n) = IF n < 10 THEN <<48 + n>> ELSE Append(Decimal(n \div 10), 48 + (n % 10))
<1> DEFINE Step(f, k) == IF k < 10 THEN <<48 + k>> ELSE Append(f[k \div 10], 48 + (k % 10))
           text == CHOOSE text : text = [k \in Nat |-> Step(text, k)]
           pick == [n \in Nat |-> CHOOSE f \in DigitsUpTo(n) : TRUE]
           F == [n \in Nat |-> pick[n][n]]
<1>1. \A n \in Nat : pick[n] \in DigitsUpTo(n)
  BY DigitsExist
<1>2. F = [k \in Nat |-> Step(F, k)]
  <2>1. ASSUME NEW k \in Nat
        PROVE  F[k] = Step(F, k)
    <3>1. pick[k] \in DigitsUpTo(k)
      BY <1>1
    <3>2. pick[k][k] = Step(pick[k], k)
      <4> HIDE DEF pick
      <4> QED
        BY <3>1 DEF DigitsUpTo
    <3>3. k >= 10 => pick[k][k \div 10] = F[k \div 10]
      <4> SUFFICES ASSUME k >= 10
                   PROVE  pick[k][k \div 10] = F[k \div 10]
        OBVIOUS
      <4> DEFINE j == k \div 10
      <4>1. j \in Nat /\ j < k
        BY Tenth
      <4> HIDE DEF j
      <4>2. pick[j] \in DigitsUpTo(j)
        BY <4>1, <1>1
      <4> HIDE DEF pick
      <4>3. \A i \in 0..j : pick[j][i] = pick[k][i]
        BY <3>1, <4>1, <4>2, DigitsAgree
      <4>4. pick[j][j] = pick[k][j]
        BY <4>1, <4>3
      <4>5. QED
        BY <4>1, <4>4 DEF j
    <3>4. QED
      BY <3>2, <3>3
  <2> HIDE DEF Step, pick
  <2>2. QED
    BY <2>1
<1>3. text = [k \in Nat |-> Step(text, k)]
  <2> HIDE DEF F, Step
  <2> QED
    BY <1>2
<1>4. \A n \in Nat : Decimal(n) = text[n]
  BY DEF Decimal
<1> HIDE DEF text
<1>5. \A n \in Nat : text[n] = Step(text, n)
  <2> HIDE DEF Step
  <2> QED
    BY <1>3
<1> HIDE DEF F, pick
<1> DEFINE S == { n \in Nat : text[n] \in Seq(Bytes) }
<1>6. ASSUME NEW n \in Nat, \A k \in Nat : k < n => k \in S
      PROVE  n \in S
  <2>1. CASE n < 10
    <3>1. text[n] = <<48 + n>>
      BY <2>1, <1>5
    <3>2. 48 + n \in Bytes
      BY <2>1 DEF Bytes
    <3>3. text[n] \in Seq(Bytes)
      BY <3>1, <3>2
    <3>4. QED
      BY <3>3
  <2>2. CASE n >= 10
    <3>1. n \div 10 \in Nat /\ n \div 10 < n /\ 48 + (n % 10) \in Bytes
      BY <2>2, Tenth DEF Bytes
    <3>2. text[n \div 10] \in Seq(Bytes)
      BY <3>1, <1>6
    <3>3. Append(text[n \div 10], 48 + (n % 10)) \in Seq(Bytes)
      BY <3>1, <3>2, AppendProperties
    <3>4. text[n] = Append(text[n \div 10], 48 + (n % 10))
      <4>1. text[n] = Step(text, n) /\ ~(n < 10)
        BY <2>2, <1>5
      <4>2. QED
        BY <4>1
    <3>5. QED
      BY <3>3, <3>4
  <2>3. QED
    BY <2>1, <2>2
<1>7. Nat \subseteq S
  <2> HIDE DEF S
  <2> QED
    BY <1>6, Induction
<1>8. ASSUME NEW n \in Nat
      PROVE  /\ Decimal(n) \in Seq(Bytes)
             /\ Decimal(n) = IF n < 10 THEN <<48 + n>> ELSE Append(Decimal(n \div 10), 48 + (n % 10))
  <2>1. Decimal(n) \in Seq(Bytes)
    BY <1>4, <1>7
  <2>2. n >= 10 => Decimal(n \div 10) = text[n \div 10]
    BY <1>4, Tenth
  <2>3. text[n] = IF n < 10 THEN <<48 + n>> ELSE Append(text[n \div 10], 48 + (n % 10))
    BY <1>5
  <2>4. Decimal(n) = text[n]
    BY <1>4
  <2>5. QED
    BY <2>1, <2>2, <2>3, <2>4
<1>9. QED
  BY <1>8

-----------------------------------------------------------------------------
(* What Find returns. *)

\* The first place that has one of the bytes is the one that is found.
LEMMA FindFirst ==
  ASSUME NEW T, NEW s \in Seq(T), NEW B, NEW p \in 1..Len(s), s[p] \in B,
         \A k \in 1..Len(s) : k < p => s[k] \notin B
  PROVE  Find(s, B) = p
<1> DEFINE found == { k \in 1..Len(s) : s[k] \in B }
<1>1. p \in found /\ \A k \in found : p <= k
  OBVIOUS
<1>2. Find(s, B) = CHOOSE q \in found : \A k \in found : q <= k
  BY <1>1 DEF Find
<1>3. \A q \in found : (\A k \in found : q <= k) => q = p
  BY <1>1
<1> HIDE DEF found
<1>4. QED
  BY <1>1, <1>2, <1>3

\* Without such a place it is the one behind the text.
LEMMA FindNone ==
  ASSUME NEW T, NEW s \in Seq(T), NEW B, \A k \in 1..Len(s) : s[k] \notin B
  PROVE  Find(s, B) = Len(s) + 1
<1>1. { k \in 1..Len(s) : s[k] \in B } = {}
  OBVIOUS
<1>2. QED
  BY <1>1 DEF Find

\* Whatever is in the text, nothing before the place has one of the bytes.
LEMMA FindResult ==
  ASSUME NEW T, NEW s \in Seq(T), NEW B
  PROVE  /\ Find(s, B) \in 1..(Len(s) + 1)
         /\ \A k \in 1..Len(s) : k < Find(s, B) => s[k] \notin B
         /\ Find(s, B) <= Len(s) => s[Find(s, B)] \in B
<1> DEFINE found == { k \in 1..Len(s) : s[k] \in B }
<1>0. Len(s) \in Nat
  OBVIOUS
<1>1. CASE found = {}
  <2>1. \A k \in 1..Len(s) : s[k] \notin B
    BY <1>1
  <2>2. Find(s, B) = Len(s) + 1
    BY <2>1, FindNone
  <2>3. QED
    BY <1>0, <2>1, <2>2
<1>2. CASE found # {}
  <2>1. found \in SUBSET Nat
    BY <1>0
  <2> HIDE DEF found
  <2>2. PICK p \in found : \A k \in found : p <= k
    BY <1>2, <2>1, LeastNatural
  <2>3. p \in 1..Len(s) /\ s[p] \in B /\ \A k \in 1..Len(s) : k < p => s[k] \notin B
    BY <1>0, <2>2 DEF found
  <2>4. Find(s, B) = p
    BY <2>3, FindFirst
  <2>5. QED
    BY <1>0, <2>3, <2>4
<1>3. QED
  BY <1>1, <1>2

-----------------------------------------------------------------------------
(* What Number makes of the digits Decimal writes. *)

\* The values of the heads of a text of digits, and of all of it.
Values(d) ==
  { f \in [0..Len(d) -> Nat] :
      \A k \in 0..Len(d) : f[k] = IF k = 0 THEN 0 ELSE (10 * f[k - 1]) + d[k] - 48 }
ValueOf(d) ==
  LET value[k \in 0..Len(d)] == IF k = 0 THEN 0 ELSE (10 * value[k - 1]) + d[k] - 48
  IN value[Len(d)]

\* The value of every text of digits is defined.
LEMMA ValuesExist ==
  ASSUME NEW d \in Seq(Digits)
  PROVE  Values(d) # {}
<1>0. Len(d) \in Nat /\ \A k \in 1..Len(d) : d[k] \in 48..57
  BY DEF Digits
<1> DEFINE Good(n, f) == \A k \in 0..n : f[k] = IF k = 0 THEN 0 ELSE (10 * f[k - 1]) + d[k] - 48
           S == { n \in Nat : n <= Len(d) => \E f \in [0..n -> Nat] : Good(n, f) }
<1>1. ASSUME NEW n \in Nat, \A k \in Nat : k < n => k \in S
      PROVE  n \in S
  <2> SUFFICES ASSUME n <= Len(d)
               PROVE  \E f \in [0..n -> Nat] : Good(n, f)
    OBVIOUS
  <2>1. CASE n = 0
    <3> DEFINE f == [k \in 0..n |-> 0]
    <3>1. f \in [0..n -> Nat] /\ Good(n, f)
      BY <2>1
    <3>2. QED
      BY <3>1
  <2>2. CASE n # 0
    <3>1. n - 1 \in Nat /\ n - 1 < n /\ n - 1 <= Len(d) /\ n \in 1..Len(d)
      BY <1>0, <2>2
    <3>2. PICK g \in [0..(n - 1) -> Nat] : Good(n - 1, g)
      BY <3>1, <1>1
    <3> DEFINE v == (10 * g[n - 1]) + d[n] - 48
               f == [k \in 0..n |-> IF k = n THEN v ELSE g[k]]
    <3>3. v \in Nat
      <4>1. g[n - 1] \in Nat /\ d[n] \in 48..57
        BY <1>0, <3>1, <3>2
      <4>2. \A a \in Nat, b \in 48..57 : (10 * a) + b - 48 \in Nat
        OBVIOUS
      <4>3. QED
        BY <4>1, <4>2
    <3>4. f \in [0..n -> Nat]
      BY <3>1, <3>2, <3>3
    <3>5. ASSUME NEW k \in 0..n
          PROVE  f[k] = IF k = 0 THEN 0 ELSE (10 * f[k - 1]) + d[k] - 48
      <4>1. CASE k = n
        <5>1. f[n - 1] = g[n - 1]
          BY <3>1
        <5>2. QED
          BY <4>1, <5>1, <2>2
      <4>2. CASE k # n
        <5>1. k \in 0..(n - 1) /\ (k # 0 => k - 1 \in 0..(n - 1))
          BY <4>2
        <5>2. f[k] = g[k] /\ (k # 0 => f[k - 1] = g[k - 1])
          BY <5>1
        <5>3. g[k] = IF k = 0 THEN 0 ELSE (10 * g[k - 1]) + d[k] - 48
          BY <5>1, <3>2
        <5> HIDE DEF f
        <5>4. QED
          BY <5>2, <5>3
      <4>3. QED
        BY <4>1, <4>2
    <3> HIDE DEF f, v
    <3>6. Good(n, f)
      BY <3>5
    <3>7. QED
      BY <3>4, <3>6
  <2>3. QED
    BY <2>1, <2>2
<1>2. Nat \subseteq S
  <2> HIDE DEF S
  <2> QED
    BY <1>1, Induction
<1>3. Len(d) \in S
  BY <1>0, <1>2
<1>4. QED
  BY <1>3 DEF Values

\* The value of a text is the last of those of its beginnings.
LEMMA ValueOfIsLast ==
  ASSUME NEW d \in Seq(Digits)
  PROVE  \E f \in Values(d) : ValueOf(d) = f[Len(d)]
<1> DEFINE Step(f, k) == IF k = 0 THEN 0 ELSE (10 * f[k - 1]) + d[k] - 48
           value == CHOOSE value : value = [k \in 0..Len(d) |-> Step(value, k)]
<1>0. Len(d) \in Nat /\ \A k \in 1..Len(d) : d[k] \in 48..57
  BY DEF Digits
<1>1. PICK g \in Values(d) : TRUE
  BY ValuesExist
<1>2. g = [k \in 0..Len(d) |-> Step(g, k)]
  BY <1>1 DEF Values
<1>3. value = [k \in 0..Len(d) |-> Step(value, k)]
  <2> HIDE DEF Step
  <2> QED
    BY <1>2
<1>4. ValueOf(d) = value[Len(d)]
  BY DEF ValueOf
<1> HIDE DEF value
<1>5. \A k \in 0..Len(d) : value[k] = Step(value, k)
  <2> HIDE DEF Step
  <2> QED
    BY <1>3
<1> DEFINE S == { k \in Nat : k <= Len(d) => value[k] = g[k] }
<1>6. ASSUME NEW n \in Nat, \A k \in Nat : k < n => k \in S
      PROVE  n \in S
  <2> SUFFICES ASSUME n <= Len(d)
               PROVE  value[n] = g[n]
    OBVIOUS
  <2>1. n \in 0..Len(d)
    BY <1>0
  <2>2. value[n] = Step(value, n) /\ g[n] = Step(g, n)
    BY <2>1, <1>5, <1>1 DEF Values
  <2>3. CASE n = 0
    BY <2>2, <2>3
  <2>4. CASE n # 0
    <3>1. n - 1 \in Nat /\ n - 1 < n /\ n - 1 <= Len(d)
      BY <1>0, <2>4
    <3>2. value[n - 1] = g[n - 1]
      BY <3>1, <1>6
    <3>3. QED
      BY <3>2, <2>2
  <2>5. QED
    BY <2>3, <2>4
<1>7. Nat \subseteq S
  <2> HIDE DEF S
  <2> QED
    BY <1>6, Induction
<1>8. value[Len(d)] = g[Len(d)]
  BY <1>0, <1>7
<1>9. QED
  BY <1>1, <1>4, <1>8

\* One more digit.
LEMMA ValueOfMore ==
  ASSUME NEW d \in Seq(Digits), NEW x \in Digits
  PROVE  /\ ValueOf(<< x >>) = x - 48
         /\ ValueOf(Append(d, x)) = 10 * ValueOf(d) + (x - 48)
<1>1. ValueOf(<< x >>) = x - 48
  <2>1. << x >> \in Seq(Digits) /\ Len(<< x >>) = 1 /\ << x >>[1] = x
    OBVIOUS
  <2>2. PICK f \in Values(<< x >>) : ValueOf(<< x >>) = f[Len(<< x >>)]
    BY <2>1, ValueOfIsLast
  <2>3. f[0] = 0 /\ f[1] = 10 * f[0] + x - 48
    BY <2>1 DEF Values
  <2>4. QED
    BY <2>1, <2>2, <2>3 DEF Digits
<1>2. ValueOf(Append(d, x)) = 10 * ValueOf(d) + (x - 48)
  <2> DEFINE e == Append(d, x)
  <2>0. Len(d) \in Nat
    OBVIOUS
  <2>1. e \in Seq(Digits) /\ Len(e) = Len(d) + 1 /\ e[Len(d) + 1] = x /\ \A k \in 1..Len(d) : e[k] = d[k]
    BY AppendProperties
  <2> HIDE DEF e
  <2>2. PICK f \in Values(d) : ValueOf(d) = f[Len(d)]
    BY ValueOfIsLast
  <2>3. PICK g \in Values(e) : ValueOf(e) = g[Len(e)]
    BY <2>1, ValueOfIsLast
  <2> DEFINE S == { k \in Nat : k <= Len(d) => f[k] = g[k] }
  <2>4. ASSUME NEW n \in Nat, \A k \in Nat : k < n => k \in S
        PROVE  n \in S
    <3> SUFFICES ASSUME n <= Len(d)
                 PROVE  f[n] = g[n]
      OBVIOUS
    <3>1. n \in 0..Len(d) /\ n \in 0..Len(e)
      BY <2>0, <2>1
    <3>2. CASE n = 0
      BY <3>1, <3>2 DEF Values
    <3>3. CASE n # 0
      <4>1. n - 1 \in Nat /\ n - 1 < n /\ n - 1 <= Len(d) /\ n \in 1..Len(d)
        BY <2>0, <3>3
      <4>2. f[n - 1] = g[n - 1] /\ e[n] = d[n]
        BY <4>1, <2>4, <2>1
      <4>3. f[n] = (10 * f[n - 1]) + d[n] - 48 /\ g[n] = (10 * g[n - 1]) + e[n] - 48
        BY <3>1, <3>3 DEF Values
      <4>4. QED
        BY <4>2, <4>3
    <3>4. QED
      BY <3>2, <3>3
  <2>5. Nat \subseteq S
    <3> HIDE DEF S
    <3> QED
      BY <2>4, Induction
  <2>6. f[Len(d)] = g[Len(d)] /\ f[Len(d)] \in Nat
    BY <2>0, <2>5 DEF Values
  <2>7. g[Len(d) + 1] = (10 * g[Len(d)]) + x - 48
    <3>1. Len(d) + 1 \in 0..Len(e) /\ Len(d) + 1 # 0 /\ (Len(d) + 1) - 1 = Len(d)
      BY <2>0, <2>1
    <3>2. QED
      BY <3>1, <2>1 DEF Values
  <2>8. QED
    BY <2>1, <2>2, <2>3, <2>6, <2>7 DEF Digits, e
<1>3. QED
  BY <1>1, <1>2

\* The value of what Decimal writes is what was written.
LEMMA DecimalDigits ==
  \A n \in Nat : Decimal(n) \in Seq(Digits) /\ Decimal(n) # << >> /\ ValueOf(Decimal(n)) = n
<1> DEFINE S == { n \in Nat : /\ Decimal(n) \in Seq(Digits) /\ Decimal(n) # << >>
                             /\ ValueOf(Decimal(n)) = n }
<1>1. ASSUME NEW n \in Nat, \A k \in Nat : k < n => k \in S
      PROVE  n \in S
  <2>1. CASE n < 10
    <3>1. Decimal(n) = <<48 + n>> /\ 48 + n \in Digits
      BY <2>1, DecimalUnfolds DEF Digits
    <3>2. <<48 + n>> \in Seq(Digits) /\ <<48 + n>> # << >>
      BY <3>1
    <3>3. ValueOf(<<48 + n>>) = (48 + n) - 48
      BY <3>1, <3>2, ValueOfMore
    <3>4. (48 + n) - 48 = n
      OBVIOUS
    <3>5. QED
      BY <3>1, <3>2, <3>3, <3>4
  <2>2. CASE n >= 10
    <3> DEFINE m == n \div 10
               x == 48 + (n % 10)
    <3>1. m \in Nat /\ m < n /\ n % 10 \in 0..9 /\ n = 10 * m + (n % 10)
      BY <2>2, Tenth
    <3>2. x \in Digits /\ x - 48 = n % 10
      BY <3>1 DEF Digits
    <3>3. Decimal(n) = Append(Decimal(m), x)
      <4>1. Decimal(n) = IF n < 10 THEN <<48 + n>> ELSE Append(Decimal(m), x)
        BY DecimalUnfolds
      <4>2. ~(n < 10)
        BY <2>2
      <4>3. QED
        BY <4>1, <4>2
    <3> HIDE DEF m, x
    <3>4. Decimal(m) \in Seq(Digits) /\ ValueOf(Decimal(m)) = m
      BY <3>1, <1>1
    <3>5. Append(Decimal(m), x) \in Seq(Digits) /\ Append(Decimal(m), x) # << >>
      BY <3>2, <3>4, AppendProperties
    <3>6. ValueOf(Append(Decimal(m), x)) = 10 * m + (x - 48)
      BY <3>2, <3>4, ValueOfMore
    <3>7. QED
      BY <3>1, <3>2, <3>3, <3>5, <3>6
  <2>3. QED
    BY <2>1, <2>2
<1>2. Nat \subseteq S
  <2> HIDE DEF S
  <2> QED
    BY <1>1, Induction
<1>3. QED
  BY <1>2

\* What Number makes of a text of digits, or of none.
LEMMA NumberOfDigits ==
  ASSUME NEW s \in Seq(Digits)
  PROVE  /\ s # << >> => Number(s) = [thrown |-> FALSE, value |-> ValueOf(s)]
         /\ s = << >> => Number(s).thrown
<1> DEFINE skipped == Find(s, 0..255 \ {Blank})
           after   == Find(SubSeq(s, skipped, Len(s)), 0..255 \ Digits)
           digits  == SubSeq(s, skipped, skipped + after - 2)
<1>0. Len(s) \in Nat /\ \A k \in 1..Len(s) : s[k] \in 48..57
  BY DEF Digits
<1>1. skipped = 1
  <2>1. CASE s = << >>
    <3>1. Len(s) = 0 /\ \A k \in 1..Len(s) : s[k] \notin 0..255 \ {Blank}
      BY <2>1
    <3>2. Find(s, 0..255 \ {Blank}) = Len(s) + 1
      BY <3>1, FindNone
    <3>3. QED
      BY <3>1, <3>2
  <2>2. CASE s # << >>
    <3>1. 1 \in 1..Len(s) /\ s[1] \in 0..255 \ {Blank}
      BY <1>0, <2>2 DEF Blank
    <3>2. \A k \in 1..Len(s) : k < 1 => s[k] \notin 0..255 \ {Blank}
      BY <1>0
    <3>3. QED
      BY <3>1, <3>2, FindFirst, ZenonT(40)
  <2>3. QED
    BY <2>1, <2>2
<1> HIDE DEF skipped
<1>2. SubSeq(s, skipped, Len(s)) = s
  BY <1>1, SubSeqFull
<1>3. after = Len(s) + 1
  <2>1. \A k \in 1..Len(s) : s[k] \notin 0..255 \ Digits
    BY <1>0 DEF Digits
  <2>2. QED
    BY <1>2, <2>1, FindNone
<1> HIDE DEF after
<1>4. digits = s
  <2>1. skipped + after - 2 = Len(s)
    BY <1>0, <1>1, <1>3
  <2>2. QED
    BY <1>1, <2>1, SubSeqFull
<1>5. Number(s) = [thrown |-> digits = << >>, value |-> ValueOf(digits)]
  BY DEF Number, ValueOf, skipped, after
<1>6. Number(s) = [thrown |-> s = << >>, value |-> ValueOf(s)]
  BY <1>4, <1>5
<1>7. ASSUME s # << >>
      PROVE  Number(s) = [thrown |-> FALSE, value |-> ValueOf(s)]
  <2>1. (s = << >>) = FALSE
    BY <1>7
  <2>2. QED
    BY <1>6, <2>1
<1>8. ASSUME s = << >>
      PROVE  Number(s).thrown
  <2>1. Number(s).thrown = (s = << >>)
    BY <1>6
  <2>2. QED
    BY <1>8, <2>1
<1>9. QED
  BY <1>7, <1>8

\* What operator<< writes of a number is what std::stoul reads.
LEMMA NumberOfDecimal ==
  ASSUME NEW n \in Nat
  PROVE  Number(Decimal(n)) = [thrown |-> FALSE, value |-> n]
BY DecimalDigits, NumberOfDigits

-----------------------------------------------------------------------------
(* The text of a message, and what a reader makes of it. *)

\* A part of a text.
LEMMA Part ==
  ASSUME NEW T, NEW s \in Seq(T), NEW i \in Nat \ {0}, NEW j \in Nat, j <= Len(s)
  PROVE  /\ SubSeq(s, i, j) \in Seq(T)
         /\ i <= j + 1 => Len(SubSeq(s, i, j)) = j + 1 - i
         /\ i > j => SubSeq(s, i, j) = << >>
         /\ \A k \in 1..(j + 1 - i) : SubSeq(s, i, j)[k] = s[i + k - 1]
<1>1. Len(s) \in Nat /\ \A k \in i..j : s[k] \in T
  OBVIOUS
<1>2. /\ SubSeq(s, i, j) \in Seq(T)
      /\ Len(SubSeq(s, i, j)) = IF i <= j THEN j - i + 1 ELSE 0
      /\ \A k \in 1..(j - i + 1) : SubSeq(s, i, j)[k] = s[i + k - 1]
  BY <1>1, SubSeqProperties
<1>3. j - i + 1 = j + 1 - i
  OBVIOUS
<1>4. i > j => SubSeq(s, i, j) = << >>
  BY SubSeqEmpty
<1>5. i <= j + 1 => Len(SubSeq(s, i, j)) = j + 1 - i
  BY <1>2
<1>6. QED
  BY <1>2, <1>3, <1>4, <1>5

\* Two texts one after the other.
LEMMA Joined ==
  ASSUME NEW T, NEW s \in Seq(T), NEW t \in Seq(T)
  PROVE  /\ s \o t \in Seq(T) /\ Len(s \o t) = Len(s) + Len(t)
         /\ \A k \in 1..Len(s) : (s \o t)[k] = s[k]
         /\ \A k \in 1..Len(t) : (s \o t)[k + Len(s)] = t[k]
<1>1. PICK a \in Nat, b \in Nat : a = Len(s) /\ b = Len(t)
  OBVIOUS
<1>2. /\ s \o t \in Seq(T) /\ Len(s \o t) = Len(s) + Len(t)
      /\ \A k \in 1..(Len(s) + Len(t)) :
           (s \o t)[k] = IF k <= Len(s) THEN s[k] ELSE t[k - Len(s)]
  BY ConcatProperties
<1>3. \A k \in 1..(a + b) : (s \o t)[k] = IF k <= a THEN s[k] ELSE t[k - a]
  BY <1>1, <1>2
<1>4. ASSUME NEW k \in 1..a
      PROVE  (s \o t)[k] = s[k]
  <2>1. k \in 1..(a + b) /\ k <= a
    OBVIOUS
  <2>2. QED
    BY <1>3, <2>1
<1>5. ASSUME NEW k \in 1..b
      PROVE  (s \o t)[k + a] = t[k]
  <2>1. k + a \in 1..(a + b) /\ ~(k + a <= a) /\ (k + a) - a = k
    OBVIOUS
  <2>2. QED
    BY <1>3, <2>1
<1>6. QED
  BY <1>1, <1>2, <1>4, <1>5

LEMMA JoinedBytes ==
  \A s, t \in Seq(Bytes) :
    /\ s \o t \in Seq(Bytes) /\ Len(s \o t) = Len(s) + Len(t)
    /\ \A k \in 1..Len(s) : (s \o t)[k] = s[k]
    /\ \A k \in 1..Len(t) : (s \o t)[k + Len(s)] = t[k]
<1> TAKE s, t \in Seq(Bytes)
<1> QED
  BY Joined

\* Two texts of the same bytes are one.
LEMMA SameText ==
  ASSUME NEW T, NEW s \in Seq(T), NEW t \in Seq(T), Len(s) = Len(t),
         \A k \in 1..Len(s) : s[k] = t[k]
  PROVE  s = t
BY SeqEqual

\* Where the parts of a message are in its text, when its length has d digits
\* and is n.
Layout(m, d, n) ==
  /\ Serialize(m) \in Seq(Bytes) /\ Decimal(n) \in Seq(Digits)
  /\ d # 0 /\ Len(Serialize(m)) = d + n + 4
  /\ Serialize(m)[1] = m.type /\ Serialize(m)[2] = Blank
  /\ \A k \in 1..d : Serialize(m)[k + 2] = Decimal(n)[k]
  /\ Serialize(m)[d + 3] = EOL
  /\ \A k \in 1..n : Serialize(m)[k + (d + 3)] = m.body[k]
  /\ Serialize(m)[d + n + 4] = EOL

\* What Serialize returns.
LEMMA Serialized ==
  ASSUME NEW m \in Messages
  PROVE  \A d, n \in Nat : n = Len(m.body) /\ d = Len(Decimal(n)) => Layout(m, d, n)
<1>0. SUFFICES ASSUME NEW d \in Nat, NEW n \in Nat, n = Len(m.body), d = Len(Decimal(n))
               PROVE  Layout(m, d, n)
  OBVIOUS
<1> DEFINE D == Decimal(n)
           a == <<m.type, Blank>>
           e == <<EOL>>
           t1 == a \o D
           t2 == t1 \o e
           t3 == t2 \o m.body
           t4 == t3 \o e
<1>1. m.type \in Bytes /\ m.body \in Seq(Bytes) /\ Len(m.body) = n
  BY <1>0 DEF Messages
<1>2. D \in Seq(Digits) /\ D \in Seq(Bytes) /\ D # << >>
  BY <1>1, DecimalDigits, DecimalUnfolds
<1>3. d # 0 /\ Len(D) = d
  BY <1>0, <1>2
<1>4. a \in Seq(Bytes) /\ Len(a) = 2 /\ a[1] = m.type /\ a[2] = Blank
  BY <1>1 DEF Bytes, Blank
<1>5. e \in Seq(Bytes) /\ Len(e) = 1 /\ e[1] = EOL
  BY DEF Bytes, EOL
<1>6. Serialize(m) = t4
  BY <1>0 DEF Serialize
<1> HIDE DEF D, a, e
<1>7. /\ t1 \in Seq(Bytes) /\ Len(t1) = 2 + d
      /\ \A k \in 1..2 : t1[k] = a[k]
      /\ \A k \in 1..d : t1[k + 2] = D[k]
  <2>1. /\ a \o D \in Seq(Bytes) /\ Len(a \o D) = Len(a) + Len(D)
        /\ \A k \in 1..Len(a) : (a \o D)[k] = a[k]
        /\ \A k \in 1..Len(D) : (a \o D)[k + Len(a)] = D[k]
    <3>1. a \in Seq(Bytes) /\ D \in Seq(Bytes)
      BY <1>2, <1>4
    <3>2. QED
      BY <3>1, Joined
  <2>2. QED
    BY <1>3, <1>4, <2>1
<1> HIDE DEF t1
<1>8. /\ t2 \in Seq(Bytes) /\ Len(t2) = (2 + d) + 1 /\ t2[1 + (2 + d)] = EOL
      /\ \A k \in 1..(2 + d) : t2[k] = t1[k]
  <2>1. /\ t1 \o e \in Seq(Bytes) /\ Len(t1 \o e) = Len(t1) + Len(e)
        /\ \A k \in 1..Len(t1) : (t1 \o e)[k] = t1[k]
        /\ \A k \in 1..Len(e) : (t1 \o e)[k + Len(t1)] = e[k]
    <3>1. t1 \in Seq(Bytes) /\ e \in Seq(Bytes)
      BY <1>5, <1>7
    <3>2. QED
      BY <3>1, Joined
  <2>2. 1 \in 1..1
    OBVIOUS
  <2>3. QED
    BY <1>5, <1>7, <2>1, <2>2
<1> HIDE DEF t2
<1>9. /\ t3 \in Seq(Bytes) /\ Len(t3) = ((2 + d) + 1) + n
      /\ \A k \in 1..((2 + d) + 1) : t3[k] = t2[k]
      /\ \A k \in 1..n : t3[k + ((2 + d) + 1)] = m.body[k]
  <2>1. /\ t2 \o m.body \in Seq(Bytes) /\ Len(t2 \o m.body) = Len(t2) + Len(m.body)
        /\ \A k \in 1..Len(t2) : (t2 \o m.body)[k] = t2[k]
        /\ \A k \in 1..Len(m.body) : (t2 \o m.body)[k + Len(t2)] = m.body[k]
    <3>1. t2 \in Seq(Bytes) /\ m.body \in Seq(Bytes)
      BY <1>1, <1>8
    <3>2. QED
      BY <3>1, Joined
  <2>2. QED
    BY <1>1, <1>8, <2>1
<1> HIDE DEF t3
<1>10. /\ t4 \in Seq(Bytes) /\ Len(t4) = (((2 + d) + 1) + n) + 1
       /\ t4[1 + (((2 + d) + 1) + n)] = EOL
       /\ \A k \in 1..(((2 + d) + 1) + n) : t4[k] = t3[k]
  <2>1. /\ t3 \o e \in Seq(Bytes) /\ Len(t3 \o e) = Len(t3) + Len(e)
        /\ \A k \in 1..Len(t3) : (t3 \o e)[k] = t3[k]
        /\ \A k \in 1..Len(e) : (t3 \o e)[k + Len(t3)] = e[k]
    <3>1. t3 \in Seq(Bytes) /\ e \in Seq(Bytes)
      BY <1>5, <1>9
    <3>2. QED
      BY <3>1, Joined
  <2>2. 1 \in 1..1
    OBVIOUS
  <2>3. QED
    BY <1>5, <1>9, <2>1, <2>2
<1> HIDE DEF t4
<1>11. (2 + d) + 1 = d + 3 /\ 1 + (2 + d) = d + 3 /\ (d + 3) + n + 1 = d + n + 4
       /\ 1 + ((d + 3) + n) = d + n + 4
  OBVIOUS
<1>12. \A k \in 1..(d + 3) : t4[k] = t2[k]
  <2>1. \A k \in 1..(d + 3) : k \in 1..((d + 3) + n)
    OBVIOUS
  <2>2. QED
    BY <1>9, <1>10, <1>11, <2>1
<1>13. \A k \in 1..(2 + d) : t4[k] = t1[k]
  <2>1. \A k \in 1..(2 + d) : k \in 1..(d + 3)
    BY <1>3
  <2>2. QED
    BY <1>8, <1>12, <2>1
<1>14. t4[1] = m.type /\ t4[2] = Blank
  <2>1. 1 \in 1..2 /\ 2 \in 1..2 /\ 1 \in 1..(2 + d) /\ 2 \in 1..(2 + d)
    BY <1>3
  <2>2. QED
    BY <1>4, <1>7, <1>13, <2>1
<1>15. \A k \in 1..d : t4[k + 2] = D[k]
  <2>1. \A k \in 1..d : k + 2 \in 1..(2 + d)
    BY <1>3
  <2>2. QED
    BY <1>7, <1>13, <2>1
<1>16. t4[d + 3] = EOL
  <2>1. d + 3 \in 1..(d + 3)
    BY <1>3
  <2>2. QED
    BY <1>8, <1>11, <1>12, <2>1
<1>17. \A k \in 1..n : t4[k + (d + 3)] = m.body[k]
  <2>1. \A k \in 1..n : k + (d + 3) \in 1..((d + 3) + n)
    OBVIOUS
  <2>2. QED
    BY <1>9, <1>10, <1>11, <2>1
<1>18. QED
  BY <1>1, <1>2, <1>3, <1>6, <1>10, <1>11, <1>14, <1>15, <1>16, <1>17 DEF D, Layout

\* A text that begins with the one of a message, and one it begins with.
HasHead(s, m) ==
  Len(Serialize(m)) <= Len(s) /\ \A k \in 1..Len(Serialize(m)) : s[k] = Serialize(m)[k]
IsHead(s, m) ==
  Len(s) <= Len(Serialize(m)) /\ \A k \in 1..Len(s) : s[k] = Serialize(m)[k]

\* What std::stoul returns is a number.
LEMMA NumberType ==
  ASSUME NEW s \in Seq(Bytes)
  PROVE  Number(s).value \in Nat
<1> DEFINE skipped == Find(s, 0..255 \ {Blank})
           after   == Find(SubSeq(s, skipped, Len(s)), 0..255 \ Digits)
           digits  == SubSeq(s, skipped, skipped + after - 2)
<1>1. PICK n \in Nat : n = Len(s)
  OBVIOUS
<1>2. skipped \in 1..(n + 1)
  BY <1>1, FindResult
<1>3. PICK p \in Nat \ {0} : p = skipped /\ p <= n + 1
  BY <1>2
<1> DEFINE rest == SubSeq(s, p, n)
<1>4. /\ rest \in Seq(Bytes) /\ Len(rest) = n + 1 - p
      /\ \A k \in 1..(n + 1 - p) : rest[k] = s[p + k - 1]
  <2>1. n <= Len(s) /\ p <= n + 1
    BY <1>1, <1>3
  <2>2. QED
    BY <2>1, Part
<1>5. PICK q \in Nat \ {0} : q = after /\ q <= (n + 1 - p) + 1
                            /\ \A k \in 1..(n + 1 - p) : k < q => rest[k] \notin 0..255 \ Digits
  <2>1. after = Find(rest, 0..255 \ Digits)
    BY <1>1, <1>3
  <2>2. rest \in Seq(Bytes)
    BY <1>4
  <2> HIDE DEF after, rest
  <2>3. /\ Find(rest, 0..255 \ Digits) \in 1..(Len(rest) + 1)
        /\ \A k \in 1..Len(rest) :
              k < Find(rest, 0..255 \ Digits) => rest[k] \notin 0..255 \ Digits
    BY <2>2, FindResult
  <2>4. Len(rest) = n + 1 - p
    BY <1>4 DEF rest
  <2>5. after \in 1..((n + 1 - p) + 1)
    BY <2>1, <2>3, <2>4
  <2>6. \A k \in 1..(n + 1 - p) : k < after => rest[k] \notin 0..255 \ Digits
    BY <2>1, <2>3, <2>4
  <2>7. QED
    BY <2>5, <2>6
<1>6. digits = SubSeq(s, p, p + q - 2)
  BY <1>3, <1>5, ZenonT(40)
<1>7. digits \in Seq(Digits)
  <2>1. ASSUME NEW i \in p..(p + q - 2)
        PROVE  s[i] \in Digits
    <3>1. i + 1 - p \in 1..(n + 1 - p) /\ i + 1 - p < q /\ p + (i + 1 - p) - 1 = i
      <4>1. q <= (n + 1 - p) + 1 /\ p <= i /\ i <= p + q - 2
        BY <1>5
      <4>2. QED
        BY <4>1
    <3>2. rest[i + 1 - p] = s[i] /\ rest[i + 1 - p] \notin 0..255 \ Digits
      BY <1>4, <1>5, <3>1, ZenonT(40)
    <3>3. i \in 1..n
      <4>1. q <= (n + 1 - p) + 1 /\ q \in Nat
        BY <1>5
      <4>2. p \in Nat \ {0} /\ i \in Int /\ p <= i /\ i <= p + q - 2
        BY <4>1
      <4>3. QED
        BY <4>1, <4>2
    <3>4. s[i] \in 0..255
      BY <1>1, <3>3 DEF Bytes
    <3>5. QED
      BY <3>2, <3>4
  <2>2. p \in Int /\ p + q - 2 \in Int
    OBVIOUS
  <2>3. SubSeq(s, p, p + q - 2) \in Seq(Digits)
    BY <2>1, <2>2, SubSeqProperties
  <2>4. QED
    BY <1>6, <2>3
<1>8. Number(s).value = ValueOf(digits)
  BY DEF Number, ValueOf
<1> HIDE DEF digits
<1>9. PICK f \in Values(digits) : ValueOf(digits) = f[Len(digits)]
  BY <1>7, ValueOfIsLast
<1>10. Len(digits) \in 0..Len(digits)
  BY <1>7
<1>11. QED
  BY <1>8, <1>9, <1>10 DEF Values

\* The text behind the type.
LEMMA BodyTextIs ==
  ASSUME NEW s \in Seq(Bytes), NEW n \in Nat, Len(s) = n + 2
  PROVE  /\ BodyText(s) \in Seq(Bytes) /\ Len(BodyText(s)) = n
         /\ \A k \in 1..n : BodyText(s)[k] = s[k + 2]
<1>1. /\ SubSeq(s, 3, n + 2) \in Seq(Bytes)
      /\ 3 <= n + 2 + 1 => Len(SubSeq(s, 3, n + 2)) = n + 2 + 1 - 3
      /\ \A k \in 1..(n + 2 + 1 - 3) : SubSeq(s, 3, n + 2)[k] = s[3 + k - 1]
  BY Part
<1>2. n + 2 + 1 - 3 = n /\ \A k \in 1..n : 3 + k - 1 = k + 2
  OBVIOUS
<1>3. QED
  BY <1>1, <1>2 DEF BodyText

\* Whatever is read is a message.
LEMMA DeserializeType ==
  ASSUME NEW s \in Seq(Bytes)
  PROVE  Deserialize(s) \in Messages
<1>1. NoMessage \in Messages
  BY DEF NoMessage, Messages, Bytes, NUL
<1>2. CASE IsMessage(s)
  <2> DEFINE text == BodyText(s)
             last == BodyStart(s) + LengthOf(s).value - 1
             stop == IF last < Len(text) THEN last ELSE Len(text)
  <2>1. PICK n \in Nat : Len(s) = n + 2
    <3>1. Len(s) \in Nat /\ Len(s) >= 2
      BY <1>2 DEF IsMessage
    <3>2. Len(s) - 2 \in Nat /\ Len(s) = (Len(s) - 2) + 2
      BY <3>1
    <3>3. QED
      BY <3>2
  <2>2. text \in Seq(Bytes) /\ Len(text) = n
    BY <2>1, BodyTextIs
  <2>3. LengthEnd(s) \in 1..(n + 1)
    BY <2>2, FindResult DEF LengthEnd
  <2>4. BodyStart(s) \in 1..(n + 1)
    BY <2>2, <2>3 DEF BodyStart
  <2>5. LengthOf(s).value \in Nat
    <3>1. LengthEnd(s) - 1 \in Nat /\ LengthEnd(s) - 1 <= Len(text)
      BY <2>2, <2>3
    <3>2. SubSeq(text, 1, LengthEnd(s) - 1) \in Seq(Bytes)
      BY <2>2, <3>1, Part
    <3>3. QED
      BY <3>2, NumberType DEF LengthOf
  <2>6. stop \in 0..n
    BY <2>2, <2>4, <2>5
  <2> HIDE DEF stop, last, text
  <2>7. SubSeq(text, BodyStart(s), stop) \in Seq(Bytes)
    <3>1. stop \in Nat /\ stop <= Len(text) /\ BodyStart(s) \in Nat \ {0}
      BY <2>2, <2>4, <2>6
    <3>2. QED
      BY <2>2, <3>1, Part
  <2>8. s[1] \in Bytes
    <3>1. 1 \in 1..Len(s)
      BY <2>1
    <3>2. QED
      BY <3>1
  <2>9. Deserialize(s) = [type |-> s[1], body |-> SubSeq(text, BodyStart(s), stop)]
    BY <1>2 DEF Deserialize, stop, last, text
  <2>10. QED
    BY <2>7, <2>8, <2>9 DEF Messages
<1>3. CASE ~IsMessage(s)
  BY <1>1, <1>3 DEF Deserialize
<1>4. QED
  BY <1>2, <1>3

\* A text that holds the type and the line of the length: the parser finds both.
LEMMA LengthIsRead ==
  ASSUME NEW m \in Messages, NEW s \in Seq(Bytes), NEW d \in Nat, NEW n \in Nat, NEW l \in Nat,
         n = Len(m.body) /\ d = Len(Decimal(n)) /\ Len(s) = l + 2 /\ d + 1 <= l,
         \A k \in 1..(d + 3) : s[k] = Serialize(m)[k]
  PROVE  /\ s[1] = m.type /\ s[2] = Blank
         /\ LengthEnd(s) = d + 1 /\ BodyStart(s) = d + 2
         /\ LengthOf(s) = [thrown |-> FALSE, value |-> n]
<1>1. Layout(m, d, n)
  BY Serialized
<1> USE DEF Layout
<1>2. s[1] = m.type /\ s[2] = Blank
  <2>1. 1 \in 1..(d + 3) /\ 2 \in 1..(d + 3)
    OBVIOUS
  <2>2. QED
    BY <1>1, <2>1
<1> DEFINE text == BodyText(s)
<1>3. text \in Seq(Bytes) /\ Len(text) = l /\ \A k \in 1..l : text[k] = s[k + 2]
  BY BodyTextIs
<1> HIDE DEF text
<1>4. \A k \in 1..d : text[k] = Decimal(n)[k]
  <2>1. \A k \in 1..d : k \in 1..l /\ k + 2 \in 1..(d + 3)
    OBVIOUS
  <2>2. QED
    BY <1>1, <1>3, <2>1
<1>5. text[d + 1] = EOL
  <2>1. d + 1 \in 1..l /\ (d + 1) + 2 = d + 3 /\ d + 3 \in 1..(d + 3)
    OBVIOUS
  <2>2. text[d + 1] = s[d + 3]
    BY <1>3, <2>1
  <2>3. s[d + 3] = Serialize(m)[d + 3]
    BY <2>1
  <2>4. QED
    BY <1>1, <2>2, <2>3
<1>6. LengthEnd(s) = d + 1
  <2>1. \A k \in 1..l : k < d + 1 => text[k] \notin {EOL}
    <3>1. ASSUME NEW k \in 1..l, k < d + 1
          PROVE  text[k] # EOL
      <4>1. k \in 1..d
        BY <3>1
      <4>2. Decimal(n)[k] \in Digits
        BY <1>1, <4>1
      <4>3. QED
        BY <1>4, <4>1, <4>2, SMTT(30) DEF Digits, EOL
    <3>2. QED
      BY <3>1
  <2>2. d + 1 \in 1..l /\ text[d + 1] \in {EOL}
    BY <1>5
  <2>3. Find(text, {EOL}) = d + 1
    BY <1>3, <2>1, <2>2, FindFirst
  <2>4. QED
    BY <2>3 DEF LengthEnd, text
<1>7. BodyStart(s) = d + 2
  BY <1>3, <1>6 DEF BodyStart, text
<1>8. SubSeq(text, 1, d) = Decimal(n)
  <2>1. d <= Len(text) /\ 1 <= d + 1 /\ d + 1 - 1 = d /\ \A k \in 1..d : 1 + k - 1 = k
    BY <1>3
  <2>2. /\ SubSeq(text, 1, d) \in Seq(Bytes) /\ Len(SubSeq(text, 1, d)) = d + 1 - 1
        /\ \A k \in 1..(d + 1 - 1) : SubSeq(text, 1, d)[k] = text[1 + k - 1]
    BY <1>3, <2>1, Part
  <2>3. Decimal(n) \in Seq(Bytes)
    BY DecimalUnfolds
  <2>4. QED
    BY <1>4, <2>1, <2>2, <2>3, SameText
<1>9. LengthOf(s) = [thrown |-> FALSE, value |-> n]
  <2>1. LengthOf(s) = Number(SubSeq(text, 1, (d + 1) - 1))
    BY <1>6 DEF LengthOf, text
  <2>2. (d + 1) - 1 = d
    OBVIOUS
  <2>3. LengthOf(s) = Number(Decimal(n))
    BY <2>1, <2>2, <1>8
  <2>4. QED
    BY <2>3, NumberOfDecimal
<1>10. QED
  BY <1>2, <1>6, <1>7, <1>9

\* Every message has such a layout.
LEMMA Sizes ==
  ASSUME NEW m \in Messages
  PROVE  \E d, n \in Nat : n = Len(m.body) /\ d = Len(Decimal(n)) /\ Layout(m, d, n)
<1>1. Len(m.body) \in Nat
  BY DEF Messages
<1>2. PICK n \in Nat : n = Len(m.body)
  BY <1>1
<1>3. PICK d \in Nat : d = Len(Decimal(n))
  <2>1. Decimal(n) \in Seq(Digits)
    BY DecimalDigits
  <2>2. QED
    BY <2>1
<1>4. QED
  BY <1>2, <1>3, Serialized

\* A text that begins with a whole message is read as that message, if its type is
\* a letter: what follows is dropped.
LEMMA WholeIsRead ==
  ASSUME NEW m \in Messages, NEW s \in Seq(Bytes), HasHead(s, m)
  PROVE  Deserialize(s) = AsChannel!Readable(m)
<1>1. PICK d \in Nat, n \in Nat : n = Len(m.body) /\ d = Len(Decimal(n)) /\ Layout(m, d, n)
  BY Sizes
<1>2. PICK l \in Nat : Len(s) = l + 2 /\ d + n + 2 <= l
  <2>0. Len(s) \in Nat /\ Len(Serialize(m)) <= Len(s)
    BY DEF HasHead
  <2>1. Len(s) \in Nat /\ d + n + 4 <= Len(s)
    BY <1>1, <2>0 DEF Layout
  <2>2. Len(s) - 2 \in Nat /\ Len(s) = (Len(s) - 2) + 2 /\ d + n + 2 <= Len(s) - 2
    BY <2>1
  <2>3. QED
    BY <2>2
<1>3. \A k \in 1..(d + n + 4) : s[k] = Serialize(m)[k]
  BY <1>1 DEF HasHead, Layout
<1>4. /\ s[1] = m.type /\ s[2] = Blank
      /\ LengthEnd(s) = d + 1 /\ BodyStart(s) = d + 2
      /\ LengthOf(s) = [thrown |-> FALSE, value |-> n]
  <2>1. d + 1 <= l /\ \A k \in 1..(d + 3) : k \in 1..(d + n + 4)
    BY <1>2
  <2>2. \A k \in 1..(d + 3) : s[k] = Serialize(m)[k]
    BY <1>3, <2>1
  <2>3. QED
    BY <1>1, <1>2, <2>1, <2>2, LengthIsRead, SMTT(30)
<1>5. IsMessage(s) <=> m.type \in Lowercase
  <2>1. Len(s) >= 2
    BY <1>2
  <2>2. QED
    BY <1>4, <2>1 DEF IsMessage
<1>6. CASE m.type \notin Lowercase
  BY <1>5, <1>6 DEF Deserialize, AsChannel!Readable, AsChannel!Lowercase, Lowercase,
     AsChannel!NoMessage, NoMessage, AsChannel!NUL, NUL
<1>7. CASE m.type \in Lowercase
  <2> DEFINE text == BodyText(s)
  <2>1. text \in Seq(Bytes) /\ Len(text) = l /\ \A k \in 1..l : text[k] = s[k + 2]
    BY <1>2, BodyTextIs
  <2> HIDE DEF text
  <2>2. SubSeq(text, d + 2, d + n + 1) = m.body
    <3>1. /\ d + n + 1 <= l /\ (d + n + 1) + 1 - (d + 2) = n /\ d + 2 <= (d + n + 1) + 1
          /\ d + 2 \in Nat \ {0} /\ d + n + 1 \in Nat
      BY <1>2
    <3>2. /\ SubSeq(text, d + 2, d + n + 1) \in Seq(Bytes)
          /\ Len(SubSeq(text, d + 2, d + n + 1)) = n
          /\ \A k \in 1..n : SubSeq(text, d + 2, d + n + 1)[k] = text[(d + 2) + k - 1]
      <4>1. d + n + 1 <= Len(text)
        BY <2>1, <3>1
      <4>2. /\ SubSeq(text, d + 2, d + n + 1) \in Seq(Bytes)
            /\ Len(SubSeq(text, d + 2, d + n + 1)) = (d + n + 1) + 1 - (d + 2)
            /\ \A k \in 1..((d + n + 1) + 1 - (d + 2)) :
                 SubSeq(text, d + 2, d + n + 1)[k] = text[(d + 2) + k - 1]
        <5>1. PICK i \in Nat \ {0}, j \in Nat : i = d + 2 /\ j = d + n + 1 /\ i <= j + 1 /\ j <= Len(text)
          BY <3>1, <4>1
        <5>2. text \in Seq(Bytes)
          BY <2>1
        <5>3. /\ SubSeq(text, i, j) \in Seq(Bytes)
              /\ Len(SubSeq(text, i, j)) = j + 1 - i
              /\ \A k \in 1..(j + 1 - i) : SubSeq(text, i, j)[k] = text[i + k - 1]
          BY <5>1, <5>2, Part
        <5>4. QED
          BY <5>1, <5>3
      <4>3. QED
        BY <3>1, <4>2
    <3>3. ASSUME NEW k \in 1..n
          PROVE  text[(d + 2) + k - 1] = m.body[k]
      <4>1. /\ (d + 2) + k - 1 \in 1..l /\ ((d + 2) + k - 1) + 2 = k + (d + 3)
            /\ k + (d + 3) \in 1..(d + n + 4)
        BY <1>2
      <4>2. text[(d + 2) + k - 1] = s[k + (d + 3)]
        BY <2>1, <4>1
      <4>3. s[k + (d + 3)] = Serialize(m)[k + (d + 3)]
        BY <1>3, <4>1
      <4>4. Serialize(m)[k + (d + 3)] = m.body[k]
        BY <1>1 DEF Layout
      <4>5. QED
        BY <4>2, <4>3, <4>4
    <3>4. m.body \in Seq(Bytes) /\ Len(m.body) = n
      BY <1>1 DEF Messages
    <3>5. QED
      BY <3>2, <3>3, <3>4, SameText
  <2>3. (d + 2) + n - 1 = d + n + 1 /\ d + n + 1 < l
    BY <1>2
  <2>4. BodyStart(s) + LengthOf(s).value - 1 = d + n + 1
    BY <1>4, <2>3
  <2>5. Deserialize(s) = [type |-> s[1], body |-> SubSeq(text, d + 2, d + n + 1)]
    BY <1>4, <1>5, <1>7, <2>1, <2>3, <2>4 DEF Deserialize, text
  <2>6. m = [type |-> m.type, body |-> m.body]
    BY DEF Messages
  <2>7. AsChannel!Readable(m) = m
    BY <1>7 DEF AsChannel!Readable, AsChannel!Lowercase, Lowercase
  <2>8. QED
    BY <1>4, <2>2, <2>5, <2>6, <2>7
<1>8. QED
  BY <1>6, <1>7

\* A message that is read whole is one of those it may be taken for.
LEMMA ReadableIsShort ==
  ASSUME NEW m \in Messages
  PROVE  AsChannel!Readable(m) \in AsChannel!Shortened(m)
<1>1. m = [type |-> m.type, body |-> m.body] /\ m.body \in Seq(Bytes)
  BY DEF Messages
<1>2. m.body \in AsChannel!Prefixes(m.body)
  <2>1. Len(m.body) \in 0..Len(m.body) /\ SubSeq(m.body, 1, Len(m.body)) = m.body
    BY <1>1, SubSeqFull
  <2>2. QED
    BY <2>1 DEF AsChannel!Prefixes
<1>3. m \in AsChannel!Shortened(m)
  BY <1>1, <1>2 DEF AsChannel!Shortened
<1>4. AsChannel!NoMessage \in AsChannel!Shortened(m)
  BY DEF AsChannel!Shortened
<1>5. QED
  BY <1>3, <1>4 DEF AsChannel!Readable

\* A text that is the head of a message is read as its type with a part of its body
\* or of its length, or as no message.
LEMMA PartIsShort ==
  ASSUME NEW m \in Messages, NEW s \in Seq(Bytes), IsHead(s, m)
  PROVE  Deserialize(s) \in AsChannel!Shortened(m)
<1>1. PICK d \in Nat, n \in Nat : n = Len(m.body) /\ d = Len(Decimal(n)) /\ Layout(m, d, n)
  BY Sizes
<1>2. CASE ~IsMessage(s)
  BY <1>2 DEF Deserialize, AsChannel!Shortened, AsChannel!NoMessage, NoMessage, AsChannel!NUL, NUL
<1>3. CASE IsMessage(s)
  <2>1. PICK l \in Nat : Len(s) = l + 2 /\ l <= d + n + 2
    <3>0. Len(s) \in Nat /\ Len(s) >= 2 /\ Len(s) <= Len(Serialize(m))
      BY <1>3 DEF IsHead, IsMessage
    <3>1. Len(s) \in Nat /\ Len(s) >= 2 /\ Len(s) <= d + n + 4
      BY <1>1, <3>0 DEF Layout
    <3>2. Len(s) - 2 \in Nat /\ Len(s) = (Len(s) - 2) + 2 /\ Len(s) - 2 <= d + n + 2
      BY <3>1
    <3>3. QED
      BY <3>2
  <2>2. \A k \in 1..(l + 2) : s[k] = Serialize(m)[k]
    BY <2>1 DEF IsHead
  <2> DEFINE text == BodyText(s)
             last == BodyStart(s) + LengthOf(s).value - 1
             stop == IF last < Len(text) THEN last ELSE Len(text)
             found == SubSeq(text, BodyStart(s), stop)
  <2>3. text \in Seq(Bytes) /\ Len(text) = l /\ \A k \in 1..l : text[k] = s[k + 2]
    BY <2>1, BodyTextIs
  <2>4. s[1] = m.type
    <3>1. 1 \in 1..(l + 2)
      OBVIOUS
    <3>2. QED
      BY <1>1, <2>2, <3>1 DEF Layout
  <2>5. Deserialize(s) = [type |-> m.type, body |-> found]
    BY <1>3, <2>4 DEF Deserialize
  <2> HIDE DEF found, stop, last, text
  <2>6. CASE d + 1 <= l
    <3>1. BodyStart(s) = d + 2 /\ LengthOf(s) = [thrown |-> FALSE, value |-> n]
      <4>1. \A k \in 1..(d + 3) : k \in 1..(l + 2)
        BY <2>6
      <4>2. \A k \in 1..(d + 3) : s[k] = Serialize(m)[k]
        BY <2>2, <4>1
      <4>3. QED
        BY <1>1, <2>1, <2>6, <4>2, LengthIsRead, ZenonT(40)
    <3>2. last = d + n + 1
      <4>1. (d + 2) + n - 1 = d + n + 1
        OBVIOUS
      <4>2. QED
        BY <3>1, <4>1 DEF last
    <3>3. PICK j \in 0..n : stop = d + 1 + j
      <4>1. stop = IF d + n + 1 < l THEN d + n + 1 ELSE l
        BY <2>3, <3>2 DEF stop
      <4>2. (IF d + n + 1 < l THEN d + n + 1 ELSE l) - (d + 1) \in 0..n
        BY <2>6
      <4>3. stop - (d + 1) \in 0..n /\ stop = d + 1 + (stop - (d + 1))
        BY <2>6, <4>1
      <4>4. QED
        BY <4>3
    <3>4. stop <= l
      BY <2>3, <2>6, <3>2 DEF stop
    <3>5. found = SubSeq(m.body, 1, j)
      <4>1. /\ d + 2 \in Nat \ {0} /\ d + 1 + j \in Nat /\ d + 1 + j <= l
            /\ (d + 1 + j) + 1 - (d + 2) = j /\ d + 2 <= (d + 1 + j) + 1
        BY <3>3, <3>4
      <4>2. /\ SubSeq(text, d + 2, d + 1 + j) \in Seq(Bytes)
            /\ Len(SubSeq(text, d + 2, d + 1 + j)) = j
            /\ \A k \in 1..j : SubSeq(text, d + 2, d + 1 + j)[k] = text[(d + 2) + k - 1]
        <5>1. d + 1 + j <= Len(text)
          BY <2>3, <4>1
        <5>2. /\ SubSeq(text, d + 2, d + 1 + j) \in Seq(Bytes)
              /\ Len(SubSeq(text, d + 2, d + 1 + j)) = (d + 1 + j) + 1 - (d + 2)
              /\ \A k \in 1..((d + 1 + j) + 1 - (d + 2)) :
                   SubSeq(text, d + 2, d + 1 + j)[k] = text[(d + 2) + k - 1]
          BY <2>3, <4>1, <5>1, Part
        <5>3. QED
          BY <4>1, <5>2
      <4>3. /\ SubSeq(m.body, 1, j) \in Seq(Bytes)
            /\ Len(SubSeq(m.body, 1, j)) = j
            /\ \A k \in 1..j : SubSeq(m.body, 1, j)[k] = m.body[k]
        <5>1. m.body \in Seq(Bytes) /\ j <= Len(m.body) /\ j \in Nat
          BY <1>1 DEF Messages
        <5>2. 1 <= j + 1 /\ j + 1 - 1 = j /\ \A k \in 1..j : 1 + k - 1 = k
          OBVIOUS
        <5>3. /\ SubSeq(m.body, 1, j) \in Seq(Bytes)
              /\ Len(SubSeq(m.body, 1, j)) = j + 1 - 1
              /\ \A k \in 1..(j + 1 - 1) : SubSeq(m.body, 1, j)[k] = m.body[1 + k - 1]
          BY <5>1, <5>2, Part
        <5>4. QED
          BY <5>2, <5>3
      <4>4. ASSUME NEW k \in 1..j
            PROVE  text[(d + 2) + k - 1] = m.body[k]
        <5>1. /\ (d + 2) + k - 1 \in 1..l /\ ((d + 2) + k - 1) + 2 = k + (d + 3)
              /\ k + (d + 3) \in 1..(l + 2) /\ k \in 1..n
          BY <4>1
        <5>2. text[(d + 2) + k - 1] = s[k + (d + 3)]
          BY <2>3, <5>1
        <5>3. s[k + (d + 3)] = Serialize(m)[k + (d + 3)]
          BY <2>2, <5>1
        <5>4. Serialize(m)[k + (d + 3)] = m.body[k]
          BY <1>1, <5>1 DEF Layout
        <5>5. QED
          BY <5>2, <5>3, <5>4
      <4>5. SubSeq(text, d + 2, d + 1 + j) = SubSeq(m.body, 1, j)
        BY <4>2, <4>3, <4>4, SameText
      <4>6. QED
        BY <3>1, <3>3, <4>5 DEF found
    <3>6. SubSeq(m.body, 1, j) \in AsChannel!Prefixes(m.body)
      BY <1>1 DEF AsChannel!Prefixes
    <3>7. QED
      BY <2>5, <3>5, <3>6 DEF AsChannel!Shortened
  <2>7. CASE l <= d
    <3>1. \A k \in 1..l : text[k] = Decimal(n)[k]
      <4>1. ASSUME NEW k \in 1..l
            PROVE  text[k] = Decimal(n)[k]
        <5>1. k + 2 \in 1..(l + 2) /\ k \in 1..d
          BY <2>7
        <5>2. QED
          BY <1>1, <2>2, <2>3, <5>1 DEF Layout
      <4>2. QED
        BY <4>1
    <3>2. text \in Seq(Digits)
      <4>1. \A k \in 1..l : text[k] \in Digits
        <5>1. Decimal(n) \in Seq(Digits) /\ Len(Decimal(n)) = d
          BY <1>1 DEF Layout
        <5>2. \A k \in 1..l : k \in 1..d
          BY <2>7
        <5>3. QED
          BY <3>1, <5>1, <5>2
      <4>2. QED
        BY <2>3, <4>1
    <3>3. LengthEnd(s) = l + 1 /\ BodyStart(s) = 1
      <4>1. \A k \in 1..Len(text) : text[k] \notin {EOL}
        BY <3>2 DEF Digits, EOL
      <4>2. Find(text, {EOL}) = l + 1
        BY <2>3, <4>1, FindNone
      <4>3. QED
        BY <2>3, <4>2 DEF LengthEnd, BodyStart, text
    <3>4. LengthOf(s).value \in Nat
      <4>1. SubSeq(text, 1, (l + 1) - 1) = text
        <5>1. (l + 1) - 1 = l
          OBVIOUS
        <5>2. QED
          BY <2>3, <5>1, SubSeqFull
      <4>2. LengthOf(s) = Number(text)
        BY <3>3, <4>1 DEF LengthOf, text
      <4>3. QED
        BY <2>3, <4>2, NumberType
    <3>5. stop \in 0..l
      <4>1. PICK v \in Nat : v = LengthOf(s).value
        BY <3>4
      <4>2. last = 1 + v - 1
        BY <3>3, <4>1 DEF last
      <4>3. last = v
        BY <4>2
      <4>4. QED
        BY <2>3, <4>3 DEF stop
    <3>6. found = SubSeq(Decimal(n), 1, stop)
      <4>1. PICK j \in 0..l : j = stop
        BY <3>5
      <4>2. 1 <= j + 1 /\ j + 1 - 1 = j /\ (\A k \in 1..j : 1 + k - 1 = k /\ k \in 1..l) /\ j <= d /\ j \in Nat
        BY <2>7
      <4>3. /\ SubSeq(text, 1, j) \in Seq(Bytes) /\ Len(SubSeq(text, 1, j)) = j + 1 - 1
            /\ \A k \in 1..(j + 1 - 1) : SubSeq(text, 1, j)[k] = text[1 + k - 1]
        <5>1. j <= Len(text)
          BY <2>3
        <5>2. QED
          BY <2>3, <4>2, <5>1, Part
      <4>4. /\ SubSeq(Decimal(n), 1, j) \in Seq(Bytes) /\ Len(SubSeq(Decimal(n), 1, j)) = j + 1 - 1
            /\ \A k \in 1..(j + 1 - 1) : SubSeq(Decimal(n), 1, j)[k] = Decimal(n)[1 + k - 1]
        <5>1. Decimal(n) \in Seq(Bytes) /\ j <= Len(Decimal(n))
          BY <1>1, <4>2, DecimalUnfolds
        <5>2. QED
          BY <4>2, <5>1, Part
      <4>5. \A k \in 1..j : SubSeq(text, 1, j)[k] = SubSeq(Decimal(n), 1, j)[k]
        BY <3>1, <4>2, <4>3, <4>4
      <4>6. SubSeq(text, 1, j) = SubSeq(Decimal(n), 1, j)
        BY <4>2, <4>3, <4>4, <4>5, SameText
      <4>7. QED
        BY <3>3, <4>1, <4>6 DEF found
    <3>7. SubSeq(Decimal(n), 1, stop) \in AsChannel!Prefixes(AsChannel!Decimal(Len(m.body)))
      <4>1. AsChannel!Decimal(Len(m.body)) = Decimal(n)
        BY <1>1 DEF Decimal, AsChannel!Decimal
      <4>2. stop \in 0..d
        BY <2>7, <3>5
      <4>3. stop \in 0..Len(Decimal(n))
        BY <1>1, <4>2
      <4>4. QED
        BY <4>1, <4>3 DEF AsChannel!Prefixes
    <3>8. QED
      BY <2>5, <3>6, <3>7 DEF AsChannel!Shortened
  <2>8. QED
    BY <2>6, <2>7
<1>4. QED
  BY <1>2, <1>3

-----------------------------------------------------------------------------
(* What one recv takes, and what a read returns. *)

\* The assumptions on the constants.
LEMMA Texts ==
  /\ \A m \in Payloads : m \in Messages /\ \A i \in 1..Len(m.body) : m.body[i] # NUL
  /\ Buf \in Nat /\ Buf > 0
BY PayloadsAssumption, TextAssumption, BufAssumption

\* The positions as numbers.
LEMMA Positions ==
  ASSUME WireTypeOK
  PROVE  \E n, l \in Nat :
           /\ n = Len(sent) /\ l = Len(stream)
           /\ sent \in Seq(Payloads) /\ stream \in Seq(Bytes) /\ ends \in [1..n -> 1..l]
           /\ arrived \in Nat /\ taken \in Nat /\ start \in Nat
           /\ start <= taken /\ taken <= arrived /\ arrived <= l
<1>1. Len(sent) \in Nat /\ Len(stream) \in Nat
  BY DEF WireTypeOK
<1>2. PICK n \in Nat, l \in Nat : n = Len(sent) /\ l = Len(stream)
  BY <1>1
<1>3. arrived \in 0..l /\ taken \in 0..arrived /\ start \in 0..taken
  BY <1>2 DEF WireTypeOK
<1>4. /\ arrived \in Nat /\ taken \in Nat /\ start \in Nat
      /\ start <= taken /\ taken <= arrived /\ arrived <= l
  BY <1>3
<1>5. sent \in Seq(Payloads) /\ stream \in Seq(Bytes) /\ ends \in [1..n -> 1..l]
  BY <1>2 DEF WireTypeOK
<1>6. QED
  BY <1>2, <1>4, <1>5

\* A recv takes up to h and returns what is before e: up to a zero byte, if there is one.
LEMMA ChunkFacts ==
  ASSUME WireTypeOK, taken < arrived
  PROVE  \E h, e \in Nat :
           /\ taken < h /\ h <= arrived /\ h <= taken + Buf /\ taken <= e /\ e <= h
           /\ taken + Len(Chunk) = h /\ taken + Len(CString) = e /\ Len(CString) \in Nat
           /\ SoFar \o CString = SubSeq(stream, start + 1, e)
           /\ \A p \in (taken + 1)..e : stream[p] # NUL
           /\ e < h => stream[e + 1] = NUL
<1>1. PICK n \in Nat, l \in Nat :
        /\ n = Len(sent) /\ l = Len(stream) /\ stream \in Seq(Bytes)
        /\ arrived \in Nat /\ taken \in Nat /\ start \in Nat
        /\ start <= taken /\ taken <= arrived /\ arrived <= l
  BY Positions
<1>2. PICK h \in Nat : /\ h = IF taken + Buf < arrived THEN taken + Buf ELSE arrived
                       /\ taken < h /\ h <= arrived /\ h <= taken + Buf /\ h <= l
  BY <1>1, Texts
<1>3. PICK w \in Nat : w = h - taken /\ w > 0
  <2>1. h - taken \in Nat /\ h - taken > 0
    BY <1>1, <1>2
  <2>2. QED
    BY <2>1
<1> DEFINE C == Chunk
<1>4. /\ C \in Seq(Bytes) /\ Len(C) = w
      /\ \A k \in 1..w : C[k] = stream[taken + k]
  <2>1. C = SubSeq(stream, taken + 1, h)
    BY <1>2 DEF Chunk
  <2>2. /\ SubSeq(stream, taken + 1, h) \in Seq(Bytes)
        /\ (taken + 1 <= h + 1 => Len(SubSeq(stream, taken + 1, h)) = h + 1 - (taken + 1))
        /\ \A k \in 1..(h + 1 - (taken + 1)) :
             SubSeq(stream, taken + 1, h)[k] = stream[(taken + 1) + k - 1]
    <3>1. PICK i \in Nat \ {0} : i = taken + 1
      BY <1>1
    <3>2. h <= Len(stream) /\ stream \in Seq(Bytes)
      BY <1>1, <1>2
    <3>3. QED
      BY <3>1, <3>2, Part
  <2>3. /\ taken + 1 <= h + 1 /\ h + 1 - (taken + 1) = w
        /\ \A k \in 1..w : (taken + 1) + k - 1 = taken + k
    BY <1>1, <1>2, <1>3
  <2>4. QED
    BY <2>1, <2>2, <2>3
<1> HIDE DEF C
<1>5. PICK f \in 1..(w + 1) :
        /\ f = Find(C, {NUL}) /\ \A k \in 1..w : k < f => C[k] # NUL
        /\ f <= w => C[f] = NUL
  <2>1. C \in Seq(Bytes)
    BY <1>4
  <2>2. /\ Find(C, {NUL}) \in 1..(Len(C) + 1)
        /\ \A k \in 1..Len(C) : k < Find(C, {NUL}) => C[k] \notin {NUL}
        /\ Find(C, {NUL}) <= Len(C) => C[Find(C, {NUL})] \in {NUL}
    BY <2>1, FindResult
  <2>3. QED
    BY <1>4, <2>2
<1>6. PICK c \in Nat : c = f - 1 /\ c <= w
  OBVIOUS
<1>7. PICK e \in Nat : e = taken + c /\ e <= h
  BY <1>1, <1>2, <1>3, <1>6
<1>8. CString = SubSeq(C, 1, c)
  BY <1>5, <1>6 DEF CString, C
<1>9. CString = SubSeq(stream, taken + 1, e) /\ Len(CString) = c
  <2>1. /\ SubSeq(C, 1, c) \in Seq(Bytes) /\ (1 <= c + 1 => Len(SubSeq(C, 1, c)) = c + 1 - 1)
        /\ \A k \in 1..(c + 1 - 1) : SubSeq(C, 1, c)[k] = C[1 + k - 1]
    <3>1. C \in Seq(Bytes) /\ c <= Len(C) /\ 1 \in Nat \ {0}
      BY <1>4, <1>6
    <3>2. QED
      BY <3>1, Part
  <2>2. /\ SubSeq(stream, taken + 1, e) \in Seq(Bytes)
        /\ (taken + 1 <= e + 1 => Len(SubSeq(stream, taken + 1, e)) = e + 1 - (taken + 1))
        /\ \A k \in 1..(e + 1 - (taken + 1)) :
             SubSeq(stream, taken + 1, e)[k] = stream[(taken + 1) + k - 1]
    <3>1. PICK i \in Nat \ {0} : i = taken + 1
      BY <1>1
    <3>2. e <= Len(stream) /\ stream \in Seq(Bytes)
      BY <1>1, <1>2, <1>7
    <3>3. QED
      BY <3>1, <3>2, Part
  <2>3. /\ 1 <= c + 1 /\ c + 1 - 1 = c /\ taken + 1 <= e + 1 /\ e + 1 - (taken + 1) = c
        /\ \A k \in 1..c : k \in 1..w /\ 1 + k - 1 = k /\ (taken + 1) + k - 1 = taken + k
    BY <1>1, <1>6, <1>7
  <2>4. Len(SubSeq(C, 1, c)) = c /\ \A k \in 1..c : SubSeq(C, 1, c)[k] = C[k]
    BY <2>1, <2>3
  <2>5. /\ Len(SubSeq(stream, taken + 1, e)) = c
        /\ \A k \in 1..c : SubSeq(stream, taken + 1, e)[k] = stream[taken + k]
    BY <2>2, <2>3
  <2>6. \A k \in 1..c : SubSeq(C, 1, c)[k] = SubSeq(stream, taken + 1, e)[k]
    BY <1>4, <2>3, <2>4, <2>5
  <2>7. SubSeq(C, 1, c) = SubSeq(stream, taken + 1, e)
    BY <2>1, <2>2, <2>4, <2>5, <2>6, SameText
  <2>8. QED
    BY <1>8, <2>4, <2>7
<1>10. SoFar \o CString = SubSeq(stream, start + 1, e)
  <2>1. taken <= e /\ e <= Len(stream)
    BY <1>1, <1>2, <1>7
  <2>2. SubSeq(stream, start + 1, taken) \o SubSeq(stream, taken + 1, e) = SubSeq(stream, start + 1, e)
    <3>1. /\ start + 1 \in 1..(Len(stream) + 1) /\ taken \in ((start + 1) - 1)..Len(stream)
          /\ e \in taken..Len(stream)
      BY <1>1, <2>1
    <3>2. stream \in Seq(Bytes)
      BY <1>1
    <3>3. QED
      BY <3>1, <3>2, ConcatAdjacentSubSeq
  <2>3. QED
    BY <1>9, <2>2 DEF SoFar
<1>11. ASSUME NEW p \in (taken + 1)..e
       PROVE  stream[p] # NUL
  <2>1. PICK k \in 1..w : p = taken + k /\ k < f
    <3>1. p - taken \in 1..w /\ p = taken + (p - taken) /\ p - taken < f
      BY <1>1, <1>6, <1>7
    <3>2. QED
      BY <3>1
  <2>2. QED
    BY <1>4, <1>5, <2>1
<1>12. ASSUME e < h
       PROVE  stream[e + 1] = NUL
  <2>1. f <= w /\ e + 1 = taken + f /\ f \in 1..w
    BY <1>1, <1>3, <1>6, <1>7, <1>12
  <2>2. QED
    BY <1>4, <1>5, <2>1
<1>13. taken + Len(Chunk) = h
  <2>1. taken + w = h
    BY <1>1, <1>2, <1>3
  <2>2. QED
    BY <1>4, <2>1 DEF C
<1>14. taken + Len(CString) = e /\ Len(CString) \in Nat
  BY <1>7, <1>9
<1>15. taken <= e
  BY <1>1, <1>7
<1>16. QED
  BY <1>2, <1>7, <1>10, <1>11, <1>12, <1>13, <1>14, <1>15

-----------------------------------------------------------------------------
(* The inductive invariant: where each message is in the stream; that what a *)
(* read took before its last chunk has no zero byte; and, until a read ended *)
(* within a message, that every read began at the start of one and returned  *)
(* what was sent.                                                            *)

Begin(i) == IF i = 1 THEN 0 ELSE ends[i - 1]

Laid ==
  /\ Len(ends) = Len(sent) /\ Len(stream) = Begin(Len(sent) + 1)
  /\ \A i \in 1..Len(sent) :
       /\ ends[i] = Begin(i) + Len(Serialize(sent[i]))
       /\ \A k \in 1..Len(Serialize(sent[i])) : stream[k + Begin(i)] = Serialize(sent[i])[k]
  /\ \A i, j \in 1..Len(sent) : i < j => ends[i] < ends[j]

NoZeros == \A p \in (start + 1)..taken : stream[p] # NUL
InOrder == ~cut => start \in Boundaries
Told    == ~cut => \A i \in 1..Len(received) : received[i] = NoMessage \/ received[i] \in Payloads

IInv == WireTypeOK /\ Laid /\ NoZeros /\ InOrder /\ Told

\* What one more message changes.
LEMMA Written ==
  ASSUME WireTypeOK, Laid, NEW m \in Payloads, Writes(m)
  PROVE  \E n, l, d \in Nat :
           /\ n = Len(sent) /\ l = Len(stream) /\ d = Len(Serialize(m)) /\ d > 0
           /\ sent' \in Seq(Payloads) /\ Len(sent') = n + 1 /\ sent'[n + 1] = m
           /\ \A i \in 1..n : sent'[i] = sent[i]
           /\ stream' \in Seq(Bytes) /\ Len(stream') = l + d
           /\ \A k \in 1..l : stream'[k] = stream[k]
           /\ \A k \in 1..d : stream'[k + l] = Serialize(m)[k]
           /\ ends' \in [1..(n + 1) -> 1..(l + d)] /\ Len(ends') = n + 1 /\ ends'[n + 1] = l + d
           /\ ends \in [1..n -> 1..l] /\ \A i \in 1..n : ends'[i] = ends[i]
<1>1. PICK n \in Nat, l \in Nat :
        /\ n = Len(sent) /\ l = Len(stream)
        /\ sent \in Seq(Payloads) /\ stream \in Seq(Bytes) /\ ends \in [1..n -> 1..l]
  BY Positions
<1>2. PICK d \in Nat : d = Len(Serialize(m)) /\ d > 0 /\ Serialize(m) \in Seq(Bytes)
  <2>1. m \in Messages
    BY Texts
  <2>2. PICK a, b \in Nat : Layout(m, a, b)
    BY <2>1, Sizes
  <2>3. Len(Serialize(m)) = a + b + 4 /\ Serialize(m) \in Seq(Bytes)
    BY <2>2 DEF Layout
  <2>4. a + b + 4 \in Nat /\ a + b + 4 > 0
    OBVIOUS
  <2>5. QED
    BY <2>3, <2>4
<1>3. /\ sent' = Append(sent, m) /\ stream' = stream \o Serialize(m)
      /\ ends' = Append(ends, Len(stream'))
  BY DEF Writes
<1>4. /\ sent' \in Seq(Payloads) /\ Len(sent') = n + 1 /\ sent'[n + 1] = m
      /\ \A i \in 1..n : sent'[i] = sent[i]
  <2>1. /\ Append(sent, m) \in Seq(Payloads) /\ Len(Append(sent, m)) = Len(sent) + 1
        /\ \A i \in 1..Len(sent) : Append(sent, m)[i] = sent[i]
        /\ Append(sent, m)[Len(sent) + 1] = m
    BY <1>1, AppendProperties
  <2>2. QED
    BY <1>1, <1>3, <2>1
<1>5. /\ stream' \in Seq(Bytes) /\ Len(stream') = l + d
      /\ \A k \in 1..l : stream'[k] = stream[k]
      /\ \A k \in 1..d : stream'[k + l] = Serialize(m)[k]
  <2> DEFINE t == Serialize(m)
  <2>1. stream \in Seq(Bytes) /\ t \in Seq(Bytes) /\ Len(t) = d
    BY <1>1, <1>2
  <2>2. stream' = stream \o t
    BY <1>3
  <2> HIDE DEF t
  <2>3. /\ stream \o t \in Seq(Bytes) /\ Len(stream \o t) = Len(stream) + Len(t)
        /\ \A k \in 1..Len(stream) : (stream \o t)[k] = stream[k]
        /\ \A k \in 1..Len(t) : (stream \o t)[k + Len(stream)] = t[k]
    BY <2>1, JoinedBytes
  <2>4. /\ stream' \in Seq(Bytes) /\ Len(stream') = l + d
        /\ \A k \in 1..l : stream'[k] = stream[k]
        /\ \A k \in 1..d : stream'[k + l] = t[k]
    BY <1>1, <2>1, <2>2, <2>3
  <2>5. QED
    BY <2>4 DEF t
<1>6. /\ ends' \in [1..(n + 1) -> 1..(l + d)] /\ Len(ends') = n + 1 /\ ends'[n + 1] = l + d
      /\ \A i \in 1..n : ends'[i] = ends[i]
  <2>1. ends \in Seq(1..(l + d)) /\ l + d \in 1..(l + d)
    <3>1. \A i \in 1..n : ends[i] \in 1..(l + d)
      <4>1. \A j \in 1..l : j \in 1..(l + d)
        BY <1>2
      <4>2. \A i \in 1..n : ends[i] \in 1..l
        BY <1>1
      <4>3. QED
        BY <4>1, <4>2
    <3>2. ends \in [1..n -> 1..(l + d)]
      BY <1>1, <3>1
    <3>3. QED
      BY <1>2, <3>2
  <2>2. Len(ends) = n
    BY <1>1 DEF Laid
  <2>3. /\ Append(ends, l + d) \in Seq(1..(l + d)) /\ Len(Append(ends, l + d)) = Len(ends) + 1
        /\ \A i \in 1..Len(ends) : Append(ends, l + d)[i] = ends[i]
        /\ Append(ends, l + d)[Len(ends) + 1] = l + d
    BY <2>1, AppendProperties
  <2>4. ends' = Append(ends, l + d)
    BY <1>3, <1>5
  <2>5. ends' \in Seq(1..(l + d)) /\ Len(ends') = n + 1
    BY <2>2, <2>3, <2>4
  <2>6. ends' \in [1..Len(ends') -> 1..(l + d)]
    BY <2>5, LenProperties
  <2>7. QED
    BY <2>2, <2>3, <2>4, <2>5, <2>6
<1>7. QED
  BY <1>1, <1>2, <1>4, <1>5, <1>6

\* Nothing was written yet.
LEMMA InitIInv == Init => IInv
<1> SUFFICES ASSUME Init
             PROVE  IInv
  OBVIOUS
<1> USE DEF Init
<1>1. Len(sent) = 0 /\ Len(stream) = 0 /\ Len(ends) = 0 /\ Len(received) = 0
  OBVIOUS
<1>2. WireTypeOK
  <2>1. Boundaries = {0}
    BY <1>1 DEF Boundaries
  <2>2. ends \in [1..Len(sent) -> 1..Len(stream)]
    BY <1>1
  <2>3. sent \in Seq(Payloads) /\ received \in Seq(Messages) /\ stream \in Seq(Bytes)
    OBVIOUS
  <2>4. (taken - start) % Buf = 0
    BY Texts
  <2>5. arrived \in 0..Len(stream) /\ taken \in 0..arrived /\ start \in 0..taken
    BY <1>1
  <2>6. QED
    BY <1>1, <2>1, <2>2, <2>3, <2>4, <2>5 DEF WireTypeOK
<1>3. Laid
  BY <1>1 DEF Laid, Begin
<1>4. NoZeros /\ InOrder /\ Told
  BY <1>1 DEF NoZeros, InOrder, Told, Boundaries
<1>5. QED
  BY <1>2, <1>3, <1>4 DEF IInv

\* A write puts the message behind the others.
LEMMA WritesIInv ==
  ASSUME IInv, NEW m \in Payloads, Writes(m)
  PROVE  IInv'
<1> USE DEF IInv
<1>1. PICK n, l, d \in Nat :
           /\ n = Len(sent) /\ l = Len(stream) /\ d = Len(Serialize(m)) /\ d > 0
           /\ sent' \in Seq(Payloads) /\ Len(sent') = n + 1 /\ sent'[n + 1] = m
           /\ \A i \in 1..n : sent'[i] = sent[i]
           /\ stream' \in Seq(Bytes) /\ Len(stream') = l + d
           /\ \A k \in 1..l : stream'[k] = stream[k]
           /\ \A k \in 1..d : stream'[k + l] = Serialize(m)[k]
           /\ ends' \in [1..(n + 1) -> 1..(l + d)] /\ Len(ends') = n + 1 /\ ends'[n + 1] = l + d
           /\ ends \in [1..n -> 1..l] /\ \A i \in 1..n : ends'[i] = ends[i]
  BY Written
<1>2. UNCHANGED <<link, arrived, taken, start, received, cut, over>>
  BY DEF Writes, reader
<1>3. arrived \in 0..l /\ taken \in 0..arrived /\ start \in 0..taken
  BY <1>1 DEF WireTypeOK
<1>4. Boundaries \subseteq Boundaries' /\ l + d \in Boundaries'
  <2>1. \A i \in 1..n : i \in 1..(n + 1) /\ ends'[i] = ends[i]
    BY <1>1
  <2>2. n + 1 \in 1..(n + 1)
    OBVIOUS
  <2>3. Boundaries = {0} \cup { ends[i] : i \in 1..n }
    BY <1>1 DEF Boundaries
  <2>4. Boundaries' = {0} \cup { ends'[i] : i \in 1..(n + 1) }
    BY <1>1 DEF Boundaries
  <2>5. Boundaries \subseteq Boundaries'
    BY <2>1, <2>3, <2>4
  <2>6. l + d = ends'[n + 1]
    BY <1>1
  <2>7. l + d \in Boundaries'
    BY <2>2, <2>4, <2>6
  <2>8. QED
    BY <2>5, <2>7
<1>5. WireTypeOK'
  <2>1. arrived \in 0..(l + d)
    BY <1>1, <1>3
  <2>2. Len(stream') \in Boundaries'
    BY <1>1, <1>4
  <2>3. /\ sent' \in Seq(Payloads) /\ stream' \in Seq(Bytes)
        /\ ends' \in [1..Len(sent') -> 1..Len(stream')] /\ arrived' \in 0..Len(stream')
    BY <1>1, <1>2, <2>1
  <2>4. /\ received' \in Seq(Messages) /\ link' \in {"open", "fin", "rst"} /\ cut' \in BOOLEAN
        /\ over' \in BOOLEAN
        /\ taken' \in 0..arrived' /\ start' \in 0..taken' /\ (taken' - start') % Buf = 0
    BY <1>2 DEF WireTypeOK
  <2>5. QED
    BY <2>2, <2>3, <2>4 DEF WireTypeOK
<1>6. Laid'
  <2>1. \A i \in 1..(n + 1) : Begin(i)' = Begin(i)
    <3>1. ASSUME NEW i \in 1..(n + 1)
          PROVE  Begin(i)' = Begin(i)
      <4>1. CASE i = 1
        BY <4>1 DEF Begin
      <4>2. CASE i # 1
        <5>1. i - 1 \in 1..n
          BY <4>2
        <5>2. QED
          BY <1>1, <4>2, <5>1 DEF Begin
      <4>3. QED
        BY <4>1, <4>2
    <3>2. QED
      BY <3>1
  <2>2. Len(stream') = Begin(n + 2)'
    <3>1. n + 2 # 1 /\ (n + 2) - 1 = n + 1
      OBVIOUS
    <3>2. QED
      BY <1>1, <3>1 DEF Begin
  <2>3. l = Begin(n + 1)
    BY <1>1 DEF Laid
  <2>4. ASSUME NEW i \in 1..(n + 1)
        PROVE  /\ ends'[i] = Begin(i)' + Len(Serialize(sent'[i]))
               /\ \A k \in 1..Len(Serialize(sent'[i])) :
                    stream'[k + Begin(i)'] = Serialize(sent'[i])[k]
    <3>1. CASE i = n + 1
      <4>1. Begin(i)' = l /\ sent'[i] = m
        BY <1>1, <2>1, <2>3, <3>1
      <4>2. QED
        BY <1>1, <3>1, <4>1
    <3>2. CASE i # n + 1
      <4>1. i \in 1..n
        BY <3>2
      <4>2. sent'[i] = sent[i] /\ ends'[i] = ends[i] /\ Begin(i)' = Begin(i)
        BY <1>1, <2>1, <4>1
      <4>3. PICK q, b \in Nat : q = Len(Serialize(sent[i])) /\ b = Begin(i) /\ ends[i] <= l
        <5>1. sent[i] \in Messages
          BY <1>1, <4>1, Texts DEF WireTypeOK
        <5>2. PICK x, y \in Nat : Layout(sent[i], x, y)
          BY <5>1, Sizes
        <5>3. Len(Serialize(sent[i])) \in Nat
          BY <5>2 DEF Layout
        <5>4. Begin(i) \in Nat
          <6>1. i = 1 \/ i - 1 \in 1..n
            BY <4>1
          <6>2. \A j \in 1..n : ends[j] \in 1..l
            BY <1>1
          <6>3. QED
            BY <6>1, <6>2 DEF Begin
        <5>5. ends[i] \in 1..l
          BY <1>1, <4>1
        <5>6. QED
          BY <5>3, <5>4, <5>5
      <4>4. /\ ends[i] = b + q
            /\ \A k \in 1..q : stream[k + b] = Serialize(sent[i])[k]
        BY <1>1, <4>1, <4>3 DEF Laid
      <4>5. \A k \in 1..q : k + b \in 1..l
        BY <4>3, <4>4
      <4>6. \A k \in 1..q : stream'[k + b] = Serialize(sent[i])[k]
        BY <1>1, <4>4, <4>5
      <4>7. QED
        BY <4>2, <4>3, <4>4, <4>6
    <3>3. QED
      BY <3>1, <3>2
  <2>5. ASSUME NEW i \in 1..(n + 1), NEW j \in 1..(n + 1), i < j
        PROVE  ends'[i] < ends'[j]
    <3>1. i \in 1..n
      BY <2>5
    <3>2. CASE j = n + 1
      <4>1. ends'[i] \in 1..l
        BY <1>1, <3>1
      <4>2. ends'[j] = l + d
        BY <1>1, <3>2
      <4>3. QED
        BY <1>1, <4>1, <4>2
    <3>3. CASE j # n + 1
      <4>1. j \in 1..n
        BY <3>3
      <4>2. ends[i] < ends[j]
        BY <1>1, <2>5, <3>1, <4>1 DEF Laid
      <4>3. QED
        BY <1>1, <3>1, <4>1, <4>2
    <3>4. QED
      BY <3>2, <3>3
  <2>6. Len(sent') + 1 = n + 2
    BY <1>1
  <2>7. Len(stream') = Begin(Len(sent) + 1)'
    <3>1. Begin(n + 2)' = ends'[n + 1]
      <4>1. n + 2 # 1 /\ (n + 2) - 1 = n + 1
        OBVIOUS
      <4>2. QED
        BY <4>1 DEF Begin
    <3>2. Begin(Len(sent) + 1)' = ends'[n + 1]
      <4>1. Len(sent') + 1 # 1 /\ (Len(sent') + 1) - 1 = n + 1
        BY <1>1
      <4>2. QED
        BY <4>1 DEF Begin
    <3>3. QED
      BY <2>2, <3>1, <3>2
  <2>8. \A i \in 1..Len(sent') :
          /\ ends'[i] = Begin(i)' + Len(Serialize(sent'[i]))
          /\ \A k \in 1..Len(Serialize(sent'[i])) :
               stream'[k + Begin(i)'] = Serialize(sent'[i])[k]
    BY <1>1, <2>4
  <2>9. \A i, j \in 1..Len(sent') : i < j => ends'[i] < ends'[j]
    BY <1>1, <2>5
  <2>10. Len(ends') = Len(sent')
    BY <1>1
  <2>11. QED
    BY <2>7, <2>8, <2>9, <2>10 DEF Laid
<1>7. NoZeros'
  <2>1. \A p \in (start + 1)..taken : p \in 1..l
    BY <1>3, <1>1
  <2>2. \A p \in (start + 1)..taken : stream'[p] # NUL
    BY <1>1, <2>1 DEF NoZeros
  <2>3. QED
    BY <1>2, <2>2 DEF NoZeros
<1>8. InOrder' /\ Told'
  BY <1>2, <1>4 DEF InOrder, Told
<1>9. QED
  BY <1>5, <1>6, <1>7, <1>8

-----------------------------------------------------------------------------
(* What one read returns, until one ended within a message. *)

\* The ends of the messages grow: a place between two of them tells how many
\* messages are before it.
LEMMA Place ==
  ASSUME WireTypeOK, Laid, NEW h \in Boundaries
  PROVE  \E j, n \in Nat :
           /\ n = Len(sent) /\ j <= n /\ h \in Nat
           /\ h = (IF j = 0 THEN 0 ELSE ends[j])
           /\ \A i \in 1..n : ends[i] <= h <=> i <= j
           /\ Cardinality({ i \in 1..n : ends[i] <= h }) = j
<1>1. PICK n \in Nat, l \in Nat :
        /\ n = Len(sent) /\ l = Len(stream) /\ ends \in [1..n -> 1..l]
  BY Positions
<1>2. PICK j \in 0..n : h = IF j = 0 THEN 0 ELSE ends[j]
  <2>1. h = 0 \/ \E i \in 1..n : h = ends[i]
    BY <1>1 DEF Boundaries
  <2>2. CASE h = 0
    <3>1. 0 \in 0..n
      BY <1>1
    <3>2. QED
      BY <2>2, <3>1
  <2>3. ASSUME NEW i \in 1..n, h = ends[i]
        PROVE  i \in 0..n /\ i # 0
    BY <2>3
  <2>4. QED
    BY <2>1, <2>2, <2>3
<1>3. \A i \in 1..n : ends[i] \in Nat /\ ends[i] > 0
  BY <1>1
<1>4. h \in Nat
  <2>1. j = 0 \/ j \in 1..n
    BY <1>2
  <2>2. QED
    BY <1>2, <1>3, <2>1
<1>5. ASSUME NEW i \in 1..n
      PROVE  ends[i] <= h <=> i <= j
  <2>1. CASE j = 0
    BY <1>2, <1>3, <2>1
  <2>2. CASE j # 0
    <3>1. j \in 1..n /\ h = ends[j]
      BY <1>2, <2>2
    <3>2. (i < j => ends[i] < ends[j]) /\ (j < i => ends[j] < ends[i])
      BY <1>1, <3>1 DEF Laid
    <3>3. ends[i] \in Nat /\ ends[j] \in Nat
      BY <1>3, <3>1
    <3>4. i < j \/ i = j \/ j < i
      OBVIOUS
    <3>5. QED
      BY <3>1, <3>2, <3>3, <3>4
  <2>3. QED
    BY <2>1, <2>2
<1>6. { i \in 1..n : ends[i] <= h } = 1..j
  <2>1. \A i \in 1..j : i \in 1..n /\ i <= j
    BY <1>2
  <2>2. \A i \in 1..n : i <= j <=> i \in 1..j
    BY <1>2
  <2>3. QED
    BY <1>5, <2>1, <2>2
<1>7. Cardinality(1..j) = j
  <2>1. Cardinality(1..j) = IF 1 > j THEN 0 ELSE j - 1 + 1
    BY <1>2, FS_Interval
  <2>2. QED
    BY <1>2, <2>1
<1>8. j \in Nat /\ j <= n
  BY <1>2
<1>9. QED
  BY <1>1, <1>2, <1>4, <1>5, <1>6, <1>7, <1>8

\* A message has no zero byte but in place of its type.
LEMMA ZeroOfAMessage ==
  ASSUME NEW m \in Payloads, NEW k \in 1..Len(Serialize(m)), Serialize(m)[k] = NUL
  PROVE  k = 1 /\ m.type = NUL
<1>1. m \in Messages
  BY Texts
<1>2. PICK d \in Nat, n \in Nat : n = Len(m.body) /\ d = Len(Decimal(n)) /\ Layout(m, d, n)
  BY <1>1, Sizes
<1>a. Blank # NUL /\ EOL # NUL /\ \A x \in Digits : x # NUL
  BY DEF NUL, Blank, EOL, Digits
<1>b. /\ Len(Serialize(m)) = d + n + 4 /\ Serialize(m)[1] = m.type /\ Serialize(m)[2] = Blank
      /\ Serialize(m)[d + 3] = EOL /\ Serialize(m)[d + n + 4] = EOL
  BY <1>2 DEF Layout
<1>c. \A i \in 1..d : Serialize(m)[i + 2] = Decimal(n)[i] /\ Decimal(n)[i] \in Digits
  <2>1. Decimal(n) \in Seq(Digits) /\ \A i \in 1..d : Serialize(m)[i + 2] = Decimal(n)[i]
    BY <1>2 DEF Layout
  <2>2. \A i \in 1..d : Decimal(n)[i] \in Digits
    BY <1>2, <2>1
  <2>3. QED
    BY <2>1, <2>2
<1>d. \A i \in 1..n : Serialize(m)[i + (d + 3)] = m.body[i]
  BY <1>2 DEF Layout
<1>3. k \in 1..(d + n + 4)
  BY <1>b
<1>4. k # 2
  BY <1>a, <1>b
<1>5. ~(k \in 3..(d + 2))
  <2>1. SUFFICES ASSUME k \in 3..(d + 2)
                 PROVE  FALSE
    OBVIOUS
  <2>2. PICK i \in 1..d : k = i + 2
    <3>1. k - 2 \in 1..d /\ k = (k - 2) + 2
      BY <2>1
    <3>2. QED
      BY <3>1
  <2>3. QED
    BY <1>a, <1>c, <2>2
<1>6. k # d + 3 /\ k # d + n + 4
  BY <1>a, <1>b
<1>7. ~(k \in (d + 4)..(d + n + 3))
  <2>1. SUFFICES ASSUME k \in (d + 4)..(d + n + 3)
                 PROVE  FALSE
    OBVIOUS
  <2>2. PICK i \in 1..n : k = i + (d + 3)
    <3>1. k - (d + 3) \in 1..n /\ k = (k - (d + 3)) + (d + 3)
      BY <2>1
    <3>2. QED
      BY <3>1
  <2>3. m.body[i] # NUL
    BY <1>2, <2>2, Texts
  <2>4. QED
    BY <1>d, <2>2, <2>3
<1>8. k = 1
  BY <1>3, <1>4, <1>5, <1>6, <1>7
<1>9. QED
  BY <1>b, <1>8

\* A read that took what is before h and returns what is before e: it is the first
\* message that was not read, or a part of it; and when h is the end of a message it
\* is the whole one.
LEMMA ReadText ==
  ASSUME IInv, ~cut, NEW h \in Nat, NEW e \in Nat, NEW j \in Nat,
         start < h, h <= Len(stream), start <= e, e <= h,
         e < h => stream[e + 1] = NUL,
         start = (IF j = 0 THEN 0 ELSE ends[j]), j <= Len(sent),
         NEW text, text = SubSeq(stream, start + 1, e)
  PROVE  /\ j + 1 \in 1..Len(sent)
         /\ Deserialize(text) \in AsChannel!Shortened(sent[j + 1])
         /\ h \in Boundaries => Deserialize(text) = AsChannel!Readable(sent[j + 1])
<1> USE DEF IInv
<1>1. PICK n \in Nat, l \in Nat :
        /\ n = Len(sent) /\ l = Len(stream)
        /\ sent \in Seq(Payloads) /\ stream \in Seq(Bytes) /\ ends \in [1..n -> 1..l]
        /\ start \in Nat
  BY Positions
<1>2. j + 1 \in 1..n
  <2>1. l = Begin(n + 1)
    BY <1>1 DEF Laid
  <2>2. j # n
    <3>1. CASE n = 0
      BY <1>1, <2>1, <3>1 DEF Begin
    <3>2. CASE n # 0
      <4>1. n + 1 # 1 /\ (n + 1) - 1 = n
        BY <3>2
      <4>2. l = ends[n]
        BY <2>1, <4>1 DEF Begin
      <4>3. QED
        BY <1>1, <3>2, <4>2
    <3>3. QED
      BY <3>1, <3>2
  <2>3. QED
    BY <1>1, <2>2
<1>3. PICK m \in Payloads : m = sent[j + 1] /\ m \in Messages
  BY <1>1, <1>2, Texts
<1>4. PICK q \in Nat : q = Len(Serialize(m)) /\ q > 0
  <2>1. PICK a, b \in Nat : Layout(m, a, b)
    BY <1>3, Sizes
  <2>2. Len(Serialize(m)) = a + b + 4
    BY <2>1 DEF Layout
  <2>3. a + b + 4 \in Nat /\ a + b + 4 > 0
    OBVIOUS
  <2>4. QED
    BY <2>2, <2>3
<1>5. ends[j + 1] = start + q /\ \A k \in 1..q : stream[k + start] = Serialize(m)[k]
  <2>1. Begin(j + 1) = start
    <3>1. (j + 1 = 1 <=> j = 0) /\ (j + 1) - 1 = j
      OBVIOUS
    <3>2. QED
      BY <3>1 DEF Begin
  <2>2. /\ ends[j + 1] = Begin(j + 1) + Len(Serialize(sent[j + 1]))
        /\ \A k \in 1..Len(Serialize(sent[j + 1])) :
             stream[k + Begin(j + 1)] = Serialize(sent[j + 1])[k]
    BY <1>1, <1>2 DEF Laid
  <2>3. QED
    BY <1>3, <1>4, <2>1, <2>2
<1>6. PICK c \in Nat : c = e - start /\ e = start + c
  <2>1. e - start \in Nat /\ e = start + (e - start)
    BY <1>1
  <2>2. QED
    BY <2>1
<1>7. /\ text \in Seq(Bytes) /\ Len(text) = c
      /\ \A k \in 1..c : text[k] = stream[k + start]
  <2>1. /\ SubSeq(stream, start + 1, e) \in Seq(Bytes)
        /\ (start + 1 <= e + 1 => Len(SubSeq(stream, start + 1, e)) = e + 1 - (start + 1))
        /\ \A k \in 1..(e + 1 - (start + 1)) :
             SubSeq(stream, start + 1, e)[k] = stream[(start + 1) + k - 1]
    <3>1. PICK i \in Nat \ {0} : i = start + 1
      BY <1>1
    <3>2. e <= Len(stream) /\ stream \in Seq(Bytes)
      BY <1>1
    <3>3. PICK s \in Seq(Bytes), u \in Nat : s = stream /\ u = e /\ u <= Len(s)
      BY <3>2
    <3>4. /\ SubSeq(s, i, u) \in Seq(Bytes)
          /\ (i <= u + 1 => Len(SubSeq(s, i, u)) = u + 1 - i)
          /\ \A k \in 1..(u + 1 - i) : SubSeq(s, i, u)[k] = s[i + k - 1]
      BY <3>3, Part
    <3>5. QED
      BY <3>1, <3>3, <3>4
  <2>2. /\ start + 1 <= e + 1 /\ e + 1 - (start + 1) = c
        /\ \A k \in 1..c : (start + 1) + k - 1 = k + start
    <3>1. PICK b \in Nat : b = start
      BY <1>1
    <3>2. /\ b + 1 <= (b + c) + 1 /\ (b + c) + 1 - (b + 1) = c
          /\ \A k \in 1..c : (b + 1) + k - 1 = k + b
      OBVIOUS
    <3>3. QED
      BY <1>6, <3>1, <3>2
  <2>3. QED
    BY <2>1, <2>2
<1>8. CASE c >= q
  <2>1. \A k \in 1..q : text[k] = Serialize(m)[k]
    <3>1. \A k \in 1..q : k \in 1..c
      BY <1>8
    <3>2. QED
      BY <1>5, <1>7, <3>1
  <2>2. HasHead(text, m)
    <3>1. q <= c
      BY <1>8
    <3>2. QED
      BY <1>4, <1>7, <2>1, <3>1 DEF HasHead
  <2>3. Deserialize(text) = AsChannel!Readable(m)
    BY <1>3, <1>7, <2>2, WholeIsRead
  <2>4. QED
    BY <1>1, <1>2, <1>3, <2>3, ReadableIsShort
<1>9. CASE c < q
  <2>1. \A k \in 1..c : text[k] = Serialize(m)[k]
    <3>1. \A k \in 1..c : k \in 1..q
      BY <1>9
    <3>2. QED
      BY <1>5, <1>7, <3>1
  <2>2. IsHead(text, m)
    <3>1. c <= q
      BY <1>9
    <3>2. QED
      BY <1>4, <1>7, <2>1, <3>1 DEF IsHead
  <2>3. Deserialize(text) \in AsChannel!Shortened(m)
    BY <1>3, <1>7, <2>2, PartIsShort
  <2>4. ASSUME h \in Boundaries
        PROVE  Deserialize(text) = AsChannel!Readable(m)
    <3>1. start + q <= h
      <4>1. PICK i \in 1..n : h = ends[i]
        BY <1>1, <2>4 DEF Boundaries
      <4>2. ~(i < j + 1)
        <5>1. SUFFICES ASSUME i < j + 1
                       PROVE  FALSE
          OBVIOUS
        <5>2. j \in 1..n /\ i <= j
          BY <1>1, <5>1
        <5>3. i < j => ends[i] < ends[j]
          BY <1>1, <5>2 DEF Laid
        <5>4. start = ends[j]
          BY <5>2
        <5>5. i = j \/ i < j
          BY <5>2
        <5>6. QED
          BY <1>1, <4>1, <5>3, <5>4, <5>5
      <4>3. i = j + 1 \/ j + 1 < i
        BY <4>2
      <4>4. j + 1 < i => ends[j + 1] < ends[i]
        BY <1>1, <1>2 DEF Laid
      <4>5. QED
        BY <1>1, <1>4, <1>5, <4>1, <4>3, <4>4
    <3>2. e < h /\ c + 1 \in 1..q /\ e + 1 = (c + 1) + start
      <4>1. PICK b \in Nat : b = start
        BY <1>1
      <4>2. b + q <= h /\ e = b + c
        BY <1>6, <3>1, <4>1
      <4>3. e < h /\ c + 1 \in 1..q /\ e + 1 = (c + 1) + b
        BY <1>9, <4>2
      <4>4. QED
        BY <4>1, <4>3
    <3>3. Serialize(m)[c + 1] = NUL
      BY <1>5, <3>2
    <3>4. c + 1 = 1 /\ m.type = NUL
      BY <1>4, <3>2, <3>3, ZeroOfAMessage
    <3>5. Len(text) = 0
      BY <1>7, <3>4
    <3>6. ~IsMessage(text)
      BY <3>5 DEF IsMessage
    <3>7. Deserialize(text) = NoMessage
      BY <3>6 DEF Deserialize
    <3>8. AsChannel!Readable(m) = NoMessage
      BY <3>4 DEF AsChannel!Readable, AsChannel!Lowercase, AsChannel!NoMessage, NoMessage, AsChannel!NUL, NUL
    <3>9. QED
      BY <3>7, <3>8
  <2>5. QED
    BY <1>1, <1>2, <1>3, <2>3, <2>4
<1>10. QED
  BY <1>4, <1>6, <1>8, <1>9

-----------------------------------------------------------------------------
(* The steps of the reader, and what each is for the channel. *)

\* What follows the j-th message of a queue, and what follows a later one.
LEMMA Rest ==
  ASSUME NEW T, NEW s \in Seq(T), NEW j \in Nat, j < Len(s)
  PROVE  /\ SubSeq(s, j + 1, Len(s)) # << >>
         /\ Head(SubSeq(s, j + 1, Len(s))) = s[j + 1]
         /\ \A i \in (j + 1)..Len(s) :
              SubSeq(s, i + 1, Len(s)) \in AsChannel!LeftAfterRead(SubSeq(s, j + 1, Len(s)))
<1>1. PICK n \in Nat : n = Len(s) /\ j < n
  OBVIOUS
<1>2. PICK w \in Nat : w = n - j /\ w > 0
  <2>1. n - j \in Nat /\ n - j > 0
    BY <1>1
  <2>2. QED
    BY <2>1
<1> DEFINE p == SubSeq(s, j + 1, n)
<1>3. /\ p \in Seq(T) /\ Len(p) = w
      /\ \A k \in 1..w : p[k] = s[k + j]
  <2>1. /\ SubSeq(s, j + 1, n) \in Seq(T)
        /\ (j + 1 <= n + 1 => Len(SubSeq(s, j + 1, n)) = n + 1 - (j + 1))
        /\ \A k \in 1..(n + 1 - (j + 1)) : SubSeq(s, j + 1, n)[k] = s[(j + 1) + k - 1]
    <3>1. PICK i \in Nat \ {0} : i = j + 1
      OBVIOUS
    <3>2. n <= Len(s)
      BY <1>1
    <3>3. QED
      BY <3>1, <3>2, Part
  <2>2. /\ j + 1 <= n + 1 /\ n + 1 - (j + 1) = w
        /\ \A k \in 1..w : (j + 1) + k - 1 = k + j
    BY <1>1, <1>2
  <2>3. QED
    BY <2>1, <2>2
<1> HIDE DEF p
<1>4. p # << >> /\ Head(p) = s[j + 1]
  <2>1. 1 \in 1..w /\ 1 + j = j + 1
    BY <1>2
  <2>2. p # << >>
    BY <1>2, <1>3
  <2>3. Head(p) = p[1]
    BY <1>3, <2>2
  <2>4. QED
    BY <1>3, <2>1, <2>2, <2>3
<1>5. ASSUME NEW i \in (j + 1)..n
      PROVE  SubSeq(s, i + 1, n) \in AsChannel!LeftAfterRead(p)
  <2>1. PICK k \in 1..w : k = i - j /\ i = k + j
    <3>1. i - j \in 1..w /\ i = (i - j) + j
      BY <1>1, <1>2
    <3>2. QED
      BY <3>1
  <2>2. PICK u \in Nat : u = w - k
    <3>1. w - k \in Nat
      BY <2>1
    <3>2. QED
      BY <3>1
  <2> DEFINE x == SubSeq(s, i + 1, n)
             y == SubSeq(p, k + 1, w)
  <2>3. x \in Seq(T) /\ Len(x) = u /\ \A c \in 1..u : x[c] = s[i + c]
    <3>1. PICK a \in Nat \ {0} : a = i + 1
      OBVIOUS
    <3>2. n <= Len(s)
      BY <1>1
    <3>3. /\ SubSeq(s, a, n) \in Seq(T) /\ (a <= n + 1 => Len(SubSeq(s, a, n)) = n + 1 - a)
          /\ \A c \in 1..(n + 1 - a) : SubSeq(s, a, n)[c] = s[a + c - 1]
      BY <3>2, Part
    <3>4. a <= n + 1 /\ n + 1 - a = u /\ \A c \in 1..u : a + c - 1 = i + c
      BY <1>1, <1>2, <2>1, <2>2, <3>1
    <3>5. QED
      BY <3>1, <3>3, <3>4, ZenonT(40)
  <2>4. y \in Seq(T) /\ Len(y) = u /\ \A c \in 1..u : y[c] = p[k + c]
    <3>1. PICK a \in Nat \ {0} : a = k + 1
      OBVIOUS
    <3>2. w <= Len(p) /\ p \in Seq(T)
      BY <1>3
    <3>3. /\ SubSeq(p, a, w) \in Seq(T) /\ (a <= w + 1 => Len(SubSeq(p, a, w)) = w + 1 - a)
          /\ \A c \in 1..(w + 1 - a) : SubSeq(p, a, w)[c] = p[a + c - 1]
      BY <3>2, Part
    <3>4. a <= w + 1 /\ w + 1 - a = u /\ \A c \in 1..u : a + c - 1 = k + c
      BY <2>1, <2>2, <3>1
    <3>5. QED
      BY <3>1, <3>3, <3>4, ZenonT(40)
  <2> HIDE DEF x, y
  <2>5. ASSUME NEW c \in 1..u
        PROVE  x[c] = y[c]
    <3>1. k + c \in 1..w /\ (k + c) + j = i + c
      BY <2>1, <2>2
    <3>2. QED
      BY <1>3, <2>3, <2>4, <3>1
  <2>6. x = y
    BY <2>3, <2>4, <2>5, SameText
  <2>7. k \in 1..Len(p) /\ y = SubSeq(p, k + 1, Len(p))
    BY <1>3 DEF y
  <2>8. x \in AsChannel!LeftAfterRead(p)
    BY <2>6, <2>7 DEF AsChannel!LeftAfterRead
  <2>9. QED
    BY <2>8 DEF x
<1>6. p = SubSeq(s, j + 1, Len(s)) /\ \A i \in (j + 1)..Len(s) : i \in (j + 1)..n
  BY <1>1 DEF p
<1>7. QED
  BY <1>1, <1>4, <1>5, <1>6

\* A read that goes up to h and returns.
LEMMA ReturnSteps ==
  ASSUME IInv, ~over, NEW h \in Nat, NEW e \in Nat,
         taken <= h, h <= arrived, start < h, start <= e, e <= h,
         e < h => stream[e + 1] = NUL,
         NEW text, text = SubSeq(stream, start + 1, e),
         Returns(text), taken' = h, UNCHANGED <<writer, arrived, over>>
  PROVE  IInv' /\ [AsChannel!CNext]_(AsChannel!channelVars)
<1>0. WireTypeOK /\ Laid /\ InOrder /\ Told
  BY DEF IInv
<1>1. PICK n \in Nat, l \in Nat :
        /\ n = Len(sent) /\ l = Len(stream)
        /\ sent \in Seq(Payloads) /\ stream \in Seq(Bytes) /\ ends \in [1..n -> 1..l]
        /\ arrived \in Nat /\ taken \in Nat /\ start \in Nat
        /\ start <= taken /\ taken <= arrived /\ arrived <= l
  BY <1>0, Positions
<1>2. UNCHANGED <<sent, stream, ends, link, arrived, over>>
  BY DEF writer
<1>3. /\ received' = IF cut THEN received ELSE Append(received, Deserialize(text))
      /\ start' = h /\ taken' = h /\ cut' = (cut \/ h \notin Boundaries)
  BY DEF Returns
<1>4. Boundaries' = Boundaries
  BY <1>2 DEF Boundaries
<1>b. (~cut' => ~cut /\ h \in Boundaries) /\ (cut' => cut \/ h \notin Boundaries)
  BY <1>3
<1>5. text \in Seq(Bytes)
  <2>1. PICK s \in Seq(Bytes), i \in Nat \ {0} : s = stream /\ i = start + 1 /\ e <= Len(s)
    <3>1. e <= l /\ start + 1 \in Nat \ {0}
      BY <1>1
    <3>2. QED
      BY <1>1, <3>1
  <2>2. SubSeq(s, i, e) \in Seq(Bytes)
    BY <2>1, Part
  <2>3. QED
    BY <2>1, <2>2
<1>6. Deserialize(text) \in Messages
  BY <1>5, DeserializeType
<1>7. WireTypeOK'
  <2>1. received' \in Seq(Messages)
    <3>1. received \in Seq(Messages)
      BY <1>0 DEF WireTypeOK
    <3>2. Append(received, Deserialize(text)) \in Seq(Messages)
      BY <1>6, <3>1, AppendProperties
    <3>3. QED
      BY <1>3, <3>1, <3>2
  <2>2. arrived' \in 0..Len(stream') /\ taken' \in 0..arrived' /\ start' \in 0..taken'
    BY <1>1, <1>2, <1>3
  <2>3. (taken' - start') % Buf = 0
    <3>1. taken' - start' = 0
      BY <1>3
    <3>2. 0 % Buf = 0
      BY Texts
    <3>3. QED
      BY <3>1, <3>2
  <2>4. cut' \in BOOLEAN
    BY <1>0, <1>3 DEF WireTypeOK
  <2>5. /\ sent' \in Seq(Payloads) /\ stream' \in Seq(Bytes) /\ ends' \in [1..Len(sent') -> 1..Len(stream')]
        /\ Len(stream') \in Boundaries' /\ link' \in {"open", "fin", "rst"} /\ over' \in BOOLEAN
    BY <1>0, <1>2, <1>4 DEF WireTypeOK
  <2>6. QED
    BY <2>1, <2>2, <2>3, <2>4, <2>5 DEF WireTypeOK
<1>8. Laid'
  BY <1>0, <1>2 DEF Laid, Begin
<1>9. NoZeros'
  BY <1>3 DEF NoZeros
<1>10. InOrder'
  BY <1>3, <1>4, <1>b DEF InOrder
<1>11. CASE cut
  <2>1. cut'
    BY <1>b, <1>11
  <2>2. Told'
    BY <2>1 DEF Told
  <2>3. AsChannel!AnythingGoes
    BY <1>11, <2>1 DEF AsChannel!AnythingGoes
  <2>4. QED
    BY <1>7, <1>8, <1>9, <1>10, <2>2, <2>3 DEF AsChannel!CNext, IInv
<1>12. CASE ~cut
  <2>1. start \in Boundaries
    BY <1>0, <1>12 DEF InOrder
  <2>2. PICK j, n0 \in Nat :
           /\ n0 = Len(sent) /\ j <= n0 /\ start \in Nat
           /\ start = (IF j = 0 THEN 0 ELSE ends[j])
           /\ \A i \in 1..n0 : ends[i] <= start <=> i <= j
           /\ Cardinality({ i \in 1..n0 : ends[i] <= start }) = j
    BY <1>0, <2>1, Place
  <2> DEFINE m == sent[j + 1]
  <2>3. /\ j + 1 \in 1..Len(sent)
        /\ Deserialize(text) \in AsChannel!Shortened(m)
        /\ h \in Boundaries => Deserialize(text) = AsChannel!Readable(m)
    <3>1. /\ IInv /\ ~cut /\ start < h /\ h <= Len(stream) /\ start <= e /\ e <= h
          /\ (e < h => stream[e + 1] = NUL)
          /\ start = (IF j = 0 THEN 0 ELSE ends[j]) /\ j <= Len(sent)
      BY <1>1, <1>12, <2>2
    <3>2. QED
      BY <3>1, ReadText
  <2>4. m \in Payloads /\ j < Len(sent)
    BY <1>1, <2>3
  <2> HIDE DEF m
  <2>5. TakenMessages = j
    BY <2>2 DEF TakenMessages
  <2> DEFINE rest == SubSeq(sent, j + 1, Len(sent))
  <2>6. /\ rest # << >> /\ Head(rest) = m
        /\ \A i \in (j + 1)..Len(sent) : SubSeq(sent, i + 1, Len(sent)) \in AsChannel!LeftAfterRead(rest)
    BY <1>1, <2>4, Rest DEF m
  <2>7. SubSeq(sent, TakenMessages + 1, Len(sent)) = rest
    BY <2>5
  <2> HIDE DEF rest
  <2>8. received' = Append(received, Deserialize(text))
    BY <1>3, <1>12
  <2>9. CASE h \in Boundaries
    <3>1. ~cut' /\ UNCHANGED cut
      <4>1. cut \in BOOLEAN /\ cut' \in BOOLEAN
        BY <1>0, <1>7 DEF WireTypeOK
      <4>2. ~cut'
        BY <1>b, <1>12, <2>9
      <4>3. QED
        BY <1>12, <4>1, <4>2
    <3>2. Deserialize(text) = AsChannel!Readable(m)
      BY <2>3, <2>9
    <3>3. Told'
      <4>1. received \in Seq(Messages) /\ AsChannel!Readable(m) \in Messages
        BY <1>0, <1>6, <3>2 DEF WireTypeOK
      <4>2. PICK r \in Nat : r = Len(received)
        BY <4>1
      <4>3. /\ Len(received') = r + 1 /\ received'[r + 1] = AsChannel!Readable(m)
            /\ \A i \in 1..r : received'[i] = received[i]
        BY <2>8, <3>2, <4>1, <4>2, AppendProperties
      <4>4. AsChannel!Readable(m) = NoMessage \/ AsChannel!Readable(m) \in Payloads
        BY <2>4 DEF AsChannel!Readable, AsChannel!NoMessage, NoMessage, AsChannel!NUL, NUL
      <4>5. \A i \in 1..r : received[i] = NoMessage \/ received[i] \in Payloads
        BY <1>0, <1>12, <4>2 DEF Told
      <4>6. ASSUME NEW i \in 1..(r + 1)
            PROVE  received'[i] = NoMessage \/ received'[i] \in Payloads
        <5>1. i = r + 1 \/ i \in 1..r
          OBVIOUS
        <5>2. QED
          BY <4>3, <4>4, <4>5, <5>1
      <4>7. QED
        BY <4>3, <4>6 DEF Told
    <3>4. PICK j2, n2 \in Nat :
           /\ n2 = Len(sent) /\ j2 <= n2 /\ h \in Nat
           /\ h = (IF j2 = 0 THEN 0 ELSE ends[j2])
           /\ \A i \in 1..n2 : ends[i] <= h <=> i <= j2
           /\ Cardinality({ i \in 1..n2 : ends[i] <= h }) = j2
      BY <1>0, <2>9, Place
    <3>5. j2 \in (j + 1)..Len(sent)
      <4>1. j2 # 0 /\ h = ends[j2]
        BY <1>1, <3>4
      <4>2. j2 \in 1..n2
        BY <3>4, <4>1
      <4>3. ~(ends[j2] <= start)
        BY <1>1, <4>1
      <4>4. ~(j2 <= j)
        BY <2>2, <3>4, <4>2, <4>3
      <4>5. QED
        BY <2>2, <3>4, <4>4
    <3>6. TakenMessages' = j2
      <4>1. TakenMessages' = Cardinality({ i \in 1..Len(sent') : ends'[i] <= start' })
        BY DEF TakenMessages
      <4>2. QED
        BY <1>2, <1>3, <3>4, <4>1
    <3>7. SubSeq(sent', TakenMessages' + 1, Len(sent')) \in AsChannel!LeftAfterRead(rest)
      BY <1>2, <2>6, <3>5, <3>6
    <3>8. AsChannel!Take
      BY <1>2, <1>12, <2>6, <2>7, <2>8, <3>1, <3>2, <3>7 DEF AsChannel!Take
    <3>9. QED
      BY <1>7, <1>8, <1>9, <1>10, <3>3, <3>8 DEF AsChannel!CNext, IInv
  <2>10. CASE h \notin Boundaries
    <3>1. cut' = TRUE
      <4>1. cut'
        BY <1>b, <2>10
      <4>2. cut' \in BOOLEAN
        BY <1>7 DEF WireTypeOK
      <4>3. QED
        BY <4>1, <4>2
    <3>2. Told'
      BY <3>1 DEF Told
    <3>3. AsChannel!TakePart
      BY <1>2, <1>12, <2>3, <2>6, <2>7, <2>8, <3>1 DEF AsChannel!TakePart
    <3>4. QED
      BY <1>7, <1>8, <1>9, <1>10, <3>2, <3>3 DEF AsChannel!CNext, IInv
  <2>11. QED
    BY <2>9, <2>10
<1>13. QED
  BY <1>11, <1>12

\* One full buffer more leaves full buffers.
LEMMA OneMore ==
  ASSUME NEW a \in Nat, NEW b \in Nat \ {0}, a % b = 0
  PROVE  (a + b) % b = 0
<1>1. PICK q \in Nat : a = b * q
  OBVIOUS
<1>2. b * q + b = b * (q + 1)
  OBVIOUS
<1>3. a + b = b * (q + 1) /\ q + 1 \in Nat
  BY <1>1, <1>2
<1>4. \A x \in Nat, y \in Nat : x = b * y => x % b = 0
  OBVIOUS
<1>5. a + b \in Nat
  OBVIOUS
<1>6. QED
  BY <1>3, <1>4, <1>5

\* A chunk that fills the buffer is read on; another one is the last.
LEMMA ReceivesSteps ==
  ASSUME IInv, Receives
  PROVE  IInv' /\ [AsChannel!CNext]_(AsChannel!channelVars)
<1>0. WireTypeOK /\ Laid /\ InOrder /\ Told /\ NoZeros
  BY DEF IInv
<1>1. PICK n \in Nat, l \in Nat :
        /\ n = Len(sent) /\ l = Len(stream)
        /\ sent \in Seq(Payloads) /\ stream \in Seq(Bytes) /\ ends \in [1..n -> 1..l]
        /\ arrived \in Nat /\ taken \in Nat /\ start \in Nat
        /\ start <= taken /\ taken <= arrived /\ arrived <= l
  BY <1>0, Positions
<1>2. ~over /\ taken < arrived /\ UNCHANGED <<writer, arrived, over>>
  BY DEF Receives
<1>3. PICK h, e \in Nat :
           /\ taken < h /\ h <= arrived /\ h <= taken + Buf /\ taken <= e /\ e <= h
           /\ taken + Len(Chunk) = h /\ taken + Len(CString) = e /\ Len(CString) \in Nat
           /\ SoFar \o CString = SubSeq(stream, start + 1, e)
           /\ \A p \in (taken + 1)..e : stream[p] # NUL
           /\ e < h => stream[e + 1] = NUL
  BY <1>0, <1>2, ChunkFacts
<1>4. taken' = h
  BY <1>3 DEF Receives
<1>5. CASE Len(CString) = Buf
  <2>1. UNCHANGED <<sent, stream, ends, link, arrived, start, received, cut, over>>
    BY <1>5 DEF Receives, writer
  <2>2. e = h /\ h = taken + Buf
    BY <1>1, <1>3, <1>5, Texts
  <2>3. WireTypeOK'
    <3>1. taken' \in 0..arrived /\ start \in 0..taken'
      BY <1>1, <1>3, <1>4
    <3>2. (taken' - start) % Buf = 0
      <4>1. PICK a \in Nat : a = taken - start /\ a % Buf = 0
        <5>1. taken - start \in Nat /\ (taken - start) % Buf = 0
          BY <1>0, <1>1 DEF WireTypeOK
        <5>2. QED
          BY <5>1
      <4>2. (a + Buf) % Buf = 0
        <5>1. PICK b \in Nat \ {0} : b = Buf
          BY Texts
        <5>2. a % b = 0
          BY <4>1, <5>1
        <5>3. (a + b) % b = 0
          BY <5>2, OneMore
        <5>4. QED
          BY <5>1, <5>3
      <4>3. taken' - start = a + Buf
        BY <1>1, <1>4, <2>2, <4>1, Texts
      <4>4. QED
        BY <4>2, <4>3
    <3>3. Boundaries' = Boundaries
      BY <2>1 DEF Boundaries
    <3>4. QED
      BY <1>0, <2>1, <3>1, <3>2, <3>3 DEF WireTypeOK
  <2>4. Laid'
    BY <1>0, <2>1 DEF Laid, Begin
  <2>5. NoZeros'
    <3>1. ASSUME NEW p \in (start + 1)..h
          PROVE  stream[p] # NUL
      <4>1. p \in (start + 1)..taken \/ p \in (taken + 1)..e
        BY <1>1, <2>2
      <4>2. QED
        BY <1>0, <1>3, <4>1 DEF NoZeros
    <3>2. QED
      BY <1>4, <2>1, <3>1 DEF NoZeros
  <2>6. InOrder' /\ Told'
    BY <1>0, <2>1 DEF InOrder, Told, Boundaries
  <2>7. UNCHANGED AsChannel!channelVars
    BY <2>1 DEF AsChannel!channelVars, TakenMessages
  <2>8. QED
    BY <2>3, <2>4, <2>5, <2>6, <2>7 DEF IInv
<1>6. CASE Len(CString) # Buf
  <2> DEFINE text == SoFar \o CString
  <2>1. Returns(text) /\ text = SubSeq(stream, start + 1, e)
    BY <1>3, <1>6 DEF Receives
  <2> HIDE DEF text
  <2>2. taken <= h /\ start < h /\ start <= e
    BY <1>1, <1>3
  <2>3. QED
    BY <1>2, <1>3, <1>4, <2>1, <2>2, ReturnSteps
<1>7. QED
  BY <1>5, <1>6

\* The end of the stream ends a read, or the reader.
LEMMA MeetsEndSteps ==
  ASSUME IInv, MeetsEnd
  PROVE  IInv' /\ [AsChannel!CNext]_(AsChannel!channelVars)
<1>0. WireTypeOK /\ Laid /\ InOrder /\ Told /\ NoZeros
  BY DEF IInv
<1>1. PICK n \in Nat, l \in Nat :
        /\ n = Len(sent) /\ l = Len(stream)
        /\ sent \in Seq(Payloads) /\ stream \in Seq(Bytes) /\ ends \in [1..n -> 1..l]
        /\ arrived \in Nat /\ taken \in Nat /\ start \in Nat
        /\ start <= taken /\ taken <= arrived /\ arrived <= l
  BY <1>0, Positions
<1>2. /\ ~over /\ taken = Len(stream) /\ taken' = taken /\ Returns(SoFar)
      /\ over' = (SoFar = << >>) /\ UNCHANGED <<writer, arrived>>
  BY DEF MeetsEnd
<1>3. taken \in Boundaries
  BY <1>0, <1>2 DEF WireTypeOK
<1>4. /\ start + 1 <= taken + 1 => Len(SoFar) = taken + 1 - (start + 1)
      /\ SoFar \in Seq(Bytes) /\ SoFar = SubSeq(stream, start + 1, taken)
  <2>1. PICK s \in Seq(Bytes), i \in Nat \ {0}, j \in Nat :
          s = stream /\ i = start + 1 /\ j = taken /\ j <= Len(s)
    BY <1>1
  <2>2. SubSeq(s, i, j) \in Seq(Bytes) /\ (i <= j + 1 => Len(SubSeq(s, i, j)) = j + 1 - i)
    BY <2>1, Part
  <2>3. QED
    BY <2>1, <2>2 DEF SoFar
<1>5. CASE SoFar = << >>
  <2>1. start = taken
    <3>1. Len(SoFar) = 0
      BY <1>5
    <3>2. QED
      BY <1>1, <1>4, <3>1
  <2>2. Deserialize(SoFar) = NoMessage
    <3>1. ~IsMessage(SoFar)
      BY <1>5 DEF IsMessage
    <3>2. QED
      BY <3>1 DEF Deserialize
  <2>3. UNCHANGED <<sent, stream, ends, link, arrived, taken, start>> /\ over' = TRUE
    BY <1>2, <1>5, <2>1 DEF Returns, writer
  <2>4. /\ received' = IF cut THEN received ELSE Append(received, NoMessage)
        /\ cut' = cut
    <3>1. cut' = (cut \/ taken' \notin Boundaries) /\ taken' \in Boundaries
      BY <1>2, <1>3 DEF Returns
    <3>2. cut \in BOOLEAN
      BY <1>0 DEF WireTypeOK
    <3>3. cut' = cut
      BY <3>1, <3>2
    <3>4. QED
      BY <1>2, <2>2, <3>3 DEF Returns
  <2>5. NoMessage \in Messages
    BY DEF NoMessage, Messages, Bytes, NUL
  <2>6. received \in Seq(Messages)
    BY <1>0 DEF WireTypeOK
  <2>7. received' \in Seq(Messages)
    <3>1. Append(received, NoMessage) \in Seq(Messages)
      BY <2>5, <2>6, AppendProperties
    <3>2. QED
      BY <2>4, <2>6, <3>1
  <2>8. WireTypeOK'
    <3>1. Boundaries' = Boundaries
      BY <2>3 DEF Boundaries
    <3>2. QED
      BY <1>0, <2>3, <2>4, <2>7, <3>1 DEF WireTypeOK
  <2>9. Laid' /\ NoZeros' /\ InOrder'
    BY <1>0, <2>3, <2>4 DEF Laid, Begin, NoZeros, InOrder, Boundaries
  <2>10. Told'
    <3>1. SUFFICES ASSUME ~cut
                   PROVE  \A i \in 1..Len(received') : received'[i] = NoMessage \/ received'[i] \in Payloads
      BY <2>4 DEF Told
    <3>2. received' = Append(received, NoMessage)
      BY <2>4, <3>1
    <3>3. PICK r \in Nat : r = Len(received)
      BY <2>6
    <3>4. /\ Len(received') = r + 1 /\ received'[r + 1] = NoMessage
          /\ \A i \in 1..r : received'[i] = received[i]
      BY <2>5, <2>6, <3>2, <3>3, AppendProperties
    <3>5. \A i \in 1..r : received[i] = NoMessage \/ received[i] \in Payloads
      BY <1>0, <3>1, <3>3 DEF Told
    <3>6. ASSUME NEW i \in 1..(r + 1)
          PROVE  received'[i] = NoMessage \/ received'[i] \in Payloads
      <4>1. i = r + 1 \/ i \in 1..r
        OBVIOUS
      <4>2. QED
        BY <3>4, <3>5, <4>1
    <3>7. QED
      BY <3>4, <3>6
  <2>11. AsChannel!CNext
    <3>1. CASE cut
      BY <2>4, <3>1 DEF AsChannel!CNext, AsChannel!AnythingGoes
    <3>2. CASE ~cut
      <4>1. SubSeq(sent', TakenMessages' + 1, Len(sent')) = SubSeq(sent, TakenMessages + 1, Len(sent))
        BY <2>3 DEF TakenMessages
      <4>2. received' = Append(received, NoMessage)
        BY <2>4, <3>2
      <4>3. AsChannel!NoMessage = NoMessage
        BY DEF AsChannel!NoMessage, NoMessage, AsChannel!NUL, NUL
      <4>4. AsChannel!End
        BY <1>2, <2>3, <2>4, <4>1, <4>2, <4>3 DEF AsChannel!End
      <4>5. QED
        BY <4>4 DEF AsChannel!CNext
    <3>3. QED
      BY <3>1, <3>2
  <2>12. QED
    BY <2>8, <2>9, <2>10, <2>11 DEF IInv
<1>6. CASE SoFar # << >>
  <2>1. start < taken
    <3>1. Len(SoFar) # 0
      BY <1>4, <1>6, EmptySeq
    <3>2. QED
      BY <1>1, <1>4, <3>1
  <2>2. over' = over
    <3>1. over \in BOOLEAN
      BY <1>0 DEF WireTypeOK
    <3>2. QED
      BY <1>2, <1>6, <3>1
  <2> DEFINE text == SoFar
  <2>3. Returns(text) /\ text = SubSeq(stream, start + 1, taken)
    BY <1>2, <1>4
  <2> HIDE DEF text
  <2>4. PICK h \in Nat : h = taken
    BY <1>1
  <2>5. /\ taken <= h /\ h <= arrived /\ start < h /\ start <= h /\ h <= h /\ ~(h < h)
        /\ text = SubSeq(stream, start + 1, h) /\ taken' = h /\ UNCHANGED <<writer, arrived, over>>
    BY <1>1, <1>2, <2>1, <2>2, <2>3, <2>4
  <2>6. QED
    BY <1>2, <2>3, <2>5, ReturnSteps
<1>7. QED
  BY <1>5, <1>6

-----------------------------------------------------------------------------
(* The text of an error, and what its parser leaves of it. *)

\* What is behind the first k bytes of a text.
Behind(s, k) == SubSeq(s, k + 1, Len(s))

LEMMA BehindJoined ==
  ASSUME NEW f \in Seq(Bytes), NEW g \in Seq(Bytes), NEW k \in Nat
  PROVE  Behind(f \o g, Len(f) + k) = Behind(g, k)
<1>1. PICK a \in Nat, b \in Nat : a = Len(f) /\ b = Len(g)
  OBVIOUS
<1> DEFINE s == f \o g
<1>2. s \in Seq(Bytes) /\ Len(s) = a + b
  BY <1>1, ConcatProperties
<1>3. CASE k < b
  <2>1. /\ (a + k) + 1 \in (a + 1)..(a + b) /\ a + b \in (a + 1)..(a + b)
        /\ ((a + k) + 1) - a = k + 1 /\ (a + b) - a = b
    BY <1>3
  <2>2. SubSeq(f \o g, (a + k) + 1, a + b) = SubSeq(g, ((a + k) + 1) - a, (a + b) - a)
    BY <1>1, <2>1, SubSeqOfConcat2
  <2>3. QED
    BY <1>1, <1>2, <2>1, <2>2 DEF Behind
<1>4. CASE ~(k < b)
  <2>1. a + b < (a + k) + 1 /\ b < k + 1
    BY <1>4
  <2>2. SubSeq(s, (a + k) + 1, a + b) = << >>
    BY <2>1, SubSeqEmpty
  <2>3. SubSeq(g, k + 1, b) = << >>
    BY <2>1, SubSeqEmpty
  <2>4. QED
    BY <1>1, <1>2, <2>2, <2>3 DEF Behind
<1>5. QED
  BY <1>3, <1>4

\* Behind no byte is the whole text.
LEMMA BehindNone ==
  ASSUME NEW g \in Seq(Bytes)
  PROVE  Behind(g, 0) = g
BY SubSeqFull DEF Behind

\* A field that none of the bytes is in ends where one of them comes first.
LEMMA FieldEnds ==
  ASSUME NEW f \in Seq(Bytes), NEW g \in Seq(Bytes), NEW B, NEW k \in Nat, g # << >>,
         g[1] \in B, \A i \in 1..Len(f) : f[i] \notin B
  PROVE  Field(f \o g, B) = f /\ Erase(f \o g, B, k) = Behind(g, k)
<1>1. PICK a \in Nat, b \in Nat : a = Len(f) /\ b = Len(g) /\ b > 0
  <2>1. Len(g) # 0
    BY EmptySeq
  <2>2. Len(f) \in Nat /\ Len(g) \in Nat
    OBVIOUS
  <2>3. Len(g) > 0
    BY <2>1, <2>2
  <2>4. QED
    BY <2>2, <2>3
<1> DEFINE s == f \o g
<1>2. /\ s \in Seq(Bytes) /\ Len(s) = a + b
      /\ \A i \in 1..a : s[i] = f[i]
      /\ \A i \in 1..b : s[i + a] = g[i]
  BY <1>1, Joined
<1>3. Find(s, B) = a + 1
  <2>1. a + 1 \in 1..(a + b) /\ 1 + a = a + 1 /\ 1 \in 1..b
    BY <1>1
  <2>2. s[a + 1] \in B
    BY <1>2, <2>1
  <2>3. ASSUME NEW i \in 1..(a + b), i < a + 1
        PROVE  s[i] \notin B
    <3>1. i \in 1..a
      BY <2>3
    <3>2. QED
      BY <1>1, <1>2, <3>1
  <2>4. PICK p \in 1..Len(s) : p = a + 1
    BY <1>2, <2>1
  <2>5. s[p] \in B /\ \A i \in 1..Len(s) : i < p => s[i] \notin B
    BY <1>2, <2>2, <2>3, <2>4
  <2> HIDE DEF s
  <2>6. Find(s, B) = p
    BY <1>2, <2>5, FindFirst
  <2>7. QED
    BY <2>4, <2>6
<1>4. Field(s, B) = f
  <2>1. Field(s, B) = SubSeq(s, 1, a)
    <3>1. (a + 1) - 1 = a
      OBVIOUS
    <3>2. QED
      BY <1>3, <3>1 DEF Field
  <2>2. CASE a = 0
    <3>1. f = << >>
      <4>1. Len(f) = 0
        BY <1>1, <2>2
      <4>2. QED
        BY <4>1, EmptySeq
    <3>2. SubSeq(s, 1, a) = << >>
      BY <2>2, SubSeqEmpty
    <3>3. QED
      BY <2>1, <3>1, <3>2
  <2>3. CASE a # 0
    <3>1. 1 \in 1..a /\ a \in 1..a
      BY <2>3
    <3>2. SubSeq(f \o g, 1, a) = SubSeq(f, 1, a)
      BY <1>1, <3>1, SubSeqOfConcat1
    <3>3. SubSeq(f, 1, a) = f
      BY <1>1, SubSeqFull
    <3>4. QED
      BY <2>1, <3>2, <3>3
  <2>4. QED
    BY <2>2, <2>3
<1>5. Erase(s, B, k) = Behind(g, k)
  <2>1. Erase(s, B, k) = SubSeq(s, (a + 1) + k, Len(s))
    <3>1. ~(a + 1 > a + b)
      BY <1>1
    <3>2. QED
      BY <1>2, <1>3, <3>1 DEF Erase
  <2>2. (a + 1) + k = (a + k) + 1
    OBVIOUS
  <2>3. Erase(s, B, k) = Behind(f \o g, a + k)
    BY <2>1, <2>2 DEF Behind
  <2>4. QED
    BY <1>1, <2>3, BehindJoined
<1>6. QED
  BY <1>4, <1>5

\* What an error is read back as: of its texts what is before the first dot or end of
\* line, and no extra text where there is one in the message.
UpToDot(s) == Field(s, {EOL, Dot})
Shown(e) ==
  [e EXCEPT !.msg = UpToDot(e.msg),
            !.extra = IF UpToDot(e.msg) = e.msg THEN UpToDot(e.extra) ELSE << >>]

LEMMA PlainIsWhole ==
  ASSUME NEW s \in Seq(Bytes), Plain(s)
  PROVE  UpToDot(s) = s
<1>1. \A i \in 1..Len(s) : s[i] \notin {EOL, Dot}
  BY DEF Plain
<1> DEFINE B == {EOL, Dot}
<1> HIDE DEF B
<1>2. Find(s, B) = Len(s) + 1
  BY <1>1, FindNone DEF B
<1>3. (Len(s) + 1) - 1 = Len(s) /\ SubSeq(s, 1, Len(s)) = s
  BY SubSeqFull
<1>4. QED
  BY <1>2, <1>3 DEF UpToDot, Field, B

\* A closing line adds nothing to what is read up to a dot or an end of line.
LEMMA UpToDotClosed ==
  ASSUME NEW x \in Seq(Bytes), NEW c \in Seq(Bytes), c # << >>, c[1] = EOL
  PROVE  UpToDot(x \o c) = UpToDot(x)
<1> DEFINE B == {EOL, Dot}
           s == x \o c
<1>1. PICK a \in Nat, b \in Nat : a = Len(x) /\ b = Len(c)
  OBVIOUS
<1>2. /\ s \in Seq(Bytes) /\ Len(s) = a + b
      /\ \A i \in 1..a : s[i] = x[i]
  BY <1>1, Joined
<1>3. CASE \A i \in 1..a : x[i] \notin B
  <2>1. UpToDot(s) = x
    <3>1. c[1] \in B /\ \A i \in 1..Len(x) : x[i] \notin B
      BY <1>1, <1>3
    <3> HIDE DEF B
    <3>2. Field(x \o c, B) = x
      <4>1. 0 \in Nat
        OBVIOUS
      <4>2. QED
        BY <3>1, <4>1, FieldEnds
    <3>3. QED
      BY <3>2 DEF UpToDot, B
  <2>2. UpToDot(x) = x
    <3>1. \A i \in 1..Len(x) : x[i] \notin B
      BY <1>1, <1>3
    <3> HIDE DEF B
    <3>2. Find(x, B) = Len(x) + 1
      BY <3>1, FindNone
    <3>3. (Len(x) + 1) - 1 = Len(x)
      OBVIOUS
    <3>4. SubSeq(x, 1, Len(x)) = x
      BY SubSeqFull
    <3>5. QED
      BY <3>2, <3>3, <3>4 DEF UpToDot, Field, B
  <2>3. QED
    BY <2>1, <2>2
<1>4. CASE ~(\A i \in 1..a : x[i] \notin B)
  <2> HIDE DEF B
  <2>1. /\ Find(x, B) \in 1..(a + 1) /\ \A k \in 1..a : k < Find(x, B) => x[k] \notin B
        /\ Find(x, B) <= a => x[Find(x, B)] \in B
    BY <1>1, FindResult
  <2>2. PICK p \in 1..(a + 1) :
          /\ p = Find(x, B) /\ \A k \in 1..a : k < p => x[k] \notin B
          /\ p <= a => x[p] \in B
    BY <2>1
  <2>3. p \in 1..a
    <3>1. p # a + 1
      <4>1. SUFFICES ASSUME p = a + 1
                     PROVE  \A i \in 1..a : x[i] \notin B
        BY <1>4
      <4>2. \A i \in 1..a : i < p
        BY <4>1
      <4>3. QED
        BY <2>2, <4>2
    <3>2. QED
      BY <3>1
  <2>4. Find(s, B) = p
    <3>1. s[p] \in B
      BY <1>2, <2>2, <2>3
    <3>2. ASSUME NEW k \in 1..(a + b), k < p
          PROVE  s[k] \notin B
      <4>1. k \in 1..a
        BY <2>3, <3>2
      <4>2. QED
        BY <1>2, <2>2, <3>2, <4>1
    <3>3. p \in 1..Len(s) /\ \A k \in 1..Len(s) : k < p => s[k] \notin B
      BY <1>2, <2>3, <3>2
    <3> HIDE DEF s
    <3>4. QED
      BY <1>2, <3>1, <3>3, FindFirst
  <2>5. PICK q \in Nat : q = p - 1 /\ q < a
    <3>1. p - 1 \in Nat /\ p - 1 < a
      BY <2>3
    <3>2. QED
      BY <3>1
  <2>6. UpToDot(s) = SubSeq(s, 1, q) /\ UpToDot(x) = SubSeq(x, 1, q)
    BY <2>2, <2>4, <2>5 DEF UpToDot, Field, B
  <2>7. SubSeq(s, 1, q) = SubSeq(x, 1, q)
    <3>1. CASE q = 0
      BY <3>1, SubSeqEmpty
    <3>2. CASE q # 0
      <4>1. 1 \in 1..Len(x) /\ q \in 1..Len(x)
        BY <1>1, <2>5, <3>2
      <4>2. QED
        BY <4>1, SubSeqOfConcat1
    <3>3. QED
      BY <3>1, <3>2
  <2>8. QED
    BY <2>6, <2>7
<1>5. QED
  BY <1>3, <1>4

\* Three texts one after the other.
LEMMA Regrouped ==
  ASSUME NEW s \in Seq(Bytes), NEW t \in Seq(Bytes), NEW u \in Seq(Bytes)
  PROVE  s \o t \in Seq(Bytes) /\ (s \o t) \o u = s \o (t \o u)
BY ConcatAssociative, ConcatProperties

\* What an error is read back as.
LEMMA ErrorTextIsRead ==
  ASSUME NEW number \in Nat, NEW symbol \in Seq(Bytes), NEW msg \in Seq(Bytes),
         NEW extra \in Seq(Bytes), NEW s
  PROVE  /\ s = Decimal(number) \o <<EOL>> \o symbol \o <<EOL>>
                  \o msg \o <<EOL, Dot, EOL>> \o extra \o <<EOL, Dot, EOL>>
         /\ \A i \in 1..Len(symbol) : symbol[i] # EOL
         /\ \A i \in 1..Len(msg) : msg[i] # EOL /\ (msg[i] = Dot => i = Len(msg))
         => DeserializeError(s) =
              [number |-> number, symbol |-> symbol, msg |-> UpToDot(msg),
               extra |-> IF UpToDot(msg) = msg THEN UpToDot(extra) ELSE << >>]
<1>0. SUFFICES ASSUME s = Decimal(number) \o <<EOL>> \o symbol \o <<EOL>>
                            \o msg \o <<EOL, Dot, EOL>> \o extra \o <<EOL, Dot, EOL>>,
                      \A i \in 1..Len(symbol) : symbol[i] # EOL,
                      \A i \in 1..Len(msg) : msg[i] # EOL /\ (msg[i] = Dot => i = Len(msg))
               PROVE  DeserializeError(s) =
                        [number |-> number, symbol |-> symbol, msg |-> UpToDot(msg),
                         extra |-> IF UpToDot(msg) = msg THEN UpToDot(extra) ELSE << >>]
  OBVIOUS
<1> DEFINE D == Decimal(number)
           E == <<EOL>>
           C == <<EOL, Dot, EOL>>
           h3 == extra \o C
           h2 == C \o h3
           messages == msg \o h2
           g2 == E \o messages
           symbols == symbol \o g2
           g1 == E \o symbols
           text == D \o g1
<1>1. /\ number \in Nat /\ symbol \in Seq(Bytes) /\ msg \in Seq(Bytes) /\ extra \in Seq(Bytes)
  OBVIOUS
<1>2. /\ \A i \in 1..Len(symbol) : symbol[i] \notin {EOL}
      /\ \A i \in 1..Len(msg) : msg[i] # EOL /\ (msg[i] = Dot => i = Len(msg))
  BY <1>0
<1>3. D \in Seq(Bytes) /\ \A i \in 1..Len(D) : D[i] \notin {EOL}
  <2>1. D \in Seq(Digits)
    BY <1>1, DecimalDigits
  <2>2. \A x \in Digits : x \notin {EOL}
    BY DEF Digits, EOL
  <2>3. D \in Seq(Bytes)
    BY <1>1, DecimalUnfolds
  <2> HIDE DEF D
  <2>4. QED
    BY <2>1, <2>2, <2>3
<1>4. /\ E \in Seq(Bytes) /\ Len(E) = 1 /\ E[1] = EOL /\ E # << >>
      /\ C \in Seq(Bytes) /\ Len(C) = 3 /\ C[1] = EOL /\ C # << >>
  BY DEF EOL, Dot, Bytes
<1>5. /\ h3 \in Seq(Bytes) /\ h2 \in Seq(Bytes) /\ messages \in Seq(Bytes) /\ g2 \in Seq(Bytes)
      /\ symbols \in Seq(Bytes) /\ g1 \in Seq(Bytes) /\ text \in Seq(Bytes)
  <2> HIDE DEF D, E, C
  <2>1. h3 \in Seq(Bytes)
    BY <1>1, <1>4, ConcatProperties
  <2> HIDE DEF h3
  <2>2. h2 \in Seq(Bytes)
    BY <1>4, <2>1, ConcatProperties
  <2> HIDE DEF h2
  <2>3. messages \in Seq(Bytes)
    BY <1>1, <2>2, ConcatProperties
  <2> HIDE DEF messages
  <2>4. g2 \in Seq(Bytes)
    BY <1>4, <2>3, ConcatProperties
  <2> HIDE DEF g2
  <2>5. symbols \in Seq(Bytes)
    BY <1>1, <2>4, ConcatProperties
  <2> HIDE DEF symbols
  <2>6. g1 \in Seq(Bytes)
    BY <1>4, <2>5, ConcatProperties
  <2> HIDE DEF g1
  <2>7. text \in Seq(Bytes)
    BY <1>3, <2>6, ConcatProperties
  <2>8. QED
    BY <2>1, <2>2, <2>3, <2>4, <2>5, <2>6, <2>7
<1>6. s = text
  <2>1. s = D \o E \o symbol \o E \o msg \o C \o extra \o C
    BY <1>0
  <2> HIDE DEF D, E, C
  <2> DEFINE a1 == D \o E
             a2 == a1 \o symbol
             a3 == a2 \o E
             a4 == a3 \o msg
             a5 == a4 \o C
             a6 == a5 \o extra
  <2> HIDE DEF h3, h2, messages, g2, symbols
  <2>2. a1 \in Seq(Bytes) /\ a1 \o symbols = D \o g1
    <3>1. D \in Seq(Bytes) /\ E \in Seq(Bytes) /\ symbols \in Seq(Bytes)
      BY <1>3, <1>4, <1>5
    <3>2. QED
      BY <3>1, Regrouped, SMTT(30)
  <2> HIDE DEF a1
  <2>3. a2 \in Seq(Bytes) /\ a2 \o g2 = a1 \o symbols
    <3>1. a1 \in Seq(Bytes) /\ symbol \in Seq(Bytes) /\ g2 \in Seq(Bytes)
      BY <1>1, <1>5, <2>2
    <3>2. QED
      BY <3>1, Regrouped, SMTT(30) DEF symbols
  <2> HIDE DEF a2
  <2>4. a3 \in Seq(Bytes) /\ a3 \o messages = a2 \o g2
    <3>1. a2 \in Seq(Bytes) /\ E \in Seq(Bytes) /\ messages \in Seq(Bytes)
      BY <1>4, <1>5, <2>3
    <3>2. QED
      BY <3>1, Regrouped, SMTT(30) DEF g2
  <2> HIDE DEF a3
  <2>5. a4 \in Seq(Bytes) /\ a4 \o h2 = a3 \o messages
    <3>1. a3 \in Seq(Bytes) /\ msg \in Seq(Bytes) /\ h2 \in Seq(Bytes)
      BY <1>1, <1>5, <2>4
    <3>2. QED
      BY <3>1, Regrouped, SMTT(30) DEF messages
  <2> HIDE DEF a4
  <2>6. a5 \in Seq(Bytes) /\ a5 \o h3 = a4 \o h2
    <3>1. a4 \in Seq(Bytes) /\ C \in Seq(Bytes) /\ h3 \in Seq(Bytes)
      BY <1>4, <1>5, <2>5
    <3>2. QED
      BY <3>1, Regrouped, SMTT(30) DEF h2
  <2> HIDE DEF a5
  <2>7. a6 \o C = a5 \o h3
    BY <1>1, <1>4, <2>6, Regrouped, ZenonT(40) DEF h3
  <2>8. s = a6 \o C
    BY <2>1 DEF a1, a2, a3, a4, a5
  <2>9. text = D \o g1
    OBVIOUS
  <2> HIDE DEF text, a6, g1
  <2>10. QED
    BY <2>2, <2>3, <2>4, <2>5, <2>6, <2>7, <2>8, <2>9
<1> HIDE DEF D, E, C, h3, h2, messages, g2, symbols, g1, text
<1>7. \A x \in Seq(Bytes) : Behind(E \o x, 1) = x /\ E \o x # << >> /\ (E \o x)[1] = EOL
  <2>1. ASSUME NEW x \in Seq(Bytes)
        PROVE  Behind(E \o x, 1) = x /\ E \o x # << >> /\ (E \o x)[1] = EOL
    <3>1. Behind(E \o x, Len(E) + 0) = Behind(x, 0)
      <4>1. E \in Seq(Bytes) /\ x \in Seq(Bytes) /\ 0 \in Nat
        BY <1>4
      <4>2. QED
        BY <4>1, BehindJoined
    <3>2. Behind(E \o x, 1) = x
      BY <1>4, <3>1, BehindNone
    <3>3. E \o x # << >>
      BY <1>4, ConcatEqualIffEmpty
    <3>4. 1 \in 1..1 /\ \A k \in 1..1 : (E \o x)[k] = E[k]
      BY <1>4, Joined
    <3>5. QED
      BY <1>4, <3>2, <3>3, <3>4
  <2>2. QED
    BY <2>1
<1>8. Field(text, {EOL}) = D /\ Erase(text, {EOL}, 1) = symbols
  <2>1. g1 # << >> /\ g1[1] \in {EOL} /\ Behind(g1, 1) = symbols
    BY <1>5, <1>7 DEF g1
  <2>2. Field(D \o g1, {EOL}) = D /\ Erase(D \o g1, {EOL}, 1) = Behind(g1, 1)
    <3> DEFINE B == {EOL}
    <3>1. D \in Seq(Bytes) /\ g1 \in Seq(Bytes) /\ g1 # << >> /\ 1 \in Nat
      BY <1>3, <1>5, <2>1
    <3>2. g1[1] \in B /\ \A i \in 1..Len(D) : D[i] \notin B
      BY <1>3, <1>5, <2>1
    <3> HIDE DEF B
    <3>3. Field(D \o g1, B) = D /\ Erase(D \o g1, B, 1) = Behind(g1, 1)
      BY <3>1, <3>2, FieldEnds
    <3>4. QED
      BY <3>3 DEF B
  <2>3. QED
    BY <2>1, <2>2 DEF text
<1>9. Field(symbols, {EOL}) = symbol /\ Erase(symbols, {EOL}, 1) = messages
  <2>1. g2 # << >> /\ g2[1] \in {EOL} /\ Behind(g2, 1) = messages
    BY <1>5, <1>7 DEF g2
  <2>2. Field(symbol \o g2, {EOL}) = symbol /\ Erase(symbol \o g2, {EOL}, 1) = Behind(g2, 1)
    <3> DEFINE B == {EOL}
    <3>1. symbol \in Seq(Bytes) /\ g2 \in Seq(Bytes) /\ g2 # << >> /\ 1 \in Nat
      BY <1>1, <1>2, <1>5, <2>1
    <3>2. g2[1] \in B /\ \A i \in 1..Len(symbol) : symbol[i] \notin B
      BY <1>1, <1>2, <1>5, <2>1
    <3> HIDE DEF B
    <3>3. Field(symbol \o g2, B) = symbol /\ Erase(symbol \o g2, B, 1) = Behind(g2, 1)
      BY <3>1, <3>2, FieldEnds
    <3>4. QED
      BY <3>3 DEF B
  <2>3. QED
    BY <2>1, <2>2 DEF symbols
<1>10. Number(D).value = number
  BY <1>1, NumberOfDecimal DEF D
<1>11. h2 # << >> /\ h2[1] = EOL /\ \A k \in Nat : Behind(h2, 3 + k) = Behind(h3, k)
  <2>1. C \o h3 # << >>
    BY <1>4, <1>5, ConcatEqualIffEmpty
  <2>2. 1 \in 1..3 /\ \A k \in 1..3 : (C \o h3)[k] = C[k]
    <3>1. C \in Seq(Bytes) /\ h3 \in Seq(Bytes)
      BY <1>4, <1>5
    <3>2. \A k \in 1..Len(C) : (C \o h3)[k] = C[k]
      BY <3>1, Joined
    <3>3. 1 \in 1..3
      OBVIOUS
    <3>4. QED
      BY <1>4, <3>2, <3>3
  <2>3. \A k \in Nat : Behind(C \o h3, Len(C) + k) = Behind(h3, k)
    BY <1>4, <1>5, BehindJoined
  <2>4. QED
    BY <1>4, <2>1, <2>2, <2>3 DEF h2
<1> DEFINE extras == Erase(messages, {EOL, Dot}, 3)
<1>12. DeserializeError(text) =
         [number |-> number, symbol |-> symbol,
          msg |-> Field(messages, {EOL, Dot}), extra |-> Field(extras, {EOL, Dot})]
  BY <1>8, <1>9, <1>10 DEF DeserializeError
<1>13. CASE \A i \in 1..Len(msg) : msg[i] # Dot
  <2>1. Field(messages, {EOL, Dot}) = msg /\ extras = Behind(h2, 3)
    <3>1. h2[1] \in {EOL, Dot} /\ \A i \in 1..Len(msg) : msg[i] \notin {EOL, Dot}
      BY <1>2, <1>11, <1>13
    <3>2. Field(msg \o h2, {EOL, Dot}) = msg /\ Erase(msg \o h2, {EOL, Dot}, 3) = Behind(h2, 3)
      <4> DEFINE B == {EOL, Dot}
      <4>1. msg \in Seq(Bytes) /\ h2 \in Seq(Bytes) /\ h2 # << >> /\ 3 \in Nat
        BY <1>1, <1>5, <1>11, <3>1
      <4>2. h2[1] \in B /\ \A i \in 1..Len(msg) : msg[i] \notin B
        BY <1>1, <1>5, <1>11, <3>1
      <4> HIDE DEF B
      <4>3. Field(msg \o h2, B) = msg /\ Erase(msg \o h2, B, 3) = Behind(h2, 3)
        BY <4>1, <4>2, FieldEnds
      <4>4. QED
        BY <4>3 DEF B
    <3>3. QED
      BY <3>2 DEF messages
  <2>2. extras = h3
    <3>1. Behind(h2, 3 + 0) = Behind(h3, 0)
      BY <1>11
    <3>2. QED
      BY <1>5, <2>1, <3>1, BehindNone
  <2> HIDE DEF extras
  <2>3. UpToDot(msg) = msg
    <3>1. UpToDot(msg \o C) = UpToDot(msg)
      BY <1>1, <1>4, UpToDotClosed
    <3>2. C[1] \in {EOL, Dot} /\ \A i \in 1..Len(msg) : msg[i] \notin {EOL, Dot}
      BY <1>2, <1>4, <1>13
    <3>3. Field(msg \o C, {EOL, Dot}) = msg
      <4>1. 0 \in Nat
        OBVIOUS
      <4>2. QED
        BY <1>1, <1>4, <3>2, <4>1, FieldEnds
    <3>4. QED
      BY <3>1, <3>3 DEF UpToDot
  <2>4. Field(h3, {EOL, Dot}) = UpToDot(extra)
    <3>1. UpToDot(extra \o C) = UpToDot(extra)
      BY <1>1, <1>4, UpToDotClosed
    <3>2. QED
      BY <3>1 DEF UpToDot, h3
  <2>5. QED
    BY <1>6, <1>12, <2>1, <2>2, <2>3, <2>4
<1>14. CASE ~(\A i \in 1..Len(msg) : msg[i] # Dot)
  <2>1. PICK n \in Nat : Len(msg) = n + 1 /\ msg[n + 1] = Dot
    <3>1. PICK i \in 1..Len(msg) : msg[i] = Dot
      BY <1>14
    <3>2. i = Len(msg) /\ Len(msg) \in Nat
      BY <1>1, <1>2, <3>1
    <3>3. Len(msg) - 1 \in Nat /\ Len(msg) = (Len(msg) - 1) + 1
      BY <3>1, <3>2
    <3>4. QED
      BY <3>1, <3>2, <3>3
  <2> DEFINE b == SubSeq(msg, 1, n)
             P == <<Dot>>
             k2 == P \o h2
  <2>2. /\ b \in Seq(Bytes) /\ Len(b) = n /\ msg = b \o P
        /\ \A i \in 1..Len(b) : b[i] \notin {EOL, Dot}
    <3>1. /\ SubSeq(msg, 1, n) \in Seq(Bytes)
          /\ (1 <= n + 1 => Len(SubSeq(msg, 1, n)) = n + 1 - 1)
          /\ \A k \in 1..(n + 1 - 1) : SubSeq(msg, 1, n)[k] = msg[1 + k - 1]
      <4>1. n <= Len(msg) /\ 1 \in Nat \ {0}
        BY <2>1
      <4>2. QED
        BY <1>1, <4>1, Part
    <3>2. 1 <= n + 1 /\ n + 1 - 1 = n /\ \A k \in 1..n : 1 + k - 1 = k
      OBVIOUS
    <3>3. b \in Seq(Bytes) /\ Len(b) = n /\ \A k \in 1..n : b[k] = msg[k]
      BY <3>1, <3>2
    <3>4. P \in Seq(Bytes) /\ Len(P) = 1 /\ P[1] = Dot
      BY DEF Bytes, Dot
    <3> HIDE DEF b, P
    <3>5. /\ b \o P \in Seq(Bytes) /\ Len(b \o P) = n + 1
          /\ \A k \in 1..n : (b \o P)[k] = b[k]
          /\ \A k \in 1..1 : (b \o P)[k + n] = P[k]
      <4>1. /\ b \o P \in Seq(Bytes) /\ Len(b \o P) = Len(b) + Len(P)
            /\ \A k \in 1..Len(b) : (b \o P)[k] = b[k]
            /\ \A k \in 1..Len(P) : (b \o P)[k + Len(b)] = P[k]
        <5>1. b \in Seq(Bytes) /\ P \in Seq(Bytes)
          BY <3>3, <3>4
        <5>2. QED
          BY <5>1, Joined
      <4>2. QED
        BY <3>3, <3>4, <4>1
    <3>6. ASSUME NEW k \in 1..(n + 1)
          PROVE  msg[k] = (b \o P)[k]
      <4>1. k \in 1..n \/ (k = n + 1 /\ 1 + n = n + 1 /\ 1 \in 1..1)
        OBVIOUS
      <4>2. QED
        BY <2>1, <3>3, <3>4, <3>5, <4>1
    <3>7. msg = b \o P
      <4>1. msg \in Seq(Bytes) /\ b \o P \in Seq(Bytes) /\ Len(msg) = Len(b \o P)
            /\ \A k \in 1..Len(msg) : msg[k] = (b \o P)[k]
        BY <1>1, <2>1, <3>5, <3>6
      <4>2. QED
        BY <4>1, SameText
    <3>8. ASSUME NEW i \in 1..n
          PROVE  b[i] \notin {EOL, Dot}
      <4>1. i \in 1..(n + 1) /\ i # n + 1
        OBVIOUS
      <4>2. msg[i] # EOL /\ msg[i] # Dot
        BY <1>2, <2>1, <4>1
      <4>3. QED
        BY <3>3, <4>2
    <3>9. QED
      BY <3>3, <3>7, <3>8
  <2>3. P \in Seq(Bytes) /\ Len(P) = 1 /\ P[1] = Dot /\ P # << >>
    BY DEF Bytes, Dot
  <2> HIDE DEF b, P
  <2>4. /\ k2 \in Seq(Bytes) /\ k2 # << >> /\ k2[1] = Dot /\ messages = b \o k2
    <3>1. k2 \in Seq(Bytes)
      BY <1>5, <2>3, ConcatProperties
    <3>2. k2 # << >>
      BY <1>5, <2>3, ConcatEqualIffEmpty
    <3>3. 1 \in 1..1 /\ \A k \in 1..1 : (P \o h2)[k] = P[k]
      BY <1>5, <2>3, Joined
    <3>4. (b \o P) \o h2 = b \o (P \o h2)
      <4>1. b \in Seq(Bytes) /\ P \in Seq(Bytes) /\ h2 \in Seq(Bytes)
        BY <1>5, <2>2, <2>3
      <4>2. QED
        BY <4>1, Regrouped, SMTT(30)
    <3>5. QED
      BY <2>2, <2>3, <3>1, <3>2, <3>3, <3>4 DEF messages
  <2>5. Behind(k2, 3) = Behind(h2, 2)
    <3>1. Behind(P \o h2, Len(P) + 2) = Behind(h2, 2)
      <4>1. P \in Seq(Bytes) /\ h2 \in Seq(Bytes) /\ 2 \in Nat
        BY <1>5, <2>3
      <4>2. QED
        BY <4>1, BehindJoined
    <3>2. 1 + 2 = 3
      OBVIOUS
    <3>3. QED
      BY <2>3, <3>1, <3>2
  <2> HIDE DEF k2
  <2>6. Field(messages, {EOL, Dot}) = b /\ extras = Behind(k2, 3)
    <3>1. /\ b \in Seq(Bytes) /\ k2 \in Seq(Bytes) /\ k2 # << >> /\ k2[1] \in {EOL, Dot}
          /\ (\A i \in 1..Len(b) : b[i] \notin {EOL, Dot}) /\ 3 \in Nat
      BY <2>2, <2>4
    <3> DEFINE B == {EOL, Dot}
    <3>2. /\ b \in Seq(Bytes) /\ k2 \in Seq(Bytes) /\ k2 # << >> /\ k2[1] \in B
          /\ (\A i \in 1..Len(b) : b[i] \notin B) /\ 3 \in Nat
      BY <3>1
    <3> HIDE DEF B
    <3>3. Field(b \o k2, B) = b /\ Erase(b \o k2, B, 3) = Behind(k2, 3)
      BY <3>2, FieldEnds
    <3>4. QED
      BY <2>4, <3>3 DEF B
  <2>7. Behind(h2, 2) = E \o h3
    <3>1. C = <<EOL, Dot>> \o E
      BY DEF C, E
    <3>2. <<EOL, Dot>> \in Seq(Bytes) /\ Len(<<EOL, Dot>>) = 2
      BY DEF Bytes, EOL, Dot
    <3>3. PICK w \in Seq(Bytes) : w = <<EOL, Dot>> /\ Len(w) = 2
      BY <3>2
    <3>4. h2 = w \o (E \o h3)
      <4>1. (w \o E) \o h3 = w \o (E \o h3)
        <5>1. w \in Seq(Bytes) /\ E \in Seq(Bytes) /\ h3 \in Seq(Bytes)
          BY <1>4, <1>5
        <5>2. QED
          BY <5>1, Regrouped
      <4>2. QED
        BY <3>1, <3>3, <4>1 DEF h2
    <3>5. E \o h3 \in Seq(Bytes)
      BY <1>4, <1>5, ConcatProperties
    <3>6. Behind(w \o (E \o h3), Len(w) + 0) = Behind(E \o h3, 0)
      <4>1. w \in Seq(Bytes) /\ E \o h3 \in Seq(Bytes) /\ 0 \in Nat
        BY <3>5
      <4>2. QED
        BY <4>1, BehindJoined
    <3>7. Behind(E \o h3, 0) = E \o h3
      BY <3>5, BehindNone
    <3>8. Len(w) + 0 = 2
      BY <3>3
    <3>9. QED
      BY <3>4, <3>6, <3>7, <3>8
  <2>8. extras = E \o h3
    BY <2>5, <2>6, <2>7
  <2> HIDE DEF extras
  <2>9. Field(extras, {EOL, Dot}) = << >>
    <3>1. E \o h3 \in Seq(Bytes) /\ E \o h3 # << >> /\ (E \o h3)[1] \in {EOL, Dot}
      BY <1>4, <1>5, <1>7, ConcatProperties
    <3>2. << >> \o (E \o h3) = E \o h3
      BY <3>1, ConcatEmptySeq
    <3>3. << >> \in Seq(Bytes) /\ \A i \in 1..Len(<< >>) : << >>[i] \notin {EOL, Dot}
      OBVIOUS
    <3>4. Field(<< >> \o (E \o h3), {EOL, Dot}) = << >>
      <4>1. 0 \in Nat
        OBVIOUS
      <4>2. PICK z \in Seq(Bytes), t \in Seq(Bytes) : z = << >> /\ t = E \o h3
        BY <3>1, <3>3
      <4>3. \A i \in 1..Len(z) : z[i] \notin {EOL, Dot}
        BY <3>3, <4>2
      <4>4. Field(z \o t, {EOL, Dot}) = z
        BY <3>1, <4>1, <4>2, <4>3, FieldEnds
      <4>5. QED
        BY <4>2, <4>4
    <3>5. QED
      BY <2>8, <3>2, <3>4
  <2>10. UpToDot(msg) = b /\ b # msg
    <3>1. 0 \in Nat /\ P[1] \in {EOL, Dot}
      BY <2>3
    <3>2. Field(b \o P, {EOL, Dot}) = b
      BY <2>2, <2>3, <3>1, FieldEnds
    <3>3. n # n + 1
      OBVIOUS
    <3>4. QED
      BY <2>1, <2>2, <3>2, <3>3 DEF UpToDot
  <2>11. QED
    BY <1>6, <1>12, <2>6, <2>9, <2>10
<1>15. QED
  BY <1>13, <1>14

\* What each error is read back as.
LEMMA ErrorIsRead ==
  ASSUME NEW e \in Raised
  PROVE  DeserializeError(SerializeError(e)) = Shown(e)
<1>1. /\ e.number \in Nat /\ e.symbol \in Seq(Bytes) /\ e.msg \in Seq(Bytes) /\ e.extra \in Seq(Bytes)
      /\ e = [number |-> e.number, symbol |-> e.symbol, msg |-> e.msg, extra |-> e.extra]
  BY RaisedAssumption DEF Errors
<1>2. PICK number \in Nat, symbol \in Seq(Bytes), msg \in Seq(Bytes), extra \in Seq(Bytes) :
        e = [number |-> number, symbol |-> symbol, msg |-> msg, extra |-> extra]
  BY <1>1
<1>3. /\ \A i \in 1..Len(symbol) : symbol[i] # EOL
      /\ \A i \in 1..Len(msg) : msg[i] # EOL /\ (msg[i] = Dot => i = Len(msg))
  BY <1>2, RaisedAssumption
<1>4. PICK s : s = Decimal(number) \o <<EOL>> \o symbol \o <<EOL>>
                     \o msg \o <<EOL, Dot, EOL>> \o extra \o <<EOL, Dot, EOL>>
  OBVIOUS
<1>5. DeserializeError(s) =
        [number |-> number, symbol |-> symbol, msg |-> UpToDot(msg),
         extra |-> IF UpToDot(msg) = msg THEN UpToDot(extra) ELSE << >>]
  BY <1>3, <1>4, ErrorTextIsRead, ZenonT(40)
<1>6. SerializeError(e) = s
  BY <1>2, <1>4 DEF SerializeError
<1>7. PICK x, y : x = UpToDot(msg) /\ y = (IF UpToDot(msg) = msg THEN UpToDot(extra) ELSE << >>)
  OBVIOUS
<1>8. Shown(e) = [e EXCEPT !.msg = x, !.extra = y]
  BY <1>2, <1>7 DEF Shown
<1>9. Shown(e) = [number |-> number, symbol |-> symbol, msg |-> x, extra |-> y]
  BY <1>2, <1>8
<1>10. QED
  BY <1>5, <1>6, <1>7, <1>9

\* The number and the symbol come through, and all of a plain error does.
LEMMA PlainErrorIsRead ==
  ASSUME NEW e \in Raised
  PROVE  LET read == DeserializeError(SerializeError(e)) IN
         /\ read.number = e.number /\ read.symbol = e.symbol
         /\ Plain(e.msg) => read.msg = e.msg
         /\ Plain(e.msg) /\ Plain(e.extra) => read = e
<1>1. PICK number \in Nat, symbol \in Seq(Bytes), msg \in Seq(Bytes), extra \in Seq(Bytes) :
        e = [number |-> number, symbol |-> symbol, msg |-> msg, extra |-> extra]
  BY RaisedAssumption DEF Errors
<1>2. PICK x, y : x = UpToDot(msg) /\ y = (IF UpToDot(msg) = msg THEN UpToDot(extra) ELSE << >>)
  OBVIOUS
<1>3. Shown(e) = [number |-> number, symbol |-> symbol, msg |-> x, extra |-> y]
  <2>1. Shown(e) = [e EXCEPT !.msg = x, !.extra = y]
    BY <1>1, <1>2 DEF Shown
  <2>2. QED
    BY <1>1, <2>1
<1>4. Plain(msg) => x = msg /\ (Plain(extra) => y = extra)
  BY <1>2, PlainIsWhole
<1>5. DeserializeError(SerializeError(e)) = Shown(e)
  BY ErrorIsRead
<1>6. QED
  BY <1>1, <1>3, <1>4, <1>5

-----------------------------------------------------------------------------
(* The theorems. *)

\* A step that moves no position of the reader and writes nothing.
LEMMA Idle ==
  ASSUME IInv, UNCHANGED <<sent, stream, ends, reader>>,
         link' \in {"open", "fin", "rst"}, arrived' \in arrived..Len(stream)
  PROVE  IInv' /\ UNCHANGED AsChannel!channelVars
<1>0. WireTypeOK /\ Laid /\ InOrder /\ Told /\ NoZeros
  BY DEF IInv
<1>1. UNCHANGED <<sent, stream, ends, taken, start, received, cut, over>>
  BY DEF reader
<1>2. WireTypeOK'
  <2>1. PICK n \in Nat, l \in Nat :
          /\ n = Len(sent) /\ l = Len(stream)
          /\ arrived \in Nat /\ taken \in Nat /\ start \in Nat
          /\ start <= taken /\ taken <= arrived /\ arrived <= l
    BY <1>0, Positions
  <2>2. arrived' \in 0..Len(stream) /\ taken \in 0..arrived' /\ start \in 0..taken
    BY <2>1
  <2>3. Boundaries' = Boundaries
    BY <1>1 DEF Boundaries
  <2>4. QED
    BY <1>0, <1>1, <2>2, <2>3 DEF WireTypeOK
<1>3. Laid' /\ NoZeros' /\ InOrder' /\ Told'
  BY <1>0, <1>1 DEF Laid, Begin, NoZeros, InOrder, Told, Boundaries
<1>4. UNCHANGED AsChannel!channelVars
  BY <1>1 DEF AsChannel!channelVars, TakenMessages
<1>5. QED
  BY <1>2, <1>3, <1>4 DEF IInv

\* What follows the j-th message of a queue, when one more was put behind it.
LEMMA RestAppended ==
  ASSUME NEW T, NEW s \in Seq(T), NEW m \in T, NEW n \in Nat, NEW j \in Nat, Len(s) = n, j <= n
  PROVE  SubSeq(Append(s, m), j + 1, n + 1) = Append(SubSeq(s, j + 1, n), m)
<1> DEFINE t == Append(s, m)
<1>1. t \in Seq(T) /\ Len(t) = n + 1 /\ t[n + 1] = m /\ \A i \in 1..n : t[i] = s[i]
  BY AppendProperties
<1> HIDE DEF t
<1>2. PICK i \in Nat \ {0} : i = j + 1
  OBVIOUS
<1>3. PICK w \in Nat : w = n - j
  <2>1. n - j \in Nat
    OBVIOUS
  <2>2. QED
    BY <2>1
<1>4. /\ SubSeq(t, i, n + 1) \in Seq(T)
      /\ (i <= (n + 1) + 1 => Len(SubSeq(t, i, n + 1)) = (n + 1) + 1 - i)
      /\ \A k \in 1..((n + 1) + 1 - i) : SubSeq(t, i, n + 1)[k] = t[i + k - 1]
  <2>1. t \in Seq(T) /\ n + 1 \in Nat /\ n + 1 <= Len(t)
    BY <1>1
  <2>2. QED
    BY <2>1, Part
<1>5. /\ SubSeq(s, i, n) \in Seq(T)
      /\ (i <= n + 1 => Len(SubSeq(s, i, n)) = n + 1 - i)
      /\ \A k \in 1..(n + 1 - i) : SubSeq(s, i, n)[k] = s[i + k - 1]
  BY Part
<1>6. /\ i <= (n + 1) + 1 /\ (n + 1) + 1 - i = w + 1 /\ i <= n + 1 /\ n + 1 - i = w
      /\ \A k \in 1..(w + 1) : i + k - 1 = j + k
  BY <1>2, <1>3
<1> DEFINE x == SubSeq(t, i, n + 1)
           y == SubSeq(s, i, n)
<1>7. x \in Seq(T) /\ Len(x) = w + 1 /\ \A k \in 1..(w + 1) : x[k] = t[j + k]
  BY <1>4, <1>6
<1>8. y \in Seq(T) /\ Len(y) = w /\ \A k \in 1..w : y[k] = s[j + k]
  <2>1. \A k \in 1..w : k \in 1..(w + 1)
    OBVIOUS
  <2>2. QED
    BY <1>5, <1>6, <2>1
<1> HIDE DEF x, y
<1>9. /\ Append(y, m) \in Seq(T) /\ Len(Append(y, m)) = w + 1 /\ Append(y, m)[w + 1] = m
      /\ \A k \in 1..w : Append(y, m)[k] = y[k]
  BY <1>8, AppendProperties
<1>10. ASSUME NEW k \in 1..(w + 1)
       PROVE  x[k] = Append(y, m)[k]
  <2>1. CASE k = w + 1
    <3>1. j + k = n + 1
      BY <1>3, <2>1
    <3>2. QED
      BY <1>1, <1>7, <1>9, <2>1, <3>1
  <2>2. CASE k # w + 1
    <3>1. k \in 1..w /\ j + k \in 1..n
      BY <1>3, <2>2
    <3>2. QED
      BY <1>1, <1>7, <1>8, <1>9, <3>1
  <2>3. QED
    BY <2>1, <2>2
<1>11. x = Append(y, m)
  <2>1. /\ x \in Seq(T) /\ Append(y, m) \in Seq(T) /\ Len(x) = Len(Append(y, m))
        /\ \A k \in 1..Len(x) : x[k] = Append(y, m)[k]
    BY <1>7, <1>9, <1>10
  <2>2. QED
    BY <2>1, SameText
<1>12. QED
  BY <1>2, <1>11 DEF x, y, t

\* What is written follows what was.
LEMMA WritesPut ==
  ASSUME IInv, NEW m \in Payloads, Writes(m)
  PROVE  [AsChannel!CNext]_(AsChannel!channelVars)
<1>0. WireTypeOK /\ Laid /\ InOrder
  BY DEF IInv
<1>1. PICK n, l, d \in Nat :
           /\ n = Len(sent) /\ l = Len(stream) /\ d = Len(Serialize(m)) /\ d > 0
           /\ sent' \in Seq(Payloads) /\ Len(sent') = n + 1 /\ sent'[n + 1] = m
           /\ \A i \in 1..n : sent'[i] = sent[i]
           /\ stream' \in Seq(Bytes) /\ Len(stream') = l + d
           /\ \A k \in 1..l : stream'[k] = stream[k]
           /\ \A k \in 1..d : stream'[k + l] = Serialize(m)[k]
           /\ ends' \in [1..(n + 1) -> 1..(l + d)] /\ Len(ends') = n + 1 /\ ends'[n + 1] = l + d
           /\ ends \in [1..n -> 1..l] /\ \A i \in 1..n : ends'[i] = ends[i]
  BY <1>0, Written
<1>2. UNCHANGED <<link, arrived, taken, start, received, cut, over>>
  BY DEF Writes, reader
<1>3. CASE cut
  BY <1>2, <1>3 DEF AsChannel!CNext, AsChannel!AnythingGoes
<1>4. CASE ~cut
  <2>1. start \in Boundaries
    BY <1>0, <1>4 DEF InOrder
  <2>2. PICK j, n0 \in Nat :
           /\ n0 = Len(sent) /\ j <= n0 /\ start \in Nat
           /\ start = (IF j = 0 THEN 0 ELSE ends[j])
           /\ \A i \in 1..n0 : ends[i] <= start <=> i <= j
           /\ Cardinality({ i \in 1..n0 : ends[i] <= start }) = j
    BY <1>0, <2>1, Place
  <2>3. TakenMessages = j
    BY <2>2 DEF TakenMessages
  <2>4. TakenMessages' = j
    <3>1. TakenMessages' = Cardinality({ i \in 1..(n + 1) : ends'[i] <= start })
      BY <1>1, <1>2 DEF TakenMessages
    <3>2. ~(ends'[n + 1] <= start)
      <4>1. start <= l
        <5>1. PICK a \in Nat, b \in Nat :
                /\ b = Len(stream) /\ arrived \in Nat /\ taken \in Nat /\ start \in Nat
                /\ start <= taken /\ taken <= arrived /\ arrived <= b
          BY <1>0, Positions
        <5>2. QED
          BY <1>1, <5>1
      <4>2. QED
        BY <1>1, <2>2, <4>1
    <3>3. { i \in 1..(n + 1) : ends'[i] <= start } = { i \in 1..n : ends[i] <= start }
      <4>1. \A i \in 1..(n + 1) : i \in 1..n \/ i = n + 1
        OBVIOUS
      <4>2. \A i \in 1..n : i \in 1..(n + 1)
        OBVIOUS
      <4>3. \A i \in 1..n : ends'[i] = ends[i]
        BY <1>1
      <4>4. QED
        BY <3>2, <4>1, <4>2, <4>3
    <3>4. QED
      BY <1>1, <2>2, <3>1, <3>3
  <2>5. SubSeq(sent', j + 1, Len(sent')) = Append(SubSeq(sent, j + 1, Len(sent)), m)
    <3>1. sent' = Append(sent, m)
      BY DEF Writes
    <3>2. PICK s \in Seq(Payloads), t \in Seq(Payloads) :
            s = sent /\ t = sent' /\ t = Append(s, m) /\ Len(s) = n /\ Len(t) = n + 1
      BY <1>0, <1>1, <3>1 DEF WireTypeOK
    <3>3. j <= n
      BY <1>1, <2>2
    <3>4. SubSeq(t, j + 1, n + 1) = Append(SubSeq(s, j + 1, n), m)
      BY <3>2, <3>3, RestAppended
    <3>5. QED
      BY <3>2, <3>4
  <2>6. SubSeq(sent', TakenMessages' + 1, Len(sent')) = Append(SubSeq(sent, TakenMessages + 1, Len(sent)), m)
    BY <2>3, <2>4, <2>5
  <2>7. AsChannel!Put(m)
    BY <1>2, <1>4, <2>6 DEF AsChannel!Put
  <2>8. QED
    BY <2>7 DEF AsChannel!CNext
<1>5. QED
  BY <1>3, <1>4

\* Every step keeps the invariant and is a step of the channel or none.
LEMMA Steps ==
  ASSUME IInv, [Next]_vars
  PROVE  IInv' /\ [AsChannel!CNext]_(AsChannel!channelVars)
<1>0. link \in {"open", "fin", "rst"} /\ arrived \in 0..Len(stream) /\ Len(stream) \in Nat /\ over \in BOOLEAN
  BY DEF IInv, WireTypeOK
<1>1. ASSUME NEW m \in Payloads, Writes(m)
      PROVE  IInv' /\ [AsChannel!CNext]_(AsChannel!channelVars)
  BY <1>1, WritesIInv, WritesPut
<1>2. CASE Leaves
  <2>1. arrived \in arrived..Len(stream)
    BY <1>0
  <2>2. UNCHANGED <<sent, stream, ends, reader>> /\ link' \in {"open", "fin", "rst"} /\ arrived' = arrived
    BY <1>2 DEF Leaves
  <2>3. QED
    BY <2>1, <2>2, Idle
<1>3. CASE Arrives
  <2>1. UNCHANGED <<sent, stream, ends, reader>> /\ link' = link
    BY <1>3 DEF Arrives, writer
  <2>2. arrived' \in arrived..Len(stream)
    <3>1. arrived' \in (arrived + 1)..Len(stream)
      BY <1>3 DEF Arrives
    <3>2. QED
      BY <1>0, <3>1
  <2>3. QED
    BY <1>0, <2>1, <2>2, Idle
<1>4. CASE Receives
  BY <1>4, ReceivesSteps
<1>5. CASE MeetsEnd
  BY <1>5, MeetsEndSteps
<1>6. CASE Fails
  <2>1. /\ ~over /\ over' = TRUE
        /\ UNCHANGED <<sent, stream, ends, link, arrived, taken, start, received, cut>>
    BY <1>6 DEF Fails, writer
  <2>2. IInv'
    <3>1. WireTypeOK /\ Laid /\ InOrder /\ Told /\ NoZeros
      BY DEF IInv
    <3>2. Boundaries' = Boundaries
      BY <2>1 DEF Boundaries
    <3>3. WireTypeOK'
      BY <2>1, <3>1, <3>2 DEF WireTypeOK
    <3>4. Laid'
      BY <2>1, <3>1 DEF Laid, Begin
    <3>5. NoZeros' /\ InOrder' /\ Told'
      BY <2>1, <3>1, <3>2 DEF NoZeros, InOrder, Told
    <3>6. QED
      BY <3>3, <3>4, <3>5 DEF IInv
  <2>3. AsChannel!End
    BY <2>1 DEF AsChannel!End, TakenMessages
  <2>4. QED
    BY <2>2, <2>3 DEF AsChannel!CNext
<1>7. CASE UNCHANGED vars
  <2>1. UNCHANGED <<sent, stream, ends, reader>> /\ link' = link /\ arrived' = arrived
    BY <1>7 DEF vars, writer
  <2>2. arrived \in arrived..Len(stream)
    BY <1>0
  <2>3. QED
    BY <1>0, <2>1, <2>2, Idle
<1>8. QED
  BY <1>1, <1>2, <1>3, <1>4, <1>5, <1>6, <1>7 DEF Next, Reads, Finished

\* The types of the variables and the order of the positions: a read never takes
\* what did not arrive, and one that goes on took full buffers only
\* (TcpSocket.cpp:106-118).
THEOREM WireTypeCorrect == Spec => []WireTypeOK
<1>1. IInv /\ [Next]_vars => IInv'
  BY Steps
<1>2. IInv => WireTypeOK
  BY DEF IInv
<1>3. QED
  BY <1>1, <1>2, InitIInv, PTL DEF Spec

\* However the stream is cut, the connection is a queue of messages until a read ends
\* within one, and nothing else is promised from there on (TcpSocket.cpp:106-118,
\* Body.cpp:14-30, Message.cpp).
THEOREM WireIsChannel == Spec => ChannelSpec
<1>1. IInv /\ [Next]_vars => IInv'
  BY Steps
<1>2. Init => AsChannel!CInit
  <2>1. SUFFICES ASSUME Init
                 PROVE  AsChannel!CInit
    OBVIOUS
  <2>2. sent = << >> /\ Len(sent) = 0 /\ received = << >> /\ cut = FALSE /\ over = FALSE
    BY <2>1 DEF Init
  <2>3. TakenMessages = 0
    <3>1. { i \in 1..Len(sent) : ends[i] <= start } = {}
      BY <2>2
    <3>2. QED
      BY <3>1, FS_EmptySet DEF TakenMessages
  <2>4. SubSeq(sent, TakenMessages + 1, Len(sent)) = << >>
    BY <2>2, <2>3, SubSeqEmpty
  <2>5. QED
    BY <2>2, <2>4 DEF AsChannel!CInit
<1>3. IInv /\ [Next]_vars => [AsChannel!CNext]_(AsChannel!channelVars)
  BY Steps
<1>4. QED
  BY <1>1, <1>2, <1>3, InitIInv, PTL DEF Spec, ChannelSpec, AsChannel!ChannelSpec

\* Of an error that was read whole the number and the symbol are those it was raised
\* with, whatever its texts, and all of it is if they have neither a dot nor an end of
\* line (ProtoError.cpp:39-81).
THEOREM ErrorsReadBack == Spec => []PlainErrorsSurvive
<1>1. IInv /\ [Next]_vars => IInv'
  BY Steps
<1>2. IInv => PlainErrorsSurvive
  <2>1. SUFFICES ASSUME IInv, ~cut, NEW i \in 1..Len(received), received[i].type = Error
                 PROVE  \E e \in Raised :
                          LET read == DeserializeError(received[i].body) IN
                          /\ received[i].body = SerializeError(e)
                          /\ read.number = e.number /\ read.symbol = e.symbol
                          /\ Plain(e.msg) => read.msg = e.msg
                          /\ Plain(e.msg) /\ Plain(e.extra) => read = e
    BY DEF PlainErrorsSurvive
  <2>2. received[i] \in Payloads
    <3>1. received[i] = NoMessage \/ received[i] \in Payloads
      BY <2>1 DEF IInv, Told
    <3>2. NoMessage.type # Error
      BY DEF NoMessage, Error, NUL
    <3>3. QED
      BY <2>1, <3>1, <3>2
  <2>3. PICK e \in Raised : received[i].body = SerializeError(e)
    BY <2>1, <2>2, RaisedAssumption
  <2>4. QED
    BY <2>3, PlainErrorIsRead
<1>3. QED
  BY <1>1, <1>2, InitIInv, PTL DEF Spec
=============================================================================
