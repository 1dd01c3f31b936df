----------------------------- MODULE BankProofs -----------------------------
(* Theorems about Bank: what is read of a text that was written, whole or  *)
(* in part, for every book, every map of contests, every set of posts and  *)
(* every number.  First the questions' bank, then the contests'.           *)
EXTENDS Bank, FiniteSetTheorems, WellFoundedInduction, SequenceTheorems, TLAPS

Tokens ==
  {EOL, Sp, Dot, "true", "false"} \cup Numbers
    \cup { Letters[k] : k \in 1..3 } \cup { Choice(k) : k \in 1..3 }
    \cup UNION { Range(post[2]) : post \in Posted }
Texts == Seq(Tokens)

LEMMA TokensApart ==
  EOL # Dot /\ EOL # Sp /\ Dot # Sp
BY DEF EOL, Dot, Sp

LEMMA LettersApart ==
  /\ Len(Letters) = 3
  /\ \A k \in 1..3 : Letters[k] \in Tokens /\ Letters[k] # EOL /\ Letters[k] # Dot /\ Letters[k] # Sp
<1>1. Len(Letters) = 3 /\ Letters[1] = "a" /\ Letters[2] = "b" /\ Letters[3] = "c"
  BY DEF Letters
<1>2. \A k \in 1..3 : k = 1 \/ k = 2 \/ k = 3
  OBVIOUS
<1>3. \A k \in 1..3 : Letters[k] # EOL /\ Letters[k] # Dot /\ Letters[k] # Sp
  BY <1>1, <1>2 DEF EOL, Dot, Sp
<1>4. \A k \in 1..3 : Letters[k] \in Tokens
  BY DEF Tokens
<1>5. QED
  BY <1>1, <1>3, <1>4

LEMMA ChoicesApart ==
  /\ \A k \in 1..3 : Choice(k) \in Tokens /\ Choice(k) # EOL /\ Choice(k) # Dot /\ Choice(k) # Sp
  /\ \A k, i \in 1..3 : Choice(k) = Choice(i) => k = i
<1>1. Choice(1) = "(a) x" /\ Choice(2) = "(b) y" /\ Choice(3) = "(c) z"
  BY DEF Choice
<1>2. \A k \in 1..3 : k = 1 \/ k = 2 \/ k = 3
  OBVIOUS
<1>3. \A k \in 1..3 : Choice(k) # EOL /\ Choice(k) # Dot /\ Choice(k) # Sp
  BY <1>1, <1>2 DEF EOL, Dot, Sp
<1>4. \A k \in 1..3 : Choice(k) \in Tokens
  BY DEF Tokens
<1>5. \A k, i \in 1..3 : Choice(k) = Choice(i) => k = i
  BY <1>1, <1>2
<1>6. QED
  BY <1>3, <1>4, <1>5

LEMMA TokenTypes ==
  EOL \in Tokens /\ Sp \in Tokens /\ Dot \in Tokens /\ Numbers \subseteq Tokens
BY DEF Tokens

LEMMA WhatReadIs ==
  \A v, n : Read(v, n).end = "read" /\ Read(v, n).value = v /\ Read(v, n).next = n
BY DEF Read

LEMMA WhatEnds ==
  Threw.end # "read" /\ Spins.end # "read" /\ Threw.end = "threw"
<1>1. Threw.end = "threw"
  BY DEF Threw
<1>2. Spins.end = "spins"
  BY DEF Spins
<1>3. QED
  BY <1>1, <1>2

\* Every set of numbers has a least one.
LEMMA LeastNatural ==
  ASSUME NEW T \in SUBSET Nat, T # {}
  PROVE  \E n \in T : \A k \in T : n <= k
<1> DEFINE R == { p \in Nat \X Nat : p[1] < p[2] }
<1>1. OpToRel(<, Nat) = R
  BY DEF OpToRel
<1>2. IsWellFoundedOn(R, Nat)
  BY <1>1, NatLessThanWellFounded
<1>3. PICK n \in T : \A k \in T : ~(<<k, n>> \in R)
  <2> HIDE DEF R
  <2> QED
    BY <1>2, WFMin
<1>4. ASSUME NEW k \in T
      PROVE  n <= k
  <2>1. <<k, n>> \in Nat \X Nat /\ <<k, n>>[1] = k /\ <<k, n>>[2] = n
    OBVIOUS
  <2>2. ~(k < n)
    BY <1>3, <2>1
  <2>3. QED
    BY <2>2
<1>5. QED
  BY <1>4

\* What holds of zero, and of the next when of one, holds of every number.
LEMMA Counting ==
  ASSUME NEW S, 0 \in S, \A n \in Nat : n \in S => n + 1 \in S
  PROVE  Nat \subseteq S
<1> SUFFICES ASSUME Nat \ S # {}
             PROVE  FALSE
  OBVIOUS
<1>1. PICK n \in Nat \ S : \A k \in Nat \ S : n <= k
  BY LeastNatural
<1>2. n # 0
  BY <1>1
<1>3. n - 1 \in Nat /\ (n - 1) + 1 = n /\ ~(n <= n - 1)
  BY <1>2
<1>4. n - 1 \in S
  BY <1>1, <1>3
<1>5. QED
  BY <1>1, <1>3, <1>4

\* Two texts one after the other.
LEMMA Joined ==
  \A s, t \in Texts :
    /\ s \o t \in Texts /\ Len(s \o t) = Len(s) + Len(t)
    /\ \A k \in 1..Len(s) : (s \o t)[k] = s[k]
    /\ \A k \in 1..Len(t) : (s \o t)[k + Len(s)] = t[k]
<1> TAKE s, t \in Texts
<1>1. PICK a \in Nat, b \in Nat : a = Len(s) /\ b = Len(t)
  BY DEF Texts
<1>2. /\ s \o t \in Texts /\ Len(s \o t) = Len(s) + Len(t)
      /\ \A k \in 1..(Len(s) + Len(t)) :
           (s \o t)[k] = IF k <= Len(s) THEN s[k] ELSE t[k - Len(s)]
  BY ConcatProperties DEF Texts
<1>3. \A k \in 1..(a + b) : (s \o t)[k] = IF k <= a THEN s[k] ELSE t[k - a]
  BY <1>1, <1>2
<1>4. ASSUME NEW k \in 1..a
      PROVE  (s \o t)[k] = s[k]
  <2>1. k \in 1..(a + b) /\ k <= a
    OBVIOUS
  <2>2. QED
    BY <1>3, <2>1
<1>5. ASSUME NEW k \in 1..b
      PROVE  (s \o t)[k + a] = t[k]
  <2>1. k + a \in 1..(a + b) /\ ~(k + a <= a) /\ (k + a) - a = k
    OBVIOUS
  <2>2. QED
    BY <1>3, <2>1
<1>6. QED
  BY <1>1, <1>2, <1>4, <1>5

\* A part of a text.
LEMMA Part ==
  ASSUME NEW s \in Texts, NEW i \in Nat \ {0}, NEW j \in Nat, j <= Len(s)
  PROVE  /\ SubSeq(s, i, j) \in Texts
         /\ i <= j + 1 => Len(SubSeq(s, i, j)) = j + 1 - i
         /\ i > j => SubSeq(s, i, j) = << >>
         /\ \A k \in 1..(j + 1 - i) : SubSeq(s, i, j)[k] = s[i + k - 1]
<1>1. Len(s) \in Nat /\ \A k \in i..j : s[k] \in Tokens
  BY DEF Texts
<1>2. /\ SubSeq(s, i, j) \in Seq(Tokens)
      /\ Len(SubSeq(s, i, j)) = IF i <= j THEN j - i + 1 ELSE 0
      /\ \A k \in 1..(j - i + 1) : SubSeq(s, i, j)[k] = s[i + k - 1]
  BY <1>1, SubSeqProperties
<1>3. i > j => SubSeq(s, i, j) = << >>
  BY <1>2, EmptySeq
<1>4. \A k \in 1..(j + 1 - i) : k \in 1..(j - i + 1)
  OBVIOUS
<1>5. QED
  BY <1>2, <1>3, <1>4 DEF Texts

LEMMA SameText ==
  ASSUME NEW s \in Texts, NEW t \in Texts, Len(s) = Len(t),
         \A k \in 1..Len(s) : s[k] = t[k]
  PROVE  s = t
BY SeqEqual DEF Texts

-----------------------------------------------------------------------------
\* A place is found where there is one.
LEMMA Searched ==
  ASSUME NEW P, NEW n \in Nat, NEW p \in 1..(n + 1)
  PROVE  \E e \in p..(n + 1) : (e > n \/ e \in P) /\ \A k \in p..(e - 1) : k \notin P
<1> DEFINE T == { k \in p..(n + 1) : k > n \/ k \in P }
<1>1. n + 1 \in T /\ T \in SUBSET Nat
  OBVIOUS
<1>2. PICK e \in T : \A k \in T : e <= k
  <2> HIDE DEF T
  <2> QED
    BY <1>1, LeastNatural
<1>3. \A k \in p..(e - 1) : k \notin P
  BY <1>2
<1>4. QED
  BY <1>2, <1>3

LEMMA LineEndIs ==
  ASSUME NEW s \in Texts, NEW p \in Nat, NEW e \in p..(Len(s) + 1), e > Len(s) \/ s[e] = EOL,
         \A k \in p..(e - 1) : s[k] # EOL
  PROVE  LineEnd(s, p) = e
<1>1. Len(s) \in Nat
  BY DEF Texts
<1>2. QED
  BY <1>1 DEF LineEnd, First

LEMMA LineEndFound ==
  ASSUME NEW s \in Texts, NEW p \in Nat \ {0}
  PROVE  /\ p > Len(s) => LineEnd(s, p) = p
         /\ p <= Len(s) + 1 =>
              /\ LineEnd(s, p) \in p..(Len(s) + 1)
              /\ LineEnd(s, p) > Len(s) \/ s[LineEnd(s, p)] = EOL
              /\ \A k \in p..(LineEnd(s, p) - 1) : s[k] # EOL
<1>1. Len(s) \in Nat
  BY DEF Texts
<1>2. p > Len(s) => LineEnd(s, p) = p
  BY DEF LineEnd, First
<1>3. ASSUME p <= Len(s) + 1
      PROVE  \E e \in p..(Len(s) + 1) : (e > Len(s) \/ s[e] = EOL) /\ \A k \in p..(e - 1) : s[k] # EOL
  <2> DEFINE P == { k \in Nat : s[k] = EOL }
  <2>1. PICK e \in p..(Len(s) + 1) : (e > Len(s) \/ e \in P) /\ \A k \in p..(e - 1) : k \notin P
    <3>1. PICK n \in Nat : n = Len(s) /\ p \in 1..(n + 1)
      BY <1>1, <1>3
    <3> HIDE DEF P
    <3>2. \E e \in p..(n + 1) : (e > n \/ e \in P) /\ \A k \in p..(e - 1) : k \notin P
      BY <3>1, Searched
    <3>3. QED
      BY <3>1, <3>2
  <2>2. \A k \in p..(e - 1) : s[k] # EOL
    BY <2>1
  <2>3. QED
    BY <2>1, <2>2
<1>4. QED
  BY <1>1, <1>2, <1>3, LineEndIs

LEMMA NextWordIs ==
  ASSUME NEW s \in Texts, NEW p \in Nat, NEW e \in p..(Len(s) + 1), e > Len(s) \/ s[e] \notin {EOL, Sp},
         \A k \in p..(e - 1) : s[k] \in {EOL, Sp}
  PROVE  NextWord(s, p) = e
<1>1. Len(s) \in Nat
  BY DEF Texts
<1>2. QED
  BY <1>1 DEF NextWord, First

LEMMA NextWordFound ==
  ASSUME NEW s \in Texts, NEW p \in Nat \ {0}
  PROVE  /\ p > Len(s) => NextWord(s, p) = p
         /\ p <= Len(s) + 1 => NextWord(s, p) \in p..(Len(s) + 1)
         /\ NextWord(s, p) \in Nat /\ NextWord(s, p) >= p
<1>1. Len(s) \in Nat
  BY DEF Texts
<1>2. p > Len(s) => NextWord(s, p) = p
  BY DEF NextWord, First
<1>3. ASSUME p <= Len(s) + 1
      PROVE  \E e \in p..(Len(s) + 1) : (e > Len(s) \/ s[e] \notin {EOL, Sp}) /\ \A k \in p..(e - 1) : s[k] \in {EOL, Sp}
  <2> DEFINE P == { k \in Nat : s[k] \notin {EOL, Sp} }
  <2>1. PICK e \in p..(Len(s) + 1) : (e > Len(s) \/ e \in P) /\ \A k \in p..(e - 1) : k \notin P
    <3>1. PICK n \in Nat : n = Len(s) /\ p \in 1..(n + 1)
      BY <1>1, <1>3
    <3> HIDE DEF P
    <3>2. \E e \in p..(n + 1) : (e > n \/ e \in P) /\ \A k \in p..(e - 1) : k \notin P
      BY <3>1, Searched
    <3>3. QED
      BY <3>1, <3>2
  <2>2. \A k \in p..(e - 1) : s[k] \in {EOL, Sp}
    BY <2>1
  <2>3. QED
    BY <2>1, <2>2
<1>4. QED
  BY <1>1, <1>2, <1>3, NextWordIs

DotAt(s, p, k) == (k = p \/ s[k - 1] = EOL) /\ Line(s, k) = <<Dot>>

LEMMA DotLineIs ==
  ASSUME NEW s \in Texts, NEW p \in Nat, NEW e \in p..(Len(s) + 1), e > Len(s) \/ DotAt(s, p, e),
         \A k \in p..(e - 1) : ~DotAt(s, p, k)
  PROVE  DotLine(s, p) = e
<1>1. Len(s) \in Nat
  BY DEF Texts
<1>2. QED
  BY <1>1 DEF DotLine, First, DotAt

LEMMA DotLineFound ==
  ASSUME NEW s \in Texts, NEW p \in Nat \ {0}
  PROVE  /\ p > Len(s) => DotLine(s, p) = p
         /\ p <= Len(s) + 1 =>
              /\ DotLine(s, p) \in p..(Len(s) + 1)
              /\ DotLine(s, p) > Len(s) \/ DotAt(s, p, DotLine(s, p))
              /\ \A k \in p..(DotLine(s, p) - 1) : ~DotAt(s, p, k)
<1>1. Len(s) \in Nat
  BY DEF Texts
<1>2. p > Len(s) => DotLine(s, p) = p
  BY DEF DotLine, First
<1>3. ASSUME p <= Len(s) + 1
      PROVE  \E e \in p..(Len(s) + 1) : (e > Len(s) \/ DotAt(s, p, e)) /\ \A k \in p..(e - 1) : ~DotAt(s, p, k)
  <2> DEFINE P == { k \in Nat : DotAt(s, p, k) }
  <2>1. PICK e \in p..(Len(s) + 1) : (e > Len(s) \/ e \in P) /\ \A k \in p..(e - 1) : k \notin P
    <3>1. PICK n \in Nat : n = Len(s) /\ p \in 1..(n + 1)
      BY <1>1, <1>3
    <3> HIDE DEF P
    <3>2. \E e \in p..(n + 1) : (e > n \/ e \in P) /\ \A k \in p..(e - 1) : k \notin P
      BY <3>1, Searched
    <3>3. QED
      BY <3>1, <3>2
  <2>2. \A k \in p..(e - 1) : ~DotAt(s, p, k)
    BY <2>1
  <2>3. QED
    BY <2>1, <2>2
<1>4. QED
  BY <1>1, <1>2, <1>3, DotLineIs

\* The line with a dot.
LEMMA LineIsDot ==
  ASSUME NEW s \in Texts, NEW k \in 1..Len(s)
  PROVE  Line(s, k) = <<Dot>> <=> s[k] = Dot /\ (k = Len(s) \/ s[k + 1] = EOL)
<1>1. Len(s) \in Nat
  BY DEF Texts
<1>2. PICK e \in k..(Len(s) + 1) : /\ e = LineEnd(s, k) /\ (e > Len(s) \/ s[e] = EOL)
                                   /\ \A i \in k..(e - 1) : s[i] # EOL
  BY <1>1, LineEndFound
<1>3. /\ Len(SubSeq(s, k, e - 1)) = e - k
      /\ \A i \in 1..(e - k) : SubSeq(s, k, e - 1)[i] = s[k + i - 1]
  <2>1. e - 1 \in Nat /\ e - 1 <= Len(s) /\ k <= (e - 1) + 1 /\ (e - 1) + 1 - k = e - k
    BY <1>1
  <2>2. QED
    BY <2>1, Part
<1>4. Line(s, k) = SubSeq(s, k, e - 1)
  BY <1>2 DEF Line
<1>5. CASE Line(s, k) = <<Dot>>
  <2>0. SubSeq(s, k, e - 1) = <<Dot>> /\ Len(<<Dot>>) = 1 /\ <<Dot>>[1] = Dot
    BY <1>4, <1>5
  <2>1. e - k = 1 /\ SubSeq(s, k, e - 1)[1] = Dot
    <3> HIDE DEF Line
    <3> QED
      BY <1>3, <2>0
  <2>2. e = k + 1 /\ 1 \in 1..(e - k) /\ k + 1 - 1 = k
    BY <2>1
  <2>3. QED
    BY <1>1, <1>2, <1>3, <1>5, <2>1, <2>2
<1>6. CASE s[k] = Dot /\ (k = Len(s) \/ s[k + 1] = EOL)
  <2>1. e = k + 1
    BY <1>1, <1>2, <1>6, TokensApart
  <2>2. SubSeq(s, k, e - 1) = <<Dot>>
    <3>1. e - 1 = k /\ e - k = 1 /\ 1 \in 1..(e - k) /\ k + 1 - 1 = k
      BY <2>1
    <3>2. Len(SubSeq(s, k, e - 1)) = 1 /\ SubSeq(s, k, e - 1)[1] = Dot
      BY <1>3, <1>6, <3>1
    <3>3. SubSeq(s, k, e - 1) \in Texts /\ <<Dot>> \in Texts /\ Len(<<Dot>>) = 1 /\ <<Dot>>[1] = Dot
      <4>1. e - 1 \in Nat /\ e - 1 <= Len(s)
        BY <1>1
      <4>2. QED
        BY <4>1, Part, TokenTypes DEF Texts
    <3>4. \A i \in 1..1 : i = 1
      OBVIOUS
    <3>5. QED
      BY <3>2, <3>3, <3>4, SameText
  <2>3. QED
    BY <1>4, <1>6, <2>2
<1>7. QED
  BY <1>5, <1>6

-----------------------------------------------------------------------------
\* Texts put together, step by step.
LEMMA FlattenUnfolds ==
  ASSUME NEW n \in Nat \ {0}, NEW parts \in Seq(Texts), Len(parts) = n
  PROVE  \E f : /\ FlattenSeq(parts) = f[n]
                /\ \A i \in 1..n : f[i] = IF i = 1 THEN parts[i] ELSE f[i - 1] \o parts[i]
<1> DEFINE Step(f, i) == IF i = 1 THEN parts[i] ELSE f[i - 1] \o parts[i]
           S == { m \in Nat : \E f : f = [i \in 1..m |-> Step(f, i)] }
<1>1. 0 \in S
  <2>1. << >> = [i \in 1..0 |-> Step(<< >>, i)]
    OBVIOUS
  <2>2. QED
    BY <2>1
<1>2. ASSUME NEW m \in Nat, m \in S
      PROVE  m + 1 \in S
  <2>1. PICK f : f = [i \in 1..m |-> Step(f, i)]
    BY <1>2
  <2> DEFINE g == [i \in 1..(m + 1) |-> IF i = m + 1 THEN Step(f, i) ELSE f[i]]
  <2>2. ASSUME NEW i \in 1..(m + 1)
        PROVE  g[i] = Step(g, i)
    <3>1. i = 1 \/ (i - 1 \in 1..(m + 1) /\ i - 1 # m + 1)
      OBVIOUS
    <3>2. i = 1 \/ g[i - 1] = f[i - 1]
      BY <3>1
    <3>3. Step(g, i) = Step(f, i)
      BY <3>2
    <3>4. i = m + 1 \/ i \in 1..m
      OBVIOUS
    <3>5. i \in 1..m => f[i] = Step(f, i)
      <4> HIDE DEF Step
      <4> QED
        BY <2>1
    <3> HIDE DEF Step
    <3>6. QED
      BY <3>3, <3>4, <3>5
  <2>3. g = [i \in 1..(m + 1) |-> Step(g, i)]
    <3> DEFINE h == [i \in 1..(m + 1) |-> Step(g, i)]
    <3>1. \A i \in 1..(m + 1) : g[i] = h[i]
      BY <2>2
    <3>2. QED
      BY <3>1
  <2>4. QED
    <3> HIDE DEF g, Step
    <3> QED
      BY <2>3
<1>3. n \in S
  <2> HIDE DEF S
  <2> QED
    BY <1>1, <1>2, Counting
<1> DEFINE flatten == CHOOSE flatten : flatten = [i \in 1..n |-> Step(flatten, i)]
<1>4. flatten = [i \in 1..n |-> Step(flatten, i)]
  <2> HIDE DEF Step
  <2> QED
    BY <1>3
<1>5. FlattenSeq(parts) = flatten[n]
  BY DEF FlattenSeq
<1> HIDE DEF flatten
<1>6. \A i \in 1..n : flatten[i] = Step(flatten, i)
  <2> HIDE DEF Step
  <2> QED
    BY <1>4
<1>7. QED
  BY <1>5, <1>6

\* Where each of some texts is, when they are put together.
LEMMA Flattened ==
  ASSUME NEW n \in Nat \ {0}, NEW parts \in Seq(Texts), Len(parts) = n
  PROVE  \E offs \in [1..(n + 1) -> Nat] :
           /\ offs[1] = 0 /\ \A i \in 1..n : offs[i + 1] = offs[i] + Len(parts[i])
           /\ FlattenSeq(parts) \in Texts /\ Len(FlattenSeq(parts)) = offs[n + 1]
           /\ \A i \in 1..n : \A k \in 1..Len(parts[i]) :
                FlattenSeq(parts)[offs[i] + k] = parts[i][k]
<1>1. PICK f : /\ FlattenSeq(parts) = f[n]
               /\ \A i \in 1..n : f[i] = IF i = 1 THEN parts[i] ELSE f[i - 1] \o parts[i]
  BY FlattenUnfolds
<1>2. \A i \in 1..n : parts[i] \in Texts /\ Len(parts[i]) \in Nat
  BY DEF Texts
<1> DEFINE offs == [i \in 1..(n + 1) |-> IF i = 1 THEN 0 ELSE Len(f[i - 1])]
           Fine(m) == /\ f[m] \in Texts /\ Len(f[m]) \in Nat
                      /\ m > 1 => Len(f[m]) = Len(f[m - 1]) + Len(parts[m])
                      /\ \A i \in 1..m : \A k \in 1..Len(parts[i]) :
                           /\ (IF i = 1 THEN 0 ELSE Len(f[i - 1])) + k \in 1..Len(f[m])
                           /\ f[m][(IF i = 1 THEN 0 ELSE Len(f[i - 1])) + k] = parts[i][k]
           S == { m \in Nat : m + 1 <= n => Fine(m + 1) }
<1>3. 0 \in S
  <2>1. 1 \in 1..n /\ f[1] = parts[1] /\ ~(1 > 1)
    BY <1>1
  <2>2. \A i \in 1..1 : i = 1
    OBVIOUS
  <2>3. \A k \in 1..Len(parts[1]) : 0 + k = k
    BY <1>2, <2>1
  <2>4. Fine(1)
    BY <1>2, <2>1, <2>2, <2>3
  <2>5. QED
    BY <2>4
<1>4. ASSUME NEW j \in Nat, j \in S
      PROVE  j + 1 \in S
  <2> SUFFICES ASSUME (j + 1) + 1 <= n
               PROVE  Fine((j + 1) + 1)
    <3> HIDE DEF Fine
    <3> QED
      OBVIOUS
  <2>1. PICK m \in Nat : m = j + 1 /\ m \in 1..n /\ m + 1 \in 1..n /\ m + 1 # 1 /\ (m + 1) - 1 = m
    OBVIOUS
  <2>2. Fine(m)
    <3> HIDE DEF Fine
    <3> QED
      BY <2>1, <1>4
  <2>3. f[m + 1] = f[m] \o parts[m + 1]
    BY <1>1, <2>1
  <2>4. f[m] \in Texts /\ parts[m + 1] \in Texts
    BY <1>2, <2>1, <2>2
  <2>5. PICK a \in Nat, b \in Nat : a = Len(f[m]) /\ b = Len(parts[m + 1])
    BY <2>4 DEF Texts
  <2>6. /\ f[m + 1] \in Texts /\ Len(f[m + 1]) = a + b
        /\ \A k \in 1..a : f[m + 1][k] = f[m][k]
        /\ \A k \in 1..b : f[m + 1][k + a] = parts[m + 1][k]
    <3>1. /\ f[m] \o parts[m + 1] \in Texts /\ Len(f[m] \o parts[m + 1]) = Len(f[m]) + Len(parts[m + 1])
          /\ \A k \in 1..Len(f[m]) : (f[m] \o parts[m + 1])[k] = f[m][k]
          /\ \A k \in 1..Len(parts[m + 1]) : (f[m] \o parts[m + 1])[k + Len(f[m])] = parts[m + 1][k]
      BY <2>4, Joined
    <3>2. QED
      BY <2>3, <2>5, <3>1
  <2>7. ASSUME NEW i \in 1..(m + 1), NEW k \in 1..Len(parts[i])
        PROVE  /\ (IF i = 1 THEN 0 ELSE Len(f[i - 1])) + k \in 1..Len(f[m + 1])
               /\ f[m + 1][(IF i = 1 THEN 0 ELSE Len(f[i - 1])) + k] = parts[i][k]
    <3>1. CASE i = m + 1
      <4>0. k \in 1..b
        BY <2>5, <3>1
      <4>1. k \in 1..b /\ a + k = k + a /\ a + k \in 1..(a + b)
        BY <4>0
      <4>2. i # 1 /\ i - 1 = m
        BY <2>1, <3>1
      <4>3. QED
        BY <2>5, <2>6, <3>1, <4>1, <4>2
    <3>2. CASE i # m + 1
      <4>1. i \in 1..m
        BY <2>1, <3>2
      <4> DEFINE x == (IF i = 1 THEN 0 ELSE Len(f[i - 1])) + k
      <4>2. x \in 1..a /\ f[m][x] = parts[i][k]
        BY <2>2, <2>5, <4>1
      <4> HIDE DEF x
      <4>3. x \in 1..(a + b)
        BY <4>2
      <4>4. x \in 1..Len(f[m + 1]) /\ f[m + 1][x] = parts[i][k]
        BY <2>6, <4>2, <4>3
      <4>5. QED
        BY <4>4 DEF x
    <3>3. QED
      BY <3>1, <3>2
  <2>8. Len(f[m + 1]) \in Nat /\ Len(f[m + 1]) = Len(f[(m + 1) - 1]) + Len(parts[m + 1])
    <3>1. Len(f[m + 1]) = a + b /\ a + b \in Nat
      BY <2>6
    <3>2. QED
      BY <2>1, <2>5, <3>1
  <2>9. Fine(m + 1)
    BY <2>6, <2>7, <2>8
  <2>10. QED
    <3> HIDE DEF Fine
    <3> QED
      BY <2>1, <2>9
<1>5. ASSUME NEW m \in 1..n
      PROVE  Fine(m)
  <2>1. Nat \subseteq S
    <3> HIDE DEF S
    <3> QED
      BY <1>3, <1>4, Counting
  <2>2. m - 1 \in Nat /\ (m - 1) + 1 = m /\ m <= n
    OBVIOUS
  <2> HIDE DEF Fine
  <2>3. m - 1 \in S
    <3> HIDE DEF S
    <3> QED
      BY <2>1, <2>2
  <2>4. QED
    BY <2>2, <2>3
<1>6. offs \in [1..(n + 1) -> Nat]
  <2>1. ASSUME NEW i \in 1..(n + 1)
        PROVE  offs[i] \in Nat
    <3>1. i = 1 \/ i - 1 \in 1..n
      OBVIOUS
    <3>2. i = 1 \/ Len(f[i - 1]) \in Nat
      BY <3>1, <1>5
    <3>3. QED
      BY <3>2
  <2>2. QED
    BY <2>1
<1>7. n \in 1..n /\ n + 1 # 1 /\ (n + 1) - 1 = n
  OBVIOUS
<1>8. Fine(n)
  BY <1>5, <1>7
<1>9. FlattenSeq(parts) \in Texts /\ Len(FlattenSeq(parts)) = offs[n + 1]
  BY <1>1, <1>7, <1>8
<1>10. ASSUME NEW i \in 1..n
       PROVE  offs[i + 1] = offs[i] + Len(parts[i])
  <2>1. i + 1 \in 1..(n + 1) /\ i \in 1..(n + 1) /\ i + 1 # 1 /\ (i + 1) - 1 = i
    OBVIOUS
  <2>2. offs[i + 1] = Len(f[i])
    BY <2>1
  <2>3. CASE i = 1
    <3>1. f[1] = parts[1] /\ offs[1] = 0 /\ 0 + Len(parts[1]) = Len(parts[1])
      BY <1>1, <1>2, <2>3
    <3>2. QED
      BY <2>2, <2>3, <3>1
  <2>4. CASE i # 1
    <3>1. i > 1 /\ Fine(i)
      BY <1>5, <2>4
    <3>2. offs[i] = Len(f[i - 1])
      BY <2>1, <2>4
    <3>3. Len(f[i]) = Len(f[i - 1]) + Len(parts[i])
      BY <3>1
    <3> HIDE DEF offs, Fine
    <3>4. QED
      BY <2>2, <3>2, <3>3
  <2>5. QED
    BY <2>3, <2>4
<1>11. ASSUME NEW i \in 1..n, NEW k \in 1..Len(parts[i])
       PROVE  FlattenSeq(parts)[offs[i] + k] = parts[i][k]
  <2>1. i \in 1..(n + 1)
    OBVIOUS
  <2>2. QED
    BY <1>1, <1>8, <2>1
<1>12. offs[1] = 0
  OBVIOUS
<1> HIDE DEF offs
<1>13. QED
  BY <1>6, <1>9, <1>10, <1>11, <1>12

-----------------------------------------------------------------------------
\* A title has no line with a dot.
Tidy(t) ==
  \A k \in 1..Len(t) :
    t[k] = Dot => ~((k = 1 \/ t[k - 1] = EOL) /\ (k = Len(t) \/ t[k + 1] = EOL))

\* The questions that are ever accepted.
Questions ==
  { q \in [tags : Texts, title : Texts, choices : 2..3, solution : Tokens] :
      /\ \A k \in 1..Len(q.tags) : q.tags[k] # EOL
      /\ Tidy(q.title)
      /\ \E k \in 1..q.choices : q.solution = Letters[k] }

LEMMA ShortTexts ==
  /\ \A a \in Tokens : <<a>> \in Texts /\ Len(<<a>>) = 1 /\ <<a>>[1] = a
  /\ \A a, b \in Tokens : /\ <<a, b>> \in Texts /\ Len(<<a, b>>) = 2
                          /\ <<a, b>>[1] = a /\ <<a, b>>[2] = b
  /\ \A a, b, c \in Tokens :
       /\ <<a, b, c>> \in Texts /\ Len(<<a, b, c>>) = 3
       /\ <<a, b, c>>[1] = a /\ <<a, b, c>>[2] = b /\ <<a, b, c>>[3] = c
  /\ \A a, b, c, d \in Tokens :
       /\ <<a, b, c, d>> \in Texts /\ Len(<<a, b, c, d>>) = 4
       /\ <<a, b, c, d>>[1] = a /\ <<a, b, c, d>>[2] = b
       /\ <<a, b, c, d>>[3] = c /\ <<a, b, c, d>>[4] = d
<1>1. \A a \in Tokens : <<a>> \in Texts /\ Len(<<a>>) = 1 /\ <<a>>[1] = a
  BY DEF Texts
<1>2. \A a, b \in Tokens : /\ <<a, b>> \in Texts /\ Len(<<a, b>>) = 2
                           /\ <<a, b>>[1] = a /\ <<a, b>>[2] = b
  BY DEF Texts
<1>3. \A a, b, c \in Tokens :
        /\ <<a, b, c>> \in Texts /\ Len(<<a, b, c>>) = 3
        /\ <<a, b, c>>[1] = a /\ <<a, b, c>>[2] = b /\ <<a, b, c>>[3] = c
  BY DEF Texts
<1>4. \A a, b, c, d \in Tokens :
        /\ <<a, b, c, d>> \in Texts /\ Len(<<a, b, c, d>>) = 4
        /\ <<a, b, c, d>>[1] = a /\ <<a, b, c, d>>[2] = b
        /\ <<a, b, c, d>>[3] = c /\ <<a, b, c, d>>[4] = d
  BY DEF Texts
<1>5. QED
  BY <1>1, <1>2, <1>3, <1>4

ChoicesText(c) == FlattenSeq([k \in 1..c |-> <<Choice(k), EOL, Dot, EOL>>])

\* Where the choices are in the text of a question.
LEMMA ChoicesLaid ==
  ASSUME NEW c \in 2..3
  PROVE  /\ ChoicesText(c) \in Texts /\ Len(ChoicesText(c)) = 4 * c
         /\ \A k \in 1..c : /\ ChoicesText(c)[4 * k - 3] = Choice(k)
                            /\ ChoicesText(c)[4 * k - 2] = EOL
                            /\ ChoicesText(c)[4 * k - 1] = Dot
                            /\ ChoicesText(c)[4 * k] = EOL
<1> DEFINE parts == [k \in 1..c |-> <<Choice(k), EOL, Dot, EOL>>]
<1>1. \A k \in 1..c : k \in 1..3
  OBVIOUS
<1>2. \A k \in 1..c : /\ parts[k] \in Texts /\ Len(parts[k]) = 4
                      /\ parts[k][1] = Choice(k) /\ parts[k][2] = EOL
                      /\ parts[k][3] = Dot /\ parts[k][4] = EOL
  BY <1>1, ShortTexts, ChoicesApart, TokenTypes
<1>3. parts \in Seq(Texts) /\ Len(parts) = c /\ c \in Nat \ {0}
  <2> HIDE DEF Choice
  <2>1. parts \in [1..c -> Texts]
    BY <1>2
  <2>2. QED
    BY <2>1
<1>4. ChoicesText(c) = FlattenSeq(parts)
  BY DEF ChoicesText
<1> HIDE DEF parts
<1>5. PICK offs \in [1..(c + 1) -> Nat] :
        /\ offs[1] = 0 /\ \A i \in 1..c : offs[i + 1] = offs[i] + Len(parts[i])
        /\ FlattenSeq(parts) \in Texts /\ Len(FlattenSeq(parts)) = offs[c + 1]
        /\ \A i \in 1..c : \A k \in 1..Len(parts[i]) :
             FlattenSeq(parts)[offs[i] + k] = parts[i][k]
  BY <1>3, Flattened
<1>6. \A i \in 1..c : offs[i + 1] = offs[i] + 4
  BY <1>2, <1>5
<1>7. offs[1] = 0 /\ offs[2] = 4 /\ offs[3] = 8 /\ (c = 3 => offs[4] = 12)
  <2>1. 1 \in 1..c /\ 2 \in 1..c /\ (c = 3 => 3 \in 1..c) /\ 1 + 1 = 2 /\ 2 + 1 = 3 /\ 3 + 1 = 4
    OBVIOUS
  <2>2. offs[1] = 0 /\ offs[2] = 4
    BY <1>5, <1>6, <2>1
  <2>3. offs[3] = 8
    BY <1>6, <2>1, <2>2
  <2>4. QED
    BY <1>6, <2>1, <2>2, <2>3
<1>8. \A i \in 1..(c + 1) : offs[i] = 4 * (i - 1)
  <2>1. \A i \in 1..(c + 1) : i = 1 \/ i = 2 \/ i = 3 \/ (i = 4 /\ c = 3)
    OBVIOUS
  <2>2. QED
    BY <1>7, <2>1
<1>9. \A i \in 1..c : \A k \in 1..4 : FlattenSeq(parts)[4 * (i - 1) + k] = parts[i][k]
  <2> SUFFICES ASSUME NEW i \in 1..c, NEW k \in 1..4
               PROVE  FlattenSeq(parts)[4 * (i - 1) + k] = parts[i][k]
    OBVIOUS
  <2>1. k \in 1..Len(parts[i])
    BY <1>2
  <2>2. offs[i] = 4 * (i - 1)
    BY <1>8
  <2>3. FlattenSeq(parts)[offs[i] + k] = parts[i][k]
    BY <1>5, <2>1
  <2>4. QED
    BY <2>2, <2>3
<1>10. Len(FlattenSeq(parts)) = 4 * c
  <2>1. c + 1 \in 1..(c + 1) /\ (c + 1) - 1 = c
    OBVIOUS
  <2>2. QED
    BY <1>5, <1>8, <2>1
<1>11. ASSUME NEW k \in 1..c
       PROVE  /\ ChoicesText(c)[4 * k - 3] = Choice(k)
              /\ ChoicesText(c)[4 * k - 2] = EOL
              /\ ChoicesText(c)[4 * k - 1] = Dot
              /\ ChoicesText(c)[4 * k] = EOL
  <2>1. /\ 4 * (k - 1) + 1 = 4 * k - 3 /\ 4 * (k - 1) + 2 = 4 * k - 2
        /\ 4 * (k - 1) + 3 = 4 * k - 1 /\ 4 * (k - 1) + 4 = 4 * k
    OBVIOUS
  <2>2. 1 \in 1..4 /\ 2 \in 1..4 /\ 3 \in 1..4 /\ 4 \in 1..4
    OBVIOUS
  <2>3. \A i \in 1..4 : FlattenSeq(parts)[4 * (k - 1) + i] = parts[k][i]
    BY <1>9
  <2>4. /\ FlattenSeq(parts)[4 * k - 3] = parts[k][1] /\ FlattenSeq(parts)[4 * k - 2] = parts[k][2]
        /\ FlattenSeq(parts)[4 * k - 1] = parts[k][3] /\ FlattenSeq(parts)[4 * k] = parts[k][4]
    <3>1. /\ FlattenSeq(parts)[4 * (k - 1) + 1] = parts[k][1]
          /\ FlattenSeq(parts)[4 * (k - 1) + 2] = parts[k][2]
          /\ FlattenSeq(parts)[4 * (k - 1) + 3] = parts[k][3]
          /\ FlattenSeq(parts)[4 * (k - 1) + 4] = parts[k][4]
      BY <2>2, <2>3
    <3>2. QED
      BY <2>1, <3>1
  <2>5. parts[k][1] = Choice(k) /\ parts[k][2] = EOL /\ parts[k][3] = Dot /\ parts[k][4] = EOL
    BY <1>2
  <2>6. QED
    BY <1>4, <2>4, <2>5
<1>12. QED
  BY <1>4, <1>5, <1>10, <1>11

\* Where the parts of a question are in its text, when its tags and its title have
\* g and t words, and it has c choices.
Layout(x, q, g, t, c) ==
  /\ x \in Texts /\ Len(x) = g + t + 4 * c + 8
  /\ \A k \in 1..g : x[k] = q.tags[k]
  /\ x[g + 1] = EOL
  /\ \A k \in 1..t : x[k + (g + 1)] = q.title[k]
  /\ x[g + t + 2] = EOL /\ x[g + t + 3] = Dot /\ x[g + t + 4] = EOL
  /\ \A k \in 1..(4 * c) : x[k + (g + t + 4)] = ChoicesText(c)[k]
  /\ x[g + t + 4 * c + 5] = Dot /\ x[g + t + 4 * c + 6] = EOL
  /\ x[g + t + 4 * c + 7] = q.solution /\ x[g + t + 4 * c + 8] = EOL

LEMMA QuestionLaid ==
  ASSUME NEW q \in Questions
  PROVE  Layout(QuestionText(q), q, Len(q.tags), Len(q.title), q.choices)
<1>0. PICK g \in Nat, t \in Nat, c \in 2..3 : g = Len(q.tags) /\ t = Len(q.title) /\ c = q.choices
  BY DEF Questions, Texts
<1>1. PICK F : g = Len(q.tags) /\ t = Len(q.title) /\ c = q.choices /\ F = ChoicesText(c)
  BY <1>0
<1>2. q.tags \in Texts /\ q.title \in Texts /\ q.solution \in Tokens
  BY DEF Questions
<1>3. F \in Texts /\ Len(F) = 4 * c
  BY <1>1, ChoicesLaid
<1>4. /\ <<EOL>> \in Texts /\ Len(<<EOL>>) = 1 /\ <<EOL>>[1] = EOL
      /\ <<EOL, Dot, EOL>> \in Texts /\ Len(<<EOL, Dot, EOL>>) = 3
      /\ <<EOL, Dot, EOL>>[1] = EOL /\ <<EOL, Dot, EOL>>[2] = Dot /\ <<EOL, Dot, EOL>>[3] = EOL
      /\ <<Dot, EOL>> \in Texts /\ Len(<<Dot, EOL>>) = 2
      /\ <<Dot, EOL>>[1] = Dot /\ <<Dot, EOL>>[2] = EOL
  BY ShortTexts, TokenTypes
<1>5. /\ <<q.solution, EOL>> \in Texts /\ Len(<<q.solution, EOL>>) = 2
      /\ <<q.solution, EOL>>[1] = q.solution /\ <<q.solution, EOL>>[2] = EOL
  BY <1>2, ShortTexts, TokenTypes
<1> DEFINE t1 == q.tags \o <<EOL>>
           t2 == t1 \o q.title
           t3 == t2 \o <<EOL, Dot, EOL>>
           t4 == t3 \o F
           t5 == t4 \o <<Dot, EOL>>
           t6 == t5 \o <<q.solution, EOL>>
<1>6. QuestionText(q) = t6
  BY <1>1 DEF QuestionText, ChoicesText
<1>7. /\ t1 \in Texts /\ Len(t1) = g + 1
      /\ \A k \in 1..g : t1[k] = q.tags[k]
      /\ t1[g + 1] = EOL
  <2>1. /\ t1 \in Texts /\ Len(t1) = Len(q.tags) + Len(<<EOL>>)
        /\ \A k \in 1..Len(q.tags) : t1[k] = q.tags[k]
        /\ \A k \in 1..Len(<<EOL>>) : t1[k + Len(q.tags)] = <<EOL>>[k]
    BY <1>2, <1>4, Joined
  <2>2. 1 \in 1..1 /\ 1 + g = g + 1
    OBVIOUS
  <2> HIDE DEF t1
  <2>3. t1[1 + g] = EOL
    BY <1>1, <1>4, <2>1, <2>2
  <2>4. QED
    BY <1>1, <1>4, <2>1, <2>2, <2>3
<1> HIDE DEF t1
<1>8. /\ t2 \in Texts /\ Len(t2) = g + 1 + t
      /\ \A k \in 1..(g + 1) : t2[k] = t1[k]
      /\ \A k \in 1..t : t2[k + (g + 1)] = q.title[k]
  <2>1. /\ t2 \in Texts /\ Len(t2) = Len(t1) + Len(q.title)
        /\ \A k \in 1..Len(t1) : t2[k] = t1[k]
        /\ \A k \in 1..Len(q.title) : t2[k + Len(t1)] = q.title[k]
    BY <1>2, <1>7, Joined
  <2> HIDE DEF t2
  <2>2. QED
    BY <1>1, <1>7, <2>1
<1> HIDE DEF t2
<1>9. /\ t3 \in Texts /\ Len(t3) = g + t + 4
      /\ \A k \in 1..(g + 1 + t) : t3[k] = t2[k]
      /\ t3[g + t + 2] = EOL /\ t3[g + t + 3] = Dot /\ t3[g + t + 4] = EOL
  <2>1. /\ t3 \in Texts /\ Len(t3) = Len(t2) + Len(<<EOL, Dot, EOL>>)
        /\ \A k \in 1..Len(t2) : t3[k] = t2[k]
        /\ \A k \in 1..Len(<<EOL, Dot, EOL>>) : t3[k + Len(t2)] = <<EOL, Dot, EOL>>[k]
    BY <1>4, <1>8, Joined
  <2> HIDE DEF t3
  <2>2. /\ 1 \in 1..3 /\ 2 \in 1..3 /\ 3 \in 1..3
        /\ 1 + (g + 1 + t) = g + t + 2 /\ 2 + (g + 1 + t) = g + t + 3 /\ 3 + (g + 1 + t) = g + t + 4
    OBVIOUS
  <2>3. t3[1 + (g + 1 + t)] = EOL /\ t3[2 + (g + 1 + t)] = Dot /\ t3[3 + (g + 1 + t)] = EOL
    BY <1>4, <1>8, <2>1, <2>2
  <2>4. QED
    BY <1>4, <1>8, <2>1, <2>2, <2>3
<1> HIDE DEF t3
<1>10. /\ t4 \in Texts /\ Len(t4) = g + t + 4 + 4 * c
       /\ \A k \in 1..(g + t + 4) : t4[k] = t3[k]
       /\ \A k \in 1..(4 * c) : t4[k + (g + t + 4)] = F[k]
  <2>1. /\ t4 \in Texts /\ Len(t4) = Len(t3) + Len(F)
        /\ \A k \in 1..Len(t3) : t4[k] = t3[k]
        /\ \A k \in 1..Len(F) : t4[k + Len(t3)] = F[k]
    BY <1>3, <1>9, Joined
  <2> HIDE DEF t4
  <2>2. QED
    BY <1>3, <1>9, <2>1
<1> HIDE DEF t4
<1>11. /\ t5 \in Texts /\ Len(t5) = g + t + 4 * c + 6
       /\ \A k \in 1..(g + t + 4 + 4 * c) : t5[k] = t4[k]
       /\ t5[g + t + 4 * c + 5] = Dot /\ t5[g + t + 4 * c + 6] = EOL
  <2>1. /\ t5 \in Texts /\ Len(t5) = Len(t4) + Len(<<Dot, EOL>>)
        /\ \A k \in 1..Len(t4) : t5[k] = t4[k]
        /\ \A k \in 1..Len(<<Dot, EOL>>) : t5[k + Len(t4)] = <<Dot, EOL>>[k]
    BY <1>4, <1>10, Joined
  <2> HIDE DEF t5
  <2>2. /\ 1 \in 1..2 /\ 2 \in 1..2
        /\ 1 + (g + t + 4 + 4 * c) = g + t + 4 * c + 5 /\ 2 + (g + t + 4 + 4 * c) = g + t + 4 * c + 6
    OBVIOUS
  <2>3. t5[1 + (g + t + 4 + 4 * c)] = Dot /\ t5[2 + (g + t + 4 + 4 * c)] = EOL
    BY <1>4, <1>10, <2>1, <2>2
  <2>4. QED
    BY <1>4, <1>10, <2>1, <2>2, <2>3
<1> HIDE DEF t5
<1>12. /\ t6 \in Texts /\ Len(t6) = g + t + 4 * c + 8
       /\ \A k \in 1..(g + t + 4 * c + 6) : t6[k] = t5[k]
       /\ t6[g + t + 4 * c + 7] = q.solution /\ t6[g + t + 4 * c + 8] = EOL
  <2>1. /\ t6 \in Texts /\ Len(t6) = Len(t5) + Len(<<q.solution, EOL>>)
        /\ \A k \in 1..Len(t5) : t6[k] = t5[k]
        /\ \A k \in 1..Len(<<q.solution, EOL>>) : t6[k + Len(t5)] = <<q.solution, EOL>>[k]
    BY <1>5, <1>11, Joined
  <2> HIDE DEF t6
  <2>2. /\ 1 \in 1..2 /\ 2 \in 1..2
        /\ 1 + (g + t + 4 * c + 6) = g + t + 4 * c + 7 /\ 2 + (g + t + 4 * c + 6) = g + t + 4 * c + 8
    OBVIOUS
  <2>3. t6[1 + (g + t + 4 * c + 6)] = q.solution /\ t6[2 + (g + t + 4 * c + 6)] = EOL
    BY <1>5, <1>11, <2>1, <2>2
  <2>4. QED
    BY <1>5, <1>11, <2>1, <2>2, <2>3
<1> HIDE DEF t6
<1>13. \A k \in 1..g : t6[k] = q.tags[k]
  <2> TAKE k \in 1..g
  <2>1. /\ k \in 1..(g + 1) /\ k \in 1..(g + 1 + t) /\ k \in 1..(g + t + 4)
        /\ k \in 1..(g + t + 4 + 4 * c) /\ k \in 1..(g + t + 4 * c + 6)
    OBVIOUS
  <2>2. QED
    BY <1>7, <1>8, <1>9, <1>10, <1>11, <1>12, <2>1
<1>14. t6[g + 1] = EOL
  <2>1. /\ g + 1 \in 1..(g + 1) /\ g + 1 \in 1..(g + 1 + t) /\ g + 1 \in 1..(g + t + 4)
        /\ g + 1 \in 1..(g + t + 4 + 4 * c) /\ g + 1 \in 1..(g + t + 4 * c + 6)
    OBVIOUS
  <2>2. QED
    BY <1>7, <1>8, <1>9, <1>10, <1>11, <1>12, <2>1
<1>15. \A k \in 1..t : t6[k + (g + 1)] = q.title[k]
  <2> TAKE k \in 1..t
  <2>1. /\ k + (g + 1) \in 1..(g + 1 + t) /\ k + (g + 1) \in 1..(g + t + 4)
        /\ k + (g + 1) \in 1..(g + t + 4 + 4 * c) /\ k + (g + 1) \in 1..(g + t + 4 * c + 6)
    OBVIOUS
  <2> DEFINE x == k + (g + 1)
  <2>2. t2[x] = q.title[k]
    BY <1>8
  <2> HIDE DEF x
  <2>3. t6[x] = t5[x] /\ t5[x] = t4[x]
    BY <1>11, <1>12, <2>1 DEF x
  <2>4. t4[x] = t3[x] /\ t3[x] = t2[x]
    BY <1>9, <1>10, <2>1 DEF x
  <2>5. QED
    BY <2>2, <2>3, <2>4 DEF x
<1>16. \A k \in (g + t + 2)..(g + t + 4) : t6[k] = t3[k]
  <2> TAKE k \in (g + t + 2)..(g + t + 4)
  <2>1. k \in 1..(g + t + 4) /\ k \in 1..(g + t + 4 + 4 * c) /\ k \in 1..(g + t + 4 * c + 6)
    OBVIOUS
  <2>2. QED
    BY <1>10, <1>11, <1>12, <2>1
<1>17. t6[g + t + 2] = EOL /\ t6[g + t + 3] = Dot /\ t6[g + t + 4] = EOL
  <2>1. /\ g + t + 2 \in (g + t + 2)..(g + t + 4) /\ g + t + 3 \in (g + t + 2)..(g + t + 4)
        /\ g + t + 4 \in (g + t + 2)..(g + t + 4)
    OBVIOUS
  <2>2. QED
    BY <1>9, <1>16, <2>1
<1>18. \A k \in 1..(4 * c) : t6[k + (g + t + 4)] = F[k]
  <2> TAKE k \in 1..(4 * c)
  <2>1. k + (g + t + 4) \in 1..(g + t + 4 + 4 * c) /\ k + (g + t + 4) \in 1..(g + t + 4 * c + 6)
    OBVIOUS
  <2>2. QED
    BY <1>10, <1>11, <1>12, <2>1
<1>19. t6[g + t + 4 * c + 5] = Dot /\ t6[g + t + 4 * c + 6] = EOL
  <2>1. g + t + 4 * c + 5 \in 1..(g + t + 4 * c + 6) /\ g + t + 4 * c + 6 \in 1..(g + t + 4 * c + 6)
    OBVIOUS
  <2>2. QED
    BY <1>11, <1>12, <2>1
<1>20. Layout(t6, q, g, t, c)
  BY <1>1, <1>12, <1>13, <1>14, <1>15, <1>17, <1>18, <1>19 DEF Layout
<1>21. QED
  BY <1>1, <1>6, <1>20

\* The choices, line by line.
LEMMA ChoicesUnfold ==
  ASSUME NEW s, NEW p
  PROVE  \E f : /\ ChoicesFrom(s, p) = (IF f[2 * Len(Letters) + 2].end = "read"
                                     THEN IF f[2 * Len(Letters) + 2].value.n < 2 THEN Threw
                                          ELSE Read(f[2 * Len(Letters) + 2].value.n, f[2 * Len(Letters) + 2].next)
                                     ELSE f[2 * Len(Letters) + 2])
                /\ f[0] = Read([n |-> 0, dots |-> 0], p)
                /\ \A k \in 1..(2 * Len(Letters) + 2) : f[k] = (IF f[k - 1].end = "read"
                                        THEN IF f[k - 1].value.dots = 2 THEN f[k - 1]
                                             ELSE ChoiceLine(s, f[k - 1])
                                        ELSE f[k - 1])
<1>0. PICK z \in Nat : z = 2 * Len(Letters) + 2
  BY LettersApart
<1> DEFINE Step(f, k) == IF k = 0 THEN Read([n |-> 0, dots |-> 0], p)
                         ELSE (IF f[k - 1].end = "read"
                                        THEN IF f[k - 1].value.dots = 2 THEN f[k - 1]
                                             ELSE ChoiceLine(s, f[k - 1])
                                        ELSE f[k - 1])
           S == { m \in Nat : \E f : f = [k \in 0..m |-> Step(f, k)] }
<1>1. 0 \in S
  <2> DEFINE g == [k \in 0..0 |-> Read([n |-> 0, dots |-> 0], p)]
  <2>1. \A k \in 0..0 : k = 0
    OBVIOUS
  <2>2. g = [k \in 0..0 |-> Step(g, k)]
    BY <2>1
  <2>3. QED
    <3> HIDE DEF g, Step
    <3> QED
      BY <2>2
<1>2. ASSUME NEW m \in Nat, m \in S
      PROVE  m + 1 \in S
  <2>1. PICK f : f = [k \in 0..m |-> Step(f, k)]
    BY <1>2
  <2> DEFINE g == [k \in 0..(m + 1) |-> IF k = m + 1 THEN Step(f, k) ELSE f[k]]
  <2>2. ASSUME NEW k \in 0..(m + 1)
        PROVE  g[k] = Step(g, k)
    <3>1. k = 0 \/ (k - 1 \in 0..(m + 1) /\ k - 1 # m + 1)
      OBVIOUS
    <3>2. k = 0 \/ g[k - 1] = f[k - 1]
      BY <3>1
    <3>3. Step(g, k) = Step(f, k)
      <4> HIDE DEF g
      <4> QED
        BY <3>2
    <3>4. k = m + 1 \/ k \in 0..m
      OBVIOUS
    <3>5. k \in 0..m => f[k] = Step(f, k)
      <4> HIDE DEF Step
      <4> QED
        BY <2>1
    <3> HIDE DEF Step
    <3>6. QED
      BY <3>3, <3>4, <3>5
  <2>3. g = [k \in 0..(m + 1) |-> Step(g, k)]
    <3> HIDE DEF Step
    <3> DEFINE h == [k \in 0..(m + 1) |-> Step(g, k)]
    <3>1. \A k \in 0..(m + 1) : g[k] = h[k]
      BY <2>2
    <3>2. QED
      BY <3>1
  <2>4. QED
    <3> HIDE DEF g, Step
    <3> QED
      BY <2>3
<1>3. z \in S
  <2> HIDE DEF S
  <2> QED
    BY <1>1, <1>2, Counting
<1> DEFINE after == CHOOSE after : after = [k \in 0..(2 * Len(Letters) + 2) |-> Step(after, k)]
<1>4. after = [k \in 0..z |-> Step(after, k)]
  <2> HIDE DEF Step
  <2>1. \E f : f = [k \in 0..(2 * Len(Letters) + 2) |-> Step(f, k)]
    BY <1>0, <1>3
  <2>2. after = [k \in 0..(2 * Len(Letters) + 2) |-> Step(after, k)]
    BY <2>1
  <2>3. QED
    BY <1>0, <2>2
<1>5. ChoicesFrom(s, p) = (IF after[2 * Len(Letters) + 2].end = "read"
                                     THEN IF after[2 * Len(Letters) + 2].value.n < 2 THEN Threw
                                          ELSE Read(after[2 * Len(Letters) + 2].value.n, after[2 * Len(Letters) + 2].next)
                                     ELSE after[2 * Len(Letters) + 2])
  BY DEF ChoicesFrom, Then
<1> HIDE DEF after
<1>6. \A k \in 0..z : after[k] = Step(after, k)
  <2> HIDE DEF Step
  <2> QED
    BY <1>4
<1>7. after[0] = Step(after, 0) /\ \A k \in 1..z : after[k] = Step(after, k) /\ k # 0
  BY <1>6
<1>8. QED
  BY <1>0, <1>5, <1>7

\* A line of one word.
LEMMA OneWordLine ==
  ASSUME NEW s \in Texts, NEW x \in 1..Len(s), s[x] # EOL, x = Len(s) \/ s[x + 1] = EOL
  PROVE  Line(s, x) = <<s[x]>> /\ NextLine(s, x) = x + 2
<1>1. Len(s) \in Nat
  BY DEF Texts
<1>2. LineEnd(s, x) = x + 1
  <2>1. x + 1 \in x..(Len(s) + 1) /\ (x + 1 > Len(s) \/ s[x + 1] = EOL)
    BY <1>1
  <2>2. \A k \in x..((x + 1) - 1) : k = x
    OBVIOUS
  <2>3. x \in Nat
    OBVIOUS
  <2>4. QED
    BY <2>1, <2>2, <2>3, LineEndIs
<1>3. SubSeq(s, x, (x + 1) - 1) \in Texts /\ Len(SubSeq(s, x, (x + 1) - 1)) = 1
      /\ SubSeq(s, x, (x + 1) - 1)[1] = s[x]
  <2>1. PICK j \in Nat : j = (x + 1) - 1 /\ j <= Len(s) /\ x <= j + 1 /\ j + 1 - x = 1 /\ x + 1 - 1 = x
    BY <1>1
  <2>2. 1 \in 1..1 /\ x \in Nat \ {0}
    OBVIOUS
  <2>3. /\ SubSeq(s, x, j) \in Texts
        /\ x <= j + 1 => Len(SubSeq(s, x, j)) = j + 1 - x
        /\ \A k \in 1..(j + 1 - x) : SubSeq(s, x, j)[k] = s[x + k - 1]
    BY <2>1, <2>2, Part
  <2>4. QED
    BY <2>1, <2>2, <2>3
<1>4. s[x] \in Tokens
  BY DEF Texts
<1>5. <<s[x]>> \in Texts /\ Len(<<s[x]>>) = 1 /\ <<s[x]>>[1] = s[x]
  BY <1>4, ShortTexts
<1>6. \A k \in 1..1 : k = 1
  OBVIOUS
<1>7. SubSeq(s, x, (x + 1) - 1) = <<s[x]>>
  BY <1>3, <1>5, <1>6, SameText
<1>8. QED
  BY <1>2, <1>7 DEF Line, NextLine

LEMMA ChoiceLineIs ==
  ASSUME NEW s \in Texts, NEW x \in Nat \ {0}, NEW n \in Nat, NEW d \in Nat
  PROVE  /\ x > Len(s) => ChoiceLine(s, Read([n |-> n, dots |-> d], x)) = Threw
         /\ x <= Len(s) /\ (x = Len(s) \/ s[x + 1] = EOL) =>
              /\ s[x] = Dot => ChoiceLine(s, Read([n |-> n, dots |-> d], x)) = Read([n |-> n, dots |-> d + 1], x + 2)
              /\ n < 3 /\ s[x] = Choice(n + 1) =>
                   ChoiceLine(s, Read([n |-> n, dots |-> d], x)) = Read([n |-> n + 1, dots |-> 0], x + 2)
<1> DEFINE c == Read([n |-> n, dots |-> d], x)
<1>1. Len(s) \in Nat
  BY DEF Texts
<1>2. c.next = x /\ c.value = [n |-> n, dots |-> d]
  BY WhatReadIs
<1>3. c.value.n = n /\ [c.value EXCEPT !.dots = @ + 1] = [n |-> n, dots |-> d + 1]
  BY <1>2
<1> HIDE DEF c
<1>4. ASSUME x > Len(s)
      PROVE  ChoiceLine(s, c) = Threw
  BY <1>1, <1>2, <1>4 DEF ChoiceLine, IsThere
<1>5. ASSUME x <= Len(s), x = Len(s) \/ s[x + 1] = EOL, s[x] = Dot
      PROVE  ChoiceLine(s, c) = Read([n |-> n, dots |-> d + 1], x + 2)
  <2>1. x \in 1..Len(s)
    BY <1>1, <1>5
  <2>2. Line(s, x) = <<Dot>> /\ NextLine(s, x) = x + 2
    BY <1>5, <2>1, OneWordLine, TokensApart
  <2>3. QED
    BY <1>2, <1>3, <1>5, <2>2 DEF ChoiceLine, IsThere
<1>6. ASSUME x <= Len(s), x = Len(s) \/ s[x + 1] = EOL, n < 3, s[x] = Choice(n + 1)
      PROVE  ChoiceLine(s, c) = Read([n |-> n + 1, dots |-> 0], x + 2)
  <2>1. x \in 1..Len(s) /\ n + 1 \in 1..3
    BY <1>1, <1>6
  <2>2. Choice(n + 1) # EOL /\ Choice(n + 1) # Dot
    BY <2>1, ChoicesApart
  <2>3. Line(s, x) = <<Choice(n + 1)>> /\ NextLine(s, x) = x + 2
    BY <1>6, <2>1, <2>2, OneWordLine
  <2>4. <<Choice(n + 1)>> # <<Dot>>
    BY <2>2
  <2>5. QED
    BY <1>2, <1>3, <1>6, <2>3, <2>4, LettersApart DEF ChoiceLine, IsThere
<1>7. QED
  BY <1>4, <1>5, <1>6 DEF c

\* Where reading the choices stands: before the line at x, or ended.
Stands(s, x, n, d, r) ==
  /\ x <= Len(s) + 2 => r = Read([n |-> n, dots |-> d], x)
  /\ x > Len(s) + 2 => r.end # "read"

LEMMA OneMoreLine ==
  ASSUME NEW s \in Texts, NEW x \in Nat \ {0}, NEW n \in Nat, NEW d \in Nat, d # 2,
         NEW r, Stands(s, x, n, d, r), x >= Len(s) \/ s[x + 1] = EOL
  PROVE  LET r1 == IF r.end = "read" THEN IF r.value.dots = 2 THEN r ELSE ChoiceLine(s, r) ELSE r
         IN /\ (x <= Len(s) => s[x] = Dot) => Stands(s, x + 2, n, d + 1, r1)
            /\ n < 3 /\ (x <= Len(s) => s[x] = Choice(n + 1)) => Stands(s, x + 2, n + 1, 0, r1)
<1> DEFINE r1 == IF r.end = "read" THEN IF r.value.dots = 2 THEN r ELSE ChoiceLine(s, r) ELSE r
           c == Read([n |-> n, dots |-> d], x)
<1>1. Len(s) \in Nat
  BY DEF Texts
<1>2. c.end = "read" /\ c.value.dots = d
  <2>1. c.end = "read" /\ c.value = [n |-> n, dots |-> d]
    BY WhatReadIs
  <2>2. QED
    BY <2>1
<1>3. /\ x > Len(s) => ChoiceLine(s, c) = Threw
      /\ x <= Len(s) /\ (x = Len(s) \/ s[x + 1] = EOL) =>
           /\ s[x] = Dot => ChoiceLine(s, c) = Read([n |-> n, dots |-> d + 1], x + 2)
           /\ n < 3 /\ s[x] = Choice(n + 1) =>
                ChoiceLine(s, c) = Read([n |-> n + 1, dots |-> 0], x + 2)
  BY ChoiceLineIs
<1>4. r = c \/ (x > Len(s) + 2 /\ r.end # "read")
  BY <1>1 DEF Stands
<1> HIDE DEF c
<1>5. CASE r = c
  <2>1. r1 = ChoiceLine(s, c)
    BY <1>2, <1>5
  <2> HIDE DEF r1
  <2>2. CASE x > Len(s)
    <3>1. r1.end # "read" /\ x + 2 > Len(s) + 2
      BY <1>1, <1>3, <2>1, <2>2, WhatEnds
    <3>2. QED
      BY <1>1, <3>1 DEF Stands, r1
  <2>3. CASE x <= Len(s)
    <3>1. (x = Len(s) \/ s[x + 1] = EOL) /\ x + 2 <= Len(s) + 2
      BY <1>1, <2>3
    <3>2. /\ s[x] = Dot => r1 = Read([n |-> n, dots |-> d + 1], x + 2)
          /\ n < 3 /\ s[x] = Choice(n + 1) => r1 = Read([n |-> n + 1, dots |-> 0], x + 2)
      BY <1>3, <2>1, <2>3, <3>1
    <3>3. ~(x + 2 > Len(s) + 2)
      BY <1>1, <3>1
    <3>4. /\ s[x] = Dot => Stands(s, x + 2, n, d + 1, r1)
          /\ n < 3 /\ s[x] = Choice(n + 1) => Stands(s, x + 2, n + 1, 0, r1)
      BY <3>2, <3>3 DEF Stands
    <3>5. QED
      BY <2>3, <3>4 DEF r1
  <2>4. QED
    BY <1>1, <2>2, <2>3
<1>6. CASE x > Len(s) + 2 /\ r.end # "read"
  <2>1. r1 = r /\ x + 2 > Len(s) + 2 /\ ~(x + 2 <= Len(s) + 2)
    BY <1>1, <1>6
  <2>2. QED
    BY <1>6, <2>1 DEF Stands
<1>7. QED
  BY <1>4, <1>5, <1>6

\* The choices are read when the dot behind them is there, and not without it.
LEMMA ChoicesRead ==
  ASSUME NEW s \in Texts, NEW b \in Nat \ {0}, NEW c \in 2..3, b <= Len(s) + 2,
         \A k \in 1..c : /\ b + 4 * k - 4 <= Len(s) => s[b + 4 * k - 4] = Choice(k)
                         /\ b + 4 * k - 3 <= Len(s) => s[b + 4 * k - 3] = EOL
                         /\ b + 4 * k - 2 <= Len(s) => s[b + 4 * k - 2] = Dot
                         /\ b + 4 * k - 1 <= Len(s) => s[b + 4 * k - 1] = EOL,
         b + 4 * c <= Len(s) => s[b + 4 * c] = Dot,
         b + 4 * c + 1 <= Len(s) => s[b + 4 * c + 1] = EOL
  PROVE  /\ b + 4 * c <= Len(s) => ChoicesFrom(s, b) = Read(c, b + 4 * c + 2)
         /\ b + 4 * c > Len(s) => ChoicesFrom(s, b).end # "read"
<1>1. PICK f : /\ ChoicesFrom(s, b) = (IF f[2 * Len(Letters) + 2].end = "read"
                                     THEN IF f[2 * Len(Letters) + 2].value.n < 2 THEN Threw
                                          ELSE Read(f[2 * Len(Letters) + 2].value.n, f[2 * Len(Letters) + 2].next)
                                     ELSE f[2 * Len(Letters) + 2])
               /\ f[0] = Read([n |-> 0, dots |-> 0], b)
               /\ \A k \in 1..(2 * Len(Letters) + 2) : f[k] = (IF f[k - 1].end = "read"
                                        THEN IF f[k - 1].value.dots = 2 THEN f[k - 1]
                                             ELSE ChoiceLine(s, f[k - 1])
                                        ELSE f[k - 1])
  BY ONLY ChoicesUnfold
<1> DEFINE After(r) == IF r.end = "read" THEN IF r.value.dots = 2 THEN r ELSE ChoiceLine(s, r) ELSE r
<1>2. 2 * Len(Letters) + 2 = 8
  BY LettersApart
<1>3. ChoicesFrom(s, b) = (IF f[8].end = "read"
                             THEN IF f[8].value.n < 2 THEN Threw ELSE Read(f[8].value.n, f[8].next)
                             ELSE f[8])
  BY <1>1, <1>2
<1>4. /\ f[1] = After(f[0]) /\ f[2] = After(f[1]) /\ f[3] = After(f[2]) /\ f[4] = After(f[3])
      /\ f[5] = After(f[4]) /\ f[6] = After(f[5]) /\ f[7] = After(f[6]) /\ f[8] = After(f[7])
  <2>1. \A k \in 1..8 : f[k] = After(f[k - 1])
    BY <1>1, <1>2
  <2>2. /\ 1 \in 1..8 /\ 2 \in 1..8 /\ 3 \in 1..8 /\ 4 \in 1..8 /\ 5 \in 1..8 /\ 6 \in 1..8
        /\ 7 \in 1..8 /\ 8 \in 1..8 /\ 1 - 1 = 0 /\ 2 - 1 = 1 /\ 3 - 1 = 2 /\ 4 - 1 = 3
        /\ 5 - 1 = 4 /\ 6 - 1 = 5 /\ 7 - 1 = 6 /\ 8 - 1 = 7
    OBVIOUS
  <2> HIDE DEF After
  <2>3. QED
    BY <2>1, <2>2
<1>5. Len(s) \in Nat
  BY DEF Texts
<1>6. /\ b <= Len(s) => s[b] = Choice(1)
      /\ b + 1 <= Len(s) => s[b + 1] = EOL
      /\ b + 2 <= Len(s) => s[b + 2] = Dot
      /\ b + 3 <= Len(s) => s[b + 3] = EOL
      /\ b + 4 <= Len(s) => s[b + 4] = Choice(2)
      /\ b + 5 <= Len(s) => s[b + 5] = EOL
      /\ b + 6 <= Len(s) => s[b + 6] = Dot
      /\ b + 7 <= Len(s) => s[b + 7] = EOL
  <2>1. 1 \in 1..c /\ 2 \in 1..c
    OBVIOUS
  <2>2. b + 4 * 1 - 4 = b /\ b + 4 * 1 - 3 = b + 1 /\ b + 4 * 1 - 2 = b + 2 /\ b + 4 * 1 - 1 = b + 3
        /\ b + 4 * 2 - 4 = b + 4 /\ b + 4 * 2 - 3 = b + 5 /\ b + 4 * 2 - 2 = b + 6 /\ b + 4 * 2 - 1 = b + 7
    OBVIOUS
  <2>3. QED
    BY <2>1, <2>2
<1>7. ASSUME NEW x \in Nat \ {0}, NEW n \in Nat, NEW d \in Nat, d # 2, NEW r,
             Stands(s, x, n, d, r), x + 1 <= Len(s) => s[x + 1] = EOL
      PROVE  /\ (x <= Len(s) => s[x] = Dot) => Stands(s, x + 2, n, d + 1, After(r))
             /\ n < 3 /\ (x <= Len(s) => s[x] = Choice(n + 1)) => Stands(s, x + 2, n + 1, 0, After(r))
  <2>1. x >= Len(s) \/ s[x + 1] = EOL
    BY <1>5, <1>7
  <2>2. QED
    BY <1>7, <2>1, OneMoreLine
<1>8. ASSUME NEW x \in Nat \ {0}, NEW n \in Nat, NEW r, Stands(s, x, n, 2, r)
      PROVE  After(r) = r
  <2>1. r.end = "read" => r.value.dots = 2
    <3>1. r = Read([n |-> n, dots |-> 2], x) \/ r.end # "read"
      BY <1>5, <1>8 DEF Stands
    <3>2. Read([n |-> n, dots |-> 2], x).value = [n |-> n, dots |-> 2]
      BY WhatReadIs
    <3>3. QED
      BY <3>1, <3>2
  <2>2. QED
    BY <2>1
<1> HIDE DEF After
<1>9. Stands(s, b, 0, 0, f[0])
  BY <1>1, <1>5 DEF Stands
<1>10. Stands(s, b + 2, 1, 0, f[1])
  <2>1. 0 + 1 = 1 /\ 0 < 3 /\ 0 # 2 /\ 0 \in Nat
    OBVIOUS
  <2>2. QED
    BY <1>4, <1>6, <1>7, <1>9, <2>1
<1>11. Stands(s, b + 4, 1, 1, f[2])
  <2>1. 0 + 1 = 1 /\ 0 # 2 /\ 0 \in Nat /\ 1 \in Nat /\ (b + 2) + 1 = b + 3 /\ (b + 2) + 2 = b + 4 /\ b + 2 \in Nat \ {0}
    OBVIOUS
  <2>2. QED
    BY <1>4, <1>6, <1>7, <1>10, <2>1
<1>12. Stands(s, b + 6, 2, 0, f[3])
  <2>1. 1 + 1 = 2 /\ 1 < 3 /\ 1 # 2 /\ 1 \in Nat /\ (b + 4) + 1 = b + 5 /\ (b + 4) + 2 = b + 6 /\ b + 4 \in Nat \ {0}
    OBVIOUS
  <2>2. QED
    BY <1>4, <1>6, <1>7, <1>11, <2>1
<1>13. Stands(s, b + 8, 2, 1, f[4])
  <2>1. 0 + 1 = 1 /\ 0 # 2 /\ 0 \in Nat /\ 2 \in Nat /\ (b + 6) + 1 = b + 7 /\ (b + 6) + 2 = b + 8 /\ b + 6 \in Nat \ {0}
    OBVIOUS
  <2>2. QED
    BY <1>4, <1>6, <1>7, <1>12, <2>1
<1>14. Stands(s, b + 4 * c + 2, c, 2, f[8])
  <2>1. CASE c = 2
    <3>1. /\ b + 8 <= Len(s) => s[b + 8] = Dot
          /\ b + 9 <= Len(s) => s[b + 9] = EOL
      <4>1. b + 4 * c = b + 8 /\ b + 4 * c + 1 = b + 9
        BY <2>1
      <4>2. QED
        BY <4>1
    <3>2. 1 + 1 = 2 /\ 1 # 2 /\ 1 \in Nat /\ 2 \in Nat /\ (b + 8) + 1 = b + 9 /\ (b + 8) + 2 = b + 10 /\ b + 8 \in Nat \ {0}
          /\ b + 10 \in Nat \ {0} /\ b + 4 * 2 + 2 = b + 10
      OBVIOUS
    <3>3. Stands(s, b + 10, 2, 2, f[5])
      BY <1>4, <1>7, <1>13, <3>1, <3>2
    <3>4. f[6] = f[5] /\ f[7] = f[5] /\ f[8] = f[5]
      BY <1>4, <1>8, <3>2, <3>3
    <3>5. QED
      BY <2>1, <3>2, <3>3, <3>4
  <2>2. CASE c = 3
    <3>1. /\ b + 8 <= Len(s) => s[b + 8] = Choice(3)
          /\ b + 9 <= Len(s) => s[b + 9] = EOL
          /\ b + 10 <= Len(s) => s[b + 10] = Dot
          /\ b + 11 <= Len(s) => s[b + 11] = EOL
          /\ b + 12 <= Len(s) => s[b + 12] = Dot
          /\ b + 13 <= Len(s) => s[b + 13] = EOL
      <4>1. b + 4 * c = b + 12 /\ b + 4 * c + 1 = b + 13 /\ 3 \in 1..c
        BY <2>2
      <4>2. b + 4 * 3 - 4 = b + 8 /\ b + 4 * 3 - 3 = b + 9 /\ b + 4 * 3 - 2 = b + 10 /\ b + 4 * 3 - 1 = b + 11
        OBVIOUS
      <4>3. QED
        BY <4>1, <4>2
    <3>2. /\ 2 + 1 = 3 /\ 2 < 3 /\ 1 # 2 /\ 1 \in Nat /\ 2 \in Nat /\ (b + 8) + 1 = b + 9 /\ (b + 8) + 2 = b + 10
          /\ b + 8 \in Nat \ {0} /\ b + 10 \in Nat \ {0}
      OBVIOUS
    <3>3. Stands(s, b + 10, 3, 0, f[5])
      BY <1>4, <1>7, <1>13, <3>1, <3>2, SMTT(30)
    <3>4. /\ 0 + 1 = 1 /\ 0 # 2 /\ 0 \in Nat /\ 3 \in Nat /\ (b + 10) + 1 = b + 11 /\ (b + 10) + 2 = b + 12
          /\ b + 12 \in Nat \ {0} /\ (b + 12) + 1 = b + 13 /\ (b + 12) + 2 = b + 14 /\ b + 14 \in Nat \ {0}
          /\ 1 + 1 = 2 /\ b + 4 * 3 + 2 = b + 14
      OBVIOUS
    <3>5. Stands(s, b + 12, 3, 1, f[6])
      BY <1>4, <1>7, <3>1, <3>2, <3>3, <3>4
    <3>6. Stands(s, b + 14, 3, 2, f[7])
      BY <1>4, <1>7, <3>1, <3>2, <3>4, <3>5
    <3>7. f[8] = f[7]
      BY <1>4, <1>8, <3>4, <3>6
    <3>8. QED
      BY <2>2, <3>4, <3>6, <3>7
  <2>3. QED
    BY <2>1, <2>2
<1>15. ASSUME b + 4 * c <= Len(s)
       PROVE  ChoicesFrom(s, b) = Read(c, b + 4 * c + 2)
  <2>1. b + 4 * c + 2 <= Len(s) + 2
    BY <1>5, <1>15
  <2>2. f[8] = Read([n |-> c, dots |-> 2], b + 4 * c + 2)
    BY <1>14, <2>1 DEF Stands
  <2>3. f[8].end = "read" /\ f[8].value = [n |-> c, dots |-> 2] /\ f[8].next = b + 4 * c + 2
    BY <2>2, WhatReadIs
  <2>4. f[8].value.n = c /\ ~(c < 2)
    BY <2>3
  <2>5. QED
    BY <1>3, <2>3, <2>4
<1>16. ASSUME b + 4 * c > Len(s)
       PROVE  ChoicesFrom(s, b).end # "read"
  <2>1. b + 4 * c + 2 > Len(s) + 2
    BY <1>5, <1>16
  <2>2. f[8].end # "read"
    BY <1>14, <2>1 DEF Stands
  <2>3. QED
    BY <1>3, <2>2
<1>17. QED
  BY <1>15, <1>16

\* What a line of the choices makes of a place in the text.
Onwards(r, x) ==
  \/ r.end # "read"
  \/ \E m \in 0..3, e \in Nat, y \in Nat : y > x /\ r = Read([n |-> m, dots |-> e], y)

LEMMA ChoiceLineTypes ==
  ASSUME NEW s \in Texts, NEW x \in Nat \ {0}, NEW n \in 0..3, NEW d \in Nat
  PROVE  Onwards(ChoiceLine(s, Read([n |-> n, dots |-> d], x)), x)
<1> DEFINE c == Read([n |-> n, dots |-> d], x)
<1>1. Len(s) \in Nat
  BY DEF Texts
<1>2. c.next = x /\ c.value = [n |-> n, dots |-> d]
  BY WhatReadIs
<1>3. c.value.n = n /\ [c.value EXCEPT !.dots = @ + 1] = [n |-> n, dots |-> d + 1]
  BY <1>2
<1> HIDE DEF c
<1>4. x <= Len(s) => NextLine(s, x) \in Nat /\ NextLine(s, x) > x
  BY <1>1, LineEndFound DEF NextLine
<1>5. n < 3 => n + 1 \in 0..3
  OBVIOUS
<1>6. \/ ChoiceLine(s, c) = Threw
      \/ x <= Len(s) /\ ChoiceLine(s, c) = Read([n |-> n, dots |-> d + 1], NextLine(s, x))
      \/ x <= Len(s) /\ n < 3 /\ ChoiceLine(s, c) = Read([n |-> n + 1, dots |-> 0], NextLine(s, x))
  BY <1>2, <1>3, LettersApart DEF ChoiceLine, IsThere
<1>7. d + 1 \in Nat /\ 0 \in Nat
  OBVIOUS
<1>8. \/ ChoiceLine(s, c).end # "read"
      \/ \E m \in 0..3, e \in Nat, y \in Nat :
           y > x /\ ChoiceLine(s, c) = Read([n |-> m, dots |-> e], y)
  BY <1>4, <1>5, <1>6, <1>7, WhatEnds
<1>9. QED
  BY <1>8 DEF c, Onwards

\* Choices that are read are two or more, and none are read behind the end.
LEMMA ChoicesTypes ==
  ASSUME NEW s \in Texts, NEW p \in Nat \ {0}
  PROVE  /\ ChoicesFrom(s, p).end = "read" =>
              \E c \in 2..3, y \in Nat : y > p /\ ChoicesFrom(s, p) = Read(c, y)
         /\ p > Len(s) => ChoicesFrom(s, p).end # "read"
<1>1. PICK f : /\ ChoicesFrom(s, p) = (IF f[2 * Len(Letters) + 2].end = "read"
                                     THEN IF f[2 * Len(Letters) + 2].value.n < 2 THEN Threw
                                          ELSE Read(f[2 * Len(Letters) + 2].value.n, f[2 * Len(Letters) + 2].next)
                                     ELSE f[2 * Len(Letters) + 2])
               /\ f[0] = Read([n |-> 0, dots |-> 0], p)
               /\ \A k \in 1..(2 * Len(Letters) + 2) : f[k] = (IF f[k - 1].end = "read"
                                        THEN IF f[k - 1].value.dots = 2 THEN f[k - 1]
                                             ELSE ChoiceLine(s, f[k - 1])
                                        ELSE f[k - 1])
  BY ONLY ChoicesUnfold
<1> DEFINE After(r) == IF r.end = "read" THEN IF r.value.dots = 2 THEN r ELSE ChoiceLine(s, r) ELSE r
           Fine(r)  == \/ r.end # "read"
                       \/ \E m \in 0..3, e \in Nat, y \in Nat : y >= p /\ (m > 0 => y > p) /\ r = Read([n |-> m, dots |-> e], y)
<1>2. 2 * Len(Letters) + 2 = 8
  BY LettersApart
<1>3. ChoicesFrom(s, p) = (IF f[8].end = "read"
                             THEN IF f[8].value.n < 2 THEN Threw ELSE Read(f[8].value.n, f[8].next)
                             ELSE f[8])
  BY <1>1, <1>2
<1>4. \A k \in 1..8 : f[k] = After(f[k - 1])
  BY <1>1, <1>2
<1>5. ASSUME NEW r, Fine(r)
      PROVE  Fine(After(r))
  <2>1. CASE r.end # "read"
    BY <2>1
  <2>2. CASE r.end = "read"
    <3>1. PICK m \in 0..3, e \in Nat, y \in Nat : y >= p /\ (m > 0 => y > p) /\ r = Read([n |-> m, dots |-> e], y)
      BY <1>5, <2>2
    <3>2. After(r) = r \/ After(r) = ChoiceLine(s, r)
      BY <2>2
    <3>3. CASE After(r) = r
      BY <1>5, <3>3
    <3>4. CASE After(r) = ChoiceLine(s, r)
      <4>1. y \in Nat \ {0}
        BY <3>1
      <4>2. \/ ChoiceLine(s, r).end # "read"
            \/ \E i \in 0..3, j \in Nat, z \in Nat : z > y /\ ChoiceLine(s, r) = Read([n |-> i, dots |-> j], z)
        <5>1. Onwards(ChoiceLine(s, Read([n |-> m, dots |-> e], y)), y)
          BY <4>1, ChoiceLineTypes
        <5>2. Onwards(ChoiceLine(s, r), y)
          BY <3>1, <5>1
        <5>3. QED
          BY <5>2 DEF Onwards
      <4>3. \A z \in Nat : z > y => z > p /\ z >= p
        BY <3>1
      <4> HIDE DEF After
      <4>4. QED
        BY <3>1, <3>4, <4>2, <4>3
    <3>5. QED
      BY <3>2, <3>3, <3>4
  <2>3. QED
    BY <2>1, <2>2
<1>6. Fine(f[0])
  <2>1. 0 \in 0..3 /\ 0 \in Nat /\ p \in Nat /\ p >= p /\ ~(0 > 0)
    OBVIOUS
  <2>2. QED
    BY <1>1, <2>1
<1>7. Fine(f[8])
  <2> DEFINE S == { k \in Nat : k <= 8 => Fine(f[k]) }
  <2>1. 0 \in S
    BY <1>6
  <2>2. ASSUME NEW k \in Nat, k \in S
        PROVE  k + 1 \in S
    <3>1. CASE k + 1 <= 8
      <4>1. k <= 8 /\ k + 1 \in 1..8 /\ (k + 1) - 1 = k
        BY <3>1
      <4>2. f[k + 1] = After(f[k])
        BY <1>4, <4>1
      <4> HIDE DEF Fine, After
      <4>3. QED
        BY <1>5, <2>2, <4>1, <4>2
    <3>2. QED
      BY <3>1
  <2>3. 8 \in Nat /\ 8 <= 8
    OBVIOUS
  <2>4. 8 \in S
    <3> HIDE DEF S
    <3> QED
      BY <2>1, <2>2, <2>3, Counting
  <2> HIDE DEF Fine
  <2>5. QED
    BY <2>3, <2>4
<1>8. ASSUME ChoicesFrom(s, p).end = "read"
      PROVE  \E c \in 2..3, y \in Nat : y > p /\ ChoicesFrom(s, p) = Read(c, y)
  <2>1. f[8].end = "read" /\ ~(f[8].value.n < 2) /\ ChoicesFrom(s, p) = Read(f[8].value.n, f[8].next)
    BY <1>3, <1>8, WhatEnds
  <2>2. PICK m \in 0..3, e \in Nat, y \in Nat : (m > 0 => y > p) /\ f[8] = Read([n |-> m, dots |-> e], y)
    BY <1>7, <2>1
  <2>3. f[8].value = [n |-> m, dots |-> e] /\ f[8].next = y
    BY <2>2, WhatReadIs
  <2>4. f[8].value.n = m
    BY <2>3
  <2>5. m \in 2..3 /\ y > p
    BY <2>1, <2>2, <2>4
  <2>6. QED
    BY <2>1, <2>3, <2>4, <2>5
<1>9. ASSUME p > Len(s)
      PROVE  ChoicesFrom(s, p).end # "read"
  <2>1. After(f[0]) = Threw
    <3>1. f[0].end = "read" /\ f[0].value = [n |-> 0, dots |-> 0]
      BY <1>1, WhatReadIs
    <3>2. f[0].value.dots = 0
      BY <3>1
    <3>3. 0 \in Nat
      OBVIOUS
    <3>4. p > Len(s) => ChoiceLine(s, f[0]) = Threw
      <4> DEFINE c == Read([n |-> 0, dots |-> 0], p)
      <4>1. p > Len(s) => ChoiceLine(s, c) = Threw
        BY <3>3, ChoiceLineIs
      <4>2. c = f[0]
        BY <1>1
      <4> HIDE DEF c
      <4>3. QED
        BY <4>1, <4>2
    <3>5. ChoiceLine(s, f[0]) = Threw
      BY <1>1, <1>9, <3>4
    <3>6. QED
      BY <3>1, <3>2, <3>5
  <2>2. After(Threw) = Threw
    BY WhatEnds
  <2>3. /\ 1 \in 1..8 /\ 2 \in 1..8 /\ 3 \in 1..8 /\ 4 \in 1..8 /\ 5 \in 1..8 /\ 6 \in 1..8
        /\ 7 \in 1..8 /\ 8 \in 1..8 /\ 1 - 1 = 0 /\ 2 - 1 = 1 /\ 3 - 1 = 2 /\ 4 - 1 = 3
        /\ 5 - 1 = 4 /\ 6 - 1 = 5 /\ 7 - 1 = 6 /\ 8 - 1 = 7
    OBVIOUS
  <2> HIDE DEF After
  <2>4. f[1] = Threw
    BY <1>4, <2>1, <2>3
  <2>5. f[2] = Threw /\ f[3] = Threw
    BY <1>4, <2>2, <2>3, <2>4
  <2>6. f[4] = Threw /\ f[5] = Threw
    BY <1>4, <2>2, <2>3, <2>5
  <2>7. f[6] = Threw /\ f[7] = Threw
    BY <1>4, <2>2, <2>3, <2>6
  <2>8. f[8] = Threw
    BY <1>4, <2>2, <2>3, <2>7
  <2>9. QED
    BY <1>3, <2>8, WhatEnds
<1>10. QED
  BY <1>8, <1>9

-----------------------------------------------------------------------------
\* Where a title is, and what follows it: as far as the text goes.
TitleAt(s, a, m, t) ==
  /\ \A k \in 1..m : a + k - 1 <= Len(s) => s[a + k - 1] = t[k]
  /\ a + m <= Len(s) => s[a + m] = EOL
  /\ a + m + 1 <= Len(s) => s[a + m + 1] = Dot
  /\ a + m + 2 <= Len(s) => s[a + m + 2] = EOL

\* No line of a title is taken for its end, but one that was cut.
LEMMA NoDotWithin ==
  ASSUME NEW s \in Texts, NEW a \in Nat \ {0}, NEW t \in Texts, NEW m \in Nat, m = Len(t), Tidy(t),
         TitleAt(s, a, m, t), NEW k \in a..(a + m), k < Len(s)
  PROVE  ~DotAt(s, a, k)
<1>1. Len(s) \in Nat /\ k \in 1..Len(s) /\ k # Len(s)
  BY DEF Texts
<1>2. SUFFICES ASSUME DotAt(s, a, k)
               PROVE  FALSE
  OBVIOUS
<1>3. s[k] = Dot /\ s[k + 1] = EOL /\ (k = a \/ s[k - 1] = EOL)
  BY <1>1, <1>2, LineIsDot DEF DotAt
<1>4. k # a + m
  <2>1. k = a + m => s[k] = EOL
    BY <1>1 DEF TitleAt
  <2>2. QED
    BY <1>3, <2>1, TokensApart
<1>5. PICK i \in 1..m : k = a + i - 1
  <2>1. k - a + 1 \in 1..m /\ k = a + (k - a + 1) - 1
    BY <1>4
  <2>2. QED
    BY <2>1
<1>6. t[i] = Dot
  BY <1>1, <1>3, <1>5 DEF TitleAt
<1>7. i = 1 \/ t[i - 1] = EOL
  <2>1. CASE i # 1
    <3>1. i - 1 \in 1..m /\ a + (i - 1) - 1 = k - 1 /\ k - 1 <= Len(s) /\ k # a
      BY <1>1, <1>5, <2>1
    <3>2. s[k - 1] = t[i - 1]
      BY <3>1 DEF TitleAt
    <3>3. QED
      BY <1>3, <3>1, <3>2
  <2>2. QED
    BY <2>1
<1>8. i = m \/ t[i + 1] = EOL
  <2>1. CASE i # m
    <3>1. i + 1 \in 1..m /\ a + (i + 1) - 1 = k + 1 /\ k + 1 <= Len(s)
      BY <1>1, <1>5, <2>1
    <3>2. s[k + 1] = t[i + 1]
      BY <3>1 DEF TitleAt
    <3>3. QED
      BY <1>3, <3>2
  <2>2. QED
    BY <2>1
<1>9. QED
  BY <1>5, <1>6, <1>7, <1>8 DEF Tidy

\* A title is read as it was when the dot behind it is there.
LEMMA TitleIsRead ==
  ASSUME NEW s \in Texts, NEW a \in Nat \ {0}, NEW t \in Texts, NEW m \in Nat, m = Len(t), Tidy(t),
         TitleAt(s, a, m, t), a + m + 1 <= Len(s)
  PROVE  TitleFrom(s, a) = Read(t, a + m + 3)
<1>1. Len(s) \in Nat
  BY DEF Texts
<1>2. PICK d \in Nat : d = a + m + 1
  OBVIOUS
<1>3. d \in 1..Len(s) /\ s[d] = Dot /\ (d = Len(s) \/ s[d + 1] = EOL) /\ s[d - 1] = EOL /\ d # a
  <2>1. d \in 1..Len(s) /\ d - 1 = a + m /\ a + m <= Len(s) /\ d + 1 = a + m + 2 /\ d # a
    BY <1>1, <1>2
  <2>2. d = Len(s) \/ a + m + 2 <= Len(s)
    BY <1>1, <1>2
  <2>3. QED
    BY <1>2, <2>1, <2>2 DEF TitleAt
<1>4. DotAt(s, a, d)
  BY <1>3, LineIsDot DEF DotAt
<1>5. \A k \in a..(d - 1) : ~DotAt(s, a, k)
  <2> TAKE k \in a..(d - 1)
  <2>1. k \in a..(a + m) /\ k < Len(s)
    BY <1>1, <1>2
  <2>2. QED
    BY <2>1, NoDotWithin
<1>6. DotLine(s, a) = d
  <2>1. d \in a..(Len(s) + 1) /\ a \in Nat
    BY <1>1, <1>2, <1>3
  <2>2. QED
    BY <1>4, <1>5, <2>1, DotLineIs
<1>7. NextLine(s, d) = a + m + 3
  <2>1. d + 2 = a + m + 3
    BY <1>2
  <2>2. QED
    BY <1>3, <2>1, OneWordLine, TokensApart
<1>8. SubSeq(s, a, d - 2) = t
  <2>0. d <= Len(s)
    BY <1>1, <1>3
  <2>1. PICK j \in Nat : j = d - 2 /\ j <= Len(s) /\ a <= j + 1 /\ j + 1 - a = m
    <3>1. d - 2 \in Nat /\ d - 2 <= Len(s) /\ a <= (d - 2) + 1 /\ (d - 2) + 1 - a = m
      BY <1>1, <1>2, <2>0
    <3>2. QED
      BY <3>1
  <2>2. /\ SubSeq(s, a, j) \in Texts /\ Len(SubSeq(s, a, j)) = m
        /\ \A k \in 1..m : SubSeq(s, a, j)[k] = s[a + k - 1]
    BY <2>1, Part
  <2>3. \A k \in 1..m : s[a + k - 1] = t[k]
    <3> TAKE k \in 1..m
    <3>1. a + k - 1 <= Len(s)
      BY <1>1
    <3>2. QED
      BY <3>1 DEF TitleAt
  <2>4. QED
    BY <2>1, <2>2, <2>3, SameText
<1>9. d <= Len(s) /\ d # a
  BY <1>1, <1>3
<1>10. QED
  BY <1>6, <1>7, <1>8, <1>9 DEF TitleFrom, IsThere

\* Without that dot nothing is left behind what is read.
LEMMA TitleIsCut ==
  ASSUME NEW s \in Texts, NEW a \in Nat \ {0}, NEW t \in Texts, NEW m \in Nat, m = Len(t), Tidy(t),
         TitleAt(s, a, m, t), a + m + 1 > Len(s), TitleFrom(s, a).end = "read"
  PROVE  TitleFrom(s, a).next = Len(s) + 2
<1>1. Len(s) \in Nat
  BY DEF Texts
<1>2. DotLine(s, a) <= Len(s) /\ DotLine(s, a) # a
        /\ TitleFrom(s, a) = Read(SubSeq(s, a, DotLine(s, a) - 2), NextLine(s, DotLine(s, a)))
  BY WhatEnds DEF TitleFrom, IsThere
<1>3. a <= Len(s)
  <2>1. a > Len(s) => DotLine(s, a) = a
    BY DotLineFound
  <2>2. QED
    BY <1>1, <1>2, <2>1
<1>4. DotLine(s, a) \in a..Len(s) /\ DotAt(s, a, DotLine(s, a))
  <2>1. /\ DotLine(s, a) \in a..(Len(s) + 1)
        /\ DotLine(s, a) > Len(s) \/ DotAt(s, a, DotLine(s, a))
    BY <1>1, <1>3, DotLineFound
  <2>2. QED
    BY <1>1, <1>2, <2>1
<1>5. PICK d \in a..Len(s) : d = DotLine(s, a) /\ DotAt(s, a, d)
  BY <1>4
<1>6. d = Len(s)
  <2>1. d \in a..(a + m)
    BY <1>1, <1>5
  <2>2. QED
    BY <1>1, <1>5, <2>1, NoDotWithin
<1>7. NextLine(s, d) = d + 2
  <2>1. d \in 1..Len(s)
    BY <1>1, <1>6
  <2>2. s[d] = Dot
    BY <1>5, <2>1, LineIsDot DEF DotAt
  <2>3. QED
    BY <1>6, <2>1, <2>2, OneWordLine, TokensApart
<1>8. QED
  BY <1>2, <1>5, <1>6, <1>7, WhatReadIs

\* A title that is read is tidy.
LEMMA TitleTypes ==
  ASSUME NEW s \in Texts, NEW p \in Nat \ {0}, TitleFrom(s, p).end = "read"
  PROVE  \E t \in Texts, y \in Nat : y > p /\ Tidy(t) /\ TitleFrom(s, p) = Read(t, y)
<1>1. Len(s) \in Nat
  BY DEF Texts
<1>2. DotLine(s, p) <= Len(s) /\ DotLine(s, p) # p
        /\ TitleFrom(s, p) = Read(SubSeq(s, p, DotLine(s, p) - 2), NextLine(s, DotLine(s, p)))
  BY WhatEnds DEF TitleFrom, IsThere
<1>3. p <= Len(s)
  <2>1. p > Len(s) => DotLine(s, p) = p
    BY DotLineFound
  <2>2. QED
    BY <1>1, <1>2, <2>1
<1>4. /\ DotLine(s, p) \in p..Len(s) /\ DotAt(s, p, DotLine(s, p))
      /\ \A k \in p..(DotLine(s, p) - 1) : ~DotAt(s, p, k)
  <2>1. /\ DotLine(s, p) \in p..(Len(s) + 1)
        /\ DotLine(s, p) > Len(s) \/ DotAt(s, p, DotLine(s, p))
        /\ \A k \in p..(DotLine(s, p) - 1) : ~DotAt(s, p, k)
    BY <1>1, <1>3, DotLineFound
  <2>2. QED
    BY <1>1, <1>2, <2>1
<1>5. PICK d \in p..Len(s) : d = DotLine(s, p) /\ d # p /\ DotAt(s, p, d) /\ \A k \in p..(d - 1) : ~DotAt(s, p, k)
  BY <1>2, <1>4
<1>6. NextLine(s, d) \in Nat /\ NextLine(s, d) > p
  <2>1. d \in Nat \ {0} /\ d <= Len(s) + 1
    BY <1>1, <1>5
  <2>2. LineEnd(s, d) \in d..(Len(s) + 1)
    BY <2>1, LineEndFound
  <2>3. LineEnd(s, d) \in Nat /\ LineEnd(s, d) >= d /\ d >= p
    BY <1>1, <1>5, <2>1, <2>2
  <2>4. QED
    BY <2>3 DEF NextLine
<1>7. PICK j \in Nat, m \in Nat : j = d - 2 /\ j <= Len(s) /\ p <= j + 1 /\ j + 1 - p = m
  BY <1>1, <1>5
<1>8. PICK t : t = SubSeq(s, p, j)
  OBVIOUS
<1>9. /\ t \in Texts /\ Len(t) = m
      /\ \A k \in 1..m : t[k] = s[p + k - 1]
  BY <1>7, <1>8, Part
<1>10. Tidy(t)
  <2> SUFFICES ASSUME NEW k \in 1..m, t[k] = Dot, k = 1 \/ t[k - 1] = EOL, k = m \/ t[k + 1] = EOL
               PROVE  FALSE
    BY <1>9 DEF Tidy
  <2>1. PICK x \in Nat : x = p + k - 1 /\ x \in p..(d - 1) /\ x \in 1..Len(s)
    BY <1>1, <1>5, <1>7, SMTT(30)
  <2>2. s[x] = Dot
    BY <1>9, <2>1
  <2>3. x = p \/ s[x - 1] = EOL
    <3>1. CASE k # 1
      <4>1. k - 1 \in 1..m /\ p + (k - 1) - 1 = x - 1
        BY <2>1, <3>1
      <4>2. QED
        BY <1>9, <3>1, <4>1
    <3>2. CASE k = 1
      BY <2>1, <3>2
    <3>3. QED
      BY <3>1, <3>2
  <2>4. s[x + 1] = EOL
    <3>1. CASE k # m
      <4>1. k + 1 \in 1..m /\ p + (k + 1) - 1 = x + 1
        BY <2>1, <3>1
      <4>2. QED
        BY <1>9, <3>1, <4>1
    <3>2. CASE k = m
      <4>1. x + 1 = d - 1
        BY <1>7, <2>1, <3>2
      <4>2. QED
        BY <1>5, <4>1 DEF DotAt
    <3>3. QED
      BY <3>1, <3>2
  <2>5. DotAt(s, p, x)
    BY <2>1, <2>2, <2>3, <2>4, LineIsDot DEF DotAt
  <2>6. QED
    BY <1>5, <2>1, <2>5
<1>11. TitleFrom(s, p) = Read(t, NextLine(s, d))
  BY <1>2, <1>5, <1>7, <1>8
<1>12. QED
  BY <1>6, <1>9, <1>10, <1>11

-----------------------------------------------------------------------------
\* The line that begins at a place.
LEMMA LineTypes ==
  ASSUME NEW s \in Texts, NEW p \in Nat \ {0}
  PROVE  /\ NextLine(s, p) \in Nat /\ NextLine(s, p) > p
         /\ Line(s, p) \in Texts /\ \A k \in 1..Len(Line(s, p)) : Line(s, p)[k] # EOL
         /\ p > Len(s) => Line(s, p) = << >> /\ NextLine(s, p) > Len(s)
         /\ Len(Line(s, p)) = 1 => p <= Len(s) /\ Line(s, p) = <<s[p]>>
<1>1. Len(s) \in Nat
  BY DEF Texts
<1>2. PICK e \in Nat : /\ e = LineEnd(s, p) /\ e >= p
                       /\ p <= Len(s) => e <= Len(s) + 1 /\ \A k \in p..(e - 1) : s[k] # EOL
                       /\ p > Len(s) => e = p
  <2>1. /\ p > Len(s) => LineEnd(s, p) = p
        /\ p <= Len(s) + 1 =>
             /\ LineEnd(s, p) \in p..(Len(s) + 1)
             /\ \A k \in p..(LineEnd(s, p) - 1) : s[k] # EOL
    BY LineEndFound
  <2>2. LineEnd(s, p) \in Nat /\ LineEnd(s, p) >= p
    BY <1>1, <2>1
  <2>3. QED
    BY <1>1, <2>1, <2>2
<1>3. PICK j \in Nat : j = e - 1
  BY <1>2
<1>4. Line(s, p) = SubSeq(s, p, j) /\ NextLine(s, p) = e + 1
  BY <1>2, <1>3 DEF Line, NextLine
<1>5. CASE p > Len(s)
  <2>1. p > j /\ \A k \in p..j : s[k] \in Tokens
    BY <1>2, <1>3, <1>5
  <2>2. SubSeq(s, p, j) \in Seq(Tokens) /\ Len(SubSeq(s, p, j)) = 0
    BY <2>1, SubSeqProperties
  <2>3. Line(s, p) = << >> /\ Len(Line(s, p)) = 0
    BY <1>4, <2>2, EmptySeq
  <2>4. Line(s, p) \in Texts
    BY <1>4, <2>2 DEF Texts
  <2>5. e + 1 \in Nat /\ e + 1 > p /\ e + 1 > Len(s)
    BY <1>1, <1>2, <1>5
  <2>6. \A k \in 1..0 : FALSE
    OBVIOUS
  <2>7. ~(0 = 1) /\ Len(Line(s, p)) # 1
    BY <2>3
  <2>8. QED
    BY <1>4, <2>3, <2>4, <2>5, <2>6, <2>7
<1>6. CASE p <= Len(s)
  <2>1. j <= Len(s) /\ p <= j + 1
    BY <1>1, <1>2, <1>3, <1>6
  <2>2. /\ SubSeq(s, p, j) \in Texts /\ Len(SubSeq(s, p, j)) = j + 1 - p
        /\ \A k \in 1..(j + 1 - p) : SubSeq(s, p, j)[k] = s[p + k - 1]
    BY <2>1, Part
  <2>3. \A k \in 1..(j + 1 - p) : SubSeq(s, p, j)[k] # EOL
    <3> TAKE k \in 1..(j + 1 - p)
    <3>1. p + k - 1 \in p..(e - 1)
      BY <1>2, <1>3
    <3>2. QED
      BY <1>2, <1>6, <2>2, <3>1
  <2>4. e + 1 \in Nat /\ e + 1 > p
    BY <1>2
  <2>5. ASSUME Len(SubSeq(s, p, j)) = 1
        PROVE  SubSeq(s, p, j) = <<s[p]>>
    <3>1. j + 1 - p = 1 /\ 1 \in 1..1 /\ p + 1 - 1 = p
      BY <2>2, <2>5
    <3>2. SubSeq(s, p, j)[1] = s[p] /\ s[p] \in Tokens
      <4>1. SubSeq(s, p, j)[1] = s[p]
        BY <2>2, <3>1
      <4>2. p \in 1..Len(s)
        BY <1>1, <1>6
      <4>3. QED
        BY <4>1, <4>2 DEF Texts
    <3>3. <<s[p]>> \in Texts /\ Len(<<s[p]>>) = 1 /\ <<s[p]>>[1] = s[p]
      BY <3>2, ShortTexts
    <3>4. \A k \in 1..1 : k = 1
      OBVIOUS
    <3>5. QED
      BY <2>2, <2>5, <3>2, <3>3, <3>4, SameText
  <2>6. ~(p > Len(s))
    BY <1>1, <1>6
  <2>7. QED
    BY <1>4, <1>6, <2>2, <2>3, <2>4, <2>5, <2>6
<1>7. QED
  BY <1>1, <1>5, <1>6

\* No title is read behind the end.
LEMMA NoTitle ==
  ASSUME NEW s \in Texts, NEW p \in Nat \ {0}, p > Len(s)
  PROVE  TitleFrom(s, p) = Spins
<1>1. DotLine(s, p) = p /\ Len(s) \in Nat
  BY DotLineFound DEF Texts
<1>2. QED
  BY <1>1 DEF TitleFrom, IsThere

\* The line of the tags.
LEMMA TagsRead ==
  ASSUME NEW s \in Texts, NEW p \in Nat \ {0}, NEW tags \in Texts, NEW g \in Nat, g = Len(tags),
         \A k \in 1..g : tags[k] # EOL,
         \A k \in 1..g : p + k - 1 <= Len(s) => s[p + k - 1] = tags[k],
         p + g <= Len(s) => s[p + g] = EOL
  PROVE  /\ p + g <= Len(s) => Line(s, p) = tags /\ NextLine(s, p) = p + g + 1
         /\ p + g > Len(s) => NextLine(s, p) > Len(s)
<1>1. Len(s) \in Nat
  BY DEF Texts
<1>2. \A k \in p..(p + g - 1) : k <= Len(s) => s[k] # EOL
  <2> TAKE k \in p..(p + g - 1)
  <2>1. k - p + 1 \in 1..g /\ p + (k - p + 1) - 1 = k
    OBVIOUS
  <2>2. QED
    BY <2>1
<1>3. ASSUME p + g <= Len(s)
      PROVE  Line(s, p) = tags /\ NextLine(s, p) = p + g + 1
  <2>1. LineEnd(s, p) = p + g
    <3>1. p + g \in p..(Len(s) + 1) /\ p \in Nat
      BY <1>1, <1>3
    <3>2. \A k \in p..((p + g) - 1) : s[k] # EOL
      BY <1>1, <1>2, <1>3
    <3>3. s[p + g] = EOL
      BY <1>3
    <3>4. QED
      BY <3>1, <3>2, <3>3, LineEndIs
  <2>2. PICK j \in Nat : j = (p + g) - 1 /\ j <= Len(s) /\ p <= j + 1 /\ j + 1 - p = g
    BY <1>1, <1>3
  <2>3. /\ SubSeq(s, p, j) \in Texts /\ Len(SubSeq(s, p, j)) = g
        /\ \A k \in 1..g : SubSeq(s, p, j)[k] = s[p + k - 1]
    BY <2>2, Part
  <2>4. \A k \in 1..g : s[p + k - 1] = tags[k]
    BY <1>1, <1>3
  <2>5. SubSeq(s, p, j) = tags
    BY <2>3, <2>4, SameText
  <2>6. QED
    BY <2>1, <2>2, <2>5 DEF Line, NextLine
<1>4. ASSUME p + g > Len(s)
      PROVE  NextLine(s, p) > Len(s)
  <2>1. CASE p > Len(s)
    BY <2>1, LineTypes
  <2>2. CASE p <= Len(s)
    <3>1. /\ LineEnd(s, p) \in p..(Len(s) + 1)
          /\ LineEnd(s, p) > Len(s) \/ s[LineEnd(s, p)] = EOL
      BY <1>1, <2>2, LineEndFound
    <3>2. LineEnd(s, p) > Len(s)
      BY <1>1, <1>2, <1>4, <3>1
    <3>3. QED
      BY <1>1, <3>1, <3>2 DEF NextLine
  <2>3. QED
    BY <1>1, <2>1, <2>2
<1>5. QED
  BY <1>3, <1>4

LEMMA QuestionUnfolds ==
  ASSUME NEW s, NEW p
  PROVE  /\ TitleFrom(s, NextLine(s, p)).end # "read" => QuestionFrom(s, p) = TitleFrom(s, NextLine(s, p))
         /\ \A title, choices :
              title = TitleFrom(s, NextLine(s, p)) /\ title.end = "read" /\ choices = ChoicesFrom(s, title.next) =>
                /\ choices.end # "read" => QuestionFrom(s, p) = choices
                /\ choices.end = "read" => QuestionFrom(s, p) = Solved(s, Line(s, p), title, choices)
BY DEF QuestionFrom, Then

\* A question is in a text from p on, as far as the text goes.
QuestionAt(s, p, q) ==
  \A k \in 1..Len(QuestionText(q)) : p + k - 1 <= Len(s) => s[p + k - 1] = QuestionText(q)[k]

\* A question is read as it was written when its solution is there, and not
\* without it.
LEMMA QuestionIsRead ==
  ASSUME NEW s \in Texts, NEW p \in Nat \ {0}, NEW q \in Questions, QuestionAt(s, p, q),
         NEW n \in Nat, n = Len(QuestionText(q))
  PROVE  /\ p + n - 2 <= Len(s) => QuestionFrom(s, p) = Read(q, p + n)
         /\ p + n - 2 > Len(s) => QuestionFrom(s, p).end # "read"
<1>1. Len(s) \in Nat
  BY DEF Texts
<1>2. PICK g \in Nat, t \in Nat, c \in 2..3, x \in {QuestionText(q)} :
        g = Len(q.tags) /\ t = Len(q.title) /\ c = q.choices /\ x = QuestionText(q)
  BY DEF Questions, Texts
<1>3. Layout(x, q, g, t, c)
  BY <1>2, QuestionLaid
<1>4. n = g + t + 4 * c + 8 /\ n = Len(x)
  BY <1>2, <1>3 DEF Layout
<1>5. \A k \in 1..n : p + k - 1 <= Len(s) => s[p + k - 1] = x[k]
  BY <1>2, <1>4 DEF QuestionAt
<1>6. /\ q \in [tags : Texts, title : Texts, choices : 2..3, solution : Tokens]
      /\ \A k \in 1..g : q.tags[k] # EOL
      /\ Tidy(q.title)
      /\ \E k \in 1..q.choices : q.solution = Letters[k]
  BY <1>2 DEF Questions
<1>7. PICK a \in Nat \ {0}, b \in Nat \ {0}, z \in Nat \ {0} :
        a = p + g + 1 /\ b = p + g + t + 4 /\ z = p + g + t + 4 * c + 6
  <2>1. p + g + 1 \in Nat \ {0} /\ p + g + t + 4 \in Nat \ {0} /\ p + g + t + 4 * c + 6 \in Nat \ {0}
    OBVIOUS
  <2>2. QED
    BY <2>1
<1>8. /\ p + g <= Len(s) => Line(s, p) = q.tags /\ NextLine(s, p) = a
      /\ p + g > Len(s) => NextLine(s, p) > Len(s)
  <2>1. \A k \in 1..g : p + k - 1 <= Len(s) => s[p + k - 1] = q.tags[k]
    <3> TAKE k \in 1..g
    <3>1. k \in 1..n
      BY <1>4
    <3>2. x[k] = q.tags[k]
      BY <1>3 DEF Layout
    <3>3. QED
      BY <1>5, <3>1, <3>2
  <2>2. p + g <= Len(s) => s[p + g] = EOL
    <3>1. g + 1 \in 1..n /\ p + (g + 1) - 1 = p + g
      BY <1>4
    <3>2. QED
      BY <1>3, <1>5, <3>1 DEF Layout
  <2>3. q.tags \in Texts /\ g = Len(q.tags) /\ \A k \in 1..g : q.tags[k] # EOL
    BY <1>2, <1>6
  <2>4. /\ p + g <= Len(s) => Line(s, p) = q.tags /\ NextLine(s, p) = p + g + 1
        /\ p + g > Len(s) => NextLine(s, p) > Len(s)
    BY <2>1, <2>2, <2>3, TagsRead, ZenonT(40)
  <2>5. QED
    BY <1>7, <2>4
<1>9. TitleAt(s, a, t, q.title)
  <2>1. \A k \in 1..t : a + k - 1 <= Len(s) => s[a + k - 1] = q.title[k]
    <3> TAKE k \in 1..t
    <3>1. k + (g + 1) \in 1..n /\ p + (k + (g + 1)) - 1 = a + k - 1
      BY <1>4, <1>7
    <3>2. x[k + (g + 1)] = q.title[k]
      BY <1>3 DEF Layout
    <3>3. QED
      BY <1>5, <3>1, <3>2
  <2>2. a + t <= Len(s) => s[a + t] = EOL
    <3>1. g + t + 2 \in 1..n /\ p + (g + t + 2) - 1 = a + t
      BY <1>4, <1>7
    <3>2. QED
      BY <1>3, <1>5, <3>1 DEF Layout
  <2>3. a + t + 1 <= Len(s) => s[a + t + 1] = Dot
    <3>1. g + t + 3 \in 1..n /\ p + (g + t + 3) - 1 = a + t + 1
      BY <1>4, <1>7
    <3>2. QED
      BY <1>3, <1>5, <3>1 DEF Layout
  <2>4. a + t + 2 <= Len(s) => s[a + t + 2] = EOL
    <3>1. g + t + 4 \in 1..n /\ p + (g + t + 4) - 1 = a + t + 2
      BY <1>4, <1>7
    <3>2. QED
      BY <1>3, <1>5, <3>1 DEF Layout
  <2>5. QED
    BY <2>1, <2>2, <2>3, <2>4 DEF TitleAt
<1>10. q.title \in Texts
  BY <1>6
<1>11. /\ \A k \in 1..c : /\ b + 4 * k - 4 <= Len(s) => s[b + 4 * k - 4] = Choice(k)
                          /\ b + 4 * k - 3 <= Len(s) => s[b + 4 * k - 3] = EOL
                          /\ b + 4 * k - 2 <= Len(s) => s[b + 4 * k - 2] = Dot
                          /\ b + 4 * k - 1 <= Len(s) => s[b + 4 * k - 1] = EOL
       /\ b + 4 * c <= Len(s) => s[b + 4 * c] = Dot
       /\ b + 4 * c + 1 <= Len(s) => s[b + 4 * c + 1] = EOL
  <2>1. ASSUME NEW i \in 1..(4 * c), b + i - 1 <= Len(s)
        PROVE  s[b + i - 1] = ChoicesText(c)[i]
    <3>1. i + (g + t + 4) \in 1..n /\ p + (i + (g + t + 4)) - 1 = b + i - 1
      BY <1>4, <1>7
    <3>2. x[i + (g + t + 4)] = ChoicesText(c)[i]
      BY <1>3 DEF Layout
    <3>3. QED
      BY <1>5, <2>1, <3>1, <3>2
  <2>2. ASSUME NEW k \in 1..c
        PROVE  /\ b + 4 * k - 4 <= Len(s) => s[b + 4 * k - 4] = Choice(k)
               /\ b + 4 * k - 3 <= Len(s) => s[b + 4 * k - 3] = EOL
               /\ b + 4 * k - 2 <= Len(s) => s[b + 4 * k - 2] = Dot
               /\ b + 4 * k - 1 <= Len(s) => s[b + 4 * k - 1] = EOL
    <3>1. /\ ChoicesText(c)[4 * k - 3] = Choice(k) /\ ChoicesText(c)[4 * k - 2] = EOL
          /\ ChoicesText(c)[4 * k - 1] = Dot /\ ChoicesText(c)[4 * k] = EOL
      BY ChoicesLaid
    <3>2. /\ 4 * k - 3 \in 1..(4 * c) /\ b + (4 * k - 3) - 1 = b + 4 * k - 4
          /\ 4 * k - 2 \in 1..(4 * c) /\ b + (4 * k - 2) - 1 = b + 4 * k - 3
          /\ 4 * k - 1 \in 1..(4 * c) /\ b + (4 * k - 1) - 1 = b + 4 * k - 2
          /\ 4 * k \in 1..(4 * c) /\ b + (4 * k) - 1 = b + 4 * k - 1
      OBVIOUS
    <3>3. b + 4 * k - 4 <= Len(s) => s[b + 4 * k - 4] = Choice(k)
      BY <2>1, <3>1, <3>2
    <3>4. b + 4 * k - 3 <= Len(s) => s[b + 4 * k - 3] = EOL
      BY <2>1, <3>1, <3>2
    <3>5. b + 4 * k - 2 <= Len(s) => s[b + 4 * k - 2] = Dot
      BY <2>1, <3>1, <3>2
    <3>6. b + 4 * k - 1 <= Len(s) => s[b + 4 * k - 1] = EOL
      BY <2>1, <3>1, <3>2
    <3>7. QED
      BY <3>3, <3>4, <3>5, <3>6
  <2>3. b + 4 * c <= Len(s) => s[b + 4 * c] = Dot
    <3>1. g + t + 4 * c + 5 \in 1..n /\ p + (g + t + 4 * c + 5) - 1 = b + 4 * c
      BY <1>4, <1>7
    <3>2. QED
      BY <1>3, <1>5, <3>1 DEF Layout
  <2>4. b + 4 * c + 1 <= Len(s) => s[b + 4 * c + 1] = EOL
    <3>1. g + t + 4 * c + 6 \in 1..n /\ p + (g + t + 4 * c + 6) - 1 = b + 4 * c + 1
      BY <1>4, <1>7
    <3>2. QED
      BY <1>3, <1>5, <3>1 DEF Layout
  <2>5. QED
    BY <2>2, <2>3, <2>4
<1>12. /\ z <= Len(s) => s[z] = q.solution
       /\ z + 1 <= Len(s) => s[z + 1] = EOL
  <2>1. g + t + 4 * c + 7 \in 1..n /\ p + (g + t + 4 * c + 7) - 1 = z
    BY <1>4, <1>7
  <2>2. g + t + 4 * c + 8 \in 1..n /\ p + (g + t + 4 * c + 8) - 1 = z + 1
    BY <1>4, <1>7
  <2>3. QED
    BY <1>3, <1>5, <2>1, <2>2 DEF Layout
<1> HIDE DEF Layout
<1>13. a + t + 3 = b /\ z = b + 4 * c + 2 /\ p + n - 2 = z /\ p + n = z + 2
  BY <1>4, <1>7
<1>14. PICK title : title = TitleFrom(s, NextLine(s, p))
  OBVIOUS
<1>15. CASE a + t + 1 > Len(s)
  <2>1. p + n - 2 > Len(s)
    BY <1>1, <1>7, <1>13, <1>15
  <2>2. title.end # "read" \/ ChoicesFrom(s, title.next).end # "read"
    <3>1. CASE p + g > Len(s)
      <4>1. NextLine(s, p) > Len(s) /\ NextLine(s, p) \in Nat \ {0}
        BY <1>8, <3>1, LineTypes
      <4>2. QED
        BY <1>14, <4>1, NoTitle, WhatEnds
    <3>2. CASE p + g <= Len(s)
      <4>1. title = TitleFrom(s, a)
        BY <1>8, <1>14, <3>2
      <4>2. title.end = "read" => title.next = Len(s) + 2
        BY <1>2, <1>6, <1>9, <1>10, <1>15, <4>1, TitleIsCut
      <4>3. Len(s) + 2 \in Nat \ {0} /\ Len(s) + 2 > Len(s)
        BY <1>1
      <4>4. ChoicesFrom(s, Len(s) + 2).end # "read"
        BY <4>3, ChoicesTypes
      <4>5. QED
        BY <4>2, <4>4
    <3>3. QED
      BY <1>1, <3>1, <3>2
  <2>3. QuestionFrom(s, p).end # "read"
    BY <1>14, <2>2, QuestionUnfolds
  <2>4. QED
    BY <1>1, <2>1, <2>3
<1>16. CASE a + t + 1 <= Len(s)
  <2>1. p + g <= Len(s) /\ b <= Len(s) + 2
    BY <1>1, <1>7, <1>16
  <2>2. Line(s, p) = q.tags /\ title = TitleFrom(s, a)
    BY <1>8, <1>14, <2>1
  <2>3. title = Read(q.title, b)
    <3>1. Tidy(q.title) /\ t = Len(q.title)
      BY <1>2, <1>6
    <3>2. TitleFrom(s, a) = Read(q.title, a + t + 3)
      BY <1>9, <1>10, <1>16, <3>1, TitleIsRead
    <3>3. QED
      BY <1>13, <2>2, <3>2
  <2>4. title.end = "read" /\ title.value = q.title /\ title.next = b
    BY <2>3, WhatReadIs
  <2>5. PICK choices : choices = ChoicesFrom(s, b)
    OBVIOUS
  <2>6. /\ b + 4 * c <= Len(s) => choices = Read(c, b + 4 * c + 2)
        /\ b + 4 * c > Len(s) => choices.end # "read"
    BY <1>11, <2>1, <2>5, ChoicesRead
  <2>7. /\ choices.end # "read" => QuestionFrom(s, p) = choices
        /\ choices.end = "read" => QuestionFrom(s, p) = Solved(s, q.tags, title, choices)
    <3>1. choices = ChoicesFrom(s, title.next)
      BY <2>4, <2>5
    <3>2. /\ choices.end # "read" => QuestionFrom(s, p) = choices
          /\ choices.end = "read" => QuestionFrom(s, p) = Solved(s, Line(s, p), title, choices)
      BY <1>14, <2>4, <3>1, QuestionUnfolds
    <3>3. QED
      BY <2>2, <3>2
  <2>8. CASE b + 4 * c > Len(s)
    <3>1. p + n - 2 > Len(s)
      BY <1>1, <1>13, <2>8
    <3>2. QED
      BY <1>1, <2>6, <2>7, <2>8, <3>1
  <2>9. CASE b + 4 * c <= Len(s)
    <3>1. choices.end = "read" /\ choices.value = c /\ choices.next = z
      BY <1>13, <2>6, <2>9, WhatReadIs
    <3>2. CASE z > Len(s)
      <4>1. Line(s, z) = << >> /\ Len(<< >>) = 0
        BY <3>2, LineTypes
      <4>2. \A k \in 1..c : <<Letters[k]>> # << >>
        OBVIOUS
      <4>3. Solved(s, q.tags, title, choices) = Threw
        BY <3>1, <4>1, <4>2 DEF Solved
      <4>4. QED
        BY <1>1, <1>13, <2>7, <3>1, <3>2, <4>3, WhatEnds
    <3>3. CASE z <= Len(s)
      <4>1. z \in 1..Len(s) /\ (z = Len(s) \/ s[z + 1] = EOL) /\ s[z] = q.solution
        BY <1>1, <1>12, <3>3
      <4>2. PICK k \in 1..c : q.solution = Letters[k]
        BY <1>2, <1>6
      <4>3. q.solution # EOL
        BY <4>2, LettersApart
      <4>4. Line(s, z) = <<q.solution>> /\ NextLine(s, z) = z + 2
        BY <4>1, <4>3, OneWordLine
      <4>5. Line(s, z) \in { <<Letters[i]>> : i \in 1..c }
        BY <4>2, <4>4
      <4>6. Solved(s, q.tags, title, choices) = Read(Question(q.tags, q.title, c, q.solution), z + 2)
        BY <2>4, <3>1, <4>1, <4>4, <4>5 DEF Solved
      <4>7. Question(q.tags, q.title, c, q.solution) = q
        BY <1>2, <1>6 DEF Question
      <4>8. QED
        BY <1>1, <1>13, <2>7, <3>1, <3>3, <4>6, <4>7
    <3>4. QED
      BY <1>1, <3>2, <3>3
  <2>10. QED
    BY <1>1, <2>8, <2>9
<1>17. QED
  BY <1>1, <1>15, <1>16

\* Whatever is read as a question is one of those the texts are made of.
LEMMA QuestionTypes ==
  ASSUME NEW s \in Texts, NEW p \in Nat \ {0}, QuestionFrom(s, p).end = "read"
  PROVE  \E q \in Questions, y \in Nat : y > p /\ QuestionFrom(s, p) = Read(q, y)
<1>1. Len(s) \in Nat
  BY DEF Texts
<1>2. PICK title : title = TitleFrom(s, NextLine(s, p))
  OBVIOUS
<1>3. PICK choices : choices = ChoicesFrom(s, title.next)
  OBVIOUS
<1>4. /\ title.end # "read" => QuestionFrom(s, p) = title
      /\ title.end = "read" /\ choices.end # "read" => QuestionFrom(s, p) = choices
      /\ title.end = "read" /\ choices.end = "read" => QuestionFrom(s, p) = Solved(s, Line(s, p), title, choices)
  BY <1>2, <1>3, QuestionUnfolds
<1>5. title.end = "read" /\ choices.end = "read"
  BY <1>4
<1>6. /\ NextLine(s, p) \in Nat \ {0} /\ NextLine(s, p) > p
      /\ Line(s, p) \in Texts /\ \A k \in 1..Len(Line(s, p)) : Line(s, p)[k] # EOL
  BY LineTypes
<1>7. PICK t \in Texts, x \in Nat : x > NextLine(s, p) /\ Tidy(t) /\ title = Read(t, x)
  BY <1>2, <1>5, <1>6, TitleTypes
<1>8. title.value = t /\ title.next = x /\ x \in Nat \ {0} /\ x > p
  BY <1>6, <1>7, WhatReadIs
<1>9. PICK c \in 2..3, z \in Nat : z > x /\ choices = Read(c, z)
  BY <1>3, <1>5, <1>8, ChoicesTypes
<1>10. choices.value = c /\ choices.next = z /\ z \in Nat \ {0} /\ z > p
  BY <1>8, <1>9, WhatReadIs
<1>11. /\ Line(s, z) \in { <<Letters[k]>> : k \in 1..c }
       /\ QuestionFrom(s, p) = Read(Question(Line(s, p), t, c, s[z]), NextLine(s, z))
  BY <1>4, <1>5, <1>8, <1>10, WhatEnds DEF Solved
<1>12. PICK k \in 1..c : Line(s, z) = <<Letters[k]>>
  BY <1>11
<1>13. s[z] = Letters[k]
  <2>1. Len(Line(s, z)) = 1 /\ Line(s, z)[1] = Letters[k]
    BY <1>12
  <2>2. Line(s, z) = <<s[z]>>
    BY <1>10, <2>1, LineTypes
  <2>3. QED
    BY <2>1, <2>2
<1>14. Letters[k] \in Tokens
  BY LettersApart
<1>15. Question(Line(s, p), t, c, s[z]) \in Questions
  <2> DEFINE q == Question(Line(s, p), t, c, s[z])
  <2>1. q.tags = Line(s, p) /\ q.title = t /\ q.choices = c /\ q.solution = Letters[k]
    BY <1>13 DEF Question
  <2>2. q \in [tags : Texts, title : Texts, choices : 2..3, solution : Tokens]
    BY <1>6, <1>13, <1>14 DEF Question
  <2> HIDE DEF q
  <2>3. \E i \in 1..q.choices : q.solution = Letters[i]
    BY <2>1
  <2>4. Tidy(q.title) /\ \A i \in 1..Len(q.tags) : q.tags[i] # EOL
    BY <1>6, <1>7, <2>1
  <2>5. q \in Questions
    BY <2>2, <2>3, <2>4 DEF Questions
  <2>6. QED
    BY <2>5 DEF q
<1>16. NextLine(s, z) \in Nat /\ NextLine(s, z) > p
  <2>1. NextLine(s, z) \in Nat /\ NextLine(s, z) > z
    BY <1>10, LineTypes
  <2>2. QED
    BY <1>10, <2>1
<1>17. QED
  BY <1>11, <1>15, <1>16

-----------------------------------------------------------------------------
\* Numbers are written as words, and found again.
LEMMA WordsApart ==
  /\ MaxNumber \in Nat
  /\ \A n \in 0..MaxNumber :
       /\ Word[n] \in Numbers /\ Word[n] \in Tokens /\ NumberOf(Word[n]) = n
       /\ Word[n] # EOL /\ Word[n] # Sp
<1>1. MaxNumber \in Nat /\ DOMAIN Word = 0..MaxNumber
  BY WordAssumption
<1>2. ASSUME NEW n \in 0..MaxNumber
      PROVE  /\ Word[n] \in Numbers /\ Word[n] \in Tokens /\ NumberOf(Word[n]) = n
             /\ Word[n] # EOL /\ Word[n] # Sp
  <2>1. Word[n] \in Numbers
    BY <1>1 DEF Numbers
  <2>2. \A k \in 0..MaxNumber : Word[k] = Word[n] => n = k
    BY <1>1, WordAssumption
  <2>3. NumberOf(Word[n]) = n
    BY <1>1, <2>2 DEF NumberOf
  <2>4. Word[n] # EOL /\ Word[n] # Sp
    BY <1>1, WordAssumption
  <2>5. QED
    BY <2>1, <2>3, <2>4, TokenTypes
<1>3. QED
  BY <1>1, <1>2

LEMMA NumbersAre ==
  \A w \in Numbers : NumberOf(w) \in 0..MaxNumber /\ Word[NumberOf(w)] = w
<1> TAKE w \in Numbers
<1>1. DOMAIN Word = 0..MaxNumber
  BY WordAssumption
<1>2. PICK n \in DOMAIN Word : Word[n] = w
  BY DEF Numbers
<1>3. QED
  BY <1>1, <1>2 DEF NumberOf

\* Every set of keys has an order.
LEMMA KeysExist ==
  ASSUME NEW M \in Nat, NEW D \in SUBSET (0..M)
  PROVE  /\ IsFiniteSet(D) /\ Cardinality(D) \in Nat
         /\ \E keys \in [1..Cardinality(D) -> D] :
              \A i, j \in 1..Cardinality(D) : i < j => keys[i] < keys[j]
<1> DEFINE Ordered(E, m) == \E keys \in [1..m -> E] : \A i, j \in 1..m : i < j => keys[i] < keys[j]
           S == { m \in Nat : \A E \in SUBSET (0..M) : Cardinality(E) = m => Ordered(E, m) }
<1>1. \A E \in SUBSET (0..M) : IsFiniteSet(E) /\ Cardinality(E) \in Nat
  <2>1. IsFiniteSet(0..M)
    BY FS_Interval
  <2>2. QED
    BY <2>1, FS_Subset, FS_CardinalityType
<1>2. 0 \in S
  <2>1. ASSUME NEW E \in SUBSET (0..M)
        PROVE  Ordered(E, 0)
    <3>1. << >> \in [1..0 -> E] /\ \A i, j \in 1..0 : FALSE
      OBVIOUS
    <3>2. QED
      BY <3>1
  <2> HIDE DEF Ordered
  <2>2. QED
    BY <2>1
<1>3. ASSUME NEW m \in Nat, m \in S
      PROVE  m + 1 \in S
  <2>1. ASSUME NEW E \in SUBSET (0..M), Cardinality(E) = m + 1
        PROVE  Ordered(E, m + 1)
    <3>1. E # {} /\ IsFiniteSet(E)
      <4>1. m + 1 # 0
        OBVIOUS
      <4>2. QED
        BY <1>1, <2>1, <4>1, FS_EmptySet
    <3>2. PICK x \in E : \A y \in E : y <= x
      <4> DEFINE T == { M - y : y \in E }
      <4>1. T \in SUBSET Nat /\ T # {}
        <5>1. \A y \in E : y \in 0..M
          OBVIOUS
        <5>2. \A y \in E : M - y \in Nat
          BY <5>1
        <5>3. PICK y : y \in E
          BY <3>1
        <5>4. M - y \in T
          BY <5>3
        <5>5. QED
          BY <5>2, <5>4
      <4>2. PICK t \in T : \A u \in T : t <= u
        BY <4>1, LeastNatural
      <4>3. PICK x \in E : t = M - x
        BY <4>2
      <4>4. ASSUME NEW y \in E
            PROVE  y <= x
        <5>1. t <= M - y
          BY <4>2
        <5>2. x \in 0..M /\ y \in 0..M
          OBVIOUS
        <5>3. QED
          BY <4>3, <5>1, <5>2
      <4>5. QED
        BY <4>4
    <3>3. E \ {x} \in SUBSET (0..M) /\ Cardinality(E \ {x}) = m
      BY <2>1, <3>1, FS_RemoveElement
    <3>4. PICK keys \in [1..m -> E \ {x}] : \A i, j \in 1..m : i < j => keys[i] < keys[j]
      BY <1>3, <3>3
    <3> DEFINE more == [i \in 1..(m + 1) |-> IF i = m + 1 THEN x ELSE keys[i]]
    <3>5. more \in [1..(m + 1) -> E]
      BY <3>4
    <3>6. ASSUME NEW i \in 1..(m + 1), NEW j \in 1..(m + 1), i < j
          PROVE  more[i] < more[j]
      <4>1. i \in 1..m /\ i # m + 1
        BY <3>6
      <4>2. more[i] = keys[i] /\ keys[i] \in E \ {x}
        BY <3>4, <4>1
      <4>3. CASE j = m + 1
        <5>1. keys[i] <= x /\ keys[i] # x /\ keys[i] \in 0..M /\ x \in 0..M
          BY <3>2, <4>2
        <5>2. more[j] = x
          BY <4>3
        <5>3. QED
          BY <4>2, <5>1, <5>2
      <4>4. CASE j # m + 1
        <5>1. j \in 1..m /\ more[j] = keys[j]
          BY <4>4
        <5>2. QED
          BY <3>4, <3>6, <4>1, <4>2, <5>1
      <4>5. QED
        BY <4>3, <4>4
    <3> HIDE DEF more
    <3>7. QED
      BY <3>5, <3>6
  <2> HIDE DEF Ordered
  <2>2. QED
    BY <2>1
<1>4. Nat \subseteq S
  <2> HIDE DEF S
  <2> QED
    BY <1>2, <1>3, Counting
<1>5. Ordered(D, Cardinality(D))
  <2> HIDE DEF Ordered
  <2> QED
    BY <1>1, <1>4
<1>6. QED
  BY <1>1, <1>5

\* The keys of a map: all of them, each once, in their order.
Enumerates(keys, n, D) ==
  /\ keys \in [1..n -> D]
  /\ \A i, j \in 1..n : i < j => keys[i] < keys[j]
  /\ \A i, j \in 1..n : keys[i] = keys[j] => i = j
  /\ \A d \in D : \E i \in 1..n : keys[i] = d

LEMMA KeysAre ==
  ASSUME NEW f, DOMAIN f \in SUBSET (0..MaxNumber)
  PROVE  /\ IsFiniteSet(DOMAIN f) /\ Cardinality(DOMAIN f) \in Nat
         /\ Enumerates(Keys(f), Cardinality(DOMAIN f), DOMAIN f)
         /\ DOMAIN Keys(f) = 1..Cardinality(DOMAIN f)
<1>1. MaxNumber \in Nat
  BY WordsApart
<1>2. PICK D, n : D \in SUBSET (0..MaxNumber) /\ D = DOMAIN f /\ n = Cardinality(D)
  OBVIOUS
<1>3. IsFiniteSet(D) /\ n \in Nat /\ \E keys \in [1..n -> D] : \A i, j \in 1..n : i < j => keys[i] < keys[j]
  BY <1>1, <1>2, KeysExist
<1>4. PICK keys \in [1..n -> D] : keys = Keys(f) /\ \A i, j \in 1..n : i < j => keys[i] < keys[j]
  <2>1. Keys(f) = CHOOSE keys \in [1..n -> D] : \A i, j \in DOMAIN keys : i < j => keys[i] < keys[j]
    BY <1>2 DEF Keys
  <2>2. \E keys \in [1..n -> D] : \A i, j \in DOMAIN keys : i < j => keys[i] < keys[j]
    BY <1>3
  <2>3. /\ Keys(f) \in [1..n -> D]
        /\ \A i, j \in DOMAIN Keys(f) : i < j => Keys(f)[i] < Keys(f)[j]
    BY <2>1, <2>2
  <2>4. QED
    BY <2>3
<1>5. \A i, j \in 1..n : keys[i] = keys[j] => i = j
  <2> SUFFICES ASSUME NEW i \in 1..n, NEW j \in 1..n, keys[i] = keys[j], i # j
               PROVE  FALSE
    OBVIOUS
  <2>1. keys[i] \in 0..MaxNumber
    BY <1>2, <1>4
  <2>2. keys[i] < keys[j] \/ keys[j] < keys[i]
    BY <1>4
  <2>3. QED
    BY <2>1, <2>2
<1>6. \A d \in D : \E i \in 1..n : keys[i] = d
  <2>1. keys \in Injection(1..n, D)
    BY <1>5 DEF Injection, IsInjective
  <2>2. Cardinality(1..n) = n
    <3>1. Cardinality(1..n) = IF 1 > n THEN 0 ELSE n - 1 + 1
      BY <1>3, FS_Interval
    <3>2. QED
      BY <1>3, <3>1
  <2>3. keys \in Surjection(1..n, D)
    BY <1>2, <1>3, <2>1, <2>2, FS_Injection
  <2>4. QED
    BY <2>3 DEF Surjection
<1>7. DOMAIN keys = 1..n
  BY <1>4
<1>8. QED
  BY <1>2, <1>3, <1>4, <1>5, <1>6, <1>7 DEF Enumerates

LEMMA Rising ==
  ASSUME NEW n \in Nat, NEW offs \in [1..(n + 1) -> Nat], \A i \in 1..n : offs[i] < offs[i + 1]
  PROVE  /\ \A i \in 1..(n + 1) : i - 1 <= offs[i]
         /\ \A i, j \in 1..(n + 1) : i < j => offs[i] < offs[j]
<1> DEFINE Fine(m) == \A i \in 1..(n + 1) : i + m <= n + 1 => offs[i] + m <= offs[i + m]
           S == { m \in Nat : Fine(m) }
<1>1. 0 \in S
  <2>1. \A i \in 1..(n + 1) : offs[i] + 0 = offs[i] /\ i + 0 = i /\ offs[i] \in Nat
    OBVIOUS
  <2>2. Fine(0)
    BY <2>1
  <2>3. QED
    BY <2>2
<1>2. ASSUME NEW m \in Nat, m \in S
      PROVE  m + 1 \in S
  <2>1. ASSUME NEW i \in 1..(n + 1), i + (m + 1) <= n + 1
        PROVE  offs[i] + (m + 1) <= offs[i + (m + 1)]
    <3>1. i + m \in 1..n /\ i + m <= n + 1 /\ (i + m) + 1 = i + (m + 1) /\ i + (m + 1) \in 1..(n + 1) /\ i + m \in 1..(n + 1)
      BY <2>1
    <3>2. offs[i] + m <= offs[i + m]
      BY <1>2, <3>1
    <3>3. offs[i + m] < offs[i + (m + 1)]
      BY <3>1
    <3>4. offs[i] \in Nat /\ offs[i + m] \in Nat /\ offs[i + (m + 1)] \in Nat
      BY <3>1
    <3>5. QED
      BY <3>2, <3>3, <3>4
  <2>2. QED
    BY <2>1
<1>3. Nat \subseteq S
  <2> HIDE DEF S
  <2> QED
    BY <1>1, <1>2, Counting
<1>4. ASSUME NEW i \in 1..(n + 1)
      PROVE  i - 1 <= offs[i]
  <2>1. i - 1 \in S /\ 1 \in 1..(n + 1) /\ 1 + (i - 1) = i /\ i <= n + 1
    BY <1>3
  <2>2. offs[1] + (i - 1) <= offs[i]
    BY <2>1
  <2>3. offs[1] \in Nat /\ offs[i] \in Nat
    BY <2>1
  <2>4. QED
    BY <2>2, <2>3
<1>5. ASSUME NEW i \in 1..(n + 1), NEW j \in 1..(n + 1), i < j
      PROVE  offs[i] < offs[j]
  <2>1. j - i \in S /\ i + (j - i) = j /\ j <= n + 1 /\ j - i > 0
    BY <1>3, <1>5
  <2>2. offs[i] + (j - i) <= offs[j]
    BY <2>1
  <2>3. offs[i] \in Nat /\ offs[j] \in Nat
    OBVIOUS
  <2>4. QED
    BY <2>1, <2>2, <2>3
<1>6. QED
  BY <1>4, <1>5

LEMMA QuestionTexts ==
  ASSUME NEW q \in Questions
  PROVE  QuestionText(q) \in Texts /\ Len(QuestionText(q)) \in Nat /\ Len(QuestionText(q)) >= 16
<1>1. PICK g \in Nat, t \in Nat, c \in 2..3 : g = Len(q.tags) /\ t = Len(q.title) /\ c = q.choices
  BY DEF Questions, Texts
<1>2. Layout(QuestionText(q), q, g, t, c)
  BY <1>1, QuestionLaid
<1>3. QuestionText(q) \in Texts /\ Len(QuestionText(q)) = g + t + 4 * c + 8
  BY <1>2 DEF Layout
<1>4. g + t + 4 * c + 8 \in Nat /\ g + t + 4 * c + 8 >= 16
  OBVIOUS
<1>5. QED
  BY <1>3, <1>4

-----------------------------------------------------------------------------
\* The books: each id that can be written has a question that can be read.
Books == UNION { [D -> Questions] : D \in SUBSET (0..MaxNumber) }

LEMMA BookTypes ==
  \A b : b \in Books <=> /\ b = [i \in DOMAIN b |-> b[i]] /\ DOMAIN b \in SUBSET (0..MaxNumber)
                         /\ \A i \in DOMAIN b : b[i] \in Questions
<1> TAKE b
<1>1. ASSUME b \in Books
      PROVE  /\ b = [i \in DOMAIN b |-> b[i]] /\ DOMAIN b \in SUBSET (0..MaxNumber)
             /\ \A i \in DOMAIN b : b[i] \in Questions
  <2>1. PICK D \in SUBSET (0..MaxNumber) : b \in [D -> Questions]
    BY <1>1 DEF Books
  <2>2. QED
    BY <2>1
<1>2. ASSUME b = [i \in DOMAIN b |-> b[i]], DOMAIN b \in SUBSET (0..MaxNumber),
             \A i \in DOMAIN b : b[i] \in Questions
      PROVE  b \in Books
  <2>1. b \in [DOMAIN b -> Questions]
    BY <1>2
  <2>2. QED
    BY <1>2, <2>1 DEF Books
<1>3. QED
  BY <1>1, <1>2

\* Where the entries of a book are in its text: each begins behind an offset.
BookLayout(x, b, keys, n, offs) ==
  /\ offs \in [1..(n + 1) -> Nat] /\ offs[1] = 0
  /\ \A i \in 1..n : offs[i + 1] = offs[i] + Len(QuestionText(b[keys[i]])) + 3
  /\ x \in Texts /\ Len(x) + 1 = offs[n + 1]
  /\ \A i \in 1..n : /\ i > 1 => x[offs[i]] = EOL
                     /\ x[offs[i] + 1] = Word[keys[i]] /\ x[offs[i] + 2] = EOL
                     /\ \A k \in 1..Len(QuestionText(b[keys[i]])) :
                          x[offs[i] + 3 + k - 1] = QuestionText(b[keys[i]])[k]

LEMMA BookLaid ==
  ASSUME NEW b \in Books, b # << >>, NEW n \in Nat, n = Cardinality(DOMAIN b)
  PROVE  n > 0 /\ \E offs : BookLayout(BookText(b), b, Keys(b), n, offs)
<1>1. /\ b = [i \in DOMAIN b |-> b[i]] /\ DOMAIN b \in SUBSET (0..MaxNumber)
      /\ \A i \in DOMAIN b : b[i] \in Questions
  BY BookTypes
<1>2. IsFiniteSet(DOMAIN b) /\ Enumerates(Keys(b), n, DOMAIN b) /\ DOMAIN Keys(b) = 1..n
  BY <1>1, KeysAre
<1>3. PICK keys \in [1..n -> DOMAIN b] : keys = Keys(b)
  BY <1>2 DEF Enumerates
<1>4. n > 0
  <2>1. n = 0 => DOMAIN b = {}
    BY <1>2, FS_EmptySet
  <2>2. DOMAIN b = {} => b = << >>
    BY <1>1
  <2>3. QED
    BY <2>1, <2>2
<1> DEFINE Entry1(i) == <<EOL, Word[keys[i]], EOL>> \o QuestionText(b[keys[i]])
           parts == [i \in 1..n |-> Entry1(i)]
<1>5. BookText(b) = Tail(FlattenSeq(parts))
  BY <1>2, <1>3 DEF BookText, ForAll
<1>6. ASSUME NEW i \in 1..n
      PROVE  /\ Entry1(i) \in Texts /\ Len(Entry1(i)) = Len(QuestionText(b[keys[i]])) + 3
             /\ Entry1(i)[1] = EOL /\ Entry1(i)[2] = Word[keys[i]] /\ Entry1(i)[3] = EOL
             /\ \A k \in 1..Len(QuestionText(b[keys[i]])) : Entry1(i)[k + 3] = QuestionText(b[keys[i]])[k]
             /\ Len(QuestionText(b[keys[i]])) \in Nat
  <2>1. PICK y, w : y = QuestionText(b[keys[i]]) /\ w = <<EOL, Word[keys[i]], EOL>>
    OBVIOUS
  <2>2. b[keys[i]] \in Questions /\ Word[keys[i]] \in Tokens
    BY <1>1, <1>3, WordsApart
  <2>3. y \in Texts /\ Len(y) \in Nat
    BY <2>1, <2>2, QuestionTexts
  <2>4. w \in Texts /\ Len(w) = 3 /\ w[1] = EOL /\ w[2] = Word[keys[i]] /\ w[3] = EOL
    BY <2>1, <2>2, ShortTexts, TokenTypes
  <2>5. /\ w \o y \in Texts /\ Len(w \o y) = Len(w) + Len(y)
        /\ \A k \in 1..Len(w) : (w \o y)[k] = w[k]
        /\ \A k \in 1..Len(y) : (w \o y)[k + Len(w)] = y[k]
    BY <2>3, <2>4, Joined
  <2>6. 1 \in 1..3 /\ 2 \in 1..3 /\ 3 \in 1..3 /\ Len(y) + 3 = 3 + Len(y)
    BY <2>3
  <2>7. (w \o y)[1] = EOL /\ (w \o y)[2] = Word[keys[i]] /\ (w \o y)[3] = EOL
    BY <2>4, <2>5, <2>6
  <2>8. \A k \in 1..Len(y) : (w \o y)[k + 3] = y[k]
    BY <2>4, <2>5
  <2>9. Entry1(i) = w \o y
    BY <2>1
  <2>10. QED
    BY <2>1, <2>3, <2>4, <2>5, <2>6, <2>7, <2>8, <2>9
<1> HIDE DEF Entry1
<1>7. parts \in Seq(Texts) /\ Len(parts) = n /\ n \in Nat \ {0} /\ \A i \in 1..n : parts[i] = Entry1(i)
  <2>1. parts \in [1..n -> Texts]
    BY <1>6
  <2>2. QED
    BY <1>4, <2>1
<1> HIDE DEF parts
<1>8. PICK offs \in [1..(n + 1) -> Nat] :
        /\ offs[1] = 0 /\ \A i \in 1..n : offs[i + 1] = offs[i] + Len(parts[i])
        /\ FlattenSeq(parts) \in Texts /\ Len(FlattenSeq(parts)) = offs[n + 1]
        /\ \A i \in 1..n : \A k \in 1..Len(parts[i]) :
             FlattenSeq(parts)[offs[i] + k] = parts[i][k]
  BY <1>7, Flattened
<1>9. PICK F : F = FlattenSeq(parts)
  OBVIOUS
<1>10. \A i \in 1..n : offs[i + 1] = offs[i] + Len(QuestionText(b[keys[i]])) + 3
  <2> TAKE i \in 1..n
  <2>1. offs[i + 1] = offs[i] + (Len(QuestionText(b[keys[i]])) + 3)
    BY <1>6, <1>7, <1>8, SMTT(30)
  <2>2. offs[i] \in Nat /\ Len(QuestionText(b[keys[i]])) \in Nat
    <3>1. i \in 1..(n + 1)
      OBVIOUS
    <3>2. QED
      BY <1>6, <3>1
  <2>3. QED
    BY <2>1, <2>2
<1>11. /\ \A i \in 1..(n + 1) : i - 1 <= offs[i]
       /\ \A i, j \in 1..(n + 1) : i < j => offs[i] < offs[j]
  <2>1. \A i \in 1..n : offs[i] < offs[i + 1]
    <3> TAKE i \in 1..n
    <3>1. offs[i] \in Nat /\ Len(QuestionText(b[keys[i]])) \in Nat
      <4>1. i \in 1..(n + 1)
        OBVIOUS
      <4>2. QED
        BY <1>6, <4>1
    <3>2. offs[i] < offs[i] + Len(QuestionText(b[keys[i]])) + 3
      BY <3>1
    <3>3. QED
      BY <1>10, <3>2
  <2>2. QED
    BY <2>1, Rising
<1>12. n + 1 \in 1..(n + 1) /\ offs[n + 1] \in Nat \ {0}
  <2>1. n + 1 \in 1..(n + 1) /\ (n + 1) - 1 = n
    OBVIOUS
  <2>2. offs[n + 1] \in Nat /\ n <= offs[n + 1]
    BY <1>11, <2>1
  <2>3. QED
    BY <1>4, <2>1, <2>2
<1>13. /\ Tail(F) \in Texts /\ Len(Tail(F)) + 1 = offs[n + 1]
       /\ \A k \in 1..(offs[n + 1] - 1) : Tail(F)[k] = F[k + 1]
  <2>1. F \in Seq(Tokens) /\ F # << >> /\ Len(F) = offs[n + 1]
    <3>1. Len(F) # 0
      BY <1>8, <1>9, <1>12
    <3>2. Len(<< >>) = 0
      OBVIOUS
    <3>3. QED
      BY <1>8, <1>9, <3>1, <3>2 DEF Texts
  <2>2. /\ Tail(F) \in Seq(Tokens) /\ Len(Tail(F)) = Len(F) - 1
        /\ \A k \in 1..Len(Tail(F)) : Tail(F)[k] = F[k + 1]
    BY <2>1, HeadTailProperties
  <2>3. QED
    BY <1>12, <2>1, <2>2 DEF Texts
<1>14. ASSUME NEW i \in 1..n
       PROVE  /\ i > 1 => Tail(F)[offs[i]] = EOL
              /\ Tail(F)[offs[i] + 1] = Word[keys[i]] /\ Tail(F)[offs[i] + 2] = EOL
              /\ \A k \in 1..Len(QuestionText(b[keys[i]])) :
                   Tail(F)[offs[i] + 3 + k - 1] = QuestionText(b[keys[i]])[k]
  <2>1. PICK m \in Nat, o \in Nat : m = Len(QuestionText(b[keys[i]])) /\ o = offs[i]
    <3>1. i \in 1..(n + 1)
      OBVIOUS
    <3>2. QED
      BY <1>6, <3>1
  <2>2. \A k \in 1..(m + 3) : F[o + k] = Entry1(i)[k]
    BY <1>6, <1>7, <1>8, <1>9, <2>1, SMTT(30)
  <2>3. o + m + 3 <= offs[n + 1]
    <3>1. offs[i + 1] = o + m + 3
      BY <1>10, <2>1
    <3>2. i + 1 = n + 1 \/ (i + 1 < n + 1 /\ i + 1 \in 1..(n + 1))
      OBVIOUS
    <3>3. CASE i + 1 = n + 1
      <4>1. offs[n + 1] = o + m + 3
        BY <3>1, <3>3
      <4>2. QED
        BY <4>1
    <3>4. CASE i + 1 < n + 1 /\ i + 1 \in 1..(n + 1)
      <4>1. offs[i + 1] < offs[n + 1]
        BY <1>11, <1>12, <3>4
      <4>2. QED
        BY <1>12, <3>1, <4>1
    <3>5. QED
      BY <3>2, <3>3, <3>4
  <2>4. \A k \in 1..(m + 3) : o + k > 1 => Tail(F)[o + k - 1] = F[o + k]
    <3> TAKE k \in 1..(m + 3)
    <3>1. o + k > 1 => o + k - 1 \in 1..(offs[n + 1] - 1) /\ (o + k - 1) + 1 = o + k
      BY <1>12, <2>3
    <3>2. QED
      BY <1>13, <3>1
  <2>5. i > 1 => Tail(F)[o] = EOL
    <3>1. i > 1 => o > 0
      <4>1. i \in 1..(n + 1)
        OBVIOUS
      <4>2. i - 1 <= o
        BY <1>11, <2>1, <4>1
      <4>3. QED
        BY <4>2
    <3>2. 1 \in 1..(m + 3) /\ o + 1 - 1 = o /\ (o > 0 => o + 1 > 1)
      OBVIOUS
    <3>3. F[o + 1] = EOL
      BY <1>6, <2>2, <3>2
    <3>4. o > 0 => Tail(F)[o + 1 - 1] = F[o + 1]
      BY <2>4, <3>2
    <3>5. QED
      BY <3>1, <3>2, <3>3, <3>4
  <2>6. Tail(F)[o + 1] = Word[keys[i]]
    <3>1. 2 \in 1..(m + 3) /\ o + 2 - 1 = o + 1 /\ o + 2 > 1
      OBVIOUS
    <3>2. F[o + 2] = Word[keys[i]]
      BY <1>6, <2>2, <3>1
    <3>3. Tail(F)[o + 2 - 1] = F[o + 2]
      BY <2>4, <3>1
    <3>4. QED
      BY <3>1, <3>2, <3>3
  <2>7. Tail(F)[o + 2] = EOL
    <3>1. 3 \in 1..(m + 3) /\ o + 3 - 1 = o + 2 /\ o + 3 > 1
      OBVIOUS
    <3>2. F[o + 3] = EOL
      BY <1>6, <2>2, <3>1
    <3>3. Tail(F)[o + 3 - 1] = F[o + 3]
      BY <2>4, <3>1
    <3>4. QED
      BY <3>1, <3>2, <3>3
  <2>8. ASSUME NEW k \in 1..m
        PROVE  Tail(F)[o + 3 + k - 1] = QuestionText(b[keys[i]])[k]
    <3>1. k + 3 \in 1..(m + 3) /\ o + (k + 3) - 1 = o + 3 + k - 1 /\ o + (k + 3) > 1
      OBVIOUS
    <3>2. F[o + (k + 3)] = QuestionText(b[keys[i]])[k]
      BY <1>6, <2>1, <2>2, <3>1
    <3>3. Tail(F)[o + (k + 3) - 1] = F[o + (k + 3)]
      BY <2>4, <3>1
    <3>4. QED
      BY <3>1, <3>2, <3>3
  <2>9. QED
    BY <2>1, <2>5, <2>6, <2>7, <2>8
<1>15. BookLayout(Tail(F), b, keys, n, offs)
  BY <1>8, <1>10, <1>13, <1>14 DEF BookLayout
<1>16. QED
  BY <1>3, <1>4, <1>5, <1>9, <1>15

\* The book, entry by entry.
LEMMA BookUnfolds ==
  ASSUME NEW s \in Texts
  PROVE  \E f : /\ ReadBook(s) = f[Len(s)]
                /\ f[0] = Read(<< >>, NextWord(s, 1))
                /\ \A k \in 1..(Len(s)) : f[k] = (IF f[k - 1].end = "read" THEN OneEntry(s, f[k - 1]) ELSE f[k - 1])
<1>0. PICK z \in Nat : z = Len(s)
  BY DEF Texts
<1> DEFINE Step(f, k) == IF k = 0 THEN Read(<< >>, NextWord(s, 1))
                         ELSE (IF f[k - 1].end = "read" THEN OneEntry(s, f[k - 1]) ELSE f[k - 1])
           S == { m \in Nat : \E f : f = [k \in 0..m |-> Step(f, k)] }
<1>1. 0 \in S
  <2> DEFINE g == [k \in 0..0 |-> Read(<< >>, NextWord(s, 1))]
  <2>1. \A k \in 0..0 : k = 0
    OBVIOUS
  <2>2. g = [k \in 0..0 |-> Step(g, k)]
    BY <2>1
  <2>3. QED
    <3> HIDE DEF g, Step
    <3> QED
      BY <2>2
<1>2. ASSUME NEW m \in Nat, m \in S
      PROVE  m + 1 \in S
  <2>1. PICK f : f = [k \in 0..m |-> Step(f, k)]
    BY <1>2
  <2> DEFINE g == [k \in 0..(m + 1) |-> IF k = m + 1 THEN Step(f, k) ELSE f[k]]
  <2>2. ASSUME NEW k \in 0..(m + 1)
        PROVE  g[k] = Step(g, k)
    <3>1. k = 0 \/ (k - 1 \in 0..(m + 1) /\ k - 1 # m + 1)
      OBVIOUS
    <3>2. k = 0 \/ g[k - 1] = f[k - 1]
      BY <3>1
    <3>3. Step(g, k) = Step(f, k)
      <4> HIDE DEF g
      <4> QED
        BY <3>2
    <3>4. k = m + 1 \/ k \in 0..m
      OBVIOUS
    <3>5. k \in 0..m => f[k] = Step(f, k)
      <4> HIDE DEF Step
      <4> QED
        BY <2>1
    <3> HIDE DEF Step
    <3>6. QED
      BY <3>3, <3>4, <3>5
  <2>3. g = [k \in 0..(m + 1) |-> Step(g, k)]
    <3> HIDE DEF Step
    <3> DEFINE h == [k \in 0..(m + 1) |-> Step(g, k)]
    <3>1. \A k \in 0..(m + 1) : g[k] = h[k]
      BY <2>2
    <3>2. QED
      BY <3>1
  <2>4. QED
    <3> HIDE DEF g, Step
    <3> QED
      BY <2>3
<1>3. z \in S
  <2> HIDE DEF S
  <2> QED
    BY <1>1, <1>2, Counting
<1> DEFINE after == CHOOSE after : after = [k \in 0..(Len(s)) |-> Step(after, k)]
<1>4. after = [k \in 0..z |-> Step(after, k)]
  <2> HIDE DEF Step
  <2>1. \E f : f = [k \in 0..(Len(s)) |-> Step(f, k)]
    BY <1>0, <1>3
  <2>2. after = [k \in 0..(Len(s)) |-> Step(after, k)]
    BY <2>1
  <2>3. QED
    BY <1>0, <2>2
<1>5. ReadBook(s) = after[Len(s)]
  BY DEF ReadBook, Then
<1> HIDE DEF after
<1>6. \A k \in 0..z : after[k] = Step(after, k)
  <2> HIDE DEF Step
  <2> QED
    BY <1>4
<1>7. after[0] = Step(after, 0) /\ \A k \in 1..z : after[k] = Step(after, k) /\ k # 0
  BY <1>6
<1>8. QED
  BY <1>0, <1>5, <1>7


\* A text that was cut, or is whole.
Begins(s, x) == Len(s) <= Len(x) /\ \A k \in 1..Len(s) : s[k] = x[k]

\* The first k entries of a book.
PartOf(b, keys, k) == [i \in { keys[j] : j \in 1..k } |-> b[i]]

LEMMA OneMorePart ==
  ASSUME NEW b, NEW n \in Nat, NEW keys, Enumerates(keys, n, DOMAIN b), NEW k \in Nat, k < n
  PROVE  Emplaced(PartOf(b, keys, k), keys[k + 1], b[keys[k + 1]]) = PartOf(b, keys, k + 1)
<1> DEFINE D == { keys[j] : j \in 1..k }
<1>1. k + 1 \in 1..n /\ \A j \in 1..k : j \in 1..n /\ j # k + 1
  OBVIOUS
<1>2. keys[k + 1] \notin D
  BY <1>1 DEF Enumerates
<1>3. { keys[j] : j \in 1..(k + 1) } = D \cup {keys[k + 1]}
  <2>1. \A j : j \in 1..(k + 1) <=> j \in 1..k \/ j = k + 1
    OBVIOUS
  <2>2. QED
    BY <2>1
<1> HIDE DEF D
<1>4. DOMAIN PartOf(b, keys, k) = D /\ \A i \in D : PartOf(b, keys, k)[i] = b[i]
  BY DEF PartOf, D
<1>5. Emplaced(PartOf(b, keys, k), keys[k + 1], b[keys[k + 1]])
        = [i \in D \cup {keys[k + 1]} |-> IF i \in D THEN PartOf(b, keys, k)[i] ELSE b[keys[k + 1]]]
  BY <1>4 DEF Emplaced
<1>6. \A i \in D \cup {keys[k + 1]} : (IF i \in D THEN PartOf(b, keys, k)[i] ELSE b[keys[k + 1]]) = b[i]
  BY <1>2, <1>4
<1>7. PartOf(b, keys, k + 1) = [i \in D \cup {keys[k + 1]} |-> b[i]]
  BY <1>3 DEF PartOf
<1>8. QED
  BY <1>5, <1>6, <1>7

LEMMA WholePart ==
  ASSUME NEW b, b = [i \in DOMAIN b |-> b[i]], NEW n \in Nat, NEW keys, Enumerates(keys, n, DOMAIN b)
  PROVE  PartOf(b, keys, n) = b
<1>1. { keys[j] : j \in 1..n } = DOMAIN b
  <2>1. \A j \in 1..n : keys[j] \in DOMAIN b
    BY DEF Enumerates
  <2>2. \A d \in DOMAIN b : \E j \in 1..n : keys[j] = d
    BY DEF Enumerates
  <2>3. QED
    BY <2>1, <2>2
<1>2. QED
  BY <1>1 DEF PartOf

\* Where reading a book stands: before an entry of it, behind the text, or ended.
InBook(s, r, b, keys, n, offs) ==
  \/ r.end # "read"
  \/ \E k \in 0..n, y \in Nat \ {0} :
       r = Read(PartOf(b, keys, k), y) /\ (y > Len(s) \/ (k < n /\ y = offs[k + 1] + 1))

\* The entries are as long as their questions, and in order.
LEMMA EntriesRise ==
  ASSUME NEW b \in Books, NEW n \in Nat, NEW keys, Enumerates(keys, n, DOMAIN b),
         NEW x, NEW offs, BookLayout(x, b, keys, n, offs)
  PROVE  /\ \A i \in 1..n : b[keys[i]] \in Questions /\ keys[i] \in 0..MaxNumber /\ offs[i] < offs[i + 1]
                            /\ offs[i] \in Nat /\ offs[i + 1] \in Nat
                            /\ Len(QuestionText(b[keys[i]])) \in Nat
                            /\ offs[i + 1] = offs[i] + Len(QuestionText(b[keys[i]])) + 3
         /\ \A i \in 1..(n + 1) : i - 1 <= offs[i] /\ offs[i] <= offs[n + 1] /\ offs[i] \in Nat
<1>1. /\ offs \in [1..(n + 1) -> Nat]
      /\ \A i \in 1..n : offs[i + 1] = offs[i] + Len(QuestionText(b[keys[i]])) + 3
  BY DEF BookLayout
<1>2. ASSUME NEW i \in 1..n
      PROVE  b[keys[i]] \in Questions /\ keys[i] \in 0..MaxNumber /\ offs[i] < offs[i + 1]
               /\ offs[i] \in Nat /\ offs[i + 1] \in Nat
               /\ Len(QuestionText(b[keys[i]])) \in Nat
               /\ offs[i + 1] = offs[i] + Len(QuestionText(b[keys[i]])) + 3
  <2>1. keys[i] \in DOMAIN b
    BY DEF Enumerates
  <2>2. b[keys[i]] \in Questions /\ keys[i] \in 0..MaxNumber
    BY <2>1, BookTypes
  <2>3. Len(QuestionText(b[keys[i]])) \in Nat
    BY <2>2, QuestionTexts
  <2>4. i \in 1..(n + 1) /\ i + 1 \in 1..(n + 1)
    OBVIOUS
  <2>5. offs[i] \in Nat /\ offs[i + 1] \in Nat
    BY <1>1, <2>4
  <2>6. offs[i + 1] = offs[i] + Len(QuestionText(b[keys[i]])) + 3
    BY <1>1
  <2>7. offs[i] < offs[i + 1]
    BY <2>3, <2>5, <2>6
  <2>8. QED
    BY <2>2, <2>3, <2>5, <2>6, <2>7
<1>3. /\ \A i \in 1..(n + 1) : i - 1 <= offs[i]
      /\ \A i, j \in 1..(n + 1) : i < j => offs[i] < offs[j]
  BY <1>1, <1>2, Rising
<1>4. ASSUME NEW i \in 1..(n + 1)
      PROVE  i - 1 <= offs[i] /\ offs[i] <= offs[n + 1] /\ offs[i] \in Nat
  <2>1. n + 1 \in 1..(n + 1) /\ (i = n + 1 \/ i < n + 1)
    OBVIOUS
  <2>2. offs[i] \in Nat /\ offs[n + 1] \in Nat
    BY <1>1, <2>1
  <2>3. CASE i = n + 1
    BY <1>3, <2>2, <2>3
  <2>4. CASE i < n + 1
    <3>1. offs[i] < offs[n + 1]
      BY <1>3, <2>1, <2>4
    <3>2. QED
      BY <1>3, <2>2, <3>1
  <2>5. QED
    BY <2>1, <2>3, <2>4
<1>5. QED
  BY <1>2, <1>4

\* An entry is read as it was written when the solution of its question is there.
LEMMA OneEntryRead ==
  ASSUME NEW b \in Books, NEW n \in Nat, NEW keys, Enumerates(keys, n, DOMAIN b),
         NEW x, NEW offs, BookLayout(x, b, keys, n, offs), NEW s \in Texts, Begins(s, x),
         NEW k \in Nat, k < n, offs[k + 1] + 1 <= Len(s), NEW r,
         r = Read(PartOf(b, keys, k), offs[k + 1] + 1)
  PROVE  /\ offs[k + 2] - 2 <= Len(s) =>
              OneEntry(s, r) = Read(PartOf(b, keys, k + 1), NextWord(s, offs[k + 2]))
         /\ offs[k + 2] - 2 > Len(s) => OneEntry(s, r).end # "read"
<1>1. Len(s) \in Nat /\ k + 1 \in 1..n
  BY DEF Texts
<1>2. PICK i \in 1..n, q \in {b[keys[k + 1]]}, d \in {keys[k + 1]} : i = k + 1 /\ q = b[keys[i]] /\ d = keys[i]
  BY <1>1
<1>3. PICK o \in Nat, m \in Nat : /\ o = offs[i] /\ m = Len(QuestionText(q)) /\ offs[k + 2] = o + m + 3
                                  /\ q \in Questions /\ d \in 0..MaxNumber
  <2>1. i + 1 = k + 2
    BY <1>2
  <2>2. QED
    BY <1>2, <2>1, EntriesRise, SMTT(30)
<1>4. /\ x[o + 1] = Word[d] /\ x[o + 2] = EOL
      /\ \A j \in 1..m : x[o + 3 + j - 1] = QuestionText(q)[j]
  BY <1>2, <1>3 DEF BookLayout
<1>5. r.end = "read" /\ r.value = PartOf(b, keys, k) /\ r.next = o + 1 /\ o + 1 <= Len(s)
  BY <1>2, <1>3, WhatReadIs, SMTT(30)
<1>6. s[o + 1] = Word[d] /\ s[o + 1] \in Numbers /\ NumberOf(s[o + 1]) = d
  <2>1. o + 1 \in 1..Len(s)
    BY <1>1, <1>5
  <2>2. s[o + 1] = x[o + 1]
    BY <2>1 DEF Begins
  <2>3. QED
    BY <1>3, <1>4, <2>2, WordsApart
<1>7. PICK p \in Nat \ {0} : p = o + 3 /\ p = (o + 1) + 2 /\ p + m = offs[k + 2]
  <2>1. o + 3 \in Nat \ {0} /\ (o + 1) + 2 = o + 3 /\ (o + 3) + m = o + m + 3
    OBVIOUS
  <2>2. QED
    BY <1>3, <2>1
<1>8. QuestionAt(s, p, q)
  <2> SUFFICES ASSUME NEW j \in 1..m, p + j - 1 <= Len(s)
               PROVE  s[p + j - 1] = QuestionText(q)[j]
    BY <1>3 DEF QuestionAt
  <2>1. p + j - 1 \in 1..Len(s) /\ p + j - 1 = o + 3 + j - 1
    BY <1>1, <1>7
  <2>2. s[p + j - 1] = x[o + 3 + j - 1]
    BY <2>1 DEF Begins
  <2>3. QED
    BY <1>4, <2>2
<1>9. /\ p + m - 2 <= Len(s) => QuestionFrom(s, p) = Read(q, p + m)
      /\ p + m - 2 > Len(s) => QuestionFrom(s, p).end # "read"
  BY <1>3, <1>8, QuestionIsRead
<1>10. OneEntry(s, r) = IF QuestionFrom(s, p).end = "read"
                          THEN Read(Emplaced(PartOf(b, keys, k), d, QuestionFrom(s, p).value),
                                    NextWord(s, QuestionFrom(s, p).next))
                          ELSE QuestionFrom(s, p)
  BY <1>5, <1>6, <1>7 DEF OneEntry, Then, Entry, IsThere
<1>11. ASSUME offs[k + 2] - 2 <= Len(s)
       PROVE  OneEntry(s, r) = Read(PartOf(b, keys, k + 1), NextWord(s, offs[k + 2]))
  <2>1. QuestionFrom(s, p) = Read(q, offs[k + 2])
    BY <1>7, <1>9, <1>11, SMTT(30)
  <2>2. QuestionFrom(s, p).end = "read" /\ QuestionFrom(s, p).value = q /\ QuestionFrom(s, p).next = offs[k + 2]
    BY <2>1, WhatReadIs
  <2>3. Emplaced(PartOf(b, keys, k), d, q) = PartOf(b, keys, k + 1)
    BY <1>2, OneMorePart
  <2>4. QED
    BY <1>10, <2>2, <2>3
<1>12. ASSUME offs[k + 2] - 2 > Len(s)
       PROVE  OneEntry(s, r).end # "read"
  <2>1. QuestionFrom(s, p).end # "read"
    BY <1>7, <1>9, <1>12, SMTT(30)
  <2>2. QED
    BY <1>10, <2>1
<1>13. QED
  BY <1>11, <1>12

\* The place behind the first k entries.
Behind(p, k, offs) == p \in Nat \ {0} /\ (k > 0 => p = offs[k + 1]) /\ (k = 0 => p = 1)

\* The word after an entry, if there is one, is the next entry's.
LEMMA NextEntry ==
  ASSUME NEW b \in Books, NEW n \in Nat, NEW keys, Enumerates(keys, n, DOMAIN b),
         NEW x, NEW offs, BookLayout(x, b, keys, n, offs), NEW s \in Texts, Begins(s, x),
         NEW k \in Nat, k <= n, n > 0, NEW p, Behind(p, k, offs)
  PROVE  /\ NextWord(s, p) \in Nat \ {0}
         /\ NextWord(s, p) > Len(s) \/ (k < n /\ NextWord(s, p) = offs[k + 1] + 1)
         /\ Len(s) = Len(x) /\ k < n => NextWord(s, p) = offs[k + 1] + 1 /\ offs[k + 1] + 1 <= Len(s)
<1>0. p \in Nat \ {0} /\ (k > 0 => p = offs[k + 1]) /\ (k = 0 => p = 1)
  BY DEF Behind
<1>1. Len(s) \in Nat /\ Len(x) \in Nat /\ Len(s) <= Len(x) /\ Len(x) + 1 = offs[n + 1]
  <2>1. x \in Texts /\ Len(x) + 1 = offs[n + 1]
    BY DEF BookLayout
  <2>2. Len(s) \in Nat /\ Len(x) \in Nat
    BY <2>1 DEF Texts
  <2>3. QED
    BY <2>1, <2>2 DEF Begins
<1>2. NextWord(s, p) \in Nat /\ NextWord(s, p) >= p
  BY <1>0, NextWordFound
<1>3. CASE k = n
  <2>1. p > Len(s)
    BY <1>0, <1>1, <1>3
  <2>2. QED
    BY <1>0, <1>1, <1>2, <1>3, <2>1
<1>4. CASE k < n
  <2>1. PICK i \in 1..n : i = k + 1 /\ i \in 1..(n + 1)
    BY <1>4
  <2>2. offs[i] \in Nat /\ keys[i] \in 0..MaxNumber /\ offs[i + 1] \in Nat
          /\ offs[i + 1] = offs[i] + Len(QuestionText(b[keys[i]])) + 3 /\ Len(QuestionText(b[keys[i]])) \in Nat
    BY EntriesRise
  <2>3. i + 1 \in 1..(n + 1) /\ offs[i + 1] <= offs[n + 1]
    <3>1. i + 1 \in 1..(n + 1)
      OBVIOUS
    <3>2. QED
      BY <3>1, EntriesRise
  <2>4. offs[i] + 1 <= Len(x)
    BY <1>1, <2>2, <2>3, SMTT(30)
  <2>5. x[offs[i] + 1] = Word[keys[i]] /\ (i > 1 => x[offs[i]] = EOL)
    BY DEF BookLayout
  <2>6. CASE offs[i] + 1 <= Len(s)
    <3>1. s[offs[i] + 1] = Word[keys[i]]
      <4>1. offs[i] + 1 \in 1..Len(s)
        BY <2>2, <2>6, SMTT(30)
      <4>2. QED
        BY <2>5, <4>1 DEF Begins
    <3>2. s[offs[i] + 1] \notin {EOL, Sp}
      BY <2>2, <3>1, WordsApart
    <3>3. p \in Nat /\ offs[i] + 1 \in p..(Len(s) + 1) /\ \A j \in p..((offs[i] + 1) - 1) : s[j] \in {EOL, Sp}
      <4>1. CASE k = 0
        <5>1. i = 1 /\ offs[i] = 0 /\ p = 1
          BY <1>0, <2>1, <4>1 DEF BookLayout
        <5>2. QED
          BY <1>1, <2>6, <5>1
      <4>2. CASE k > 0
        <5>1. i > 1 /\ p = offs[i] /\ p \in 1..Len(s)
          BY <1>0, <1>1, <2>1, <2>6, <4>2
        <5>2. s[p] = EOL
          BY <2>5, <5>1 DEF Begins
        <5>3. \A j \in p..((offs[i] + 1) - 1) : j = p
          BY <5>1
        <5>4. offs[i] + 1 \in p..(Len(s) + 1)
          BY <1>1, <2>6, <5>1
        <5>5. QED
          BY <1>0, <5>2, <5>3, <5>4
      <4>3. QED
        BY <4>1, <4>2
    <3>4. NextWord(s, p) = offs[i] + 1
      BY <1>0, <3>2, <3>3, NextWordIs
    <3>5. QED
      BY <1>4, <2>1, <2>2, <2>6, <3>4, SMTT(30)
  <2>7. CASE offs[i] + 1 > Len(s)
    <3>1. NextWord(s, p) > Len(s)
      <4>1. CASE p > Len(s)
        BY <1>0, <1>1, <1>2, <4>1
      <4>2. CASE p <= Len(s)
        <5>1. k > 0
          <6>1. k = 0 => i = 1 /\ offs[i] = 0 /\ p = 1
            BY <1>0, <2>1 DEF BookLayout
          <6>2. QED
            BY <1>1, <2>7, <4>2, <6>1
        <5>2. i > 1 /\ p = offs[i] /\ p = Len(s) /\ p \in 1..Len(s)
          BY <1>0, <1>1, <2>1, <2>2, <2>7, <4>2, <5>1
        <5>3. s[p] = EOL
          BY <2>5, <5>2 DEF Begins
        <5>4. \A j \in p..((Len(s) + 1) - 1) : s[j] \in {EOL, Sp}
          BY <5>2, <5>3
        <5>5. Len(s) + 1 \in p..(Len(s) + 1) /\ Len(s) + 1 > Len(s)
          BY <1>1, <5>2
        <5>6. NextWord(s, p) = Len(s) + 1
          BY <1>0, <5>4, <5>5, NextWordIs
        <5>7. QED
          BY <1>1, <5>6
      <4>3. QED
        BY <1>0, <1>1, <4>1, <4>2
    <3>2. Len(s) # Len(x)
      BY <1>1, <2>2, <2>4, <2>7
    <3>3. NextWord(s, p) \in Nat \ {0}
      BY <1>0, <1>2
    <3>4. QED
      BY <3>1, <3>2, <3>3
  <2>8. QED
    BY <1>1, <2>2, <2>6, <2>7
<1>5. QED
  BY <1>3, <1>4

\* What is made of a book that was cut: its first entries, or nothing.
LEMMA CutBookIsPart ==
  ASSUME NEW b \in Books, b # << >>, NEW s \in Texts, Begins(s, BookText(b)), ReadBook(s).end = "read"
  PROVE  \E k \in 0..Cardinality(DOMAIN b) : ReadBook(s).value = PartOf(b, Keys(b), k)
<1>1. PICK n \in Nat, keys \in {Keys(b)} :
        n = Cardinality(DOMAIN b) /\ keys = Keys(b) /\ Enumerates(keys, n, DOMAIN b)
  BY BookTypes, KeysAre
<1>2. n > 0 /\ \E offs : BookLayout(BookText(b), b, keys, n, offs)
  BY <1>1, BookLaid
<1>3. PICK x, offs : x = BookText(b) /\ BookLayout(x, b, keys, n, offs) /\ Begins(s, x)
  BY <1>2
<1>4. Len(s) \in Nat
  BY DEF Texts
<1>5. PICK f : /\ ReadBook(s) = f[Len(s)]
               /\ f[0] = Read(<< >>, NextWord(s, 1))
               /\ \A k \in 1..Len(s) : f[k] = (IF f[k - 1].end = "read" THEN OneEntry(s, f[k - 1]) ELSE f[k - 1])
  BY BookUnfolds
<1>6. PartOf(b, keys, 0) = << >>
  <2>1. { keys[j] : j \in 1..0 } = {}
    OBVIOUS
  <2>2. QED
    BY <2>1 DEF PartOf
<1> DEFINE S == { j \in Nat : j <= Len(s) => InBook(s, f[j], b, keys, n, offs) }
<1>7. 0 \in S
  <2>1. 0 \in Nat /\ 1 \in Nat \ {0} /\ 0 <= n /\ 0 \in 0..n /\ ~(0 > 0) /\ 0 + 1 = 1
    OBVIOUS
  <2>2. /\ NextWord(s, 1) \in Nat \ {0}
        /\ NextWord(s, 1) > Len(s) \/ (0 < n /\ NextWord(s, 1) = offs[0 + 1] + 1)
    <3>1. Behind(1, 0, offs)
      BY <2>1 DEF Behind
    <3>2. QED
      BY <1>1, <1>2, <1>3, <2>1, <3>1, NextEntry
  <2>3. InBook(s, f[0], b, keys, n, offs)
    BY <1>5, <1>6, <2>1, <2>2 DEF InBook
  <2>4. QED
    BY <2>3
<1>8. ASSUME NEW j \in Nat, j \in S
      PROVE  j + 1 \in S
  <2> SUFFICES ASSUME j + 1 <= Len(s)
               PROVE  InBook(s, f[j + 1], b, keys, n, offs)
    OBVIOUS
  <2>1. j <= Len(s) /\ j + 1 \in 1..Len(s) /\ (j + 1) - 1 = j
    BY <1>4
  <2>2. InBook(s, f[j], b, keys, n, offs)
    BY <1>8, <2>1
  <2>3. f[j + 1] = IF f[j].end = "read" THEN OneEntry(s, f[j]) ELSE f[j]
    BY <1>5, <2>1
  <2>4. CASE f[j].end # "read"
    BY <2>2, <2>3, <2>4
  <2>5. CASE f[j].end = "read"
    <3>1. PICK k \in 0..n, y \in Nat \ {0} :
            f[j] = Read(PartOf(b, keys, k), y) /\ (y > Len(s) \/ (k < n /\ y = offs[k + 1] + 1))
      BY <2>2, <2>5 DEF InBook
    <3>2. f[j].next = y /\ f[j + 1] = OneEntry(s, f[j])
      BY <2>3, <2>5, <3>1, WhatReadIs
    <3>3. CASE y > Len(s)
      <4>1. OneEntry(s, f[j]) = f[j]
        BY <1>4, <3>2, <3>3 DEF OneEntry, IsThere
      <4>2. QED
        BY <2>2, <3>2, <4>1
    <3>4. CASE ~(y > Len(s))
      <4>1. k < n /\ y = offs[k + 1] + 1 /\ offs[k + 1] + 1 <= Len(s) /\ k \in Nat
        BY <1>4, <3>1, <3>4
      <4>2. /\ offs[k + 2] - 2 <= Len(s) => f[j + 1] = Read(PartOf(b, keys, k + 1), NextWord(s, offs[k + 2]))
            /\ offs[k + 2] - 2 > Len(s) => f[j + 1].end # "read"
        BY <1>1, <1>3, <3>1, <3>2, <4>1, OneEntryRead
      <4>3. PICK i \in 1..(n + 1) : i = k + 2 /\ offs[i] \in Nat /\ i - 1 <= offs[i]
        <5>1. k + 2 \in 1..(n + 1)
          BY <4>1
        <5>2. QED
          BY <1>1, <1>3, <5>1, EntriesRise
      <4>4. CASE offs[k + 2] - 2 > Len(s)
        BY <4>2, <4>4 DEF InBook
      <4>5. CASE offs[k + 2] - 2 <= Len(s)
        <5>1. k + 1 \in Nat /\ k + 1 <= n /\ k + 1 > 0 /\ (k + 1) + 1 = k + 2 /\ offs[k + 2] \in Nat \ {0} /\ k + 1 # 0
          BY <4>1, <4>3
        <5>2. /\ NextWord(s, offs[k + 2]) \in Nat \ {0}
              /\ \/ NextWord(s, offs[k + 2]) > Len(s)
                 \/ k + 1 < n /\ NextWord(s, offs[k + 2]) = offs[(k + 1) + 1] + 1
          <6>1. PICK h \in Nat, p \in Nat \ {0} :
                  h = k + 1 /\ p = offs[k + 2] /\ h <= n /\ Behind(p, h, offs)
            BY <5>1 DEF Behind
          <6>2. /\ NextWord(s, p) \in Nat \ {0}
                /\ NextWord(s, p) > Len(s) \/ (h < n /\ NextWord(s, p) = offs[h + 1] + 1)
            BY <1>1, <1>2, <1>3, <6>1, NextEntry
          <6>3. QED
            BY <6>1, <6>2
        <5>3. f[j + 1] = Read(PartOf(b, keys, k + 1), NextWord(s, offs[k + 2]))
          BY <4>2, <4>5
        <5>4. k + 1 \in 0..n
          BY <5>1
        <5>5. QED
          BY <5>2, <5>3, <5>4 DEF InBook
      <4>6. QED
        BY <1>4, <4>3, <4>4, <4>5
    <3>5. QED
      BY <3>3, <3>4
  <2>6. QED
    BY <2>4, <2>5
<1>9. InBook(s, f[Len(s)], b, keys, n, offs)
  <2>1. Len(s) \in S
    <3> HIDE DEF S
    <3> QED
      BY <1>4, <1>7, <1>8, Counting
  <2>2. QED
    BY <1>4, <2>1
<1>10. PICK k \in 0..n, y \in Nat \ {0} : f[Len(s)] = Read(PartOf(b, keys, k), y)
  BY <1>5, <1>9 DEF InBook
<1>11. ReadBook(s).value = PartOf(b, keys, k)
  BY <1>5, <1>10, WhatReadIs
<1>12. QED
  BY <1>1, <1>11

\* A book that is whole is read as it was.
LEMMA WholeBookIsRead ==
  ASSUME NEW b \in Books
  PROVE  ReadBook(BookText(b)).end = "read" /\ ReadBook(BookText(b)).value = b
<1>1. CASE b = << >>
  <2>1. BookText(b) = << >> /\ << >> \in Texts /\ Len(<< >>) = 0
    <3>1. BookText(b) = << >>
      BY <1>1 DEF BookText
    <3>2. << >> \in Seq(Tokens) /\ Len(<< >>) = 0
      OBVIOUS
    <3>3. QED
      BY <3>1, <3>2 DEF Texts
  <2>2. PICK f : /\ ReadBook(<< >>) = f[Len(<< >>)]
                 /\ f[0] = Read(<< >>, NextWord(<< >>, 1))
    BY <2>1, BookUnfolds
  <2>3. QED
    BY <1>1, <2>1, <2>2, WhatReadIs
<1>2. CASE b # << >>
  <2>1. PICK n \in Nat, keys \in {Keys(b)} :
          n = Cardinality(DOMAIN b) /\ keys = Keys(b) /\ Enumerates(keys, n, DOMAIN b)
    BY BookTypes, KeysAre
  <2>2. n > 0 /\ \E offs : BookLayout(BookText(b), b, keys, n, offs)
    BY <1>2, <2>1, BookLaid
  <2>3. PICK s, offs : s = BookText(b) /\ BookLayout(s, b, keys, n, offs)
    BY <2>2
  <2>4. s \in Texts /\ Len(s) \in Nat /\ Len(s) + 1 = offs[n + 1] /\ Begins(s, s)
    BY <2>3 DEF Texts, BookLayout, Begins
  <2>5. PICK f : /\ ReadBook(s) = f[Len(s)]
                 /\ f[0] = Read(<< >>, NextWord(s, 1))
                 /\ \A k \in 1..Len(s) : f[k] = (IF f[k - 1].end = "read" THEN OneEntry(s, f[k - 1]) ELSE f[k - 1])
    BY <2>4, BookUnfolds
  <2>6. PartOf(b, keys, 0) = << >>
    <3>1. { keys[j] : j \in 1..0 } = {}
      OBVIOUS
    <3>2. QED
      BY <3>1 DEF PartOf
  <2>7. n <= Len(s)
    <3>1. PICK i \in 1..n : i = n
      BY <2>2
    <3>2. /\ offs[i] \in Nat /\ offs[i + 1] = offs[i] + Len(QuestionText(b[keys[i]])) + 3
          /\ Len(QuestionText(b[keys[i]])) \in Nat
      BY <2>1, <2>3, EntriesRise, SMTT(30)
    <3>3. n \in 1..(n + 1)
      BY <2>2
    <3>4. n - 1 <= offs[n]
      BY <2>1, <2>3, <3>3, EntriesRise
    <3>5. QED
      BY <2>4, <3>1, <3>2, <3>4
  <2> DEFINE Fine(j) == IF j < n THEN f[j] = Read(PartOf(b, keys, j), offs[j + 1] + 1) /\ offs[j + 1] + 1 <= Len(s)
                        ELSE \E y \in Nat : y > Len(s) /\ f[j] = Read(PartOf(b, keys, n), y)
             S == { j \in Nat : j <= Len(s) => Fine(j) }
  <2>8. 0 \in S
    <3>1. 0 \in Nat /\ 1 \in Nat \ {0} /\ 0 <= n /\ 0 < n /\ ~(0 > 0) /\ 0 + 1 = 1
      BY <2>2
    <3>2. NextWord(s, 1) = offs[0 + 1] + 1 /\ offs[0 + 1] + 1 <= Len(s)
      <4>1. PICK h \in Nat, p \in Nat \ {0} :
              h = 0 /\ p = 1 /\ h <= n /\ h < n /\ Behind(p, h, offs)
        BY <3>1 DEF Behind
      <4>2. NextWord(s, p) = offs[h + 1] + 1 /\ offs[h + 1] + 1 <= Len(s)
        BY <2>1, <2>2, <2>3, <2>4, <4>1, NextEntry
      <4>3. QED
        BY <4>1, <4>2
    <3>3. Fine(0)
      BY <2>5, <2>6, <3>1, <3>2
    <3>4. QED
      BY <3>3
  <2>9. ASSUME NEW j \in Nat, j \in S
        PROVE  j + 1 \in S
    <3> SUFFICES ASSUME j + 1 <= Len(s)
                 PROVE  Fine(j + 1)
      <4> HIDE DEF Fine
      <4> QED
        OBVIOUS
    <3>1. j <= Len(s) /\ j + 1 \in 1..Len(s) /\ (j + 1) - 1 = j
      BY <2>4
    <3>2. Fine(j)
      <4> HIDE DEF Fine
      <4> QED
        BY <2>9, <3>1
    <3>3. f[j + 1] = IF f[j].end = "read" THEN OneEntry(s, f[j]) ELSE f[j]
      BY <2>5, <3>1
    <3>4. CASE j < n
      <4>1. f[j] = Read(PartOf(b, keys, j), offs[j + 1] + 1) /\ offs[j + 1] + 1 <= Len(s)
        BY <3>2, <3>4
      <4>2. f[j + 1] = OneEntry(s, f[j])
        BY <3>3, <4>1, WhatReadIs
      <4>3. PICK i \in 1..(n + 1) : i = j + 2 /\ offs[i] \in Nat /\ i - 1 <= offs[i] /\ offs[i] <= offs[n + 1]
        <5>1. j + 2 \in 1..(n + 1)
          BY <3>4
        <5>2. QED
          BY <2>1, <2>3, <5>1, EntriesRise
      <4>4. offs[j + 2] - 2 <= Len(s)
        BY <2>4, <4>3
      <4>5. f[j + 1] = Read(PartOf(b, keys, j + 1), NextWord(s, offs[j + 2]))
        BY <2>1, <2>3, <2>4, <3>4, <4>1, <4>2, <4>4, OneEntryRead
      <4>6. /\ j + 1 \in Nat /\ j + 1 <= n /\ j + 1 > 0 /\ (j + 1) + 1 = j + 2 /\ offs[j + 2] \in Nat \ {0} /\ j + 1 # 0
        BY <3>4, <4>3
      <4>7. /\ NextWord(s, offs[j + 2]) \in Nat \ {0}
            /\ \/ NextWord(s, offs[j + 2]) > Len(s)
               \/ j + 1 < n /\ NextWord(s, offs[j + 2]) = offs[(j + 1) + 1] + 1
            /\ Len(s) = Len(s) /\ j + 1 < n => /\ NextWord(s, offs[j + 2]) = offs[(j + 1) + 1] + 1
                                               /\ offs[(j + 1) + 1] + 1 <= Len(s)
        <5>1. PICK h \in Nat, p \in Nat \ {0} :
                h = j + 1 /\ p = offs[j + 2] /\ h <= n /\ Behind(p, h, offs)
          BY <4>6 DEF Behind
        <5>2. /\ NextWord(s, p) \in Nat \ {0}
              /\ NextWord(s, p) > Len(s) \/ (h < n /\ NextWord(s, p) = offs[h + 1] + 1)
              /\ Len(s) = Len(s) /\ h < n => NextWord(s, p) = offs[h + 1] + 1 /\ offs[h + 1] + 1 <= Len(s)
          BY <2>1, <2>2, <2>3, <2>4, <5>1, NextEntry
        <5>3. QED
          BY <5>1, <5>2
      <4>8. j + 1 < n \/ j + 1 = n
        BY <4>6
      <4>9. QED
        BY <4>5, <4>7, <4>8
    <3>5. CASE ~(j < n)
      <4>1. PICK y \in Nat : y > Len(s) /\ f[j] = Read(PartOf(b, keys, n), y)
        BY <3>2, <3>5
      <4>2. f[j].next = y /\ f[j + 1] = OneEntry(s, f[j])
        BY <3>3, <4>1, WhatReadIs
      <4>3. OneEntry(s, f[j]) = f[j]
        BY <2>4, <4>1, <4>2 DEF OneEntry, IsThere
      <4>4. ~(j + 1 < n)
        BY <3>5
      <4>5. QED
        BY <4>1, <4>2, <4>3, <4>4
    <3>6. QED
      BY <3>4, <3>5
  <2>10. Fine(Len(s))
    <3>1. Len(s) \in S
      <4> HIDE DEF S
      <4> QED
        BY <2>4, <2>8, <2>9, Counting
    <3> HIDE DEF Fine
    <3>2. QED
      BY <2>4, <3>1
  <2>11. PICK y \in Nat : f[Len(s)] = Read(PartOf(b, keys, n), y)
    <3>1. ~(Len(s) < n)
      BY <2>4, <2>7
    <3>2. QED
      BY <2>10, <3>1
  <2>12. PartOf(b, keys, n) = b
    <3>1. b = [i \in DOMAIN b |-> b[i]]
      BY BookTypes
    <3>2. QED
      BY <2>1, <3>1, WholePart
  <2>13. QED
    BY <2>3, <2>5, <2>11, <2>12, WhatReadIs
<1>3. QED
  BY <1>1, <1>2

\* Whatever is loaded as a book is one.
LEMMA BookReadTypes ==
  ASSUME NEW s \in Texts, ReadBook(s).end = "read"
  PROVE  ReadBook(s).value \in Books
<1>1. Len(s) \in Nat
  BY DEF Texts
<1>2. PICK f : /\ ReadBook(s) = f[Len(s)]
               /\ f[0] = Read(<< >>, NextWord(s, 1))
               /\ \A k \in 1..Len(s) : f[k] = (IF f[k - 1].end = "read" THEN OneEntry(s, f[k - 1]) ELSE f[k - 1])
  BY BookUnfolds
<1> DEFINE Fine(r) == r.end # "read" \/ \E b \in Books, y \in Nat \ {0} : r = Read(b, y)
           S == { j \in Nat : j <= Len(s) => Fine(f[j]) }
<1>3. 0 \in S
  <2>1. << >> \in Books
    <3>1. << >> \in [{} -> Questions]
      OBVIOUS
    <3>2. QED
      BY <3>1 DEF Books
  <2>2. NextWord(s, 1) \in Nat \ {0}
    <3>1. NextWord(s, 1) \in Nat /\ NextWord(s, 1) >= 1
      BY NextWordFound
    <3>2. QED
      BY <3>1
  <2>3. Fine(f[0])
    BY <1>2, <2>1, <2>2
  <2>4. QED
    BY <2>3
<1>4. ASSUME NEW r, Fine(r), r.end = "read"
      PROVE  Fine(OneEntry(s, r))
  <2>1. PICK b \in Books, y \in Nat \ {0} : r = Read(b, y)
    BY <1>4
  <2>2. r.value = b /\ r.next = y
    BY <2>1, WhatReadIs
  <2>3. CASE ~IsThere(s, y)
    <3>1. OneEntry(s, r) = r
      BY <2>2, <2>3 DEF OneEntry
    <3>2. QED
      BY <1>4, <3>1
  <2>4. CASE IsThere(s, y)
    <3>1. PICK e : e = Entry(s, y)
      OBVIOUS
    <3>2. OneEntry(s, r) = IF e.end = "read" THEN Read(Emplaced(b, NumberOf(s[y]), e.value), NextWord(s, e.next)) ELSE e
      BY <2>2, <2>4, <3>1 DEF OneEntry, Then
    <3>3. CASE e.end # "read"
      BY <3>2, <3>3
    <3>4. CASE e.end = "read"
      <4>1. s[y] \in Numbers /\ e = QuestionFrom(s, y + 2) /\ y + 2 \in Nat \ {0}
        BY <3>1, <3>4, WhatEnds DEF Entry
      <4>2. PICK q \in Questions, z \in Nat : z > y + 2 /\ e = Read(q, z)
        BY <3>4, <4>1, QuestionTypes
      <4>3. e.value = q /\ e.next = z /\ z \in Nat \ {0}
        BY <4>2, WhatReadIs
      <4>4. NumberOf(s[y]) \in 0..MaxNumber
        BY <4>1, NumbersAre
      <4>5. PICK d \in 0..MaxNumber : d = NumberOf(s[y])
        BY <4>4
      <4>6. Emplaced(b, d, q) \in Books
        <5>1. DOMAIN b \in SUBSET (0..MaxNumber) /\ \A i \in DOMAIN b : b[i] \in Questions
          BY BookTypes
        <5>2. DOMAIN b \cup {d} \in SUBSET (0..MaxNumber)
          BY <5>1
        <5>3. Emplaced(b, d, q) \in [DOMAIN b \cup {d} -> Questions]
          BY <5>1 DEF Emplaced
        <5>4. QED
          BY <5>2, <5>3 DEF Books
      <4>7. NextWord(s, z) \in Nat \ {0}
        <5>1. NextWord(s, z) \in Nat /\ NextWord(s, z) >= z
          BY <4>3, NextWordFound
        <5>2. QED
          BY <4>3, <5>1
      <4>8. OneEntry(s, r) = Read(Emplaced(b, d, q), NextWord(s, z))
        BY <3>2, <3>4, <4>3, <4>5
      <4>9. QED
        BY <4>6, <4>7, <4>8
    <3>5. QED
      BY <3>3, <3>4
  <2>5. QED
    BY <2>3, <2>4
<1>5. ASSUME NEW j \in Nat, j \in S
      PROVE  j + 1 \in S
  <2> SUFFICES ASSUME j + 1 <= Len(s)
               PROVE  Fine(f[j + 1])
    <3> HIDE DEF Fine
    <3> QED
      OBVIOUS
  <2>1. j <= Len(s) /\ j + 1 \in 1..Len(s) /\ (j + 1) - 1 = j
    BY <1>1
  <2> HIDE DEF Fine
  <2>2. Fine(f[j])
    BY <1>5, <2>1
  <2>3. f[j + 1] = IF f[j].end = "read" THEN OneEntry(s, f[j]) ELSE f[j]
    BY <1>2, <2>1
  <2>4. QED
    BY <1>4, <2>2, <2>3
<1>6. Fine(f[Len(s)])
  <2>1. Len(s) \in S
    <3> HIDE DEF S
    <3> QED
      BY <1>1, <1>3, <1>5, Counting
  <2> HIDE DEF Fine
  <2>2. QED
    BY <1>1, <2>1
<1>7. QED
  BY <1>2, <1>6, WhatReadIs

-----------------------------------------------------------------------------
LEMMA EmptyBook ==
  << >> \in Books /\ BookText(<< >>) = << >> /\ << >> \in Texts /\ Len(<< >>) = 0
<1>1. << >> \in [{} -> Questions]
  OBVIOUS
<1>2. << >> \in Seq(Tokens) /\ Len(<< >>) = 0
  OBVIOUS
<1>3. QED
  BY <1>1, <1>2 DEF Books, BookText, Texts

\* A book is written as a text.
LEMMA BookTexts ==
  ASSUME NEW b \in Books
  PROVE  BookText(b) \in Texts
<1>1. CASE b = << >>
  BY <1>1, EmptyBook
<1>2. CASE b # << >>
  <2>1. PICK n \in Nat : n = Cardinality(DOMAIN b)
    BY BookTypes, KeysAre
  <2>2. QED
    BY <1>2, <2>1, BookLaid DEF BookLayout
<1>3. QED
  BY <1>1, <1>2

\* A body of a post is a text.
LEMMA BodyTypes ==
  ASSUME NEW post \in Posted
  PROVE  post[1] \in 0..MaxNumber /\ post[1] \in QIds /\ post[2] \in Texts
<1>1. post[1] \in QIds /\ post[2] \in Seq(Range(post[2]))
  BY PostsAssumption
<1>2. Range(post[2]) \subseteq Tokens
  BY DEF Tokens
<1>3. post[2] \in Seq(Tokens)
  BY <1>1, <1>2
<1>4. QED
  BY <1>1, <1>3, NumbersAssumption DEF Texts

\* Changes of a book leave a book.
LEMMA BookChanges ==
  ASSUME NEW b \in Books
  PROVE  /\ \A id \in 0..MaxNumber, q \in Questions : Emplaced(b, id, q) \in Books
         /\ \A id : Without(b, id) \in Books
<1>1. DOMAIN b \in SUBSET (0..MaxNumber) /\ \A i \in DOMAIN b : b[i] \in Questions
  BY BookTypes
<1>2. ASSUME NEW id \in 0..MaxNumber, NEW q \in Questions
      PROVE  Emplaced(b, id, q) \in Books
  <2>1. DOMAIN b \cup {id} \in SUBSET (0..MaxNumber)
    BY <1>1
  <2>2. Emplaced(b, id, q) \in [DOMAIN b \cup {id} -> Questions]
    BY <1>1 DEF Emplaced
  <2>3. QED
    BY <2>1, <2>2 DEF Books
<1>3. ASSUME NEW id
      PROVE  Without(b, id) \in Books
  <2>1. DOMAIN b \ {id} \in SUBSET (0..MaxNumber)
    BY <1>1
  <2>2. Without(b, id) \in [DOMAIN b \ {id} -> Questions]
    BY <1>1 DEF Without
  <2>3. QED
    BY <2>1, <2>2 DEF Books
<1>4. QED
  BY <1>2, <1>3

-----------------------------------------------------------------------------
\* What is always true of the book and its file: the file holds the text of what
\* was saved, or as much of it as was written.
BookInv ==
  /\ book \in Books /\ saved["questions"] \in Books /\ file["questions"] \in Texts
  /\ DOMAIN file = Banks /\ DOMAIN saved = Banks /\ DOMAIN how = Banks
  /\ how["questions"] = "whole" => file["questions"] = BookText(saved["questions"])
  /\ how["questions"] = "cut" =>
       saved["questions"] # << >> /\ Begins(file["questions"], BookText(saved["questions"]))

LEMMA BookInit == Init => BookInv
<1> SUFFICES ASSUME Init
             PROVE  BookInv
  OBVIOUS
<1>1. /\ book = << >> /\ file = Empty /\ saved = Empty /\ how = [b \in Banks |-> "none"]
      /\ "questions" \in Banks
  BY DEF Init, Banks
<1>2. QED
  BY <1>1, EmptyBook DEF BookInv, Empty

\* A book that is saved.
LEMMA BookSaves ==
  ASSUME BookInv, book' \in Books, Saves("questions", book')
  PROVE  BookInv'
<1>1. "questions" \in Banks /\ Text("questions", book') = BookText(book')
  BY DEF Banks, Text
<1>2. PICK x : x = BookText(book') /\ x \in Texts
  BY BookTexts
<1>3. DOMAIN saved' = Banks /\ saved'["questions"] = book'
  BY <1>1 DEF Saves, BookInv
<1>4. CASE Leaves("questions", x, "whole")
  <2>1. /\ DOMAIN file' = Banks /\ file'["questions"] = x
        /\ DOMAIN how' = Banks /\ how'["questions"] = "whole"
    BY <1>1, <1>4 DEF Leaves, BookInv
  <2>2. QED
    BY <1>2, <1>3, <2>1 DEF BookInv
<1>5. CASE \E k \in 0..(Len(x) - 1) : Leaves("questions", SubSeq(x, 1, k), "cut")
  <2>1. PICK k \in 0..(Len(x) - 1) : Leaves("questions", SubSeq(x, 1, k), "cut")
    BY <1>5
  <2>2. Len(x) \in Nat /\ k \in Nat /\ k <= Len(x) /\ k < Len(x)
    BY <1>2 DEF Texts
  <2>3. /\ SubSeq(x, 1, k) \in Texts /\ Len(SubSeq(x, 1, k)) = k
        /\ \A i \in 1..k : SubSeq(x, 1, k)[i] = x[i]
    <3>1. /\ SubSeq(x, 1, k) \in Texts
          /\ 1 <= k + 1 => Len(SubSeq(x, 1, k)) = k + 1 - 1
          /\ \A i \in 1..(k + 1 - 1) : SubSeq(x, 1, k)[i] = x[1 + i - 1]
      BY <1>2, <2>2, Part
    <3>2. k + 1 - 1 = k /\ 1 <= k + 1 /\ \A i \in 1..k : 1 + i - 1 = i
      BY <2>2
    <3>3. QED
      BY <3>1, <3>2
  <2>4. Begins(SubSeq(x, 1, k), x)
    BY <2>2, <2>3 DEF Begins
  <2>5. book' # << >>
    <3>1. Len(x) # 0
      BY <2>2
    <3>2. QED
      BY <1>2, <3>1, EmptyBook
  <2>6. /\ DOMAIN file' = Banks /\ file'["questions"] = SubSeq(x, 1, k)
        /\ DOMAIN how' = Banks /\ how'["questions"] = "cut"
    BY <1>1, <2>1 DEF Leaves, BookInv
  <2>7. QED
    BY <1>2, <1>3, <2>3, <2>4, <2>5, <2>6 DEF BookInv
<1>6. Leaves("questions", x, "whole") \/ \E k \in 0..(Len(x) - 1) : Leaves("questions", SubSeq(x, 1, k), "cut")
  BY <1>1, <1>2 DEF Saves
<1>7. QED
  BY <1>4, <1>5, <1>6

\* The other file is left alone.
LEMMA BookApart ==
  ASSUME BookInv, NEW value, Saves("contests", value), UNCHANGED book
  PROVE  BookInv'
<1>1. /\ "questions" \in Banks /\ "contests" # "questions"
  BY DEF Banks
<1>2. /\ DOMAIN saved' = Banks /\ saved'["questions"] = saved["questions"]
      /\ DOMAIN file' = Banks /\ file'["questions"] = file["questions"]
      /\ DOMAIN how' = Banks /\ how'["questions"] = how["questions"]
  BY <1>1 DEF Saves, Leaves, BookInv
<1>3. QED
  BY <1>2 DEF BookInv

LEMMA BookNext == BookInv /\ [Next]_vars => BookInv'
<1> SUFFICES ASSUME BookInv, [Next]_vars
             PROVE  BookInv'
  OBVIOUS
<1>1. ASSUME NEW post \in Posted, Posts(post[1], post[2])
      PROVE  BookInv'
  <2>1. CASE UNCHANGED <<book, file, saved, how>>
    BY <2>1 DEF BookInv
  <2>2. CASE ~UNCHANGED <<book, file, saved, how>>
    <3>1. PICK id, body, q : id = post[1] /\ body = post[2] /\ q = QuestionFrom(body, 1)
      OBVIOUS
    <3>2. q.end = "read" /\ book' = Emplaced(book, id, q.value) /\ Saves("questions", book')
      BY <1>1, <2>2, <3>1 DEF Posts
    <3>3. id \in 0..MaxNumber /\ body \in Texts
      BY <3>1, BodyTypes
    <3>4. PICK r \in Questions, y \in Nat : y > 1 /\ q = Read(r, y)
      <4>1. 1 \in Nat \ {0}
        OBVIOUS
      <4>2. QED
        BY <3>1, <3>2, <3>3, <4>1, QuestionTypes
    <3>5. q.value \in Questions
      BY <3>4, WhatReadIs
    <3>6. book' \in Books
      BY <3>2, <3>3, <3>5, BookChanges DEF BookInv
    <3>7. QED
      BY <3>2, <3>6, BookSaves
  <2>3. QED
    BY <2>1, <2>2
<1>2. ASSUME NEW id \in QIds, Deletes(id)
      PROVE  BookInv'
  <2>1. book' = Without(book, id) /\ Saves("questions", book')
    BY <1>2 DEF Deletes
  <2>2. book' \in Books
    BY <2>1, BookChanges DEF BookInv
  <2>3. QED
    BY <2>1, <2>2, BookSaves
<1>3. ASSUME NEW c \in CIds, SetsContest(c)
      PROVE  BookInv'
  BY <1>3, BookApart DEF SetsContest
<1>4. ASSUME NEW c \in CIds, NEW id \in QIds, AddsQuestion(c, id)
      PROVE  BookInv'
  BY <1>4, BookApart DEF AddsQuestion
<1>5. ASSUME NEW c \in CIds, NEW n \in Counts, NEW k \in Counts, StoresStats(c, n, k)
      PROVE  BookInv'
  BY <1>5, BookApart DEF StoresStats
<1>6. CASE Ends
  BY <1>6 DEF Ends, BookInv
<1>7. CASE Starts
  <2>1. PICK qs : qs = ReadBook(file["questions"])
    OBVIOUS
  <2>2. CASE qs.end = "read" /\ ReadContests(file["contests"]).end = "read"
    <3>1. qs.value \in Books
      BY <2>1, <2>2, BookReadTypes DEF BookInv
    <3>2. /\ book' = qs.value /\ how' = [b \in Banks |-> "read"] /\ file' = file
          /\ DOMAIN saved' = Banks /\ saved'["questions"] = qs.value
      BY <1>7, <2>1, <2>2 DEF Starts, Banks
    <3>3. how'["questions"] = "read" /\ DOMAIN how' = Banks
      BY <3>2 DEF Banks
    <3>4. QED
      BY <3>1, <3>2, <3>3 DEF BookInv
  <2>3. CASE ~(qs.end = "read" /\ ReadContests(file["contests"]).end = "read")
    <3>1. UNCHANGED <<book, how, saved, file>>
      BY <1>7, <2>1, <2>3 DEF Starts
    <3>2. QED
      BY <3>1 DEF BookInv
  <2>4. QED
    BY <2>2, <2>3
<1>8. CASE UNCHANGED vars
  BY <1>8 DEF vars, BookInv
<1>9. QED
  BY <1>1, <1>2, <1>3, <1>4, <1>5, <1>6, <1>7, <1>8 DEF Next

LEMMA BookInvariant == Spec => []BookInv
<1>1. QED
  BY BookInit, BookNext, PTL DEF Spec

-----------------------------------------------------------------------------
\* Every book a post or a deletion left behind is the book the next start loads,
\* whatever the questions are (QuizBook::serialize and QuizBook::readFrom,
\* QuizBook.cpp:94-134): the title ends where it ended, the choices are as many,
\* the entries are found behind each other.
THEOREM WholeBooksLoad == Spec => []WholeBookLoads
<1>1. BookInv => WholeBookLoads
  <2> SUFFICES ASSUME BookInv, how["questions"] = "whole"
               PROVE  LoadedBook.end = "read" /\ LoadedBook.value = saved["questions"]
    BY DEF WholeBookLoads
  <2>1. saved["questions"] \in Books /\ file["questions"] = BookText(saved["questions"])
    BY DEF BookInv
  <2>2. QED
    BY <2>1, WholeBookIsRead DEF LoadedBook
<1>2. QED
  BY <1>1, BookInvariant, PTL

\* A file that was cut anywhere gives the next start the first questions of the
\* book, each as it was, or an exception, or no end: the readers of a question
\* accept none that lacks its last line (QuestionTitle.cpp:49-70,
\* ChoiceCollection.cpp:92-126, SolvedQuestion.cpp).
THEOREM CutBooksLoadInPart == Spec => []CutBookLoadsInPart
<1>1. BookInv => CutBookLoadsInPart
  <2> SUFFICES ASSUME BookInv, how["questions"] = "cut", LoadedBook.end = "read"
               PROVE  \E n \in 0..Cardinality(DOMAIN saved["questions"]) :
                        LoadedBook.value = [i \in { Keys(saved["questions"])[k] : k \in 1..n } |-> saved["questions"][i]]
    BY DEF CutBookLoadsInPart
  <2>1. PICK b, s : /\ b = saved["questions"] /\ s = file["questions"] /\ b \in Books /\ s \in Texts
                    /\ b # << >> /\ Begins(s, BookText(b)) /\ ReadBook(s).end = "read"
    BY DEF BookInv, LoadedBook
  <2>2. \E k \in 0..Cardinality(DOMAIN b) : ReadBook(s).value = PartOf(b, Keys(b), k)
    BY <2>1, CutBookIsPart
  <2>3. QED
    BY <2>1, <2>2 DEF PartOf, LoadedBook
<1>2. QED
  BY <1>1, BookInvariant, PTL

-----------------------------------------------------------------------------
\* The contests.
\* A text is in another from p on, as far as that one goes.
TextAt(s, p, x) == \A k \in 1..Len(x) : p + k - 1 <= Len(s) => s[p + k - 1] = x[k]

LEMMA AtBegin ==
  ASSUME NEW s \in Texts, NEW x \in Texts, Begins(s, x)
  PROVE  TextAt(s, 1, x)
<1> SUFFICES ASSUME NEW k \in 1..Len(x), 1 + k - 1 <= Len(s)
             PROVE  s[1 + k - 1] = x[k]
  BY DEF TextAt
<1>1. Len(x) \in Nat /\ Len(s) \in Nat
  BY DEF Texts
<1>2. 1 + k - 1 = k /\ k \in 1..Len(s)
  BY <1>1
<1>3. QED
  BY <1>2 DEF Begins

LEMMA AtJoined ==
  ASSUME NEW s \in Texts, NEW p \in Nat, NEW x \in Texts, NEW y \in Texts, TextAt(s, p, x \o y)
  PROVE  TextAt(s, p, x) /\ TextAt(s, p + Len(x), y)
<1>1. /\ Len(x) \in Nat /\ Len(y) \in Nat /\ Len(s) \in Nat /\ Len(x \o y) = Len(x) + Len(y)
      /\ \A k \in 1..Len(x) : (x \o y)[k] = x[k]
      /\ \A k \in 1..Len(y) : (x \o y)[k + Len(x)] = y[k]
  BY Joined DEF Texts
<1>2. ASSUME NEW k \in 1..Len(x), p + k - 1 <= Len(s)
      PROVE  s[p + k - 1] = x[k]
  <2>1. k \in 1..Len(x \o y)
    BY <1>1
  <2>2. s[p + k - 1] = (x \o y)[k]
    BY <1>2, <2>1 DEF TextAt
  <2>3. QED
    BY <1>1, <2>2
<1>3. ASSUME NEW k \in 1..Len(y), p + Len(x) + k - 1 <= Len(s)
      PROVE  s[p + Len(x) + k - 1] = y[k]
  <2>1. k + Len(x) \in 1..Len(x \o y) /\ p + (k + Len(x)) - 1 = p + Len(x) + k - 1
    BY <1>1
  <2>2. s[p + (k + Len(x)) - 1] = (x \o y)[k + Len(x)]
    BY <1>3, <2>1 DEF TextAt
  <2>3. QED
    BY <1>1, <2>1, <2>2
<1>4. QED
  BY <1>2, <1>3 DEF TextAt

LEMMA SameRead ==
  ASSUME NEW v, NEW n, NEW w, NEW m, Read(v, n) = Read(w, m)
  PROVE  v = w /\ n = m
<1>1. PICK r : r = Read(v, n) /\ r = Read(w, m)
  OBVIOUS
<1>2. r.value = v /\ r.next = n
  BY <1>1, WhatReadIs
<1>3. r.value = w /\ r.next = m
  BY <1>1, WhatReadIs
<1>4. QED
  BY <1>2, <1>3

\* Every text is in the empty one, as far as that goes.
LEMMA EmptyText ==
  ASSUME NEW x
  PROVE  TextAt(<< >>, 1, x)
<1>1. Len(<< >>) = 0
  OBVIOUS
<1>2. \A k \in 1..Len(x) : ~(1 + k - 1 <= 0)
  OBVIOUS
<1>3. QED
  BY <1>1, <1>2 DEF TextAt

LEMMA PartsAre ==
  ASSUME NEW n \in Nat, NEW parts, parts \in [1..n -> Texts]
  PROVE  parts \in Seq(Texts) /\ Len(parts) = n
OBVIOUS

\* Where texts put together are, when they are in another from p on.
LaidFrom(s, p, parts, n, offs, z) ==
  /\ offs \in [1..(n + 1) -> Nat] /\ offs[1] = p /\ offs[n + 1] = z
  /\ \A i \in 1..n : offs[i + 1] = offs[i] + Len(parts[i]) /\ TextAt(s, offs[i], parts[i])

LEMMA AtFlattened ==
  ASSUME NEW s \in Texts, NEW p \in Nat, NEW n \in Nat, NEW parts \in Seq(Texts), Len(parts) = n,
         TextAt(s, p, FlattenSeq(parts))
  PROVE  /\ FlattenSeq(parts) \in Texts
         /\ \E offs : LaidFrom(s, p, parts, n, offs, p + Len(FlattenSeq(parts)))
<1>0. Len(s) \in Nat
  BY DEF Texts
<1>1. CASE n = 0
  <2>1. FlattenSeq(parts) = parts /\ parts = << >>
    BY <1>1 DEF FlattenSeq
  <2>2. << >> \in Texts /\ Len(<< >>) = 0
    BY EmptyBook
  <2> DEFINE offs == [i \in 1..1 |-> p]
  <2>3. LaidFrom(s, p, parts, n, offs, p + Len(FlattenSeq(parts)))
    BY <1>1, <2>1, <2>2 DEF LaidFrom
  <2>4. QED
    BY <2>1, <2>2, <2>3
<1>2. CASE n # 0
  <2>0. n \in Nat \ {0}
    BY <1>2
  <2>1a. PICK offs0 \in [1..(n + 1) -> Nat] :
           /\ offs0[1] = 0 /\ \A i \in 1..n : offs0[i + 1] = offs0[i] + Len(parts[i])
           /\ FlattenSeq(parts) \in Texts /\ Len(FlattenSeq(parts)) = offs0[n + 1]
           /\ \A i \in 1..n : \A k \in 1..Len(parts[i]) :
                FlattenSeq(parts)[offs0[i] + k] = parts[i][k]
    BY <2>0, Flattened
  <2>1b. PICK x \in Texts : x = FlattenSeq(parts)
    BY <2>1a
  <2>1. /\ x = FlattenSeq(parts) /\ offs0 \in [1..(n + 1) -> Nat]
        /\ offs0[1] = 0 /\ \A i \in 1..n : offs0[i + 1] = offs0[i] + Len(parts[i])
        /\ x \in Texts /\ Len(x) = offs0[n + 1]
        /\ \A i \in 1..n : \A k \in 1..Len(parts[i]) : x[offs0[i] + k] = parts[i][k]
    BY <2>1a, <2>1b
  <2>2. \A i \in 1..n : parts[i] \in Texts /\ Len(parts[i]) \in Nat
    BY DEF Texts
  <2>3. \A i \in 1..(n + 1) : offs0[i] <= Len(x)
    <3> DEFINE S == { j \in Nat : j <= n => offs0[n + 1 - j] <= Len(x) }
    <3>1. 0 \in S
      <4>1. n + 1 - 0 = n + 1 /\ n + 1 \in 1..(n + 1)
        OBVIOUS
      <4>2. Len(x) \in Nat
        BY <2>1
      <4>3. QED
        BY <2>1, <4>1, <4>2
    <3>2. ASSUME NEW j \in Nat, j \in S
          PROVE  j + 1 \in S
      <4> SUFFICES ASSUME j + 1 <= n
                   PROVE  offs0[n + 1 - (j + 1)] <= Len(x)
        OBVIOUS
      <4>1. PICK i \in 1..n : i = n - j
        OBVIOUS
      <4>2. offs0[i + 1] <= Len(x) /\ i + 1 = n + 1 - j
        BY <3>2, <4>1
      <4>3. offs0[i + 1] = offs0[i] + Len(parts[i]) /\ offs0[i] \in Nat /\ Len(parts[i]) \in Nat /\ Len(x) \in Nat
        BY <2>1, <2>2
      <4>4. offs0[i] <= Len(x) /\ n + 1 - (j + 1) = i
        BY <4>1, <4>2, <4>3
      <4>5. QED
        BY <4>4
    <3>3. \A j \in Nat : j \in S
      <4> HIDE DEF S
      <4> QED
        BY <3>1, <3>2, Counting
    <3>4. QED
      <4> TAKE i \in 1..(n + 1)
      <4>1. PICK j \in Nat : j = n + 1 - i
        OBVIOUS
      <4>2. j <= n /\ n + 1 - j = i
        BY <4>1
      <4>3. QED
        BY <3>3, <4>2
  <2> DEFINE offs == [i \in 1..(n + 1) |-> p + offs0[i]]
  <2>4. /\ offs \in [1..(n + 1) -> Nat] /\ offs[1] = p /\ offs[n + 1] = p + Len(x)
        /\ \A i \in 1..(n + 1) : offs[i] = p + offs0[i]
    BY <2>1
  <2> HIDE DEF offs
  <2>5. ASSUME NEW i \in 1..n
        PROVE  offs[i + 1] = offs[i] + Len(parts[i]) /\ TextAt(s, offs[i], parts[i])
    <3>1. /\ offs[i] = p + offs0[i] /\ offs[i + 1] = p + offs0[i + 1] /\ offs0[i + 1] = offs0[i] + Len(parts[i])
          /\ offs0[i] \in Nat /\ Len(parts[i]) \in Nat /\ offs0[i + 1] <= Len(x) /\ Len(x) \in Nat
      <4>1. i \in 1..(n + 1) /\ i + 1 \in 1..(n + 1)
        OBVIOUS
      <4>2. offs0[i] \in Nat /\ offs0[i + 1] <= Len(x) /\ offs[i] = p + offs0[i] /\ offs[i + 1] = p + offs0[i + 1]
        BY <2>3, <2>4, <4>1
      <4>3. offs0[i + 1] = offs0[i] + Len(parts[i]) /\ Len(parts[i]) \in Nat /\ Len(x) \in Nat
        BY <2>1, <2>2 DEF Texts
      <4>4. QED
        BY <4>2, <4>3
    <3>2. ASSUME NEW k \in 1..Len(parts[i]), offs[i] + k - 1 <= Len(s)
          PROVE  s[offs[i] + k - 1] = parts[i][k]
      <4>0. PICK a \in Nat, l \in Nat, e \in Nat : a = offs0[i] /\ l = Len(parts[i]) /\ e = Len(x) /\ a + l <= e
        BY <3>1
      <4>1. PICK h \in 1..Len(x) : h = offs0[i] + k /\ h \in Nat
        <5>1. k \in 1..l /\ a + k \in 1..e
          BY <4>0
        <5>2. QED
          BY <4>0, <5>1
      <4>2. p + h - 1 = offs[i] + k - 1
        <5>1. k \in Int /\ a \in Int /\ p \in Int
          OBVIOUS
        <5>2. p + (a + k) - 1 = (p + a) + k - 1
          BY ONLY <5>1
        <5>3. h = a + k /\ offs[i] = p + a
          BY <3>1, <4>0, <4>1
        <5>4. QED
          BY <5>2, <5>3
      <4>3. s[p + h - 1] = x[h]
        BY <2>1, <3>2, <4>2 DEF TextAt
      <4>4. QED
        BY <2>1, <4>1, <4>2, <4>3
    <3>3. QED
      BY <3>1, <3>2 DEF TextAt
  <2>6. LaidFrom(s, p, parts, n, offs, p + Len(x))
    BY <2>4, <2>5 DEF LaidFrom
  <2>7. QED
    BY <2>1, <2>6
<1>3. QED
  BY <1>1, <1>2

-----------------------------------------------------------------------------
\* The next word is at e, if the text goes so far: there is a blank, or an end of
\* a line, in front of it at most.
WordAt(s, p, e) ==
  /\ p \in Nat \ {0} /\ (e = p \/ e = p + 1)
  /\ e = p + 1 /\ p <= Len(s) => s[p] \in {EOL, Sp}
  /\ e <= Len(s) => s[e] # EOL /\ s[e] # Sp

LEMMA WordThere ==
  ASSUME NEW s \in Texts, NEW p, NEW e, WordAt(s, p, e)
  PROVE  /\ e <= Len(s) => NextWord(s, p) = e
         /\ e > Len(s) => NextWord(s, p) \in Nat \ {0} /\ NextWord(s, p) > Len(s)
<1>1. Len(s) \in Nat /\ p \in Nat \ {0} /\ e \in Nat \ {0}
  BY DEF Texts, WordAt
<1>2. CASE e <= Len(s)
  <2>1. e \in p..(Len(s) + 1) /\ s[e] \notin {EOL, Sp}
    BY <1>1, <1>2 DEF WordAt
  <2>2. \A k \in p..(e - 1) : s[k] \in {EOL, Sp}
    <3> SUFFICES ASSUME NEW k \in p..(e - 1)
                 PROVE  s[k] \in {EOL, Sp}
      OBVIOUS
    <3>1. e = p + 1 /\ k = p /\ p <= Len(s)
      BY <1>1, <1>2 DEF WordAt
    <3>2. QED
      BY <3>1 DEF WordAt
  <2>3. NextWord(s, p) = e
    BY <1>1, <2>1, <2>2, NextWordIs
  <2>4. QED
    BY <1>1, <1>2, <2>3
<1>3. CASE e > Len(s) /\ p > Len(s)
  <2>1. NextWord(s, p) = p
    BY <1>1, <1>3, NextWordFound
  <2>2. QED
    BY <1>1, <1>3, <2>1
<1>4. CASE e > Len(s) /\ p <= Len(s)
  <2>1. e = p + 1 /\ p = Len(s)
    BY <1>1, <1>4 DEF WordAt
  <2>2. \A k \in p..(e - 1) : s[k] \in {EOL, Sp}
    <3> SUFFICES ASSUME NEW k \in p..(e - 1)
                 PROVE  s[k] \in {EOL, Sp}
      OBVIOUS
    <3>1. k = p
      BY <1>1, <2>1
    <3>2. QED
      BY <2>1, <3>1, <1>4 DEF WordAt
  <2>3. e \in p..(Len(s) + 1)
    BY <1>1, <2>1
  <2>4. NextWord(s, p) = e
    BY <1>1, <1>4, <2>2, <2>3, NextWordIs
  <2>5. QED
    BY <1>1, <1>4, <2>4
<1>5. QED
  BY <1>1, <1>2, <1>3, <1>4

LEMMA NextWordTypes ==
  ASSUME NEW s \in Texts, NEW p \in Nat \ {0}
  PROVE  NextWord(s, p) \in Nat \ {0}
<1>1. NextWord(s, p) \in Nat /\ NextWord(s, p) >= p
  BY NextWordFound
<1>2. QED
  BY <1>1

\* A number is read, or zero behind the end.
LEMMA NumberThere ==
  ASSUME NEW s \in Texts, NEW p, NEW e, WordAt(s, p, e), NEW n \in 0..MaxNumber,
         e <= Len(s) => s[e] = Word[n]
  PROVE  /\ e <= Len(s) => NumberFrom(s, p) = Read(n, e + 1)
         /\ e > Len(s) => NumberFrom(s, p) = Read(0, Len(s) + 1)
<1>1. Len(s) \in Nat /\ e \in Nat
  BY DEF Texts, WordAt
<1>2. Word[n] \in Numbers /\ NumberOf(Word[n]) = n
  BY WordsApart
<1>3. CASE e <= Len(s)
  <2>1. NextWord(s, p) = e
    BY <1>3, WordThere
  <2>2. QED
    BY <1>1, <1>2, <1>3, <2>1 DEF NumberFrom, NumberAt, IsThere
<1>4. CASE e > Len(s)
  <2>1. NextWord(s, p) \in Nat /\ NextWord(s, p) > Len(s)
    BY <1>4, WordThere
  <2>2. ~(NextWord(s, p) <= Len(s))
    BY <1>1, <2>1
  <2>3. QED
    BY <1>1, <1>4, <2>2 DEF NumberFrom, NumberAt, IsThere
<1>5. QED
  BY <1>1, <1>3, <1>4

\* Whatever is there, a number is made of it that can be written; behind the end
\* reading stays.
LEMMA NumberTypes ==
  ASSUME NEW s \in Texts, NEW p \in Nat \ {0}
  PROVE  /\ \E n \in 0..MaxNumber, y \in Nat \ {0} : NumberFrom(s, p) = Read(n, y)
         /\ p > Len(s) => NumberFrom(s, p) = Read(0, Len(s) + 1)
<1>1. Len(s) \in Nat /\ MaxNumber \in Nat /\ 0 \in 0..MaxNumber
  BY WordsApart DEF Texts
<1>2. PICK w \in Nat \ {0} : w = NextWord(s, p) /\ (p > Len(s) => w = p)
  <2>1. NextWord(s, p) \in Nat /\ NextWord(s, p) >= p
    BY NextWordFound
  <2>2. NextWord(s, p) \in Nat \ {0}
    BY <2>1
  <2>3. QED
    BY <2>2, NextWordFound
<1>3. CASE w <= Len(s) /\ s[w] \in Numbers
  <2>1. NumberFrom(s, p) = Read(NumberOf(s[w]), w + 1)
    BY <1>2, <1>3 DEF NumberFrom, NumberAt, IsThere
  <2>2. NumberOf(s[w]) \in 0..MaxNumber
    BY <1>3, NumbersAre
  <2>3. ~(p > Len(s)) /\ w + 1 \in Nat \ {0}
    BY <1>1, <1>2, <1>3
  <2>4. QED
    BY <2>1, <2>2, <2>3
<1>4. CASE ~(w <= Len(s) /\ s[w] \in Numbers)
  <2>1. NumberFrom(s, p) = Read(0, Len(s) + 1)
    BY <1>2, <1>4 DEF NumberFrom, NumberAt, IsThere
  <2>2. Len(s) + 1 \in Nat \ {0}
    BY <1>1
  <2>3. QED
    BY <1>1, <2>1, <2>2
<1>5. QED
  BY <1>3, <1>4

-----------------------------------------------------------------------------
\* A load moves the tags of a question of a contest into its title.
LEMMA WornFields ==
  ASSUME NEW q \in Questions
  PROVE  /\ WornQuestion(q) \in [tags : Texts, title : Texts, choices : 2..3, solution : Tokens]
         /\ WornQuestion(q).tags = << >> /\ WornQuestion(q).title = q.tags \o <<EOL>> \o q.title
         /\ WornQuestion(q).choices = q.choices /\ WornQuestion(q).solution = q.solution
<1>1. q \in [tags : Texts, title : Texts, choices : 2..3, solution : Tokens]
  BY DEF Questions
<1>2. << >> \in Texts /\ <<EOL>> \in Texts
  BY EmptyBook, ShortTexts, TokenTypes
<1>3. PICK a \in Texts : a = q.tags \o <<EOL>>
  BY <1>1, <1>2, Joined
<1>4. PICK t \in Texts : t = a \o q.title
  BY <1>1, Joined
<1>5. PICK w : w = WornQuestion(q)
  OBVIOUS
<1>6. w = [q EXCEPT !.tags = << >>, !.title = t]
  BY <1>3, <1>4, <1>5 DEF WornQuestion
<1>7. /\ w \in [tags : Texts, title : Texts, choices : 2..3, solution : Tokens]
      /\ w.tags = << >> /\ w.title = t /\ w.choices = q.choices /\ w.solution = q.solution
  BY <1>1, <1>2, <1>6
<1>8. QED
  BY <1>3, <1>4, <1>5, <1>7

LEMMA WornTypes ==
  ASSUME NEW q \in Questions, q.tags # <<Dot>>
  PROVE  WornQuestion(q) \in Questions
<1>1. /\ q \in [tags : Texts, title : Texts, choices : 2..3, solution : Tokens]
      /\ \A k \in 1..Len(q.tags) : q.tags[k] # EOL
      /\ Tidy(q.title) /\ \E k \in 1..q.choices : q.solution = Letters[k]
  BY DEF Questions
<1>2. PICK tags \in Texts, title \in Texts, nl \in Texts :
        tags = q.tags /\ title = q.title /\ nl = <<EOL>> /\ Len(nl) = 1 /\ nl[1] = EOL
  <2>1. <<EOL>> \in Texts /\ Len(<<EOL>>) = 1 /\ <<EOL>>[1] = EOL
    BY ShortTexts, TokenTypes
  <2>2. QED
    BY <1>1, <2>1
<1>3. PICK g \in Nat, m \in Nat : g = Len(tags) /\ m = Len(title)
  BY DEF Texts
<1>4. PICK a \in Texts : /\ a = tags \o nl /\ Len(a) = g + 1
                         /\ \A k \in 1..g : a[k] = tags[k]
                         /\ a[g + 1] = EOL
  <2>1. /\ tags \o nl \in Texts /\ Len(tags \o nl) = Len(tags) + Len(nl)
        /\ \A k \in 1..Len(tags) : (tags \o nl)[k] = tags[k]
        /\ \A k \in 1..Len(nl) : (tags \o nl)[k + Len(tags)] = nl[k]
    BY Joined
  <2>2. 1 \in 1..Len(nl) /\ 1 + g = g + 1
    BY <1>2
  <2>3. (tags \o nl)[g + 1] = EOL
    BY <1>2, <1>3, <2>1, <2>2
  <2>4. Len(tags \o nl) = g + 1 /\ \A k \in 1..g : (tags \o nl)[k] = tags[k]
    BY <1>2, <1>3, <2>1
  <2>5. QED
    BY <2>1, <2>3, <2>4
<1>5. PICK t \in Texts : /\ t = a \o title /\ Len(t) = g + 1 + m
                         /\ \A k \in 1..(g + 1) : t[k] = a[k]
                         /\ \A k \in 1..m : t[k + (g + 1)] = title[k]
  <2>1. /\ a \o title \in Texts /\ Len(a \o title) = Len(a) + Len(title)
        /\ \A k \in 1..Len(a) : (a \o title)[k] = a[k]
        /\ \A k \in 1..Len(title) : (a \o title)[k + Len(a)] = title[k]
    BY Joined
  <2>2. Len(a) = g + 1 /\ Len(title) = m
    BY <1>3, <1>4
  <2>3. PICK t \in Texts : t = a \o title
    BY <2>1
  <2>4. Len(t) = g + 1 + m
    BY <2>1, <2>2, <2>3
  <2>5. \A k \in 1..(g + 1) : t[k] = a[k]
    BY <2>1, <2>2, <2>3
  <2>6. \A k \in 1..m : t[k + (g + 1)] = title[k]
    BY <2>1, <2>2, <2>3
  <2>7. QED
    BY <2>3, <2>4, <2>5, <2>6
<1>6. Tidy(t)
  <2> SUFFICES ASSUME NEW k \in 1..Len(t), t[k] = Dot, k = 1 \/ t[k - 1] = EOL, k = Len(t) \/ t[k + 1] = EOL
               PROVE  FALSE
    BY DEF Tidy
  <2>1. CASE k \in 1..g
    <3>1. t[k] = tags[k] /\ k \in 1..(g + 1)
      BY <1>4, <1>5, <2>1
    <3>2. k = 1
      <4> SUFFICES ASSUME k # 1
                   PROVE  FALSE
        OBVIOUS
      <4>1. k - 1 \in 1..g /\ k - 1 \in 1..(g + 1)
        BY <2>1
      <4>2. t[k - 1] = tags[k - 1]
        BY <1>4, <1>5, <4>1
      <4>3. QED
        BY <1>1, <1>2, <1>3, <4>1, <4>2
    <3>3. g = 1
      <4> SUFFICES ASSUME g # 1
                   PROVE  FALSE
        OBVIOUS
      <4>1. 2 \in 1..g /\ 2 \in 1..(g + 1) /\ k + 1 = 2 /\ k # Len(t)
        BY <1>3, <1>5, <2>1, <3>2
      <4>2. t[2] = tags[2]
        BY <1>4, <1>5, <4>1
      <4>3. QED
        BY <1>1, <1>2, <1>3, <4>1, <4>2
    <3>4. tags \in Texts /\ <<Dot>> \in Texts /\ Len(<<Dot>>) = 1 /\ <<Dot>>[1] = Dot
      BY ShortTexts, TokenTypes
    <3>5. tags = <<Dot>>
      <4>1. \A i \in 1..Len(tags) : i = 1
        BY <1>3, <3>3
      <4>2. tags[1] = Dot
        BY <3>1, <3>2
      <4>3. QED
        BY <1>3, <3>3, <3>4, <4>1, <4>2, SameText
    <3>6. QED
      BY <1>2, <3>5
  <2>2. CASE k = g + 1
    <3>1. k \in 1..(g + 1)
      BY <2>2
    <3>2. t[k] = EOL
      BY <1>4, <1>5, <2>2, <3>1
    <3>3. QED
      BY <3>2, TokensApart
  <2>3. CASE k > g + 1
    <3>1. PICK i \in 1..m : i = k - (g + 1) /\ k = i + (g + 1)
      BY <1>5, <2>3
    <3>2. title[i] = Dot
      BY <1>5, <3>1
    <3>3. i = 1 \/ title[i - 1] = EOL
      <4> SUFFICES ASSUME i # 1
                   PROVE  title[i - 1] = EOL
        OBVIOUS
      <4>1. i - 1 \in 1..m /\ (i - 1) + (g + 1) = k - 1 /\ k # 1
        BY <3>1
      <4>2. t[k - 1] = title[i - 1]
        BY <1>5, <4>1
      <4>3. QED
        BY <4>1, <4>2
    <3>4. i = Len(title) \/ title[i + 1] = EOL
      <4> SUFFICES ASSUME i # Len(title)
                   PROVE  title[i + 1] = EOL
        OBVIOUS
      <4>0. i # m /\ Len(t) = g + 1 + m
        BY <1>3, <1>5
      <4>1. i + 1 \in 1..m /\ (i + 1) + (g + 1) = k + 1 /\ k # Len(t)
        BY <3>1, <4>0
      <4>2. t[k + 1] = title[i + 1]
        BY <1>5, <4>1
      <4>3. QED
        BY <4>1, <4>2
    <3>5. i \in 1..Len(title) /\ Tidy(title)
      BY <1>1, <1>2, <1>3
    <3>6. QED
      BY <3>2, <3>3, <3>4, <3>5 DEF Tidy
  <2>4. QED
    BY <1>5, <2>1, <2>2, <2>3
<1>8. << >> \in Texts /\ \A k \in 1..Len(<< >>) : FALSE
  BY EmptyBook
<1>9. PICK w : w = WornQuestion(q)
  OBVIOUS
<1>10. /\ w \in [tags : Texts, title : Texts, choices : 2..3, solution : Tokens]
       /\ w.tags = << >> /\ w.title = t /\ w.choices = q.choices /\ w.solution = q.solution
  BY <1>2, <1>4, <1>5, <1>9, WornFields
<1>11. w \in Questions
  BY <1>1, <1>6, <1>8, <1>10 DEF Questions
<1>12. QED
  BY <1>9, <1>11

\* Three texts one after the other.
LEMMA Regrouped ==
  ASSUME NEW x \in Texts, NEW y \in Texts, NEW z \in Texts
  PROVE  x \o (y \o z) = (x \o y) \o z
<1>1. x \in Seq(Tokens) /\ y \in Seq(Tokens) /\ z \in Seq(Tokens)
  BY DEF Texts
<1>2. (x \o y) \o z = x \o (y \o z)
  BY <1>1, ConcatAssociative, ConcatProperties DEF Texts
<1>3. QED
  BY <1>2

SixTexts(n, a, b, c, d, e) == {n, a, b, c, d, e} \subseteq Texts

LEMMA InFront ==
  ASSUME NEW n, NEW a, NEW b, NEW c, NEW d, NEW e, SixTexts(n, a, b, c, d, e)
  PROVE  n \o (a \o b \o c \o d \o e) = n \o a \o b \o c \o d \o e
<1>0. {n, a, b, c, d, e} \subseteq Texts
  BY DEF SixTexts
<1>1. PICK x : x = a \o b /\ x \in Texts
  BY <1>0, Joined
<1>2. PICK y : y = x \o c /\ y \in Texts
  BY <1>0, <1>1, Joined
<1>3. PICK z : z = y \o d /\ z \in Texts
  BY <1>0, <1>2, Joined
<1>4. n \o (z \o e) = (n \o z) \o e
  <2>1. n \in Texts /\ z \in Texts /\ e \in Texts
    BY <1>0, <1>1, <1>2, <1>3
  <2>2. QED
    BY ONLY <2>1, Regrouped
<1>5. n \o (y \o d) = (n \o y) \o d
  <2>1. n \in Texts /\ y \in Texts /\ d \in Texts
    BY <1>0, <1>1, <1>2, <1>3
  <2>2. QED
    BY ONLY <2>1, Regrouped
<1>6. n \o (x \o c) = (n \o x) \o c
  <2>1. n \in Texts /\ x \in Texts /\ c \in Texts
    BY <1>0, <1>1, <1>2, <1>3
  <2>2. QED
    BY ONLY <2>1, Regrouped
<1>7. n \o (a \o b) = (n \o a) \o b
  <2>1. n \in Texts /\ a \in Texts /\ b \in Texts
    BY <1>0, <1>1, <1>2, <1>3
  <2>2. QED
    BY ONLY <2>1, Regrouped
<1>8. QED
  BY <1>1, <1>2, <1>3, <1>4, <1>5, <1>6, <1>7

\* It has an empty line more in front.
LEMMA WornText ==
  ASSUME NEW q \in Questions
  PROVE  QuestionText(WornQuestion(q)) = <<EOL>> \o QuestionText(q)
<1>1. q \in [tags : Texts, title : Texts, choices : 2..3, solution : Tokens]
  BY DEF Questions
<1>2. PICK tags, title, c, sol :
        /\ tags = q.tags /\ title = q.title /\ c = q.choices /\ sol = q.solution
        /\ tags \in Texts /\ title \in Texts /\ c \in 2..3 /\ sol \in Tokens
  BY <1>1
<1>3. PICK nl, mid, dot, last, ch, none :
        /\ nl = <<EOL>> /\ mid = <<EOL, Dot, EOL>> /\ dot = <<Dot, EOL>> /\ last = <<sol, EOL>>
        /\ ch = ChoicesText(c) /\ none = << >>
        /\ {nl, mid, dot, last, ch, none} \subseteq Texts
  <2>1. /\ <<EOL>> \in Texts /\ <<EOL, Dot, EOL>> \in Texts /\ <<Dot, EOL>> \in Texts /\ <<sol, EOL>> \in Texts
        /\ ChoicesText(c) \in Texts /\ << >> \in Texts
    BY <1>2, ShortTexts, TokenTypes, ChoicesLaid, EmptyBook
  <2>2. QED
    BY <2>1
<1>4. QuestionText(q) = tags \o nl \o title \o mid \o ch \o dot \o last
  BY <1>2, <1>3 DEF QuestionText, ChoicesText
<1>5. PICK w : /\ w = WornQuestion(q) /\ w.tags = none /\ w.title = tags \o nl \o title
               /\ w.choices = c /\ w.solution = sol
  BY <1>2, <1>3, WornFields
<1>6. QuestionText(WornQuestion(q)) = none \o nl \o (tags \o nl \o title) \o mid \o ch \o dot \o last
  BY <1>3, <1>5 DEF QuestionText, ChoicesText
<1>8. none \o nl = nl
  BY <1>3, ConcatEmptySeq DEF Texts
<1>9. nl \o (tags \o nl \o title \o mid \o ch \o dot \o last)
        = nl \o (tags \o nl \o title) \o mid \o ch \o dot \o last
  <2>1. PICK a : a = tags \o nl \o title /\ a \in Texts
    <3>1. PICK x : x = tags \o nl /\ x \in Texts
      BY <1>2, <1>3, Joined
    <3>2. x \o title \in Texts
      BY <1>2, <3>1, Joined
    <3>3. QED
      BY <3>1, <3>2
  <2>2. nl \o (a \o mid \o ch \o dot \o last) = nl \o a \o mid \o ch \o dot \o last
    <3>1. SixTexts(nl, a, mid, ch, dot, last)
      BY <1>3, <2>1 DEF SixTexts
    <3>2. QED
      BY <3>1, InFront
  <2>3. QED
    BY <2>1, <2>2
<1>10. QED
  BY <1>3, <1>4, <1>6, <1>8, <1>9

\* Behind the end there is no question.
LEMMA NoQuestion ==
  ASSUME NEW s \in Texts, NEW p \in Nat \ {0}, p > Len(s)
  PROVE  QuestionFrom(s, p).end # "read"
<1>1. Len(s) \in Nat
  BY DEF Texts
<1>2. NextLine(s, p) \in Nat \ {0} /\ NextLine(s, p) > Len(s)
  BY <1>1, LineTypes
<1>3. TitleFrom(s, NextLine(s, p)) = Spins
  BY <1>2, NoTitle
<1>4. QED
  BY <1>3, QuestionUnfolds, WhatEnds

\* A question that has a dot for its tags is refused: its title is empty.
LEMMA DottedQuestion ==
  ASSUME NEW s \in Texts, NEW p \in Nat \ {0}, p <= Len(s) => s[p] = EOL,
         p + 1 <= Len(s) => s[p + 1] = Dot, p + 2 <= Len(s) => s[p + 2] = EOL
  PROVE  /\ p + 1 <= Len(s) => QuestionFrom(s, p) = Threw
         /\ p + 1 > Len(s) => QuestionFrom(s, p).end # "read"
<1>1. Len(s) \in Nat
  BY DEF Texts
<1>2. CASE p > Len(s)
  BY <1>1, <1>2, NoQuestion
<1>3. CASE p <= Len(s)
  <2>1. LineEnd(s, p) = p
    <3>1. p \in p..(Len(s) + 1) /\ \A k \in p..(p - 1) : s[k] # EOL
      BY <1>1, <1>3
    <3>2. QED
      BY <1>3, <3>1, LineEndIs
  <2>2. NextLine(s, p) = p + 1 /\ p + 1 \in Nat \ {0}
    BY <2>1 DEF NextLine
  <2>3. CASE p + 1 > Len(s)
    <3>1. TitleFrom(s, NextLine(s, p)) = Spins
      BY <2>2, <2>3, NoTitle
    <3>2. QuestionFrom(s, p).end # "read"
      BY <3>1, QuestionUnfolds, WhatEnds
    <3>3. QED
      BY <1>1, <2>3, <3>2
  <2>4. CASE p + 1 <= Len(s)
    <3>1. PICK x \in Nat \ {0} : x = p + 1 /\ x \in 1..Len(s)
      BY <1>1, <2>4
    <3>2. s[x] = Dot /\ (x = Len(s) \/ s[x + 1] = EOL)
      <4>1. x = Len(s) \/ p + 2 <= Len(s)
        BY <1>1, <3>1
      <4>2. x + 1 = p + 2
        BY <3>1
      <4>3. QED
        BY <2>4, <3>1, <4>1, <4>2
    <3>3. DotAt(s, x, x)
      BY <3>1, <3>2, LineIsDot DEF DotAt
    <3>4. DotLine(s, x) = x
      <4>1. x \in x..(Len(s) + 1) /\ \A k \in x..(x - 1) : ~DotAt(s, x, k)
        BY <1>1, <3>1
      <4>2. QED
        BY <3>3, <4>1, DotLineIs
    <3>5. TitleFrom(s, x) = Threw
      BY <3>1, <3>4 DEF TitleFrom, IsThere
    <3>6. QuestionFrom(s, p) = Threw
      BY <2>2, <3>1, <3>5, QuestionUnfolds, WhatEnds
    <3>7. QED
      BY <1>1, <2>4, <3>6
  <2>5. QED
    BY <1>1, <2>3, <2>4
<1>4. QED
  BY <1>1, <1>2, <1>3

\* How a question is written in a contest.
ContestEntry(id, q) == <<Word[id], EOL>> \o QuestionText(q)

LEMMA EntryTexts ==
  ASSUME NEW id \in 0..MaxNumber, NEW q \in Questions
  PROVE  ContestEntry(id, q) \in Texts /\ Len(ContestEntry(id, q)) \in Nat /\ Len(ContestEntry(id, q)) >= 16
<1>1. PICK w \in Tokens : w = Word[id]
  BY WordsApart
<1>2. <<w, EOL>> \in Texts /\ Len(<<w, EOL>>) = 2
  BY ShortTexts, TokenTypes
<1>3. PICK x \in Texts, y \in Texts : x = <<w, EOL>> /\ y = QuestionText(q) /\ Len(y) \in Nat /\ Len(y) >= 16
  BY <1>2, QuestionTexts
<1>4. x \o y \in Texts /\ Len(x \o y) = 2 + Len(y)
  BY <1>2, <1>3, Joined
<1>5. QED
  BY <1>1, <1>3, <1>4 DEF ContestEntry

\* A question of a contest is read with its tags in its title when its solution is
\* there, and not without it.
LEMMA OneQuestionRead ==
  ASSUME NEW s \in Texts, NEW p \in Nat \ {0}, NEW o \in Nat, o = p \/ o = p + 1,
         o = p + 1 /\ p <= Len(s) => s[p] = EOL,
         NEW id \in 0..MaxNumber, NEW q \in Questions, TextAt(s, o, ContestEntry(id, q)),
         NEW z \in Nat, z = o + Len(ContestEntry(id, q)), NEW v
  PROVE  /\ z - 2 <= Len(s) /\ q.tags # <<Dot>> =>
              ContestQuestion(s, Read(v, p)) = Read(Emplaced(v, id, WornQuestion(q)), z)
         /\ z - 2 <= Len(s) /\ q.tags = <<Dot>> => ContestQuestion(s, Read(v, p)) = Threw
         /\ z - 2 > Len(s) => ContestQuestion(s, Read(v, p)).end # "read"
<1>1. Len(s) \in Nat /\ o \in Nat \ {0}
  BY DEF Texts
<1>2. PICK m \in Nat : m = Len(QuestionText(q)) /\ m >= 16 /\ QuestionText(q) \in Texts
  BY QuestionTexts
<1>3. PICK h : /\ h = <<Word[id], EOL>> /\ h \in Texts /\ Len(h) = 2 /\ h[1] = Word[id] /\ h[2] = EOL
  <2>1. PICK w \in Tokens : w = Word[id]
    BY WordsApart
  <2>2. <<w, EOL>> \in Texts /\ Len(<<w, EOL>>) = 2 /\ <<w, EOL>>[1] = w /\ <<w, EOL>>[2] = EOL
    BY ShortTexts, TokenTypes
  <2>3. QED
    BY <2>1, <2>2
<1>4. TextAt(s, o, h) /\ TextAt(s, o + 2, QuestionText(q)) /\ z = o + 2 + m
  <2>1. ContestEntry(id, q) = h \o QuestionText(q) /\ Len(h \o QuestionText(q)) = Len(h) + Len(QuestionText(q))
    BY <1>2, <1>3, Joined DEF ContestEntry
  <2>2. TextAt(s, o, h) /\ TextAt(s, o + Len(h), QuestionText(q))
    <3>1. s \in Texts /\ o \in Nat /\ h \in Texts /\ QuestionText(q) \in Texts /\ TextAt(s, o, h \o QuestionText(q))
      BY <1>1, <1>2, <1>3, <2>1
    <3>2. QED
      BY ONLY <3>1, AtJoined
  <2>3. QED
    BY <1>2, <1>3, <2>1, <2>2
<1>5. (o <= Len(s) => s[o] = Word[id]) /\ (o + 1 <= Len(s) => s[o + 1] = EOL)
  <2>1. 1 \in 1..Len(h) /\ 2 \in 1..Len(h) /\ o + 1 - 1 = o /\ o + 2 - 1 = o + 1
    BY <1>1, <1>3
  <2>2. QED
    BY <1>3, <1>4, <2>1 DEF TextAt
<1>6. WordAt(s, p, o)
  BY <1>5, WordsApart DEF WordAt
<1>7. PICK r : r = NumberFrom(s, p)
  OBVIOUS
<1>8. ContestQuestion(s, Read(v, p)) =
        IF r.end = "read"
          THEN IF QuestionFrom(s, r.next).end = "read"
                 THEN Read(Emplaced(v, r.value, QuestionFrom(s, r.next).value), QuestionFrom(s, r.next).next)
                 ELSE QuestionFrom(s, r.next)
          ELSE r
  BY <1>7 DEF ContestQuestion, Then, Read
<1>9. CASE o > Len(s)
  <2>1. r = Read(0, Len(s) + 1)
    BY <1>5, <1>6, <1>7, <1>9, NumberThere
  <2>2. r.end = "read" /\ r.next = Len(s) + 1
    BY <2>1, WhatReadIs
  <2>3. PICK x \in Nat \ {0} : x = Len(s) + 1 /\ x > Len(s)
    BY <1>1
  <2>6. QuestionFrom(s, x).end # "read"
    BY <2>3, NoQuestion
  <2>7. ContestQuestion(s, Read(v, p)).end # "read"
    BY <1>8, <2>2, <2>3, <2>6
  <2>8. z - 2 > Len(s)
    BY <1>1, <1>2, <1>4, <1>9
  <2>9. QED
    BY <1>1, <2>7, <2>8
<1>10. CASE o <= Len(s)
  <2>1. r = Read(id, o + 1)
    BY <1>5, <1>6, <1>7, <1>10, NumberThere
  <2>2. r.end = "read" /\ r.next = o + 1 /\ r.value = id
    BY <2>1, WhatReadIs
  <2>3. PICK x, u : x \in Nat \ {0} /\ x = o + 1 /\ u = QuestionFrom(s, x)
    BY <1>1
  <2>4. ContestQuestion(s, Read(v, p)) = IF u.end = "read" THEN Read(Emplaced(v, id, u.value), u.next) ELSE u
    BY <1>8, <2>2, <2>3
  <2>5. CASE q.tags # <<Dot>>
    <3>1. PICK w \in Questions : w = WornQuestion(q) /\ QuestionText(w) = <<EOL>> \o QuestionText(q)
      BY <2>5, WornTypes, WornText
    <3>2. PICK nl : nl = <<EOL>> /\ nl \in Texts /\ Len(nl) = 1 /\ nl[1] = EOL
      BY ShortTexts, TokenTypes
    <3>3. PICK n \in Nat : n = Len(QuestionText(w)) /\ n = 1 + m
      BY <1>2, <3>1, <3>2, Joined
    <3>4. QuestionAt(s, x, w)
      <4> SUFFICES ASSUME NEW k \in 1..n, x + k - 1 <= Len(s)
                   PROVE  s[x + k - 1] = QuestionText(w)[k]
        BY <3>3 DEF QuestionAt
      <4>1. CASE k = 1
        <5>1. QuestionText(w)[1] = EOL
          <6>1. 1 \in 1..Len(nl)
            BY <3>2
          <6>2. (nl \o QuestionText(q))[1] = nl[1]
            BY <1>2, <3>2, <6>1, Joined
          <6>3. QED
            BY <3>1, <3>2, <6>2
        <5>2. x + k - 1 = o + 1
          BY <2>3, <4>1
        <5>3. QED
          BY <1>5, <4>1, <5>1, <5>2
      <4>2. CASE k # 1
        <5>1. PICK i \in 1..m : k = i + 1
          BY <3>3, <4>2
        <5>2. QuestionText(w)[i + 1] = QuestionText(q)[i]
          <6>1. (nl \o QuestionText(q))[i + Len(nl)] = QuestionText(q)[i]
            BY <1>2, <3>2, Joined
          <6>2. QED
            BY <3>1, <3>2, <6>1
        <5>3. o + 2 + i - 1 = x + k - 1
          BY <2>3, <5>1
        <5>4. s[o + 2 + i - 1] = QuestionText(q)[i]
          BY <1>2, <1>4, <5>3 DEF TextAt
        <5>5. QED
          BY <5>1, <5>2, <5>3, <5>4
      <4>3. QED
        BY <4>1, <4>2
    <3>5. /\ x + n - 2 <= Len(s) => QuestionFrom(s, x) = Read(w, x + n)
          /\ x + n - 2 > Len(s) => QuestionFrom(s, x).end # "read"
      <4>1. s \in Texts /\ x \in Nat \ {0} /\ w \in Questions /\ n \in Nat /\ n = Len(QuestionText(w)) /\ QuestionAt(s, x, w)
        BY <2>3, <3>3, <3>4
      <4>2. QED
        BY ONLY <4>1, QuestionIsRead
    <3>6. x + n = z
      BY <1>4, <2>3, <3>3
    <3>7. /\ z - 2 <= Len(s) => u = Read(w, z)
          /\ z - 2 > Len(s) => u.end # "read"
      BY <2>3, <3>5, <3>6
    <3>8. QED
      BY <2>4, <2>5, <3>1, <3>7, WhatReadIs
  <2>6. CASE q.tags = <<Dot>>
    <3>1. Layout(QuestionText(q), q, 1, Len(q.title), q.choices)
      <4>1. Len(q.tags) = 1
        BY <2>6
      <4>2. QED
        BY <4>1, QuestionLaid
    <3>2. QuestionText(q)[1] = Dot /\ QuestionText(q)[2] = EOL
      <4>1. 1 \in 1..1 /\ q.tags[1] = Dot /\ 1 + 1 = 2
        BY <2>6
      <4>2. QED
        BY <3>1, <4>1 DEF Layout
    <3>3. (x + 1 <= Len(s) => s[x + 1] = Dot) /\ (x + 2 <= Len(s) => s[x + 2] = EOL)
      <4>1. 1 \in 1..m /\ 2 \in 1..m /\ o + 2 + 1 - 1 = x + 1 /\ o + 2 + 2 - 1 = x + 2
        BY <1>2, <2>3
      <4>2. QED
        BY <1>2, <1>4, <3>2, <4>1 DEF TextAt
    <3>4. x <= Len(s) => s[x] = EOL
      BY <1>5, <2>3
    <3>5. /\ x + 1 <= Len(s) => u = Threw
          /\ x + 1 > Len(s) => u.end # "read"
      BY <2>3, <3>3, <3>4, DottedQuestion
    <3>6. (z - 2 <= Len(s) => x + 1 <= Len(s)) /\ u.end # "read"
      BY <1>1, <1>2, <1>4, <2>3, <3>5, WhatEnds
    <3>7. QED
      BY <2>4, <2>6, <3>5, <3>6
  <2>7. QED
    BY <2>5, <2>6
<1>11. QED
  BY <1>1, <1>9, <1>10

\* The questions of a contest, one by one.
LEMMA QuestionsUnfold ==
  ASSUME NEW s, NEW p, NEW n \in Nat
  PROVE  \E f : /\ ContestQuestionsFrom(s, p, n) = f[n]
                /\ f[0] = Read(<< >>, p)
                /\ \A k \in 1..n : f[k] = (IF f[k - 1].end = "read" THEN ContestQuestion(s, f[k - 1]) ELSE f[k - 1])
<1>0. PICK z \in Nat : z = n
  OBVIOUS
<1> DEFINE Step(f, k) == IF k = 0 THEN Read(<< >>, p)
                         ELSE (IF f[k - 1].end = "read" THEN ContestQuestion(s, f[k - 1]) ELSE f[k - 1])
           S == { m \in Nat : \E f : f = [k \in 0..m |-> Step(f, k)] }
<1>1. 0 \in S
  <2> DEFINE g == [k \in 0..0 |-> Read(<< >>, p)]
  <2>1. \A k \in 0..0 : k = 0
    OBVIOUS
  <2>2. g = [k \in 0..0 |-> Step(g, k)]
    BY <2>1
  <2>3. QED
    <3> HIDE DEF g, Step
    <3> QED
      BY <2>2
<1>2. ASSUME NEW m \in Nat, m \in S
      PROVE  m + 1 \in S
  <2>1. PICK f : f = [k \in 0..m |-> Step(f, k)]
    BY <1>2
  <2> DEFINE g == [k \in 0..(m + 1) |-> IF k = m + 1 THEN Step(f, k) ELSE f[k]]
  <2>2. ASSUME NEW k \in 0..(m + 1)
        PROVE  g[k] = Step(g, k)
    <3>1. k = 0 \/ (k - 1 \in 0..(m + 1) /\ k - 1 # m + 1)
      OBVIOUS
    <3>2. k = 0 \/ g[k - 1] = f[k - 1]
      BY <3>1
    <3>3. Step(g, k) = Step(f, k)
      <4> HIDE DEF g
      <4> QED
        BY <3>2
    <3>4. k = m + 1 \/ k \in 0..m
      OBVIOUS
    <3>5. k \in 0..m => f[k] = Step(f, k)
      <4> HIDE DEF Step
      <4> QED
        BY <2>1
    <3> HIDE DEF Step
    <3>6. QED
      BY <3>3, <3>4, <3>5
  <2>3. g = [k \in 0..(m + 1) |-> Step(g, k)]
    <3> HIDE DEF Step
    <3> DEFINE h == [k \in 0..(m + 1) |-> Step(g, k)]
    <3>1. \A k \in 0..(m + 1) : g[k] = h[k]
      BY <2>2
    <3>2. QED
      BY <3>1
  <2>4. QED
    <3> HIDE DEF g, Step
    <3> QED
      BY <2>3
<1>3. z \in S
  <2> HIDE DEF S
  <2> QED
    BY <1>1, <1>2, Counting
<1> DEFINE after == CHOOSE after : after = [k \in 0..n |-> Step(after, k)]
<1>4. after = [k \in 0..z |-> Step(after, k)]
  <2> HIDE DEF Step
  <2>1. \E f : f = [k \in 0..n |-> Step(f, k)]
    BY <1>0, <1>3
  <2>2. after = [k \in 0..n |-> Step(after, k)]
    BY <2>1
  <2>3. QED
    BY <1>0, <2>2
<1>5. ContestQuestionsFrom(s, p, n) = after[n]
  BY DEF ContestQuestionsFrom, Then
<1> HIDE DEF after
<1>6. \A k \in 0..z : after[k] = Step(after, k)
  <2> HIDE DEF Step
  <2> QED
    BY <1>4
<1>7. after[0] = Step(after, 0) /\ \A k \in 1..z : after[k] = Step(after, k) /\ k # 0
  BY <1>6
<1>8. QED
  BY <1>0, <1>5, <1>7

\* What one load makes of the questions of a contest.
WornBook(qs) == [i \in DOMAIN qs |-> WornQuestion(qs[i])]

\* Nothing is read behind the end of the text but no questions at all.
LEMMA QuestionsBehind ==
  ASSUME NEW s \in Texts, NEW p \in Nat \ {0}, p > Len(s), NEW n \in Nat
  PROVE  \/ ContestQuestionsFrom(s, p, n).end # "read"
         \/ /\ ContestQuestionsFrom(s, p, n).next \in Nat \ {0}
            /\ ContestQuestionsFrom(s, p, n).next > Len(s)
<1>1. PICK f : /\ ContestQuestionsFrom(s, p, n) = f[n]
               /\ f[0] = Read(<< >>, p)
               /\ \A k \in 1..n : f[k] = (IF f[k - 1].end = "read" THEN ContestQuestion(s, f[k - 1]) ELSE f[k - 1])
  BY QuestionsUnfold
<1>2. CASE n = 0
  BY <1>1, <1>2, WhatReadIs
<1>3. CASE n # 0
  <2>1. 1 \in 1..n /\ 1 - 1 = 0
    BY <1>3
  <2>2. f[1] = ContestQuestion(s, Read(<< >>, p))
    BY <1>1, <2>1, WhatReadIs
  <2>3. f[1].end # "read"
    <3>1. PICK r, u : r = NumberFrom(s, p) /\ u = QuestionFrom(s, r.next)
      OBVIOUS
    <3>2. ContestQuestion(s, Read(<< >>, p)) =
            IF r.end = "read"
              THEN IF u.end = "read" THEN Read(Emplaced(<< >>, r.value, u.value), u.next) ELSE u
              ELSE r
      BY <3>1 DEF ContestQuestion, Then, Read
    <3>3. r.end = "read" /\ r.next = Len(s) + 1
      <4>1. r = Read(0, Len(s) + 1)
        BY <3>1, NumberTypes
      <4>2. QED
        BY <4>1, WhatReadIs
    <3>4. PICK x \in Nat \ {0} : x = Len(s) + 1 /\ x > Len(s)
      <4>1. Len(s) \in Nat
        BY DEF Texts
      <4>2. QED
        BY <4>1
    <3>5. u.end # "read"
      BY <3>1, <3>3, <3>4, NoQuestion
    <3>6. QED
      BY <2>2, <3>2, <3>3, <3>5
  <2> DEFINE S == { j \in Nat : j + 1 <= n => f[j + 1].end # "read" }
  <2>4. 0 \in S
    BY <2>3
  <2>5. ASSUME NEW j \in Nat, j \in S
        PROVE  j + 1 \in S
    <3> SUFFICES ASSUME (j + 1) + 1 <= n
                 PROVE  f[(j + 1) + 1].end # "read"
      OBVIOUS
    <3>1. j + 1 <= n /\ (j + 1) + 1 \in 1..n /\ ((j + 1) + 1) - 1 = j + 1
      OBVIOUS
    <3>2. f[j + 1].end # "read"
      BY <2>5, <3>1
    <3>3. f[(j + 1) + 1] = f[j + 1]
      BY <1>1, <3>1, <3>2
    <3>4. QED
      BY <3>2, <3>3
  <2>6. PICK m \in Nat : m = n - 1 /\ m + 1 = n
    BY <1>3
  <2>7. m \in S
    <3> HIDE DEF S
    <3> QED
      BY <2>4, <2>5, Counting
  <2>8. QED
    BY <1>1, <2>6, <2>7
<1>4. QED
  BY <1>2, <1>3

\* The pairs of statistics, one by one.
LEMMA PairsUnfold ==
  ASSUME NEW s, NEW p, NEW n \in Nat
  PROVE  \E f : /\ PairsFrom(s, p, n) = f[n]
                /\ f[0] = Read(<< >>, p)
                /\ \A k \in 1..n : f[k] = (IF f[k - 1].end = "read" THEN OnePair(s, f[k - 1]) ELSE f[k - 1])
<1>0. PICK z \in Nat : z = n
  OBVIOUS
<1> DEFINE Step(f, k) == IF k = 0 THEN Read(<< >>, p)
                         ELSE (IF f[k - 1].end = "read" THEN OnePair(s, f[k - 1]) ELSE f[k - 1])
           S == { m \in Nat : \E f : f = [k \in 0..m |-> Step(f, k)] }
<1>1. 0 \in S
  <2> DEFINE g == [k \in 0..0 |-> Read(<< >>, p)]
  <2>1. \A k \in 0..0 : k = 0
    OBVIOUS
  <2>2. g = [k \in 0..0 |-> Step(g, k)]
    BY <2>1
  <2>3. QED
    <3> HIDE DEF g, Step
    <3> QED
      BY <2>2
<1>2. ASSUME NEW m \in Nat, m \in S
      PROVE  m + 1 \in S
  <2>1. PICK f : f = [k \in 0..m |-> Step(f, k)]
    BY <1>2
  <2> DEFINE g == [k \in 0..(m + 1) |-> IF k = m + 1 THEN Step(f, k) ELSE f[k]]
  <2>2. ASSUME NEW k \in 0..(m + 1)
        PROVE  g[k] = Step(g, k)
    <3>1. k = 0 \/ (k - 1 \in 0..(m + 1) /\ k - 1 # m + 1)
      OBVIOUS
    <3>2. k = 0 \/ g[k - 1] = f[k - 1]
      BY <3>1
    <3>3. Step(g, k) = Step(f, k)
      <4> HIDE DEF g
      <4> QED
        BY <3>2
    <3>4. k = m + 1 \/ k \in 0..m
      OBVIOUS
    <3>5. k \in 0..m => f[k] = Step(f, k)
      <4> HIDE DEF Step
      <4> QED
        BY <2>1
    <3> HIDE DEF Step
    <3>6. QED
      BY <3>3, <3>4, <3>5
  <2>3. g = [k \in 0..(m + 1) |-> Step(g, k)]
    <3> HIDE DEF Step
    <3> DEFINE h == [k \in 0..(m + 1) |-> Step(g, k)]
    <3>1. \A k \in 0..(m + 1) : g[k] = h[k]
      BY <2>2
    <3>2. QED
      BY <3>1
  <2>4. QED
    <3> HIDE DEF g, Step
    <3> QED
      BY <2>3
<1>3. z \in S
  <2> HIDE DEF S
  <2> QED
    BY <1>1, <1>2, Counting
<1> DEFINE after == CHOOSE after : after = [k \in 0..n |-> Step(after, k)]
<1>4. after = [k \in 0..z |-> Step(after, k)]
  <2> HIDE DEF Step
  <2>1. \E f : f = [k \in 0..n |-> Step(f, k)]
    BY <1>0, <1>3
  <2>2. after = [k \in 0..n |-> Step(after, k)]
    BY <2>1
  <2>3. QED
    BY <1>0, <2>2
<1>5. PairsFrom(s, p, n) = after[n]
  BY DEF PairsFrom, Then
<1> HIDE DEF after
<1>6. \A k \in 0..z : after[k] = Step(after, k)
  <2> HIDE DEF Step
  <2> QED
    BY <1>4
<1>7. after[0] = Step(after, 0) /\ \A k \in 1..z : after[k] = Step(after, k) /\ k # 0
  BY <1>6
<1>8. QED
  BY <1>0, <1>5, <1>7

LEMMA WornBookIs ==
  ASSUME NEW qs
  PROVE  /\ WornBook(qs) = [i \in DOMAIN WornBook(qs) |-> WornBook(qs)[i]]
         /\ DOMAIN WornBook(qs) = DOMAIN qs
         /\ \A i \in DOMAIN qs : WornBook(qs)[i] = WornQuestion(qs[i])
<1>1. PICK w : w = [i \in DOMAIN qs |-> WornQuestion(qs[i])]
  OBVIOUS
<1>2. DOMAIN w = DOMAIN qs /\ \A i \in DOMAIN qs : w[i] = WornQuestion(qs[i])
  BY <1>1
<1>3. w = [i \in DOMAIN w |-> w[i]]
  BY <1>1
<1>4. QED
  BY <1>1, <1>2, <1>3 DEF WornBook

\* Where the questions of a contest are.
EntriesAt(s, p, qs, keys, n, parts, offs, z) ==
  /\ s \in Texts /\ p \in Nat \ {0} /\ qs \in Books /\ n \in Nat /\ z \in Nat /\ (p <= Len(s) => s[p] = EOL)
  /\ Enumerates(keys, n, DOMAIN qs) /\ LaidFrom(s, p + 1, parts, n, offs, z)
  /\ \A i \in 1..n : parts[i] = ContestEntry(keys[i], qs[keys[i]])

\* The questions of a contest are read, with their tags in their titles, when the
\* last solution is there; a dot for tags is refused.
LEMMA QuestionsRead ==
  ASSUME NEW s, NEW p, NEW qs, NEW keys, NEW n, NEW parts, NEW offs, NEW z,
         EntriesAt(s, p, qs, keys, n, parts, offs, z)
  PROVE  /\ n = 0 => ContestQuestionsFrom(s, p, n) = Read(WornBook(qs), p) /\ z = p + 1
         /\ n # 0 /\ z - 2 <= Len(s) /\ (\A i \in DOMAIN qs : qs[i].tags # <<Dot>>) =>
              ContestQuestionsFrom(s, p, n) = Read(WornBook(qs), z)
         /\ n # 0 /\ z - 2 <= Len(s) /\ (\E i \in DOMAIN qs : qs[i].tags = <<Dot>>) =>
              ContestQuestionsFrom(s, p, n) = Threw
         /\ n # 0 /\ z - 2 > Len(s) => ContestQuestionsFrom(s, p, n).end # "read"
<1>0a. s \in Texts /\ p \in Nat \ {0} /\ qs \in Books /\ n \in Nat /\ z \in Nat /\ (p <= Len(s) => s[p] = EOL)
  BY DEF EntriesAt
<1>0. PICK a \in Nat : /\ a = p + 1 /\ Enumerates(keys, n, DOMAIN qs) /\ LaidFrom(s, a, parts, n, offs, z)
                       /\ \A i \in 1..n : parts[i] = ContestEntry(keys[i], qs[keys[i]])
  <2>1. p + 1 \in Nat
    BY <1>0a
  <2>2. QED
    BY <2>1 DEF EntriesAt
<1>1. PICK f : /\ ContestQuestionsFrom(s, p, n) = f[n]
               /\ f[0] = Read(<< >>, p)
               /\ \A k \in 1..n : f[k] = (IF f[k - 1].end = "read" THEN ContestQuestion(s, f[k - 1]) ELSE f[k - 1])
  <2>1. PICK r : r = ContestQuestionsFrom(s, p, n) /\ n \in Nat
    BY <1>0a
  <2>2. QED
    BY ONLY <2>1, QuestionsUnfold
<1>2. PICK L \in Nat : L = Len(s)
  BY <1>0a DEF Texts
<1>3. PICK w : w = WornBook(qs) /\ w = [i \in DOMAIN w |-> w[i]] /\ DOMAIN w = DOMAIN qs
               /\ \A i \in DOMAIN w : w[i] = WornQuestion(qs[i])
  BY WornBookIs
<1>4. PartOf(w, keys, 0) = << >> /\ PartOf(w, keys, n) = w
  <2>1. { keys[j] : j \in 1..0 } = {}
    OBVIOUS
  <2>2. PartOf(w, keys, 0) = << >>
    BY <2>1 DEF PartOf
  <2>3. PartOf(w, keys, n) = w
    BY <1>0a, <1>0, <1>3, WholePart
  <2>4. QED
    BY <2>2, <2>3
<1>5. /\ offs \in [1..(n + 1) -> Nat] /\ offs[1] = p + 1 /\ offs[n + 1] = z
      /\ \A i \in 1..n : offs[i + 1] = offs[i] + Len(parts[i]) /\ TextAt(s, offs[i], parts[i])
  BY <1>0 DEF LaidFrom
<1>6. \A i \in 1..n : qs[keys[i]] \in Questions /\ keys[i] \in 0..MaxNumber
  <2>1. \A i \in 1..n : keys[i] \in DOMAIN qs
    BY <1>0 DEF Enumerates
  <2>2. QED
    BY <1>0a, <2>1, BookTypes
<1> DEFINE From(j) == IF j = 0 THEN p ELSE offs[j + 1]
           Dotted(j) == \E i \in 1..j : qs[keys[i]].tags = <<Dot>>
           There(j) == j = 0 \/ offs[j + 1] - 2 <= L
           Fine(j) == /\ There(j) /\ ~Dotted(j) => f[j] = Read(PartOf(w, keys, j), From(j))
                      /\ There(j) /\ Dotted(j) => f[j] = Threw
                      /\ ~There(j) => f[j].end # "read"
           S == { j \in Nat : j <= n => Fine(j) }
<1>7. 0 \in S
  BY <1>1, <1>4
<1>8. ASSUME NEW j \in Nat, j \in S
      PROVE  j + 1 \in S
  <2> SUFFICES ASSUME j + 1 <= n
               PROVE  Fine(j + 1)
    <3> HIDE DEF Fine
    <3> QED
      OBVIOUS
  <2>1. j <= n /\ j + 1 \in 1..n /\ (j + 1) - 1 = j
    BY <1>0a
  <2>2. Fine(j)
    <3> HIDE DEF Fine
    <3> QED
      BY <1>8, <2>1
  <2>3. PICK i \in 1..n, q \in Questions, d \in 0..MaxNumber :
          i = j + 1 /\ q = qs[keys[i]] /\ d = keys[i]
    BY <1>6, <2>1
  <2>4. PICK o \in Nat, y \in Nat : /\ o = offs[j + 1] /\ y = offs[(j + 1) + 1] /\ y = o + Len(ContestEntry(d, q))
                                    /\ TextAt(s, o, ContestEntry(d, q))
    <3>1. j + 1 \in 1..(n + 1) /\ (j + 1) + 1 \in 1..(n + 1)
      BY <1>0a, <2>1
    <3>2. QED
      BY <1>0, <1>5, <2>1, <2>3, <3>1
  <2>5. PICK x \in Nat : x = From(j) /\ (o = x \/ o = x + 1) /\ (o = x + 1 /\ x <= L => s[x] = EOL)
    <3>1. CASE j = 0
      BY <1>0a, <1>2, <1>5, <2>4, <3>1
    <3>2. CASE j # 0
      BY <2>4, <3>2
    <3>3. QED
      BY <3>1, <3>2
  <2>6. x \in Nat \ {0} /\ Len(ContestEntry(d, q)) \in Nat /\ Len(ContestEntry(d, q)) >= 16
    <3>1. x # 0
      <4>1. CASE j = 0
        BY <1>0a, <2>5, <4>1
      <4>2. CASE j # 0
        <5>1. PICK h \in 1..n : h = j
          BY <2>1, <4>2
        <5>2. offs[h + 1] = offs[h] + Len(parts[h]) /\ offs[h] \in Nat /\ parts[h] = ContestEntry(keys[h], qs[keys[h]])
          <6>1. h \in 1..(n + 1)
            BY <1>0a
          <6>2. QED
            BY <1>0, <1>5, <6>1
        <5>3. Len(parts[h]) \in Nat /\ Len(parts[h]) >= 16
          BY <1>6, <5>2, EntryTexts
        <5>4. x = offs[h + 1]
          BY <2>5, <4>2, <5>1
        <5>5. QED
          BY <5>2, <5>3, <5>4
      <4>3. QED
        BY <4>1, <4>2
    <3>2. QED
      BY <3>1, EntryTexts
  <2>7. \A v : /\ y - 2 <= L /\ q.tags # <<Dot>> =>
                    ContestQuestion(s, Read(v, x)) = Read(Emplaced(v, d, WornQuestion(q)), y)
               /\ y - 2 <= L /\ q.tags = <<Dot>> => ContestQuestion(s, Read(v, x)) = Threw
               /\ y - 2 > L => ContestQuestion(s, Read(v, x)).end # "read"
    <3> TAKE v
    <3>0. s \in Texts /\ d \in 0..MaxNumber /\ q \in Questions
      BY <1>0a
    <3>1. /\ x \in Nat \ {0} /\ o \in Nat /\ (o = x \/ o = x + 1) /\ (o = x + 1 /\ x <= Len(s) => s[x] = EOL)
          /\ TextAt(s, o, ContestEntry(d, q)) /\ y \in Nat /\ y = o + Len(ContestEntry(d, q))
      BY <1>2, <2>4, <2>5, <2>6
    <3>2. /\ y - 2 <= Len(s) /\ q.tags # <<Dot>> =>
               ContestQuestion(s, Read(v, x)) = Read(Emplaced(v, d, WornQuestion(q)), y)
          /\ y - 2 <= Len(s) /\ q.tags = <<Dot>> => ContestQuestion(s, Read(v, x)) = Threw
          /\ y - 2 > Len(s) => ContestQuestion(s, Read(v, x)).end # "read"
      BY ONLY <3>0, <3>1, OneQuestionRead
    <3>3. QED
      BY <1>2, <3>2
  <2>8. f[j + 1] = IF f[j].end = "read" THEN ContestQuestion(s, f[j]) ELSE f[j]
    BY <1>1, <2>1
  <2>9. There(j + 1) => There(j)
    <3> SUFFICES ASSUME j # 0, y - 2 <= L
                 PROVE  o - 2 <= L
      BY <2>4
    <3>1. PICK e : e = Len(ContestEntry(d, q)) /\ e \in Nat /\ e >= 16 /\ y = o + e
      BY <2>4, <2>6
    <3>2. o \in Nat /\ y \in Nat /\ L \in Nat
      BY <1>0a, <1>2, <2>4
    <3>3. QED
      BY ONLY <3>1, <3>2, y - 2 <= L
  <2>10. From(j + 1) = y /\ (There(j + 1) <=> y - 2 <= L)
    BY <2>4
  <2>11. Dotted(j + 1) <=> Dotted(j) \/ q.tags = <<Dot>>
    <3>1. \A h : h \in 1..(j + 1) <=> h \in 1..j \/ h = j + 1
      OBVIOUS
    <3>2. QED
      BY <2>3, <3>1
  <2>12. Emplaced(PartOf(w, keys, j), d, WornQuestion(q)) = PartOf(w, keys, j + 1)
    <3>1. Enumerates(keys, n, DOMAIN w) /\ j < n /\ d \in DOMAIN qs
      BY <1>0a, <1>0, <1>3, <2>1, <2>3 DEF Enumerates
    <3>2. w[keys[j + 1]] = WornQuestion(q) /\ keys[j + 1] = d
      BY <1>3, <2>3, <3>1
    <3>3. QED
      BY <1>0a, <3>1, <3>2, OneMorePart
  <2> HIDE DEF From, Dotted, There
  <2>13. CASE There(j + 1)
    <3>1. CASE Dotted(j)
      BY <2>2, <2>8, <2>9, <2>11, <2>13, <3>1, WhatEnds
    <3>2. CASE ~Dotted(j)
      <4>1. f[j] = Read(PartOf(w, keys, j), x)
        BY <2>2, <2>5, <2>9, <2>13, <3>2
      <4>2. f[j + 1] = ContestQuestion(s, Read(PartOf(w, keys, j), x))
        BY <2>8, <4>1, WhatReadIs
      <4>3. y - 2 <= L
        BY <2>10, <2>13
      <4>4. QED
        BY <2>7, <2>10, <2>11, <2>12, <2>13, <3>2, <4>2, <4>3
    <3>3. QED
      BY <3>1, <3>2
  <2>14. CASE ~There(j + 1)
    <3>1. CASE f[j].end # "read"
      BY <2>8, <2>14, <3>1
    <3>2. CASE f[j].end = "read"
      <4>1. f[j] = Read(PartOf(w, keys, j), x)
        BY <2>2, <2>5, <3>2, WhatEnds
      <4>2. y - 2 > L
        BY <2>10, <2>14
      <4>3. QED
        BY <2>7, <2>8, <2>14, <3>2, <4>1, <4>2
    <3>3. QED
      BY <3>1, <3>2
  <2>15. QED
    BY <2>13, <2>14
<1>9. Fine(n)
  <2>1. n \in S
    <3> HIDE DEF S
    <3> QED
      BY <1>0a, <1>7, <1>8, Counting
  <2> HIDE DEF Fine
  <2>2. QED
    BY <2>1
<1>10. Dotted(n) <=> \E i \in DOMAIN qs : qs[i].tags = <<Dot>>
  <2>1. /\ \A i \in 1..n : keys[i] \in DOMAIN qs
        /\ \A d \in DOMAIN qs : \E i \in 1..n : keys[i] = d
    BY <1>0 DEF Enumerates
  <2>2. QED
    BY <2>1
<1> HIDE DEF Dotted
<1>11. QED
  BY <1>0a, <1>1, <1>2, <1>3, <1>4, <1>5, <1>9, <1>10

-----------------------------------------------------------------------------
\* A word is in a text at p, if that one goes so far.
Has(s, p, w) == p <= Len(s) => s[p] = w

LEMMA SixWords ==
  ASSUME NEW a \in Tokens, NEW b \in Tokens, NEW c \in Tokens, NEW d \in Tokens, NEW e \in Tokens, NEW f \in Tokens
  PROVE  /\ <<a, b, c, d, e, f>> \in Texts /\ Len(<<a, b, c, d, e, f>>) = 6
         /\ \A s \in Texts, p \in Nat \ {0} : TextAt(s, p, <<a, b, c, d, e, f>>) =>
              /\ Has(s, p, a) /\ Has(s, p + 1, b) /\ Has(s, p + 2, c)
              /\ Has(s, p + 3, d) /\ Has(s, p + 4, e) /\ Has(s, p + 5, f)
<1>1. PICK x : x = <<a, b, c, d, e, f>>
  OBVIOUS
<1>2. /\ x \in Seq(Tokens) /\ Len(x) = 6 /\ x[1] = a /\ x[2] = b /\ x[3] = c
      /\ x[4] = d /\ x[5] = e /\ x[6] = f
  BY <1>1
<1>3. ASSUME NEW s \in Texts, NEW p \in Nat \ {0}, TextAt(s, p, x)
      PROVE  /\ Has(s, p, x[1]) /\ Has(s, p + 1, x[2]) /\ Has(s, p + 2, x[3])
             /\ Has(s, p + 3, x[4]) /\ Has(s, p + 4, x[5]) /\ Has(s, p + 5, x[6])
  <2>1. /\ p + 1 - 1 = p /\ p + 2 - 1 = p + 1 /\ p + 3 - 1 = p + 2
        /\ p + 4 - 1 = p + 3 /\ p + 5 - 1 = p + 4 /\ p + 6 - 1 = p + 5
    OBVIOUS
  <2>2. \A k \in 1..6 : p + k - 1 <= Len(s) => s[p + k - 1] = x[k]
    BY <1>2, <1>3 DEF TextAt
  <2>3. 1 \in 1..6 /\ 2 \in 1..6 /\ 3 \in 1..6 /\ 4 \in 1..6 /\ 5 \in 1..6 /\ 6 \in 1..6
    OBVIOUS
  <2>4. QED
    BY <2>1, <2>2, <2>3 DEF Has
<1>4. QED
  BY <1>1, <1>2, <1>3 DEF Texts

\* Statistics that can be written, and how their pairs are.
Counters == UNION { [D -> 0..MaxNumber] : D \in SUBSET (0..MaxNumber) }
Stats ==
  { st \in [contestants : 0..MaxNumber, highest : 0..MaxNumber, set : Counters] :
      Cardinality(DOMAIN st.set) <= MaxNumber }
PairText(id, n) == <<Word[id], Sp, Word[n], EOL>>

LEMMA PairTexts ==
  ASSUME NEW id \in 0..MaxNumber, NEW n \in 0..MaxNumber
  PROVE  /\ PairText(id, n) \in Texts /\ Len(PairText(id, n)) = 4
         /\ \A s \in Texts, p \in Nat \ {0} : TextAt(s, p, PairText(id, n)) =>
              Has(s, p, Word[id]) /\ Has(s, p + 1, Sp) /\ Has(s, p + 2, Word[n]) /\ Has(s, p + 3, EOL)
<1>1. PICK a \in Tokens, b \in Tokens : a = Word[id] /\ b = Word[n]
  BY WordsApart
<1>2. PICK x : x = <<a, Sp, b, EOL>>
  OBVIOUS
<1>3. x \in Texts /\ Len(x) = 4 /\ x[1] = a /\ x[2] = Sp /\ x[3] = b /\ x[4] = EOL
  BY <1>2, ShortTexts, TokenTypes
<1>4. ASSUME NEW s \in Texts, NEW p \in Nat \ {0}, TextAt(s, p, x)
      PROVE  Has(s, p, a) /\ Has(s, p + 1, Sp) /\ Has(s, p + 2, b) /\ Has(s, p + 3, EOL)
  <2>1. p + 1 - 1 = p /\ p + 2 - 1 = p + 1 /\ p + 3 - 1 = p + 2 /\ p + 4 - 1 = p + 3
    OBVIOUS
  <2>2. \A k \in 1..4 : p + k - 1 <= Len(s) => s[p + k - 1] = x[k]
    BY <1>3, <1>4 DEF TextAt
  <2>3. 1 \in 1..4 /\ 2 \in 1..4 /\ 3 \in 1..4 /\ 4 \in 1..4
    OBVIOUS
  <2>4. QED
    BY <1>3, <2>1, <2>2, <2>3 DEF Has
<1>5. QED
  BY <1>1, <1>2, <1>3, <1>4 DEF PairText

LEMMA CountersAre ==
  ASSUME NEW set \in Counters
  PROVE  /\ set = [i \in DOMAIN set |-> set[i]] /\ DOMAIN set \in SUBSET (0..MaxNumber)
         /\ \A i \in DOMAIN set : set[i] \in 0..MaxNumber
<1>1. PICK D \in SUBSET (0..MaxNumber) : set \in [D -> 0..MaxNumber]
  BY DEF Counters
<1>2. QED
  BY <1>1

LEMMA EmptyCounters ==
  << >> \in Counters /\ Cardinality(DOMAIN << >>) <= 0
<1>0. << >> \in [{} -> 0..MaxNumber]
  OBVIOUS
<1>1. PICK e : e = << >> /\ e \in [{} -> 0..MaxNumber] /\ DOMAIN e = {}
  BY <1>0
<1>2. {} \in SUBSET (0..MaxNumber)
  OBVIOUS
<1>3. e \in Counters
  BY <1>1, <1>2 DEF Counters
<1>4. Cardinality(DOMAIN e) <= 0
  BY <1>1, FS_EmptySet
<1>5. QED
  BY <1>1, <1>3, <1>4

\* Where the pairs of statistics are.
PairsAt(s, b, set, keys, k) ==
  \A i \in 1..k : /\ Has(s, b + 4 * i - 4, Word[keys[i]]) /\ Has(s, b + 4 * i - 3, Sp)
                  /\ Has(s, b + 4 * i - 2, Word[set[keys[i]]]) /\ Has(s, b + 4 * i - 1, EOL)

LEMMA PairsLaid ==
  ASSUME NEW s \in Texts, NEW b \in Nat \ {0}, NEW set \in Counters, NEW k \in Nat, NEW keys,
         Enumerates(keys, k, DOMAIN set), NEW parts, NEW offs, NEW z, LaidFrom(s, b, parts, k, offs, z),
         \A i \in 1..k : parts[i] = PairText(keys[i], set[keys[i]])
  PROVE  z = b + 4 * k /\ PairsAt(s, b, set, keys, k)
<1>1. /\ offs \in [1..(k + 1) -> Nat] /\ offs[1] = b /\ offs[k + 1] = z
      /\ \A i \in 1..k : offs[i + 1] = offs[i] + Len(parts[i]) /\ TextAt(s, offs[i], parts[i])
  BY DEF LaidFrom
<1>2. \A i \in 1..k : keys[i] \in 0..MaxNumber /\ set[keys[i]] \in 0..MaxNumber
  <2>1. \A i \in 1..k : keys[i] \in DOMAIN set
    BY DEF Enumerates
  <2>2. QED
    BY <2>1, CountersAre
<1>3. \A i \in 1..k : Len(parts[i]) = 4
  BY <1>2, PairTexts
<1> DEFINE S == { j \in Nat : j <= k => offs[j + 1] = b + 4 * j }
<1>4. 0 \in S
  BY <1>1
<1>5. ASSUME NEW j \in Nat, j \in S
      PROVE  j + 1 \in S
  <2> SUFFICES ASSUME j + 1 <= k
               PROVE  offs[(j + 1) + 1] = b + 4 * (j + 1)
    OBVIOUS
  <2>1. j <= k /\ j + 1 \in 1..k
    OBVIOUS
  <2>2. offs[j + 1] = b + 4 * j
    BY <1>5, <2>1
  <2>3. offs[(j + 1) + 1] = offs[j + 1] + 4
    BY <1>1, <1>3, <2>1
  <2>4. QED
    BY <2>2, <2>3
<1>6. \A j \in Nat : j \in S
  <2> HIDE DEF S
  <2> QED
    BY <1>4, <1>5, Counting
<1>7. z = b + 4 * k
  BY <1>1, <1>6
<1>8. ASSUME NEW i \in 1..k
      PROVE  /\ Has(s, b + 4 * i - 4, Word[keys[i]]) /\ Has(s, b + 4 * i - 3, Sp)
             /\ Has(s, b + 4 * i - 2, Word[set[keys[i]]]) /\ Has(s, b + 4 * i - 1, EOL)
  <2>1. PICK j \in Nat : j = i - 1 /\ j <= k /\ i = j + 1
    OBVIOUS
  <2>2. PICK p \in Nat \ {0} : p = b + 4 * j /\ p = offs[i]
    BY <1>6, <2>1
  <2>3. b + 4 * i - 4 = p /\ b + 4 * i - 3 = p + 1 /\ b + 4 * i - 2 = p + 2 /\ b + 4 * i - 1 = p + 3
    BY <2>1, <2>2
  <2>4. PICK d \in 0..MaxNumber, m \in 0..MaxNumber : d = keys[i] /\ m = set[keys[i]]
    BY <1>2
  <2>5. TextAt(s, p, PairText(d, m))
    BY <1>1, <2>2, <2>4
  <2>6. Has(s, p, Word[d]) /\ Has(s, p + 1, Sp) /\ Has(s, p + 2, Word[m]) /\ Has(s, p + 3, EOL)
    BY <2>5, PairTexts
  <2>7. QED
    BY <2>3, <2>4, <2>6
<1>9. QED
  BY <1>7, <1>8 DEF PairsAt

\* Where statistics are.
StatsAt(s, b, st, keys, k) ==
  /\ k \in 0..MaxNumber /\ Enumerates(keys, k, DOMAIN st.set)
  /\ Has(s, b, Word[st.contestants]) /\ Has(s, b + 1, EOL) /\ Has(s, b + 2, Word[st.highest])
  /\ Has(s, b + 3, EOL) /\ Has(s, b + 4, Word[k]) /\ Has(s, b + 5, EOL)
  /\ PairsAt(s, b + 6, st.set, keys, k)

LEMMA StatsTexts ==
  ASSUME NEW st \in Stats, NEW k, k = Cardinality(DOMAIN st.set)
  PROVE  /\ k \in 0..MaxNumber /\ StatsText(st) \in Texts /\ Len(StatsText(st)) = 6 + 4 * k
         /\ \A s \in Texts, b \in Nat \ {0} : TextAt(s, b, StatsText(st)) => StatsAt(s, b, st, Keys(st.set), k)
<1>1. st.contestants \in 0..MaxNumber /\ st.highest \in 0..MaxNumber /\ st.set \in Counters
  BY DEF Stats
<1>2. PICK set \in Counters : set = st.set
  BY <1>1
<1>3. PICK keys : keys = Keys(set) /\ Enumerates(keys, k, DOMAIN set) /\ DOMAIN keys = 1..k /\ k \in Nat
  BY <1>2, CountersAre, KeysAre
<1>4. k \in 0..MaxNumber
  BY <1>3, WordsApart DEF Stats
<1>5. \A i \in 1..k : keys[i] \in 0..MaxNumber /\ set[keys[i]] \in 0..MaxNumber
  <2>1. \A i \in 1..k : keys[i] \in DOMAIN set
    BY <1>3 DEF Enumerates
  <2>2. QED
    BY <2>1, CountersAre
<1>6. PICK a \in Tokens, h \in Tokens, n \in Tokens : a = Word[st.contestants] /\ h = Word[st.highest] /\ n = Word[k]
  BY <1>1, <1>4, WordsApart
<1>7. PICK head : /\ head = <<a, EOL, h, EOL, n, EOL>> /\ head \in Texts /\ Len(head) = 6
                  /\ \A s \in Texts, p \in Nat \ {0} : TextAt(s, p, head) =>
                       /\ Has(s, p, a) /\ Has(s, p + 1, EOL) /\ Has(s, p + 2, h)
                       /\ Has(s, p + 3, EOL) /\ Has(s, p + 4, n) /\ Has(s, p + 5, EOL)
  <2>1. EOL \in Tokens
    BY TokenTypes
  <2>2. PICK head : head = <<a, EOL, h, EOL, n, EOL>>
    OBVIOUS
  <2>3. QED
    BY <2>1, <2>2, SixWords
<1>8. PICK parts : /\ parts = [i \in 1..k |-> PairText(keys[i], set[keys[i]])]
                   /\ parts \in Seq(Texts) /\ Len(parts) = k
  <2>1. \A i \in 1..k : PairText(keys[i], set[keys[i]]) \in Texts
    BY <1>5, PairTexts
  <2>2. PICK parts : parts = [i \in 1..k |-> PairText(keys[i], set[keys[i]])]
    OBVIOUS
  <2>3. parts \in [1..k -> Texts]
    BY <2>1, <2>2
  <2>4. QED
    BY <1>3, <2>2, <2>3, PartsAre
<1>9. StatsText(st) = head \o FlattenSeq(parts)
  BY <1>2, <1>3, <1>6, <1>7, <1>8 DEF StatsText, ForAll, PairText
<1>10. FlattenSeq(parts) \in Texts /\ Len(FlattenSeq(parts)) = 4 * k
  <2>1. PICK s \in Texts, p \in Nat \ {0} : s = << >> /\ p = 1
    BY EmptyBook
  <2>2. TextAt(s, p, FlattenSeq(parts))
    BY <2>1, EmptyText
  <2>3. /\ FlattenSeq(parts) \in Texts
        /\ \E offs : LaidFrom(s, p, parts, k, offs, p + Len(FlattenSeq(parts)))
    BY <1>3, <1>8, <2>2, AtFlattened
  <2>4. PICK offs, z : z = p + Len(FlattenSeq(parts)) /\ LaidFrom(s, p, parts, k, offs, z)
    BY <2>3
  <2>5. z = p + 4 * k
    BY <1>3, <1>8, <2>4, PairsLaid
  <2>6. Len(FlattenSeq(parts)) \in Nat
    BY <2>3 DEF Texts
  <2>7. QED
    BY <1>3, <2>3, <2>4, <2>5, <2>6
<1>11. StatsText(st) \in Texts /\ Len(StatsText(st)) = 6 + 4 * k
  BY <1>7, <1>9, <1>10, Joined
<1>12. ASSUME NEW s \in Texts, NEW b \in Nat \ {0}, TextAt(s, b, StatsText(st))
       PROVE  StatsAt(s, b, st, keys, k)
  <2>1. PICK p \in Nat \ {0} : p = b + 6
    OBVIOUS
  <2>2. TextAt(s, b, head) /\ TextAt(s, p, FlattenSeq(parts))
    BY <1>7, <1>9, <1>10, <1>12, <2>1, AtJoined
  <2>3. PICK offs, z : LaidFrom(s, p, parts, k, offs, z)
    BY <1>3, <1>8, <2>2, AtFlattened
  <2>4. PairsAt(s, p, set, keys, k)
    BY <1>3, <1>8, <2>3, PairsLaid
  <2>5. QED
    BY <1>2, <1>3, <1>4, <1>6, <1>7, <2>1, <2>2, <2>4 DEF StatsAt
<1>13. QED
  BY <1>2, <1>3, <1>4, <1>11, <1>12

-----------------------------------------------------------------------------
LEMMA OnePairIs ==
  ASSUME NEW s \in Texts, NEW v, NEW p \in Nat, NEW n, NEW x \in Nat, NumberFrom(s, p) = Read(n, x)
  PROVE  /\ p > Len(s) => OnePair(s, Read(v, p)) = Threw
         /\ p <= Len(s) /\ x > Len(s) => OnePair(s, Read(v, p)) = Threw
         /\ p <= Len(s) /\ x <= Len(s) =>
              \A m, y : NumberFrom(s, x) = Read(m, y) => OnePair(s, Read(v, p)) = Read(Emplaced(v, n, m), y)
<1>1. PICK b : b = Read(v, p) /\ b.end = "read" /\ b.value = v /\ b.next = p
  BY WhatReadIs
<1>2. PICK r : r = NumberFrom(s, p) /\ r.end = "read" /\ r.value = n /\ r.next = x
  BY WhatReadIs
<1>3. CASE ~(p <= Len(s))
  <2>1. OnePair(s, b) = Threw
    BY <1>1, <1>3, WhatEnds DEF OnePair, Then, Reached, IsThere
  <2>2. QED
    BY <1>1, <1>3, <2>1
<1>4. CASE p <= Len(s)
  <2>0. Reached(s, b) = b
    BY <1>1, <1>4 DEF Reached, IsThere
  <2>1. CASE ~(x <= Len(s))
    <3>1. Reached(s, r) = Threw
      BY <1>2, <2>1 DEF Reached, IsThere
    <3>2. OnePair(s, b) = Threw
      BY <1>1, <1>2, <2>0, <3>1, WhatEnds DEF OnePair, Then
    <3>3. QED
      BY <1>1, <1>4, <2>1, <3>2
  <2>2. CASE x <= Len(s)
    <3>1. Reached(s, r) = r
      BY <1>2, <2>2 DEF Reached, IsThere
    <3>2. ASSUME NEW m, NEW y, NumberFrom(s, x) = Read(m, y)
          PROVE  OnePair(s, b) = Read(Emplaced(v, n, m), y)
      <4>1. PICK c : c = NumberFrom(s, x) /\ c.end = "read" /\ c.value = m /\ c.next = y
        BY <3>2, WhatReadIs
      <4>2. QED
        BY <1>1, <1>2, <2>0, <3>1, <4>1 DEF OnePair, Then
    <3>3. Len(s) \in Nat
      BY DEF Texts
    <3>4. ~(p > Len(s)) /\ ~(x > Len(s))
      BY <1>4, <2>2, <3>3
    <3>5. QED
      BY <1>1, <3>2, <3>4
  <2>3. QED
    BY <2>1, <2>2
<1>5. QED
  BY <1>3, <1>4

LEMMA PairsTypes ==
  ASSUME NEW s \in Texts, NEW p \in Nat \ {0}, NEW n \in Nat, PairsFrom(s, p, n).end = "read"
  PROVE  \E v \in Counters, y \in Nat \ {0} :
           PairsFrom(s, p, n) = Read(v, y) /\ Cardinality(DOMAIN v) <= n
<1>1. PICK f : /\ PairsFrom(s, p, n) = f[n]
               /\ f[0] = Read(<< >>, p)
               /\ \A k \in 1..n : f[k] = (IF f[k - 1].end = "read" THEN OnePair(s, f[k - 1]) ELSE f[k - 1])
  BY PairsUnfold
<1> DEFINE Fine(j) == f[j].end # "read" \/ \E v \in Counters, y \in Nat \ {0} :
                                              f[j] = Read(v, y) /\ Cardinality(DOMAIN v) <= j
           S == { j \in Nat : j <= n => Fine(j) }
<1>2. 0 \in S
  <2>2. << >> \in Counters /\ Cardinality(DOMAIN << >>) <= 0
    BY EmptyCounters
  <2>3. QED
    BY <1>1, <2>2
<1>3. ASSUME NEW j \in Nat, j \in S
      PROVE  j + 1 \in S
  <2> SUFFICES ASSUME j + 1 <= n
               PROVE  Fine(j + 1)
    <3> HIDE DEF Fine
    <3> QED
      OBVIOUS
  <2>1. j <= n /\ j + 1 \in 1..n /\ (j + 1) - 1 = j
    OBVIOUS
  <2>2. Fine(j)
    <3> HIDE DEF Fine
    <3> QED
      BY <1>3, <2>1
  <2>3. f[j + 1] = IF f[j].end = "read" THEN OnePair(s, f[j]) ELSE f[j]
    BY <1>1, <2>1
  <2>4. CASE f[j].end # "read"
    BY <2>3, <2>4
  <2>5. CASE f[j].end = "read"
    <3>1. PICK v \in Counters, x \in Nat \ {0} : f[j] = Read(v, x) /\ Cardinality(DOMAIN v) <= j
      BY <2>2, <2>5
    <3>2. PICK d \in 0..MaxNumber, y \in Nat \ {0} : NumberFrom(s, x) = Read(d, y)
      BY NumberTypes
    <3>3. PICK m \in 0..MaxNumber, z \in Nat \ {0} : NumberFrom(s, y) = Read(m, z)
      BY NumberTypes
    <3>4. f[j + 1] = OnePair(s, Read(v, x))
      BY <2>3, <2>5, <3>1
    <3>5. x \in Nat /\ y \in Nat /\ Len(s) \in Nat
      BY DEF Texts
    <3>6. f[j + 1] = Threw \/ f[j + 1] = Read(Emplaced(v, d, m), z)
      BY <3>2, <3>3, <3>4, <3>5, OnePairIs
    <3>7. Emplaced(v, d, m) \in Counters /\ Cardinality(DOMAIN Emplaced(v, d, m)) <= j + 1
      <4>1. DOMAIN v \in SUBSET (0..MaxNumber) /\ \A i \in DOMAIN v : v[i] \in 0..MaxNumber
        BY CountersAre
      <4>2. DOMAIN v \cup {d} \in SUBSET (0..MaxNumber)
        BY <4>1
      <4>3. Emplaced(v, d, m) \in [DOMAIN v \cup {d} -> 0..MaxNumber]
        BY <4>1 DEF Emplaced
      <4>4. IsFiniteSet(DOMAIN v) /\ Cardinality(DOMAIN v) \in Nat
        BY <4>1, KeysExist, WordsApart
      <4>5. Cardinality(DOMAIN v \cup {d}) \in {Cardinality(DOMAIN v), Cardinality(DOMAIN v) + 1}
        BY <4>4, FS_AddElement
      <4>6. Cardinality(DOMAIN v \cup {d}) <= j + 1
        BY <3>1, <4>4, <4>5
      <4>7. QED
        BY <4>2, <4>3, <4>6 DEF Counters
    <3>8. QED
      BY <3>6, <3>7, WhatEnds
  <2>6. QED
    BY <2>4, <2>5
<1>4. Fine(n)
  <2>1. n \in S
    <3> HIDE DEF S
    <3> QED
      BY <1>2, <1>3, Counting
  <2> HIDE DEF Fine
  <2>2. QED
    BY <2>1
<1>5. QED
  BY <1>1, <1>4

\* Behind the end there are no pairs.
LEMMA PairsBehind ==
  ASSUME NEW s \in Texts, NEW p \in Nat \ {0}, p > Len(s), NEW n \in Nat
  PROVE  PairsFrom(s, p, n) = Read(<< >>, p) \/ PairsFrom(s, p, n).end # "read"
<1>1. PICK f : /\ PairsFrom(s, p, n) = f[n]
               /\ f[0] = Read(<< >>, p)
               /\ \A k \in 1..n : f[k] = (IF f[k - 1].end = "read" THEN OnePair(s, f[k - 1]) ELSE f[k - 1])
  BY PairsUnfold
<1> DEFINE S == { j \in Nat : j <= n => (j = 0 \/ f[j].end # "read") }
<1>2. 0 \in S
  OBVIOUS
<1>3. ASSUME NEW j \in Nat, j \in S
      PROVE  j + 1 \in S
  <2> SUFFICES ASSUME j + 1 <= n
               PROVE  f[j + 1].end # "read"
    OBVIOUS
  <2>1. j <= n /\ j + 1 \in 1..n /\ (j + 1) - 1 = j
    OBVIOUS
  <2>2. f[j + 1] = IF f[j].end = "read" THEN OnePair(s, f[j]) ELSE f[j]
    BY <1>1, <2>1
  <2>3. CASE j = 0
    <3>1. PICK d \in 0..MaxNumber, y \in Nat \ {0} : NumberFrom(s, p) = Read(d, y)
      BY NumberTypes
    <3>2. f[j + 1] = OnePair(s, Read(<< >>, p))
      BY <1>1, <2>2, <2>3, WhatReadIs
    <3>3. OnePair(s, Read(<< >>, p)) = Threw
      BY <3>1, OnePairIs
    <3>4. QED
      BY <3>2, <3>3, WhatEnds
  <2>4. CASE j # 0
    BY <1>3, <2>1, <2>2, <2>4
  <2>5. QED
    BY <2>3, <2>4
<1>4. n \in S
  <2> HIDE DEF S
  <2> QED
    BY <1>2, <1>3, Counting
<1>5. QED
  BY <1>1, <1>4

\* Pairs are read up to the last that is there whole; one that is cut ends reading,
\* or nothing is left behind it.
LEMMA PairsRead ==
  ASSUME NEW s \in Texts, NEW b \in Nat \ {0}, b <= Len(s) + 1, Has(s, b, EOL), NEW set \in Counters,
         NEW n \in Nat, NEW keys, Enumerates(keys, n, DOMAIN set), PairsAt(s, b + 1, set, keys, n)
  PROVE  /\ b + 4 * n - 1 <= Len(s) => PairsFrom(s, b, n) = Read(set, b + 4 * n)
         /\ b + 4 * n - 1 > Len(s) => PairsFrom(s, b, n).end # "read" \/ PairsFrom(s, b, n).next > Len(s)
<1>1. PICK f : /\ PairsFrom(s, b, n) = f[n]
               /\ f[0] = Read(<< >>, b)
               /\ \A k \in 1..n : f[k] = (IF f[k - 1].end = "read" THEN OnePair(s, f[k - 1]) ELSE f[k - 1])
  <2>1. PICK r : r = PairsFrom(s, b, n) /\ n \in Nat
    OBVIOUS
  <2>2. QED
    BY ONLY <2>1, PairsUnfold
<1>2. PICK L \in Nat : L = Len(s)
  BY DEF Texts
<1>3. PartOf(set, keys, 0) = << >>
  <2>1. { keys[j] : j \in 1..0 } = {}
    OBVIOUS
  <2>2. QED
    BY <2>1 DEF PartOf
<1>4. \A i \in 1..n : keys[i] \in 0..MaxNumber /\ set[keys[i]] \in 0..MaxNumber
  <2>1. \A i \in 1..n : keys[i] \in DOMAIN set
    BY DEF Enumerates
  <2>2. QED
    BY <2>1, CountersAre
<1> DEFINE Fine(j) == /\ b + 4 * j - 1 <= L => f[j] = Read(PartOf(set, keys, j), b + 4 * j)
                      /\ b + 4 * j - 1 > L => f[j].end # "read" \/
                                              (f[j].next > L /\ \E v : \E y \in Nat \ {0} : f[j] = Read(v, y))
           S == { j \in Nat : j <= n => Fine(j) }
<1>5. 0 \in S
  <2>1. b + 4 * 0 = b /\ b - 1 <= L /\ ~(b - 1 > L)
    BY <1>2
  <2>2. QED
    BY <1>1, <1>3, <2>1
<1>6. ASSUME NEW j \in Nat, j \in S
      PROVE  j + 1 \in S
  <2> SUFFICES ASSUME j + 1 <= n
               PROVE  Fine(j + 1)
    <3> HIDE DEF Fine
    <3> QED
      OBVIOUS
  <2>1. j <= n /\ j + 1 \in 1..n /\ (j + 1) - 1 = j
    OBVIOUS
  <2>2. Fine(j)
    <3> HIDE DEF Fine
    <3> QED
      BY <1>6, <2>1
  <2>3. f[j + 1] = IF f[j].end = "read" THEN OnePair(s, f[j]) ELSE f[j]
    BY <1>1, <2>1
  <2>4. PICK d \in 0..MaxNumber, m \in 0..MaxNumber : d = keys[j + 1] /\ m = set[d]
    BY <1>4, <2>1
  <2>5. PICK p \in Nat \ {0} : p = b + 4 * j /\ b + 4 * (j + 1) = p + 4 /\ b + 4 * (j + 1) - 1 = p + 3
    <3>1. b + 4 * j \in Nat \ {0} /\ b + 4 * (j + 1) = (b + 4 * j) + 4 /\ b + 4 * (j + 1) - 1 = (b + 4 * j) + 3
      OBVIOUS
    <3>2. QED
      BY <3>1
  <2>6. Has(s, p, EOL) /\ Has(s, p + 1, Word[d]) /\ Has(s, p + 2, Sp) /\ Has(s, p + 3, Word[m])
    <3>1. /\ (b + 1) + 4 * (j + 1) - 4 = p + 1 /\ (b + 1) + 4 * (j + 1) - 3 = p + 2
          /\ (b + 1) + 4 * (j + 1) - 2 = p + 3
      BY <2>5
    <3>2. Has(s, p + 1, Word[d]) /\ Has(s, p + 2, Sp) /\ Has(s, p + 3, Word[m])
      BY <2>1, <2>4, <3>1 DEF PairsAt
    <3>3. Has(s, p, EOL)
      <4>1. CASE j = 0
        BY <2>5, <4>1
      <4>2. CASE j # 0
        <5>1. PICK i \in 1..n : i = j
          BY <2>1, <4>2
        <5>2. (b + 1) + 4 * i - 1 = p
          BY <2>5, <5>1
        <5>3. QED
          BY <5>2 DEF PairsAt
      <4>3. QED
        BY <4>1, <4>2
    <3>4. QED
      BY <3>2, <3>3
  <2>7. WordAt(s, p, p + 1) /\ WordAt(s, p + 2, p + 3)
    <3>1. p + 2 \in Nat \ {0} /\ p + 3 = (p + 2) + 1
      OBVIOUS
    <3>2. QED
      BY <2>6, <3>1, WordsApart DEF WordAt, Has
  <2>8. CASE p + 3 <= L
    <3>1. f[j] = Read(PartOf(set, keys, j), p)
      <4>1. p - 1 <= L
        BY <2>8
      <4>2. QED
        BY <2>2, <2>5, <4>1
    <3>2. f[j + 1] = OnePair(s, Read(PartOf(set, keys, j), p))
      BY <2>3, <3>1, WhatReadIs
    <3>3. NumberFrom(s, p) = Read(d, p + 2)
      <4>1. p + 1 <= Len(s) /\ (p + 1) + 1 = p + 2
        BY <1>2, <2>8
      <4>2. s[p + 1] = Word[d]
        BY <2>6, <4>1 DEF Has
      <4>3. QED
        BY <2>7, <4>1, <4>2, NumberThere
    <3>4. NumberFrom(s, p + 2) = Read(m, p + 4)
      <4>1. p + 3 <= Len(s) /\ (p + 3) + 1 = p + 4
        BY <1>2, <2>8
      <4>2. s[p + 3] = Word[m]
        BY <2>6, <4>1 DEF Has
      <4>3. QED
        BY <2>7, <4>1, <4>2, NumberThere
    <3>5. p <= Len(s) /\ p + 2 <= Len(s) /\ p + 2 \in Nat
      BY <1>2, <2>8
    <3>6. OnePair(s, Read(PartOf(set, keys, j), p)) = Read(Emplaced(PartOf(set, keys, j), d, m), p + 4)
      BY <3>3, <3>4, <3>5, OnePairIs
    <3>7. Emplaced(PartOf(set, keys, j), d, m) = PartOf(set, keys, j + 1)
      BY <2>1, <2>4, OneMorePart
    <3>8. ~(b + 4 * (j + 1) - 1 > L)
      BY <2>5, <2>8
    <3>9. QED
      BY <2>5, <3>2, <3>6, <3>7, <3>8
  <2>9. CASE p + 3 > L
    <3> SUFFICES ASSUME f[j].end = "read"
                 PROVE  f[j + 1].end # "read" \/
                          (f[j + 1].next > L /\ \E v : \E y \in Nat \ {0} : f[j + 1] = Read(v, y))
      <4>1. ~(b + 4 * (j + 1) - 1 <= L)
        <5>1. p \in Int /\ L \in Int /\ p + 3 > L
          BY <1>2, <2>9
        <5>2. ~(p + 3 <= L)
          BY ONLY <5>1
        <5>3. QED
          BY <2>5, <5>2
      <4>2. f[j].end # "read" => f[j + 1].end # "read"
        BY <2>3
      <4>3. QED
        BY <4>1, <4>2
    <3>1a. \E v : \E x \in Nat \ {0} : f[j] = Read(v, x) /\ (x > L \/ x = p)
      <4>0. b + 4 * j - 1 <= L \/ b + 4 * j - 1 > L
        <5>1. b + 4 * j - 1 \in Int /\ L \in Int
          OBVIOUS
        <5>2. QED
          BY ONLY <5>1
      <4>1. CASE b + 4 * j - 1 <= L
        BY <2>2, <2>5, <4>1
      <4>2. CASE b + 4 * j - 1 > L
        <5>1. PICK v, y : y \in Nat \ {0} /\ f[j] = Read(v, y) /\ f[j].next > L
          BY <2>2, <4>2
        <5>2. QED
          BY <5>1, WhatReadIs
      <4>3. QED
        BY <4>0, <4>1, <4>2
    <3>1b. PICK v : \E x \in Nat \ {0} : f[j] = Read(v, x) /\ (x > L \/ x = p)
      BY <3>1a
    <3>1. PICK x \in Nat \ {0} : f[j] = Read(v, x) /\ (x > L \/ x = p)
      BY <3>1b
    <3>2. f[j + 1] = OnePair(s, Read(v, x))
      BY <2>3, <3>1
    <3>3. PICK e \in 0..MaxNumber, y \in Nat \ {0} : NumberFrom(s, x) = Read(e, y)
      BY NumberTypes
    <3>4. PICK c \in 0..MaxNumber, z \in Nat \ {0} : NumberFrom(s, y) = Read(c, z)
      BY NumberTypes
    <3>5. CASE x > L \/ y > L
      <4>1. OnePair(s, Read(v, x)) = Threw
        BY <1>2, <3>3, <3>5, OnePairIs
      <4>2. QED
        BY <3>2, <4>1, WhatEnds
    <3>6. CASE x <= L /\ y <= L
      <4>1. x = p /\ p <= L
        BY <3>1, <3>6
      <4>2. p + 1 <= L /\ y = p + 2
        <5>1. CASE p + 1 > L
          <6>1. NumberFrom(s, p) = Read(0, L + 1)
            <7>1. p + 1 > Len(s) /\ ~(p + 1 <= Len(s))
              BY <1>2, <5>1
            <7>2. QED
              BY <1>2, <2>7, <7>1, NumberThere
          <6>2. y = L + 1
            <7>1. Read(e, y) = Read(0, L + 1)
              BY <3>3, <4>1, <6>1
            <7>2. QED
              BY <7>1, SameRead
          <6>3. QED
            BY <3>6, <6>2
        <5>2. CASE p + 1 <= L
          <6>1. NumberFrom(s, p) = Read(d, (p + 1) + 1)
            BY <1>2, <2>6, <2>7, <5>2, NumberThere DEF Has
          <6>2. y = (p + 1) + 1
            <7>1. Read(e, y) = Read(d, (p + 1) + 1)
              BY <3>3, <4>1, <6>1
            <7>2. QED
              BY <7>1, SameRead
          <6>3. QED
            BY <5>2, <6>2
        <5>3. QED
          BY <5>1, <5>2
      <4>3. z = L + 1
        <5>1. p + 3 > Len(s) /\ ~(p + 3 <= Len(s))
          BY <1>2, <2>9
        <5>2. NumberFrom(s, p + 2) = Read(0, L + 1)
          BY <1>2, <2>7, <5>1, NumberThere
        <5>3. QED
          BY <3>4, <4>2, <5>2, WhatReadIs
      <4>4. f[j + 1] = Read(Emplaced(v, e, c), z)
        BY <1>2, <3>2, <3>3, <3>4, <3>6, OnePairIs
      <4>5. f[j + 1].next = z /\ z > L
        BY <4>3, <4>4, WhatReadIs
      <4>6. QED
        BY <4>4, <4>5
    <3>7. (f[j + 1].end = "read" => f[j + 1].next > L /\ \E v1 : \E y1 \in Nat \ {0} : f[j + 1] = Read(v1, y1))
      BY <3>5, <3>6
    <3>8. QED
      BY ONLY <3>7
  <2>10. QED
    BY <2>8, <2>9
<1>7. Fine(n)
  <2>1. n \in S
    <3> HIDE DEF S
    <3> QED
      BY <1>5, <1>6, Counting
  <2> HIDE DEF Fine
  <2>2. QED
    BY <2>1
<1>8. PartOf(set, keys, n) = set
  BY CountersAre, WholePart
<1>9. QED
  BY <1>1, <1>2, <1>7, <1>8

-----------------------------------------------------------------------------
\* Whatever is read again is a number that can be written.
LEMMA AgainTypes ==
  ASSUME NEW s \in Texts, NEW w \in Nat \ {0}, NEW v \in 0..MaxNumber, NEW y \in Nat \ {0}
  PROVE  /\ \E m \in 0..MaxNumber, x \in Nat \ {0} : NumberAt(s, w) = Read(m, x)
         /\ \E m \in 0..MaxNumber, x \in Nat \ {0} : Again(s, w, Read(v, y)) = Read(m, x)
         /\ w > Len(s) => Again(s, w, Read(v, y)) = Read(v, w)
         /\ w <= Len(s) => Again(s, w, Read(v, y)) = NumberAt(s, w)
<1>1. Len(s) \in Nat /\ w + 1 \in Nat \ {0} /\ Len(s) + 1 \in Nat \ {0} /\ 0 \in 0..MaxNumber
  BY WordsApart DEF Texts
<1>2. \E m \in 0..MaxNumber, x \in Nat \ {0} : NumberAt(s, w) = Read(m, x)
  <2>1. CASE w <= Len(s) /\ s[w] \in Numbers
    <3>1. NumberOf(s[w]) \in 0..MaxNumber
      BY <2>1, NumbersAre
    <3>2. NumberAt(s, w) = Read(NumberOf(s[w]), w + 1)
      BY <2>1 DEF NumberAt, IsThere
    <3>3. QED
      BY <1>1, <3>1, <3>2
  <2>2. CASE ~(w <= Len(s) /\ s[w] \in Numbers)
    <3>1. NumberAt(s, w) = Read(0, Len(s) + 1)
      BY <2>2 DEF NumberAt, IsThere
    <3>2. QED
      BY <1>1, <3>1
  <2>3. QED
    BY <2>1, <2>2
<1>3. Read(v, y).value = v
  BY WhatReadIs
<1>4. CASE w <= Len(s)
  <2>1. Again(s, w, Read(v, y)) = NumberAt(s, w) /\ ~(w > Len(s))
    BY <1>1, <1>4 DEF Again, IsThere
  <2>2. QED
    BY <1>2, <2>1
<1>5. CASE w > Len(s)
  <2>1. ~(w <= Len(s))
    BY <1>1, <1>5
  <2>2. Again(s, w, Read(v, y)) = Read(v, w)
    BY <1>3, <2>1 DEF Again, IsThere
  <2>3. QED
    BY <1>2, <2>1, <2>2
<1>6. QED
  BY <1>1, <1>4, <1>5

NumberRead(r) == \E m \in 0..MaxNumber : \E x \in Nat \ {0} : r = Read(m, x)

LEMMA AgainReads ==
  ASSUME NEW s \in Texts, NEW w \in Nat \ {0}, NEW v \in 0..MaxNumber, NEW y \in Nat \ {0}
  PROVE  NumberRead(Again(s, w, Read(v, y)))
BY AgainTypes DEF NumberRead

LEMMA StatsUnfold ==
  ASSUME NEW s, NEW w, NEW c, NEW x, NEW h, NEW y, NEW n, NEW z, IsThere(s, w),
         NumberAt(s, w) = Read(c, x), Again(s, NextWord(s, x), Read(c, x)) = Read(h, y),
         Again(s, NextWord(s, y), Read(h, y)) = Read(n, z)
  PROVE  StatsFrom(s, w) =
           IF PairsFrom(s, z, n).end = "read"
             THEN Read([contestants |-> c, highest |-> h, set |-> PairsFrom(s, z, n).value], PairsFrom(s, z, n).next)
             ELSE PairsFrom(s, z, n)
<1>1. PICK a : a = Read(c, x) /\ a.end = "read" /\ a.value = c /\ a.next = x
  BY WhatReadIs
<1>2. PICK b : b = Read(h, y) /\ b.end = "read" /\ b.value = h /\ b.next = y
  BY WhatReadIs
<1>3. PICK d : d = Read(n, z) /\ d.end = "read" /\ d.value = n /\ d.next = z
  BY WhatReadIs
<1>4. NumberAt(s, w) = a /\ Again(s, NextWord(s, a.next), a) = b /\ Again(s, NextWord(s, b.next), b) = d
  BY <1>1, <1>2, <1>3
<1>5. QED
  BY <1>1, <1>2, <1>3, <1>4 DEF StatsFrom, Then

\* Whatever is read as statistics can be written.
LEMMA StatsTypes ==
  ASSUME NEW s \in Texts, NEW w \in Nat \ {0}
  PROVE  /\ StatsFrom(s, w).end = "read" => \E st \in Stats, y \in Nat \ {0} : StatsFrom(s, w) = Read(st, y)
         /\ w > Len(s) => StatsFrom(s, w) = Threw
<1>1. Len(s) \in Nat
  BY DEF Texts
<1>2. CASE w > Len(s)
  <2>1. ~IsThere(s, w)
    BY <1>1, <1>2 DEF IsThere
  <2>2. StatsFrom(s, w) = Threw
    BY <2>1 DEF StatsFrom
  <2>3. QED
    BY <2>2, WhatEnds
<1>3. CASE w <= Len(s)
  <2>0. IsThere(s, w) /\ ~(w > Len(s))
    BY <1>1, <1>3 DEF IsThere
  <2> SUFFICES ASSUME StatsFrom(s, w).end = "read"
               PROVE  \E st \in Stats, y \in Nat \ {0} : StatsFrom(s, w) = Read(st, y)
    BY <2>0
  <2>1. PICK c \in 0..MaxNumber, x \in Nat \ {0} : NumberAt(s, w) = Read(c, x)
    <3>1. 0 \in 0..MaxNumber
      BY WordsApart
    <3>2. QED
      BY <3>1, AgainTypes
  <2>2. PICK x1 \in Nat \ {0} : x1 = NextWord(s, x)
    BY NextWordTypes
  <2>3. PICK h \in 0..MaxNumber, y \in Nat \ {0} : Again(s, x1, Read(c, x)) = Read(h, y)
    <3>1. s \in Texts /\ x1 \in Nat \ {0} /\ c \in 0..MaxNumber /\ x \in Nat \ {0}
      OBVIOUS
    <3>2. NumberRead(Again(s, x1, Read(c, x)))
      BY ONLY <3>1, AgainReads
    <3>3. QED
      BY <3>2 DEF NumberRead
  <2>4. PICK y1 \in Nat \ {0} : y1 = NextWord(s, y)
    BY NextWordTypes
  <2>5. PICK n \in 0..MaxNumber, z \in Nat \ {0} : Again(s, y1, Read(h, y)) = Read(n, z)
    <3>1. s \in Texts /\ y1 \in Nat \ {0} /\ h \in 0..MaxNumber /\ y \in Nat \ {0}
      OBVIOUS
    <3>2. NumberRead(Again(s, y1, Read(h, y)))
      BY ONLY <3>1, AgainReads
    <3>3. QED
      BY <3>2 DEF NumberRead
  <2>6. StatsFrom(s, w) =
           IF PairsFrom(s, z, n).end = "read"
             THEN Read([contestants |-> c, highest |-> h, set |-> PairsFrom(s, z, n).value], PairsFrom(s, z, n).next)
             ELSE PairsFrom(s, z, n)
    BY <2>0, <2>1, <2>2, <2>3, <2>4, <2>5, StatsUnfold
  <2>7. PairsFrom(s, z, n).end = "read" /\ n \in Nat
    BY <2>6, WordsApart
  <2>8. PICK v \in Counters, u \in Nat \ {0} : PairsFrom(s, z, n) = Read(v, u) /\ Cardinality(DOMAIN v) <= n
    BY <2>7, PairsTypes
  <2>9. PICK st : st = [contestants |-> c, highest |-> h, set |-> v]
    OBVIOUS
  <2>10. StatsFrom(s, w) = Read(st, u)
    BY <2>6, <2>7, <2>8, <2>9, WhatReadIs
  <2>11. st \in Stats
    <3>1. st \in [contestants : 0..MaxNumber, highest : 0..MaxNumber, set : Counters] /\ st.set = v
      BY <2>9
    <3>2. Cardinality(DOMAIN v) <= MaxNumber
      <4>1. DOMAIN v \in SUBSET (0..MaxNumber)
        BY CountersAre
      <4>2. Cardinality(DOMAIN v) \in Nat
        BY <4>1, KeysExist, WordsApart
      <4>3. QED
        BY <2>8, <4>2, WordsApart
    <3>3. QED
      BY <3>1, <3>2 DEF Stats
  <2>12. QED
    BY <2>10, <2>11
<1>4. QED
  BY <1>1, <1>2, <1>3

\* Statistics are read as they were written when their last number is there; ones
\* that are cut end reading, or nothing is left behind them.
LEMMA StatsRead ==
  ASSUME NEW s \in Texts, NEW b \in Nat \ {0}, b <= Len(s), NEW st \in Stats, NEW keys, NEW k,
         StatsAt(s, b, st, keys, k)
  PROVE  /\ b + 4 + 4 * k <= Len(s) => StatsFrom(s, b) = Read(st, b + 5 + 4 * k)
         /\ b + 4 + 4 * k > Len(s) => StatsFrom(s, b).end # "read" \/ StatsFrom(s, b).next > Len(s)
<1>1. PICK L \in Nat : L = Len(s)
  BY DEF Texts
<1>2. /\ k \in 0..MaxNumber /\ k \in Nat /\ Enumerates(keys, k, DOMAIN st.set)
      /\ Has(s, b, Word[st.contestants]) /\ Has(s, b + 1, EOL) /\ Has(s, b + 2, Word[st.highest])
      /\ Has(s, b + 3, EOL) /\ Has(s, b + 4, Word[k]) /\ Has(s, b + 5, EOL)
      /\ PairsAt(s, b + 6, st.set, keys, k)
  BY WordsApart DEF StatsAt
<1>3. PICK c \in 0..MaxNumber, h \in 0..MaxNumber, set \in Counters :
        /\ c = st.contestants /\ h = st.highest /\ set = st.set
        /\ st = [contestants |-> c, highest |-> h, set |-> set]
  BY DEF Stats
<1>4. IsThere(s, b)
  BY DEF IsThere
<1>5. NumberAt(s, b) = Read(c, b + 1)
  <2>1. s[b] = Word[c] /\ Word[c] \in Numbers /\ NumberOf(Word[c]) = c
    BY <1>2, <1>3, WordsApart DEF Has
  <2>2. QED
    BY <1>4, <2>1 DEF NumberAt
<1>6. PICK x \in Nat \ {0} : x = b + 1
  OBVIOUS
<1>7. PICK x1 \in Nat \ {0} : x1 = NextWord(s, x)
  BY NextWordTypes
<1>8. PICK h1 \in 0..MaxNumber, y \in Nat \ {0} : Again(s, x1, Read(c, x)) = Read(h1, y)
  <2>1. s \in Texts /\ x1 \in Nat \ {0} /\ c \in 0..MaxNumber /\ x \in Nat \ {0}
    OBVIOUS
  <2>2. NumberRead(Again(s, x1, Read(c, x)))
    BY ONLY <2>1, AgainReads
  <2>3. QED
    BY <2>2 DEF NumberRead
<1>9. PICK y1 \in Nat \ {0} : y1 = NextWord(s, y)
  BY NextWordTypes
<1>10. PICK n \in 0..MaxNumber, z \in Nat \ {0} : Again(s, y1, Read(h1, y)) = Read(n, z)
  <2>1. s \in Texts /\ y1 \in Nat \ {0} /\ h1 \in 0..MaxNumber /\ y \in Nat \ {0}
    OBVIOUS
  <2>2. NumberRead(Again(s, y1, Read(h1, y)))
    BY ONLY <2>1, AgainReads
  <2>3. QED
    BY <2>2 DEF NumberRead
<1>11. StatsFrom(s, b) =
           IF PairsFrom(s, z, n).end = "read"
             THEN Read([contestants |-> c, highest |-> h1, set |-> PairsFrom(s, z, n).value], PairsFrom(s, z, n).next)
             ELSE PairsFrom(s, z, n)
  BY <1>4, <1>5, <1>6, <1>7, <1>8, <1>9, <1>10, StatsUnfold
<1>12. CASE b + 4 > L
  <2>1. z > L
    <3>1. y1 > L
      <4>1. CASE b + 2 > L
        <5>1. x1 > L
          <6>1. WordAt(s, x, b + 2)
            BY <1>1, <1>2, <1>6, <4>1 DEF WordAt, Has
          <6>2. QED
            BY <1>1, <1>7, <4>1, <6>1, WordThere
        <5>2. Read(h1, y) = Read(c, x1)
          BY <1>1, <1>8, <5>1, AgainTypes
        <5>3. y = x1
          BY <5>2, SameRead
        <5>4. QED
          BY <1>1, <1>9, <5>1, <5>3, NextWordFound
      <4>2. CASE b + 2 <= L
        <5>1. NextWord(s, x) = b + 2 /\ s[b + 2] = Word[h]
          <6>1. WordAt(s, x, b + 2)
            BY <1>1, <1>2, <1>3, <1>6, <4>2, WordsApart DEF WordAt, Has
          <6>2. QED
            BY <1>1, <1>2, <1>3, <4>2, <6>1, WordThere DEF Has
        <5>2. NumberAt(s, b + 2) = Read(h, b + 3)
          <6>1. IsThere(s, b + 2) /\ (b + 2) + 1 = b + 3
            BY <1>1, <4>2 DEF IsThere
          <6>2. QED
            BY <5>1, <6>1, WordsApart DEF NumberAt
        <5>3. Read(h1, y) = Read(h, b + 3)
          <6>1. x1 = b + 2 /\ x1 <= Len(s)
            BY <1>1, <1>7, <4>2, <5>1
          <6>2. Again(s, x1, Read(c, x)) = NumberAt(s, x1)
            BY <6>1, AgainTypes
          <6>3. QED
            BY <1>8, <5>2, <6>1, <6>2
        <5>4. y = b + 3
          BY <5>3, SameRead
        <5>5. WordAt(s, y, b + 4)
          BY <1>1, <1>2, <1>12, <5>4 DEF WordAt, Has
        <5>6. QED
          BY <1>1, <1>9, <1>12, <5>5, WordThere
      <4>3. QED
        BY <1>1, <4>1, <4>2
    <3>2. Read(n, z) = Read(h1, y1)
      BY <1>1, <1>10, <3>1, AgainTypes
    <3>3. QED
      BY <3>1, <3>2, SameRead
  <2>2. b + 4 + 4 * k > L /\ ~(b + 4 + 4 * k <= L)
    BY <1>2, <1>12
  <2>3. PairsFrom(s, z, n) = Read(<< >>, z) \/ PairsFrom(s, z, n).end # "read"
    BY <1>1, <2>1, PairsBehind, WordsApart
  <2>4. CASE PairsFrom(s, z, n).end # "read"
    BY <1>1, <1>11, <2>2, <2>4
  <2>5. CASE PairsFrom(s, z, n) = Read(<< >>, z)
    <3>1. StatsFrom(s, b).next = z
      BY <1>11, <2>5, WhatReadIs
    <3>2. QED
      BY <1>1, <2>1, <2>2, <3>1
  <2>6. QED
    BY <2>3, <2>4, <2>5
<1>13. CASE b + 4 <= L
  <2>1. WordAt(s, x, b + 2) /\ b + 2 <= L
    <3>1. b + 2 <= L /\ b + 1 <= L /\ b + 2 = x + 1
      BY <1>6, <1>13
    <3>2. s[x] = EOL /\ s[b + 2] = Word[h]
      BY <1>1, <1>2, <1>3, <1>6, <3>1 DEF Has
    <3>3. QED
      BY <3>1, <3>2, WordsApart DEF WordAt
  <2>2. x1 = b + 2
    BY <1>1, <1>7, <2>1, WordThere
  <2>3. NumberAt(s, b + 2) = Read(h, b + 3)
    <3>1. IsThere(s, b + 2) /\ (b + 2) + 1 = b + 3
      BY <1>1, <2>1 DEF IsThere
    <3>2. s[b + 2] = Word[h]
      BY <1>1, <1>2, <1>3, <2>1 DEF Has
    <3>3. QED
      BY <3>1, <3>2, WordsApart DEF NumberAt
  <2>4. h1 = h /\ y = b + 3
    <3>1. Again(s, x1, Read(c, x)) = NumberAt(s, x1)
      BY <1>1, <2>1, <2>2, AgainTypes
    <3>2. Read(h1, y) = Read(h, b + 3)
      BY <1>8, <2>2, <2>3, <3>1
    <3>3. QED
      BY <3>2, SameRead
  <2>5. WordAt(s, y, b + 4)
    BY <1>1, <1>2, <1>13, <2>4, WordsApart DEF WordAt, Has
  <2>6. y1 = b + 4
    BY <1>1, <1>9, <1>13, <2>5, WordThere
  <2>7. NumberAt(s, b + 4) = Read(k, b + 5)
    <3>1. IsThere(s, b + 4) /\ (b + 4) + 1 = b + 5
      BY <1>1, <1>13 DEF IsThere
    <3>2. s[b + 4] = Word[k]
      BY <1>1, <1>2, <1>13 DEF Has
    <3>3. QED
      BY <1>2, <3>1, <3>2, WordsApart DEF NumberAt
  <2>8. n = k /\ z = b + 5
    <3>1. Again(s, y1, Read(h1, y)) = NumberAt(s, y1)
      BY <1>1, <1>13, <2>6, AgainTypes
    <3>2. Read(n, z) = Read(k, b + 5)
      BY <1>10, <2>6, <2>7, <3>1
    <3>3. QED
      BY <3>2, SameRead
  <2>9. /\ z + 4 * n - 1 <= Len(s) => PairsFrom(s, z, n) = Read(set, z + 4 * n)
        /\ z + 4 * n - 1 > Len(s) => PairsFrom(s, z, n).end # "read" \/ PairsFrom(s, z, n).next > Len(s)
    <3>1. z <= Len(s) + 1 /\ Has(s, z, EOL) /\ PairsAt(s, z + 1, set, keys, n) /\ Enumerates(keys, n, DOMAIN set) /\ n \in Nat
      <4>1. z + 1 = b + 6
        BY <2>8
      <4>2. QED
        BY <1>1, <1>2, <1>3, <1>13, <2>8, <4>1
    <3>2. QED
      BY <3>1, PairsRead
  <2>10. z + 4 * n = b + 5 + 4 * k /\ z + 4 * n - 1 = b + 4 + 4 * k
    BY <1>2, <2>8
  <2>11. CASE b + 4 + 4 * k <= Len(s)
    <3>1. PairsFrom(s, z, n) = Read(set, b + 5 + 4 * k)
      BY <2>9, <2>10, <2>11
    <3>2. StatsFrom(s, b) = Read(st, b + 5 + 4 * k)
      BY <1>3, <1>11, <2>4, <3>1, WhatReadIs
    <3>3. ~(b + 4 + 4 * k > Len(s))
      BY <1>1, <1>2, <2>11
    <3>4. QED
      BY <3>2, <3>3
  <2>12. CASE b + 4 + 4 * k > Len(s)
    <3>1. PairsFrom(s, z, n).end # "read" \/ PairsFrom(s, z, n).next > Len(s)
      BY <2>9, <2>10, <2>12
    <3>2. ~(b + 4 + 4 * k <= Len(s))
      BY <1>1, <1>2, <2>12
    <3>3. QED
      BY <1>11, <3>1, <3>2, WhatReadIs
  <2>13. QED
    BY <1>1, <1>2, <2>11, <2>12
<1>14. QED
  BY <1>1, <1>12, <1>13

-----------------------------------------------------------------------------
\* Contests that can be written.
QuestionBooks  == UNION { [D -> Questions] : D \in SUBSET QIds }
ContestRecords == [qs : QuestionBooks, run : BOOLEAN, stats : Stats]
ContestSets    == UNION { [D -> ContestRecords] : D \in SUBSET CIds }

LEMMA QuestionBooksAre ==
  ASSUME NEW b \in QuestionBooks
  PROVE  /\ b \in Books /\ b = [i \in DOMAIN b |-> b[i]] /\ DOMAIN b \in SUBSET QIds
         /\ DOMAIN b \in SUBSET (0..MaxNumber) /\ IsFiniteSet(DOMAIN b)
         /\ Cardinality(DOMAIN b) \in 0..MaxNumber /\ Cardinality(DOMAIN b) \in 0..Cardinality(QIds)
         /\ \A i \in DOMAIN b : b[i] \in Questions
<1>1. PICK D \in SUBSET QIds : b \in [D -> Questions]
  BY DEF QuestionBooks
<1>2. b = [i \in DOMAIN b |-> b[i]] /\ DOMAIN b = D /\ \A i \in DOMAIN b : b[i] \in Questions
  BY <1>1
<1>3. QIds \in SUBSET (0..MaxNumber) /\ D \in SUBSET (0..MaxNumber) /\ Cardinality(QIds) <= MaxNumber
  BY NumbersAssumption
<1>4. IsFiniteSet(QIds) /\ Cardinality(QIds) \in Nat /\ IsFiniteSet(D) /\ Cardinality(D) \in Nat
  BY <1>3, KeysExist, WordsApart
<1>5. Cardinality(D) <= Cardinality(QIds)
  BY <1>4, FS_Subset
<1>6. Cardinality(D) \in 0..MaxNumber /\ Cardinality(D) \in 0..Cardinality(QIds)
  BY <1>3, <1>4, <1>5, WordsApart
<1>7. b \in Books
  BY <1>1, <1>3 DEF Books
<1>8. QED
  BY <1>2, <1>3, <1>4, <1>6, <1>7

\* Where a contest is.
ContestAt(s, t, id, c, n, parts, offs, b, k) ==
  /\ n \in 0..MaxNumber /\ Enumerates(Keys(c.qs), n, DOMAIN c.qs) /\ b \in Nat /\ b >= t + 6
  /\ Has(s, t, Word[id]) /\ Has(s, t + 1, EOL) /\ Has(s, t + 2, Word[n]) /\ Has(s, t + 3, EOL)
  /\ Has(s, t + 4, IF c.run THEN "true" ELSE "false") /\ Has(s, t + 5, EOL)
  /\ LaidFrom(s, t + 6, parts, n, offs, b)
  /\ \A i \in 1..n : parts[i] = ContestEntry(Keys(c.qs)[i], c.qs[Keys(c.qs)[i]])
  /\ k \in 0..MaxNumber /\ StatsAt(s, b, c.stats, Keys(c.stats.set), k)

LEMMA ContestTexts ==
  ASSUME NEW id \in 0..MaxNumber, NEW c \in ContestRecords
  PROVE  /\ ContestText(id, c) \in Texts /\ Len(ContestText(id, c)) \in Nat /\ Len(ContestText(id, c)) >= 12
         /\ \A s \in Texts, t \in Nat \ {0} : TextAt(s, t, ContestText(id, c)) =>
              \E n, parts, offs, b, k : /\ ContestAt(s, t, id, c, n, parts, offs, b, k)
                                        /\ t + Len(ContestText(id, c)) = b + 6 + 4 * k
<1>1. PICK qs \in QuestionBooks, st \in Stats : qs = c.qs /\ st = c.stats
  BY DEF ContestRecords
<1>2. PICK n \in 0..MaxNumber : n = Cardinality(DOMAIN qs) /\ n \in Nat
  BY QuestionBooksAre, WordsApart
<1>3. PICK keys : keys = Keys(qs) /\ Enumerates(keys, n, DOMAIN qs) /\ DOMAIN keys = 1..n
  BY <1>2, QuestionBooksAre, KeysAre
<1>4. \A i \in 1..n : qs[keys[i]] \in Questions /\ keys[i] \in 0..MaxNumber
  <2>1. \A i \in 1..n : keys[i] \in DOMAIN qs
    BY <1>3 DEF Enumerates
  <2>2. QED
    BY <2>1, QuestionBooksAre
<1>5. PICK parts : /\ parts = [i \in 1..n |-> ContestEntry(keys[i], qs[keys[i]])]
                   /\ parts \in Seq(Texts) /\ Len(parts) = n
  <2>1. \A i \in 1..n : ContestEntry(keys[i], qs[keys[i]]) \in Texts
    BY <1>4, EntryTexts
  <2>2. PICK parts : parts = [i \in 1..n |-> ContestEntry(keys[i], qs[keys[i]])]
    OBVIOUS
  <2>3. parts \in [1..n -> Texts]
    BY <2>1, <2>2
  <2>4. QED
    BY <1>2, <2>2, <2>3, PartsAre
<1>6. PICK a \in Tokens, m \in Tokens, r \in Tokens :
        a = Word[id] /\ m = Word[n] /\ r = IF c.run THEN "true" ELSE "false"
  BY WordsApart DEF Tokens
<1>7. PICK head : /\ head = <<a, EOL, m, EOL, r, EOL>> /\ head \in Texts /\ Len(head) = 6
                  /\ \A s \in Texts, p \in Nat \ {0} : TextAt(s, p, head) =>
                       /\ Has(s, p, a) /\ Has(s, p + 1, EOL) /\ Has(s, p + 2, m)
                       /\ Has(s, p + 3, EOL) /\ Has(s, p + 4, r) /\ Has(s, p + 5, EOL)
  <2>1. EOL \in Tokens
    BY TokenTypes
  <2>2. PICK head : head = <<a, EOL, m, EOL, r, EOL>>
    OBVIOUS
  <2>3. QED
    BY <2>1, <2>2, SixWords
<1>8. PICK flat : flat = FlattenSeq(parts) /\ flat \in Texts /\ Len(flat) \in Nat
  <2>1. PICK s \in Texts, p \in Nat \ {0} : s = << >> /\ p = 1
    BY EmptyBook
  <2>2. TextAt(s, p, FlattenSeq(parts))
    BY <2>1, EmptyText
  <2>3. FlattenSeq(parts) \in Texts
    BY <1>2, <1>5, <2>2, AtFlattened
  <2>4. Len(FlattenSeq(parts)) \in Nat
    BY <2>3 DEF Texts
  <2>5. QED
    BY <2>3, <2>4
<1>9. PICK k \in 0..MaxNumber, tail \in Texts :
        /\ k = Cardinality(DOMAIN st.set) /\ tail = StatsText(st) /\ Len(tail) = 6 + 4 * k /\ k \in Nat
        /\ \A s \in Texts, b \in Nat \ {0} : TextAt(s, b, tail) => StatsAt(s, b, st, Keys(st.set), k)
  BY StatsTexts, WordsApart
<1>10. ContestText(id, c) = head \o flat \o tail
  BY <1>1, <1>2, <1>3, <1>5, <1>6, <1>7, <1>8, <1>9 DEF ContestText, ForAll, ContestEntry
<1>11. PICK front : front = head \o flat /\ front \in Texts /\ Len(front) = 6 + Len(flat)
  <2>1. head \in Texts /\ flat \in Texts /\ Len(head) = 6
    BY <1>7, <1>8
  <2>2. head \o flat \in Texts /\ Len(head \o flat) = Len(head) + Len(flat)
    BY ONLY <2>1, Joined
  <2>3. QED
    BY <2>1, <2>2
<1>12. /\ ContestText(id, c) = front \o tail /\ ContestText(id, c) \in Texts
       /\ Len(ContestText(id, c)) = 6 + Len(flat) + 6 + 4 * k
  <2>1. front \o tail \in Texts /\ Len(front \o tail) = Len(front) + Len(tail)
    BY <1>11, Joined
  <2>2. Len(tail) = 6 + 4 * k /\ k \in Nat /\ Len(flat) \in Nat /\ Len(front) = 6 + Len(flat)
    BY <1>8, <1>9, <1>11
  <2>3. Len(front \o tail) = 6 + Len(flat) + 6 + 4 * k
    BY ONLY <2>1, <2>2
  <2>4. ContestText(id, c) = front \o tail
    BY <1>10, <1>11
  <2>5. QED
    BY <2>1, <2>3, <2>4
<1>13. ASSUME NEW s \in Texts, NEW t \in Nat \ {0}, TextAt(s, t, ContestText(id, c))
       PROVE  \E n1, parts1, offs1, b1, k1 : /\ ContestAt(s, t, id, c, n1, parts1, offs1, b1, k1)
                                             /\ t + Len(ContestText(id, c)) = b1 + 6 + 4 * k1
  <2>1. PICK q \in Nat \ {0}, b \in Nat \ {0} : q = t + 6 /\ b = q + Len(flat) /\ b = t + Len(front) /\ b >= t + 6
    <3>1. t + 6 \in Nat \ {0} /\ (t + 6) + Len(flat) \in Nat \ {0} /\ (t + 6) + Len(flat) = t + (6 + Len(flat))
          /\ (t + 6) + Len(flat) >= t + 6
      BY <1>8
    <3>2. QED
      BY <1>11, <3>1
  <2>2. TextAt(s, t, front) /\ TextAt(s, b, tail)
    <3>1. s \in Texts /\ t \in Nat /\ front \in Texts /\ tail \in Texts /\ TextAt(s, t, front \o tail)
      BY <1>11, <1>12, <1>13
    <3>2. TextAt(s, t, front) /\ TextAt(s, t + Len(front), tail)
      BY ONLY <3>1, AtJoined
    <3>3. QED
      BY <2>1, <3>2
  <2>3. TextAt(s, t, head) /\ TextAt(s, q, flat)
    <3>1. s \in Texts /\ t \in Nat /\ head \in Texts /\ flat \in Texts /\ TextAt(s, t, head \o flat)
      BY <1>7, <1>8, <1>11, <2>2
    <3>2. TextAt(s, t, head) /\ TextAt(s, t + Len(head), flat)
      BY ONLY <3>1, AtJoined
    <3>3. QED
      BY <1>7, <2>1, <3>2
  <2>4. PICK offs : LaidFrom(s, q, parts, n, offs, b)
    <3>1. s \in Texts /\ q \in Nat /\ n \in Nat /\ parts \in Seq(Texts) /\ Len(parts) = n /\ TextAt(s, q, FlattenSeq(parts))
      BY <1>2, <1>5, <1>8, <2>3
    <3>2. \E offs : LaidFrom(s, q, parts, n, offs, q + Len(FlattenSeq(parts)))
      BY ONLY <3>1, AtFlattened
    <3>3. QED
      BY <1>8, <2>1, <3>2
  <2>5. StatsAt(s, b, st, Keys(st.set), k)
    BY <1>9, <2>2
  <2>6. /\ Has(s, t, a) /\ Has(s, t + 1, EOL) /\ Has(s, t + 2, m)
        /\ Has(s, t + 3, EOL) /\ Has(s, t + 4, r) /\ Has(s, t + 5, EOL)
    BY <1>7, <2>3
  <2>7. \A i \in 1..n : parts[i] = ContestEntry(keys[i], qs[keys[i]])
    BY <1>5
  <2>8. ContestAt(s, t, id, c, n, parts, offs, b, k)
    BY <1>1, <1>3, <1>6, <2>1, <2>4, <2>5, <2>6, <2>7 DEF ContestAt
  <2>9. t + Len(ContestText(id, c)) = b + 6 + 4 * k
    <3>1. PICK u \in Nat, e \in Nat : u = Len(flat) /\ e = 4 * k
      BY <1>8, <1>9
    <3>2. t + (6 + u + 6 + e) = ((t + 6) + u) + 6 + e
      OBVIOUS
    <3>3. Len(ContestText(id, c)) = 6 + u + 6 + e /\ b = (t + 6) + u
      BY <1>12, <2>1, <3>1
    <3>4. QED
      BY <3>1, <3>2, <3>3
  <2>10. QED
    BY <2>8, <2>9
<1>14. Len(ContestText(id, c)) \in Nat /\ Len(ContestText(id, c)) >= 12
  BY <1>8, <1>9, <1>12
<1>15. QED
  BY <1>12, <1>13, <1>14

-----------------------------------------------------------------------------
\* What one load makes of a contest, whatever its statistics.
WornWith(c, st) == [qs |-> WornBook(c.qs), run |-> c.run, stats |-> st]

LEMMA ContestUnfold ==
  ASSUME NEW s, NEW v, NEW p, NEW id, NEW x, NumberFrom(s, p) = Read(id, x),
         NEW n, NEW y, NumberFrom(s, x) = Read(n, y), NEW w \in Nat \ {0}, w = NextWord(s, y),
         NEW u, u = w + 1, NEW q, q = ContestQuestionsFrom(s, u, n),
         NEW st, st = StatsFrom(s, NextWord(s, q.next)), NEW after, after = OneContest(s, Read(v, p))
  PROVE  /\ q.end # "read" => after = q
         /\ q.end = "read" /\ st.end # "read" => after = st
         /\ q.end = "read" /\ st.end = "read" =>
              after = Read(Emplaced(v, id, [qs |-> q.value, run |-> RunAt(s, w).value, stats |-> st.value]), st.next)
<1>1. PICK b : b = Read(v, p) /\ b.value = v /\ b.next = p
  BY WhatReadIs
<1>2. PICK r : r = Read(id, x) /\ r.end = "read" /\ r.value = id /\ r.next = x
  BY WhatReadIs
<1>3. PICK c : c = Read(n, y) /\ c.end = "read" /\ c.value = n /\ c.next = y
  BY WhatReadIs
<1>4. PICK d : d = RunAt(s, w) /\ d.end = "read" /\ d.next = w + 1
  <2>1. \E mark : RunAt(s, w) = Read(mark, w + 1)
    BY Zenon DEF RunAt
  <2>2. QED
    BY <2>1, WhatReadIs
<1>5. /\ NumberFrom(s, b.next) = r /\ NumberFrom(s, r.next) = c /\ RunAt(s, NextWord(s, c.next)) = d
      /\ ContestQuestionsFrom(s, d.next, c.value) = q
  BY <1>1, <1>2, <1>3, <1>4
<1>6. q.end # "read" => OneContest(s, b) = q
  BY <1>2, <1>3, <1>4, <1>5 DEF OneContest, Then
<1>7. q.end = "read" => /\ st.end # "read" => OneContest(s, b) = st
                        /\ st.end = "read" =>
                             OneContest(s, b) =
                               Read(Emplaced(v, id, [qs |-> q.value, run |-> RunAt(s, w).value, stats |-> st.value]), st.next)
  <2> SUFFICES ASSUME q.end = "read"
               PROVE  /\ st.end # "read" => OneContest(s, b) = st
                      /\ st.end = "read" =>
                           OneContest(s, b) =
                             Read(Emplaced(v, id, [qs |-> q.value, run |-> RunAt(s, w).value, stats |-> st.value]), st.next)
    OBVIOUS
  <2> QED
    BY <1>1, <1>2, <1>3, <1>4, <1>5 DEF OneContest, Then
<1>8. QED
  BY <1>1, <1>6, <1>7

\* A contest whose mark of having been run is missing is not read.
LEMMA ContestCutEarly ==
  ASSUME NEW s \in Texts, NEW v, NEW p, NEW id, NEW x, NumberFrom(s, p) = Read(id, x),
         NEW n \in 0..MaxNumber, NEW y, NumberFrom(s, x) = Read(n, y),
         NEW w \in Nat \ {0}, w = NextWord(s, y), w > Len(s)
  PROVE  OneContest(s, Read(v, p)).end # "read"
<1>1. PICK u \in Nat \ {0} : u = w + 1 /\ u > Len(s)
  BY DEF Texts
<1>2. PICK q : q = ContestQuestionsFrom(s, u, n)
  OBVIOUS
<1>3. n \in Nat
  BY WordsApart
<1>4. q.end # "read" \/ (q.next \in Nat \ {0} /\ q.next > Len(s))
  BY <1>1, <1>2, <1>3, QuestionsBehind
<1>5. CASE q.end # "read"
  <2>1. /\ NumberFrom(s, p) = Read(id, x) /\ NumberFrom(s, x) = Read(n, y) /\ w = NextWord(s, y)
        /\ w \in Nat \ {0} /\ u = w + 1
    BY <1>1
  <2>2. PICK st, after : st = StatsFrom(s, NextWord(s, q.next)) /\ after = OneContest(s, Read(v, p))
    OBVIOUS
  <2>3. /\ q.end # "read" => after = q
        /\ q.end = "read" /\ st.end # "read" => after = st
        /\ q.end = "read" /\ st.end = "read" =>
             after = Read(Emplaced(v, id, [qs |-> q.value, run |-> RunAt(s, w).value, stats |-> st.value]), st.next)
    BY ONLY <1>2, <2>1, <2>2, ContestUnfold
  <2>4. QED
    BY <1>5, <2>2, <2>3
<1>6. CASE q.end = "read"
  <2>1. NextWord(s, q.next) \in Nat \ {0} /\ NextWord(s, q.next) > Len(s)
    <3>1. NextWord(s, q.next) = q.next
      BY <1>4, <1>6, NextWordFound
    <3>2. QED
      BY <1>4, <1>6, <3>1
  <2>2. StatsFrom(s, NextWord(s, q.next)) = Threw
    BY <2>1, StatsTypes
  <2>3. OneContest(s, Read(v, p)) = Threw
    <3>1. /\ NumberFrom(s, p) = Read(id, x) /\ NumberFrom(s, x) = Read(n, y) /\ w = NextWord(s, y)
          /\ w \in Nat \ {0} /\ u = w + 1
      BY <1>1
    <3>2. PICK st, after : st = StatsFrom(s, NextWord(s, q.next)) /\ after = OneContest(s, Read(v, p))
      OBVIOUS
    <3>3. st.end # "read"
      BY <2>2, <3>2, WhatEnds
    <3>4. /\ q.end # "read" => after = q
          /\ q.end = "read" /\ st.end # "read" => after = st
          /\ q.end = "read" /\ st.end = "read" =>
               after = Read(Emplaced(v, id, [qs |-> q.value, run |-> RunAt(s, w).value, stats |-> st.value]), st.next)
      BY ONLY <1>2, <3>1, <3>2, ContestUnfold
    <3>5. QED
      BY <1>6, <2>2, <3>2, <3>3, <3>4
  <2>4. QED
    BY <2>3, WhatEnds
<1>7. QED
  BY <1>5, <1>6

\* Behind the end there is no contest.
LEMMA NoContest ==
  ASSUME NEW s \in Texts, NEW v, NEW p \in Nat \ {0}, p > Len(s)
  PROVE  OneContest(s, Read(v, p)).end # "read"
<1>1. PICK x \in Nat \ {0} : x = Len(s) + 1 /\ x > Len(s)
  BY DEF Texts
<1>2. NumberFrom(s, p) = Read(0, x) /\ NumberFrom(s, x) = Read(0, x)
  BY <1>1, NumberTypes
<1>3. NextWord(s, x) = x
  BY <1>1, NextWordFound
<1>4. 0 \in 0..MaxNumber
  BY WordsApart
<1>5. QED
  BY <1>1, <1>2, <1>3, <1>4, ContestCutEarly

\* The last word of a contest is the end of a line.
LEMMA ContestEnds ==
  ASSUME NEW s, NEW t, NEW id, NEW c, NEW n, NEW parts, NEW offs, NEW b, NEW k,
         ContestAt(s, t, id, c, n, parts, offs, b, k)
  PROVE  b \in Nat /\ k \in Nat /\ Has(s, b + 5 + 4 * k, EOL)
<1>1. b \in Nat /\ k \in 0..MaxNumber /\ k \in Nat /\ StatsAt(s, b, c.stats, Keys(c.stats.set), k)
  BY WordsApart DEF ContestAt
<1>2. Has(s, b + 5, EOL) /\ PairsAt(s, b + 6, c.stats.set, Keys(c.stats.set), k)
  BY <1>1 DEF StatsAt
<1>3. CASE k = 0
  <2>1. b + 5 + 4 * k = b + 5
    BY <1>1, <1>3
  <2>2. QED
    BY <1>1, <1>2, <2>1
<1>4. CASE k # 0
  <2>1. k \in 1..k /\ (b + 6) + 4 * k - 1 = b + 5 + 4 * k
    BY <1>1, <1>4
  <2>2. Has(s, (b + 6) + 4 * k - 1, EOL)
    BY <1>2, <2>1 DEF PairsAt
  <2>3. QED
    BY <1>1, <2>1, <2>2
<1>5. QED
  BY <1>3, <1>4

\* What reading a contest comes to.
DotsFor(c) == \E i \in DOMAIN c.qs : c.qs[i].tags = <<Dot>>
Makes(s, r, v, id, c, u) ==
  /\ u - 2 <= Len(s) /\ ~DotsFor(c) => r = Read(Emplaced(v, id, WornWith(c, c.stats)), u - 1)
  /\ u - 2 <= Len(s) /\ DotsFor(c) => r = Threw
  /\ u - 2 > Len(s) /\ r.end = "read" =>
       ~DotsFor(c) /\ \E st \in Stats, y \in Nat \ {0} : y > Len(s) /\ r = Read(Emplaced(v, id, WornWith(c, st)), y)

\* A contest is read as it was written, with its questions worn, when its last word
\* is there; one that is cut ends reading, or misses statistics only and nothing is
\* left behind it.
LEMMA OneContestRead ==
  ASSUME NEW s \in Texts, NEW p \in Nat \ {0}, Has(s, p, EOL), NEW id \in 0..MaxNumber,
         NEW c \in ContestRecords, NEW n, NEW parts, NEW offs, NEW b, NEW k,
         NEW t \in Nat, t = p + 1, ContestAt(s, t, id, c, n, parts, offs, b, k), NEW v, NEW end, end = b + 6 + 4 * k
  PROVE  Makes(s, OneContest(s, Read(v, p)), v, id, c, end)
<1>0. SUFFICES
        /\ b + 4 + 4 * k <= Len(s) /\ (\A i \in DOMAIN c.qs : c.qs[i].tags # <<Dot>>) =>
             OneContest(s, Read(v, p)) = Read(Emplaced(v, id, WornWith(c, c.stats)), b + 5 + 4 * k)
        /\ b + 4 + 4 * k <= Len(s) /\ (\E i \in DOMAIN c.qs : c.qs[i].tags = <<Dot>>) =>
             OneContest(s, Read(v, p)) = Threw
        /\ b + 4 + 4 * k > Len(s) /\ OneContest(s, Read(v, p)).end = "read" =>
             /\ \A i \in DOMAIN c.qs : c.qs[i].tags # <<Dot>>
             /\ \E st \in Stats, y \in Nat \ {0} :
                  y > Len(s) /\ OneContest(s, Read(v, p)) = Read(Emplaced(v, id, WornWith(c, st)), y)
  <2>1. b \in Nat /\ k \in Nat
    BY ContestEnds
  <2>2. end - 2 = b + 4 + 4 * k /\ end - 1 = b + 5 + 4 * k
    BY <2>1
  <2>3. QED
    BY <2>2 DEF Makes, DotsFor
<1>1. PICK L \in Nat : L = Len(s)
  BY DEF Texts
<1>2. PICK qs \in QuestionBooks, stats \in Stats : qs = c.qs /\ stats = c.stats /\ c.run \in BOOLEAN
  BY DEF ContestRecords
<1>3. t \in Nat \ {0}
  OBVIOUS
<1>4. /\ n \in 0..MaxNumber /\ n \in Nat /\ Enumerates(Keys(qs), n, DOMAIN qs) /\ b \in Nat /\ b >= t + 6
      /\ Has(s, t, Word[id]) /\ Has(s, t + 1, EOL) /\ Has(s, t + 2, Word[n]) /\ Has(s, t + 3, EOL)
      /\ Has(s, t + 4, IF c.run THEN "true" ELSE "false") /\ Has(s, t + 5, EOL)
      /\ LaidFrom(s, t + 6, parts, n, offs, b)
      /\ \A i \in 1..n : parts[i] = ContestEntry(Keys(qs)[i], qs[Keys(qs)[i]])
      /\ k \in 0..MaxNumber /\ k \in Nat /\ StatsAt(s, b, stats, Keys(stats.set), k)
  BY <1>2, <1>3, WordsApart DEF ContestAt
<1>4a. PICK z \in Nat : z = b + 4 + 4 * k /\ b <= z /\ b + 5 + 4 * k = z + 1
  BY <1>4
<1>4b. (z <= L \/ z > L) /\ ~(z <= L /\ z > L) /\ (b <= L \/ b > L) /\ (b > L => z > L)
  BY <1>4, <1>4a
<1>5. CASE t + 4 > L
  <2>1. OneContest(s, Read(v, p)).end # "read"
    <3>1. PICK d \in 0..MaxNumber, x \in Nat \ {0} : NumberFrom(s, p) = Read(d, x) /\ (x > L \/ x = t + 1)
      <4>1. WordAt(s, p, t)
        BY <1>1, <1>3, <1>4, WordsApart DEF WordAt, Has
      <4>2. t <= Len(s) => s[t] = Word[id]
        BY <1>4 DEF Has
      <4>3. NumberFrom(s, p) = Read(id, t + 1) \/ NumberFrom(s, p) = Read(0, L + 1)
        BY <1>1, <4>1, <4>2, NumberThere
      <4>4. 0 \in 0..MaxNumber /\ L + 1 \in Nat \ {0} /\ L + 1 > L /\ t + 1 \in Nat \ {0}
        BY WordsApart
      <4>5. QED
        BY <4>3, <4>4
    <3>2. PICK m \in 0..MaxNumber, y \in Nat \ {0} : NumberFrom(s, x) = Read(m, y) /\ (y > L \/ y = t + 3)
      <4>1. 0 \in 0..MaxNumber /\ L + 1 \in Nat \ {0} /\ L + 1 > L /\ t + 3 \in Nat \ {0}
        BY WordsApart
      <4>2. CASE x > L
        <5>1. NumberFrom(s, x) = Read(0, L + 1)
          BY <1>1, <4>2, NumberTypes
        <5>2. QED
          BY <4>1, <5>1
      <4>3. CASE x = t + 1
        <5>1. t + 2 = x + 1 /\ t + 2 \in Nat /\ (t + 2) + 1 = t + 3
          BY <4>3
        <5>2. t + 2 <= Len(s) => s[t + 2] = Word[n]
          BY <1>4 DEF Has
        <5>3. x <= Len(s) => s[x] = EOL
          BY <1>4, <4>3 DEF Has
        <5>4. WordAt(s, x, t + 2)
          BY <1>4, <5>1, <5>2, <5>3, WordsApart DEF WordAt
        <5>5. NumberFrom(s, x) = Read(n, t + 3) \/ NumberFrom(s, x) = Read(0, L + 1)
          BY <1>1, <1>4, <5>1, <5>2, <5>4, NumberThere
        <5>6. QED
          BY <1>4, <4>1, <5>5
      <4>4. QED
        BY <3>1, <4>2, <4>3
    <3>3. PICK w \in Nat \ {0} : w = NextWord(s, y)
      BY NextWordTypes
    <3>4. w > Len(s)
      <4>1. CASE y > L
        BY <1>1, <3>3, <4>1, NextWordFound
      <4>2. CASE y = t + 3
        <5>1. y <= Len(s) => s[y] = EOL
          BY <1>4, <4>2 DEF Has
        <5>2. t + 4 = y + 1 /\ ~(t + 4 <= Len(s)) /\ t + 4 > Len(s)
          BY <1>1, <1>5, <4>2
        <5>3. WordAt(s, y, t + 4)
          BY <5>1, <5>2 DEF WordAt
        <5>4. QED
          BY <3>3, <5>2, <5>3, WordThere
      <4>3. QED
        BY <3>2, <4>1, <4>2
    <3>5. QED
      BY <3>1, <3>2, <3>3, <3>4, ContestCutEarly
  <2>2. ~(b + 4 + 4 * k <= Len(s))
    BY <1>1, <1>4, <1>5
  <2>3. QED
    BY <2>1, <2>2
<1>6. CASE t + 4 <= L
  <2>1. NumberFrom(s, p) = Read(id, t + 1)
    <3>1. t <= Len(s)
      BY <1>1, <1>6
    <3>2. s[t] = Word[id]
      BY <1>4, <3>1 DEF Has
    <3>3. WordAt(s, p, t)
      BY <1>1, <1>3, <3>2, WordsApart DEF WordAt, Has
    <3>4. QED
      BY <3>1, <3>2, <3>3, NumberThere
  <2>2. PICK x \in Nat \ {0} : x = t + 1 /\ t + 2 = x + 1
    OBVIOUS
  <2>3. NumberFrom(s, x) = Read(n, t + 3)
    <3>1. t + 2 <= Len(s) /\ x <= Len(s) /\ (t + 2) + 1 = t + 3
      BY <1>1, <1>6, <2>2
    <3>2. s[t + 2] = Word[n] /\ s[x] = EOL
      BY <1>4, <2>2, <3>1 DEF Has
    <3>3. WordAt(s, x, t + 2)
      BY <1>4, <2>2, <3>2, WordsApart DEF WordAt
    <3>4. QED
      <4>1. s \in Texts /\ x \in Nat \ {0} /\ t + 2 \in Nat /\ n \in 0..MaxNumber
        BY <1>4
      <4>2. QED
        BY <3>1, <3>2, <3>3, <4>1, NumberThere
  <2>4. PICK y \in Nat \ {0} : y = t + 3 /\ t + 4 = y + 1
    OBVIOUS
  <2>5. PICK w \in Nat \ {0} : w = t + 4 /\ w = NextWord(s, y) /\ s[w] = IF c.run THEN "true" ELSE "false"
    <3>1. t + 4 <= Len(s) /\ y <= Len(s) /\ t + 4 \in Nat \ {0}
      BY <1>1, <1>6, <2>4
    <3>2. s[t + 4] = (IF c.run THEN "true" ELSE "false") /\ s[y] = EOL
      BY <1>4, <2>4, <3>1 DEF Has
    <3>3. s[t + 4] # EOL /\ s[t + 4] # Sp
      BY <3>2 DEF EOL, Sp
    <3>4. WordAt(s, y, t + 4)
      BY <2>4, <3>2, <3>3 DEF WordAt
    <3>5. QED
      BY <3>1, <3>2, <3>4, WordThere
  <2>6. RunAt(s, w).value = c.run
    <3>1. IsThere(s, w)
      BY <1>1, <1>6, <2>5 DEF IsThere
    <3>2. CASE c.run
      <4>1. s[w] = "true" /\ c.run = TRUE
        BY <1>2, <2>5, <3>2
      <4>2. (IsThere(s, w) /\ s[w] = "true") = TRUE
        BY <3>1, <4>1
      <4>3. RunAt(s, w) = Read(TRUE, w + 1)
        BY <4>2 DEF RunAt
      <4>4. QED
        BY <4>1, <4>3, WhatReadIs
    <3>3. CASE ~c.run
      <4>1. s[w] # "true" /\ c.run = FALSE
        BY <1>2, <2>5, <3>3
      <4>2. (IsThere(s, w) /\ s[w] = "true") = FALSE
        BY <4>1
      <4>3. RunAt(s, w) = Read(FALSE, w + 1)
        BY <4>2 DEF RunAt
      <4>4. QED
        BY <4>1, <4>3, WhatReadIs
    <3>4. QED
      BY <3>2, <3>3
  <2>7. PICK u, q : u \in Nat \ {0} /\ u = w + 1 /\ u = t + 5 /\ q = ContestQuestionsFrom(s, u, n)
    BY <2>5
  <2>8. /\ q.end # "read" => OneContest(s, Read(v, p)) = q
        /\ \A st : q.end = "read" /\ st = StatsFrom(s, NextWord(s, q.next)) =>
             /\ st.end # "read" => OneContest(s, Read(v, p)) = st
             /\ st.end = "read" =>
                  OneContest(s, Read(v, p)) =
                    Read(Emplaced(v, id, [qs |-> q.value, run |-> c.run, stats |-> st.value]), st.next)
    <3>1. /\ NumberFrom(s, p) = Read(id, x) /\ NumberFrom(s, x) = Read(n, y)
          /\ u = w + 1 /\ q = ContestQuestionsFrom(s, u, n)
      BY <2>1, <2>2, <2>3, <2>4, <2>7
    <3>2. PICK st, after : st = StatsFrom(s, NextWord(s, q.next)) /\ after = OneContest(s, Read(v, p))
      OBVIOUS
    <3>3. /\ q.end # "read" => after = q
          /\ q.end = "read" /\ st.end # "read" => after = st
          /\ q.end = "read" /\ st.end = "read" =>
               after = Read(Emplaced(v, id, [qs |-> q.value, run |-> RunAt(s, w).value, stats |-> st.value]), st.next)
      BY ONLY <2>5, <3>1, <3>2, ContestUnfold
    <3>4. QED
      BY <2>6, <3>2, <3>3
  <2>9. /\ n = 0 => q = Read(WornBook(qs), u) /\ b = u + 1
        /\ n # 0 /\ b - 2 <= Len(s) /\ (\A i \in DOMAIN qs : qs[i].tags # <<Dot>>) => q = Read(WornBook(qs), b)
        /\ n # 0 /\ b - 2 <= Len(s) /\ (\E i \in DOMAIN qs : qs[i].tags = <<Dot>>) => q = Threw
        /\ n # 0 /\ b - 2 > Len(s) => q.end # "read"
    <3>1. t + 6 = u + 1 /\ (u <= Len(s) => s[u] = EOL)
      BY <1>4, <2>7 DEF Has
    <3>1a. PICK a \in Nat : a = u + 1 /\ u \in Nat \ {0}
      BY <2>7
    <3>2. qs \in Books
      BY QuestionBooksAre
    <3>3. /\ s \in Texts /\ n \in Nat /\ Enumerates(Keys(qs), n, DOMAIN qs) /\ u \in Nat \ {0} /\ b \in Nat
          /\ LaidFrom(s, a, parts, n, offs, b) /\ a \in Nat /\ a = u + 1
          /\ \A i \in 1..n : parts[i] = ContestEntry(Keys(qs)[i], qs[Keys(qs)[i]])
      BY <1>4, <3>1, <3>1a
    <3>4. PICK keys : keys = Keys(qs)
      OBVIOUS
    <3>5. /\ n = 0 => ContestQuestionsFrom(s, u, n) = Read(WornBook(qs), u) /\ b = u + 1
          /\ n # 0 /\ b - 2 <= Len(s) /\ (\A i \in DOMAIN qs : qs[i].tags # <<Dot>>) =>
               ContestQuestionsFrom(s, u, n) = Read(WornBook(qs), b)
          /\ n # 0 /\ b - 2 <= Len(s) /\ (\E i \in DOMAIN qs : qs[i].tags = <<Dot>>) =>
               ContestQuestionsFrom(s, u, n) = Threw
          /\ n # 0 /\ b - 2 > Len(s) => ContestQuestionsFrom(s, u, n).end # "read"
      <4>1. EntriesAt(s, u, qs, keys, n, parts, offs, b)
        BY <1>4, <3>1, <3>1a, <3>2, <3>3, <3>4 DEF EntriesAt
      <4>2. QED
        BY ONLY <4>1, QuestionsRead
    <3>6. QED
      BY <2>7, <3>5
  <2>10. n = 0 => \A i \in DOMAIN qs : FALSE
    <3>1. \A d \in DOMAIN qs : \E i \in 1..n : Keys(qs)[i] = d
      BY <1>4 DEF Enumerates
    <3>2. QED
      BY <3>1
  <2>11. CASE \E i \in DOMAIN qs : qs[i].tags = <<Dot>>
    <3>1. n # 0
      BY <2>10, <2>11
    <3>2. b - 2 > Len(s) => q.end # "read"
      BY <2>9, <3>1
    <3>3. b - 2 <= Len(s) => q = Threw
      BY <2>9, <2>11, <3>1
    <3>4. OneContest(s, Read(v, p)) = q /\ q.end # "read"
      <4>1. b - 2 <= Len(s) \/ b - 2 > Len(s)
        BY <1>1, <1>4
      <4>2. QED
        BY <2>8, <3>2, <3>3, <4>1, WhatEnds
    <3>5. b + 4 + 4 * k <= Len(s) => b - 2 <= Len(s)
      BY <1>1, <1>4
    <3>6. QED
      BY <1>2, <2>11, <3>3, <3>4, <3>5
  <2>12. CASE \A i \in DOMAIN qs : qs[i].tags # <<Dot>>
    <3>0. b \in Nat \ {0}
      BY <1>4
    <3>1. CASE q.end # "read"
      <4>1. n # 0 /\ b - 2 > Len(s)
        <5>1. b - 2 <= Len(s) \/ b - 2 > Len(s)
          BY <1>1, <1>4
        <5>2. QED
          BY <2>9, <2>12, <3>1, <5>1, WhatReadIs
      <4>2. ~(b + 4 + 4 * k <= Len(s))
        BY <1>1, <1>4, <4>1
      <4>3. QED
        BY <2>8, <3>1, <4>2
    <3>2. CASE q.end = "read"
      <4>1. PICK e \in Nat \ {0} : q = Read(WornBook(qs), e) /\ (e = b \/ b = e + 1) /\ (b = e + 1 => e = t + 5)
        <5>1. n = 0 \/ b - 2 <= Len(s)
          <6>1. b - 2 <= Len(s) \/ b - 2 > Len(s)
            BY <1>1, <1>4
          <6>2. QED
            BY <2>9, <3>2, <6>1
        <5>2. CASE n = 0
          BY <2>7, <2>9, <5>2
        <5>3. CASE n # 0
          <6>1. q = Read(WornBook(qs), b) /\ b # b + 1
            BY <2>9, <2>12, <3>0, <5>1, <5>3
          <6>2. QED
            BY <3>0, <6>1
        <5>4. QED
          BY <5>2, <5>3
      <4>2. WordAt(s, e, b)
        <5>1. b <= Len(s) => s[b] # EOL /\ s[b] # Sp
          <6>1. Has(s, b, Word[stats.contestants]) /\ stats.contestants \in 0..MaxNumber
            BY <1>4 DEF StatsAt, Stats
          <6>2. QED
            BY <6>1, WordsApart DEF Has
        <5>2. b = e + 1 /\ e <= Len(s) => s[e] \in {EOL, Sp}
          BY <1>4, <4>1 DEF Has
        <5>3. QED
          BY <4>1, <5>1, <5>2 DEF WordAt
      <4>3. PICK st : st = StatsFrom(s, NextWord(s, e))
        OBVIOUS
      <4>4. /\ st.end # "read" => OneContest(s, Read(v, p)) = st
            /\ st.end = "read" =>
                 OneContest(s, Read(v, p)) =
                   Read(Emplaced(v, id, [qs |-> WornBook(qs), run |-> c.run, stats |-> st.value]), st.next)
        <5>1. q.value = WornBook(qs) /\ q.next = e
          BY <4>1, WhatReadIs
        <5>2. QED
          BY <2>8, <3>2, <4>3, <5>1
      <4>5. CASE b > Len(s)
        <5>1. NextWord(s, e) \in Nat \ {0} /\ NextWord(s, e) > Len(s)
          BY <4>2, <4>5, WordThere
        <5>2. st = Threw
          BY <4>3, <5>1, StatsTypes
        <5>3. ~(b + 4 + 4 * k <= Len(s))
          BY <1>1, <1>4a, <1>4b, <4>5
        <5>4. QED
          BY <4>4, <5>2, <5>3, WhatEnds
      <4>6. CASE b <= Len(s)
        <5>1. NextWord(s, e) = b
          BY <4>2, <4>6, WordThere
        <5>2. /\ b + 4 + 4 * k <= Len(s) => st = Read(stats, b + 5 + 4 * k)
              /\ b + 4 + 4 * k > Len(s) => st.end # "read" \/ st.next > Len(s)
          <6>1. /\ s \in Texts /\ b \in Nat \ {0} /\ b <= Len(s) /\ stats \in Stats
                /\ StatsAt(s, b, stats, Keys(stats.set), k)
            BY <1>4, <3>0, <4>6
          <6>2. PICK keys : keys = Keys(stats.set)
            OBVIOUS
          <6>3. /\ b + 4 + 4 * k <= Len(s) => StatsFrom(s, b) = Read(stats, b + 5 + 4 * k)
                /\ b + 4 + 4 * k > Len(s) => StatsFrom(s, b).end # "read" \/ StatsFrom(s, b).next > Len(s)
            BY ONLY <6>1, <6>2, StatsRead
          <6>4. QED
            BY <4>3, <5>1, <6>3
        <5>3. CASE b + 4 + 4 * k <= Len(s)
          <6>1. ~(b + 4 + 4 * k > Len(s))
            BY <1>1, <1>4a, <1>4b, <5>3
          <6>2. OneContest(s, Read(v, p)) = Read(Emplaced(v, id, WornWith(c, c.stats)), b + 5 + 4 * k)
            BY <1>2, <4>4, <5>2, <5>3, WhatReadIs DEF WornWith
          <6>3. QED
            BY <1>2, <2>12, <6>1, <6>2
        <5>4. CASE b + 4 + 4 * k > Len(s)
          <6>1. ~(b + 4 + 4 * k <= Len(s))
            BY <1>1, <1>4a, <1>4b, <5>4
          <6>2. CASE st.end # "read"
            BY <4>4, <6>1, <6>2
          <6>3. CASE st.end = "read"
            <7>1. PICK st1 \in Stats, y1 \in Nat \ {0} : st = Read(st1, y1)
              BY <3>0, <4>3, <5>1, <6>3, StatsTypes
            <7>2. st.value = st1 /\ st.next = y1 /\ y1 > Len(s)
              BY <5>2, <5>4, <6>3, <7>1, WhatReadIs
            <7>3. OneContest(s, Read(v, p)) = Read(Emplaced(v, id, WornWith(c, st1)), y1)
              BY <1>2, <4>4, <6>3, <7>2 DEF WornWith
            <7>4. QED
              BY <1>2, <2>12, <6>1, <7>2, <7>3
          <6>4. QED
            BY <6>2, <6>3
        <5>5. QED
          BY <1>1, <1>4a, <1>4b, <5>3, <5>4
      <4>7. QED
        BY <1>1, <1>4b, <4>5, <4>6
    <3>3. QED
      BY <3>1, <3>2
  <2>13. QED
    BY <2>11, <2>12
<1>7. QED
  BY <1>1, <1>5, <1>6

\* The contests, one by one.
LEMMA ContestsUnfold ==
  ASSUME NEW s, NEW p, NEW n \in Nat
  PROVE  \E f : /\ ContestsFrom(s, p, n) = f[n]
                /\ f[0] = Read(<< >>, p)
                /\ \A k \in 1..n : f[k] = (IF f[k - 1].end = "read" THEN OneContest(s, f[k - 1]) ELSE f[k - 1])
<1>0. PICK z \in Nat : z = n
  OBVIOUS
<1> DEFINE Step(f, k) == IF k = 0 THEN Read(<< >>, p)
                         ELSE (IF f[k - 1].end = "read" THEN OneContest(s, f[k - 1]) ELSE f[k - 1])
           S == { m \in Nat : \E f : f = [k \in 0..m |-> Step(f, k)] }
<1>1. 0 \in S
  <2> DEFINE g == [k \in 0..0 |-> Read(<< >>, p)]
  <2>1. \A k \in 0..0 : k = 0
    OBVIOUS
  <2>2. g = [k \in 0..0 |-> Step(g, k)]
    BY <2>1
  <2>3. QED
    <3> HIDE DEF g, Step
    <3> QED
      BY <2>2
<1>2. ASSUME NEW m \in Nat, m \in S
      PROVE  m + 1 \in S
  <2>1. PICK f : f = [k \in 0..m |-> Step(f, k)]
    BY <1>2
  <2> DEFINE g == [k \in 0..(m + 1) |-> IF k = m + 1 THEN Step(f, k) ELSE f[k]]
  <2>2. ASSUME NEW k \in 0..(m + 1)
        PROVE  g[k] = Step(g, k)
    <3>1. k = 0 \/ (k - 1 \in 0..(m + 1) /\ k - 1 # m + 1)
      OBVIOUS
    <3>2. k = 0 \/ g[k - 1] = f[k - 1]
      BY <3>1
    <3>3. Step(g, k) = Step(f, k)
      <4> HIDE DEF g
      <4> QED
        BY <3>2
    <3>4. k = m + 1 \/ k \in 0..m
      OBVIOUS
    <3>5. k \in 0..m => f[k] = Step(f, k)
      <4> HIDE DEF Step
      <4> QED
        BY <2>1
    <3> HIDE DEF Step
    <3>6. QED
      BY <3>3, <3>4, <3>5
  <2>3. g = [k \in 0..(m + 1) |-> Step(g, k)]
    <3> HIDE DEF Step
    <3> DEFINE h == [k \in 0..(m + 1) |-> Step(g, k)]
    <3>1. \A k \in 0..(m + 1) : g[k] = h[k]
      BY <2>2
    <3>2. QED
      BY <3>1
  <2>4. QED
    <3> HIDE DEF g, Step
    <3> QED
      BY <2>3
<1>3. z \in S
  <2> HIDE DEF S
  <2> QED
    BY <1>1, <1>2, Counting
<1> DEFINE after == CHOOSE after : after = [k \in 0..n |-> Step(after, k)]
<1>4. after = [k \in 0..z |-> Step(after, k)]
  <2> HIDE DEF Step
  <2>1. \E f : f = [k \in 0..n |-> Step(f, k)]
    BY <1>0, <1>3
  <2>2. after = [k \in 0..n |-> Step(after, k)]
    BY <2>1
  <2>3. QED
    BY <1>0, <2>2
<1>5. ContestsFrom(s, p, n) = after[n]
  BY DEF ContestsFrom, Then
<1> HIDE DEF after
<1>6. \A k \in 0..z : after[k] = Step(after, k)
  <2> HIDE DEF Step
  <2> QED
    BY <1>4
<1>7. after[0] = Step(after, 0) /\ \A k \in 1..z : after[k] = Step(after, k) /\ k # 0
  BY <1>6
<1>8. QED
  BY <1>0, <1>5, <1>7

-----------------------------------------------------------------------------
LEMMA ContestSetsAre ==
  ASSUME NEW cs \in ContestSets
  PROVE  /\ cs = [c \in DOMAIN cs |-> cs[c]] /\ DOMAIN cs \in SUBSET CIds /\ DOMAIN cs \in SUBSET (0..MaxNumber)
         /\ IsFiniteSet(DOMAIN cs) /\ Cardinality(DOMAIN cs) \in 0..MaxNumber
         /\ \A c \in DOMAIN cs : cs[c] \in ContestRecords
<1>1. PICK D \in SUBSET CIds : cs \in [D -> ContestRecords]
  BY DEF ContestSets
<1>2. cs = [i \in DOMAIN cs |-> cs[i]] /\ DOMAIN cs = D /\ \A i \in DOMAIN cs : cs[i] \in ContestRecords
  BY <1>1
<1>3. CIds \in SUBSET (0..MaxNumber) /\ D \in SUBSET (0..MaxNumber) /\ Cardinality(CIds) <= MaxNumber
  BY NumbersAssumption
<1>4. IsFiniteSet(CIds) /\ Cardinality(CIds) \in Nat /\ IsFiniteSet(D) /\ Cardinality(D) \in Nat
  BY <1>3, KeysExist, WordsApart
<1>5. Cardinality(D) <= Cardinality(CIds)
  BY <1>4, FS_Subset
<1>6. Cardinality(D) \in 0..MaxNumber
  BY <1>3, <1>4, <1>5, WordsApart
<1>7. QED
  BY <1>2, <1>3, <1>4, <1>6

\* Where contests are: each where an offset says.
ContestLies(s, t, id, c, u) ==
  \E n, parts, offs, b, k : ContestAt(s, t, id, c, n, parts, offs, b, k) /\ u = b + 6 + 4 * k
ContestsLie(s, cs, keys, n, offs) ==
  /\ s \in Texts /\ cs \in ContestSets /\ n \in 0..MaxNumber /\ Enumerates(keys, n, DOMAIN cs)
  /\ offs \in [1..(n + 1) -> Nat] /\ offs[1] = 3 /\ Has(s, 1, Word[n]) /\ Has(s, 2, EOL)
  /\ \A i \in 1..n : offs[i] + 12 <= offs[i + 1] /\ ContestLies(s, offs[i], keys[i], cs[keys[i]], offs[i + 1])

\* The contests are in the text of them as they were written.
LEMMA ContestsTexts ==
  ASSUME NEW cs \in ContestSets, NEW n, n = Cardinality(DOMAIN cs)
  PROVE  /\ ContestsText(cs) \in Texts
         /\ \A s \in Texts : TextAt(s, 1, ContestsText(cs)) =>
              \E offs : ContestsLie(s, cs, Keys(cs), n, offs) /\ offs[n + 1] = Len(ContestsText(cs)) + 1
<1>1. n \in 0..MaxNumber /\ n \in Nat
  BY ContestSetsAre, WordsApart
<1>2. PICK keys : keys = Keys(cs) /\ Enumerates(keys, n, DOMAIN cs) /\ DOMAIN keys = 1..n
  BY ContestSetsAre, KeysAre
<1>3. \A i \in 1..n : cs[keys[i]] \in ContestRecords /\ keys[i] \in 0..MaxNumber
  <2>1. \A i \in 1..n : keys[i] \in DOMAIN cs
    BY <1>2 DEF Enumerates
  <2>2. QED
    BY <2>1, ContestSetsAre
<1>4. PICK parts : /\ parts = [i \in 1..n |-> ContestText(keys[i], cs[keys[i]])]
                   /\ parts \in Seq(Texts) /\ Len(parts) = n
  <2>1. \A i \in 1..n : ContestText(keys[i], cs[keys[i]]) \in Texts
    BY <1>3, ContestTexts
  <2>2. PICK parts : parts = [i \in 1..n |-> ContestText(keys[i], cs[keys[i]])]
    OBVIOUS
  <2>3. parts \in [1..n -> Texts]
    BY <2>1, <2>2
  <2>4. QED
    BY <1>1, <2>2, <2>3, PartsAre
<1>5. PICK a \in Tokens : a = Word[n]
  BY <1>1, WordsApart
<1>6. PICK head : head = <<a, EOL>> /\ head \in Texts /\ Len(head) = 2 /\ head[1] = a /\ head[2] = EOL
  <2>1. EOL \in Tokens
    BY TokenTypes
  <2>2. PICK e \in Tokens : e = EOL
    BY <2>1
  <2>3. PICK head : head = <<a, e>>
    OBVIOUS
  <2>4. head \in Seq(Tokens) /\ Len(head) = 2 /\ head[1] = a /\ head[2] = e
    BY <2>3
  <2>5. QED
    BY <2>2, <2>3, <2>4 DEF Texts
<1>7. PICK flat : flat = FlattenSeq(parts) /\ flat \in Texts /\ Len(flat) \in Nat
  <2>1. PICK s \in Texts, p \in Nat \ {0} : s = << >> /\ p = 1
    BY EmptyBook
  <2>2. TextAt(s, p, FlattenSeq(parts))
    BY <2>1, EmptyText
  <2>3. FlattenSeq(parts) \in Texts
    BY <1>1, <1>4, <2>2, AtFlattened
  <2>4. Len(FlattenSeq(parts)) \in Nat
    BY <2>3 DEF Texts
  <2>5. QED
    BY <2>3, <2>4
<1>8. ContestsText(cs) = head \o flat
  BY <1>2, <1>4, <1>5, <1>6, <1>7 DEF ContestsText, ForAll
<1>9. ContestsText(cs) \in Texts /\ Len(ContestsText(cs)) = 2 + Len(flat)
  <2>1. head \o flat \in Texts /\ Len(head \o flat) = Len(head) + Len(flat)
    BY <1>6, <1>7, Joined
  <2>2. QED
    BY <1>6, <1>8, <2>1
<1>10. ASSUME NEW s \in Texts, TextAt(s, 1, ContestsText(cs))
       PROVE  \E offs : ContestsLie(s, cs, keys, n, offs) /\ offs[n + 1] = Len(ContestsText(cs)) + 1
  <2>1. TextAt(s, 1, head) /\ TextAt(s, 3, flat)
    <3>1. PICK e \in Nat : e = 1 /\ e + Len(head) = 3
      BY <1>6
    <3>2. s \in Texts /\ e \in Nat /\ head \in Texts /\ flat \in Texts /\ TextAt(s, e, head \o flat)
      BY <1>6, <1>7, <1>8, <1>10, <3>1
    <3>3. TextAt(s, e, head) /\ TextAt(s, e + Len(head), flat)
      BY ONLY <3>2, AtJoined
    <3>4. QED
      BY <3>1, <3>3
  <2>2. Has(s, 1, a) /\ Has(s, 2, EOL)
    <3>1. \A k \in 1..2 : 1 + k - 1 <= Len(s) => s[1 + k - 1] = head[k]
      BY <1>6, <2>1 DEF TextAt
    <3>2. 1 \in 1..2 /\ 2 \in 1..2 /\ 1 + 1 - 1 = 1 /\ 1 + 2 - 1 = 2
      OBVIOUS
    <3>3. QED
      BY <1>6, <3>1, <3>2 DEF Has
  <2>3. PICK z, offs : z \in Nat /\ z = 3 + Len(flat) /\ LaidFrom(s, 3, parts, n, offs, z)
    <3>1. s \in Texts /\ 3 \in Nat /\ n \in Nat /\ parts \in Seq(Texts) /\ Len(parts) = n /\ TextAt(s, 3, FlattenSeq(parts))
      BY <1>1, <1>4, <1>7, <2>1
    <3>2. \E offs : LaidFrom(s, 3, parts, n, offs, 3 + Len(FlattenSeq(parts)))
      BY ONLY <3>1, AtFlattened
    <3>3. QED
      BY <1>7, <3>2
  <2>4. /\ offs \in [1..(n + 1) -> Nat] /\ offs[1] = 3 /\ offs[n + 1] = z
        /\ \A i \in 1..n : offs[i + 1] = offs[i] + Len(parts[i]) /\ TextAt(s, offs[i], parts[i])
    BY <2>3 DEF LaidFrom
  <2>5. \A i \in 1..n : offs[i] \in Nat /\ Len(parts[i]) \in Nat /\ Len(parts[i]) >= 12
    <3>1. \A i \in 1..n : i \in 1..(n + 1)
      BY <1>1
    <3>2. QED
      BY <1>3, <1>4, <2>4, <3>1, ContestTexts
  <2>6. \A i \in 1..n : offs[i] \in Nat \ {0}
    <3> TAKE i \in 1..n
    <3>1. CASE i = 1
      BY <2>4, <3>1
    <3>2. CASE i # 1
      <4>1. PICK h \in 1..n : i = h + 1
        BY <1>1, <3>2
      <4>2. offs[i] = offs[h] + Len(parts[h])
        BY <2>4, <4>1
      <4>3. QED
        BY <2>5, <4>2
    <3>3. QED
      BY <3>1, <3>2
  <2>7. ASSUME NEW i \in 1..n
        PROVE  offs[i] + 12 <= offs[i + 1] /\ ContestLies(s, offs[i], keys[i], cs[keys[i]], offs[i + 1])
    <3>1. PICK t \in Nat \ {0}, c \in ContestRecords, id \in 0..MaxNumber : t = offs[i] /\ c = cs[keys[i]] /\ id = keys[i]
      BY <1>3, <2>6
    <3>2. TextAt(s, t, ContestText(id, c)) /\ offs[i + 1] = t + Len(ContestText(id, c))
      BY <1>4, <2>4, <3>1
    <3>3. ContestLies(s, t, id, c, t + Len(ContestText(id, c)))
      BY <3>2, ContestTexts DEF ContestLies
    <3>4. t + 12 <= t + Len(ContestText(id, c))
      BY ContestTexts
    <3>5. QED
      BY <3>1, <3>2, <3>3, <3>4
  <2>8. offs[n + 1] = Len(ContestsText(cs)) + 1
    BY <1>7, <1>9, <2>3, <2>4
  <2>9. ContestsLie(s, cs, keys, n, offs)
    BY <1>1, <1>2, <1>5, <2>2, <2>4, <2>7 DEF ContestsLie
  <2>10. QED
    BY <2>8, <2>9
<1>11. QED
  BY <1>2, <1>9, <1>10

-----------------------------------------------------------------------------
LEMMA ContestMade ==
  ASSUME NEW s \in Texts, NEW p \in Nat \ {0}, Has(s, p, EOL), NEW id \in 0..MaxNumber,
         NEW c \in ContestRecords, NEW t \in Nat, t = p + 1, NEW u, ContestLies(s, t, id, c, u),
         NEW v, NEW r, r = OneContest(s, Read(v, p))
  PROVE  Makes(s, r, v, id, c, u) /\ Has(s, u - 1, EOL)
<1>1. PICK n, parts, offs, b, k : ContestAt(s, t, id, c, n, parts, offs, b, k) /\ u = b + 6 + 4 * k
  BY DEF ContestLies
<1>2. b \in Nat /\ k \in Nat /\ Has(s, b + 5 + 4 * k, EOL)
  BY <1>1, ContestEnds
<1>3. u - 2 = b + 4 + 4 * k /\ u - 1 = b + 5 + 4 * k
  BY <1>1, <1>2
<1>4. Makes(s, OneContest(s, Read(v, p)), v, id, c, u)
  <2>1. /\ s \in Texts /\ p \in Nat \ {0} /\ Has(s, p, EOL) /\ id \in 0..MaxNumber /\ c \in ContestRecords
        /\ t \in Nat /\ t = p + 1 /\ ContestAt(s, t, id, c, n, parts, offs, b, k) /\ u = b + 6 + 4 * k
    BY <1>1
  <2>2. PICK a : a = Read(v, p)
    OBVIOUS
  <2>3. QED
    BY ONLY <2>1, OneContestRead
<1>5. QED
  BY <1>2, <1>3, <1>4

\* Contests worn.
LEMMA WornIs ==
  ASSUME NEW cs \in ContestSets
  PROVE  \E w : /\ w = Worn(cs) /\ w = [c \in DOMAIN w |-> w[c]] /\ DOMAIN w = DOMAIN cs
                /\ \A c \in DOMAIN cs : w[c] = WornWith(cs[c], cs[c].stats)
<1>1. PICK w : w = Worn(cs)
  OBVIOUS
<1>2. w = [c \in DOMAIN cs |-> [cs[c] EXCEPT !.qs = WornBook(cs[c].qs)]]
  BY <1>1 DEF Worn, WornBook
<1>3. ASSUME NEW c \in DOMAIN cs
      PROVE  w[c] = WornWith(cs[c], cs[c].stats)
  <2>1. cs[c] \in [qs : QuestionBooks, run : BOOLEAN, stats : Stats]
    BY ContestSetsAre DEF ContestRecords
  <2>2. PICK r \in [qs : QuestionBooks, run : BOOLEAN, stats : Stats] : r = cs[c]
    BY <2>1
  <2>5. w[c] = [r EXCEPT !.qs = WornBook(r.qs)]
    BY <1>2, <2>2
  <2>6. [r EXCEPT !.qs = WornBook(r.qs)] = [qs |-> WornBook(r.qs), run |-> r.run, stats |-> r.stats]
    BY <2>2
  <2>7. QED
    BY <2>2, <2>5, <2>6 DEF WornWith
<1>4. QED
  BY <1>1, <1>2, <1>3

\* Contests are read, worn, when the last word of the last is there; when words are
\* missing either reading ends, or the last contest only may miss statistics.
LEMMA ContestsRead ==
  ASSUME NEW s, NEW cs, NEW keys, NEW n, NEW offs, ContestsLie(s, cs, keys, n, offs), n # 0,
         NEW w, w = Worn(cs), NEW r, r = ContestsFrom(s, 2, n)
  PROVE  /\ offs[n + 1] - 2 <= Len(s) /\ ~Unreadable(cs) => r.end = "read" /\ r.value = w
         /\ offs[n + 1] - 2 <= Len(s) /\ Unreadable(cs) => r = Threw
         /\ offs[n + 1] - 2 > Len(s) /\ r.end = "read" =>
              ~Unreadable(cs) /\ \E st \in Stats :
                r.value = Emplaced(PartOf(w, keys, n - 1), keys[n], WornWith(cs[keys[n]], st))
<1>1. /\ s \in Texts /\ cs \in ContestSets /\ n \in 0..MaxNumber /\ Enumerates(keys, n, DOMAIN cs)
      /\ offs \in [1..(n + 1) -> Nat] /\ offs[1] = 3 /\ Has(s, 2, EOL)
      /\ \A i \in 1..n : offs[i] + 12 <= offs[i + 1] /\ ContestLies(s, offs[i], keys[i], cs[keys[i]], offs[i + 1])
  BY DEF ContestsLie
<1>2. PICK L \in Nat, z \in Nat \ {0} : L = Len(s) /\ z = n
  BY <1>1, WordsApart DEF Texts
<1>3. PICK f : /\ r = f[n]
               /\ f[0] = Read(<< >>, 2)
               /\ \A k \in 1..n : f[k] = (IF f[k - 1].end = "read" THEN OneContest(s, f[k - 1]) ELSE f[k - 1])
  <2>1. n \in Nat /\ r = ContestsFrom(s, 2, n)
    BY <1>2
  <2>2. QED
    BY ONLY <2>1, ContestsUnfold
<1>4. /\ w = [c \in DOMAIN w |-> w[c]] /\ DOMAIN w = DOMAIN cs
      /\ \A c \in DOMAIN cs : w[c] = WornWith(cs[c], cs[c].stats)
  BY <1>1, WornIs
<1>5. PartOf(w, keys, 0) = << >> /\ PartOf(w, keys, n) = w
  <2>1. { keys[j] : j \in 1..0 } = {}
    OBVIOUS
  <2>2. PartOf(w, keys, 0) = << >>
    BY <2>1 DEF PartOf
  <2>3. PartOf(w, keys, n) = w
    BY <1>1, <1>2, <1>4, WholePart
  <2>4. QED
    BY <2>2, <2>3
<1>6. \A i \in 1..n : cs[keys[i]] \in ContestRecords /\ keys[i] \in 0..MaxNumber /\ keys[i] \in DOMAIN cs
  <2>1. \A i \in 1..n : keys[i] \in DOMAIN cs
    BY <1>1 DEF Enumerates
  <2>2. QED
    BY <1>1, <2>1, ContestSetsAre
<1> DEFINE There(j) == j = 0 \/ offs[j + 1] - 2 <= L
           Dotted(j) == \E i \in 1..j : DotsFor(cs[keys[i]])
           Cut(j) == /\ ~Dotted(j)
                     /\ \E st \in Stats, y \in Nat \ {0} :
                          y > L /\ f[j] = Read(Emplaced(PartOf(w, keys, j - 1), keys[j], WornWith(cs[keys[j]], st)), y)
           Fine(j) == /\ There(j) /\ ~Dotted(j) => f[j] = Read(PartOf(w, keys, j), offs[j + 1] - 1)
                      /\ There(j) /\ Dotted(j) => f[j] = Threw
                      /\ ~There(j) /\ f[j].end = "read" => Cut(j)
                      /\ Has(s, offs[j + 1] - 1, EOL)
           S == { j \in Nat : j <= n => Fine(j) }
<1>7. 0 \in S
  BY <1>1, <1>3, <1>5
<1>8. ASSUME NEW j \in Nat, j \in S
      PROVE  j + 1 \in S
  <2> SUFFICES ASSUME j + 1 <= n
               PROVE  Fine(j + 1)
    <3> HIDE DEF Fine
    <3> QED
      OBVIOUS
  <2>1. j <= n /\ j + 1 \in 1..n /\ (j + 1) - 1 = j
    BY <1>2
  <2>2. Fine(j)
    <3> HIDE DEF Fine
    <3> QED
      BY <1>8, <2>1
  <2>3. PICK c \in ContestRecords, d \in 0..MaxNumber : c = cs[keys[j + 1]] /\ d = keys[j + 1] /\ d \in DOMAIN cs
    BY <1>6, <2>1
  <2>4. PICK t \in Nat, u \in Nat : /\ t = offs[j + 1] /\ u = offs[(j + 1) + 1] /\ t + 12 <= u
                                    /\ ContestLies(s, t, d, c, u)
    <3>1. j + 1 \in 1..(n + 1) /\ (j + 1) + 1 \in 1..(n + 1)
      BY <1>2, <2>1
    <3>2. QED
      BY <1>1, <2>1, <2>3, <3>1
  <2>5. t >= 3
    <3>1. CASE j = 0
      BY <1>1, <2>4, <3>1
    <3>2. CASE j # 0
      <4>1. PICK h \in 1..n : h = j
        BY <2>1, <3>2
      <4>2. h \in 1..(n + 1)
        BY <1>2
      <4>3. offs[h] \in Nat /\ offs[h] + 12 <= offs[h + 1]
        BY <1>1, <4>2
      <4>4. QED
        BY <2>4, <4>1, <4>3
    <3>3. QED
      BY <3>1, <3>2
  <2>6. PICK p \in Nat \ {0} : t = p + 1 /\ offs[j + 1] - 1 = p
    BY <2>4, <2>5
  <2>7. Has(s, p, EOL)
    BY <2>2, <2>6
  <2>8. Has(s, u - 1, EOL) /\ \A v : Makes(s, OneContest(s, Read(v, p)), v, d, c, u)
    <3>1. s \in Texts /\ p \in Nat \ {0} /\ Has(s, p, EOL) /\ d \in 0..MaxNumber /\ c \in ContestRecords
          /\ t \in Nat /\ t = p + 1 /\ ContestLies(s, t, d, c, u)
      BY <1>1, <2>4, <2>6, <2>7
    <3>2. ASSUME NEW v
          PROVE  Has(s, u - 1, EOL) /\ Makes(s, OneContest(s, Read(v, p)), v, d, c, u)
      <4>1. PICK a : a = OneContest(s, Read(v, p))
        OBVIOUS
      <4>2. Makes(s, a, v, d, c, u) /\ Has(s, u - 1, EOL)
        BY ONLY <3>1, <4>1, ContestMade
      <4>3. QED
        BY <4>1, <4>2
    <3>3. QED
      BY <3>2
  <2>9. f[j + 1] = IF f[j].end = "read" THEN OneContest(s, f[j]) ELSE f[j]
    BY <1>3, <2>1
  <2>10. (There(j + 1) <=> u - 2 <= L) /\ (There(j + 1) => There(j))
    BY <2>4
  <2>11. Dotted(j + 1) <=> Dotted(j) \/ DotsFor(c)
    <3>1. \A h : h \in 1..(j + 1) <=> h \in 1..j \/ h = j + 1
      OBVIOUS
    <3>2. QED
      BY <2>3, <3>1
  <2>12. Emplaced(PartOf(w, keys, j), d, WornWith(c, c.stats)) = PartOf(w, keys, j + 1)
    <3>1. Enumerates(keys, n, DOMAIN w) /\ n \in Nat /\ j \in Nat /\ j < n /\ d \in DOMAIN cs
      BY <1>1, <1>2, <1>4, <2>1, <2>3
    <3>2. Emplaced(PartOf(w, keys, j), keys[j + 1], w[keys[j + 1]]) = PartOf(w, keys, j + 1)
      BY ONLY <3>1, OneMorePart
    <3>3. w[keys[j + 1]] = WornWith(c, c.stats) /\ keys[j + 1] = d
      BY <1>4, <2>3
    <3>4. QED
      BY <3>2, <3>3
  <2> HIDE DEF There, Dotted
  <2>13. CASE There(j) /\ ~Dotted(j)
    <3>1. PICK v, a : v = PartOf(w, keys, j) /\ a = f[j + 1] /\ f[j] = Read(v, p)
      BY <2>2, <2>6, <2>13
    <3>2. a = OneContest(s, Read(v, p))
      BY <2>9, <3>1, WhatReadIs
    <3>3. Makes(s, a, v, d, c, u)
      BY <2>8, <3>2
    <3>4. /\ u - 2 <= L /\ ~DotsFor(c) => a = Read(Emplaced(v, d, WornWith(c, c.stats)), u - 1)
          /\ u - 2 <= L /\ DotsFor(c) => a = Threw
          /\ u - 2 > L /\ a.end = "read" =>
               ~DotsFor(c) /\ \E st \in Stats, y \in Nat \ {0} : y > L /\ a = Read(Emplaced(v, d, WornWith(c, st)), y)
      BY <1>2, <3>3 DEF Makes
    <3>5. There(j + 1) /\ ~Dotted(j + 1) => f[j + 1] = Read(PartOf(w, keys, j + 1), offs[(j + 1) + 1] - 1)
      BY <2>4, <2>10, <2>11, <2>12, <3>1, <3>4
    <3>6. There(j + 1) /\ Dotted(j + 1) => f[j + 1] = Threw
      BY <2>10, <2>11, <2>13, <3>1, <3>4
    <3>7. ASSUME ~There(j + 1), f[j + 1].end = "read"
          PROVE  Cut(j + 1)
      <4>1. u - 2 > L
        BY <2>10, <3>7
      <4>2. PICK st \in Stats, y \in Nat \ {0} : y > L /\ a = Read(Emplaced(v, d, WornWith(c, st)), y)
        BY <3>1, <3>4, <3>7, <4>1
      <4>3. ~Dotted(j + 1)
        BY <2>11, <2>13, <3>1, <3>4, <3>7, <4>1
      <4>4. f[j + 1] = Read(Emplaced(PartOf(w, keys, (j + 1) - 1), keys[j + 1], WornWith(cs[keys[j + 1]], st)), y)
        BY <2>1, <2>3, <3>1, <4>2
      <4>5. QED
        BY <4>2, <4>3, <4>4
    <3>8. Has(s, offs[(j + 1) + 1] - 1, EOL)
      BY <2>4, <2>8
    <3> HIDE DEF Cut
    <3>9. QED
      BY <3>5, <3>6, <3>7, <3>8
  <2>14. CASE ~There(j) \/ Dotted(j)
    <3>1. There(j + 1) => Dotted(j + 1) /\ f[j + 1] = Threw
      BY <2>2, <2>9, <2>10, <2>11, <2>14, WhatEnds
    <3>2. ~There(j + 1) => f[j + 1].end # "read"
      <4>1. CASE f[j].end # "read"
        BY <2>9, <4>1
      <4>2. CASE f[j].end = "read"
        <5>1. Cut(j)
          BY <2>2, <2>14, <4>2, WhatEnds
        <5>2. PICK v, y : y \in Nat \ {0} /\ y > L /\ f[j] = Read(v, y)
          BY <5>1
        <5>3. f[j + 1] = OneContest(s, Read(v, y))
          BY <2>9, <4>2, <5>2
        <5>4. QED
          BY <1>1, <1>2, <5>2, <5>3, NoContest
      <4>3. QED
        BY <4>1, <4>2
    <3>3. Has(s, offs[(j + 1) + 1] - 1, EOL)
      BY <2>4, <2>8
    <3> HIDE DEF Cut
    <3>4. QED
      BY <3>1, <3>2, <3>3
  <2>15. QED
    BY <2>13, <2>14
<1>9. Fine(n)
  <2>1. n \in S
    <3> HIDE DEF S
    <3> QED
      BY <1>2, <1>7, <1>8, Counting
  <2> HIDE DEF Fine
  <2>2. QED
    BY <1>2, <2>1
<1>10. Dotted(n) <=> Unreadable(cs)
  <2>1. /\ \A i \in 1..n : keys[i] \in DOMAIN cs
        /\ \A d \in DOMAIN cs : \E i \in 1..n : keys[i] = d
    BY <1>1 DEF Enumerates
  <2>2. QED
    BY <2>1 DEF Unreadable, DotsFor
<1>11. (There(n) <=> offs[n + 1] - 2 <= L) /\ ~(offs[n + 1] - 2 <= L /\ offs[n + 1] - 2 > L)
  <2>1. n + 1 \in 1..(n + 1)
    BY <1>2
  <2>2. offs[n + 1] \in Nat
    BY <1>1, <2>1
  <2>3. QED
    BY <2>2
<1> HIDE DEF Dotted, There
<1>12. offs[n + 1] - 2 <= L /\ ~Unreadable(cs) => r.end = "read" /\ r.value = w
  BY <1>3, <1>5, <1>9, <1>10, <1>11, WhatReadIs
<1>13. offs[n + 1] - 2 <= L /\ Unreadable(cs) => r = Threw
  BY <1>3, <1>9, <1>10, <1>11
<1>14. ASSUME offs[n + 1] - 2 > L, r.end = "read"
       PROVE  ~Unreadable(cs) /\ \E st \in Stats :
                r.value = Emplaced(PartOf(w, keys, n - 1), keys[n], WornWith(cs[keys[n]], st))
  <2>1. Cut(n)
    BY <1>3, <1>9, <1>11, <1>14
  <2>2. PICK st \in Stats, y \in Nat \ {0} :
          r = Read(Emplaced(PartOf(w, keys, n - 1), keys[n], WornWith(cs[keys[n]], st)), y)
    BY <1>3, <2>1
  <2>3. r.value = Emplaced(PartOf(w, keys, n - 1), keys[n], WornWith(cs[keys[n]], st))
    BY <2>2, WhatReadIs
  <2>4. QED
    BY <1>10, <2>1, <2>3
<1>15. QED
  BY <1>2, <1>12, <1>13, <1>14

-----------------------------------------------------------------------------
\* A contest that is loaded can be written again.
LEMMA WornRecords ==
  ASSUME NEW c \in ContestRecords, ~DotsFor(c), NEW st \in Stats
  PROVE  WornWith(c, st) \in ContestRecords
<1>1. PICK qs \in QuestionBooks : qs = c.qs /\ c.run \in BOOLEAN
  BY DEF ContestRecords
<1>2. \A i \in DOMAIN qs : WornQuestion(qs[i]) \in Questions
  <2>1. \A i \in DOMAIN qs : qs[i] \in Questions /\ qs[i].tags # <<Dot>>
    BY <1>1, QuestionBooksAre DEF DotsFor
  <2>2. QED
    BY <2>1, WornTypes
<1>3. WornBook(qs) \in [DOMAIN qs -> Questions]
  BY <1>2 DEF WornBook
<1>4. PICK worn \in QuestionBooks : worn = WornBook(qs)
  BY <1>3, QuestionBooksAre DEF QuestionBooks
<1>5. WornWith(c, st) = [qs |-> worn, run |-> c.run, stats |-> st]
  BY <1>1, <1>4 DEF WornWith
<1>6. QED
  BY <1>1, <1>4, <1>5 DEF ContestRecords

LEMMA SetsOfContests ==
  ASSUME NEW v, DOMAIN v \in SUBSET CIds, v = [c \in DOMAIN v |-> v[c]], \A c \in DOMAIN v : v[c] \in ContestRecords
  PROVE  v \in ContestSets
<1>1. v \in [DOMAIN v -> ContestRecords]
  OBVIOUS
<1>2. QED
  BY <1>1 DEF ContestSets

LEMMA NoContests ==
  << >> \in ContestSets /\ Worn(<< >>) = << >> /\ ~Unreadable(<< >>)
<1>0. << >> \in [{} -> ContestRecords]
  OBVIOUS
<1>1. PICK e : e = << >> /\ DOMAIN e = {} /\ e \in [{} -> ContestRecords]
  BY <1>0
<1>2. {} \in SUBSET CIds
  OBVIOUS
<1>3. e \in ContestSets
  BY <1>1, <1>2 DEF ContestSets
<1>4. Worn(e) = [c \in {} |-> [e[c] EXCEPT !.qs = [i \in DOMAIN @ |-> WornQuestion(@[i])]]]
  BY <1>1 DEF Worn
<1>5. Worn(e) = << >>
  BY <1>4
<1>6. ~Unreadable(e)
  BY <1>1 DEF Unreadable
<1>7. QED
  BY <1>1, <1>3, <1>5, <1>6

\* The last contest with other statistics.
LEMMA LastReplaced ==
  ASSUME NEW w, w = [c \in DOMAIN w |-> w[c]], NEW n \in Nat, n # 0, NEW keys, Enumerates(keys, n, DOMAIN w),
         NEW c, NEW st0, NEW st, NEW last, last = keys[n], w[last] = WornWith(c, st0)
  PROVE  Emplaced(PartOf(w, keys, n - 1), last, WornWith(c, st)) = [w EXCEPT ![last].stats = st]
<1>1. PICK m \in Nat : m = n - 1 /\ m + 1 = n /\ n \in 1..n /\ m < n
  OBVIOUS
<1> DEFINE D == { keys[j] : j \in 1..m }
<1>2. last \notin D /\ last \in DOMAIN w
  <2>1. \A j \in 1..m : j \in 1..n /\ j # n
    BY <1>1
  <2>2. QED
    BY <1>1, <2>1 DEF Enumerates
<1>3. D \cup {last} = DOMAIN w
  <2>1. \A j : j \in 1..n <=> j \in 1..m \/ j = n
    BY <1>1
  <2>2. \A d \in DOMAIN w : \E j \in 1..n : keys[j] = d
    BY DEF Enumerates
  <2>3. \A j \in 1..n : keys[j] \in DOMAIN w
    BY DEF Enumerates
  <2>4. QED
    BY <2>1, <2>2, <2>3
<1> HIDE DEF D
<1>4. DOMAIN PartOf(w, keys, m) = D /\ \A i \in D : PartOf(w, keys, m)[i] = w[i]
  BY DEF PartOf, D
<1>5. PICK x, y : x = WornWith(c, st) /\ y = WornWith(c, st0)
  OBVIOUS
<1>6. [y EXCEPT !.stats = st] = x
  BY <1>5 DEF WornWith
<1>7. Emplaced(PartOf(w, keys, m), last, x)
        = [i \in D \cup {last} |-> IF i \in D THEN PartOf(w, keys, m)[i] ELSE x]
  BY <1>4 DEF Emplaced
<1>8. PICK g : g = [i \in DOMAIN w |-> IF i = last THEN x ELSE w[i]]
  OBVIOUS
<1>9. Emplaced(PartOf(w, keys, m), last, x) = g
  <2>1. \A i \in D \cup {last} : (IF i \in D THEN PartOf(w, keys, m)[i] ELSE x) = (IF i = last THEN x ELSE w[i])
    BY <1>2, <1>4
  <2>2. QED
    BY <1>3, <1>7, <1>8, <2>1
<1>10. [w EXCEPT ![last].stats = st] = g
  <2>1. [w EXCEPT ![last].stats = st] = [w EXCEPT ![last] = [w[last] EXCEPT !.stats = st]]
    OBVIOUS
  <2>2. [w EXCEPT ![last].stats = st] = [w EXCEPT ![last] = x]
    BY <1>5, <1>6, <2>1
  <2>3. [w EXCEPT ![last] = x] = g
    BY <1>8
  <2>4. QED
    BY <2>2, <2>3
<1>11. QED
  BY <1>1, <1>5, <1>9, <1>10

\* The number of contests that is read, and what follows.
LEMMA ContestsBegin ==
  ASSUME NEW s, NEW cs, NEW keys, NEW n, NEW offs, ContestsLie(s, cs, keys, n, offs)
  PROVE  /\ Len(s) = 0 \/ n = 0 => ReadContests(s).end = "read" /\ ReadContests(s).value = << >>
         /\ Len(s) # 0 => ReadContests(s) = ContestsFrom(s, 2, n)
<1>1. s \in Texts /\ n \in 0..MaxNumber /\ n \in Nat /\ Has(s, 1, Word[n]) /\ 0 \in Nat
  BY WordsApart DEF ContestsLie
<1>2. Len(s) \in Nat
  BY <1>1 DEF Texts
<1>3. \A p : ContestsFrom(s, p, 0) = Read(<< >>, p)
  <2> TAKE p
  <2>1. PICK r : r = ContestsFrom(s, p, 0) /\ 0 \in Nat
    OBVIOUS
  <2>2. \E f : ContestsFrom(s, p, 0) = f[0] /\ f[0] = Read(<< >>, p)
    BY ONLY <2>1, ContestsUnfold
  <2>3. QED
    BY <2>2
<1>4. \A m, x : NumberFrom(s, 1) = Read(m, x) => ReadContests(s) = ContestsFrom(s, x, m)
  <2> TAKE m, x
  <2>1. PICK r : r = Read(m, x) /\ r.end = "read" /\ r.value = m /\ r.next = x
    BY WhatReadIs
  <2>2. QED
    BY <2>1 DEF ReadContests, Then
<1>5. CASE Len(s) = 0
  <2>1. NumberFrom(s, 1) = Read(0, Len(s) + 1)
    <3>1. s \in Texts /\ 1 \in Nat \ {0} /\ 1 > Len(s)
      BY <1>1, <1>5
    <3>2. QED
      BY ONLY <3>1, NumberTypes
  <2>2. ReadContests(s) = Read(<< >>, Len(s) + 1)
    BY <1>3, <1>4, <2>1
  <2>3. QED
    BY <1>5, <2>2, WhatReadIs
<1>6. CASE Len(s) # 0
  <2>1. 1 <= Len(s)
    BY <1>2, <1>6
  <2>2. PICK p \in Nat : p = 1
    OBVIOUS
  <2>3. s[p] = Word[n] /\ p <= Len(s) /\ p + 1 = 2
    BY <1>1, <2>1, <2>2 DEF Has
  <2>4. WordAt(s, p, p)
    BY <1>1, <2>2, <2>3, WordsApart DEF WordAt
  <2>5. NumberFrom(s, p) = Read(n, p + 1)
    BY <1>1, <2>3, <2>4, NumberThere
  <2>6. ReadContests(s) = ContestsFrom(s, 2, n)
    BY <1>4, <2>2, <2>3, <2>5
  <2>7. n = 0 => ReadContests(s) = Read(<< >>, 2)
    BY <1>3, <2>6
  <2>8. QED
    BY <1>6, <2>6, <2>7, WhatReadIs
<1>7. QED
  BY <1>5, <1>6

\* Contests with the last one's statistics replaced, as they are loaded.
WithStats(cs, st) == [Worn(cs) EXCEPT ![LastOf(Worn(cs))].stats = st]

LEMMA WithStatsIs ==
  ASSUME NEW cs \in ContestSets, NEW n \in Nat, n # 0, n = Cardinality(DOMAIN cs)
  PROVE  /\ Keys(cs)[n] \in DOMAIN cs
         /\ \A st : WithStats(cs, st) = Emplaced(PartOf(Worn(cs), Keys(cs), n - 1), Keys(cs)[n], WornWith(cs[Keys(cs)[n]], st))
         /\ WithStats(cs, cs[Keys(cs)[n]].stats) = Worn(cs)
         /\ \A st : /\ DOMAIN WithStats(cs, st) = DOMAIN cs
                    /\ WithStats(cs, st) = [c \in DOMAIN cs |-> WithStats(cs, st)[c]]
                    /\ WithStats(cs, st)[Keys(cs)[n]] = WornWith(cs[Keys(cs)[n]], st)
                    /\ \A c \in DOMAIN cs : c # Keys(cs)[n] => WithStats(cs, st)[c] = WornWith(cs[c], cs[c].stats)
<1>1. PICK w : /\ w = Worn(cs) /\ w = [c \in DOMAIN w |-> w[c]] /\ DOMAIN w = DOMAIN cs
               /\ \A c \in DOMAIN cs : w[c] = WornWith(cs[c], cs[c].stats)
  BY WornIs
<1>2. PICK keys : keys = Keys(cs) /\ Enumerates(keys, n, DOMAIN cs) /\ Keys(w) = keys
  <2>1. Enumerates(Keys(cs), n, DOMAIN cs)
    BY ContestSetsAre, KeysAre
  <2>2. Keys(w) = Keys(cs)
    BY <1>1 DEF Keys
  <2>3. QED
    BY <2>1, <2>2
<1>3. PICK last : last = keys[n] /\ last = LastOf(w) /\ last \in DOMAIN cs
  <2>1. n \in 1..n
    OBVIOUS
  <2>2. keys[n] \in DOMAIN cs
    BY <1>2, <2>1 DEF Enumerates
  <2>3. LastOf(w) = keys[n]
    BY <1>1, <1>2 DEF LastOf
  <2>4. QED
    BY <2>2, <2>3
<1>4. PICK c : c = cs[last] /\ w[last] = WornWith(c, c.stats)
  BY <1>1, <1>3
<1>5. ASSUME NEW st
      PROVE  /\ Emplaced(PartOf(w, keys, n - 1), last, WornWith(c, st)) = [w EXCEPT ![last].stats = st]
             /\ WithStats(cs, st) = [w EXCEPT ![last].stats = st]
  <2>1. /\ w = [d \in DOMAIN w |-> w[d]] /\ n \in Nat /\ n # 0 /\ Enumerates(keys, n, DOMAIN w)
        /\ last = keys[n] /\ w[last] = WornWith(c, c.stats)
    BY <1>1, <1>2, <1>3, <1>4
  <2>2. PICK a : a = Emplaced(PartOf(w, keys, n - 1), last, WornWith(c, st))
    OBVIOUS
  <2>3. Emplaced(PartOf(w, keys, n - 1), last, WornWith(c, st)) = [w EXCEPT ![last].stats = st]
    BY ONLY <2>1, LastReplaced
  <2>4. WithStats(cs, st) = [w EXCEPT ![last].stats = st]
    BY <1>1, <1>3 DEF WithStats
  <2>5. QED
    BY <2>3, <2>4
<1>6. ASSUME NEW st
      PROVE  WithStats(cs, st) = [d \in DOMAIN cs |-> IF d = last THEN WornWith(c, st) ELSE w[d]]
  <2>1. [w EXCEPT ![last].stats = st] = [w EXCEPT ![last] = [w[last] EXCEPT !.stats = st]]
    OBVIOUS
  <2>2. [w[last] EXCEPT !.stats = st] = WornWith(c, st)
    <3>1. PICK x, y : x = WornWith(c, st) /\ y = WornWith(c, c.stats)
      OBVIOUS
    <3>2. [y EXCEPT !.stats = st] = x
      BY <3>1 DEF WornWith
    <3>3. QED
      BY <1>4, <3>1, <3>2
  <2>3. WithStats(cs, st) = [w EXCEPT ![last] = WornWith(c, st)]
    BY <1>5, <2>1, <2>2
  <2>4. QED
    BY <1>1, <2>3
<1>7. WithStats(cs, c.stats) = w
  <2>1. \A d \in DOMAIN cs : (IF d = last THEN WornWith(c, c.stats) ELSE w[d]) = w[d]
    BY <1>4
  <2>2. w = [d \in DOMAIN cs |-> w[d]]
    BY <1>1
  <2>3. QED
    BY <1>6, <2>1, <2>2
<1>8. ASSUME NEW st
      PROVE  /\ DOMAIN WithStats(cs, st) = DOMAIN cs
             /\ WithStats(cs, st) = [d \in DOMAIN cs |-> WithStats(cs, st)[d]]
             /\ WithStats(cs, st)[last] = WornWith(c, st)
             /\ \A d \in DOMAIN cs : d # last => WithStats(cs, st)[d] = WornWith(cs[d], cs[d].stats)
  <2>1. PICK g : g = WithStats(cs, st) /\ g = [d \in DOMAIN cs |-> IF d = last THEN WornWith(c, st) ELSE w[d]]
    BY <1>6
  <2>2. DOMAIN g = DOMAIN cs /\ g = [d \in DOMAIN cs |-> g[d]] /\ g[last] = WornWith(c, st)
    BY <1>3, <2>1
  <2>3. \A d \in DOMAIN cs : d # last => g[d] = WornWith(cs[d], cs[d].stats)
    BY <1>1, <2>1
  <2>4. QED
    BY <2>1, <2>2, <2>3
<1>9. last = Keys(cs)[n] /\ c = cs[Keys(cs)[n]] /\ w = Worn(cs) /\ keys = Keys(cs)
  BY <1>1, <1>2, <1>3, <1>4
<1>10. \A st : WithStats(cs, st) = Emplaced(PartOf(w, keys, n - 1), last, WornWith(c, st))
  BY <1>5
<1>11. QED
  BY ONLY <1>3, <1>7, <1>8, <1>9, <1>10

\* What is loaded of contests that were saved whole, and of those that were cut.
LEMMA ContestsLoad ==
  ASSUME NEW cs \in ContestSets, NEW s \in Texts
  PROVE  /\ s = ContestsText(cs) /\ Unreadable(cs) => ReadContests(s).end = "threw"
         /\ s = ContestsText(cs) /\ ~Unreadable(cs) => ReadContests(s).end = "read" /\ ReadContests(s).value = Worn(cs)
         /\ Begins(s, ContestsText(cs)) /\ ReadContests(s).end = "read" =>
              \/ ReadContests(s).value = << >>
              \/ ~Unreadable(cs) /\ cs # << >> /\ \E st \in Stats : ReadContests(s).value = WithStats(cs, st)
<1>1. PICK x \in Texts : x = ContestsText(cs)
  BY ContestsTexts
<1>2. PICK n, keys : n \in Nat /\ n = Cardinality(DOMAIN cs) /\ keys = Keys(cs)
  BY ContestSetsAre, WordsApart
<1>3. Len(s) \in Nat /\ Len(x) \in Nat
  BY DEF Texts
<1>4. n = 0 => cs = << >>
  <2>1. n = 0 => DOMAIN cs = {}
    BY <1>2, ContestSetsAre, FS_EmptySet
  <2>2. DOMAIN cs = {} => cs = << >>
    BY ContestSetsAre
  <2>3. QED
    BY <2>1, <2>2
<1>5. n # 0 => cs # << >>
  <2>1. Cardinality(DOMAIN << >>) = 0
    <3>1. DOMAIN << >> = {}
      OBVIOUS
    <3>2. QED
      BY <3>1, FS_EmptySet
  <2>2. QED
    BY <1>2, <2>1
<1>6. ASSUME Begins(s, x)
      PROVE  /\ s = x /\ Unreadable(cs) => ReadContests(s).end = "threw"
             /\ s = x /\ ~Unreadable(cs) => ReadContests(s).end = "read" /\ ReadContests(s).value = Worn(cs)
             /\ ReadContests(s).end = "read" =>
                  \/ ReadContests(s).value = << >>
                  \/ ~Unreadable(cs) /\ cs # << >> /\ \E st \in Stats : ReadContests(s).value = WithStats(cs, st)
  <2>1. PICK offs : ContestsLie(s, cs, keys, n, offs) /\ offs[n + 1] = Len(x) + 1
    <3>1. TextAt(s, 1, x)
      BY <1>6, AtBegin
    <3>2. QED
      BY <1>1, <1>2, <3>1, ContestsTexts
  <2>2. PICK r : r = ReadContests(s)
    OBVIOUS
  <2>3. /\ Len(s) = 0 \/ n = 0 => r.end = "read" /\ r.value = << >>
        /\ Len(s) # 0 => r = ContestsFrom(s, 2, n)
    BY <2>1, <2>2, ContestsBegin
  <2>4. Len(x) >= 2
    <3>1. n = 0 => Len(x) + 1 = 3
      BY <2>1 DEF ContestsLie
    <3>2. n # 0 => Len(x) + 1 >= 3
      <4>1. ASSUME n # 0
            PROVE  Len(x) + 1 >= 3
        <5>1. PICK m \in 1..n : m = n
          BY <1>2, <4>1
        <5>2. offs[m] \in Nat /\ offs[m] + 12 <= offs[m + 1]
          <6>1. m \in 1..(n + 1)
            BY <1>2
          <6>2. QED
            BY <2>1, <6>1 DEF ContestsLie
        <5>3. QED
          BY <1>3, <2>1, <5>1, <5>2
      <4>2. QED
        BY <4>1
    <3>3. QED
      BY <1>3, <3>1, <3>2
  <2>5. CASE n = 0
    <3>1. r.end = "read" /\ r.value = << >>
      BY <2>3, <2>5
    <3>2. ~Unreadable(cs) /\ Worn(cs) = << >>
      BY <1>4, <2>5, NoContests
    <3>3. QED
      BY <2>2, <3>1, <3>2
  <2>6. CASE n # 0
    <3>1. CASE Len(s) = 0
      <4>1. s # x
        BY <2>4, <3>1
      <4>2. r.value = << >>
        BY <2>3, <3>1
      <4>3. QED
        BY <2>2, <4>1, <4>2
    <3>2. CASE Len(s) # 0
      <4>1. PICK w : w = Worn(cs)
        OBVIOUS
      <4>2. r = ContestsFrom(s, 2, n)
        BY <2>3, <3>2
      <4>3. /\ offs[n + 1] - 2 <= Len(s) /\ ~Unreadable(cs) => r.end = "read" /\ r.value = w
            /\ offs[n + 1] - 2 <= Len(s) /\ Unreadable(cs) => r = Threw
            /\ offs[n + 1] - 2 > Len(s) /\ r.end = "read" =>
                 ~Unreadable(cs) /\ \E st \in Stats :
                   r.value = Emplaced(PartOf(w, keys, n - 1), keys[n], WornWith(cs[keys[n]], st))
        BY ONLY <2>1, <2>6, <4>1, <4>2, ContestsRead
      <4>4. s = x => offs[n + 1] - 2 <= Len(s)
        BY <1>3, <2>1
      <4>5. offs[n + 1] - 2 <= Len(s) \/ offs[n + 1] - 2 > Len(s)
        BY <1>3, <2>1
      <4>6. cs[keys[n]].stats \in Stats /\ WithStats(cs, cs[keys[n]].stats) = w
        <5>1. keys[n] \in DOMAIN cs /\ WithStats(cs, cs[keys[n]].stats) = w
          BY <1>2, <2>6, <4>1, WithStatsIs
        <5>2. QED
          BY <5>1, ContestSetsAre DEF ContestRecords
      <4>7. \A st : WithStats(cs, st) = Emplaced(PartOf(w, keys, n - 1), keys[n], WornWith(cs[keys[n]], st))
        BY <1>2, <2>6, <4>1, WithStatsIs
      <4>8. r.end = "read" => ~Unreadable(cs) /\ \E st \in Stats : r.value = WithStats(cs, st)
        <5>1. CASE offs[n + 1] - 2 <= Len(s)
          BY <4>3, <4>6, <5>1, WhatEnds
        <5>2. CASE offs[n + 1] - 2 > Len(s)
          BY <4>3, <4>7, <5>2
        <5>3. QED
          BY <4>5, <5>1, <5>2
      <4>9. /\ s = x /\ Unreadable(cs) => r.end = "threw"
            /\ s = x /\ ~Unreadable(cs) => r.end = "read" /\ r.value = w
        BY <4>3, <4>4, WhatEnds
      <4>10. QED
        BY <1>5, <2>2, <2>6, <4>1, <4>8, <4>9
    <3>3. QED
      BY <3>1, <3>2
  <2>7. QED
    BY <2>5, <2>6
<1>7. s = x => Begins(s, x)
  BY <1>3 DEF Begins
<1>8. QED
  BY <1>1, <1>6, <1>7

-----------------------------------------------------------------------------
\* The records contests are changed to.
LEMMA NewContest ==
  [qs |-> << >>, run |-> FALSE, stats |-> NoStats] \in ContestRecords
<1>1. << >> \in [{} -> Questions] /\ {} \in SUBSET QIds
  OBVIOUS
<1>2. PICK qs : qs = << >> /\ qs \in QuestionBooks
  BY <1>1 DEF QuestionBooks
<1>3. PICK set : set = << >> /\ set \in Counters /\ Cardinality(DOMAIN set) <= 0
  BY EmptyCounters
<1>4. 0 \in 0..MaxNumber /\ Cardinality(DOMAIN set) <= MaxNumber
  <2>1. Cardinality(DOMAIN set) \in Nat /\ MaxNumber \in Nat
    BY <1>3, CountersAre, KeysAre, WordsApart
  <2>2. QED
    BY <1>3, <2>1
<1>5. PICK st : st = [contestants |-> 0, highest |-> 0, set |-> set] /\ st \in Stats
  <2>1. [contestants |-> 0, highest |-> 0, set |-> set] \in [contestants : 0..MaxNumber, highest : 0..MaxNumber, set : Counters]
    BY <1>3, <1>4
  <2>2. [contestants |-> 0, highest |-> 0, set |-> set].set = set
    OBVIOUS
  <2>3. QED
    BY <1>4, <2>1, <2>2 DEF Stats
<1>6. st = NoStats
  BY <1>3, <1>5 DEF NoStats
<1>7. QED
  BY <1>2, <1>5, <1>6 DEF ContestRecords

LEMMA OneMoreQuestion ==
  ASSUME NEW c \in ContestRecords, NEW id \in QIds, NEW q \in Questions
  PROVE  [c EXCEPT !.qs = Emplaced(@, id, q)] \in ContestRecords
<1>1. PICK qs \in QuestionBooks : qs = c.qs
  BY DEF ContestRecords
<1>2. DOMAIN qs \in SUBSET QIds /\ \A i \in DOMAIN qs : qs[i] \in Questions
  BY QuestionBooksAre
<1>3. DOMAIN qs \cup {id} \in SUBSET QIds
  BY <1>2
<1>4. Emplaced(qs, id, q) \in [DOMAIN qs \cup {id} -> Questions]
  BY <1>2 DEF Emplaced
<1>5. PICK new \in QuestionBooks : new = Emplaced(qs, id, q)
  BY <1>3, <1>4 DEF QuestionBooks
<1>6. [c EXCEPT !.qs = new] \in ContestRecords
  BY <1>5 DEF ContestRecords
<1>7. QED
  BY <1>1, <1>5, <1>6

LEMMA StatsStored ==
  ASSUME NEW c \in ContestRecords, NEW n \in Counts, NEW k \in Counts
  PROVE  [c EXCEPT !.run = TRUE,
                   !.stats = [contestants |-> n, highest |-> k * Cardinality(DOMAIN c.qs),
                              set |-> [q \in DOMAIN c.qs |-> k]]] \in ContestRecords
<1>1. PICK qs \in QuestionBooks : qs = c.qs
  BY DEF ContestRecords
<1>2. PICK m : /\ m = Cardinality(DOMAIN qs) /\ m \in 0..MaxNumber /\ m \in 0..Cardinality(QIds)
               /\ DOMAIN qs \in SUBSET (0..MaxNumber)
  BY QuestionBooksAre
<1>3. n \in 0..MaxNumber /\ k \in 0..MaxNumber /\ MaxNumber \in Nat
  BY NumbersAssumption, WordsApart
<1>4. PICK h \in 0..MaxNumber : h = k * m
  <2>1. k * m <= MaxNumber
    BY <1>2, NumbersAssumption
  <2>2. k * m \in Nat
    BY <1>2, <1>3
  <2>3. QED
    BY <1>3, <2>1, <2>2
<1>5. PICK set \in Counters : set = [q \in DOMAIN qs |-> k] /\ DOMAIN set = DOMAIN qs
  <2>1. [q \in DOMAIN qs |-> k] \in [DOMAIN qs -> 0..MaxNumber]
    BY <1>3
  <2>2. QED
    BY <1>2, <2>1 DEF Counters
<1>6. PICK st : st = [contestants |-> n, highest |-> h, set |-> set]
  OBVIOUS
<1>7. st \in Stats
  <2>1. st \in [contestants : 0..MaxNumber, highest : 0..MaxNumber, set : Counters] /\ st.set = set
    BY <1>3, <1>6
  <2>2. Cardinality(DOMAIN st.set) <= MaxNumber
    BY <1>2, <1>3, <1>5, <2>1
  <2>3. QED
    BY <2>1, <2>2 DEF Stats
<1>8. [c EXCEPT !.run = TRUE, !.stats = st] \in ContestRecords
  BY <1>7 DEF ContestRecords
<1>9. st = [contestants |-> n, highest |-> k * Cardinality(DOMAIN c.qs), set |-> [q \in DOMAIN c.qs |-> k]]
  BY <1>1, <1>2, <1>4, <1>5, <1>6
<1>10. QED
  BY <1>8, <1>9

\* Changes of the contests leave contests.
LEMMA ContestsChange ==
  ASSUME NEW cs \in ContestSets
  PROVE  /\ \A c \in CIds, r \in ContestRecords : Emplaced(cs, c, r) \in ContestSets
         /\ \A c \in DOMAIN cs, r \in ContestRecords : [cs EXCEPT ![c] = r] \in ContestSets
<1>1. DOMAIN cs \in SUBSET CIds /\ cs = [c \in DOMAIN cs |-> cs[c]] /\ \A c \in DOMAIN cs : cs[c] \in ContestRecords
  BY ContestSetsAre
<1>2. ASSUME NEW c \in CIds, NEW r \in ContestRecords
      PROVE  Emplaced(cs, c, r) \in ContestSets
  <2>1. DOMAIN cs \cup {c} \in SUBSET CIds
    BY <1>1
  <2>2. Emplaced(cs, c, r) \in [DOMAIN cs \cup {c} -> ContestRecords]
    BY <1>1 DEF Emplaced
  <2>3. QED
    BY <2>1, <2>2 DEF ContestSets
<1>3. ASSUME NEW c \in DOMAIN cs, NEW r \in ContestRecords
      PROVE  [cs EXCEPT ![c] = r] \in ContestSets
  <2>1. [cs EXCEPT ![c] = r] \in [DOMAIN cs -> ContestRecords]
    BY <1>1
  <2>2. QED
    BY <1>1, <2>1 DEF ContestSets
<1>4. QED
  BY <1>2, <1>3

\* A question that is ever accepted is as the type invariant wants it.
LEMMA QuestionsOK ==
  ASSUME NEW q \in Questions
  PROVE  /\ q.choices \in 2..Len(Letters) /\ \E k \in 1..q.choices : q.solution = Letters[k]
         /\ TitleFrom(q.title \o <<EOL, Dot, EOL>>, 1) = Read(q.title, Len(q.title) + 4)
<1>1. /\ q.choices \in 2..3 /\ q.title \in Texts /\ Tidy(q.title)
      /\ \E k \in 1..q.choices : q.solution = Letters[k]
  BY DEF Questions
<1>2. Len(Letters) = 3
  BY DEF Letters
<1>3. PICK t \in Texts, m \in Nat : t = q.title /\ m = Len(t) /\ Tidy(t)
  BY <1>1 DEF Texts
<1>4. PICK tail : tail = <<EOL, Dot, EOL>> /\ tail \in Texts /\ Len(tail) = 3 /\ tail[1] = EOL /\ tail[2] = Dot /\ tail[3] = EOL
  <2>1. EOL \in Tokens /\ Dot \in Tokens
    BY TokenTypes
  <2>2. PICK a \in Tokens, b \in Tokens : a = EOL /\ b = Dot
    BY <2>1
  <2>3. PICK x : x = <<a, b, a>>
    OBVIOUS
  <2>4. x \in Seq(Tokens) /\ Len(x) = 3 /\ x[1] = a /\ x[2] = b /\ x[3] = a
    BY <2>3
  <2>5. QED
    BY <2>2, <2>3, <2>4 DEF Texts
<1>5. PICK s \in Texts : /\ s = t \o tail /\ Len(s) = m + 3 /\ \A k \in 1..m : s[k] = t[k]
                         /\ s[1 + m] = EOL /\ s[2 + m] = Dot /\ s[3 + m] = EOL
  <2>1. /\ t \o tail \in Texts /\ Len(t \o tail) = Len(t) + Len(tail)
        /\ \A k \in 1..Len(t) : (t \o tail)[k] = t[k]
        /\ \A k \in 1..Len(tail) : (t \o tail)[k + Len(t)] = tail[k]
    BY <1>4, Joined
  <2>2. 1 \in 1..3 /\ 2 \in 1..3 /\ 3 \in 1..3
    OBVIOUS
  <2>3. QED
    BY <1>3, <1>4, <2>1, <2>2
<1>6. TitleAt(s, 1, m, t)
  <2>1. \A k \in 1..m : 1 + k - 1 = k
    OBVIOUS
  <2>2. QED
    BY <1>5, <2>1 DEF TitleAt
<1>7. TitleFrom(s, 1) = Read(t, m + 4)
  <2>1. PICK a \in Nat \ {0} : a = 1 /\ a + m + 1 <= Len(s) /\ a + m + 3 = m + 4
    BY <1>5
  <2>2. s \in Texts /\ a \in Nat \ {0} /\ t \in Texts /\ m \in Nat /\ m = Len(t) /\ Tidy(t) /\ TitleAt(s, a, m, t) /\ a + m + 1 <= Len(s)
    BY <1>3, <1>6, <2>1
  <2>3. TitleFrom(s, a) = Read(t, a + m + 3)
    BY ONLY <2>2, TitleIsRead
  <2>4. QED
    BY <2>1, <2>3
<1>8. QED
  BY <1>1, <1>2, <1>3, <1>4, <1>5, <1>7

-----------------------------------------------------------------------------
\* What is always true of the server, its contests and their file: the file holds
\* the text of what was saved, or as much of it as was written, or what the last
\* start read the contests from.
ContestsInv ==
  /\ process \in {"up", "ended", "failed"} /\ changes \in 0..MaxChanges /\ starts \in 0..MaxStarts
  /\ how \in [Banks -> {"none", "whole", "cut", "read"}]
  /\ contests \in ContestSets /\ saved["contests"] \in ContestSets /\ file["contests"] \in Texts
  /\ how["contests"] = "none" => file["contests"] = << >>
  /\ how["contests"] = "whole" => file["contests"] = ContestsText(saved["contests"])
  /\ how["contests"] = "cut" => Begins(file["contests"], ContestsText(saved["contests"]))
  /\ how["contests"] = "read" => ReadContests(file["contests"]).value = saved["contests"]

\* No id is in a book but those there are.
IdsInv ==
  /\ DOMAIN book \subseteq QIds /\ DOMAIN saved["questions"] \subseteq QIds
  /\ how["questions"] = "none" => file["questions"] = << >>
  /\ how["questions"] = "read" => ReadBook(file["questions"]).value = saved["questions"]

BankInv == BookInv /\ ContestsInv /\ IdsInv

LEMMA BankInit == Init => BankInv
<1> SUFFICES ASSUME Init
             PROVE  BankInv
  OBVIOUS
<1>1. /\ process = "up" /\ changes = 0 /\ starts = 0 /\ book = << >> /\ contests = << >>
      /\ file = Empty /\ saved = Empty /\ how = [b \in Banks |-> "none"]
      /\ "questions" \in Banks /\ "contests" \in Banks
  BY DEF Init, Banks
<1>2. /\ file["questions"] = << >> /\ file["contests"] = << >> /\ saved["questions"] = << >> /\ saved["contests"] = << >>
      /\ how["questions"] = "none" /\ how["contests"] = "none"
  BY <1>1 DEF Empty
<1>3. BookInv
  BY BookInit
<1>4. ContestsInv
  <2>1. 0 \in 0..MaxChanges /\ 0 \in 0..MaxStarts
    BY BoundsAssumption
  <2>2. << >> \in ContestSets /\ << >> \in Texts
    BY NoContests, EmptyBook
  <2>3. how \in [Banks -> {"none", "whole", "cut", "read"}]
    BY <1>1
  <2>4. QED
    BY <1>1, <1>2, <2>1, <2>2, <2>3 DEF ContestsInv
<1>5. IdsInv
  <2>1. DOMAIN << >> = {}
    OBVIOUS
  <2>2. QED
    BY <1>1, <1>2, <2>1 DEF IdsInv
<1>6. QED
  BY <1>3, <1>4, <1>5 DEF BankInv

\* What a start loads.
LEMMA WhatLoads ==
  ASSUME BankInv
  PROVE  /\ LoadedContests.end = "read" => LoadedContests.value \in ContestSets
         /\ LoadedBook.end = "read" => DOMAIN LoadedBook.value \subseteq QIds
<1>1. PICK cs \in ContestSets, s \in Texts : cs = saved["contests"] /\ s = file["contests"] /\ LoadedContests = ReadContests(s)
  BY DEF BankInv, ContestsInv, LoadedContests
<1>2. PICK b \in Books, t \in Texts : b = saved["questions"] /\ t = file["questions"] /\ LoadedBook = ReadBook(t) /\ DOMAIN b \subseteq QIds
  BY DEF BankInv, BookInv, IdsInv, LoadedBook
<1>3. how["contests"] \in {"none", "whole", "cut", "read"} /\ how["questions"] \in {"none", "whole", "cut", "read"}
  BY DEF BankInv, ContestsInv, Banks
<1>4. ASSUME Begins(s, ContestsText(cs)), ReadContests(s).end = "read"
      PROVE  ReadContests(s).value \in ContestSets
  <2>1. CASE ReadContests(s).value = << >>
    BY <2>1, NoContests
  <2>2. CASE ReadContests(s).value # << >>
    <3>1. PICK st \in Stats : ~Unreadable(cs) /\ cs # << >> /\ ReadContests(s).value = WithStats(cs, st)
      BY <1>4, <2>2, ContestsLoad
    <3>2. PICK n \in Nat : n = Cardinality(DOMAIN cs) /\ n # 0
      <4>1. Cardinality(DOMAIN cs) \in Nat
        BY ContestSetsAre, KeysAre
      <4>2. Cardinality(DOMAIN cs) = 0 => cs = << >>
        <5>1. Cardinality(DOMAIN cs) = 0 => DOMAIN cs = {}
          BY ContestSetsAre, FS_EmptySet
        <5>2. DOMAIN cs = {} => cs = << >>
          BY ContestSetsAre
        <5>3. QED
          BY <5>1, <5>2
      <4>3. QED
        BY <3>1, <4>1, <4>2
    <3>3. PICK v, last : v = WithStats(cs, st) /\ last = Keys(cs)[n]
      OBVIOUS
    <3>4. /\ DOMAIN v = DOMAIN cs /\ v = [c \in DOMAIN cs |-> v[c]] /\ v[last] = WornWith(cs[last], st)
          /\ last \in DOMAIN cs
          /\ \A c \in DOMAIN cs : c # last => v[c] = WornWith(cs[c], cs[c].stats)
      BY <3>2, <3>3, WithStatsIs
    <3>5. \A c \in DOMAIN cs : cs[c] \in ContestRecords /\ cs[c].stats \in Stats /\ ~DotsFor(cs[c])
      <4>1. \A c \in DOMAIN cs : cs[c] \in ContestRecords
        BY ContestSetsAre
      <4>2. QED
        BY <3>1, <4>1 DEF ContestRecords, Unreadable, DotsFor
    <3>6. \A c \in DOMAIN cs : v[c] \in ContestRecords
      <4> TAKE c \in DOMAIN cs
      <4>1. WornWith(cs[c], st) \in ContestRecords /\ WornWith(cs[c], cs[c].stats) \in ContestRecords
        BY <3>5, WornRecords
      <4>2. QED
        BY <3>4, <4>1
    <3>7. DOMAIN v \in SUBSET CIds
      BY <3>4, ContestSetsAre
    <3>8. v \in ContestSets
      BY <3>4, <3>6, <3>7, SetsOfContests
    <3>9. QED
      BY <3>1, <3>3, <3>8
  <2>3. QED
    BY <2>1, <2>2
<1>5. LoadedContests.end = "read" => LoadedContests.value \in ContestSets
  <2> SUFFICES ASSUME ReadContests(s).end = "read"
               PROVE  ReadContests(s).value \in ContestSets
    BY <1>1
  <2>1. CASE how["contests"] = "none"
    <3>1. Begins(s, ContestsText(cs))
      <4>1. s = << >> /\ Len(s) = 0
        BY <1>1, <2>1, EmptyBook DEF BankInv, ContestsInv
      <4>2. Len(ContestsText(cs)) \in Nat
        BY ContestsTexts DEF Texts
      <4>3. QED
        BY <4>1, <4>2 DEF Begins
    <3>2. QED
      BY <1>4, <3>1
  <2>2. CASE how["contests"] = "whole"
    <3>1. s = ContestsText(cs) /\ Len(s) \in Nat
      BY <1>1, <2>2 DEF BankInv, ContestsInv, Texts
    <3>2. Begins(s, ContestsText(cs))
      BY <3>1 DEF Begins
    <3>3. QED
      BY <1>4, <3>2
  <2>3. CASE how["contests"] = "cut"
    <3>1. Begins(s, ContestsText(cs))
      BY <1>1, <2>3 DEF BankInv, ContestsInv
    <3>2. QED
      BY <1>4, <3>1
  <2>4. CASE how["contests"] = "read"
    BY <1>1, <2>4 DEF BankInv, ContestsInv
  <2>5. QED
    BY <1>3, <2>1, <2>2, <2>3, <2>4
<1>6. LoadedBook.end = "read" => DOMAIN LoadedBook.value \subseteq QIds
  <2> SUFFICES ASSUME ReadBook(t).end = "read"
               PROVE  DOMAIN ReadBook(t).value \subseteq QIds
    BY <1>2
  <2>1. CASE how["questions"] = "none"
    <3>1. t = BookText(<< >>) /\ << >> \in Books
      BY <1>2, <2>1, EmptyBook DEF BankInv, IdsInv
    <3>2. ReadBook(t).value = << >>
      BY <3>1, WholeBookIsRead
    <3>3. DOMAIN << >> = {}
      OBVIOUS
    <3>4. QED
      BY <3>2, <3>3
  <2>2. CASE how["questions"] = "whole"
    <3>1. t = BookText(b)
      BY <1>2, <2>2 DEF BankInv, BookInv
    <3>2. QED
      BY <1>2, <3>1, WholeBookIsRead
  <2>3. CASE how["questions"] = "cut"
    <3>1. b # << >> /\ Begins(t, BookText(b))
      BY <1>2, <2>3 DEF BankInv, BookInv
    <3>2. PICK k \in 0..Cardinality(DOMAIN b) : ReadBook(t).value = PartOf(b, Keys(b), k)
      BY <3>1, CutBookIsPart
    <3>3. DOMAIN PartOf(b, Keys(b), k) = { Keys(b)[j] : j \in 1..k }
      BY DEF PartOf
    <3>4. \A j \in 1..k : Keys(b)[j] \in DOMAIN b
      <4>1. Enumerates(Keys(b), Cardinality(DOMAIN b), DOMAIN b) /\ Cardinality(DOMAIN b) \in Nat
        BY BookTypes, KeysAre
      <4>2. \A j \in 1..k : j \in 1..Cardinality(DOMAIN b)
        BY <4>1
      <4>3. QED
        BY <4>1, <4>2 DEF Enumerates
    <3>5. QED
      BY <1>2, <3>2, <3>3, <3>4
  <2>4. CASE how["questions"] = "read"
    BY <1>2, <2>4 DEF BankInv, IdsInv
  <2>5. QED
    BY <1>3, <2>1, <2>2, <2>3, <2>4
<1>7. QED
  BY <1>5, <1>6

\* A bank that is saved, and the other, which is left alone.
LEMMA FileSaved ==
  ASSUME BankInv, NEW bank \in Banks, NEW value, NEW x \in Texts, x = Text(bank, value), Saves(bank, value)
  PROVE  /\ saved'[bank] = value /\ file'[bank] \in Texts /\ Begins(file'[bank], x)
         /\ how'[bank] \in {"whole", "cut"} /\ (how'[bank] = "whole" => file'[bank] = x)
         /\ how' \in [Banks -> {"none", "whole", "cut", "read"}]
         /\ process' \in {"up", "ended", "failed"} /\ changes' \in 0..MaxChanges
         /\ \A other \in Banks \ {bank} :
              saved'[other] = saved[other] /\ file'[other] = file[other] /\ how'[other] = how[other]
<1>1. /\ DOMAIN file = Banks /\ DOMAIN saved = Banks /\ how \in [Banks -> {"none", "whole", "cut", "read"}]
      /\ process \in {"up", "ended", "failed"} /\ changes \in 0..MaxChanges
  BY DEF BankInv, BookInv, ContestsInv
<1>2. changes < MaxChanges /\ changes' = changes + 1 /\ saved' = [saved EXCEPT ![bank] = value]
  BY DEF Saves
<1>3. Len(x) \in Nat
  BY DEF Texts
<1>4. PICK text, kind : /\ Leaves(bank, text, kind) /\ text \in Texts /\ Begins(text, x)
                        /\ kind \in {"whole", "cut"} /\ (kind = "whole" => text = x)
                        /\ process' \in {process, "ended"}
  <2>1. CASE Leaves(bank, x, "whole") /\ UNCHANGED process
    <3>1. Begins(x, x)
      BY <1>3 DEF Begins
    <3>2. QED
      BY <2>1, <3>1
  <2>2. ASSUME NEW k \in 0..(Len(x) - 1), Leaves(bank, SubSeq(x, 1, k), "cut"), process' = "ended"
        PROVE  SubSeq(x, 1, k) \in Texts /\ Begins(SubSeq(x, 1, k), x)
    <3>1. k \in Nat /\ k <= Len(x)
      BY <1>3
    <3>2. /\ SubSeq(x, 1, k) \in Texts
          /\ 1 <= k + 1 => Len(SubSeq(x, 1, k)) = k + 1 - 1
          /\ \A i \in 1..(k + 1 - 1) : SubSeq(x, 1, k)[i] = x[1 + i - 1]
      BY <3>1, Part
    <3>3. k + 1 - 1 = k /\ 1 <= k + 1 /\ \A i \in 1..k : 1 + i - 1 = i
      BY <3>1
    <3>4. QED
      BY <3>1, <3>2, <3>3 DEF Begins
  <2>3. \/ Leaves(bank, x, "whole") /\ UNCHANGED process
        \/ \E k \in 0..(Len(x) - 1) : Leaves(bank, SubSeq(x, 1, k), "cut") /\ process' = "ended"
    BY DEF Saves
  <2>4. CASE \E k \in 0..(Len(x) - 1) : Leaves(bank, SubSeq(x, 1, k), "cut") /\ process' = "ended"
    <3>1. PICK k \in 0..(Len(x) - 1) : Leaves(bank, SubSeq(x, 1, k), "cut") /\ process' = "ended"
      BY <2>4
    <3>2. SubSeq(x, 1, k) \in Texts /\ Begins(SubSeq(x, 1, k), x)
      BY <2>2, <3>1
    <3>3. QED
      BY <3>1, <3>2
  <2>5. QED
    BY <2>1, <2>3, <2>4
<1>5. file' = [file EXCEPT ![bank] = text] /\ how' = [how EXCEPT ![bank] = kind]
  BY <1>4 DEF Leaves
<1>6. changes' \in 0..MaxChanges
  BY <1>1, <1>2, BoundsAssumption
<1>7. how' \in [Banks -> {"none", "whole", "cut", "read"}] /\ how'[bank] = kind
  BY <1>1, <1>4, <1>5
<1>8. saved'[bank] = value /\ file'[bank] = text
  BY <1>1, <1>2, <1>5
<1>9. \A other \in Banks \ {bank} :
        saved'[other] = saved[other] /\ file'[other] = file[other] /\ how'[other] = how[other]
  BY <1>1, <1>2, <1>5
<1>10. QED
  BY <1>1, <1>4, <1>6, <1>7, <1>8, <1>9

\* The contests are saved.
LEMMA ContestsSaves ==
  ASSUME BankInv, contests' \in ContestSets, Saves("contests", contests'), UNCHANGED <<starts, book>>
  PROVE  ContestsInv' /\ IdsInv'
<1>1. "contests" \in Banks /\ "questions" \in Banks \ {"contests"} /\ Text("contests", contests') = ContestsText(contests')
  BY DEF Banks, Text
<1>2. PICK x \in Texts : x = ContestsText(contests') /\ x = Text("contests", contests')
  BY <1>1, ContestsTexts
<1>3. /\ saved'["contests"] = contests' /\ file'["contests"] \in Texts /\ Begins(file'["contests"], x)
      /\ how'["contests"] \in {"whole", "cut"} /\ (how'["contests"] = "whole" => file'["contests"] = x)
      /\ how' \in [Banks -> {"none", "whole", "cut", "read"}]
      /\ process' \in {"up", "ended", "failed"} /\ changes' \in 0..MaxChanges
      /\ saved'["questions"] = saved["questions"] /\ file'["questions"] = file["questions"]
      /\ how'["questions"] = how["questions"]
  BY <1>1, <1>2, FileSaved
<1>4. ContestsInv'
  BY <1>2, <1>3 DEF ContestsInv, BankInv
<1>5. IdsInv'
  BY <1>3 DEF IdsInv, BankInv
<1>6. QED
  BY <1>4, <1>5

\* The book is saved.
LEMMA QuestionsSave ==
  ASSUME BankInv, book' \in Books, DOMAIN book' \subseteq QIds, Saves("questions", book'), UNCHANGED <<starts, contests>>
  PROVE  ContestsInv' /\ IdsInv'
<1>1. "questions" \in Banks /\ "contests" \in Banks \ {"questions"} /\ Text("questions", book') = BookText(book')
  BY DEF Banks, Text
<1>2. PICK x \in Texts : x = Text("questions", book')
  BY <1>1, BookTexts
<1>3. /\ saved'["questions"] = book' /\ how'["questions"] \in {"whole", "cut"}
      /\ how' \in [Banks -> {"none", "whole", "cut", "read"}]
      /\ process' \in {"up", "ended", "failed"} /\ changes' \in 0..MaxChanges
      /\ saved'["contests"] = saved["contests"] /\ file'["contests"] = file["contests"]
      /\ how'["contests"] = how["contests"]
  BY <1>1, <1>2, FileSaved
<1>4. ContestsInv'
  BY <1>3 DEF ContestsInv, BankInv
<1>5. IdsInv'
  BY <1>3 DEF IdsInv
<1>6. QED
  BY <1>4, <1>5

LEMMA ContestsNext ==
  ASSUME BankInv, [Next]_vars
  PROVE  ContestsInv' /\ IdsInv'
<1>0. /\ contests \in ContestSets /\ book \in Books /\ DOMAIN book \subseteq QIds
      /\ \A i \in DOMAIN book : book[i] \in Questions
  BY BookTypes DEF BankInv, BookInv, ContestsInv, IdsInv
<1>1. ASSUME NEW post \in Posted, Posts(post[1], post[2])
      PROVE  ContestsInv' /\ IdsInv'
  <2>1. CASE UNCHANGED <<process, changes, starts, book, contests, file, saved, how>>
    BY <2>1 DEF BankInv, ContestsInv, IdsInv
  <2>2. CASE ~UNCHANGED <<process, changes, starts, book, contests, file, saved, how>>
    <3>1. PICK id, body, q : id = post[1] /\ body = post[2] /\ q = QuestionFrom(body, 1)
      OBVIOUS
    <3>2. /\ q.end = "read" /\ book' = Emplaced(book, id, q.value) /\ Saves("questions", book')
          /\ UNCHANGED <<starts, contests>>
      BY <1>1, <2>2, <3>1 DEF Posts
    <3>3. id \in 0..MaxNumber /\ id \in QIds /\ body \in Texts
      BY <3>1, BodyTypes
    <3>4. PICK r \in Questions, y \in Nat : y > 1 /\ q = Read(r, y)
      <4>1. 1 \in Nat \ {0}
        OBVIOUS
      <4>2. QED
        BY <3>1, <3>2, <3>3, <4>1, QuestionTypes
    <3>5. q.value \in Questions
      BY <3>4, WhatReadIs
    <3>6. book' \in Books
      BY <1>0, <3>2, <3>3, <3>5, BookChanges
    <3>7. DOMAIN book' \subseteq QIds
      BY <1>0, <3>2, <3>3 DEF Emplaced
    <3>8. QED
      BY <3>2, <3>6, <3>7, QuestionsSave
  <2>3. QED
    BY <2>1, <2>2
<1>2. ASSUME NEW id \in QIds, Deletes(id)
      PROVE  ContestsInv' /\ IdsInv'
  <2>1. book' = Without(book, id) /\ Saves("questions", book') /\ UNCHANGED <<starts, contests>>
    BY <1>2 DEF Deletes
  <2>2. book' \in Books
    BY <1>0, <2>1, BookChanges
  <2>3. DOMAIN book' \subseteq QIds
    BY <1>0, <2>1 DEF Without
  <2>4. QED
    BY <2>1, <2>2, <2>3, QuestionsSave
<1>3. ASSUME NEW c \in CIds, SetsContest(c)
      PROVE  ContestsInv' /\ IdsInv'
  <2>1. PICK r : r = [qs |-> << >>, run |-> FALSE, stats |-> NoStats] /\ r \in ContestRecords
    BY NewContest
  <2>2. contests' = Emplaced(contests, c, r) /\ Saves("contests", contests') /\ UNCHANGED <<starts, book>>
    BY <1>3, <2>1 DEF SetsContest
  <2>3. contests' \in ContestSets
    BY <1>0, <2>1, <2>2, ContestsChange
  <2>4. QED
    BY <2>2, <2>3, ContestsSaves
<1>4. ASSUME NEW c \in CIds, NEW id \in QIds, AddsQuestion(c, id)
      PROVE  ContestsInv' /\ IdsInv'
  <2>1. /\ c \in DOMAIN contests /\ id \in DOMAIN book /\ Saves("contests", contests') /\ UNCHANGED <<starts, book>>
        /\ contests' = [contests EXCEPT ![c].qs = Emplaced(@, id, book[id])]
    BY <1>4 DEF AddsQuestion
  <2>2. PICK o, q : o = contests[c] /\ o \in ContestRecords /\ q = book[id] /\ q \in Questions
    BY <1>0, <2>1, ContestSetsAre
  <2>3. PICK r : r = [o EXCEPT !.qs = Emplaced(@, id, q)] /\ r \in ContestRecords
    BY <2>2, OneMoreQuestion
  <2>4. contests' = [contests EXCEPT ![c] = r]
    BY <2>1, <2>2, <2>3
  <2>5. contests' \in ContestSets
    <3>1. contests \in ContestSets /\ c \in DOMAIN contests /\ r \in ContestRecords
      BY <1>0, <2>1, <2>3
    <3>2. [contests EXCEPT ![c] = r] \in ContestSets
      BY ONLY <3>1, ContestsChange
    <3>3. QED
      BY <2>4, <3>2
  <2>6. QED
    BY <2>1, <2>5, ContestsSaves
<1>5. ASSUME NEW c \in CIds, NEW n \in Counts, NEW k \in Counts, StoresStats(c, n, k)
      PROVE  ContestsInv' /\ IdsInv'
  <2>1. PICK o : o = contests[c] /\ o \in ContestRecords
    BY <1>0, <1>5, ContestSetsAre DEF StoresStats
  <2>2. PICK st : st = [contestants |-> n, highest |-> k * Cardinality(DOMAIN o.qs),
                        set |-> [q \in DOMAIN o.qs |-> k]]
    OBVIOUS
  <2>3. PICK r : r = [o EXCEPT !.run = TRUE, !.stats = st] /\ r \in ContestRecords
    <3>1. o \in ContestRecords /\ n \in Counts /\ k \in Counts
      BY <2>1
    <3>2. [o EXCEPT !.run = TRUE,
                    !.stats = [contestants |-> n, highest |-> k * Cardinality(DOMAIN o.qs),
                               set |-> [q \in DOMAIN o.qs |-> k]]] \in ContestRecords
      BY ONLY <3>1, StatsStored
    <3>3. QED
      BY <2>2, <3>2
  <2>4. /\ c \in DOMAIN contests /\ Saves("contests", contests') /\ UNCHANGED <<starts, book>>
        /\ contests' = [contests EXCEPT ![c].run = TRUE, ![c].stats = st]
    BY <1>5, <2>1, <2>2 DEF StoresStats
  <2>5. contests' = [contests EXCEPT ![c] = r]
    BY <2>1, <2>3, <2>4
  <2>6. contests' \in ContestSets
    <3>1. contests \in ContestSets /\ c \in DOMAIN contests /\ r \in ContestRecords
      BY <1>0, <2>3, <2>4
    <3>2. [contests EXCEPT ![c] = r] \in ContestSets
      BY ONLY <3>1, ContestsChange
    <3>3. QED
      BY <2>5, <3>2
  <2>7. QED
    BY <2>4, <2>6, ContestsSaves
<1>6. CASE Ends
  BY <1>6 DEF Ends, BankInv, ContestsInv, IdsInv
<1>7. CASE Starts
  <2>1. PICK qs, cs : qs = LoadedBook /\ cs = LoadedContests /\ qs = ReadBook(file["questions"]) /\ cs = ReadContests(file["contests"])
    BY DEF LoadedBook, LoadedContests
  <2>2. starts' \in 0..MaxStarts /\ UNCHANGED <<changes, file>>
    <3>1. starts < MaxStarts /\ starts' = starts + 1 /\ UNCHANGED <<changes, file>> /\ starts \in 0..MaxStarts
      BY <1>7 DEF Starts, BankInv, ContestsInv
    <3>2. QED
      BY <3>1, BoundsAssumption
  <2>3. CASE qs.end = "read" /\ cs.end = "read"
    <3>1. /\ process' = "up" /\ book' = qs.value /\ contests' = cs.value /\ how' = [b \in Banks |-> "read"]
          /\ saved' = [questions |-> qs.value, contests |-> cs.value]
      BY <1>7, <2>1, <2>3 DEF Starts
    <3>2. cs.value \in ContestSets /\ DOMAIN qs.value \subseteq QIds
      BY <2>1, <2>3, WhatLoads
    <3>3. how' \in [Banks -> {"none", "whole", "cut", "read"}] /\ how'["contests"] = "read" /\ how'["questions"] = "read"
      BY <3>1 DEF Banks
    <3>4. saved'["contests"] = cs.value /\ saved'["questions"] = qs.value
      BY <3>1
    <3>5. ContestsInv'
      BY <2>1, <2>2, <3>1, <3>2, <3>3, <3>4 DEF ContestsInv, BankInv
    <3>6. IdsInv'
      BY <2>1, <2>2, <3>1, <3>2, <3>3, <3>4 DEF IdsInv, BankInv
    <3>7. QED
      BY <3>5, <3>6
  <2>4. CASE ~(qs.end = "read" /\ cs.end = "read")
    <3>1. process' = "failed" /\ UNCHANGED <<book, contests, how, saved>>
      BY <1>7, <2>1, <2>4 DEF Starts
    <3>2. QED
      BY <2>2, <3>1 DEF ContestsInv, BankInv, IdsInv
  <2>5. QED
    BY <2>3, <2>4
<1>8. CASE UNCHANGED vars
  BY <1>8 DEF vars, BankInv, ContestsInv, IdsInv
<1>9. QED
  BY <1>1, <1>2, <1>3, <1>4, <1>5, <1>6, <1>7, <1>8 DEF Next

LEMMA BankInvariant == Spec => []BankInv
<1>1. BankInv /\ [Next]_vars => BankInv'
  <2> SUFFICES ASSUME BankInv, [Next]_vars
               PROVE  BankInv'
    OBVIOUS
  <2>1. BookInv'
    BY BookNext DEF BankInv
  <2>2. ContestsInv' /\ IdsInv'
    BY ContestsNext
  <2>3. QED
    BY <2>1, <2>2 DEF BankInv
<1>2. QED
  BY <1>1, BankInit, PTL DEF Spec

-----------------------------------------------------------------------------
\* The types of the bank, with what no store checks: whatever was posted, saved,
\* cut and loaded, a question in the book or in a contest has two or three choices
\* and the letter of one of them, and a title that ends where it is read to end
\* (QuestionTitle.cpp:49-70, ChoiceCollection.cpp:92-126, SolvedQuestion.cpp), also
\* after a start has put the tags of a contest's question in front of its title.
THEOREM BankTypes == Spec => []BankTypeOK
<1>1. BankInv => BankTypeOK
  <2> SUFFICES ASSUME BankInv
               PROVE  BankTypeOK
    OBVIOUS
  <2>1. /\ process \in {"up", "ended", "failed"} /\ changes \in 0..MaxChanges /\ starts \in 0..MaxStarts
        /\ how \in [Banks -> {"none", "whole", "cut", "read"}] /\ contests \in ContestSets
        /\ book \in Books /\ DOMAIN book \subseteq QIds
    BY DEF BankInv, BookInv, ContestsInv, IdsInv
  <2>2. DOMAIN contests \subseteq CIds /\ \A c \in DOMAIN contests : contests[c].qs \in QuestionBooks
    BY <2>1, ContestSetsAre DEF ContestRecords
  <2>3. \A c \in DOMAIN contests : DOMAIN contests[c].qs \subseteq QIds
    BY <2>2, QuestionBooksAre
  <2>4. \A c \in DOMAIN contests : \A i \in DOMAIN contests[c].qs : contests[c].qs[i] \in Questions
    BY <2>2, QuestionBooksAre
  <2>5. \A i \in DOMAIN book : book[i] \in Questions
    BY <2>1, BookTypes
  <2>6. \A q \in { book[i] : i \in DOMAIN book }
               \cup UNION { { contests[c].qs[i] : i \in DOMAIN contests[c].qs } : c \in DOMAIN contests } :
          q \in Questions
    BY <2>4, <2>5
  <2>7. QED
    BY <2>1, <2>2, <2>3, <2>6, QuestionsOK DEF BankTypeOK
<1>2. QED
  BY <1>1, BankInvariant, PTL

\* Contests that were saved whole are the contests the next start loads, however
\* many they are and whatever their questions are, but for the tags that stand in
\* the titles then (Contest.cpp:76-78); they keep the server from starting if and
\* only if a question of theirs has a dot for its tags (QuestionTitle.cpp:49-70).
THEOREM WholeContestsAreLoaded == Spec => []WholeContestsLoad
<1>1. BankInv => WholeContestsLoad
  <2> SUFFICES ASSUME BankInv, how["contests"] = "whole"
               PROVE  IF Unreadable(saved["contests"]) THEN LoadedContests.end = "threw"
                      ELSE LoadedContests.end = "read" /\ LoadedContests.value = Worn(saved["contests"])
    BY DEF WholeContestsLoad
  <2>1. /\ saved["contests"] \in ContestSets /\ file["contests"] \in Texts
        /\ file["contests"] = ContestsText(saved["contests"])
    BY DEF BankInv, ContestsInv
  <2>2. PICK cs \in ContestSets, s \in Texts : /\ cs = saved["contests"] /\ s = file["contests"] /\ s = ContestsText(cs)
    BY <2>1
  <2>3. /\ Unreadable(cs) => ReadContests(s).end = "threw"
        /\ ~Unreadable(cs) => ReadContests(s).end = "read" /\ ReadContests(s).value = Worn(cs)
    BY <2>2, ContestsLoad
  <2>4. QED
    BY <2>2, <2>3 DEF LoadedContests
<1>2. QED
  BY <1>1, BankInvariant, PTL

\* A file of contests that was cut anywhere gives the next start no contests, or
\* all of them, with other statistics in the last one only, or no start: their
\* number stands in front, and every loop counts (ContestServer.cpp:305-319,
\* ContestStats.cpp:31-66).
THEOREM CutContestsLoad == Spec => []CutContestsLoadWhole
<1>1. BankInv => CutContestsLoadWhole
  <2> SUFFICES ASSUME BankInv, how["contests"] = "cut", LoadedContests.end = "read", LoadedContests.value # << >>
               PROVE  \E stats \in { LoadedContests.value[c].stats : c \in DOMAIN LoadedContests.value } :
                        LoadedContests.value = WithStats(saved["contests"], stats)
    BY DEF CutContestsLoadWhole, WithStats
  <2>1. PICK cs \in ContestSets, s \in Texts : /\ cs = saved["contests"] /\ s = file["contests"]
                                               /\ Begins(s, ContestsText(cs)) /\ LoadedContests = ReadContests(s)
    BY DEF BankInv, ContestsInv, LoadedContests
  <2>2. PICK st \in Stats : cs # << >> /\ ReadContests(s).value = WithStats(cs, st)
    BY <2>1, ContestsLoad
  <2>3. PICK n \in Nat : n = Cardinality(DOMAIN cs) /\ n # 0
    <3>1. Cardinality(DOMAIN cs) \in Nat
      BY ContestSetsAre, KeysAre
    <3>2. Cardinality(DOMAIN cs) = 0 => DOMAIN cs = {}
      BY ContestSetsAre, FS_EmptySet
    <3>3. DOMAIN cs = {} => cs = << >>
      BY ContestSetsAre
    <3>4. QED
      BY <2>2, <3>1, <3>2, <3>3
  <2>4. PICK v, last : v = WithStats(cs, st) /\ last = Keys(cs)[n]
    OBVIOUS
  <2>5. DOMAIN v = DOMAIN cs /\ last \in DOMAIN cs /\ v[last] = WornWith(cs[last], st)
    BY <2>3, <2>4, WithStatsIs
  <2>6. v[last].stats = st
    BY <2>5 DEF WornWith
  <2>7. st \in { v[c].stats : c \in DOMAIN v }
    BY <2>5, <2>6
  <2>8. QED
    BY <2>1, <2>2, <2>4, <2>7
<1>2. QED
  BY <1>1, BankInvariant, PTL
=============================================================================
