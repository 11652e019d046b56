----------------------------- MODULE DataLemmas -----------------------------
(***************************************************************************)
(* Induction over numbers, functions defined by recursion and lines of     *)
(* things that wait, which the proofs of several components rest on.       *)
(* Induction is stated for a set instead of a predicate, so that it can be *)
(* cited with the set of the numbers for which a claim holds.              *)
(***************************************************************************)
EXTENDS Integers, Sequences, WellFoundedInduction, TLAPS

\* A set of naturals that is not empty has a smallest element.
LEMMA Smallest ==
  ASSUME NEW T, T \subseteq Nat, T # {}
  PROVE  \E x \in T : \A y \in T : x <= y
<1>1. \E x \in T : \A y \in T : ~(<<y, x>> \in OpToRel(<, Nat))
  BY NatLessThanWellFounded, WFMin, Zenon
<1>2. \A x, y \in Nat : <<y, x>> \in OpToRel(<, Nat) <=> y < x
  BY DEF OpToRel
<1>3. PICK x \in T : \A y \in T : ~(<<y, x>> \in OpToRel(<, Nat))
  BY <1>1
<1>4. \A y \in T : ~(y < x)
  BY <1>2, <1>3
<1> QED
  BY <1>4

\* A set of numbers with 0 and with the successor of each of its elements
\* holds all naturals.
LEMMA Induction ==
  ASSUME NEW T, 0 \in T, \A n \in Nat : n \in T => n + 1 \in T
  PROVE  \A n \in Nat : n \in T
<1> SUFFICES ASSUME Nat \ T # {} PROVE FALSE
  OBVIOUS
<1>1. PICK x \in Nat \ T : \A y \in Nat \ T : x <= y
  BY Smallest
<1>2. x # 0 /\ x - 1 \in Nat /\ x - 1 \notin Nat \ T
  BY <1>1
<1> QED
  BY <1>2

-----------------------------------------------------------------------------
(* Recursion over the numbers up to N *)

\* The values of f up to k, each of which follows from the one before it.
Follows(f, k, base, step) == f[0] = base /\ \A n \in 1 .. k : f[n] = step[n][f[n - 1]]

\* There is such a function.
LEMMA Recursion ==
  ASSUME NEW N \in Nat, NEW X, NEW base \in X, NEW step \in [1 .. N -> [X -> X]]
  PROVE  \E f \in [0 .. N -> X] : Follows(f, N, base, step)
<1> DEFINE Upto(f, k) == Follows(f, k, base, step)
           T == {k \in Nat : k <= N => \E f \in [0 .. k -> X] : Upto(f, k)}
<1>1. 0 \in T
  <2>1. [n \in 0 .. 0 |-> base] \in [0 .. 0 -> X] /\ Upto([n \in 0 .. 0 |-> base], 0)
    BY DEF Follows
  <2> QED
    BY <2>1
<1>2. ASSUME NEW k \in Nat, k \in T PROVE k + 1 \in T
  <2> SUFFICES ASSUME k + 1 <= N PROVE \E f \in [0 .. k + 1 -> X] : Upto(f, k + 1)
    OBVIOUS
  <2>1. PICK f \in [0 .. k -> X] : Upto(f, k)
    BY <1>2
  <2> DEFINE g == [n \in 0 .. k + 1 |-> IF n = k + 1 THEN step[k + 1][f[k]] ELSE f[n]]
  <2>2. step[k + 1][f[k]] \in X
    <3>1. k + 1 \in 1 .. N /\ f[k] \in X
      OBVIOUS
    <3>2. step[k + 1] \in [X -> X]
      BY <3>1
    <3> QED
      BY <3>1, <3>2
  <2>3. g \in [0 .. k + 1 -> X]
    BY <2>2
  <2>4. /\ \A n \in 0 .. k : g[n] = f[n]
        /\ g[k + 1] = step[k + 1][f[k]]
    OBVIOUS
  <2> HIDE DEF g
  <2>5. Upto(g, k + 1)
    <3>1. g[0] = base
      BY <2>1, <2>4 DEF Follows
    <3>2. ASSUME NEW n \in 1 .. k PROVE g[n] = step[n][g[n - 1]]
      <4>1. n \in 0 .. k /\ n - 1 \in 0 .. k
        OBVIOUS
      <4>2. f[n] = step[n][f[n - 1]]
        BY <2>1 DEF Follows
      <4> QED
        BY <2>4, <4>1, <4>2
    <3>3. g[k + 1] = step[k + 1][g[k + 1 - 1]]
      BY <2>4
    <3> QED
      BY <3>1, <3>2, <3>3 DEF Follows
  <2> QED
    BY <2>3, <2>5
<1>3. N \in T
  <2> HIDE DEF T
  <2> QED
    BY <1>1, <1>2, Induction
<1> QED
  BY <1>3

-----------------------------------------------------------------------------
(* Lines: sequences that are joined at the end and left anywhere *)

\* Nothing is in a list twice.
Once(list) == \A i, j \in DOMAIN list : list[i] = list[j] => i = j

\* h is in the line, and g is in it before h.
Has(line, h) == \E i \in DOMAIN line : line[i] = h
Precedes(line, g, h) == \E i, j \in DOMAIN line : i < j /\ line[i] = g /\ line[j] = h

\* A new one at the end comes before nobody.
LEMMA LineGrows ==
  ASSUME NEW S, NEW line \in Seq(S), NEW h \in S, Once(line), ~Has(line, h)
  PROVE  /\ Append(line, h) \in Seq(S) /\ Once(Append(line, h))
         /\ \A g : Has(Append(line, h), g) <=> g = h \/ Has(line, g)
         /\ \A g, k : k # h /\ Precedes(Append(line, h), g, k) => Precedes(line, g, k)
<1> DEFINE t == Append(line, h)
<1>1. /\ t \in Seq(S) /\ DOMAIN t = 1 .. Len(line) + 1 /\ DOMAIN line = 1 .. Len(line)
      /\ Len(line) \in Nat /\ t[Len(line) + 1] = h
      /\ \A i \in 1 .. Len(line) : t[i] = line[i]
  OBVIOUS
<1> HIDE DEF t
<1>2. Once(t)
  BY <1>1 DEF Once, Has
<1>3. ASSUME NEW g PROVE Has(t, g) <=> g = h \/ Has(line, g)
  BY <1>1 DEF Has
<1>4. ASSUME NEW g, NEW k, k # h, Precedes(t, g, k) PROVE Precedes(line, g, k)
  <2>1. PICK i, j \in DOMAIN t : i < j /\ t[i] = g /\ t[j] = k
    BY <1>4 DEF Precedes
  <2>2. j \in 1 .. Len(line) /\ i \in 1 .. Len(line)
    BY <1>1, <1>4, <2>1
  <2> QED
    BY <1>1, <2>1, <2>2 DEF Precedes
<1> QED
  BY <1>1, <1>2, <1>3, <1>4 DEF t

\* The line without its i-th.
Closed(line, i) == [j \in 1 .. Len(line) - 1 |-> line[IF j < i THEN j ELSE j + 1]]

\* Where one leaves, those behind it move up and keep their order.
LEMMA LineCloses ==
  ASSUME NEW S, NEW line \in Seq(S), Once(line), NEW i \in DOMAIN line
  PROVE  /\ Closed(line, i) \in Seq(S) /\ Once(Closed(line, i))
         /\ \A g : Has(Closed(line, i), g) <=> g # line[i] /\ Has(line, g)
         /\ \A g, k : Precedes(Closed(line, i), g, k) => Precedes(line, g, k)
<1> DEFINE t == Closed(line, i)
<1>0. t = [j \in 1 .. Len(line) - 1 |-> line[IF j < i THEN j ELSE j + 1]]
  BY DEF Closed
<1> HIDE DEF t
<1>1. /\ Len(line) \in Nat /\ i \in 1 .. Len(line) /\ DOMAIN line = 1 .. Len(line)
      /\ \A j \in 1 .. Len(line) : line[j] \in S
  OBVIOUS
<1>2. DOMAIN t = 1 .. Len(line) - 1 /\ Len(line) - 1 \in Nat
  BY <1>0, <1>1
<1>3. \A j \in 1 .. Len(line) - 1 : t[j] = line[IF j < i THEN j ELSE j + 1]
  BY <1>0
<1>4. \A j \in 1 .. Len(line) - 1 : (IF j < i THEN j ELSE j + 1) \in 1 .. Len(line) \ {i}
  BY <1>1
<1>5. t \in Seq(S)
  <2>1. \A j \in 1 .. Len(line) - 1 : t[j] \in S
    BY <1>1, <1>3, <1>4, Zenon
  <2>2. t \in [1 .. Len(line) - 1 -> S]
    BY <1>0, <2>1
  <2> QED
    BY <1>2, <2>2
<1>6. Once(t)
  <2> SUFFICES ASSUME NEW j \in 1 .. Len(line) - 1, NEW k \in 1 .. Len(line) - 1, t[j] = t[k]
               PROVE  j = k
    BY <1>2 DEF Once
  <2>1. (IF j < i THEN j ELSE j + 1) = (IF k < i THEN k ELSE k + 1)
    BY <1>1, <1>3, <1>4, Zenon DEF Once
  <2> QED
    BY <1>1, <2>1
<1>7. ASSUME NEW g, Has(t, g) PROVE g # line[i] /\ Has(line, g)
  <2>1. PICK j \in 1 .. Len(line) - 1 : t[j] = g
    BY <1>2, <1>7 DEF Has
  <2> DEFINE k == IF j < i THEN j ELSE j + 1
  <2>2. k \in 1 .. Len(line) /\ k # i /\ line[k] = g
    BY <1>3, <1>4, <2>1
  <2> HIDE DEF k
  <2> QED
    BY <1>1, <2>2 DEF Has, Once
<1>8. ASSUME NEW g, g # line[i], Has(line, g) PROVE Has(t, g)
  <2>1. PICK k \in 1 .. Len(line) : line[k] = g
    BY <1>1, <1>8 DEF Has
  <2>2. CASE k < i
    <3>1. k \in 1 .. Len(line) - 1 /\ t[k] = line[k]
      BY <1>1, <1>3, <2>2
    <3> QED
      BY <1>2, <2>1, <3>1 DEF Has
  <2>3. CASE i < k
    <3> DEFINE j == k - 1
    <3>1. j \in 1 .. Len(line) - 1 /\ ~(j < i) /\ j + 1 = k
      BY <1>1, <2>3
    <3> HIDE DEF j
    <3>2. t[j] = line[k]
      BY <1>3, <3>1
    <3> QED
      BY <1>2, <2>1, <3>1, <3>2 DEF Has
  <2> QED
    BY <1>1, <1>8, <2>1, <2>2, <2>3
<1>9. ASSUME NEW g, NEW k, Precedes(t, g, k) PROVE Precedes(line, g, k)
  <2>1. PICK a, b \in 1 .. Len(line) - 1 : a < b /\ t[a] = g /\ t[b] = k
    BY <1>2, <1>9 DEF Precedes
  <2> DEFINE c == IF a < i THEN a ELSE a + 1
             d == IF b < i THEN b ELSE b + 1
  <2>2. c \in 1 .. Len(line) /\ d \in 1 .. Len(line) /\ line[c] = g /\ line[d] = k
    BY <1>3, <1>4, <2>1
  <2>3. c < d
    BY <1>1, <2>1
  <2> HIDE DEF c, d
  <2> QED
    BY <1>1, <2>2, <2>3, Zenon DEF Precedes
<1> QED
  BY <1>5, <1>6, <1>7, <1>8, <1>9, Zenon DEF t

\* That the first is served is the same, for the first place.
LEMMA LineIsServed ==
  ASSUME NEW S, NEW line \in Seq(S), Once(line), line # <<>>
  PROVE  /\ Head(line) \in S /\ Has(line, Head(line))
         /\ Tail(line) \in Seq(S) /\ Once(Tail(line))
         /\ \A g : Has(Tail(line), g) <=> g # Head(line) /\ Has(line, g)
         /\ \A g, k : Precedes(Tail(line), g, k) => Precedes(line, g, k)
<1> DEFINE t == Tail(line)
<1>1. /\ Len(line) \in Nat \ {0} /\ DOMAIN line = 1 .. Len(line) /\ line[1] = Head(line)
      /\ line[1] \in S /\ 1 \in DOMAIN line
  OBVIOUS
<1>2. /\ t \in Seq(S) /\ Len(t) = Len(line) - 1
      /\ \A j \in 1 .. Len(line) - 1 : t[j] = line[j + 1]
  OBVIOUS
<1> HIDE DEF t
<1>3. t \in [1 .. Len(line) - 1 -> S]
  BY <1>2
<1>4. t = [j \in 1 .. Len(line) - 1 |-> t[j]]
  BY <1>3, Zenon
<1>5. \A j \in 1 .. Len(line) - 1 : t[j] = line[IF j < 1 THEN j ELSE j + 1]
  BY <1>1, <1>2
<1>6. t = Closed(line, 1)
  BY <1>4, <1>5 DEF Closed
<1>7. /\ Once(t)
      /\ \A g : Has(t, g) <=> g # line[1] /\ Has(line, g)
      /\ \A g, k : Precedes(t, g, k) => Precedes(line, g, k)
  BY <1>1, <1>6, LineCloses, Zenon
<1>8. Has(line, line[1])
  BY <1>1, Zenon DEF Has
<1> QED
  BY <1>1, <1>2, <1>7, <1>8, Zenon DEF t
=============================================================================
