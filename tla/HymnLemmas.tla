----------------------------- MODULE HymnLemmas -----------------------------
(***************************************************************************)
(* What the proofs about the Hymn virtual machine need of numbers,         *)
(* sequences and recursive functions.  Induction is stated over sets: a    *)
(* set of numbers that is not empty has a least element, so a set that     *)
(* holds 0 and the successor of each of its members is an interval.        *)
(***************************************************************************)
EXTENDS Integers, SequencesExt, FiniteSetTheorems, TLAPS

\* A set of natural numbers that is not empty has a least element.  The proof
\* rests on the order of the finite sets 0..n by inclusion.
LEMMA Least ==
  ASSUME NEW T \in SUBSET Nat, T # {}
  PROVE  \E n \in T : \A m \in T : n <= m
<1> DEFINE Down == {0..n : n \in T}
<1>1. IsWellFoundedOn(StrictSubsetOrdering(Nat), FiniteSubsetsOf(Nat))
  BY FS_StrictSubsetOrderingWellFounded
<1>2. Down \subseteq FiniteSubsetsOf(Nat)
  <2>1. \A n \in Nat : IsFiniteSet(0..n) /\ 0..n \subseteq Nat
    BY FS_Interval
  <2> QED
    BY <2>1 DEF FiniteSubsetsOf
<1>3. PICK x \in Down : \A y \in Down : <<y, x>> \notin StrictSubsetOrdering(Nat)
  <2>1. Down # {}
    OBVIOUS
  <2> HIDE DEF Down
  <2> QED
    BY <1>1, <1>2, <2>1, WFMin
<1>4. PICK n \in T : x = 0..n
  BY <1>3
<1>5. ASSUME NEW m \in T, m < n PROVE FALSE
  <2>1. 0..m \in Down
    OBVIOUS
  <2>2. 0..m \subseteq 0..n /\ n \notin 0..m /\ n \in 0..n
    BY <1>5
  <2>3. <<0..m, x>> \in StrictSubsetOrdering(Nat)
    BY <1>4, <2>2 DEF StrictSubsetOrdering
  <2> QED
    BY <1>3, <2>1, <2>3
<1> QED
  BY <1>5

\* Induction up to a number: what holds of 0 and goes on to the next holds.
LEMMA Induction ==
  ASSUME NEW n \in Nat, NEW P, 0 \in P, \A i \in 1..n : i - 1 \in P => i \in P
  PROVE  \A i \in 0..n : i \in P
<1> DEFINE T == {i \in 0..n : i \notin P}
<1>1. SUFFICES ASSUME T # {} PROVE FALSE
  OBVIOUS
<1>2. PICK i \in T : \A j \in T : i <= j
  <2>1. T \in SUBSET Nat
    OBVIOUS
  <2> HIDE DEF T
  <2> QED
    BY <1>1, <2>1, Least
<1>3. i \in 1..n /\ i - 1 \in 0..n /\ i - 1 \notin T
  BY <1>2
<1> QED
  BY <1>2, <1>3

\* f is where so many steps from the base lead
Iterates(f, V, n, base, step) ==
  /\ f \in [0..n -> V]
  /\ f[0] = base
  /\ \A i \in 1..n : f[i] = step[i][f[i - 1]]

\* A step that is a function can be taken any number of times: there is a
\* function of the number of steps taken.
LEMMA Iteration ==
  ASSUME NEW V, NEW n \in Nat, NEW base \in V, NEW step \in [1..n -> [V -> V]]
  PROVE  \E f : Iterates(f, V, n, base, step)
<1> DEFINE Steps(f, m) == f[0] = base /\ \A i \in 1..m : f[i] = step[i][f[i - 1]]
           P == {m \in 0..n : \E f \in [0..m -> V] : Steps(f, m)}
<1>1. 0 \in P
  <2> DEFINE f == [i \in 0..0 |-> base]
  <2>1. f \in [0..0 -> V] /\ Steps(f, 0) /\ 0 \in 0..n
    OBVIOUS
  <2> HIDE DEF f, Steps
  <2> QED
    BY <2>1
<1>2. ASSUME NEW m \in 1..n, m - 1 \in P PROVE m \in P
  <2>1. PICK f \in [0..(m - 1) -> V] : Steps(f, m - 1)
    BY <1>2
  <2> DEFINE g == [i \in 0..m |-> IF i = m THEN step[m][f[m - 1]] ELSE f[i]]
  <2>2. g \in [0..m -> V]
    <3>1. f[m - 1] \in V /\ step[m] \in [V -> V]
      BY <2>1
    <3> QED
      BY <2>1, <3>1
  <2>3. g[0] = base
    BY <2>1
  <2>4. ASSUME NEW i \in 1..m PROVE g[i] = step[i][g[i - 1]]
    <3>1. i - 1 \in 0..m /\ i - 1 # m /\ i \in 0..m
      OBVIOUS
    <3>2. g[i - 1] = f[i - 1]
      BY <3>1
    <3>3. CASE i = m
      BY <3>1, <3>2, <3>3
    <3>4. CASE i # m
      <4>1. i \in 1..(m - 1)
        BY <3>4
      <4> QED
        BY <2>1, <3>1, <3>2, <3>4, <4>1
    <3> QED
      BY <3>3, <3>4
  <2> HIDE DEF g
  <2>5. Steps(g, m) /\ m \in 0..n
    BY <2>3, <2>4
  <2> HIDE DEF Steps
  <2> QED
    BY <2>2, <2>5
<1>3. n \in 0..n
  OBVIOUS
<1> HIDE DEF P
<1>4. n \in P
  BY <1>1, <1>2, <1>3, Induction
<1> QED
  BY <1>4 DEF P, Iterates

\* The least element of a set of natural numbers
LEMMA MinFacts ==
  ASSUME NEW S \in SUBSET Nat, S # {}
  PROVE  Min(S) \in S /\ \A x \in S : Min(S) <= x
BY Least DEF Min

\* The greatest element of a set of natural numbers that has a bound
LEMMA MaxFacts ==
  ASSUME NEW n \in Nat, NEW S \in SUBSET (0..n), S # {}
  PROVE  Max(S) \in S /\ \A x \in S : x <= Max(S)
<1> DEFINE T == {x \in 0..n : n - x \in S}
<1>1. T \in SUBSET Nat /\ T # {}
  <2>1. PICK x \in S : TRUE
    OBVIOUS
  <2>2. n - x \in T
    <3>1. n - x \in 0..n /\ n - (n - x) = x
      OBVIOUS
    <3> QED
      BY <3>1
  <2>3. T \in SUBSET Nat
    OBVIOUS
  <2> QED
    BY <2>2, <2>3
<1>2. PICK x \in T : \A y \in T : x <= y
  <2> HIDE DEF T
  <2> QED
    BY <1>1, Least
<1>3. n - x \in S /\ \A y \in S : y <= n - x
  <2>1. \A y \in S : n - y \in T
    OBVIOUS
  <2> QED
    BY <1>2, <2>1
<1> QED
  BY <1>3 DEF Max

\* A remainder is what is left of a multiple.
LEMMA Remainders ==
  ASSUME NEW h \in Nat, NEW d \in Nat \ {0}, NEW q \in Nat, NEW r \in 0..(d - 1), h = (d * q) + r
  PROVE  h % d = r /\ h \div d = q
BY SMT

\* The last bits of a number are the last but one and the one above them.
LEMMA NextBit ==
  ASSUME NEW h \in Nat, NEW d \in Nat \ {0}
  PROVE  /\ h % (2 * d) = (h % d) + (d * ((h \div d) % 2))
         /\ h % d \in 0..(d - 1) /\ (h \div d) % 2 \in 0..1
<1>1. PICK q \in Nat, r \in 0..(d - 1) : h = (d * q) + r /\ h % d = r /\ h \div d = q
  BY SMT
<1>2. PICK p \in Nat, e \in 0..1 : q = (2 * p) + e /\ q % 2 = e
  BY SMT
<1>3. h = ((2 * d) * p) + ((d * e) + r)
  BY <1>1, <1>2, SMT
<1>4. (d * e) + r \in 0..((2 * d) - 1) /\ 2 * d \in Nat \ {0}
  BY <1>1, <1>2, SMT
<1>5. h % (2 * d) = (d * e) + r
  <2> DEFINE u == (d * e) + r  c == 2 * d
  <2>1. h = (c * p) + u /\ u \in 0..(c - 1) /\ c \in Nat \ {0}
    BY <1>3, <1>4
  <2> HIDE DEF u, c
  <2>2. h % c = u
    BY <2>1, Remainders
  <2> QED
    BY <2>2 DEF u, c
<1> QED
  BY <1>1, <1>2, <1>5, SMT

\* Two sequences joined: the elements of the first, then those of the second.
LEMMA JoinFacts ==
  ASSUME NEW S, NEW a \in Seq(S), NEW b \in Seq(S), NEW m \in Nat, NEW n \in Nat, m = Len(a), n = Len(b)
  PROVE  /\ a \o b \in Seq(S)
         /\ Len(a \o b) = m + n
         /\ \A j \in 1..m : (a \o b)[j] = a[j]
         /\ \A j \in (m + 1)..(m + n) : (a \o b)[j] = b[j - m]
<1>1. a \o b \in Seq(S)
  OBVIOUS
<1>2. Len(a \o b) = m + n
  BY SMTT(60)
<1>3. \A j \in 1..m : (a \o b)[j] = a[j]
  BY SMTT(60)
<1>4. \A j \in (m + 1)..(m + n) : (a \o b)[j] = b[j - m]
  BY SMTT(60)
<1> QED
  BY <1>1, <1>2, <1>3, <1>4

\* RemoveAt takes one element out and keeps the order of the others.
LEMMA RemoveFacts ==
  ASSUME NEW S, NEW s \in Seq(S), NEW i \in DOMAIN s
  PROVE  /\ RemoveAt(s, i) \in Seq(S)
         /\ Len(RemoveAt(s, i)) = Len(s) - 1
         /\ \A j \in 1..(Len(s) - 1) : RemoveAt(s, i)[j] = IF j < i THEN s[j] ELSE s[j + 1]
<1> DEFINE a == SubSeq(s, 1, i - 1)  b == SubSeq(s, i + 1, Len(s))
<1>1. i \in 1..Len(s) /\ Len(s) \in Nat /\ \A j \in 1..Len(s) : s[j] \in S
  OBVIOUS
<1>2. a \in Seq(S) /\ Len(a) = i - 1 /\ \A j \in 1..(i - 1) : a[j] = s[j]
  BY <1>1
<1>3. b \in Seq(S) /\ Len(b) = Len(s) - i /\ \A j \in 1..(Len(s) - i) : b[j] = s[i + j]
  BY <1>1
<1> HIDE DEF a, b
<1> DEFINE m == i - 1  n == Len(s) - i  t == a \o b
<1>a. m \in Nat /\ n \in Nat /\ m = Len(a) /\ n = Len(b) /\ m + n = Len(s) - 1
  BY <1>1, <1>2, <1>3
<1>b. a \in Seq(S) /\ b \in Seq(S)
  BY <1>2, <1>3
<1>c. /\ t \in Seq(S) /\ Len(t) = m + n /\ \A j \in 1..m : t[j] = a[j]
      /\ \A j \in (m + 1)..(m + n) : t[j] = b[j - m]
  <2> HIDE DEF m, n
  <2> QED
    BY <1>a, <1>b, JoinFacts DEF t
<1> HIDE DEF t
<1>4. t \in Seq(S) /\ Len(t) = Len(s) - 1
  BY <1>a, <1>c
<1>5. ASSUME NEW j \in 1..(Len(s) - 1)
      PROVE  t[j] = IF j < i THEN s[j] ELSE s[j + 1]
  <2>1. CASE j < i
    <3>1. j \in 1..(i - 1) /\ j \in 1..m
      BY <1>1, <2>1
    <3>2. t[j] = a[j]
      BY <1>c, <3>1
    <3> QED
      BY <1>2, <2>1, <3>1, <3>2
  <2>2. CASE i <= j
    <3>1. j - m \in 1..(Len(s) - i) /\ i + (j - m) = j + 1 /\ ~(j < i) /\ j \in (m + 1)..(m + n)
      BY <1>1, <2>2
    <3> HIDE DEF m, n
    <3>2. t[j] = b[j - m]
      BY <1>c, <3>1
    <3>3. b[j - m] = s[j + 1]
      BY <1>3, <3>1
    <3> QED
      BY <3>1, <3>2, <3>3
  <2>3. j < i \/ i <= j
    BY <1>1
  <2> QED
    BY <2>1, <2>2, <2>3
<1> QED
  BY <1>4, <1>5 DEF RemoveAt, a, b, t

\* InsertAt puts an element in and keeps the order of the others.
LEMMA InsertFacts ==
  ASSUME NEW S, NEW s \in Seq(S), NEW i \in 1..(Len(s) + 1), NEW e \in S
  PROVE  /\ InsertAt(s, i, e) \in Seq(S)
         /\ Len(InsertAt(s, i, e)) = Len(s) + 1
         /\ \A j \in 1..(Len(s) + 1) :
              InsertAt(s, i, e)[j] = IF j < i THEN s[j] ELSE IF j = i THEN e ELSE s[j - 1]
<1> DEFINE a == SubSeq(s, 1, i - 1)  b == SubSeq(s, i, Len(s))  c == a \o <<e>>
<1>1. Len(s) \in Nat /\ \A j \in 1..Len(s) : s[j] \in S
  OBVIOUS
<1>2. a \in Seq(S) /\ Len(a) = i - 1 /\ \A j \in 1..(i - 1) : a[j] = s[j]
  BY <1>1
<1>3. b \in Seq(S) /\ Len(b) = Len(s) - i + 1 /\ \A j \in 1..(Len(s) - i + 1) : b[j] = s[i + j - 1]
  BY <1>1
<1> HIDE DEF a, b
<1> DEFINE m == i - 1  n == Len(s) - m
<1>a. m \in Nat /\ n \in Nat /\ m = Len(a) /\ n = Len(b) /\ m + 1 = i /\ i + n = Len(s) + 1 /\ i \in Nat
  BY <1>1, <1>2, <1>3
<1>b. <<e>> \in Seq(S) /\ Len(<<e>>) = 1 /\ <<e>>[1] = e
  OBVIOUS
<1>4. c \in Seq(S) /\ Len(c) = i /\ (\A j \in 1..m : c[j] = a[j]) /\ c[i] = e
  <2> HIDE DEF m, n
  <2>1. a \in Seq(S)
    BY <1>2
  <2>2. /\ c \in Seq(S) /\ Len(c) = m + 1 /\ \A j \in 1..m : c[j] = a[j]
        /\ \A j \in (m + 1)..(m + 1) : c[j] = <<e>>[j - m]
    BY <1>a, <1>b, <2>1, JoinFacts
  <2> HIDE DEF c
  <2>3. i \in (m + 1)..(m + 1) /\ i - m = 1
    BY <1>a
  <2> QED
    BY <1>a, <1>b, <2>2, <2>3
<1> HIDE DEF c
<1> DEFINE t == c \o b
<1>5. /\ t \in Seq(S) /\ Len(t) = i + n /\ \A j \in 1..i : t[j] = c[j]
      /\ \A j \in (i + 1)..(i + n) : t[j] = b[j - i]
  <2> HIDE DEF m, n
  <2>1. i \in Nat /\ n \in Nat /\ i = Len(c) /\ n = Len(b) /\ c \in Seq(S) /\ b \in Seq(S)
    BY <1>a, <1>3, <1>4
  <2> QED
    BY <2>1, JoinFacts
<1> HIDE DEF t
<1>6. ASSUME NEW j \in 1..(Len(s) + 1)
      PROVE  t[j] = IF j < i THEN s[j] ELSE IF j = i THEN e ELSE s[j - 1]
  <2>1. CASE j < i
    <3>1. j \in 1..i /\ j \in 1..m /\ j \in 1..(i - 1)
      BY <1>1, <2>1
    <3> HIDE DEF m, n
    <3>2. t[j] = c[j] /\ c[j] = a[j] /\ a[j] = s[j]
      BY <1>2, <1>4, <1>5, <3>1
    <3> QED
      BY <2>1, <3>2
  <2>2. CASE j = i
    <3>1. i \in 1..i
      BY <1>a
    <3>2. t[i] = c[i] /\ c[i] = e
      BY <1>4, <1>5, <3>1
    <3> QED
      BY <1>a, <2>2, <3>2
  <2>3. CASE i < j
    <3>1. j \in (i + 1)..(i + n) /\ j - i \in 1..(Len(s) - i + 1) /\ i + (j - i) - 1 = j - 1 /\ ~(j < i) /\ j # i
      BY <1>1, <1>a, <2>3
    <3> HIDE DEF m, n
    <3>2. t[j] = b[j - i]
      BY <1>5, <3>1
    <3>3. b[j - i] = s[j - 1]
      BY <1>3, <3>1
    <3> QED
      BY <3>1, <3>2, <3>3
  <2>4. j < i \/ j = i \/ i < j
    BY <1>1
  <2> QED
    BY <2>1, <2>2, <2>3, <2>4
<1>7. t \in Seq(S) /\ Len(t) = Len(s) + 1
  BY <1>a, <1>5
<1> QED
  BY <1>6, <1>7 DEF InsertAt, a, b, c, t

\* The numbers below 2 * n are two rows of n numbers.
LEMMA Halves ==
  ASSUME NEW n \in Nat \ {0}
  PROVE  /\ \A a \in 0..((2 * n) - 1) :
              /\ a % n \in 0..(n - 1) /\ a \div n \in 0..1
              /\ a = (n * (a \div n)) + (a % n) /\ a = (a % n) + (n * (a \div n))
         /\ \A b \in 0..(n - 1), h \in 0..1 :
              /\ (n * h) + b \in 0..((2 * n) - 1)
              /\ ((n * h) + b) % n = b /\ ((n * h) + b) \div n = h
<1>1. ASSUME NEW a \in 0..((2 * n) - 1)
      PROVE  /\ a % n \in 0..(n - 1) /\ a \div n \in 0..1
             /\ a = (n * (a \div n)) + (a % n) /\ a = (a % n) + (n * (a \div n))
  <2>1. CASE a < n
    <3>1. a = (n * 0) + a /\ a \in 0..(n - 1) /\ a \in Nat
      BY <2>1
    <3>2. a % n = a /\ a \div n = 0
      BY <3>1, Remainders
    <3> QED
      BY <3>1, <3>2
  <2>2. CASE n <= a
    <3>1. a = (n * 1) + (a - n) /\ a - n \in 0..(n - 1) /\ a \in Nat
      BY <2>2
    <3>2. a % n = a - n /\ a \div n = 1
      BY <3>1, Remainders
    <3> QED
      BY <3>1, <3>2
  <2>3. a < n \/ n <= a
    OBVIOUS
  <2> QED
    BY <2>1, <2>2, <2>3
<1>2. ASSUME NEW b \in 0..(n - 1), NEW h \in 0..1
      PROVE  /\ (n * h) + b \in 0..((2 * n) - 1)
             /\ ((n * h) + b) % n = b /\ ((n * h) + b) \div n = h
  <2>1. (n * h) + b \in 0..((2 * n) - 1)
    <3>1. CASE h = 0
      BY <3>1
    <3>2. CASE h = 1
      BY <3>2
    <3> QED
      BY <3>1, <3>2
  <2> DEFINE a == (n * h) + b
  <2>2. a \in Nat /\ h \in Nat /\ a = (n * h) + b
    BY <2>1
  <2> HIDE DEF a
  <2>3. a % n = b /\ a \div n = h
    BY <2>2, Remainders
  <2> QED
    BY <2>1, <2>3 DEF a
<1> QED
  BY <1>1, <1>2
\* A function that is defined by what comes after, up to a bound, exists.
LEMMA Descent ==
  ASSUME NEW n \in Nat, NEW V, V # {}, NEW T \in [[Nat -> V] -> [Nat -> V]],
         \A f, g \in [Nat -> V], i \in Nat :
           (i < n => \A j \in Nat : i < j => f[j] = g[j]) => T[f][i] = T[g][i]
  PROVE  \E f \in [Nat -> V] : f = T[f]
<1> DEFINE W == [Nat -> V]
           step == [k \in 1..(n + 2) |-> T]
<1>1. PICK base \in W : TRUE
  <2>1. PICK v \in V : TRUE
    OBVIOUS
  <2>2. [i \in Nat |-> v] \in W
    OBVIOUS
  <2> QED
    BY <2>2
<1>2. PICK s : Iterates(s, W, n + 2, base, step)
  <2>1. n + 2 \in Nat /\ step \in [1..(n + 2) -> [W -> W]]
    OBVIOUS
  <2> HIDE DEF step, W
  <2> QED
    BY <1>1, <2>1, Iteration
<1>3. s \in [0..(n + 2) -> W] /\ \A k \in 1..(n + 2) : s[k] = T[s[k - 1]]
  BY <1>2 DEF Iterates
<1> HIDE DEF step
<1> DEFINE P == {m \in 0..n : \A i \in Nat : n <= i + m => s[m + 2][i] = s[m + 1][i]}
<1>4. 0 \in P
  <2>1. s[2] = T[s[1]] /\ s[1] = T[s[0]] /\ s[1] \in W /\ s[0] \in W
    BY <1>3
  <2>2. ASSUME NEW i \in Nat, n <= i PROVE s[2][i] = s[1][i]
    BY <2>1, <2>2
  <2> QED
    BY <2>2
<1>5. ASSUME NEW m \in 1..n, m - 1 \in P PROVE m \in P
  <2>1. s[m + 2] = T[s[m + 1]] /\ s[m + 1] = T[s[m]] /\ s[m + 1] \in W /\ s[m] \in W
    <3>1. /\ m + 2 \in 1..(n + 2) /\ m + 1 \in 1..(n + 2) /\ m + 1 \in 0..(n + 2) /\ m \in 0..(n + 2)
          /\ (m + 2) - 1 = m + 1 /\ (m + 1) - 1 = m
      OBVIOUS
    <3>2. s[m + 2] = T[s[(m + 2) - 1]] /\ s[m + 1] = T[s[(m + 1) - 1]]
      BY <1>3, <3>1
    <3>3. s[m + 1] \in W /\ s[m] \in W
      BY <1>3, <3>1
    <3> QED
      BY <3>1, <3>2, <3>3
  <2>2. \A i \in Nat : n <= i + (m - 1) => s[m + 1][i] = s[m][i]
    <3>1. (m - 1) + 2 = m + 1 /\ (m - 1) + 1 = m
      OBVIOUS
    <3> QED
      BY <1>5, <3>1
  <2>3. ASSUME NEW i \in Nat, n <= i + m PROVE s[m + 2][i] = s[m + 1][i]
    <3>1. ASSUME NEW j \in Nat, i < j PROVE s[m + 1][j] = s[m][j]
      <4>1. n <= j + (m - 1)
        BY <2>3, <3>1
      <4> QED
        BY <2>2, <4>1
    <3>2. T[s[m + 1]][i] = T[s[m]][i]
      BY <2>1, <3>1
    <3> QED
      BY <2>1, <3>2
  <2> QED
    BY <2>3
<1>6. n \in 0..n
  OBVIOUS
<1> HIDE DEF P
<1>7. n \in P
  BY <1>4, <1>5, <1>6, Induction
<1>8. \A i \in Nat : s[n + 2][i] = s[n + 1][i]
  BY <1>7 DEF P
<1>9. s[n + 2] = T[s[n + 1]] /\ s[n + 2] \in W /\ s[n + 1] \in W
  <2>1. n + 2 \in 1..(n + 2) /\ n + 1 \in 0..(n + 2) /\ (n + 2) - 1 = n + 1
    OBVIOUS
  <2> QED
    BY <1>3, <2>1
<1>10. s[n + 2] = s[n + 1]
  BY <1>8, <1>9
<1> QED
  BY <1>9, <1>10


=============================================================================
