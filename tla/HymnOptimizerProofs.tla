------------------------ MODULE HymnOptimizerProofs ------------------------
(***************************************************************************)
(* Proofs about HymnOptimizer.                                             *)
(***************************************************************************)
EXTENDS HymnOptimizer, HymnLemmas

-----------------------------------------------------------------------------
(* Names and bytes of instructions *)

\* An instruction takes one to five bytes, and next() says too many for two of them.
LEMMA Sizes ==
  ASSUME NEW name
  PROVE  /\ Width(name) \in 1..5 /\ Size(name) \in 1..5 /\ Width(name) <= Size(name)
         /\ name \notin {"EXISTS", "PRINT"} => Size(name) = Width(name)
         /\ name \in {"EXISTS", "PRINT"} => Size(name) = 2 /\ Width(name) = 1
BY DEF Size, Width, ConditionalJumps

\* A jump has three bytes or more, whose last two are its distance.
LEMMA JumpSizes ==
  ASSUME NEW name \in Jumping
  PROVE  /\ Width(name) \in 3..5 /\ Size(name) = Width(name)
         /\ name \in Backward <=> name \notin Forward
BY DEF Size, Width, ConditionalJumps, Jumping, Forward, Backward

\* The bytes of the instructions that the rules are about.
LEMMA KnownSizes ==
  /\ \A name \in {"ADD", "ARRAY_PUSH", "MODULO", "RETURN", "POP", "POP_TWO", "VOID", "LESS_EQUAL", "TRUE", "FALSE",
                  "NOT", "EQUAL", "NOT_EQUAL", "LESS", "GREATER", "GREATER_EQUAL", "NEGATE", "BIT_NOT",
                  "SUBTRACT", "MULTIPLY", "DIVIDE"} \cup BitOps : Width(name) = 1 /\ Size(name) = 1
  /\ \A name \in {"CALL", "TAIL_CALL", "POP_N", "GET_LOCAL", "GET_GLOBAL", "GET_PROPERTY", "CONSTANT",
                  "SET_LOCAL", "INCREMENT"} : Width(name) = 2 /\ Size(name) = 2
  /\ \A name \in {"INCREMENT_LOCAL_AND_SET", "INCREMENT_LOCAL", "GET_LOCALS", "GET_GLOBAL_PROPERTY", "ADD_LOCALS",
                  "MODULO_LOCALS", "ARRAY_PUSH_LOCALS", "JUMP", "LOOP"} \cup ConditionalJumps : Width(name) = 3 /\ Size(name) = 3
  /\ \A name \in {"JUMP_IF_GREATER_LOCALS", "INCREMENT_LOOP"} : Width(name) = 5 /\ Size(name) = 5
BY DEF Size, Width, ConditionalJumps, BitOps

\* The byte of an instruction is read as that instruction.
LEMMA OpBytes ==
  ASSUME NEW name \in Range(OpCodes)
  PROVE  Op[name] \in Nat /\ Op[name] < Len(OpCodes) /\ OpCodes[Op[name] + 1] = name
<1>1. \E k \in DOMAIN OpCodes : OpCodes[k] = name
  BY DEF Range
<1> DEFINE k == CHOOSE k \in DOMAIN OpCodes : OpCodes[k] = name
<1>2. k \in DOMAIN OpCodes /\ OpCodes[k] = name
  BY <1>1
<1>3. Op[name] = k - 1
  BY DEF Op
<1>4. DOMAIN OpCodes = 1..89 /\ Len(OpCodes) = 89
  BY DEF OpCodes
<1> HIDE DEF k
<1>5. k - 1 \in Nat /\ k - 1 < 89 /\ (k - 1) + 1 = k
  BY <1>2, <1>4
<1> QED
  BY <1>2, <1>3, <1>4, <1>5

\* The names that the rules write are names of instructions.
LEMMA KnownNames ==
  {"INCREMENT_LOOP", "GET_LOCALS", "JUMP_IF_GREATER_LOCALS", "POP_TWO", "POP_N", "TAIL_CALL",
   "GET_GLOBAL_PROPERTY", "INCREMENT_LOCAL", "ADD_LOCALS", "MODULO_LOCALS", "ARRAY_PUSH_LOCALS",
   "INCREMENT_LOCAL_AND_SET", "INCREMENT", "JUMP", "VOID"} \cup ConditionalJumps \subseteq Range(OpCodes)
<1>1. \A k \in 1..89 : OpCodes[k] \in Range(OpCodes)
  BY DEF Range, OpCodes
<1> QED
  BY <1>1 DEF OpCodes, ConditionalJumps

-----------------------------------------------------------------------------
(* Changes of a sequence of bytes *)

\* Every byte is a number; the one past the end is VOID.
LEMMA ByteFacts ==
  ASSUME NEW code \in Seq(Nat), NEW x
  PROVE  /\ Byte(code, x) \in Nat
         /\ x \in 0..(Len(code) - 1) => Byte(code, x) = code[x + 1]
         /\ x \notin 0..(Len(code) - 1) => Byte(code, x) = Op["VOID"]
<1>1. Op["VOID"] \in Nat
  BY OpBytes, KnownNames
<1>2. ASSUME x \in 0..(Len(code) - 1) PROVE code[x + 1] \in Nat
  BY <1>2
<1> QED
  BY <1>1, <1>2 DEF Byte

\* one byte of the code replaced
Put(code, at, byte) == [code EXCEPT ![at + 1] = byte]

\* One byte is written.
LEMMA PutFacts ==
  ASSUME NEW code \in Seq(Nat), NEW at \in 0..(Len(code) - 1), NEW byte \in Nat
  PROVE  /\ Put(code, at, byte) \in Seq(Nat)
         /\ Len(Put(code, at, byte)) = Len(code)
         /\ \A x \in Nat : Byte(Put(code, at, byte), x) = IF x = at THEN byte ELSE Byte(code, x)
<1> DEFINE c == Put(code, at, byte)
<1>1. c \in Seq(Nat) /\ Len(c) = Len(code)
  BY DEF Put
<1>2. ASSUME NEW x \in 0..(Len(code) - 1) PROVE c[x + 1] = IF x = at THEN byte ELSE code[x + 1]
  <2>1. x + 1 \in DOMAIN code /\ (x + 1 = at + 1 <=> x = at)
    OBVIOUS
  <2> QED
    BY <2>1 DEF Put
<1> HIDE DEF c
<1>3. ASSUME NEW x \in Nat PROVE Byte(c, x) = IF x = at THEN byte ELSE Byte(code, x)
  BY <1>1, <1>2, ByteFacts
<1> QED
  BY <1>1, <1>3 DEF c

\* The two bytes of a number of sixteen bits.
LEMMA ShortBytes ==
  ASSUME NEW short \in Nat, short <= 65535
  PROVE  256 * ((short \div 256) % 256) + (short % 256) = short
<1>1. PICK q \in Nat, r \in 0..255 : short = (256 * q) + r
  <2> DEFINE d == 256
  <2>1. d \in Nat \ {0} /\ d = 256
    OBVIOUS
  <2> HIDE DEF d
  <2>2. \E q \in Nat, r \in 0..(d - 1) : short = (d * q) + r /\ short % d = r /\ short \div d = q
    BY <2>1
  <2> QED
    BY <2>1, <2>2
<1>2. short % 256 = r /\ short \div 256 = q
  <2>1. 256 \in Nat \ {0} /\ r \in 0..(256 - 1)
    OBVIOUS
  <2> QED
    BY <1>1, <2>1, Remainders
<1>3. q % 256 = q
  <2>1. q = (256 * 0) + q /\ q \in 0..(256 - 1) /\ 256 \in Nat \ {0} /\ 0 \in Nat
    BY <1>1
  <2> QED
    BY ONLY <2>1, q \in Nat, Remainders
<1> QED
  BY <1>1, <1>2, <1>3

\* Two bytes are written: the distance of a jump.
LEMMA PutShortFacts ==
  ASSUME NEW code \in Seq(Nat), NEW at \in Nat, at + 1 < Len(code), NEW short \in Int
  PROVE  /\ PutShort(code, at, short) \in Seq(Nat)
         /\ Len(PutShort(code, at, short)) = Len(code)
         /\ \A x \in Nat \ {at, at + 1} : Byte(PutShort(code, at, short), x) = Byte(code, x)
         /\ 0 <= short /\ short <= ShortMax => Short(PutShort(code, at, short), at) = short
<1> DEFINE h == (short \div 256) % 256
           l == short % 256
           c == Put(code, at, h)
           d == Put(c, at + 1, l)
<1>1. h \in Nat /\ l \in Nat
  OBVIOUS
<1>2. 0 <= short /\ short <= ShortMax => 256 * h + l = short
  BY ShortBytes DEF ShortMax
<1>3. at \in 0..(Len(code) - 1) /\ at + 1 \in 0..(Len(code) - 1) /\ (at + 1) + 1 = at + 2
  OBVIOUS
<1>6. PutShort(code, at, short) = d
  BY <1>3 DEF PutShort, Put
<1> HIDE DEF h, l
<1>4. c \in Seq(Nat) /\ Len(c) = Len(code) /\ \A x \in Nat : Byte(c, x) = IF x = at THEN h ELSE Byte(code, x)
  BY <1>1, <1>3, PutFacts
<1> HIDE DEF c
<1>5. d \in Seq(Nat) /\ Len(d) = Len(c) /\ \A x \in Nat : Byte(d, x) = IF x = at + 1 THEN l ELSE Byte(c, x)
  <2>1. at + 1 \in 0..(Len(c) - 1) /\ l \in Nat /\ c \in Seq(Nat)
    BY <1>1, <1>3, <1>4
  <2> QED
    BY <2>1, PutFacts
<1> HIDE DEF d
<1>7. Byte(d, at) = h /\ Byte(d, at + 1) = l
  BY <1>3, <1>4, <1>5
<1> QED
  BY <1>2, <1>4, <1>5, <1>6, <1>7 DEF Short

\* Bytes are taken out, and those after them move up.
LEMMA CutFacts ==
  ASSUME NEW code \in Seq(Nat), NEW start \in Nat, NEW shift \in Nat, start + shift <= Len(code)
  PROVE  LET cut == SubSeq(code, 1, start) \o SubSeq(code, start + shift + 1, Len(code))
         IN /\ cut \in Seq(Nat)
            /\ Len(cut) = Len(code) - shift
            /\ \A x \in Nat : Byte(cut, x) = IF x < start THEN Byte(code, x) ELSE Byte(code, x + shift)
<1> DEFINE a == SubSeq(code, 1, start)
           b == SubSeq(code, start + shift + 1, Len(code))
           n == Len(code) - (start + shift)
           cut == a \o b
<1>1. Len(code) \in Nat /\ n \in Nat
  OBVIOUS
<1>2. a \in Seq(Nat) /\ Len(a) = start /\ \A j \in 1..start : a[j] = code[j]
  OBVIOUS
<1>3. b \in Seq(Nat) /\ Len(b) = n /\ \A j \in 1..n : b[j] = code[start + shift + j]
  OBVIOUS
<1> HIDE DEF a, b
<1>4. /\ cut \in Seq(Nat) /\ Len(cut) = start + n
      /\ \A j \in 1..start : cut[j] = a[j]
      /\ \A j \in (start + 1)..(start + n) : cut[j] = b[j - start]
  <2>1. a \in Seq(Nat) /\ b \in Seq(Nat) /\ start = Len(a) /\ n = Len(b) /\ n \in Nat
    BY <1>1, <1>2, <1>3
  <2> HIDE DEF n
  <2> QED
    BY <2>1, JoinFacts
<1> HIDE DEF cut
<1>5. ASSUME NEW x \in Nat PROVE Byte(cut, x) = IF x < start THEN Byte(code, x) ELSE Byte(code, x + shift)
  <2>1. CASE x < start
    <3>1. x + 1 \in 1..start /\ x \in 0..(Len(cut) - 1) /\ x \in 0..(Len(code) - 1)
      BY <1>1, <1>4, <2>1
    <3>2. Byte(cut, x) = cut[x + 1] /\ Byte(code, x) = code[x + 1]
      BY <1>4, <3>1, ByteFacts
    <3> QED
      BY <1>2, <1>4, <2>1, <3>1, <3>2
  <2>2. CASE x >= start /\ x < start + n
    <3>1. /\ x + 1 \in (start + 1)..(start + n) /\ (x + 1) - start \in 1..n /\ x \in 0..(Len(cut) - 1)
          /\ x + shift \in 0..(Len(code) - 1) /\ start + shift + ((x + 1) - start) = (x + shift) + 1
          /\ ~(x < start)
      BY <1>1, <1>4, <2>2
    <3>2. Byte(cut, x) = b[(x + 1) - start]
      BY <1>4, <3>1, ByteFacts
    <3>3. b[(x + 1) - start] = code[(x + shift) + 1]
      BY <1>3, <3>1
    <3> QED
      BY <3>1, <3>2, <3>3, ByteFacts
  <2>3. CASE x >= start + n
    <3>1. x \notin 0..(Len(cut) - 1) /\ x + shift \notin 0..(Len(code) - 1) /\ ~(x < start)
      BY <1>1, <1>4, <2>3
    <3> QED
      BY <1>4, <3>1, ByteFacts
  <2> QED
    BY <1>1, <2>1, <2>2, <2>3
<1>6. start + n = Len(code) - shift
  BY <1>1
<1> QED
  BY <1>4, <1>5, <1>6 DEF a, b, cut

-----------------------------------------------------------------------------
(* The code as a row of instructions: S is the set of their addresses *)

Framed(code, S) ==
  /\ S \subseteq 0..(Len(code) - 1)
  /\ 0 \in S \cup {Len(code)}
  /\ \A a \in S : a + Width(OpAt(code, a)) \in S \cup {Len(code)}
  /\ \A a, b \in S : a < b => a + Width(OpAt(code, a)) <= b

\* The starts are addresses of the code.
LEMMA Addresses ==
  ASSUME NEW code \in Seq(Nat), NEW S, Framed(code, S)
  PROVE  Len(code) \in Nat /\ \A a \in S : a \in Nat /\ a < Len(code)
<1> DEFINE n == Len(code)
<1>1. n \in Nat /\ S \subseteq 0..(n - 1)
  BY DEF Framed
<1> HIDE DEF n
<1>2. n \in Nat /\ \A a \in S : a \in Nat /\ a < n
  BY <1>1
<1> QED
  BY <1>2 DEF n

\* the addresses from an address on, as Starts goes through them
Walks(from, code) ==
  /\ from \in [Nat -> SUBSET Nat]
  /\ Starts(code) = from[0]
  /\ \A at \in Nat : from[at] = IF at >= Len(code) THEN {} ELSE {at} \cup from[at + Width(OpAt(code, at))]

\* Starts is well defined.
LEMMA StartsWalk ==
  ASSUME NEW code \in Seq(Nat)
  PROVE  \E from : Walks(from, code)
<1> DEFINE n == Len(code)
           W == [Nat -> SUBSET Nat]
           T == [f \in W |-> [at \in Nat |->
                  IF at >= n THEN {} ELSE {at} \cup f[at + Width(OpAt(code, at))]]]
<1>1. \A at \in Nat : at + Width(OpAt(code, at)) \in Nat /\ at < at + Width(OpAt(code, at))
  BY Sizes
<1>2. T \in [W -> W]
  <2>1. ASSUME NEW f \in W
        PROVE  [at \in Nat |-> IF at >= n THEN {} ELSE {at} \cup f[at + Width(OpAt(code, at))]] \in W
    <3>1. ASSUME NEW at \in Nat
          PROVE  (IF at >= n THEN {} ELSE {at} \cup f[at + Width(OpAt(code, at))]) \in SUBSET Nat
      BY <1>1
    <3> QED
      BY <3>1
  <2> QED
    BY <2>1
<1>3. ASSUME NEW f \in W, NEW g \in W, NEW i \in Nat, i < n => \A j \in Nat : i < j => f[j] = g[j]
      PROVE  T[f][i] = T[g][i]
  <2>1. n \in Nat
    OBVIOUS
  <2>2. i < n => f[i + Width(OpAt(code, i))] = g[i + Width(OpAt(code, i))]
    BY <1>1, <1>3
  <2>3. \A h \in W : T[h][i] = IF i >= n THEN {} ELSE {i} \cup h[i + Width(OpAt(code, i))]
    OBVIOUS
  <2> DEFINE j == i + Width(OpAt(code, i))
  <2>4. /\ T[f][i] = IF i >= n THEN {} ELSE {i} \cup f[j]
        /\ T[g][i] = IF i >= n THEN {} ELSE {i} \cup g[j]
    BY <2>3
  <2>5. i < n => f[j] = g[j]
    BY <2>2
  <2>6. i < n \/ i >= n
    BY <2>1
  <2> HIDE DEF n, T, j
  <2> QED
    BY <2>4, <2>5, <2>6
<1>4. PICK f \in W : f = T[f]
  <2> DEFINE V == SUBSET Nat
  <2>1. n \in Nat /\ V # {}
    OBVIOUS
  <2>2. T \in [[Nat -> V] -> [Nat -> V]]
    BY <1>2
  <2>3. \A h, g \in [Nat -> V], i \in Nat : (i < n => \A j \in Nat : i < j => h[j] = g[j]) => T[h][i] = T[g][i]
    <3> HIDE DEF T
    <3> QED
      BY <1>3
  <2> HIDE DEF T, n, V
  <2>4. \E h \in [Nat -> V] : h = T[h]
    BY <2>1, <2>2, <2>3, Descent
  <2> QED
    BY <2>4 DEF V
<1>5. f = [at \in Nat |-> IF at >= n THEN {} ELSE {at} \cup f[at + Width(OpAt(code, at))]]
  BY <1>4
<1> DEFINE from == CHOOSE h : h = [at \in Nat |-> IF at >= n THEN {} ELSE {at} \cup h[at + Width(OpAt(code, at))]]
<1>6. from = [at \in Nat |-> IF at >= n THEN {} ELSE {at} \cup from[at + Width(OpAt(code, at))]]
  BY <1>5
<1>7. Starts(code) = from[0]
  BY DEF Starts
<1> HIDE DEF from
<1>8. \A at \in Nat : from[at] = IF at >= n THEN {} ELSE {at} \cup from[at + Width(OpAt(code, at))]
  BY <1>6
<1>9. from \in W
  <2> DEFINE P == {m \in 0..n : \A i \in Nat : n <= i + m => from[i] \subseteq Nat}
  <2>1. n \in Nat
    OBVIOUS
  <2> HIDE DEF n
  <2>2. 0 \in P
    <3>1. ASSUME NEW i \in Nat, n <= i + 0 PROVE from[i] \subseteq Nat
      <4>1. i >= n
        BY <2>1, <3>1
      <4> QED
        BY <1>8, <4>1
    <3> QED
      BY <2>1, <3>1
  <2>3. ASSUME NEW m \in 1..n, m - 1 \in P PROVE m \in P
    <3>1. ASSUME NEW i \in Nat, n <= i + m PROVE from[i] \subseteq Nat
      <4> DEFINE j == i + Width(OpAt(code, i))
      <4>1. j \in Nat /\ n <= j + (m - 1)
        BY <1>1, <2>1, <3>1
      <4>2. from[j] \subseteq Nat
        BY <2>3, <4>1
      <4>3. from[i] = IF i >= n THEN {} ELSE {i} \cup from[j]
        BY <1>8
      <4> HIDE DEF j
      <4> QED
        BY <4>2, <4>3
    <3> QED
      BY <2>1, <3>1
  <2>4. n \in 0..n
    BY <2>1
  <2> HIDE DEF P
  <2>5. n \in P
    BY <2>1, <2>2, <2>3, <2>4, Induction
  <2>6. \A i \in Nat : from[i] \subseteq Nat
    BY <2>1, <2>5 DEF P
  <2>7. from = [at \in Nat |-> from[at]]
    BY <1>6
  <2> QED
    BY <2>6, <2>7
<1> QED
  BY <1>7, <1>8, <1>9 DEF Walks

\* The starts of an instruction and of what follows it, up to the end.
Row(code, i, S) ==
  /\ S \subseteq i..(Len(code) - 1)
  /\ i < Len(code) => i \in S
  /\ \A a \in S : a + Width(OpAt(code, a)) \in S \/ a + Width(OpAt(code, a)) >= Len(code)
  /\ \A a, b \in S : a < b => a + Width(OpAt(code, a)) <= b

\* Code whose last instruction is whole is framed by its starts.
LEMMA StartsFrame ==
  ASSUME NEW code \in Seq(Nat), \A at \in Starts(code) : at + Width(OpAt(code, at)) <= Len(code)
  PROVE  Framed(code, Starts(code))
<1>1. PICK from : Walks(from, code)
  BY StartsWalk
<1> DEFINE n == Len(code)
           P == {m \in 0..n : \A i \in Nat : n <= i + m => Row(code, i, from[i])}
<1>2. n \in Nat
  OBVIOUS
<1>3. 0 \in P
  <2>1. ASSUME NEW i \in Nat, n <= i + 0 PROVE Row(code, i, from[i])
    <3>1. i >= n /\ ~(i < n)
      BY <1>2, <2>1
    <3>2. from[i] = {}
      BY <1>1, <3>1 DEF Walks
    <3> QED
      BY <3>1, <3>2 DEF Row
  <2> QED
    BY <1>2, <2>1
<1>4. ASSUME NEW m \in 1..n, m - 1 \in P PROVE m \in P
  <2>1. ASSUME NEW i \in Nat, n <= i + m, i < n PROVE Row(code, i, from[i])
    <3> DEFINE w == Width(OpAt(code, i))
               j == i + w
               S == from[j]
    <3>1. w \in 1..5
      BY Sizes
    <3>2. j \in Nat /\ i < j /\ n <= j + (m - 1)
      <4> HIDE DEF w, n
      <4> QED
        BY <1>2, <2>1, <3>1
    <3>3. Row(code, j, S)
      BY <1>4, <3>2
    <3>4. from[i] = {i} \cup S
      BY <1>1, <1>2, <2>1 DEF Walks
    <3> HIDE DEF S
    <3>5. S \subseteq j..(n - 1) /\ (j < n => j \in S)
      BY <3>3 DEF Row
    <3>6. /\ \A a \in S : a + Width(OpAt(code, a)) \in S \/ a + Width(OpAt(code, a)) >= n
          /\ \A a, b \in S : a < b => a + Width(OpAt(code, a)) <= b
      BY <3>3 DEF Row
    <3> HIDE DEF n
    <3>7. from[i] \subseteq i..(n - 1)
      <4> HIDE DEF j
      <4> QED
        BY <1>2, <2>1, <3>2, <3>4, <3>5
    <3>8. ASSUME NEW a \in from[i]
          PROVE  a + Width(OpAt(code, a)) \in from[i] \/ a + Width(OpAt(code, a)) >= n
      <4>1. CASE a = i
        <5>1. j \in S \/ j >= n
          BY <1>2, <3>2, <3>5
        <5> QED
          BY <3>4, <4>1, <5>1
      <4>2. CASE a \in S
        BY <3>4, <3>6, <4>2
      <4> QED
        BY <3>4, <4>1, <4>2
    <3>9. ASSUME NEW a \in from[i], NEW b \in from[i], a < b
          PROVE  a + Width(OpAt(code, a)) <= b
      <4>1. CASE a \in S /\ b \in S
        BY <3>6, <3>9, <4>1
      <4>2. CASE a = i /\ b \in S
        <5>1. b >= j
          BY <1>2, <3>2, <3>5, <4>2
        <5>2. a + Width(OpAt(code, a)) = j
          BY <4>2
        <5> HIDE DEF j, w
        <5> QED
          BY <1>2, <3>2, <3>5, <4>2, <5>1, <5>2
      <4>3. CASE b = i
        <5>1. i <= a
          BY <1>2, <3>7
        <5> QED
          BY <1>2, <3>7, <3>9, <4>3, <5>1
      <4> QED
        BY <3>4, <4>1, <4>2, <4>3
    <3> QED
      BY <3>4, <3>7, <3>8, <3>9 DEF Row, n
  <2>2. ASSUME NEW i \in Nat, n <= i + m PROVE Row(code, i, from[i])
    <3>1. CASE i < n
      BY <2>1, <2>2, <3>1
    <3>2. CASE i >= n
      <4>1. n <= i + (m - 1)
        BY <1>2, <3>2
      <4> QED
        BY <1>4, <4>1
    <3> QED
      BY <1>2, <3>1, <3>2
  <2> HIDE DEF n
  <2> QED
    BY <1>2, <2>2
<1>5. n \in 0..n
  BY <1>2
<1> HIDE DEF P
<1>6. n \in P
  <2> HIDE DEF n
  <2> QED
    BY <1>2, <1>3, <1>4, <1>5, Induction
<1>7. Row(code, 0, from[0])
  BY <1>2, <1>6 DEF P
<1>8. from[0] = Starts(code)
  BY <1>1 DEF Walks
<1> DEFINE S == Starts(code)
<1>9. Row(code, 0, S)
  BY <1>7, <1>8
<1>10. \A at \in S : at + Width(OpAt(code, at)) <= n
  OBVIOUS
<1> HIDE DEF n, S
<1>11. S \subseteq 0..(n - 1) /\ (0 < n => 0 \in S) /\ \A a, b \in S : a < b => a + Width(OpAt(code, a)) <= b
  BY <1>9 DEF Row, n
<1>12. ASSUME NEW a \in S PROVE a + Width(OpAt(code, a)) \in S \cup {n}
  <2>1. a + Width(OpAt(code, a)) \in S \/ a + Width(OpAt(code, a)) >= n
    BY <1>9 DEF Row, n
  <2>2. a + Width(OpAt(code, a)) \in Nat
    BY <1>11, Sizes
  <2> DEFINE e == a + Width(OpAt(code, a))
  <2>3. e <= n /\ e \in Nat /\ (e \in S \/ e >= n)
    BY <1>10, <2>1, <2>2
  <2> HIDE DEF e
  <2>4. e \in S \cup {n}
    BY <1>2, <2>3
  <2> QED
    BY <2>4 DEF e
<1>13. 0 \in S \cup {n}
  BY <1>2, <1>11
<1> QED
  BY <1>11, <1>12, <1>13 DEF Framed, n, S

\* There is one way to read code as a row of whole instructions.
LEMMA FramedOnce ==
  ASSUME NEW code \in Seq(Nat), NEW S, Framed(code, S)
  PROVE  Starts(code) = S
<1>1. PICK from : Walks(from, code)
  BY StartsWalk
<1> DEFINE n == Len(code)
           P == {m \in 0..n : \A i \in S \cup {n} : n <= i + m => from[i] = {x \in S : x >= i}}
<1>2. n \in Nat
  OBVIOUS
<1>3. S \subseteq 0..(n - 1) /\ 0 \in S \cup {n}
  BY DEF Framed
<1>4. /\ \A a \in S : a + Width(OpAt(code, a)) \in S \cup {n}
      /\ \A a, b \in S : a < b => a + Width(OpAt(code, a)) <= b
  BY DEF Framed
<1>5. \A at \in Nat : from[at] = IF at >= n THEN {} ELSE {at} \cup from[at + Width(OpAt(code, at))]
  BY <1>1 DEF Walks
<1> HIDE DEF n
<1>6. from[n] = {} /\ {x \in S : x >= n} = {}
  <2>1. from[n] = {}
    <3>1. n >= n /\ n \in Nat
      BY <1>2
    <3>2. from[n] = IF n >= n THEN {} ELSE {n} \cup from[n + Width(OpAt(code, n))]
      BY <1>5, <3>1
    <3> QED
      BY <3>1, <3>2
  <2>2. \A x \in S : ~(x >= n)
    BY <1>2, <1>3
  <2> QED
    BY <2>1, <2>2
<1>7. 0 \in P
  <2>1. ASSUME NEW i \in S \cup {n}, n <= i + 0 PROVE i = n
    BY <1>2, <1>3, <2>1
  <2> QED
    BY <1>2, <1>6, <2>1
<1>8. ASSUME NEW m \in 1..n, m - 1 \in P PROVE m \in P
  <2>1. ASSUME NEW i \in S, n <= i + m PROVE from[i] = {x \in S : x >= i}
    <3> DEFINE w == Width(OpAt(code, i))
               j == i + w
    <3>1. w \in 1..5
      BY Sizes
    <3>2. i \in Nat /\ i < n /\ ~(i >= n)
      BY <1>2, <1>3
    <3>3. j \in S \cup {n} /\ j \in Nat /\ n <= j + (m - 1) /\ i < j
      <4>1. j \in S \cup {n}
        BY <1>4
      <4> HIDE DEF w
      <4> QED
        BY <1>2, <2>1, <3>1, <3>2, <4>1
    <3>4. from[j] = {x \in S : x >= j}
      BY <1>8, <3>3
    <3>5. from[i] = {i} \cup from[j]
      BY <1>5, <3>2
    <3>6. \A x \in S : i < x => j <= x
      BY <1>4
    <3> HIDE DEF j
    <3>7. \A x \in S : x >= i <=> (x = i \/ x >= j)
      BY <1>2, <1>3, <3>2, <3>3, <3>6
    <3> QED
      BY <3>4, <3>5, <3>7
  <2>2. ASSUME NEW i \in S \cup {n}, n <= i + m PROVE from[i] = {x \in S : x >= i}
    BY <1>6, <2>1, <2>2
  <2> QED
    BY <1>2, <2>2
<1>9. n \in 0..n
  BY <1>2
<1> HIDE DEF P
<1>10. n \in P
  BY <1>2, <1>7, <1>8, <1>9, Induction
<1>11. from[0] = {x \in S : x >= 0}
  BY <1>2, <1>3, <1>10 DEF P
<1>12. \A x \in S : x >= 0
  BY <1>2, <1>3
<1> QED
  BY <1>1, <1>11, <1>12 DEF Walks

-----------------------------------------------------------------------------
(* The code as the optimizer goes through it, and the list of jumps *)

\* What next() takes with an instruction that it believes longer than it is
\* has one byte.
Judged(code, S) ==
  \A a \in S : Size(OpAt(code, a)) = Width(OpAt(code, a)) \/ Size(OpAt(code, a + 1)) = 1

\* The address is not taken with the instruction before.
Seen(code, S, x) ==
  \A a \in S : Size(OpAt(code, a)) = Width(OpAt(code, a)) \/ x # a + 1

\* The next instruction that the optimizer looks at is one, and no jump is in between.
LEMMA Follows ==
  ASSUME NEW code \in Seq(Nat), NEW S, Framed(code, S), Judged(code, S),
         NEW i \in S, Seen(code, S, i), NEW j, j = i + Size(OpAt(code, i))
  PROVE  /\ j \in Nat /\ i < j
         /\ j \in S \cup {Len(code)} \/ j > Len(code)
         /\ Seen(code, S, j)
         /\ \A a \in S : i < a /\ a < j => OpAt(code, a) \notin Jumping
         /\ Size(OpAt(code, i)) = Width(OpAt(code, i)) => \A a \in S : i < a => j <= a
<1> DEFINE n == Len(code)
           W(a) == Width(OpAt(code, a))
           Z(a) == Size(OpAt(code, a))
<1>1. n \in Nat
  OBVIOUS
<1>2. S \subseteq 0..(n - 1)
  BY DEF Framed
<1>3. /\ \A a \in S : a + W(a) \in S \cup {n}
      /\ \A a, b \in S : a < b => a + W(a) <= b
  BY DEF Framed
<1>4. \A a : W(a) \in 1..5 /\ Z(a) \in 1..5 /\ (Z(a) = 1 => W(a) = 1) /\ (Z(a) # W(a) => Z(a) = 2 /\ W(a) = 1)
  BY Sizes
<1>5. \A a : OpAt(code, a) \in Jumping => Z(a) = W(a) /\ W(a) \in 3..5
  BY JumpSizes
<1>6. \A a \in S : Z(a) = W(a) \/ Z(a + 1) = 1
  BY DEF Judged
<1>7. \A a \in S : Z(a) = W(a) \/ i # a + 1
  BY DEF Seen
<1>8. j = i + Z(i)
  OBVIOUS
<1> SUFFICES /\ j \in Nat /\ i < j
             /\ j \in S \cup {n} \/ j > n
             /\ \A a \in S : Z(a) = W(a) \/ j # a + 1
             /\ \A a \in S : i < a /\ a < j => OpAt(code, a) \notin Jumping
             /\ Z(i) = W(i) => \A a \in S : i < a => j <= a
  BY DEF Seen
<1> HIDE DEF n, W, Z
<1>9. i \in Nat /\ i < n
  BY <1>1, <1>2
<1>10. CASE Z(i) = W(i)
  <2>1. j \in S \cup {n} /\ j \in Nat /\ i < j
    BY <1>3, <1>4, <1>8, <1>9, <1>10
  <2>2. \A a \in S : i < a => j <= a
    BY <1>3, <1>8, <1>10
  <2>3. ASSUME NEW a \in S, Z(a) # W(a), j = a + 1 PROVE FALSE
    <3>1. a \in Nat /\ a + 1 = a + W(a)
      BY <1>2, <1>1, <1>4, <2>3
    <3>2. a # i
      BY <1>10, <2>3
    <3>3. ~(i < a)
      BY <2>1, <2>2, <2>3, <3>1
    <3>4. a < i
      BY <1>9, <3>1, <3>2, <3>3
    <3>5. a + 1 <= i
      BY <1>3, <3>1, <3>4
    <3> QED
      BY <1>9, <2>1, <2>3, <3>1, <3>5
  <2>4. \A a \in S : a \in Nat
    BY <1>1, <1>2
  <2> QED
    BY <2>1, <2>2, <2>3, <2>4
<1>11. CASE Z(i) # W(i)
  <2>1. j = i + 2 /\ W(i) = 1 /\ j \in Nat /\ i < j /\ Z(i + 1) = 1 /\ W(i + 1) = 1
    BY <1>4, <1>6, <1>8, <1>9, <1>11
  <2>2. i + 1 \in S \cup {n} /\ \A a \in S : i < a => i + 1 <= a
    BY <1>3, <2>1
  <2>3. j \in S \cup {n} \/ j > n
    <3>1. CASE i + 1 = n
      BY <1>1, <1>9, <2>1, <3>1
    <3>2. CASE i + 1 \in S
      <4>1. (i + 1) + W(i + 1) = j
        BY <1>9, <2>1
      <4> QED
        BY <1>3, <3>2, <4>1
    <3> QED
      BY <2>2, <3>1, <3>2
  <2>4. \A a \in S : a \in Nat /\ a < n
    BY <1>1, <1>2
  <2>5. ASSUME NEW a \in S, Z(a) # W(a), j = a + 1 PROVE FALSE
    <3>1. a = i + 1
      BY <1>9, <2>1, <2>4, <2>5
    <3> QED
      BY <2>1, <2>5, <3>1
  <2>6. ASSUME NEW a \in S, i < a, a < j PROVE OpAt(code, a) \notin Jumping
    <3>1. a = i + 1
      BY <1>9, <2>1, <2>4, <2>6
    <3>2. W(a) = 1
      BY <2>1, <3>1
    <3> QED
      BY <1>5, <3>2
  <2> QED
    BY <1>11, <2>1, <2>3, <2>5, <2>6
<1>12. Z(i) = W(i) => \A a \in S : i < a => j <= a
  BY <1>3, <1>8
<1>13. Z(i) = W(i) => \A a \in S : i < a /\ a < j => OpAt(code, a) \notin Jumping
  <2>1. \A a \in S : a \in Nat
    BY <1>1, <1>2
  <2>2. Z(i) = W(i) => j \in Nat
    BY <1>10
  <2> QED
    BY <1>12, <2>1, <2>2
<1> QED
  BY <1>10, <1>11, <1>12, <1>13

\* a jump and its address, as in the list of important instructions
Views == [index : Nat, name : Jumping]

\* The list has each jump of the code once.
Exact(list, code, S) ==
  /\ list \in Seq(Views)
  /\ \A j \in DOMAIN list : list[j].index \in S /\ list[j].name = OpAt(code, list[j].index)
  /\ \A a \in S : OpAt(code, a) \in Jumping => \E j \in DOMAIN list : list[j].index = a
  /\ \A i, j \in DOMAIN list : list[i].index = list[j].index => i = j

\* the list from an address on, as interest() makes it
Lists(from, code) ==
  /\ from \in [Nat -> Seq(Views)]
  /\ Interest(code) = from[0]
  /\ \A i \in Nat :
       from[i] = IF i >= Len(code) THEN <<>>
                 ELSE IF OpAt(code, i) \in Jumping
                      THEN <<[index |-> i, name |-> OpAt(code, i)]>> \o from[i + Size(OpAt(code, i))]
                      ELSE from[i + Size(OpAt(code, i))]

\* Interest is well defined.
LEMMA InterestLists ==
  ASSUME NEW code \in Seq(Nat)
  PROVE  \E from : Lists(from, code)
<1> DEFINE n == Len(code)
           V == Seq(Views)
           W == [Nat -> V]
           Next(i) == i + Size(OpAt(code, i))
           Step(i, rest) == IF OpAt(code, i) \in Jumping
                            THEN <<[index |-> i, name |-> OpAt(code, i)]>> \o rest ELSE rest
           T == [f \in W |-> [i \in Nat |-> IF i >= n THEN <<>> ELSE Step(i, f[Next(i)])]]
<1>1. \A i \in Nat : Next(i) \in Nat /\ i < Next(i)
  BY Sizes
<1>2. n \in Nat /\ <<>> \in V
  OBVIOUS
<1>3. \A i \in Nat, rest \in V : Step(i, rest) \in V
  <2>1. ASSUME NEW i \in Nat, NEW rest \in V, OpAt(code, i) \in Jumping PROVE Step(i, rest) \in V
    <3> DEFINE v == [index |-> i, name |-> OpAt(code, i)]
    <3>1. v \in Views
      BY <2>1 DEF Views
    <3> HIDE DEF v
    <3>2. <<v>> \o rest \in V
      BY <3>1
    <3>3. Step(i, rest) = <<v>> \o rest
      BY <2>1 DEF v
    <3> QED
      BY <3>2, <3>3
  <2>2. ASSUME NEW i \in Nat, NEW rest \in V, OpAt(code, i) \notin Jumping PROVE Step(i, rest) \in V
    BY <2>2
  <2> QED
    BY <2>1, <2>2
<1> HIDE DEF n, V, Next, Step
<1>4. T \in [W -> W]
  <2>1. ASSUME NEW f \in W
        PROVE  [i \in Nat |-> IF i >= n THEN <<>> ELSE Step(i, f[Next(i)])] \in W
    BY <1>1, <1>2, <1>3
  <2> QED
    BY <2>1
<1>5. ASSUME NEW f \in W, NEW g \in W, NEW i \in Nat, i < n => \A j \in Nat : i < j => f[j] = g[j]
      PROVE  T[f][i] = T[g][i]
  <2>1. i < n => f[Next(i)] = g[Next(i)]
    BY <1>1, <1>5
  <2>2. /\ T[f][i] = IF i >= n THEN <<>> ELSE Step(i, f[Next(i)])
        /\ T[g][i] = IF i >= n THEN <<>> ELSE Step(i, g[Next(i)])
    OBVIOUS
  <2>3. i < n \/ i >= n
    BY <1>2
  <2> HIDE DEF T
  <2> QED
    BY <2>1, <2>2, <2>3
<1>6. \E f \in W : f = T[f]
  <2>1. V # {}
    BY <1>2
  <2> HIDE DEF T
  <2> QED
    BY <1>2, <1>4, <1>5, <2>1, Descent
<1>7. PICK f \in W : f = [i \in Nat |-> IF i >= n THEN <<>> ELSE Step(i, f[Next(i)])]
  BY <1>6
<1> DEFINE from == CHOOSE h : h = [i \in Nat |-> IF i >= n THEN <<>> ELSE Step(i, h[Next(i)])]
<1>8. from = [i \in Nat |-> IF i >= n THEN <<>> ELSE Step(i, from[Next(i)])]
  BY <1>7
<1>9. Interest(code) = from[0]
  BY DEF Interest, n, Step, Next
<1> HIDE DEF from
<1>10. \A i \in Nat : from[i] = IF i >= n THEN <<>> ELSE Step(i, from[Next(i)])
  BY <1>8
<1>11. from \in W
  <2> DEFINE P == {m \in 0..n : \A i \in Nat : n <= i + m => from[i] \in V}
  <2>1. 0 \in P
    <3>1. ASSUME NEW i \in Nat, n <= i + 0 PROVE from[i] \in V
      <4>1. i >= n
        BY <1>2, <3>1
      <4> QED
        BY <1>2, <1>10, <4>1
    <3> QED
      BY <1>2, <3>1
  <2>2. ASSUME NEW m \in 1..n, m - 1 \in P PROVE m \in P
    <3>1. ASSUME NEW i \in Nat, n <= i + m PROVE from[i] \in V
      <4>1. Next(i) \in Nat /\ n <= Next(i) + (m - 1)
        BY <1>1, <1>2, <3>1
      <4>2. from[Next(i)] \in V
        BY <2>2, <4>1
      <4> QED
        BY <1>2, <1>3, <1>10, <4>2
    <3> QED
      BY <1>2, <3>1
  <2>3. n \in 0..n
    BY <1>2
  <2> HIDE DEF P
  <2>4. n \in P
    BY <1>2, <2>1, <2>2, <2>3, Induction
  <2>5. \A i \in Nat : from[i] \in V
    BY <1>2, <2>4 DEF P
  <2>6. from = [i \in Nat |-> from[i]]
    BY <1>8
  <2> QED
    BY <2>5, <2>6
<1>12. \A i \in Nat : from[i] = IF i >= Len(code) THEN <<>>
                 ELSE IF OpAt(code, i) \in Jumping
                      THEN <<[index |-> i, name |-> OpAt(code, i)]>> \o from[i + Size(OpAt(code, i))]
                      ELSE from[i + Size(OpAt(code, i))]
  BY <1>10 DEF n, Step, Next
<1> QED
  BY <1>9, <1>11, <1>12 DEF Lists, V

\* The list is exact for the code from an address on.
ExactFrom(list, code, S, i) ==
  /\ list \in Seq(Views)
  /\ \A j \in DOMAIN list : list[j].index \in S /\ i <= list[j].index /\ list[j].name = OpAt(code, list[j].index)
  /\ \A a \in S : i <= a /\ OpAt(code, a) \in Jumping => \E j \in DOMAIN list : list[j].index = a
  /\ \A j, k \in DOMAIN list : list[j].index = list[k].index => j = k

\* An element is put before a sequence.
LEMMA PushFacts ==
  ASSUME NEW V, NEW v \in V, NEW rest \in Seq(V), NEW n \in Nat, n = Len(rest)
  PROVE  /\ <<v>> \o rest \in Seq(V) /\ DOMAIN (<<v>> \o rest) = 1..(n + 1)
         /\ (<<v>> \o rest)[1] = v
         /\ \A j \in 1..n : (<<v>> \o rest)[j + 1] = rest[j]
         /\ \A j \in 2..(n + 1) : j - 1 \in 1..n /\ (<<v>> \o rest)[j] = rest[j - 1]
<1> DEFINE one == <<v>>
           list == one \o rest
<1>1. one \in Seq(V) /\ 1 = Len(one) /\ one[1] = v
  OBVIOUS
<1> HIDE DEF one
<1> DEFINE m == 1
<1>m. m \in Nat /\ m = 1 /\ m = Len(one)
  BY <1>1
<1> HIDE DEF m
<1>2. /\ list \in Seq(V) /\ Len(list) = m + n
      /\ \A j \in 1..m : list[j] = one[j]
      /\ \A j \in (m + 1)..(m + n) : list[j] = rest[j - m]
  <2>1. one \in Seq(V) /\ rest \in Seq(V) /\ m \in Nat /\ n \in Nat /\ m = Len(one) /\ n = Len(rest)
    BY <1>1, <1>m
  <2> QED
    BY ONLY <2>1, JoinFacts DEF list
<1> HIDE DEF list
<1>3. DOMAIN list = 1..(n + 1)
  BY <1>2, <1>m
<1>4. list[1] = v
  BY <1>1, <1>2, <1>m
<1>5. \A j \in 2..(n + 1) : j - 1 \in 1..n /\ list[j] = rest[j - 1]
  BY <1>2, <1>m
<1>6. ASSUME NEW j \in 1..n PROVE list[j + 1] = rest[j]
  <2>1. j + 1 \in 2..(n + 1) /\ (j + 1) - 1 = j
    OBVIOUS
  <2> QED
    BY <1>5, <2>1
<1>7. list = <<v>> \o rest
  BY DEF list, one
<1> QED
  BY <1>2, <1>3, <1>4, <1>5, <1>6, <1>7

\* A jump is put before the list of those after it.
LEMMA ExactJoin ==
  ASSUME NEW code \in Seq(Nat), NEW S \in SUBSET Nat, NEW i \in S, NEW e \in Nat, i < e, NEW rest,
         ExactFrom(rest, code, S, e), OpAt(code, i) \in Jumping,
         \A a \in S : i < a /\ a < e => OpAt(code, a) \notin Jumping
  PROVE  ExactFrom(<<[index |-> i, name |-> OpAt(code, i)]>> \o rest, code, S, i)
<1> DEFINE v == [index |-> i, name |-> OpAt(code, i)]
           list == <<v>> \o rest
           n == Len(rest)
<1>1. v \in Views /\ v.index = i /\ v.name = OpAt(code, i)
  BY DEF Views
<1>2. /\ rest \in Seq(Views)
      /\ \A j \in DOMAIN rest : rest[j].index \in S /\ e <= rest[j].index /\ rest[j].name = OpAt(code, rest[j].index)
      /\ \A a \in S : e <= a /\ OpAt(code, a) \in Jumping => \E j \in DOMAIN rest : rest[j].index = a
      /\ \A j, k \in DOMAIN rest : rest[j].index = rest[k].index => j = k
  BY DEF ExactFrom
<1> HIDE DEF v
<1>4. n \in Nat /\ DOMAIN rest = 1..n /\ n = Len(rest)
  BY <1>2
<1> HIDE DEF n
<1>5. /\ list \in Seq(Views) /\ DOMAIN list = 1..(n + 1) /\ list[1] = v
      /\ \A j \in 1..n : list[j + 1] = rest[j]
      /\ \A j \in 2..(n + 1) : j - 1 \in 1..n /\ list[j] = rest[j - 1]
  BY <1>1, <1>2, <1>4, PushFacts
<1> HIDE DEF list
<1>9. \A j \in 1..(n + 1) : j = 1 \/ j \in 2..(n + 1)
  BY <1>4
<1>10. ASSUME NEW j \in DOMAIN list
       PROVE  list[j].index \in S /\ i <= list[j].index /\ list[j].name = OpAt(code, list[j].index)
  <2>1. CASE j = 1
    BY <1>1, <1>5, <2>1
  <2>2. CASE j \in 2..(n + 1)
    <3> DEFINE m == j - 1
    <3>1. m \in DOMAIN rest /\ list[j] = rest[m]
      BY <1>4, <1>5, <2>2
    <3> HIDE DEF m
    <3>2. rest[m].index \in S /\ e <= rest[m].index /\ rest[m].name = OpAt(code, rest[m].index)
      BY <1>2, <3>1
    <3>3. i <= rest[m].index
      <4> DEFINE r == rest[m].index
      <4>1. r \in Nat /\ e <= r
        BY <3>2
      <4> HIDE DEF r
      <4>2. i <= r
        BY <4>1
      <4> QED
        BY <4>2 DEF r
    <3> QED
      BY <3>1, <3>2, <3>3
  <2> QED
    BY <1>5, <1>9, <2>1, <2>2
<1>11. ASSUME NEW a \in S, i <= a, OpAt(code, a) \in Jumping PROVE \E j \in DOMAIN list : list[j].index = a
  <2>1. CASE a = i
    <3>1. 1 \in DOMAIN list
      BY <1>4, <1>5
    <3> QED
      BY <1>1, <1>5, <2>1, <3>1
  <2>2. CASE a # i
    <3>1. e <= a
      BY <1>11, <2>2
    <3>2. PICK j \in 1..n : rest[j].index = a
      BY <1>2, <1>4, <1>11, <3>1
    <3>3. j + 1 \in DOMAIN list
      BY <1>4, <1>5
    <3>4. list[j + 1].index = a
      BY <1>5, <3>2
    <3> QED
      BY <3>3, <3>4
  <2> QED
    BY <2>1, <2>2
<1>12. ASSUME NEW j \in DOMAIN list, NEW k \in DOMAIN list, list[j].index = list[k].index PROVE j = k
  <2>1. ASSUME NEW m \in 2..(n + 1) PROVE list[m].index # i
    <3> DEFINE l == m - 1
    <3>1. l \in DOMAIN rest /\ list[m] = rest[l]
      BY <1>4, <1>5
    <3> HIDE DEF l
    <3>2. rest[l].index \in S /\ e <= rest[l].index
      BY <1>2, <3>1
    <3> QED
      BY <3>1, <3>2
  <2>2. CASE j = 1 \/ k = 1
    BY <1>1, <1>5, <1>9, <1>12, <2>1, <2>2
  <2>3. CASE j \in 2..(n + 1) /\ k \in 2..(n + 1)
    <3> DEFINE l == j - 1  m == k - 1
    <3>0. /\ l \in DOMAIN rest /\ list[j] = rest[l]
          /\ m \in DOMAIN rest /\ list[k] = rest[m]
      BY <1>4, <1>5, <2>3
    <3>a. l + 1 = j /\ m + 1 = k
      BY <1>4, <2>3
    <3>1. l \in DOMAIN rest /\ list[j] = rest[l] /\ m \in DOMAIN rest /\ list[k] = rest[m] /\ l + 1 = j /\ m + 1 = k
      BY <3>0, <3>a
    <3> HIDE DEF l, m
    <3>2. l = m
      BY <1>2, <1>12, <3>1
    <3> QED
      BY <3>1, <3>2
  <2> QED
    BY <1>5, <1>9, <2>2, <2>3
<1>13. list = <<[index |-> i, name |-> OpAt(code, i)]>> \o rest
  BY DEF list, v
<1> QED
  BY <1>5, <1>10, <1>11, <1>12, <1>13 DEF ExactFrom

\* The list that optimize() begins with is exact.
LEMMA InterestExact ==
  ASSUME NEW code \in Seq(Nat), NEW S, Framed(code, S), Judged(code, S), Seen(code, S, 0)
  PROVE  Exact(Interest(code), code, S)
<1> DEFINE n == Len(code)
           Z(a) == Size(OpAt(code, a))
<1>1. n \in Nat /\ S \subseteq 0..(n - 1) /\ 0 \in S \cup {n}
  BY DEF Framed
<1>2. PICK from : Lists(from, code)
  BY InterestLists
<1>3. /\ Interest(code) = from[0]
      /\ \A i \in Nat : i >= n => from[i] = <<>>
      /\ \A i \in Nat : i < n /\ OpAt(code, i) \in Jumping =>
           from[i] = <<[index |-> i, name |-> OpAt(code, i)]>> \o from[i + Z(i)]
      /\ \A i \in Nat : i < n /\ OpAt(code, i) \notin Jumping => from[i] = from[i + Z(i)]
  <2>1. \A i \in Nat :
       from[i] = IF i >= n THEN <<>>
                 ELSE IF OpAt(code, i) \in Jumping
                      THEN <<[index |-> i, name |-> OpAt(code, i)]>> \o from[i + Z(i)]
                      ELSE from[i + Z(i)]
    BY <1>2 DEF Lists
  <2>2. Interest(code) = from[0]
    BY <1>2 DEF Lists
  <2> HIDE DEF n, Z
  <2>3. \A i \in Nat : i < n => ~(i >= n)
    BY <1>1
  <2> QED
    BY <2>1, <2>2, <2>3
<1>4. \A i : i \in S => i + Z(i) = i + Size(OpAt(code, i))
  OBVIOUS
<1> HIDE DEF n, Z
<1> DEFINE P == {m \in 0..n : \A i \in Nat : (i \in S \cup {n} \/ i > n) /\ Seen(code, S, i) /\ n <= i + m
                                => ExactFrom(from[i], code, S, i)}
<1>5. ASSUME NEW i \in Nat, i >= n PROVE ExactFrom(from[i], code, S, i)
  <2>1. from[i] = <<>>
    BY <1>3, <1>5
  <2>2. \A a \in S : ~(i <= a)
    BY <1>1, <1>5
  <2>3. <<>> \in Seq(Views) /\ DOMAIN <<>> = {}
    OBVIOUS
  <2> QED
    BY <2>1, <2>2, <2>3 DEF ExactFrom
<1>6. 0 \in P
  <2>1. \A i \in Nat : n <= i + 0 => i >= n
    BY <1>1
  <2> QED
    BY <1>1, <1>5, <2>1
<1>7. ASSUME NEW m \in 1..n, m - 1 \in P PROVE m \in P
  <2>1. ASSUME NEW i \in Nat, i \in S \cup {n} \/ i > n, Seen(code, S, i), n <= i + m
        PROVE  ExactFrom(from[i], code, S, i)
    <3>1. CASE i >= n
      BY <1>5, <3>1
    <3>2. CASE ~(i >= n)
      <4>1. i \in S /\ i < n
        BY <1>1, <2>1, <3>2
      <4> DEFINE j == i + Z(i)
      <4>2. j = i + Size(OpAt(code, i))
        BY DEF Z
      <4> HIDE DEF j
      <4>3. /\ j \in Nat /\ i < j
            /\ j \in S \cup {Len(code)} \/ j > Len(code)
            /\ Seen(code, S, j)
            /\ \A a \in S : i < a /\ a < j => OpAt(code, a) \notin Jumping
        BY <2>1, <4>1, <4>2, Follows
      <4>4. n <= j + (m - 1)
        BY <1>1, <2>1, <4>3
      <4>5. ExactFrom(from[j], code, S, j)
        BY <1>7, <4>3, <4>4 DEF n
      <4>6. CASE OpAt(code, i) \in Jumping
        <5>1. from[i] = <<[index |-> i, name |-> OpAt(code, i)]>> \o from[j]
          BY <1>3, <4>1, <4>6 DEF j
        <5>2. S \in SUBSET Nat
          BY <1>1
        <5>3. ExactFrom(<<[index |-> i, name |-> OpAt(code, i)]>> \o from[j], code, S, i)
          BY <4>1, <4>3, <4>5, <4>6, <5>2, ExactJoin
        <5> QED
          BY <5>1, <5>3
      <4>7. CASE OpAt(code, i) \notin Jumping
        <5>1. from[i] = from[j]
          BY <1>3, <4>1, <4>7 DEF j
        <5>2. S \subseteq Nat
          BY <1>1
        <5>3. \A k \in DOMAIN from[j] : j <= from[j][k].index /\ from[j][k].index \in S
          BY <4>5 DEF ExactFrom
        <5>4. ASSUME NEW k \in DOMAIN from[j] PROVE i <= from[j][k].index
          <6> DEFINE r == from[j][k].index
          <6>1. j <= r /\ r \in Nat
            BY <5>2, <5>3
          <6> HIDE DEF r
          <6>2. i <= r
            BY <4>3, <6>1
          <6> QED
            BY <6>2 DEF r
        <5>5. ASSUME NEW a \in S, i <= a, OpAt(code, a) \in Jumping PROVE j <= a
          <6>1. a # i
            BY <4>7, <5>5
          <6>2. i < a
            BY <5>2, <5>5, <6>1
          <6> QED
            BY <4>3, <5>2, <5>5, <6>2
        <5> QED
          BY <4>5, <5>1, <5>4, <5>5 DEF ExactFrom
      <4> QED
        BY <4>6, <4>7
    <3> QED
      BY <3>1, <3>2
  <2> QED
    BY <1>1, <2>1
<1>8. n \in P
  <2>1. n \in 0..n
    BY <1>1
  <2> HIDE DEF P
  <2> QED
    BY <1>1, <1>6, <1>7, <2>1, Induction
<1>9. ExactFrom(from[0], code, S, 0)
  BY <1>1, <1>8
<1> HIDE DEF P
<1> DEFINE list == Interest(code)
<1>10. ExactFrom(list, code, S, 0)
  BY <1>3, <1>9
<1> HIDE DEF list
<1>11. \A a \in S : 0 <= a
  BY <1>1
<1>12. Exact(list, code, S)
  BY <1>10, <1>11 DEF ExactFrom, Exact
<1> QED
  BY <1>12 DEF list

-----------------------------------------------------------------------------
(* The loop over the jumps: those over the removed bytes become shorter *)

\* the address of the distance of a jump
Operand(view) == view.index + Size(view.name) - 2

\* the code after each step of the loop
Shortens(done, code, list, start, shift) ==
  /\ done[0] = code
  /\ \A m \in 1..Len(list) :
       done[m] = IF Crosses(done[m - 1], list[m], start) THEN Shorten(done[m - 1], list[m], shift)
                 ELSE done[m - 1]

\* The loop is well defined.
LEMMA ShortenLoop ==
  ASSUME NEW o, NEW code \in Seq(Nat), code = Code(o), NEW list \in Seq(Views), list = o.important,
         NEW start \in Nat, NEW shift \in Nat,
         \A j \in DOMAIN list : Operand(list[j]) + 1 < Len(code)
  PROVE  \E done : Shortens(done, code, list, start, shift) /\ Shortened(o, start, shift) = done[Len(list)]
<1> DEFINE n == Len(list)
           V == {c \in Seq(Nat) : Len(c) = Len(code)}
           Next(c, v) == IF Crosses(c, v, start) THEN Shorten(c, v, shift) ELSE c
           step == [m \in 1..n |-> [c \in V |-> Next(c, list[m])]]
           done == CHOOSE g : g = [k \in 0..n |-> IF k = 0 THEN code ELSE Next(g[k - 1], list[k])]
<1>1. Shortened(o, start, shift) = done[n]
  BY DEF Shortened, Shortening
<1>2. n \in Nat /\ DOMAIN list = 1..n /\ \A m \in 1..n : list[m] \in Views
  OBVIOUS
<1>3. \A c \in V, m \in 1..n : Next(c, list[m]) \in V
  <2>1. ASSUME NEW c \in V, NEW m \in 1..n PROVE Shorten(c, list[m], shift) \in V
    <3> DEFINE at == Operand(list[m])
               short == Short(c, at) - shift
    <3>1. at \in Nat
      <4> DEFINE i == list[m].index  z == Size(list[m].name)
      <4>1. i \in Nat /\ list[m].name \in Jumping
        BY <1>2 DEF Views
      <4>2. z \in 3..5
        BY <4>1, JumpSizes
      <4> HIDE DEF i, z
      <4>3. i + z - 2 \in Nat
        BY <4>1, <4>2
      <4> QED
        BY <4>3 DEF i, z, Operand
    <3>2. at + 1 < Len(c)
      BY <1>2
    <3>3. short \in Int
      <4>1. \A x : Byte(c, x) \in Nat
        BY ByteFacts
      <4> QED
        BY <4>1 DEF Short
    <3>4. Shorten(c, list[m], shift) = PutShort(c, at, short)
      BY DEF Shorten, Operand
    <3> HIDE DEF at, short
    <3>5. PutShort(c, at, short) \in Seq(Nat) /\ Len(PutShort(c, at, short)) = Len(c)
      BY <3>1, <3>2, <3>3, PutShortFacts
    <3> QED
      BY <3>4, <3>5
  <2> HIDE DEF V
  <2> QED
    BY <2>1
<1>4. step \in [1..n -> [V -> V]]
  <2> HIDE DEF V, Next
  <2> QED
    BY <1>3
<1>5. PICK f \in [0..n -> V] : f[0] = code /\ \A m \in 1..n : f[m] = step[m][f[m - 1]]
  <2>1. code \in V
    OBVIOUS
  <2> HIDE DEF step, n, V
  <2>2. PICK f : Iterates(f, V, n, code, step)
    BY <1>2, <1>4, <2>1, Iteration
  <2> QED
    BY <2>2 DEF Iterates
<1> HIDE DEF V
<1>6. \A m \in 1..n : f[m] = Next(f[m - 1], list[m])
  <2> TAKE m \in 1..n
  <2>1. f[m - 1] \in V
    <3>1. m - 1 \in 0..n
      BY <1>2
    <3> QED
      BY <3>1
  <2>2. f[m] = step[m][f[m - 1]]
    BY <1>5
  <2> HIDE DEF Next
  <2> QED
    BY <2>1, <2>2
<1> HIDE DEF step
<1>7. done = [k \in 0..n |-> IF k = 0 THEN code ELSE Next(done[k - 1], list[k])]
  <2>1. f = [k \in 0..n |-> IF k = 0 THEN code ELSE Next(f[k - 1], list[k])]
    <3>1. \A k \in 0..n : k = 0 \/ k \in 1..n
      BY <1>2
    <3> HIDE DEF Next, n
    <3> QED
      BY <1>5, <1>6, <3>1
  <2> HIDE DEF Next, n
  <2> QED
    BY <2>1
<1>8. done[0] = code /\ \A m \in 1..n : done[m] = Next(done[m - 1], list[m])
  <2> HIDE DEF done, Next
  <2>1. 0 \in 0..n /\ \A m \in 1..n : m \in 0..n /\ m # 0
    BY <1>2
  <2> QED
    BY <1>7, <2>1
<1> HIDE DEF done
<1>9. Shortens(done, code, list, start, shift)
  BY <1>8 DEF Shortens
<1> QED
  BY <1>1, <1>9

\* Whether a jump crosses is told by its distance.
LEMMA CrossesSame ==
  ASSUME NEW c, NEW d, NEW view, Short(c, Operand(view)) = Short(d, Operand(view)), NEW start
  PROVE  Crosses(c, view, start) = Crosses(d, view, start)
BY DEF Crosses, Operand

\* The code after the loop that shortens the jumps over a cut.
ShortenedTo(shorter, code, list, start, shift) ==
  /\ shorter \in Seq(Nat) /\ Len(shorter) = Len(code)
  /\ \A x \in Nat :
       (\A j \in DOMAIN list : Crosses(code, list[j], start) =>
                                 x # Operand(list[j]) /\ x # Operand(list[j]) + 1)
         => Byte(shorter, x) = Byte(code, x)
  /\ \A j \in DOMAIN list :
       LET short == Short(code, Operand(list[j])) - shift
       IN Crosses(code, list[j], start) /\ 0 <= short /\ short <= ShortMax
            => Short(shorter, Operand(list[j])) = short

\* Jumps that share no byte are shortened independently of each other.
LEMMA ShortenedFacts ==
  ASSUME NEW o, NEW code \in Seq(Nat), code = Code(o), NEW list \in Seq(Views), list = o.important,
         NEW start \in Nat, NEW shift \in Nat,
         \A j \in DOMAIN list : Operand(list[j]) + 1 < Len(code),
         \A i, j \in DOMAIN list :
           i = j \/ Operand(list[i]) + 1 < Operand(list[j]) \/ Operand(list[j]) + 1 < Operand(list[i])
  PROVE  ShortenedTo(Shortened(o, start, shift), code, list, start, shift)
<1> DEFINE n == Len(list)
           At(j) == Operand(list[j])
           Cross(j) == Crosses(code, list[j], start)
           S(c, j) == Short(c, At(j))
<1>1. PICK done : Shortens(done, code, list, start, shift) /\ Shortened(o, start, shift) = done[n]
  BY ShortenLoop
<1>2. n \in Nat /\ DOMAIN list = 1..n /\ \A m \in 1..n : list[m] \in Views
  OBVIOUS
<1>3. \A j \in 1..n : At(j) \in Nat /\ At(j) + 1 < Len(code)
  <2> TAKE j \in 1..n
  <2> DEFINE i == list[j].index  z == Size(list[j].name)
  <2>1. i \in Nat /\ list[j].name \in Jumping
    BY <1>2 DEF Views
  <2>2. z \in 3..5
    BY <2>1, JumpSizes
  <2>3. At(j) = i + z - 2
    BY DEF Operand
  <2>4. At(j) + 1 < Len(code)
    BY <1>2
  <2> HIDE DEF i, z, At
  <2>5. At(j) \in Nat
    BY <2>1, <2>2, <2>3
  <2> QED
    BY <2>4, <2>5
<1>4. \A i, j \in 1..n : i = j \/ At(i) + 1 < At(j) \/ At(j) + 1 < At(i)
  BY <1>2
<1>5. \A c \in Seq(Nat), j \in 1..n : S(c, j) = 256 * Byte(c, At(j)) + Byte(c, At(j) + 1) /\ S(c, j) \in Nat
  <2> TAKE c \in Seq(Nat), j \in 1..n
  <2>1. Byte(c, At(j)) \in Nat /\ Byte(c, At(j) + 1) \in Nat
    BY ByteFacts
  <2> QED
    BY <2>1 DEF Short
<1>6. \A c, d \in Seq(Nat), j \in 1..n : S(c, j) = S(d, j) => Crosses(c, list[j], start) = Crosses(d, list[j], start)
  BY CrossesSame
<1>7. /\ done[0] = code
      /\ \A m \in 1..n : done[m] = IF Crosses(done[m - 1], list[m], start) THEN PutShort(done[m - 1], At(m), S(done[m - 1], m) - shift)
                                   ELSE done[m - 1]
  BY <1>1 DEF Shortens, Shorten, Operand
<1> DEFINE Spared(x, m) == \A j \in 1..m : Cross(j) => x # At(j) /\ x # At(j) + 1
           Right(c, m) == /\ c \in Seq(Nat) /\ Len(c) = Len(code)
                          /\ \A x \in Nat : Spared(x, m) => Byte(c, x) = Byte(code, x)
                          /\ \A j \in 1..m : Cross(j) /\ 0 <= S(code, j) - shift /\ S(code, j) - shift <= ShortMax
                                               => S(c, j) = S(code, j) - shift
           P == {m \in 0..n : Right(done[m], m)}
<1> HIDE DEF n, At, Cross, S
<1>8. 0 \in P
  <2>1. 1..0 = {} /\ 0 \in 0..n
    BY <1>2
  <2> QED
    BY <1>7, <2>1
<1>9. ASSUME NEW m \in 1..n, m - 1 \in P PROVE m \in P
  <2> DEFINE c == done[m - 1]
             d == done[m]
             short == S(c, m) - shift
  <2>1. Right(c, m - 1) /\ m - 1 \in Nat /\ m \in 0..n /\ m \in Nat
    BY <1>2, <1>9
  <2>2. d = IF Crosses(c, list[m], start) THEN PutShort(c, At(m), short) ELSE c
    BY <1>7
  <2> HIDE DEF c, d, short
  <2>3. \A j \in 1..n : j \notin 1..(m - 1) => Byte(c, At(j)) = Byte(code, At(j)) /\ Byte(c, At(j) + 1) = Byte(code, At(j) + 1)
    <3> TAKE j \in 1..n
    <3> HAVE j \notin 1..(m - 1)
    <3>1. \A i \in 1..(m - 1) : i \in 1..n /\ i # j
      BY <1>2, <2>1
    <3>2. \A i \in 1..(m - 1) : At(i) + 1 < At(j) \/ At(j) + 1 < At(i)
      BY <1>4, <3>1
    <3>3. At(j) \in Nat /\ At(j) + 1 \in Nat
      BY <1>3
    <3>4. \A i \in 1..(m - 1) : At(i) \in Nat
      BY <1>3, <3>1
    <3>a. ASSUME NEW i \in 1..(m - 1)
          PROVE  /\ At(j) # At(i) /\ At(j) # At(i) + 1
                 /\ At(j) + 1 # At(i) /\ At(j) + 1 # At(i) + 1
      <4> DEFINE p == At(i)  q == At(j)
      <4>1. p \in Nat /\ q \in Nat /\ (p + 1 < q \/ q + 1 < p)
        BY <3>2, <3>3, <3>4
      <4> HIDE DEF p, q
      <4>2. q # p /\ q # p + 1 /\ q + 1 # p /\ q + 1 # p + 1
        BY <4>1
      <4> QED
        BY <4>2 DEF p, q
    <3>5. Spared(At(j), m - 1) /\ Spared(At(j) + 1, m - 1)
      BY <3>a
    <3> HIDE DEF Spared
    <3> QED
      BY <2>1, <3>3, <3>5
  <2>4. m \in 1..n /\ m \notin 1..(m - 1)
    BY <1>2
  <2>5. S(c, m) = S(code, m)
    BY <1>5, <2>1, <2>3, <2>4
  <2>6. Crosses(c, list[m], start) = Cross(m)
    BY <1>6, <2>1, <2>5 DEF Cross
  <2>7. \A x \in Nat : Spared(x, m) => Spared(x, m - 1)
    <3>1. \A j \in 1..(m - 1) : j \in 1..m
      BY <2>1
    <3> QED
      BY <3>1
  <2>8. CASE ~Cross(m)
    <3>1. d = c
      BY <2>2, <2>6, <2>8
    <3>2. \A j \in 1..m : j \in 1..(m - 1) \/ j = m
      BY <2>1
    <3> HIDE DEF Spared
    <3>3. Right(d, m)
      BY <2>1, <2>7, <2>8, <3>1, <3>2
    <3> QED
      BY <2>1, <3>3 DEF d
  <2>9. CASE Cross(m)
    <3>1. d = PutShort(c, At(m), short)
      BY <2>2, <2>6, <2>9
    <3>2. At(m) \in Nat /\ At(m) + 1 < Len(c) /\ short \in Int /\ c \in Seq(Nat)
      BY <1>3, <1>5, <2>1 DEF short
    <3>3. /\ d \in Seq(Nat) /\ Len(d) = Len(c)
          /\ \A x \in Nat \ {At(m), At(m) + 1} : Byte(d, x) = Byte(c, x)
          /\ 0 <= short /\ short <= ShortMax => Short(d, At(m)) = short
      BY <3>1, <3>2, PutShortFacts
    <3>4. ASSUME NEW x \in Nat, Spared(x, m) PROVE Byte(d, x) = Byte(code, x)
      <4>1. m \in 1..m
        BY <2>1
      <4>2. x # At(m) /\ x # At(m) + 1
        BY <2>9, <3>4, <4>1
      <4> HIDE DEF Spared
      <4> QED
        BY <2>1, <2>7, <3>3, <3>4, <4>2
    <3>5. ASSUME NEW j \in 1..m, Cross(j), 0 <= S(code, j) - shift, S(code, j) - shift <= ShortMax
          PROVE  S(d, j) = S(code, j) - shift
      <4>1. CASE j = m
        BY <2>5, <3>3, <3>5, <4>1 DEF short, S
      <4>2. CASE j # m
        <5>1. j \in 1..(m - 1) /\ j \in 1..n
          BY <1>2, <2>1, <4>2
        <5>2. S(c, j) = S(code, j) - shift
          BY <2>1, <3>5, <5>1
        <5>3. At(j) \in Nat /\ (At(j) + 1 < At(m) \/ At(m) + 1 < At(j))
          BY <1>3, <1>4, <4>2, <5>1
        <5>4. At(j) \in Nat \ {At(m), At(m) + 1} /\ At(j) + 1 \in Nat \ {At(m), At(m) + 1}
          BY <3>2, <5>3
        <5>5. Byte(d, At(j)) = Byte(c, At(j)) /\ Byte(d, At(j) + 1) = Byte(c, At(j) + 1)
          BY <3>3, <5>4
        <5>6. S(d, j) = S(c, j)
          BY <1>5, <2>1, <3>3, <5>1, <5>5
        <5> QED
          BY <5>2, <5>6
      <4> QED
        BY <4>1, <4>2
    <3> HIDE DEF Spared
    <3>6. Right(d, m)
      BY <2>1, <3>3, <3>4, <3>5
    <3> QED
      BY <2>1, <3>6 DEF d
  <2> QED
    BY <2>8, <2>9
<1>10. n \in P
  <2>1. n \in 0..n
    BY <1>2
  <2> HIDE DEF P
  <2> QED
    BY <1>2, <1>8, <1>9, <2>1, Induction
<1> DEFINE shorter == Shortened(o, start, shift)
<1>11. Right(shorter, n)
  BY <1>1, <1>10
<1> HIDE DEF shorter, P
<1>12. /\ \A x \in Nat :
             (\A j \in DOMAIN list : Crosses(code, list[j], start) =>
                                       x # Operand(list[j]) /\ x # Operand(list[j]) + 1)
               => Byte(shorter, x) = Byte(code, x)
       /\ \A j \in DOMAIN list :
             LET short == Short(code, Operand(list[j])) - shift
             IN Crosses(code, list[j], start) /\ 0 <= short /\ short <= ShortMax
                  => Short(shorter, Operand(list[j])) = short
  BY <1>2, <1>11 DEF Cross, At, S
<1> QED
  BY <1>11, <1>12 DEF shorter, ShortenedTo

-----------------------------------------------------------------------------
(* A cut: the code of a region, from one up to e, is replaced               *)

\* Every jump leads to an instruction, and those back not ahead.
Lands(code, S) ==
  \A a \in S : OpAt(code, a) \in Jumping =>
    /\ LeadsTo(code, a) \in S
    /\ OpAt(code, a) \in Backward => LeadsTo(code, a) <= a
    /\ Short(code, a + Width(OpAt(code, a)) - 2) <= ShortMax

\* No jump from outside of the region leads into it.
Region(code, S, one, e) ==
  /\ one \in S /\ e \in S \cup {Len(code)} /\ one < e
  /\ \A a \in S : (a < one \/ e <= a) /\ OpAt(code, a) \in Jumping
                    => LeadsTo(code, a) <= one \/ e <= LeadsTo(code, a)

\* The bytes outside of the region are those of the code, and so are the listed
\* jumps; at most one is listed in the region.
Prepared(code, S, one, e, edit, list) ==
  /\ edit \in Seq(Nat) /\ Len(edit) = Len(code)
  /\ \A x \in Nat : x < one \/ e <= x => Byte(edit, x) = Byte(code, x)
  /\ list \in Seq(Views)
  /\ \A i, j \in DOMAIN list : list[i].index = list[j].index => i = j
  /\ \A j \in DOMAIN list :
       list[j].index < one \/ e <= list[j].index =>
         list[j].index \in S /\ list[j].name = OpAt(code, list[j].index)
  /\ \A a \in S : (a < one \/ e <= a) /\ OpAt(code, a) \in Jumping => \E j \in DOMAIN list : list[j].index = a
  /\ \A i, j \in DOMAIN list :
       one <= list[i].index /\ list[i].index < e /\ one <= list[j].index /\ list[j].index < e => i = j

\* The bytes from p on are cut out of the region; a jump in it is not changed,
\* or its distance is cut out.
Cuts(code, S, one, e, p, k, edit, list) ==
  /\ p \in Nat /\ k \in Nat /\ 1 <= k /\ one <= p /\ p + k <= e
  /\ p = one => \A a \in S : (a < one \/ e <= a) /\ OpAt(code, a) \in {"LOOP", "INCREMENT_LOOP"}
                               => LeadsTo(code, a) # one
  /\ \A j \in DOMAIN list :
       one <= list[j].index /\ list[j].index < e =>
         /\ list[j].index + Size(list[j].name) <= e
         /\ Crosses(edit, list[j], p) => p <= Operand(list[j]) /\ Operand(list[j]) + 2 <= p + k

\* where what was at an address is after the cut
Moved(t, one, k) == IF t <= one THEN t ELSE t - k

\* The instructions outside of the region are the same, and their jumps
\* lead to the same instructions.
Survives(code, S, new, one, e, k) ==
  \A a \in S : a < one \/ e <= a =>
    LET b == IF a < one THEN a ELSE a - k
    IN /\ OpAt(new, b) = OpAt(code, a)
       /\ OpAt(code, a) \in Jumping =>
            /\ LeadsTo(new, b) = Moved(LeadsTo(code, a), one, k)
            /\ Short(new, b + Width(OpAt(code, a)) - 2) <= ShortMax

\* A jump ahead over the cut is shortened by the bytes that are cut out.
LEMMA AheadArithmetic ==
  ASSUME NEW a \in Nat, NEW w \in 3..5, NEW jump \in Nat, NEW t \in Nat, NEW one \in Nat, NEW e \in Nat,
         NEW p \in Nat, NEW k \in Nat, 1 <= k, one <= p, p + k <= e,
         a + w <= one \/ e <= a, t <= one \/ e <= t,
         t = a + w + jump,
         NEW short,
         a < p /\ a + w + jump > p => short = jump - k,
         ~(a < p /\ a + w + jump > p) => short = jump,
         NEW b, b = IF a < one THEN a ELSE a - k
  PROVE  /\ 0 <= short /\ short <= jump /\ short \in Nat /\ b \in Nat
         /\ (IF t <= one THEN t ELSE t - k) = b + w + short
<1>1. CASE a + w <= one /\ t <= one
  <2>1. short = jump /\ b = a
    BY <1>1
  <2> QED
    BY <1>1, <2>1
<1>2. CASE a + w <= one /\ e <= t
  <2>1. short = jump - k /\ b = a
    BY <1>2
  <2> QED
    BY <1>2, <2>1
<1>3. CASE e <= a
  <2>1. short = jump /\ b = a - k
    BY <1>3
  <2> QED
    BY <1>3, <2>1
<1> QED
  BY <1>1, <1>2, <1>3

\* A jump back over the cut is shortened by the bytes that are cut out; a jump back
\* to the cut must be when the instruction there becomes another, and is when the
\* bytes are counted from u < w.
JumpsBack(a, w, u, jump, t, one, e, p, k, short, b) ==
  /\ a \in Nat /\ w \in 3..5 /\ u \in 3..5 /\ (u = w \/ u = w - 1)
  /\ jump \in Nat /\ t \in Nat /\ one \in Nat /\ e \in Nat
  /\ p \in Nat /\ k \in Nat /\ 1 <= k /\ one <= p /\ p + k <= e
  /\ a + w <= one \/ e <= a
  /\ t <= one \/ e <= t
  /\ t = a + w - jump /\ t <= a
  /\ p = one /\ u = w => t # one
  /\ a >= p /\ a + u - jump < p => short = jump - k
  /\ ~(a >= p /\ a + u - jump < p) => short = jump
  /\ b = IF a < one THEN a ELSE a - k

\* Such a jump stays one.
LEMMA BackArithmetic ==
  ASSUME NEW a, NEW w, NEW u, NEW jump, NEW t, NEW one, NEW e, NEW p, NEW k, NEW short, NEW b,
         JumpsBack(a, w, u, jump, t, one, e, p, k, short, b)
  PROVE  /\ 0 <= short /\ short <= jump /\ short \in Nat /\ b \in Nat
         /\ (IF t <= one THEN t ELSE t - k) = b + w - short
<1>0. /\ a \in Nat /\ w \in 3..5 /\ u \in 3..5 /\ (u = w \/ u = w - 1)
      /\ jump \in Nat /\ t \in Nat /\ one \in Nat /\ e \in Nat
      /\ p \in Nat /\ k \in Nat /\ 1 <= k /\ one <= p /\ p + k <= e
      /\ a + w <= one \/ e <= a
      /\ t <= one \/ e <= t
      /\ t = a + w - jump /\ t <= a
      /\ p = one /\ u = w => t # one
      /\ a >= p /\ a + u - jump < p => short = jump - k
      /\ ~(a >= p /\ a + u - jump < p) => short = jump
      /\ b = IF a < one THEN a ELSE a - k
  BY DEF JumpsBack
<1>1. CASE a + w <= one
  <2>1. short = jump /\ b = a /\ t <= one
    BY <1>0, <1>1
  <2> QED
    BY <1>0, <1>1, <2>1
<1>2. CASE e <= a /\ t <= one
  <2>1. short = jump - k /\ b = a - k
    <3>1. CASE u = w
      BY <1>0, <1>2, <3>1
    <3>2. CASE u = w - 1
      BY <1>0, <1>2, <3>2
    <3> QED
      BY <1>0, <3>1, <3>2
  <2> QED
    BY <1>0, <1>2, <2>1
<1>3. CASE e <= a /\ e <= t
  <2>1. short = jump /\ b = a - k
    BY <1>0, <1>3
  <2> QED
    BY <1>0, <1>3, <2>1
<1> QED
  BY <1>0, <1>1, <1>2, <1>3

\* A loop over the jumps and a cut, as in rewrite(), keep what is outside of the region.
LEMMA CutSurvives ==
  ASSUME NEW o, NEW code \in Seq(Nat), NEW S, Framed(code, S), Lands(code, S),
         NEW one, NEW e, Region(code, S, one, e), NEW p, NEW k,
         NEW edit, edit = Code(o), NEW list, list = o.important,
         Prepared(code, S, one, e, edit, list), Cuts(code, S, one, e, p, k, edit, list)
  PROVE  LET shorter == Shortened(o, p, k)
             new == SubSeq(shorter, 1, p) \o SubSeq(shorter, p + k + 1, Len(shorter))
         IN /\ new \in Seq(Nat) /\ Len(new) = Len(code) - k
            /\ \A x \in Nat : one <= x /\ x < p => Byte(new, x) = Byte(edit, x)
            /\ \A x \in Nat : p <= x /\ x + k < e => Byte(new, x) = Byte(edit, x + k)
            /\ Survives(code, S, new, one, e, k)
<1> DEFINE n == Len(code)
           m == Len(list)
           X(j) == list[j].index
           Z(j) == Size(list[j].name)
           At(j) == Operand(list[j])
           Out(x) == x < one \/ e <= x
           W(a) == Width(OpAt(code, a))
           Cross(j) == Crosses(edit, list[j], p)
           shorter == Shortened(o, p, k)
           new == SubSeq(shorter, 1, p) \o SubSeq(shorter, p + k + 1, Len(shorter))
<1>1. /\ n \in Nat /\ S \subseteq 0..(n - 1) /\ one \in S /\ e \in S \cup {n} /\ one < e
      /\ p \in Nat /\ k \in Nat /\ 1 <= k /\ one <= p /\ p + k <= e
  BY DEF Framed, Region, Cuts
<1>2. one \in Nat /\ e \in Nat /\ e <= n /\ p + k <= n
  BY <1>1
<1>3. /\ edit \in Seq(Nat) /\ Len(edit) = n /\ list \in Seq(Views)
      /\ \A x \in Nat : Out(x) => Byte(edit, x) = Byte(code, x)
      /\ \A i, j \in DOMAIN list : X(i) = X(j) => i = j
      /\ \A j \in DOMAIN list : Out(X(j)) => X(j) \in S /\ list[j].name = OpAt(code, X(j))
      /\ \A a \in S : Out(a) /\ OpAt(code, a) \in Jumping => \E j \in DOMAIN list : X(j) = a
      /\ \A i, j \in DOMAIN list : one <= X(i) /\ X(i) < e /\ one <= X(j) /\ X(j) < e => i = j
  BY DEF Prepared
<1>4. m \in Nat /\ DOMAIN list = 1..m /\ \A j \in 1..m : list[j] \in Views
  BY <1>3
<1>5. \A j \in 1..m : one <= X(j) /\ X(j) < e => X(j) + Z(j) <= e /\ (Cross(j) => p <= At(j) /\ At(j) + 2 <= p + k)
  BY <1>4 DEF Cuts
<1>6. /\ \A a \in S : W(a) \in 1..5 /\ a + W(a) \in S \cup {n}
      /\ \A a, b \in S : a < b => a + W(a) <= b
  BY Sizes DEF Framed
<1>7. \A j \in 1..m : X(j) \in Nat /\ list[j].name \in Jumping /\ Z(j) \in 3..5 /\ Z(j) = Width(list[j].name)
  BY <1>4, JumpSizes DEF Views
<1>8. \A j \in 1..m : At(j) = X(j) + Z(j) - 2
  BY DEF Operand
<1>9. \A j \in 1..m : Out(X(j)) => X(j) \in S /\ Z(j) = W(X(j)) /\ list[j].name = OpAt(code, X(j))
  BY <1>3, <1>4, <1>7
<1> HIDE DEF n, m, X, Z, At, W, Cross
<1>10. ASSUME NEW a \in S, Out(a) PROVE (a + W(a) <= one \/ e <= a) /\ a + W(a) <= n /\ a \in Nat
  <2>1. a \in Nat /\ a + W(a) <= n
    BY <1>1, <1>6
  <2>2. a < one => a + W(a) <= one
    BY <1>1, <1>6
  <2> QED
    BY <1>10, <2>1, <2>2
<1>11. \A j \in 1..m : Out(X(j)) \/ (one <= X(j) /\ X(j) < e)
  BY <1>2, <1>7
<1>12. \A j \in 1..m : At(j) \in Nat /\ At(j) + 1 < n /\ X(j) < At(j)
  <2> TAKE j \in 1..m
  <2>1. X(j) + Z(j) <= n
    <3>1. CASE Out(X(j))
      BY <1>9, <1>10, <3>1
    <3>2. CASE one <= X(j) /\ X(j) < e
      <4>1. X(j) + Z(j) <= e /\ X(j) \in Nat /\ Z(j) \in Nat
        BY <1>5, <1>7, <3>2
      <4> QED
        BY <1>1, <1>2, <4>1
    <3> QED
      BY <1>11, <3>1, <3>2
  <2>2. X(j) \in Nat /\ Z(j) \in 3..5 /\ At(j) = X(j) + Z(j) - 2
    BY <1>7, <1>8
  <2> DEFINE x == X(j)  z == Z(j)  at == At(j)
  <2>3. x \in Nat /\ z \in 3..5 /\ at = x + z - 2 /\ x + z <= n
    BY <2>1, <2>2
  <2> HIDE DEF x, z, at
  <2>4. at \in Nat /\ at + 1 < n /\ x < at
    BY <1>1, <2>3
  <2> QED
    BY <2>4 DEF x, at
<1>13. \A j \in 1..m : Out(X(j)) => At(j) + 2 <= one \/ e < At(j)
  <2> TAKE j \in 1..m
  <2> HAVE Out(X(j))
  <2>1. X(j) + Z(j) <= one \/ e <= X(j)
    BY <1>9, <1>10
  <2>2. X(j) \in Nat /\ Z(j) \in 3..5 /\ At(j) = X(j) + Z(j) - 2
    BY <1>7, <1>8
  <2> QED
    BY <1>2, <2>1, <2>2
<1>14. \A j \in 1..m : one <= X(j) /\ X(j) < e => one < At(j) /\ At(j) + 2 <= e
  <2> TAKE j \in 1..m
  <2> HAVE one <= X(j) /\ X(j) < e
  <2>1. X(j) + Z(j) <= e
    BY <1>5
  <2>2. X(j) \in Nat /\ Z(j) \in 3..5 /\ At(j) = X(j) + Z(j) - 2
    BY <1>7, <1>8
  <2> QED
    BY <1>2, <2>1, <2>2
<1>15. ASSUME NEW i \in 1..m, NEW j \in 1..m PROVE i = j \/ At(i) + 1 < At(j) \/ At(j) + 1 < At(i)
  <2>1. /\ X(i) \in Nat /\ Z(i) \in 3..5 /\ At(i) = X(i) + Z(i) - 2
        /\ X(j) \in Nat /\ Z(j) \in 3..5 /\ At(j) = X(j) + Z(j) - 2
    BY <1>7, <1>8
  <2>2. CASE Out(X(i)) /\ Out(X(j))
    <3>1. X(i) \in S /\ Z(i) = W(X(i)) /\ X(j) \in S /\ Z(j) = W(X(j))
      BY <1>9, <2>2
    <3>2. CASE X(i) = X(j)
      BY <1>3, <1>4, <3>2 DEF X
    <3>3. CASE X(i) < X(j)
      <4>1. X(i) + Z(i) <= X(j)
        BY <1>6, <3>1, <3>3
      <4> QED
        BY <2>1, <4>1
    <3>4. CASE X(j) < X(i)
      <4>1. X(j) + Z(j) <= X(i)
        BY <1>6, <3>1, <3>4
      <4> QED
        BY <2>1, <4>1
    <3> QED
      BY <2>1, <3>2, <3>3, <3>4
  <2>3. CASE Out(X(i)) /\ one <= X(j) /\ X(j) < e
    <3>1. At(i) + 2 <= one \/ e < At(i)
      BY <1>13, <2>3
    <3>2. one < At(j) /\ At(j) + 2 <= e
      BY <1>14, <2>3
    <3>3. At(i) \in Nat /\ At(j) \in Nat
      BY <1>12
    <3> QED
      BY <1>2, <3>1, <3>2, <3>3
  <2>4. CASE Out(X(j)) /\ one <= X(i) /\ X(i) < e
    <3>1. At(j) + 2 <= one \/ e < At(j)
      BY <1>13, <2>4
    <3>2. one < At(i) /\ At(i) + 2 <= e
      BY <1>14, <2>4
    <3>3. At(i) \in Nat /\ At(j) \in Nat
      BY <1>12
    <3> QED
      BY <1>2, <3>1, <3>2, <3>3
  <2>5. CASE one <= X(i) /\ X(i) < e /\ one <= X(j) /\ X(j) < e
    BY <1>3, <1>4, <2>5 DEF X
  <2> QED
    BY <1>11, <2>2, <2>3, <2>4, <2>5
<1>16. /\ shorter \in Seq(Nat) /\ Len(shorter) = n
       /\ \A x \in Nat : (\A j \in 1..m : Cross(j) => x # At(j) /\ x # At(j) + 1) => Byte(shorter, x) = Byte(edit, x)
       /\ \A j \in 1..m :
            LET short == Short(edit, At(j)) - k
            IN Cross(j) /\ 0 <= short /\ short <= ShortMax => Short(shorter, At(j)) = short
  <2>1. /\ \A j \in DOMAIN list : Operand(list[j]) + 1 < Len(edit)
        /\ \A i, j \in DOMAIN list :
             i = j \/ Operand(list[i]) + 1 < Operand(list[j]) \/ Operand(list[j]) + 1 < Operand(list[i])
    BY <1>3, <1>4, <1>12, <1>15 DEF At
  <2>2. ShortenedTo(Shortened(o, p, k), edit, list, p, k)
    <3>1. /\ edit \in Seq(Nat) /\ edit = Code(o) /\ list \in Seq(Views) /\ list = o.important
          /\ p \in Nat /\ k \in Nat
      BY <1>1, <1>3
    <3> QED
      BY ONLY <2>1, <3>1, ShortenedFacts
  <2> QED
    BY <1>3, <1>4, <2>2 DEF Cross, At, ShortenedTo
<1> HIDE DEF shorter
<1>17. /\ new \in Seq(Nat) /\ Len(new) = n - k
       /\ \A x \in Nat : Byte(new, x) = IF x < p THEN Byte(shorter, x) ELSE Byte(shorter, x + k)
  <2>1. shorter \in Seq(Nat) /\ Len(shorter) = n /\ p \in Nat /\ k \in Nat /\ p + k <= Len(shorter)
    BY <1>1, <1>2, <1>16
  <2>2. new \in Seq(Nat) /\ Len(new) = Len(shorter) - k
        /\ \A x \in Nat : Byte(new, x) = IF x < p THEN Byte(shorter, x) ELSE Byte(shorter, x + k)
    BY ONLY <2>1, CutFacts
  <2> QED
    BY <2>1, <2>2
<1> HIDE DEF new
<1>18. ASSUME NEW x \in Nat, one <= x, x < e, x < p \/ p + k <= x PROVE Byte(shorter, x) = Byte(edit, x)
  <2>1. ASSUME NEW j \in 1..m, Cross(j) PROVE x # At(j) /\ x # At(j) + 1
    <3>1. CASE Out(X(j))
      BY <1>2, <1>12, <1>13, <1>18, <3>1
    <3>2. CASE one <= X(j) /\ X(j) < e
      <4>1. p <= At(j) /\ At(j) + 2 <= p + k
        BY <1>5, <2>1, <3>2
      <4> QED
        BY <1>1, <1>12, <1>18, <4>1
    <3> QED
      BY <1>11, <3>1, <3>2
  <2> QED
    BY <1>16, <2>1
<1>19. ASSUME NEW x \in Nat, one <= x, x < p PROVE Byte(new, x) = Byte(edit, x)
  <2>1. x < e
    BY <1>1, <1>2, <1>19
  <2> QED
    BY <1>17, <1>18, <1>19, <2>1
<1>20. ASSUME NEW x \in Nat, p <= x, x + k < e PROVE Byte(new, x) = Byte(edit, x + k)
  <2>1. x + k \in Nat /\ one <= x + k /\ p + k <= x + k /\ ~(x < p)
    BY <1>1, <1>2, <1>20
  <2>2. Byte(shorter, x + k) = Byte(edit, x + k)
    BY <1>18, <1>20, <2>1
  <2> QED
    BY <1>17, <2>1, <2>2
<1>21. Survives(code, S, new, one, e, k)
  <2>1. ASSUME NEW a \in S, Out(a), NEW b, b = IF a < one THEN a ELSE a - k
        PROVE  /\ OpAt(new, b) = OpAt(code, a)
               /\ OpAt(code, a) \in Jumping =>
                    /\ LeadsTo(new, b) = Moved(LeadsTo(code, a), one, k)
                    /\ Short(new, b + W(a) - 2) <= ShortMax
    <3>1. (a + W(a) <= one \/ e <= a) /\ a + W(a) <= n /\ a \in Nat /\ W(a) \in 1..5
      BY <1>6, <1>10, <2>1
    <3>2. \A x \in Nat : a <= x /\ x < a + W(a) => Out(x)
      BY <1>2, <3>1
    <3>3. ASSUME NEW x \in Nat, a <= x, x < a + W(a), NEW y, y = IF a < one THEN x ELSE x - k
          PROVE  y \in Nat /\ Byte(new, y) = Byte(shorter, x)
      <4>1. CASE a < one
        <5>1. y = x /\ x < p
          BY <1>1, <1>2, <3>1, <3>3, <4>1
        <5> QED
          BY <1>17, <3>3, <5>1
      <4>2. CASE e <= a
        <5>1. y = x - k /\ y \in Nat /\ ~(y < p) /\ y + k = x
          BY <1>1, <1>2, <3>1, <3>3, <4>2
        <5> QED
          BY <1>17, <5>1
      <4> QED
        BY <2>1, <4>1, <4>2
    <3>4. ASSUME NEW j \in 1..m PROVE a # At(j) /\ a # At(j) + 1
      <4>1. CASE Out(X(j))
        <5>1. X(j) \in S /\ Z(j) = W(X(j)) /\ X(j) \in Nat /\ Z(j) \in 3..5 /\ At(j) = X(j) + Z(j) - 2
          BY <1>7, <1>8, <1>9, <4>1
        <5>2. CASE X(j) < a
          <6>1. X(j) + Z(j) <= a
            BY <1>6, <5>1, <5>2
          <6> QED
            BY <3>1, <5>1, <6>1
        <5>3. CASE a <= X(j)
          BY <3>1, <5>1, <5>3
        <5> QED
          BY <3>1, <5>1, <5>2, <5>3
      <4>2. CASE one <= X(j) /\ X(j) < e
        <5>1. one < At(j) /\ At(j) + 2 <= e /\ At(j) \in Nat
          BY <1>12, <1>14, <4>2
        <5> QED
          BY <1>2, <2>1, <3>1, <5>1
      <4> QED
        BY <1>11, <4>1, <4>2
    <3>5. Byte(new, b) = Byte(code, a)
      <4>1. a <= a /\ a < a + W(a)
        BY <3>1
      <4>2. Byte(new, b) = Byte(shorter, a)
        BY <2>1, <3>1, <3>3, <4>1
      <4>3. Byte(shorter, a) = Byte(edit, a)
        BY <1>16, <3>1, <3>4
      <4>4. Byte(edit, a) = Byte(code, a)
        BY <1>3, <2>1, <3>1
      <4> QED
        BY <4>2, <4>3, <4>4
    <3>6. OpAt(new, b) = OpAt(code, a)
      BY <3>5 DEF OpAt
    <3>7. ASSUME OpAt(code, a) \in Jumping
          PROVE  /\ LeadsTo(new, b) = Moved(LeadsTo(code, a), one, k)
                 /\ Short(new, b + W(a) - 2) <= ShortMax
      <4> DEFINE name == OpAt(code, a)
                 w == W(a)
                 at == a + w - 2
                 jump == Short(code, at)
                 t == LeadsTo(code, a)
      <4>1. PICK j \in 1..m : X(j) = a
        BY <1>3, <1>4, <2>1, <3>7 DEF X
      <4>2. Z(j) = w /\ list[j].name = name /\ w \in 3..5 /\ At(j) = at
        BY <1>7, <1>8, <1>9, <2>1, <4>1
      <4>3. t \in S /\ jump <= ShortMax /\ (name \in Backward => t <= a)
        BY <2>1, <3>7 DEF Lands, W
      <4>4. t = IF name \in Forward THEN a + w + jump ELSE a + w - jump
        BY DEF LeadsTo, W
      <4>5. t <= one \/ e <= t
        BY <2>1, <3>7 DEF Region
      <4>6. p = one /\ name \in {"LOOP", "INCREMENT_LOOP"} => t # one
        BY <2>1 DEF Cuts
      <4>7. name \in Forward \/ name = "FOR_LOOP" \/ name \in {"LOOP", "INCREMENT_LOOP"}
        BY <3>7 DEF Jumping, Backward
      <4>8. name = "FOR_LOOP" => w = 4
        BY DEF Width, W, ConditionalJumps
      <4>9. at \in Nat /\ Out(at) /\ Out(at + 1) /\ a <= at /\ at + 1 < a + w
        <5> DEFINE y == at
        <5>1. y = a + w - 2 /\ w \in 3..5 /\ a \in Nat
          BY <3>1, <4>2
        <5>2. \A x \in Nat : a <= x /\ x < a + w => Out(x)
          BY <3>2
        <5> HIDE DEF w, y
        <5>3. y \in Nat /\ y + 1 \in Nat /\ a <= y /\ a <= y + 1 /\ y + 1 < a + w /\ y < a + w
          BY <5>1
        <5>4. y \in Nat /\ Out(y) /\ Out(y + 1) /\ a <= y /\ y + 1 < a + w
          BY <5>2, <5>3
        <5> QED
          BY <5>4 DEF y
      <4>10. Short(edit, at) = jump /\ jump \in Nat
        <5>1. Byte(edit, at) = Byte(code, at) /\ Byte(edit, at + 1) = Byte(code, at + 1)
          BY <1>3, <4>9
        <5>2. Byte(code, at) \in Nat /\ Byte(code, at + 1) \in Nat
          BY ByteFacts
        <5>3. jump = 256 * Byte(code, at) + Byte(code, at + 1)
          BY DEF Short
        <5>4. Short(edit, at) = 256 * Byte(edit, at) + Byte(edit, at + 1)
          BY DEF Short
        <5> HIDE DEF jump
        <5> QED
          BY <5>1, <5>2, <5>3, <5>4
      <4>11. Cross(j) = IF name \in Forward
                        THEN a < p /\ a + w + jump > p
                        ELSE a >= p /\ a + (IF name = "FOR_LOOP" THEN 3 ELSE w) - jump < p
        <5>1. list[j].index = a /\ list[j].name = name /\ Size(list[j].name) = w
          BY <4>1, <4>2 DEF X, Z
        <5>2. a + w - 2 = at
          OBVIOUS
        <5>3. Short(edit, a + w - 2) = jump
          BY <4>10, <5>2
        <5> HIDE DEF w, name, jump, at
        <5> QED
          BY <5>1, <5>3 DEF Cross, Crosses
      <4> DEFINE short == IF Cross(j) THEN jump - k ELSE jump
                 u == IF name = "FOR_LOOP" THEN 3 ELSE w
      <4> HIDE DEF t, jump, at
      <4>12. t \in Nat
        BY <1>1, <4>3
      <4>13. /\ 0 <= short /\ short <= jump /\ short \in Nat /\ b \in Nat
             /\ (IF t <= one THEN t ELSE t - k) = IF name \in Forward THEN b + w + short ELSE b + w - short
        <5>1. CASE name \in Forward
          <6>1. /\ a < p /\ a + w + jump > p => short = jump - k
                /\ ~(a < p /\ a + w + jump > p) => short = jump
            BY <4>11, <5>1
          <6>2. t = a + w + jump
            BY <4>4, <5>1
          <6>z. /\ a \in Nat /\ w \in 3..5 /\ jump \in Nat /\ t \in Nat /\ one \in Nat /\ e \in Nat
                /\ p \in Nat /\ k \in Nat /\ 1 <= k /\ one <= p /\ p + k <= e
                /\ (a + w <= one \/ e <= a) /\ (t <= one \/ e <= t) /\ b = IF a < one THEN a ELSE a - k
            BY <1>1, <1>2, <2>1, <3>1, <4>2, <4>5, <4>10, <4>12
          <6> HIDE DEF short, w, name
          <6>3. /\ 0 <= short /\ short <= jump /\ short \in Nat /\ b \in Nat
                /\ (IF t <= one THEN t ELSE t - k) = b + w + short
            BY ONLY <6>z, <6>1, <6>2, AheadArithmetic
          <6> QED
            BY <5>1, <6>3
        <5>2. CASE name \notin Forward
          <6>1. /\ a >= p /\ a + u - jump < p => short = jump - k
                /\ ~(a >= p /\ a + u - jump < p) => short = jump
            BY <4>11, <5>2
          <6>2. t = a + w - jump
            BY <4>4, <5>2
          <6>3. u \in 3..5 /\ (u = w \/ u = w - 1) /\ (p = one /\ u = w => t # one)
            BY <4>2, <4>6, <4>7, <4>8, <5>2
          <6>4. t <= a
            BY <3>7, <4>3, <5>2 DEF Jumping
          <6>z. /\ a \in Nat /\ w \in 3..5 /\ jump \in Nat /\ t \in Nat /\ one \in Nat /\ e \in Nat
                /\ p \in Nat /\ k \in Nat /\ 1 <= k /\ one <= p /\ p + k <= e
                /\ (a + w <= one \/ e <= a) /\ (t <= one \/ e <= t) /\ b = IF a < one THEN a ELSE a - k
            BY <1>1, <1>2, <2>1, <3>1, <4>2, <4>5, <4>10, <4>12
          <6> HIDE DEF short, w, name, u
          <6>5. /\ 0 <= short /\ short <= jump /\ short \in Nat /\ b \in Nat
                /\ (IF t <= one THEN t ELSE t - k) = b + w - short
            <7>1. JumpsBack(a, w, u, jump, t, one, e, p, k, short, b)
              BY ONLY <6>z, <6>1, <6>2, <6>3, <6>4 DEF JumpsBack
            <7> QED
              BY ONLY <7>1, BackArithmetic
          <6> QED
            BY <5>2, <6>5
        <5> QED
          BY <5>1, <5>2
      <4>14. Short(shorter, at) = short
        <5>1. CASE Cross(j)
          <6>1. short = Short(edit, At(j)) - k
            BY <4>2, <4>10, <5>1
          <6>2. 0 <= short /\ short <= ShortMax
            BY <4>3, <4>10, <4>13 DEF ShortMax
          <6> HIDE DEF short
          <6>3. Short(shorter, At(j)) = short
            BY <1>16, <5>1, <6>1, <6>2
          <6> QED
            BY <4>2, <6>3
        <5>2. CASE ~Cross(j)
          <6>1. ASSUME NEW i \in 1..m, Cross(i)
                PROVE  at # At(i) /\ at # At(i) + 1 /\ at + 1 # At(i) /\ at + 1 # At(i) + 1
            <7>1. At(i) + 1 < at \/ at + 1 < At(i)
              BY <1>15, <4>2, <5>2, <6>1
            <7>2. At(i) \in Nat
              BY <1>12
            <7> QED
              BY <4>9, <7>1, <7>2
          <6>2. at \in Nat /\ at + 1 \in Nat
            BY <4>9
          <6>3. Byte(shorter, at) = Byte(edit, at) /\ Byte(shorter, at + 1) = Byte(edit, at + 1)
            BY <1>16, <6>1, <6>2
          <6>4. Short(shorter, at) = Short(edit, at)
            BY <6>3 DEF Short
          <6> QED
            BY <4>10, <5>2, <6>4
        <5> QED
          BY <5>1, <5>2
      <4>15. b + w - 2 \in Nat /\ Short(new, b + w - 2) = short
        <5> DEFINE y == b + w - 2
        <5>1. /\ y = IF a < one THEN at ELSE at - k
              /\ y + 1 = IF a < one THEN at + 1 ELSE (at + 1) - k
          <6>1. at = a + w - 2 /\ a \in Nat /\ w \in 3..5 /\ b = (IF a < one THEN a ELSE a - k)
            BY <2>1, <3>1, <4>2 DEF at
          <6> HIDE DEF w
          <6> QED
            BY <1>1, <1>2, <6>1
        <5> HIDE DEF y
        <5>2. y \in Nat /\ Byte(new, y) = Byte(shorter, at)
          <6>1. at < a + w
            BY <3>1, <4>2, <4>9
          <6> QED
            BY <3>3, <4>9, <5>1, <6>1
        <5>3. Byte(new, y + 1) = Byte(shorter, at + 1)
          <6>1. at + 1 \in Nat /\ a <= at + 1
            BY <3>1, <4>9
          <6> QED
            BY <3>3, <4>9, <5>1, <6>1
        <5>4. Short(new, y) = Short(shorter, at)
          BY <5>2, <5>3 DEF Short
        <5> QED
          BY <4>14, <5>2, <5>4 DEF y
      <4>16. LeadsTo(new, b) = IF name \in Forward THEN b + w + short ELSE b + w - short
        <5>1. OpAt(new, b) = name /\ Width(name) = w
          BY <3>6 DEF W
        <5> HIDE DEF name, w, short
        <5> QED
          BY <4>15, <5>1 DEF LeadsTo
      <4>17. short <= ShortMax
        BY <4>3, <4>10, <4>13 DEF ShortMax
      <4> QED
        BY <4>13, <4>15, <4>16, <4>17 DEF Moved, t
    <3> QED
      BY <3>6, <3>7
  <2> QED
    BY <2>1 DEF Survives, W
<1> QED
  BY <1>17, <1>19, <1>20, <1>21 DEF n, new, shorter

\* The instructions after the cut: those before the region, the one that
\* replaces it, if any, and those after it.
After(S, one, e, k) ==
  {a \in S : a < one} \cup {a \in {one} : one + k < e} \cup {a - k : a \in {b \in S : e <= b}}

\* What is in the region of the new code does not matter to what is outside.
LEMMA SurvivesSame ==
  ASSUME NEW code \in Seq(Nat), NEW S, Framed(code, S), NEW one \in S, NEW e \in Nat, NEW k \in Nat, one + k <= e,
         NEW old, Survives(code, S, old, one, e, k),
         NEW new, \A x \in Nat : x < one \/ e <= x + k => Byte(new, x) = Byte(old, x)
  PROVE  Survives(code, S, new, one, e, k)
<1> DEFINE W(a) == Width(OpAt(code, a))
           n == Len(code)
<1>1. n \in Nat /\ S \subseteq 0..(n - 1)
  BY DEF Framed
<1>2. /\ \A a \in S : W(a) \in 1..5
      /\ \A a, b \in S : a < b => a + W(a) <= b
  BY Sizes DEF Framed
<1> HIDE DEF n, W
<1>3. ASSUME NEW a \in S, a < one \/ e <= a, NEW b, b = IF a < one THEN a ELSE a - k
      PROVE  /\ OpAt(new, b) = OpAt(code, a)
             /\ OpAt(code, a) \in Jumping =>
                  /\ LeadsTo(new, b) = Moved(LeadsTo(code, a), one, k)
                  /\ Short(new, b + W(a) - 2) <= ShortMax
  <2>1. /\ OpAt(old, b) = OpAt(code, a)
        /\ OpAt(code, a) \in Jumping =>
             /\ LeadsTo(old, b) = Moved(LeadsTo(code, a), one, k)
             /\ Short(old, b + W(a) - 2) <= ShortMax
    BY <1>3 DEF Survives, W
  <2>2. b \in Nat /\ (b + W(a) <= one \/ e <= b + k) /\ a \in Nat
    <3> DEFINE w == W(a)
    <3>1. a \in Nat /\ one \in Nat /\ w \in 1..5 /\ (a < one => a + w <= one)
      BY <1>1, <1>2
    <3> HIDE DEF w
    <3>2. b \in Nat /\ (b + w <= one \/ e <= b + k)
      BY <1>3, <3>1
    <3> QED
      BY <3>1, <3>2 DEF w
  <2>3. ASSUME NEW x \in Nat, b <= x, x < b + W(a) PROVE Byte(new, x) = Byte(old, x)
    <3> DEFINE w == W(a)
    <3>1. one \in Nat /\ w \in 1..5 /\ (b + w <= one \/ e <= b + k) /\ x < b + w
      BY <1>1, <1>2, <2>2, <2>3
    <3> HIDE DEF w
    <3>2. x < one \/ e <= x + k
      BY <2>2, <2>3, <3>1
    <3> QED
      BY <3>2
  <2>4. OpAt(new, b) = OpAt(old, b)
    <3>1. b <= b /\ b < b + W(a)
      BY <1>2, <2>2
    <3>2. Byte(new, b) = Byte(old, b)
      BY <2>2, <2>3, <3>1
    <3> QED
      BY <3>2 DEF OpAt
  <2>5. ASSUME OpAt(code, a) \in Jumping PROVE Short(new, b + W(a) - 2) = Short(old, b + W(a) - 2)
    <3> DEFINE w == W(a)
               y == b + w - 2
    <3>1. w \in 3..5
      BY <2>5, JumpSizes DEF W
    <3> HIDE DEF w
    <3>2. y \in Nat /\ y + 1 \in Nat /\ b <= y /\ b <= y + 1 /\ y < b + w /\ y + 1 < b + w
      BY <2>2, <3>1
    <3>3. Byte(new, y) = Byte(old, y) /\ Byte(new, y + 1) = Byte(old, y + 1)
      BY <2>3, <3>2 DEF w
    <3>4. Short(new, y) = Short(old, y)
      BY <3>3 DEF Short
    <3> QED
      BY <3>4 DEF w
  <2>6. OpAt(code, a) \in Jumping => LeadsTo(new, b) = LeadsTo(old, b)
    <3>1. OpAt(old, b) = OpAt(code, a) /\ OpAt(new, b) = OpAt(code, a)
      BY <2>1, <2>4
    <3> QED
      BY <2>5, <3>1 DEF LeadsTo, W
  <2> QED
    BY <2>1, <2>4, <2>5, <2>6
<1> QED
  BY <1>3 DEF Survives, W

\* Where nothing is cut out, the code itself survives.
LEMMA SurvivesNone ==
  ASSUME NEW code \in Seq(Nat), NEW S, Framed(code, S), Lands(code, S), NEW one \in S, NEW e \in Nat, one < e
  PROVE  Survives(code, S, code, one, e, 0)
<1>1. S \subseteq Nat
  BY DEF Framed
<1>2. \A a \in S : a = IF a < one THEN a ELSE a - 0
  BY <1>1
<1>3. \A a \in S : OpAt(code, a) \in Jumping =>
        /\ LeadsTo(code, a) = Moved(LeadsTo(code, a), one, 0)
        /\ Short(code, a + Width(OpAt(code, a)) - 2) <= ShortMax
  <2> TAKE a \in S
  <2> HAVE OpAt(code, a) \in Jumping
  <2> DEFINE t == LeadsTo(code, a)
  <2>1. t \in S /\ Short(code, a + Width(OpAt(code, a)) - 2) <= ShortMax
    BY DEF Lands
  <2> HIDE DEF t
  <2>2. t = Moved(t, one, 0)
    BY <1>1, <2>1 DEF Moved
  <2> QED
    BY <2>1, <2>2 DEF t
<1> QED
  BY <1>2, <1>3 DEF Survives

\* The instruction that replaces the region, if there is one, and where it jumps to.
Replaces(code, S, new, one, e, k) ==
  /\ one + k = e => e \in S
  /\ one + k < e =>
       /\ one + Width(OpAt(new, one)) = e - k
       /\ Size(OpAt(new, one)) = Width(OpAt(new, one))
       /\ OpAt(new, one) \in Jumping =>
            /\ Short(new, one + Width(OpAt(new, one)) - 2) <= ShortMax
            /\ \E t \in S : /\ t <= one \/ e <= t
                            /\ LeadsTo(new, one) = Moved(t, one, k)
                            /\ OpAt(new, one) \in Backward => t <= one

\* The new code is a row of instructions, and its jumps lead to some of them.
LEMMA Reframed ==
  ASSUME NEW code \in Seq(Nat), NEW S, Framed(code, S), Judged(code, S), Lands(code, S),
         NEW one, NEW e, Region(code, S, one, e), Seen(code, S, one), NEW k \in Nat, one + k <= e,
         NEW new \in Seq(Nat), Len(new) = Len(code) - k, Survives(code, S, new, one, e, k),
         Replaces(code, S, new, one, e, k), NEW T, T = After(S, one, e, k)
  PROVE  /\ Framed(new, T) /\ Judged(new, T) /\ Lands(new, T) /\ Seen(new, T, one)
         /\ \A z \in S : z < one /\ Seen(code, S, z) => Seen(new, T, z)
         /\ \A t \in S : t <= one \/ e <= t => Moved(t, one, k) \in T
<1> DEFINE n == Len(code)
           m == Len(new)
           W(a) == Width(OpAt(code, a))
           V(b) == Width(OpAt(new, b))
           Y(a) == Size(OpAt(code, a))
           Z(b) == Size(OpAt(new, b))
<1>1. /\ n \in Nat /\ S \subseteq 0..(n - 1) /\ one \in S /\ e \in S \cup {n} /\ one < e /\ 0 \in S \cup {n}
      /\ m = n - k
  BY DEF Framed, Region
<1>2. one \in Nat /\ e \in Nat /\ e <= n /\ m \in Nat
  BY <1>1
<1>3. /\ \A a \in S : W(a) \in 1..5 /\ a + W(a) \in S \cup {n}
      /\ \A a, b \in S : a < b => a + W(a) <= b
  BY Sizes DEF Framed
<1>4. /\ \A a \in S : a < one => OpAt(new, a) = OpAt(code, a)
      /\ \A a \in S : e <= a => OpAt(new, a - k) = OpAt(code, a)
  <2>1. \A a \in S : a < one => a = IF a < one THEN a ELSE a - k
    OBVIOUS
  <2>2. \A a \in S : e <= a => ~(a < one)
    BY <1>1, <1>2
  <2> QED
    BY <2>1, <2>2 DEF Survives
<1>5. /\ \A a \in S : a < one => V(a) = W(a) /\ Z(a) = Y(a)
      /\ \A a \in S : e <= a => V(a - k) = W(a) /\ Z(a - k) = Y(a)
      /\ one + k < e => one + V(one) = e - k /\ Z(one) = V(one)
      /\ one + k = e => e \in S
  BY <1>4 DEF Replaces
<1>6. \A b \in T : \/ b \in S /\ b < one
                   \/ b = one /\ one + k < e
                   \/ \E a \in S : e <= a /\ b = a - k
  BY DEF After
<1>7. /\ \A a \in S : a < one => a \in T
      /\ one + k < e => one \in T
      /\ \A a \in S : e <= a => a - k \in T
  BY DEF After
<1>8. one \in T
  <2>1. CASE one + k < e
    BY <1>7, <2>1
  <2>2. CASE one + k = e
    <3>1. e \in S /\ e <= e /\ e - k = one
      BY <1>2, <1>5, <2>2
    <3> QED
      BY <1>7, <3>1
  <2> QED
    BY <1>2, <2>1, <2>2
<1>9. e - k \in T \cup {m}
  BY <1>1, <1>2, <1>7
<1> HIDE DEF n, m, W, V, Y, Z
<1>10. ASSUME NEW b \in T PROVE b \in Nat /\ b < m /\ b + V(b) \in T \cup {m}
  <2>1. CASE b \in S /\ b < one
    <3> DEFINE c == b + W(b)
    <3>1. c \in S \cup {n} /\ c <= one /\ b \in Nat /\ b < m
      BY <1>1, <1>2, <1>3, <2>1
    <3> HIDE DEF c
    <3>2. c \in T
      <4>1. CASE c = one
        BY <1>8, <4>1
      <4>2. CASE c # one
        <5>1. c \in S /\ c < one
          BY <1>1, <1>2, <3>1, <4>2
        <5> QED
          BY <1>7, <5>1
      <4> QED
        BY <4>1, <4>2
    <3>3. b + V(b) = c
      BY <1>5, <2>1 DEF c
    <3> QED
      BY <3>1, <3>2, <3>3
  <2>2. CASE b = one /\ one + k < e
    <3>1. b + V(b) = e - k
      BY <1>5, <2>2
    <3>2. b \in Nat /\ b < m
      BY <1>1, <1>2, <2>2
    <3> QED
      BY <1>9, <3>1, <3>2
  <2>3. ASSUME NEW a \in S, e <= a, b = a - k PROVE b \in Nat /\ b < m /\ b + V(b) \in T \cup {m}
    <3> DEFINE w == W(a)
    <3>1. a \in Nat /\ w \in 1..5 /\ a + w \in S \cup {n} /\ V(b) = w /\ a < n
      BY <1>1, <1>3, <1>5, <2>3
    <3> HIDE DEF w
    <3>2. b \in Nat /\ b < m /\ b + w = (a + w) - k /\ e <= a + w
      BY <1>1, <1>2, <2>3, <3>1
    <3>3. (a + w) - k \in T \cup {m}
      BY <1>1, <1>7, <3>1, <3>2
    <3> QED
      BY <3>1, <3>2, <3>3
  <2> QED
    BY <1>6, <2>1, <2>2, <2>3
<1>11. ASSUME NEW b \in T, NEW c \in T, b < c PROVE b + V(b) <= c
  <2>1. b \in Nat /\ c \in Nat
    BY <1>10
  <2>2. CASE b \in S /\ b < one
    <3> DEFINE w == W(b)
    <3>1. V(b) = w /\ w \in 1..5 /\ b + w <= one
      BY <1>1, <1>3, <1>5, <2>2
    <3>2. c \in S => b + w <= c
      BY <1>3, <1>11, <2>2
    <3> HIDE DEF w
    <3>3. CASE c \in S
      BY <3>1, <3>2, <3>3
    <3>4. CASE one <= c
      BY <1>2, <2>1, <3>1, <3>4
    <3>5. c \in S \/ one <= c
      <4>1. \A a \in S : e <= a => one <= a - k
        BY <1>1, <1>2
      <4> QED
        BY <1>2, <1>6, <4>1
    <3> QED
      BY <3>3, <3>4, <3>5
  <2>3. CASE b = one /\ one + k < e
    <3>1. b + V(b) = e - k
      BY <1>5, <2>3
    <3>2. PICK a \in S : e <= a /\ c = a - k
      BY <1>2, <1>6, <1>11, <2>1, <2>3
    <3>3. e - k <= c
      BY <1>1, <1>2, <3>2
    <3> QED
      BY <3>1, <3>3
  <2>4. ASSUME NEW a \in S, e <= a, b = a - k PROVE b + V(b) <= c
    <3>1. one <= b /\ a \in Nat
      BY <1>1, <1>2, <2>4
    <3>2. PICK d \in S : e <= d /\ c = d - k
      BY <1>2, <1>6, <1>11, <2>1, <3>1
    <3>3. a < d /\ d \in Nat
      BY <1>1, <1>11, <2>4, <3>1, <3>2
    <3> DEFINE w == W(a)
    <3>4. a + w <= d /\ V(b) = w /\ w \in 1..5
      BY <1>3, <1>5, <2>4, <3>3
    <3> HIDE DEF w
    <3> QED
      BY <2>4, <3>1, <3>2, <3>3, <3>4
  <2> QED
    BY <1>6, <2>2, <2>3, <2>4
<1>a. \A b \in T : b \in Nat /\ b < m
  BY <1>10
<1>b. \A a \in S : a \in Nat /\ a < n
  BY <1>1
<1>12. Framed(new, T)
  <2>1. T \subseteq 0..(m - 1)
    BY <1>2, <1>a
  <2>2. 0 \in T
    <3>1. 0 \in S
      BY <1>1, <1>2
    <3> QED
      BY <1>2, <1>7, <1>8, <3>1
  <2> QED
    BY <1>10, <1>11, <2>1, <2>2 DEF Framed, m, V
<1>13. \A a \in S : Y(a) # W(a) => W(a) = 1
  BY Sizes DEF Y, W
<1>14. \A a \in S : Y(a) = W(a) \/ one # a + 1
  BY DEF Seen, Y, W
<1>15. Judged(new, T)
  <2>1. ASSUME NEW b \in T, Z(b) # V(b) PROVE Size(OpAt(new, b + 1)) = 1
    <3>1. CASE b \in S /\ b < one
      <4>1. Y(b) # W(b) /\ W(b) = 1 /\ b + 1 \in S \cup {n} /\ b + 1 <= one /\ one # b + 1
        BY <1>1, <1>3, <1>5, <1>13, <1>14, <2>1, <3>1
      <4>2. b + 1 \in S /\ b + 1 < one
        BY <1>1, <1>2, <1>a, <4>1
      <4>3. Z(b + 1) = Y(b + 1)
        BY <1>5, <4>2
      <4>4. Y(b + 1) = 1
        BY <3>1, <4>1 DEF Judged, Y, W
      <4> QED
        BY <4>3, <4>4 DEF Z
    <3>2. CASE b = one /\ one + k < e
      BY <1>5, <2>1, <3>2
    <3>3. ASSUME NEW a \in S, e <= a, b = a - k PROVE Size(OpAt(new, b + 1)) = 1
      <4>1. Y(a) # W(a) /\ W(a) = 1 /\ a + 1 \in S \cup {n} /\ a \in Nat
        <5>1. Y(a) # W(a)
          BY <1>5, <2>1, <3>3
        <5>2. W(a) = 1
          BY <1>13, <5>1
        <5>3. a + W(a) \in S \cup {n}
          BY <1>3
        <5> QED
          BY <1>b, <5>1, <5>2, <5>3
      <4>2. b + 1 = (a + 1) - k /\ e <= a + 1
        BY <1>2, <3>3, <4>1
      <4>3. CASE a + 1 \in S
        <5>1. Z((a + 1) - k) = Y(a + 1)
          BY <1>5, <4>2, <4>3
        <5>2. Y(a + 1) = 1
          BY <3>3, <4>1 DEF Judged, Y, W
        <5> QED
          BY <4>2, <5>1, <5>2 DEF Z
      <4>4. CASE a + 1 = n
        <5>1. b + 1 = Len(new)
          BY <1>1, <4>2, <4>4 DEF m
        <5>2. b + 1 \notin 0..(Len(new) - 1)
          BY <1>2, <5>1 DEF m
        <5>3. Byte(new, b + 1) = Op["VOID"]
          BY <5>2, ByteFacts
        <5>4. OpAt(new, b + 1) = "VOID"
          BY <5>3, OpBytes, KnownNames DEF OpAt
        <5> QED
          BY <5>4, KnownSizes
      <4> QED
        BY <4>1, <4>3, <4>4
    <3> QED
      BY <1>6, <3>1, <3>2, <3>3
  <2> QED
    BY <2>1 DEF Judged, Z, V
<1>16. \A b \in T : b < one => b \in S
  <2>1. \A a \in S : e <= a => ~(a - k < one)
    BY <1>1, <1>2
  <2> QED
    BY <1>2, <1>6, <2>1
<1>17. Seen(new, T, one)
  <2>1. ASSUME NEW b \in T, one = b + 1 PROVE Z(b) = V(b)
    <3>0. b < one
      BY <1>2, <1>a, <2>1
    <3>1. b < one /\ b \in S
      BY <1>16, <3>0
    <3> QED
      BY <1>5, <1>14, <2>1, <3>1
  <2> QED
    BY <2>1 DEF Seen, Z, V
<1>18. ASSUME NEW z \in S, z < one, Seen(code, S, z) PROVE Seen(new, T, z)
  <2>1. ASSUME NEW b \in T, z = b + 1 PROVE Z(b) = V(b)
    <3>0. b < one
      BY <1>2, <1>a, <1>18, <2>1
    <3>1. b < one /\ b \in S
      BY <1>16, <3>0
    <3>2. Y(b) = W(b)
      BY <1>18, <2>1, <3>1 DEF Seen, Y, W
    <3> QED
      BY <1>5, <3>1, <3>2
  <2> QED
    BY <2>1 DEF Seen, Z, V
<1>19. ASSUME NEW t \in S, t <= one \/ e <= t PROVE Moved(t, one, k) \in T
  <2>1. t \in Nat
    BY <1>1
  <2>2. CASE t <= one
    <3>1. t < one \/ t = one
      BY <1>2, <2>1, <2>2
    <3> QED
      BY <1>7, <1>8, <1>19, <2>2, <3>1 DEF Moved
  <2>3. CASE e <= t
    <3>1. ~(t <= one)
      BY <1>1, <1>2, <2>1, <2>3
    <3> QED
      BY <1>7, <1>19, <2>3, <3>1 DEF Moved
  <2> QED
    BY <1>19, <2>2, <2>3
<1>20. Lands(new, T)
  <2>1. ASSUME NEW b \in T, OpAt(new, b) \in Jumping
        PROVE  /\ LeadsTo(new, b) \in T
               /\ OpAt(new, b) \in Backward => LeadsTo(new, b) <= b
               /\ Short(new, b + V(b) - 2) <= ShortMax
    <3>1. ASSUME NEW a \in S, a < one \/ e <= a, b = IF a < one THEN a ELSE a - k
          PROVE  /\ LeadsTo(new, b) \in T
                 /\ OpAt(new, b) \in Backward => LeadsTo(new, b) <= b
                 /\ Short(new, b + V(b) - 2) <= ShortMax
      <4> DEFINE t == LeadsTo(code, a)
      <4>1. OpAt(new, b) = OpAt(code, a)
        BY <3>1 DEF Survives
      <4>2. LeadsTo(new, b) = Moved(t, one, k) /\ Short(new, b + W(a) - 2) <= ShortMax
        BY <2>1, <3>1, <4>1 DEF Survives, W
      <4>3. W(a) = V(b)
        BY <4>1 DEF W, V
      <4>4. t \in S /\ (OpAt(code, a) \in Backward => t <= a)
        BY <2>1, <4>1 DEF Lands
      <4>5. t <= one \/ e <= t
        BY <2>1, <3>1, <4>1 DEF Region
      <4> HIDE DEF t
      <4>6. t <= a => Moved(t, one, k) <= b
        <5>1. t \in Nat /\ a \in Nat
          BY <1>1, <4>4
        <5> QED
          BY <1>1, <1>2, <3>1, <4>5, <5>1 DEF Moved
      <4> QED
        BY <1>19, <4>1, <4>2, <4>3, <4>4, <4>5, <4>6
    <3>2. CASE b = one /\ one + k < e
      <4>1. /\ Short(new, b + V(b) - 2) <= ShortMax
            /\ \E t \in S : /\ t <= one \/ e <= t
                            /\ LeadsTo(new, b) = Moved(t, one, k)
                            /\ OpAt(new, b) \in Backward => t <= one
        BY <2>1, <3>2 DEF Replaces, V
      <4>2. PICK t \in S : /\ t <= one \/ e <= t
                           /\ LeadsTo(new, b) = Moved(t, one, k)
                           /\ OpAt(new, b) \in Backward => t <= one
        BY <4>1
      <4>3. t <= one => Moved(t, one, k) <= b
        BY <3>2 DEF Moved
      <4> QED
        BY <1>19, <4>1, <4>2, <4>3
    <3>3. \A a \in S : a < one => a = IF a < one THEN a ELSE a - k
      OBVIOUS
    <3>4. \A a \in S : e <= a => ~(a < one)
      BY <1>1, <1>2
    <3>5. ~(b = one /\ one + k < e) => \E a \in S : (a < one \/ e <= a) /\ b = IF a < one THEN a ELSE a - k
      BY <1>6, <3>3, <3>4
    <3> QED
      BY <3>1, <3>2, <3>5
  <2> QED
    BY <2>1 DEF Lands, V
<1> QED
  BY <1>12, <1>15, <1>17, <1>18, <1>19, <1>20

\* The list of jumps follows the cut: Q is the instructions whose jumps were listed.
LEMMA Relisted ==
  ASSUME NEW code \in Seq(Nat), NEW S, Framed(code, S), NEW one \in S, NEW e \in Nat, one < e, NEW k \in Nat, one + k <= e,
         NEW new, Survives(code, S, new, one, e, k), NEW T, T = After(S, one, e, k),
         one + k = e => e \in S,
         NEW Q \in SUBSET S, \A a \in S : a < one \/ e <= a => a \in Q,
         NEW list, Exact(list, code, Q), NEW relist \in Seq(Views), DOMAIN relist = DOMAIN list,
         \A j \in DOMAIN list :
           /\ list[j].index < one => relist[j].index = list[j].index /\ relist[j].name = list[j].name
           /\ e <= list[j].index => relist[j].index = list[j].index - k /\ relist[j].name = list[j].name
           /\ one <= list[j].index /\ list[j].index < e =>
                one + k < e /\ relist[j].index = one /\ relist[j].name = OpAt(new, one),
         one + k < e /\ OpAt(new, one) \in Jumping =>
           \E j \in DOMAIN list : one <= list[j].index /\ list[j].index < e,
         \A i, j \in DOMAIN list :
           one <= list[i].index /\ list[i].index < e /\ one <= list[j].index /\ list[j].index < e => i = j
  PROVE  Exact(relist, new, T)
<1> DEFINE X(j) == list[j].index
           Y(j) == relist[j].index
           D == DOMAIN list
<1>1. S \subseteq Nat /\ one \in Nat
  BY DEF Framed
<1>2. /\ \A j \in D : X(j) \in Q /\ list[j].name = OpAt(code, X(j))
      /\ \A a \in Q : OpAt(code, a) \in Jumping => \E j \in D : X(j) = a
      /\ \A i, j \in D : X(i) = X(j) => i = j
  BY DEF Exact
<1>3. \A j \in D : X(j) \in S /\ X(j) \in Nat
  BY <1>1, <1>2
<1>4. \A j \in D : X(j) < one \/ e <= X(j) \/ (one <= X(j) /\ X(j) < e)
  BY <1>1, <1>3
<1>5. \A j \in D :
        /\ X(j) < one => Y(j) = X(j) /\ relist[j].name = list[j].name
        /\ e <= X(j) => Y(j) = X(j) - k /\ relist[j].name = list[j].name
        /\ one <= X(j) /\ X(j) < e => one + k < e /\ Y(j) = one /\ relist[j].name = OpAt(new, one)
  OBVIOUS
<1>6. /\ \A a \in S : a < one => OpAt(new, a) = OpAt(code, a) /\ a \in T
      /\ \A a \in S : e <= a => OpAt(new, a - k) = OpAt(code, a) /\ a - k \in T
      /\ one + k < e => one \in T
  <2>1. \A a \in S : a < one => a = IF a < one THEN a ELSE a - k
    OBVIOUS
  <2>2. \A a \in S : e <= a => ~(a < one)
    BY <1>1
  <2>3. /\ \A a \in S : a < one => OpAt(new, a) = OpAt(code, a)
        /\ \A a \in S : e <= a => OpAt(new, a - k) = OpAt(code, a)
    BY <2>1, <2>2 DEF Survives
  <2> QED
    BY <2>3 DEF After
<1>7. \A i, j \in D : one <= X(i) /\ X(i) < e /\ one <= X(j) /\ X(j) < e => i = j
  OBVIOUS
<1>8. one + k < e /\ OpAt(new, one) \in Jumping => \E j \in D : one <= X(j) /\ X(j) < e
  OBVIOUS
<1> HIDE DEF X, Y, D
<1>9. ASSUME NEW j \in D PROVE Y(j) \in T /\ relist[j].name = OpAt(new, Y(j))
  <2>1. CASE X(j) < one
    BY <1>2, <1>3, <1>5, <1>6, <2>1
  <2>2. CASE e <= X(j)
    BY <1>2, <1>3, <1>5, <1>6, <2>2
  <2>3. CASE one <= X(j) /\ X(j) < e
    BY <1>5, <1>6, <2>3
  <2> QED
    BY <1>4, <2>1, <2>2, <2>3
<1>10. ASSUME NEW b \in T, OpAt(new, b) \in Jumping PROVE \E j \in D : Y(j) = b
  <2>1. CASE b \in S /\ b < one
    <3>1. OpAt(code, b) \in Jumping /\ b \in Q
      BY <1>6, <1>10, <2>1
    <3>2. PICK j \in D : X(j) = b
      BY <1>2, <3>1
    <3> QED
      BY <1>5, <2>1, <3>2
  <2>2. CASE b = one /\ one + k < e
    <3>1. PICK j \in D : one <= X(j) /\ X(j) < e
      BY <1>8, <1>10, <2>2
    <3> QED
      BY <1>5, <2>2, <3>1
  <2>3. ASSUME NEW a \in S, e <= a, b = a - k PROVE \E j \in D : Y(j) = b
    <3>1. OpAt(code, a) \in Jumping /\ a \in Q
      BY <1>6, <1>10, <2>3
    <3>2. PICK j \in D : X(j) = a
      BY <1>2, <3>1
    <3> QED
      BY <1>5, <2>3, <3>2
  <2>4. \/ b \in S /\ b < one
        \/ b = one /\ one + k < e
        \/ \E a \in S : e <= a /\ b = a - k
    BY <1>10 DEF After
  <2> QED
    BY <2>1, <2>2, <2>3, <2>4
<1>11. ASSUME NEW i \in D, NEW j \in D, Y(i) = Y(j) PROVE i = j
  <2> DEFINE x == X(i)  y == X(j)  u == Y(i)  v == Y(j)
  <2>1. x \in Nat /\ y \in Nat /\ u = v
    BY <1>3, <1>11
  <2>2. /\ x < one => u = x
        /\ e <= x => u = x - k
        /\ one <= x /\ x < e => one + k < e /\ u = one
        /\ y < one => v = y
        /\ e <= y => v = y - k
        /\ one <= y /\ y < e => one + k < e /\ v = one
    BY <1>5
  <2> HIDE DEF x, y, u, v
  <2>3. x = y \/ (one <= x /\ x < e /\ one <= y /\ y < e)
    <3>1. CASE x < one
      BY <1>1, <2>1, <2>2, <3>1
    <3>2. CASE e <= x
      BY <1>1, <2>1, <2>2, <3>2
    <3>3. CASE one <= x /\ x < e
      BY <1>1, <2>1, <2>2, <3>3
    <3> QED
      BY <1>1, <2>1, <3>1, <3>2, <3>3
  <2> QED
    BY <1>2, <1>7, <2>3 DEF x, y
<1>12. /\ \A j \in DOMAIN relist : relist[j].index \in T /\ relist[j].name = OpAt(new, relist[j].index)
       /\ \A a \in T : OpAt(new, a) \in Jumping => \E j \in DOMAIN relist : relist[j].index = a
       /\ \A i, j \in DOMAIN relist : relist[i].index = relist[j].index => i = j
  BY <1>9, <1>10, <1>11 DEF Y, D
<1> QED
  BY <1>12 DEF Exact

-----------------------------------------------------------------------------
(* The except ranges *)

\* A range ends at the instruction after a jump, which ends its try.
Ranged(except, code, S) ==
  \A i \in DOMAIN except :
    LET range == except[i]
    IN /\ DOMAIN range = {"start", "end", "locals"}
       /\ range.start \in Nat /\ range.start <= range.end
       /\ range.end \in S /\ range.end - 3 \in S /\ OpAt(code, range.end - 3) = "JUMP"

\* The except ranges when k bytes are cut out at p.
Follow(moved, except, p, k) ==
  /\ DOMAIN moved = DOMAIN except
  /\ \A i \in DOMAIN except :
       LET range == except[i]
       IN /\ DOMAIN moved[i] = {"start", "end", "locals"}
          /\ moved[i].start = IF p < range.start THEN range.start - k ELSE range.start
          /\ moved[i].end = IF p < range.start \/ p < range.end THEN range.end - k ELSE range.end

\* The ranges are those of except statements of the code, nested or apart.
Arranged(except, code, S) == Ranged(except, code, S) /\ Nested(except)

\* Neither the jump of an except statement nor the start of a range is cut out.
Avoids(except, code, S, one, e, p, k) ==
  /\ \A a \in S : one <= a /\ a < e => OpAt(code, a) # "JUMP"
  /\ \A i \in DOMAIN except : except[i].start <= p \/ p + k <= except[i].start

\* The ranges follow the cut, and stay nested or apart.
LEMMA Rearranged ==
  ASSUME NEW code \in Seq(Nat), NEW S, Framed(code, S), NEW one, NEW e, Region(code, S, one, e), NEW k \in Nat,
         NEW p \in Nat, one <= p, p + k <= e,
         NEW new, Survives(code, S, new, one, e, k), NEW T, T = After(S, one, e, k), one + k = e => e \in S,
         NEW except, Arranged(except, code, S), Avoids(except, code, S, one, e, p, k),
         NEW moved, Follow(moved, except, p, k)
  PROVE  Arranged(moved, new, T)
<1> DEFINE s(i) == except[i].start
           f(i) == except[i].end
           t(i) == moved[i].start
           g(i) == moved[i].end
           D == DOMAIN except
           n == Len(code)
<1>0. /\ DOMAIN moved = DOMAIN except
      /\ \A i \in DOMAIN except :
           LET range == except[i]
           IN /\ DOMAIN moved[i] = {"start", "end", "locals"}
              /\ moved[i].start = IF p < range.start THEN range.start - k ELSE range.start
              /\ moved[i].end = IF p < range.start \/ p < range.end THEN range.end - k ELSE range.end
  BY DEF Follow
<1>1. /\ n \in Nat /\ S \subseteq 0..(n - 1) /\ one \in S /\ e \in S \cup {n} /\ one < e
      /\ \A a, b \in S : a < b => a + Width(OpAt(code, a)) <= b
  BY DEF Framed, Region
<1>2. one \in Nat /\ e \in Nat /\ e <= n
  BY <1>1
<1>3. /\ \A a \in S : a < one => OpAt(new, a) = OpAt(code, a) /\ a \in T
      /\ \A a \in S : e <= a => OpAt(new, a - k) = OpAt(code, a) /\ a - k \in T
      /\ one \in T
  <2>1. \A a \in S : a < one => a = IF a < one THEN a ELSE a - k
    OBVIOUS
  <2>2. \A a \in S : e <= a => ~(a < one)
    BY <1>1, <1>2
  <2>3. /\ \A a \in S : a < one => OpAt(new, a) = OpAt(code, a)
        /\ \A a \in S : e <= a => OpAt(new, a - k) = OpAt(code, a)
    BY <2>1, <2>2 DEF Survives
  <2>4. one + k < e => one \in T
    BY DEF After
  <2>5. one + k = e => one \in T
    <3>1. e - (one + k) = 0 /\ e \in S => e - k = one
      BY <1>2
    <3>2. one + k = e => e - k = one /\ e <= e /\ e \in S
      BY <1>2
    <3> QED
      BY <3>2 DEF After
  <2>6. one + k < e \/ one + k = e
    BY <1>2
  <2> QED
    BY <2>3, <2>4, <2>5, <2>6 DEF After
<1>4. \A i \in D : /\ s(i) \in Nat /\ s(i) <= f(i) /\ f(i) \in S /\ f(i) - 3 \in S
                   /\ OpAt(code, f(i) - 3) = "JUMP"
  BY DEF Arranged, Ranged
<1>5. \A i \in D : s(i) <= p \/ p + k <= s(i)
  BY DEF Avoids
<1>6. \A i \in D : /\ t(i) = IF p < s(i) THEN s(i) - k ELSE s(i)
                   /\ g(i) = IF p < s(i) \/ p < f(i) THEN f(i) - k ELSE f(i)
  BY <1>0
<1>7. \A i, j \in D : i < j => \/ s(j) <= s(i) /\ f(i) <= f(j)
                               \/ f(i) <= s(j) \/ f(j) <= s(i)
  BY DEF Arranged, Nested
<1>8. \A a \in S : one <= a /\ a < e => OpAt(code, a) # "JUMP"
  BY DEF Avoids
<1> HIDE DEF s, f, t, g, D, n
<1>9. ASSUME NEW i \in D
      PROVE  /\ s(i) \in Nat /\ f(i) \in Nat /\ s(i) <= f(i)
             /\ (f(i) <= one /\ f(i) - 3 < one) \/ e <= f(i) - 3
  <2> DEFINE end == f(i)
  <2>0. end \in S /\ end - 3 \in S /\ OpAt(code, end - 3) = "JUMP"
    BY <1>4
  <2> HIDE DEF end
  <2>a. \A a \in S : a \in Nat
    BY <1>1
  <2>1. end \in Nat /\ end - 3 \in Nat /\ end \in S /\ end - 3 \in S /\ OpAt(code, end - 3) = "JUMP"
    BY <2>0, <2>a
  <2>2. end - 3 < one \/ e <= end - 3
    BY <1>2, <1>8, <2>1
  <2>3. end - 3 < one => end <= one
    <3>1. Width(OpAt(code, end - 3)) = 3
      BY <2>1, KnownSizes
    <3>2. end - 3 < one => (end - 3) + 3 <= one
      BY <1>1, <2>1, <3>1
    <3> QED
      BY <1>2, <2>1, <3>2
  <2> QED
    BY <1>4, <2>1, <2>2, <2>3 DEF end
<1>10. ASSUME NEW i \in D
       PROVE  /\ s(i) <= p => t(i) = s(i)
              /\ ~(s(i) <= p) => p + k <= s(i) /\ t(i) = s(i) - k
              /\ f(i) <= one => g(i) = f(i) /\ s(i) <= p
              /\ e <= f(i) - 3 => g(i) = f(i) - k /\ p + k + 3 <= f(i)
  <2> DEFINE x == s(i)  y == f(i)  u == t(i)  v == g(i)
  <2>1. x \in Nat /\ y \in Nat /\ x <= y /\ (x <= p \/ p + k <= x)
    BY <1>5, <1>9
  <2>2. u = IF p < x THEN x - k ELSE x
    BY <1>6
  <2>3. v = IF p < x \/ p < y THEN y - k ELSE y
    BY <1>6
  <2> HIDE DEF x, y, u, v
  <2>4. /\ x <= p => u = x
        /\ ~(x <= p) => p + k <= x /\ u = x - k
        /\ y <= one => v = y /\ x <= p
        /\ e <= y - 3 => v = y - k /\ p + k + 3 <= y
    BY <1>2, <2>1, <2>2, <2>3
  <2> QED
    BY <2>4 DEF x, y, u, v
<1>11. ASSUME NEW i \in D
       PROVE  /\ t(i) \in Nat /\ t(i) <= g(i)
              /\ g(i) \in T /\ g(i) - 3 \in T /\ OpAt(new, g(i) - 3) = "JUMP"
  <2> DEFINE x == s(i)  y == f(i)  u == t(i)  v == g(i)
  <2>1. /\ x \in Nat /\ y \in Nat /\ x <= y
        /\ (y <= one /\ y - 3 < one) \/ e <= y - 3
        /\ x <= p => u = x
        /\ ~(x <= p) => p + k <= x /\ u = x - k
        /\ y <= one => v = y /\ x <= p
        /\ e <= y - 3 => v = y - k /\ p + k + 3 <= y
    BY <1>9, <1>10
  <2>2. y \in S /\ y - 3 \in S /\ OpAt(code, y - 3) = "JUMP"
    BY <1>4
  <2> HIDE DEF x, y, u, v
  <2>3. u \in Nat /\ u <= v
    BY <1>2, <2>1
  <2>4. CASE y <= one /\ y - 3 < one
    <3>1. v = y /\ v - 3 = y - 3
      BY <2>1, <2>4
    <3>2. y < one \/ y = one
      BY <1>2, <2>1, <2>4
    <3>3. v \in T
      BY <1>3, <2>2, <3>1, <3>2
    <3>4. v - 3 \in T /\ OpAt(new, v - 3) = "JUMP"
      BY <1>3, <2>2, <2>4, <3>1
    <3> QED
      BY <2>3, <3>3, <3>4 DEF x, y, u, v
  <2>5. CASE e <= y - 3
    <3>1. v = y - k /\ v - 3 = (y - 3) - k /\ e <= y
      BY <1>2, <2>1, <2>5
    <3>2. v \in T
      BY <1>3, <2>2, <3>1
    <3>3. v - 3 \in T /\ OpAt(new, v - 3) = "JUMP"
      BY <1>3, <2>2, <2>5, <3>1
    <3> QED
      BY <2>3, <3>2, <3>3 DEF x, y, u, v
  <2> QED
    BY <2>1, <2>4, <2>5
<1>12. ASSUME NEW i \in D, NEW j \in D, i < j
       PROVE  \/ t(j) <= t(i) /\ g(i) <= g(j)
              \/ g(i) <= t(j) \/ g(j) <= t(i)
  <2> DEFINE x == s(i)  y == f(i)  u == t(i)  v == g(i)
             xx == s(j)  yy == f(j)  uu == t(j)  vv == g(j)
  <2>1. /\ x \in Nat /\ y \in Nat /\ x <= y
        /\ (y <= one /\ y - 3 < one) \/ e <= y - 3
        /\ x <= p => u = x
        /\ ~(x <= p) => p + k <= x /\ u = x - k
        /\ y <= one => v = y /\ x <= p
        /\ e <= y - 3 => v = y - k /\ p + k + 3 <= y
    BY <1>9, <1>10
  <2>2. /\ xx \in Nat /\ yy \in Nat /\ xx <= yy
        /\ (yy <= one /\ yy - 3 < one) \/ e <= yy - 3
        /\ xx <= p => uu = xx
        /\ ~(xx <= p) => p + k <= xx /\ uu = xx - k
        /\ yy <= one => vv = yy /\ xx <= p
        /\ e <= yy - 3 => vv = yy - k /\ p + k + 3 <= yy
    BY <1>9, <1>10
  <2>3. \/ xx <= x /\ y <= yy
        \/ y <= xx \/ yy <= x
    BY <1>7, <1>12
  <2> HIDE DEF x, y, u, v, xx, yy, uu, vv
  <2>4. y <= yy => v <= vv
    BY <1>2, <2>1, <2>2
  <2>5. xx <= x => uu <= u
    BY <1>2, <2>1, <2>2
  <2>6. y <= xx => v <= uu
    BY <1>2, <2>1, <2>2
  <2>7. yy <= x => vv <= u
    BY <1>2, <2>1, <2>2
  <2>8. \/ uu <= u /\ v <= vv
        \/ v <= uu \/ vv <= u
    BY <2>3, <2>4, <2>5, <2>6, <2>7
  <2> QED
    BY <2>8 DEF x, y, u, v, xx, yy, uu, vv
<1>13. \A i \in DOMAIN moved : DOMAIN moved[i] = {"start", "end", "locals"}
  BY <1>0
<1> QED
  BY <1>0, <1>11, <1>12, <1>13 DEF Arranged, Ranged, Nested, t, g, D

-----------------------------------------------------------------------------
(* The optimizer as a record, and what its operations change of it *)

Shaped(o) ==
  /\ DOMAIN o = {"func", "important", "zero", "one", "failed", "aborted"}
  /\ DOMAIN o.func = {"code", "constants", "except", "arity"}
  /\ \E V : o.func.constants \in Seq(V)

\* Nothing but bytes from one up to f, and constants, is changed.
Edited(q, o, one, f) ==
  /\ Shaped(q) /\ q.func.except = o.func.except /\ q.important = o.important
  /\ q.one = o.one /\ q.zero = o.zero /\ q.failed = o.failed
  /\ Code(q) \in Seq(Nat) /\ Len(Code(q)) = Len(Code(o))
  /\ \A x \in Nat : x < one \/ f <= x => Byte(Code(q), x) = Byte(Code(o), x)

\* an optimizer whose code is replaced
WithCode(o, code) == [o EXCEPT !.func.code = code]

\* The fields of an optimizer whose code is replaced.
LEMMA CodeFields ==
  ASSUME NEW o, Shaped(o), NEW code, NEW q, q = WithCode(o, code)
  PROVE  /\ Shaped(q) /\ Code(q) = code /\ q.func.except = o.func.except /\ q.important = o.important
         /\ q.one = o.one /\ q.zero = o.zero /\ q.failed = o.failed
         /\ q.func.constants = o.func.constants
<1>1. /\ DOMAIN o = {"func", "important", "zero", "one", "failed", "aborted"}
      /\ DOMAIN o.func = {"code", "constants", "except", "arity"}
      /\ \E V : o.func.constants \in Seq(V)
  BY DEF Shaped
<1>2. DOMAIN q = DOMAIN o
  BY DEF WithCode
<1>3. /\ q.important = o.important /\ q.one = o.one /\ q.zero = o.zero /\ q.failed = o.failed
      /\ q.func = [o.func EXCEPT !.code = code]
  BY <1>1 DEF WithCode
<1>4. /\ DOMAIN q.func = DOMAIN o.func /\ q.func.code = code /\ q.func.except = o.func.except
      /\ q.func.constants = o.func.constants
  BY <1>1, <1>3
<1> QED
  BY <1>1, <1>2, <1>3, <1>4 DEF Shaped, Code

\* A byte that is written.
LEMMA SetFacts ==
  ASSUME NEW o, Shaped(o), Code(o) \in Seq(Nat), NEW at \in 0..(Len(Code(o)) - 1), NEW byte \in Nat
  PROVE  LET q == Set(o, at, byte)
         IN /\ \A one, f \in Nat : one <= at /\ at < f => Edited(q, o, one, f)
            /\ \A x \in Nat : Byte(Code(q), x) = IF x = at THEN byte ELSE Byte(Code(o), x)
            /\ q.func.constants = o.func.constants
<1> DEFINE q == Set(o, at, byte)
           new == Put(Code(o), at, byte)
<1>1. q = WithCode(o, new)
  BY DEF Set, Put, Code, WithCode
<1> HIDE DEF q
<1>2. new \in Seq(Nat) /\ Len(new) = Len(Code(o))
      /\ \A x \in Nat : Byte(new, x) = IF x = at THEN byte ELSE Byte(Code(o), x)
  BY PutFacts
<1> HIDE DEF new
<1>3. /\ Shaped(q) /\ Code(q) = new /\ q.func.except = o.func.except /\ q.important = o.important
      /\ q.one = o.one /\ q.zero = o.zero /\ q.failed = o.failed
      /\ q.func.constants = o.func.constants
  BY <1>1, CodeFields
<1>4. ASSUME NEW one \in Nat, NEW f \in Nat, one <= at, at < f PROVE Edited(q, o, one, f)
  <2>1. at \in Nat
    OBVIOUS
  <2>2. \A x \in Nat : x < one \/ f <= x => x # at
    BY <1>4, <2>1
  <2>3. \A x \in Nat : x < one \/ f <= x => Byte(Code(q), x) = Byte(Code(o), x)
    BY <1>2, <1>3, <2>2
  <2> QED
    BY <1>2, <1>3, <2>3 DEF Edited
<1> QED
  BY <1>2, <1>3, <1>4 DEF q

\* Edits follow each other.
LEMMA EditedAgain ==
  ASSUME NEW o, NEW q, NEW r, NEW one, NEW f, Edited(q, o, one, f), Edited(r, q, one, f)
  PROVE  Edited(r, o, one, f)
BY DEF Edited

\* An optimizer that is not changed.
LEMMA EditedSame ==
  ASSUME NEW o, Shaped(o), Code(o) \in Seq(Nat), NEW one, NEW f
  PROVE  Edited(o, o, one, f)
BY DEF Edited

\* The fields of an optimizer after a cut.
RewritesTo(cut, o, p, k) ==
  /\ Shaped(cut)
  /\ LET shorter == Shortened(o, p, k)
     IN Code(cut) = SubSeq(shorter, 1, p) \o SubSeq(shorter, p + k + 1, Len(shorter))
  /\ cut.func.except = [i \in DOMAIN o.func.except |-> MoveRange(o.func.except[i], p, k)]
  /\ cut.important = [j \in DOMAIN o.important |-> MoveView(o.important[j], p, k)]
  /\ cut.one = o.one /\ cut.zero = o.zero /\ cut.failed = o.failed

\* Rewrite changes the code, the ranges and the list of jumps.
LEMMA RewriteFields ==
  ASSUME NEW o, Shaped(o), NEW p, NEW k
  PROVE  RewritesTo(Rewrite(o, p, k), o, p, k)
<1> DEFINE list == o.important
           except == o.func.except
           shorter == Shortened(o, p, k)
           new == SubSeq(shorter, 1, p) \o SubSeq(shorter, p + k + 1, Len(shorter))
           moved == [i \in DOMAIN except |-> MoveRange(except[i], p, k)]
           relist == [j \in DOMAIN list |-> MoveView(list[j], p, k)]
           stop == o.aborted \/ Aborts(o, p, k)
           cut == Rewrite(o, p, k)
<1>1. cut = [o EXCEPT !.func.code = new, !.func.except = moved, !.important = relist, !.aborted = stop]
  BY DEF Rewrite
<1> HIDE DEF new, moved, relist, cut, shorter, stop
<1>2. /\ DOMAIN o = {"func", "important", "zero", "one", "failed", "aborted"}
      /\ DOMAIN o.func = {"code", "constants", "except", "arity"}
      /\ \E V : o.func.constants \in Seq(V)
  BY DEF Shaped
<1>3. DOMAIN cut = DOMAIN o
  BY <1>1
<1>4. /\ cut.important = relist /\ cut.one = o.one /\ cut.zero = o.zero /\ cut.failed = o.failed
      /\ cut.func = [o.func EXCEPT !.code = new, !.except = moved]
  BY <1>1, <1>2
<1>5. /\ DOMAIN cut.func = DOMAIN o.func /\ cut.func.code = new /\ cut.func.except = moved
      /\ cut.func.constants = o.func.constants
  BY <1>2, <1>4
<1> QED
  BY <1>2, <1>3, <1>4, <1>5 DEF Shaped, Code, cut, new, moved, relist, shorter, RewritesTo

-----------------------------------------------------------------------------
(* The invariant of the optimizer: S is the addresses of the instructions  *)

Good(o, S) ==
  /\ Shaped(o) /\ Code(o) \in Seq(Nat)
  /\ Framed(Code(o), S) /\ Judged(Code(o), S) /\ Lands(Code(o), S)
  /\ Exact(o.important, Code(o), S)
  /\ Ranged(o.func.except, Code(o), S) /\ Nested(o.func.except)
  /\ o.one \in S \cup {Len(Code(o))} \/ (o.one \in Nat /\ o.one > Len(Code(o)))
  /\ Seen(Code(o), S, o.one)
  /\ o.zero = -1 \/ (o.zero \in S /\ o.zero <= o.one /\ Seen(Code(o), S, o.zero))

\* What is known of the optimizer when a rule cuts bytes from p on out of the
\* region up to e.
Cutting(o, S, e, p, k) ==
  /\ Good(o, S) /\ Region(Code(o), S, o.one, e)
  /\ p \in Nat /\ k \in Nat /\ 1 <= k /\ o.one <= p /\ p + k <= e
  /\ \A a \in S : o.one <= a /\ a < e => OpAt(Code(o), a) # "JUMP"
  /\ \A i \in DOMAIN o.func.except : o.func.except[i].start <= p \/ p + k <= o.func.except[i].start

\* What is known, moreover, of a region without jumps.
Clear(o, S, e, p, k) ==
  /\ Cutting(o, S, e, p, k)
  /\ \A a \in S : o.one <= a /\ a < e => OpAt(Code(o), a) \notin Jumping
  /\ p = o.one => \A a \in S : (a < o.one \/ e <= a) /\ OpAt(Code(o), a) \in {"LOOP", "INCREMENT_LOOP"}
                                  => LeadsTo(Code(o), a) # o.one

\* A cut: q is the optimizer with the code and the list prepared for it.
LEMMA CutEffect ==
  ASSUME NEW o, NEW S, NEW e, NEW p, NEW k, Cutting(o, S, e, p, k),
         NEW q, Shaped(q), NEW r, r = Rewrite(q, p, k),
         Prepared(Code(o), S, o.one, e, Code(q), q.important),
         Cuts(Code(o), S, o.one, e, p, k, Code(q), q.important)
  PROVE  /\ Code(r) \in Seq(Nat) /\ Len(Code(r)) = Len(Code(o)) - k
         /\ \A x \in Nat : o.one <= x /\ x < p => Byte(Code(r), x) = Byte(Code(q), x)
         /\ \A x \in Nat : p <= x /\ x + k < e => Byte(Code(r), x) = Byte(Code(q), x + k)
         /\ Survives(Code(o), S, Code(r), o.one, e, k)
<1> DEFINE code == Code(o)  one == o.one  edit == Code(q)  list == q.important
           shorter == Shortened(q, p, k)
           new == SubSeq(shorter, 1, p) \o SubSeq(shorter, p + k + 1, Len(shorter))
<1>1. code \in Seq(Nat) /\ Framed(code, S) /\ Lands(code, S) /\ Region(code, S, one, e)
  BY DEF Cutting, Good
<1>2. Code(r) = new
  BY RewriteFields DEF RewritesTo
<1>3. Prepared(code, S, one, e, edit, list) /\ Cuts(code, S, one, e, p, k, edit, list)
  OBVIOUS
<1>4. edit = Code(q) /\ list = q.important
  OBVIOUS
<1> HIDE DEF code, one, edit, list
<1>5. /\ new \in Seq(Nat) /\ Len(new) = Len(code) - k
      /\ \A x \in Nat : one <= x /\ x < p => Byte(new, x) = Byte(edit, x)
      /\ \A x \in Nat : p <= x /\ x + k < e => Byte(new, x) = Byte(edit, x + k)
      /\ Survives(code, S, new, one, e, k)
  BY <1>1, <1>3, <1>4, CutSurvives
<1> QED
  BY <1>2, <1>5 DEF code, one, edit, list

\* What is left to show of a rule: the code that takes the place of the region,
\* the list and the ranges.
LEMMA Assembled ==
  ASSUME NEW o, NEW S, Good(o, S), NEW e, Region(Code(o), S, o.one, e), NEW k \in Nat, o.one + k <= e,
         NEW p \in Nat, o.one <= p, p + k <= e,
         \A a \in S : o.one <= a /\ a < e => OpAt(Code(o), a) # "JUMP",
         \A i \in DOMAIN o.func.except : o.func.except[i].start <= p \/ p + k <= o.func.except[i].start,
         NEW r, Shaped(r), Code(r) \in Seq(Nat), Len(Code(r)) = Len(Code(o)) - k,
         Survives(Code(o), S, Code(r), o.one, e, k), Replaces(Code(o), S, Code(r), o.one, e, k),
         NEW T, T = After(S, o.one, e, k), Exact(r.important, Code(r), T),
         Follow(r.func.except, o.func.except, p, k),
         r.one = o.one, r.zero = o.zero
  PROVE  Good(r, T)
<1> DEFINE code == Code(o)  one == o.one  new == Code(r)
           except == o.func.except  moved == r.func.except
<1>1. /\ code \in Seq(Nat) /\ Framed(code, S) /\ Judged(code, S) /\ Lands(code, S) /\ Seen(code, S, one)
      /\ Ranged(except, code, S) /\ Nested(except)
      /\ o.zero = -1 \/ (o.zero \in S /\ o.zero <= one /\ Seen(code, S, o.zero))
  BY DEF Good
<1>2. /\ Region(code, S, one, e) /\ one + k <= e /\ one <= p
      /\ \A a \in S : one <= a /\ a < e => OpAt(code, a) # "JUMP"
      /\ \A i \in DOMAIN except : except[i].start <= p \/ p + k <= except[i].start
      /\ new \in Seq(Nat) /\ Len(new) = Len(code) - k
      /\ Survives(code, S, new, one, e, k) /\ Replaces(code, S, new, one, e, k)
      /\ T = After(S, one, e, k)
  OBVIOUS
<1>3. Follow(moved, except, p, k)
  OBVIOUS
<1> HIDE DEF code, one, new, except, moved
<1>4. /\ Framed(new, T) /\ Judged(new, T) /\ Lands(new, T) /\ Seen(new, T, one)
      /\ \A z \in S : z < one /\ Seen(code, S, z) => Seen(new, T, z)
      /\ \A t \in S : t <= one \/ e <= t => Moved(t, one, k) \in T
  BY <1>1, <1>2, Reframed
<1>5. one \in S /\ one \in Nat /\ S \subseteq Nat /\ (one + k = e => e \in S)
  BY <1>1, <1>2 DEF Region, Framed, Replaces
<1>6. one \in T
  BY <1>4, <1>5 DEF Moved
<1>8. Ranged(moved, new, T) /\ Nested(moved)
  <2>1. /\ code \in Seq(Nat) /\ Framed(code, S) /\ Region(code, S, one, e) /\ k \in Nat
        /\ p \in Nat /\ one <= p /\ p + k <= e /\ Survives(code, S, new, one, e, k) /\ T = After(S, one, e, k)
        /\ one + k = e => e \in S
    BY <1>1, <1>2, <1>5
  <2>2. Arranged(except, code, S) /\ Avoids(except, code, S, one, e, p, k)
    BY <1>1, <1>2 DEF Arranged, Avoids
  <2>3. Arranged(moved, new, T)
    BY ONLY <2>1, <2>2, <1>3, Rearranged
  <2> QED
    BY <2>3 DEF Arranged
<1>9. o.zero = -1 \/ (o.zero \in T /\ o.zero <= one /\ Seen(new, T, o.zero))
  <2>1. ASSUME NEW z \in S, z <= one, Seen(code, S, z)
        PROVE  z \in T /\ z <= one /\ Seen(new, T, z)
    <3>1. CASE z = one
      BY <1>4, <1>5, <1>6, <3>1
    <3>2. CASE z # one
      <4>1. z < one
        BY <1>5, <2>1, <3>2
      <4>2. Moved(z, one, k) = z
        BY <2>1 DEF Moved
      <4> QED
        BY <1>4, <2>1, <4>1, <4>2
    <3> QED
      BY <3>1, <3>2
  <2> QED
    BY <1>1, <2>1
<1>10. r.one = one /\ r.zero = o.zero /\ Shaped(r) /\ Exact(r.important, new, T)
  BY DEF one, new
<1> QED
  BY <1>2, <1>4, <1>6, <1>8, <1>9, <1>10 DEF Good, new, moved

\* The ranges that rewrite() writes follow the cut.
LEMMA RangesFollow ==
  ASSUME NEW code, NEW S, NEW except, Ranged(except, code, S), NEW p, NEW k,
         NEW moved, moved = [i \in DOMAIN except |-> MoveRange(except[i], p, k)]
  PROVE  Follow(moved, except, p, k)
<1>1. DOMAIN moved = DOMAIN except
  OBVIOUS
<1>2. ASSUME NEW i \in DOMAIN except
      PROVE  LET range == except[i]
             IN /\ DOMAIN moved[i] = {"start", "end", "locals"}
                /\ moved[i].start = IF p < range.start THEN range.start - k ELSE range.start
                /\ moved[i].end = IF p < range.start \/ p < range.end THEN range.end - k ELSE range.end
  <2>1. DOMAIN except[i] = {"start", "end", "locals"}
    BY DEF Ranged
  <2>2. moved[i] = MoveRange(except[i], p, k)
    OBVIOUS
  <2> QED
    BY <2>1, <2>2 DEF MoveRange
<1> QED
  BY <1>1, <1>2 DEF Follow

\* Where nothing is cut out, the ranges stay.
LEMMA RangesStay ==
  ASSUME NEW code, NEW S, \A a \in S : a \in Nat, NEW except, Ranged(except, code, S), NEW p
  PROVE  Follow(except, except, p, 0)
<1> SUFFICES ASSUME NEW i \in DOMAIN except
             PROVE  /\ DOMAIN except[i] = {"start", "end", "locals"}
                    /\ except[i].start - 0 = except[i].start /\ except[i].end - 0 = except[i].end
  BY DEF Follow
<1> DEFINE s == except[i].start
           t == except[i].end
<1>1. DOMAIN except[i] = {"start", "end", "locals"} /\ s \in Nat /\ t \in Nat
  BY DEF Ranged
<1> HIDE DEF s, t
<1>2. s - 0 = s /\ t - 0 = t
  BY <1>1
<1> QED
  BY <1>1, <1>2 DEF s, t

\* The jumps from p on are listed k bytes earlier.
Earlier(relist, list, p, k) ==
  /\ relist \in Seq(Views) /\ DOMAIN relist = DOMAIN list
  /\ \A j \in DOMAIN list : /\ relist[j].name = list[j].name
                            /\ list[j].index < p => relist[j].index = list[j].index
                            /\ list[j].index >= p => relist[j].index = list[j].index - k

\* The list after a cut.
LEMMA ViewsMoved ==
  ASSUME NEW list \in Seq(Views), NEW p \in Nat, NEW k \in Nat,
         \A j \in DOMAIN list : list[j].index >= p => list[j].index >= k,
         NEW relist, relist = [j \in DOMAIN list |-> MoveView(list[j], p, k)]
  PROVE  Earlier(relist, list, p, k)
<1>1. DOMAIN list = 1..Len(list) /\ Len(list) \in Nat /\ \A j \in DOMAIN list : list[j] \in Views
  OBVIOUS
<1>2. DOMAIN relist = DOMAIN list /\ \A j \in DOMAIN list : relist[j] = MoveView(list[j], p, k)
  OBVIOUS
<1>3. ASSUME NEW j \in DOMAIN list
      PROVE  /\ relist[j] \in Views /\ relist[j].name = list[j].name
             /\ list[j].index < p => relist[j].index = list[j].index
             /\ list[j].index >= p => relist[j].index = list[j].index - k
  <2> DEFINE v == list[j]
  <2>1. v \in Views /\ (v.index >= p => v.index >= k) /\ relist[j] = MoveView(v, p, k)
    BY <1>1, <1>2
  <2> HIDE DEF v
  <2>2. v.index \in Nat /\ v.name \in Jumping /\ DOMAIN v = {"index", "name"}
    BY <2>1 DEF Views
  <2>3. CASE v.index < p
    <3>1. ~(v.index >= p)
      BY <2>2, <2>3
    <3>2. relist[j] = v
      BY <2>1, <3>1 DEF MoveView
    <3> QED
      BY <2>1, <3>1, <3>2 DEF v
  <2>4. CASE v.index >= p
    <3>1. relist[j] = [v EXCEPT !.index = @ - k]
      BY <2>1, <2>4 DEF MoveView
    <3> DEFINE i == v.index - k
    <3>2. i \in Nat /\ ~(v.index < p)
      BY <2>1, <2>2, <2>4
    <3>3. relist[j] = [v EXCEPT !.index = i]
      BY <3>1
    <3>a. i = v.index - k
      OBVIOUS
    <3> HIDE DEF i
    <3>4. relist[j].index = i /\ relist[j].name = v.name /\ relist[j] \in Views
      BY <2>1, <2>2, <3>2, <3>3 DEF Views
    <3> QED
      BY <2>4, <3>2, <3>4, <3>a DEF v
  <2> QED
    BY <2>2, <2>3, <2>4
<1>4. relist \in Seq(Views)
  <2>1. relist \in [1..Len(list) -> Views]
    BY <1>1, <1>2, <1>3
  <2> QED
    BY <1>1, <2>1
<1> QED
  BY <1>2, <1>3, <1>4 DEF Earlier

\* Edits in a region without jumps prepare a cut.
LEMMA EditedPrepares ==
  ASSUME NEW o, NEW S, NEW e, NEW p, NEW k, Clear(o, S, e, p, k),
         NEW q, Edited(q, o, o.one, e)
  PROVE  /\ Prepared(Code(o), S, o.one, e, Code(q), q.important)
         /\ Cuts(Code(o), S, o.one, e, p, k, Code(q), q.important)
         /\ \A j \in DOMAIN o.important : o.important[j].index < o.one \/ e <= o.important[j].index
<1> DEFINE code == Code(o)  one == o.one  list == o.important  edit == Code(q)
<1>1. /\ Exact(list, code, S)
      /\ p \in Nat /\ k \in Nat /\ 1 <= k /\ one <= p /\ p + k <= e
  BY DEF Clear, Cutting, Good
<1>2. /\ \A a \in S : one <= a /\ a < e => OpAt(code, a) \notin Jumping
      /\ p = one => \A a \in S : (a < one \/ e <= a) /\ OpAt(code, a) \in {"LOOP", "INCREMENT_LOOP"}
                                     => LeadsTo(code, a) # one
      /\ edit \in Seq(Nat) /\ Len(edit) = Len(code)
      /\ \A x \in Nat : x < one \/ e <= x => Byte(edit, x) = Byte(code, x)
      /\ q.important = list
  BY DEF Edited, Clear
<1>3. S \subseteq Nat /\ one \in Nat /\ e \in Nat
  <2>1. /\ code \in Seq(Nat) /\ S \subseteq 0..(Len(code) - 1)
        /\ one \in S /\ e \in S \cup {Len(code)}
    BY DEF Clear, Cutting, Good, Region, Framed
  <2>2. Len(code) \in Nat
    BY <2>1
  <2> HIDE DEF code, one
  <2> DEFINE n == Len(code)
  <2> HIDE DEF n
  <2>3. n \in Nat /\ S \subseteq 0..(n - 1) /\ one \in S /\ e \in S \cup {n}
    BY <2>1, <2>2 DEF n
  <2> QED
    BY <2>3
<1> HIDE DEF code, one, list, edit
<1>4. ASSUME NEW j \in DOMAIN list PROVE list[j].index < one \/ e <= list[j].index
  <2>1. list[j] \in Views
    BY <1>1 DEF Exact
  <2>2. list[j].index \in S /\ list[j].name = OpAt(code, list[j].index) /\ list[j].name \in Jumping
    BY <1>1, <2>1 DEF Exact, Views
  <2>3. ~(one <= list[j].index /\ list[j].index < e)
    BY <1>2, <2>2
  <2> DEFINE x == list[j].index
  <2>4. x \in Nat /\ ~(one <= x /\ x < e)
    BY <1>3, <2>2, <2>3
  <2> HIDE DEF x
  <2>5. x < one \/ e <= x
    BY <1>3, <2>4
  <2> QED
    BY <2>5 DEF x
<1>5. \A j \in DOMAIN list : list[j].index \in Nat
  BY <1>1, <1>3 DEF Exact
<1>6. \A j \in DOMAIN list : ~(one <= list[j].index /\ list[j].index < e)
  <2> TAKE j \in DOMAIN list
  <2> DEFINE x == list[j].index
  <2>1. x \in Nat /\ (x < one \/ e <= x)
    BY <1>4, <1>5
  <2> HIDE DEF x
  <2>2. ~(one <= x /\ x < e)
    BY <1>3, <2>1
  <2> QED
    BY <2>2 DEF x
<1>7. Prepared(code, S, one, e, edit, list)
  BY <1>1, <1>2, <1>6 DEF Prepared, Exact
<1>8. Cuts(code, S, one, e, p, k, edit, list)
  BY <1>1, <1>2, <1>6 DEF Cuts
<1> QED
  BY <1>2, <1>4, <1>7, <1>8 DEF code, one, list, edit

\* The effect of a rule on a region without jumps, before the last edits.
LEMMA SimpleEffect ==
  ASSUME NEW o, NEW S, NEW e, NEW p, NEW k, Clear(o, S, e, p, k),
         NEW q, Edited(q, o, o.one, e), NEW r, r = Rewrite(q, p, k)
  PROVE  /\ Shaped(r) /\ Code(r) \in Seq(Nat) /\ Len(Code(r)) = Len(Code(o)) - k
         /\ \A x \in Nat : o.one <= x /\ x < p => Byte(Code(r), x) = Byte(Code(q), x)
         /\ \A x \in Nat : p <= x /\ x + k < e => Byte(Code(r), x) = Byte(Code(q), x + k)
         /\ Survives(Code(o), S, Code(r), o.one, e, k)
         /\ r.one = o.one /\ r.zero = o.zero /\ r.failed = o.failed
<1>1. /\ Prepared(Code(o), S, o.one, e, Code(q), q.important)
      /\ Cuts(Code(o), S, o.one, e, p, k, Code(q), q.important)
  BY EditedPrepares
<1>2. Shaped(q) /\ q.one = o.one /\ q.zero = o.zero /\ q.failed = o.failed
  BY DEF Edited
<1>3. Shaped(r) /\ r.one = q.one /\ r.zero = q.zero /\ r.failed = q.failed
  <2>1. RewritesTo(Rewrite(q, p, k), q, p, k)
    BY ONLY <1>2, RewriteFields
  <2> QED
    BY <2>1 DEF RewritesTo
<1>4. /\ Code(r) \in Seq(Nat) /\ Len(Code(r)) = Len(Code(o)) - k
      /\ \A x \in Nat : o.one <= x /\ x < p => Byte(Code(r), x) = Byte(Code(q), x)
      /\ \A x \in Nat : p <= x /\ x + k < e => Byte(Code(r), x) = Byte(Code(q), x + k)
      /\ Survives(Code(o), S, Code(r), o.one, e, k)
  <2>1. Cutting(o, S, e, p, k) /\ r = Rewrite(q, p, k)
    BY DEF Clear
  <2> QED
    BY ONLY <1>1, <1>2, <2>1, CutEffect
<1> QED
  BY <1>2, <1>3, <1>4

\* A rule on a region without jumps.
LEMMA SimpleCut ==
  ASSUME NEW o, NEW S, NEW e, NEW p, NEW k, Clear(o, S, e, p, k),
         NEW q, Edited(q, o, o.one, e), NEW f, f = e - k, NEW r, Edited(r, Rewrite(q, p, k), o.one, f),
         Replaces(Code(o), S, Code(r), o.one, e, k),
         o.one + k < e => OpAt(Code(r), o.one) \notin Jumping
  PROVE  Good(r, After(S, o.one, e, k)) /\ r.failed = o.failed
<1> DEFINE cut == Rewrite(q, p, k)
           code == Code(o)
           one == o.one
           list == o.important
           T == After(S, one, e, k)
<1>1. /\ Shaped(cut) /\ Code(cut) \in Seq(Nat) /\ Len(Code(cut)) = Len(code) - k
      /\ Survives(code, S, Code(cut), one, e, k)
      /\ cut.one = one /\ cut.zero = o.zero /\ cut.failed = o.failed
  BY SimpleEffect
<1>2. Shaped(q) /\ q.important = list /\ q.func.except = o.func.except
  BY DEF Edited
<1>3. /\ cut.func.except = [i \in DOMAIN o.func.except |-> MoveRange(o.func.except[i], p, k)]
      /\ cut.important = [j \in DOMAIN list |-> MoveView(list[j], p, k)]
  <2>1. RewritesTo(cut, q, p, k)
    BY ONLY <1>2, RewriteFields
  <2> QED
    BY <1>2, <2>1 DEF RewritesTo
<1>4. Edited(r, cut, one, f)
  OBVIOUS
<1> HIDE DEF cut
<1>5. /\ Shaped(r) /\ r.func.except = cut.func.except /\ r.important = cut.important
      /\ r.one = one /\ r.zero = o.zero /\ r.failed = o.failed
      /\ Code(r) \in Seq(Nat) /\ Len(Code(r)) = Len(code) - k
      /\ \A x \in Nat : x < one \/ f <= x => Byte(Code(r), x) = Byte(Code(cut), x)
  BY <1>1, <1>4 DEF Edited
<1>6. /\ code \in Seq(Nat) /\ Framed(code, S) /\ Exact(list, code, S) /\ Region(code, S, one, e)
      /\ p \in Nat /\ k \in Nat /\ 1 <= k /\ one <= p /\ p + k <= e
      /\ \A a \in S : one <= a /\ a < e => OpAt(code, a) # "JUMP"
      /\ \A i \in DOMAIN o.func.except : o.func.except[i].start <= p \/ p + k <= o.func.except[i].start
      /\ Good(o, S)
  BY DEF Clear, Cutting, Good
<1>7. one \in S /\ one \in Nat /\ e \in Nat /\ one < e /\ one + k <= e /\ S \subseteq Nat
  <2>1. one \in S /\ one \in Nat /\ e \in Nat /\ one < e /\ S \subseteq Nat
    <3>1. /\ S \subseteq 0..(Len(code) - 1) /\ one \in S /\ e \in S \cup {Len(code)} /\ one < e
          /\ Len(code) \in Nat
      BY <1>6 DEF Region, Framed
    <3> HIDE DEF code, one
    <3> DEFINE n == Len(code)
    <3> HIDE DEF n
    <3>2. n \in Nat /\ S \subseteq 0..(n - 1) /\ one \in S /\ e \in S \cup {n} /\ one < e
      BY <3>1 DEF n
    <3> QED
      BY <3>2
  <2> QED
    BY <1>6, <2>1
<1>8. Survives(code, S, Code(r), one, e, k)
  <2>1. \A x \in Nat : x < one \/ e <= x + k => Byte(Code(r), x) = Byte(Code(cut), x)
    BY <1>5, <1>6, <1>7
  <2> QED
    BY <1>1, <1>6, <1>7, <2>1, SurvivesSame
<1>9. \A j \in DOMAIN list : list[j].index < one \/ e <= list[j].index
  BY EditedPrepares
<1>10. Replaces(code, S, Code(r), one, e, k) /\ (one + k < e => OpAt(Code(r), one) \notin Jumping)
  OBVIOUS
<1>11. Exact(r.important, Code(r), T)
  <2> DEFINE relist == r.important
  <2>1. list \in Seq(Views) /\ relist = [j \in DOMAIN list |-> MoveView(list[j], p, k)]
    BY <1>3, <1>5, <1>6 DEF Exact
  <2>2. \A j \in DOMAIN list : list[j].index \in Nat
    BY <1>6, <1>7 DEF Exact
  <2> HIDE DEF relist, list, code, one
  <2>3. ASSUME NEW j \in DOMAIN list
        PROVE  /\ list[j].index >= p => list[j].index >= k
               /\ list[j].index < one => list[j].index < p
               /\ e <= list[j].index => list[j].index >= p
               /\ ~(one <= list[j].index /\ list[j].index < e)
    <3> DEFINE x == list[j].index
    <3>1. x \in Nat /\ (x < one \/ e <= x)
      BY <1>9, <2>2
    <3> HIDE DEF x
    <3>2. /\ x >= p => x >= k
          /\ x < one => x < p
          /\ e <= x => x >= p
          /\ ~(one <= x /\ x < e)
      BY <1>6, <1>7, <3>1
    <3> QED
      BY <3>2 DEF x
  <2>4. Earlier(relist, list, p, k)
    <3>1. p \in Nat /\ k \in Nat /\ \A j \in DOMAIN list : list[j].index >= p => list[j].index >= k
      BY <1>6, <2>3
    <3> QED
      BY <2>1, <3>1, ViewsMoved
  <2>5. \A j \in DOMAIN list :
           /\ list[j].index < one => relist[j].index = list[j].index /\ relist[j].name = list[j].name
           /\ e <= list[j].index => relist[j].index = list[j].index - k /\ relist[j].name = list[j].name
           /\ one <= list[j].index /\ list[j].index < e =>
                one + k < e /\ relist[j].index = one /\ relist[j].name = OpAt(Code(r), one)
    BY <2>3, <2>4 DEF Earlier
  <2>6. /\ S \in SUBSET S /\ \A a \in S : a < one \/ e <= a => a \in S
        /\ one + k = e => e \in S
        /\ one + k < e /\ OpAt(Code(r), one) \in Jumping =>
             \E j \in DOMAIN list : one <= list[j].index /\ list[j].index < e
        /\ \A i, j \in DOMAIN list :
             one <= list[i].index /\ list[i].index < e /\ one <= list[j].index /\ list[j].index < e => i = j
    BY <1>10, <2>3 DEF Replaces
  <2> DEFINE new == Code(r)
  <2>7. /\ code \in Seq(Nat) /\ Framed(code, S) /\ one \in S /\ e \in Nat /\ one < e /\ k \in Nat /\ one + k <= e
        /\ Survives(code, S, new, one, e, k) /\ T = After(S, one, e, k) /\ Exact(list, code, S)
        /\ relist \in Seq(Views) /\ DOMAIN relist = DOMAIN list
    BY <1>6, <1>7, <1>8, <2>4 DEF Earlier
  <2>8. /\ \A j \in DOMAIN list :
           /\ list[j].index < one => relist[j].index = list[j].index /\ relist[j].name = list[j].name
           /\ e <= list[j].index => relist[j].index = list[j].index - k /\ relist[j].name = list[j].name
           /\ one <= list[j].index /\ list[j].index < e =>
                one + k < e /\ relist[j].index = one /\ relist[j].name = OpAt(new, one)
        /\ S \in SUBSET S /\ \A a \in S : a < one \/ e <= a => a \in S
        /\ one + k = e => e \in S
        /\ one + k < e /\ OpAt(new, one) \in Jumping =>
             \E j \in DOMAIN list : one <= list[j].index /\ list[j].index < e
        /\ \A i, j \in DOMAIN list :
             one <= list[i].index /\ list[i].index < e /\ one <= list[j].index /\ list[j].index < e => i = j
    BY <2>5, <2>6
  <2> HIDE DEF new, T
  <2>9. Exact(relist, new, T)
    BY ONLY <2>7, <2>8, Relisted
  <2> QED
    BY <2>9 DEF relist, new
<1>12. Good(r, T)
  <2>1. /\ Good(o, S) /\ Region(Code(o), S, o.one, e) /\ k \in Nat /\ o.one + k <= e
        /\ p \in Nat /\ o.one <= p /\ p + k <= e
        /\ \A a \in S : o.one <= a /\ a < e => OpAt(Code(o), a) # "JUMP"
        /\ \A i \in DOMAIN o.func.except : o.func.except[i].start <= p \/ p + k <= o.func.except[i].start
    BY <1>6, <1>7
  <2>2. /\ Shaped(r) /\ Code(r) \in Seq(Nat) /\ Len(Code(r)) = Len(Code(o)) - k
        /\ Survives(Code(o), S, Code(r), o.one, e, k) /\ Replaces(Code(o), S, Code(r), o.one, e, k)
        /\ T = After(S, o.one, e, k) /\ Exact(r.important, Code(r), T)
        /\ Follow(r.func.except, o.func.except, p, k)
        /\ r.one = o.one /\ r.zero = o.zero
    <3>1. r.func.except = [i \in DOMAIN o.func.except |-> MoveRange(o.func.except[i], p, k)]
      BY <1>3, <1>5
    <3>2. Ranged(o.func.except, Code(o), S)
      BY DEF Clear, Cutting, Good
    <3>3. Follow(r.func.except, o.func.except, p, k)
      BY ONLY <3>1, <3>2, RangesFollow
    <3> QED
      BY <1>5, <1>8, <1>10, <1>11, <3>3
  <2> HIDE DEF T
  <2> QED
    BY ONLY <2>1, <2>2, Assembled
<1> QED
  BY <1>5, <1>12

-----------------------------------------------------------------------------
(* The instructions that the optimizer looks at *)

\* What adjustable() does not find is nowhere a jump leads to.
LEMMA NotLedTo ==
  ASSUME NEW o, NEW S, Good(o, S), NEW t
  PROVE  /\ ~Adjustable(o, t) =>
              \A a \in S : OpAt(Code(o), a) \in Jumping => LeadsTo(Code(o), a) # t
         /\ ~LoopsTo(o, t) =>
              \A a \in S : OpAt(Code(o), a) \in {"LOOP", "INCREMENT_LOOP"} => LeadsTo(Code(o), a) # t
<1> DEFINE code == Code(o)  list == o.important
<1>1. /\ code \in Seq(Nat) /\ Exact(list, code, S) /\ Lands(code, S) /\ Framed(code, S)
  BY DEF Good
<1> SUFFICES ASSUME NEW a \in S, OpAt(code, a) \in Jumping, LeadsTo(code, a) = t
             PROVE  Adjustable(o, t) /\ (OpAt(code, a) \in {"LOOP", "INCREMENT_LOOP"} => LoopsTo(o, t))
  <2>1. {"LOOP", "INCREMENT_LOOP"} \subseteq Jumping
    BY DEF Jumping, Backward
  <2> QED
    BY <2>1
<1>2. PICK j \in DOMAIN list : list[j].index = a
  BY <1>1 DEF Exact
<1>3. list[j].name = OpAt(code, a)
  BY <1>1, <1>2 DEF Exact
<1> DEFINE name == OpAt(code, a)
           w == Width(name)
           short == Short(code, a + w - 2)
<1>4. w \in 3..5 /\ Size(name) = w /\ (name \in Backward <=> name \notin Forward) /\ name \in Jumping
  BY JumpSizes
<1>5. a \in Nat
  <2>1. S \subseteq 0..(Len(code) - 1)
    BY <1>1 DEF Framed
  <2> QED
    BY <2>1
<1>6. short \in Nat
  <2>1. Byte(code, a + w - 2) \in Nat /\ Byte(code, a + w - 2 + 1) \in Nat
    BY <1>1, ByteFacts
  <2> QED
    BY <2>1 DEF Short
<1>7. /\ name \in Forward => t = a + w + short
      /\ name \notin Forward => t = a + w - short /\ t <= a
  BY <1>1, <1>4 DEF LeadsTo, Lands
<1>8. /\ list[j].index = a /\ list[j].name = name
      /\ Short(code, list[j].index + Size(list[j].name) - 2) = short
  BY <1>2, <1>3, <1>4
<1>9. /\ name \in {"LOOP", "INCREMENT_LOOP"} => name \notin Forward
  BY DEF Forward, ConditionalJumps
<1> HIDE DEF name, w, short, list
<1>10. /\ name \in Forward => a < t /\ a + w + short = t
       /\ name \notin Forward => a >= t /\ a + w - short = t
  BY <1>4, <1>5, <1>6, <1>7
<1>11. Adjustable(o, t)
  BY <1>4, <1>8, <1>10 DEF Adjustable, list, code
<1>12. name \in {"LOOP", "INCREMENT_LOOP"} => LoopsTo(o, t)
  BY <1>4, <1>8, <1>9, <1>10 DEF LoopsTo, list, code
<1> QED
  BY <1>11, <1>12 DEF name

\* The two instructions that are looked at, and the one after them.
LEMMA Window ==
  ASSUME NEW o, NEW S, Good(o, S), ~Over(o),
         NEW code, code = Code(o), NEW one, one = o.one, NEW two, two = Two(o), NEW three, three = Three(o)
  PROVE  /\ code \in Seq(Nat) /\ Len(code) \in Nat /\ ~o.failed
         /\ one \in S /\ two \in S /\ one \in Nat /\ two \in Nat /\ one < two /\ two < three /\ three \in Nat
         /\ two = one + Size(FirstOp(o)) /\ three = two + Size(SecondOp(o))
         /\ FirstOp(o) = OpAt(code, one) /\ SecondOp(o) = OpAt(code, two)
         /\ Seen(code, S, two)
         /\ Size(FirstOp(o)) = Width(FirstOp(o)) => \A a \in S : one < a => two <= a
         /\ Size(SecondOp(o)) = Width(SecondOp(o)) =>
              three \in S \cup {Len(code)} /\ \A a \in S : two < a => three <= a
         /\ ThirdOp(o) # "NOTHING" =>
              /\ three \in S /\ ThirdOp(o) = OpAt(code, three)
              /\ Size(ThirdOp(o)) = Width(ThirdOp(o)) =>
                   /\ three + Size(ThirdOp(o)) \in S \cup {Len(code)}
                   /\ \A a \in S : three < a => three + Size(ThirdOp(o)) <= a
<1>1. /\ code \in Seq(Nat) /\ Framed(code, S) /\ Judged(code, S) /\ Seen(code, S, one)
      /\ one \in S \cup {Len(code)} \/ (one \in Nat /\ one > Len(code))
  BY DEF Good
<1> DEFINE n == Len(code)
<1>2. n \in Nat /\ \A a \in S : a \in Nat /\ a < n
  <2>1. n \in Nat /\ S \subseteq 0..(n - 1)
    BY <1>1 DEF Framed
  <2> HIDE DEF n
  <2> QED
    BY <2>1
<1>3. ~o.failed /\ ~(two >= n) /\ two = one + Size(FirstOp(o)) /\ FirstOp(o) = OpAt(code, one)
  BY DEF Over, Stopped, Two, FirstOp
<1>4. Size(FirstOp(o)) \in 1..5 /\ Size(SecondOp(o)) \in 1..5 /\ Size(ThirdOp(o)) \in 1..5
  BY Sizes
<1> HIDE DEF n
<1>5. one \in Nat /\ two \in Nat /\ two < n /\ one < two
  <2>1. one \in S \cup {n} \/ one \in Nat
    BY <1>1 DEF n
  <2>2. one \in Nat
    BY ONLY <1>2, <2>1
  <2> DEFINE z == Size(FirstOp(o))
  <2>3. z \in 1..5 /\ two = one + z /\ ~(two >= n)
    BY <1>3, <1>4
  <2> HIDE DEF z
  <2> QED
    BY ONLY <1>2, <2>2, <2>3
<1>6. one \in S
  BY <1>1, <1>2, <1>5 DEF n
<1>7. /\ two \in S \cup {Len(code)} \/ two > Len(code)
      /\ Seen(code, S, two)
      /\ Size(OpAt(code, one)) = Width(OpAt(code, one)) => \A a \in S : one < a => two <= a
  <2>1. two = one + Size(OpAt(code, one))
    BY <1>3
  <2> QED
    BY ONLY <1>1, <1>6, <2>1, Follows
<1>8. two \in S
  BY <1>2, <1>5, <1>7 DEF n
<1>9. three = two + Size(SecondOp(o)) /\ SecondOp(o) = OpAt(code, two) /\ three \in Nat /\ two < three
  <2>1. three = two + Size(SecondOp(o)) /\ SecondOp(o) = OpAt(code, two)
    BY DEF Three, SecondOp
  <2> QED
    BY <1>4, <1>5, <2>1
<1>10. /\ three \in S \cup {Len(code)} \/ three > Len(code)
       /\ Seen(code, S, three)
       /\ Size(OpAt(code, two)) = Width(OpAt(code, two)) => \A a \in S : two < a => three <= a
  <2>1. three = two + Size(OpAt(code, two))
    BY <1>9
  <2> QED
    BY ONLY <1>1, <1>7, <1>8, <2>1, Follows
<1>11. Size(SecondOp(o)) = Width(SecondOp(o)) => three \in S \cup {Len(code)}
  <2>1. two + Width(OpAt(code, two)) \in S \cup {Len(code)}
    BY <1>1, <1>8 DEF Framed
  <2> QED
    BY <1>9, <2>1
<1>12. ASSUME ThirdOp(o) # "NOTHING"
       PROVE  /\ three \in S /\ ThirdOp(o) = OpAt(code, three)
              /\ Size(ThirdOp(o)) = Width(ThirdOp(o)) =>
                   /\ three + Size(ThirdOp(o)) \in S \cup {Len(code)}
                   /\ \A a \in S : three < a => three + Size(ThirdOp(o)) <= a
  <2>1. three < n /\ ThirdOp(o) = OpAt(code, three)
    BY <1>12 DEF ThirdOp, n
  <2>2. three \in S
    BY <1>2, <1>9, <1>10, <2>1 DEF n
  <2> DEFINE e == three + Size(OpAt(code, three))
  <2>3. e = three + Size(OpAt(code, three))
    OBVIOUS
  <2> HIDE DEF e
  <2>4. Size(OpAt(code, three)) = Width(OpAt(code, three)) => \A a \in S : three < a => e <= a
    BY ONLY <1>1, <1>10, <2>2, <2>3, Follows
  <2>5. three + Width(OpAt(code, three)) \in S \cup {Len(code)}
    BY <1>1, <2>2 DEF Framed
  <2> QED
    BY <2>1, <2>2, <2>3, <2>4, <2>5
<1> QED
  BY <1>1, <1>2, <1>3, <1>5, <1>6, <1>7, <1>8, <1>9, <1>10, <1>11, <1>12 DEF n

\* No except range begins in the middle of what is cut out.
LEMMA WholeRanges ==
  ASSUME NEW o, NEW S, Good(o, S), NEW one \in Nat, NEW p \in Nat, NEW k \in Nat, 1 <= k, one <= p,
         k = 1 \/ \E last \in Nat : /\ p + k <= last + 1
                                    /\ \A i \in DOMAIN o.func.except : o.func.except[i].start \notin (one + 1)..last
  PROVE  \A i \in DOMAIN o.func.except : o.func.except[i].start <= p \/ p + k <= o.func.except[i].start
<1> TAKE i \in DOMAIN o.func.except
<1> DEFINE x == o.func.except[i].start
<1>1. x \in Nat
  BY DEF Good, Ranged
<1>2. k = 1 \/ \E last \in Nat : p + k <= last + 1 /\ x \notin (one + 1)..last
  OBVIOUS
<1> HIDE DEF x
<1>3. x <= p \/ p + k <= x
  BY <1>1, <1>2
<1> QED
  BY <1>3 DEF x

\* Where no jump leads to the second instruction, none leads into the two.
LEMMA RegionTwo ==
  ASSUME NEW o, NEW S, Good(o, S), ~Over(o), ~Adjustable(o, Two(o)),
         Size(FirstOp(o)) = Width(FirstOp(o)), Size(SecondOp(o)) = Width(SecondOp(o))
  PROVE  /\ Region(Code(o), S, o.one, Three(o))
         /\ \A a \in S : o.one <= a /\ a < Three(o) => a = o.one \/ a = Two(o)
<1> DEFINE code == Code(o)  one == o.one  two == Two(o)  three == Three(o)
<1>1. /\ code \in Seq(Nat) /\ one \in S /\ two \in S /\ one \in Nat /\ two \in Nat /\ one < two /\ two < three /\ three \in Nat
      /\ \A a \in S : one < a => two <= a
      /\ three \in S \cup {Len(code)} /\ \A a \in S : two < a => three <= a
  <2>1. Good(o, S) /\ ~Over(o) /\ code = Code(o) /\ one = o.one /\ two = Two(o) /\ three = Three(o)
    OBVIOUS
  <2> HIDE DEF code, one, two, three
  <2>2. /\ code \in Seq(Nat) /\ Len(code) \in Nat /\ ~o.failed
        /\ one \in S /\ two \in S /\ one \in Nat /\ two \in Nat /\ one < two /\ two < three /\ three \in Nat
        /\ Size(FirstOp(o)) = Width(FirstOp(o)) => \A a \in S : one < a => two <= a
        /\ Size(SecondOp(o)) = Width(SecondOp(o)) =>
             three \in S \cup {Len(code)} /\ \A a \in S : two < a => three <= a
    BY ONLY <2>1, Window
  <2> QED
    BY <2>2
<1>2. \A a \in S : a \in Nat
  <2>1. Len(code) \in Nat /\ S \subseteq 0..(Len(code) - 1)
    BY <1>1 DEF Good, Framed
  <2> QED
    BY <2>1
<1>3. /\ \A a \in S : OpAt(code, a) \in Jumping => LeadsTo(code, a) # two
      /\ \A a \in S : OpAt(code, a) \in Jumping => LeadsTo(code, a) \in S
  BY NotLedTo DEF Good, Lands
<1> HIDE DEF code, one, two, three
<1>4. \A a \in S : one <= a /\ a < three => a = one \/ a = two
  BY <1>1, <1>2
<1>5. \A t \in S : t # two => t <= one \/ three <= t
  BY <1>1, <1>2
<1>6. one < three
  BY <1>1
<1>7. Region(code, S, one, three)
  BY <1>1, <1>3, <1>5, <1>6 DEF Region
<1> QED
  BY <1>4, <1>7 DEF code, one, two, three

\* The same for three instructions.
LEMMA RegionThree ==
  ASSUME NEW o, NEW S, Good(o, S), ~Over(o), ~Adjustable(o, Two(o)), ~Adjustable(o, Three(o)),
         Size(FirstOp(o)) = Width(FirstOp(o)), Size(SecondOp(o)) = Width(SecondOp(o)),
         ThirdOp(o) # "NOTHING", Size(ThirdOp(o)) = Width(ThirdOp(o)),
         NEW e, e = Three(o) + Size(ThirdOp(o))
  PROVE  /\ Region(Code(o), S, o.one, e)
         /\ \A a \in S : o.one <= a /\ a < e => a = o.one \/ a = Two(o) \/ a = Three(o)
<1> DEFINE code == Code(o)  one == o.one  two == Two(o)  three == Three(o)
<1>1. /\ code \in Seq(Nat) /\ one \in S /\ two \in S /\ one \in Nat /\ two \in Nat /\ one < two /\ two < three /\ three \in Nat
      /\ \A a \in S : one < a => two <= a
      /\ three \in S /\ e \in S \cup {Len(code)}
      /\ \A a \in S : two < a => three <= a
      /\ \A a \in S : three < a => e <= a
  <2>1. Good(o, S) /\ ~Over(o) /\ code = Code(o) /\ one = o.one /\ two = Two(o) /\ three = Three(o)
    OBVIOUS
  <2> HIDE DEF code, one, two, three
  <2>2. /\ code \in Seq(Nat) /\ Len(code) \in Nat /\ ~o.failed
        /\ one \in S /\ two \in S /\ one \in Nat /\ two \in Nat /\ one < two /\ two < three /\ three \in Nat
        /\ Size(FirstOp(o)) = Width(FirstOp(o)) => \A a \in S : one < a => two <= a
        /\ Size(SecondOp(o)) = Width(SecondOp(o)) =>
             three \in S \cup {Len(code)} /\ \A a \in S : two < a => three <= a
        /\ ThirdOp(o) # "NOTHING" =>
              /\ three \in S /\ ThirdOp(o) = OpAt(code, three)
              /\ Size(ThirdOp(o)) = Width(ThirdOp(o)) =>
                   /\ three + Size(ThirdOp(o)) \in S \cup {Len(code)}
                   /\ \A a \in S : three < a => three + Size(ThirdOp(o)) <= a
    BY ONLY <2>1, Window
  <2> QED
    BY <2>1, <2>2
<1>2. \A a \in S : a \in Nat
  <2>1. Len(code) \in Nat /\ S \subseteq 0..(Len(code) - 1)
    BY <1>1 DEF Good, Framed
  <2> QED
    BY <2>1
<1>3. /\ \A a \in S : OpAt(code, a) \in Jumping => LeadsTo(code, a) # two /\ LeadsTo(code, a) # three
      /\ \A a \in S : OpAt(code, a) \in Jumping => LeadsTo(code, a) \in S
  BY NotLedTo DEF Good, Lands
<1>0. e \in Nat /\ three < e
  <2>1. Size(ThirdOp(o)) \in 1..5
    BY Sizes
  <2> QED
    BY <1>1, <2>1
<1> HIDE DEF code, one, two, three
<1>4. \A a \in S : one <= a /\ a < e => a = one \/ a = two \/ a = three
  BY <1>0, <1>1, <1>2
<1>5. \A t \in S : t # two /\ t # three => t <= one \/ e <= t
  BY <1>0, <1>1, <1>2
<1>6. one < e
  BY <1>0, <1>1
<1>7. Region(code, S, one, e)
  BY <1>1, <1>3, <1>5, <1>6 DEF Region
<1> QED
  BY <1>4, <1>7 DEF code, one, two, three

\* What a rule about two instructions, none of them a jump, may cut.
LEMMA ClearTwo ==
  ASSUME NEW o, NEW S, Good(o, S), ~Over(o), ~Adjustable(o, Two(o)),
         Size(FirstOp(o)) = Width(FirstOp(o)), Size(SecondOp(o)) = Width(SecondOp(o)),
         FirstOp(o) \notin Jumping, SecondOp(o) \notin Jumping,
         NEW e, e = Three(o), NEW p, NEW k, p \in Nat, k \in Nat, 1 <= k, o.one <= p, p + k <= e,
         p = o.one => ~LoopsTo(o, o.one) \/ ~Adjustable(o, o.one),
         k = 1 \/ \E last \in Nat : /\ p + k <= last + 1
                                    /\ \A i \in DOMAIN o.func.except : o.func.except[i].start \notin (o.one + 1)..last
  PROVE  Clear(o, S, e, p, k)
<1>1. /\ Region(Code(o), S, o.one, e)
      /\ \A a \in S : o.one <= a /\ a < e => a = o.one \/ a = Two(o)
  BY RegionTwo
<1>2. /\ FirstOp(o) = OpAt(Code(o), o.one) /\ SecondOp(o) = OpAt(Code(o), Two(o))
      /\ {"LOOP", "INCREMENT_LOOP"} \subseteq Jumping /\ "JUMP" \in Jumping
  BY DEF FirstOp, SecondOp, Jumping, Forward, Backward
<1>3. \A a \in S : o.one <= a /\ a < e => OpAt(Code(o), a) \notin Jumping
  BY <1>1, <1>2
<1>4. p = o.one => \A a \in S : OpAt(Code(o), a) \in {"LOOP", "INCREMENT_LOOP"} => LeadsTo(Code(o), a) # o.one
  BY <1>2, NotLedTo
<1>5. o.one \in Nat
  <2>1. Code(o) \in Seq(Nat) /\ Framed(Code(o), S) /\ o.one \in S
    BY <1>1 DEF Region, Good
  <2> QED
    BY <2>1, Addresses
<1>6. \A i \in DOMAIN o.func.except : o.func.except[i].start <= p \/ p + k <= o.func.except[i].start
  BY <1>5, WholeRanges
<1> QED
  BY <1>1, <1>2, <1>3, <1>4, <1>6 DEF Clear, Cutting

\* The same for a rule about three instructions.
LEMMA ClearThree ==
  ASSUME NEW o, NEW S, Good(o, S), ~Over(o), ~Adjustable(o, Two(o)), ~Adjustable(o, Three(o)),
         Size(FirstOp(o)) = Width(FirstOp(o)), Size(SecondOp(o)) = Width(SecondOp(o)),
         ThirdOp(o) # "NOTHING", Size(ThirdOp(o)) = Width(ThirdOp(o)),
         FirstOp(o) \notin Jumping, SecondOp(o) \notin Jumping, ThirdOp(o) \notin Jumping,
         NEW e, e = Three(o) + Size(ThirdOp(o)), NEW p, NEW k, p \in Nat, k \in Nat, 1 <= k, o.one <= p, p + k <= e,
         p = o.one => ~LoopsTo(o, o.one) \/ ~Adjustable(o, o.one),
         k = 1 \/ \E last \in Nat : /\ p + k <= last + 1
                                    /\ \A i \in DOMAIN o.func.except : o.func.except[i].start \notin (o.one + 1)..last
  PROVE  Clear(o, S, e, p, k)
<1>1. /\ Region(Code(o), S, o.one, e)
      /\ \A a \in S : o.one <= a /\ a < e => a = o.one \/ a = Two(o) \/ a = Three(o)
  BY RegionThree
<1>2. /\ FirstOp(o) = OpAt(Code(o), o.one) /\ SecondOp(o) = OpAt(Code(o), Two(o)) /\ ThirdOp(o) = OpAt(Code(o), Three(o))
      /\ {"LOOP", "INCREMENT_LOOP"} \subseteq Jumping /\ "JUMP" \in Jumping
  BY DEF FirstOp, SecondOp, ThirdOp, Jumping, Forward, Backward
<1>3. \A a \in S : o.one <= a /\ a < e => OpAt(Code(o), a) \notin Jumping
  BY <1>1, <1>2
<1>4. p = o.one => \A a \in S : OpAt(Code(o), a) \in {"LOOP", "INCREMENT_LOOP"} => LeadsTo(Code(o), a) # o.one
  BY <1>2, NotLedTo
<1>5. o.one \in Nat
  <2>1. Code(o) \in Seq(Nat) /\ Framed(Code(o), S) /\ o.one \in S
    BY <1>1 DEF Region, Good
  <2> QED
    BY <2>1, Addresses
<1>6. \A i \in DOMAIN o.func.except : o.func.except[i].start <= p \/ p + k <= o.func.except[i].start
  BY <1>5, WholeRanges
<1> QED
  BY <1>1, <1>2, <1>3, <1>4, <1>6 DEF Clear, Cutting

-----------------------------------------------------------------------------
(* Rules about instructions that are no jumps *)

\* What a rule leaves behind: an optimizer of which everything still holds.
Kept(r, o) == r.failed = o.failed /\ \E T : Good(r, T)

\* The instruction at an address is told by its byte.
LEMMA Named ==
  ASSUME NEW code, NEW x, NEW name \in Range(OpCodes), Byte(code, x) = Op[name]
  PROVE  OpAt(code, x) = name
BY OpBytes DEF OpAt

\* A rule that puts one instruction, no jump, in the place of the region.
LEMMA SimpleRule ==
  ASSUME NEW o, NEW S, NEW e, NEW p, NEW k, Clear(o, S, e, p, k),
         NEW q, Edited(q, o, o.one, e), NEW r, Edited(r, Rewrite(q, p, k), o.one, e - k),
         NEW name, OpAt(Code(r), o.one) = name, name \notin Jumping, Size(name) = Width(name), o.one + Width(name) + k = e
  PROVE  /\ Good(r, After(S, o.one, e, k))
         /\ r.failed = o.failed /\ r.one = o.one /\ r.zero = o.zero
<1>1. o.one \in Nat /\ k \in Nat
  <2>1. Code(o) \in Seq(Nat) /\ Framed(Code(o), S) /\ o.one \in S /\ k \in Nat
    BY DEF Clear, Cutting, Region, Good
  <2> QED
    BY <2>1, Addresses
<1>2. Width(name) \in 1..5
  BY Sizes
<1> DEFINE w == Width(name)
           one == o.one
<1>3. w \in 1..5 /\ one \in Nat /\ k \in Nat /\ one + w + k = e
  BY <1>1, <1>2
<1>4. one + Width(name) = e - k /\ ~(one + k = e)
  <2> HIDE DEF w, one
  <2>1. one + w = e - k /\ ~(one + k = e)
    BY <1>3
  <2> QED
    BY <2>1 DEF w
<1>5. Replaces(Code(o), S, Code(r), o.one, e, k)
  BY <1>4 DEF Replaces
<1> DEFINE f == e - k
<1>6. f = e - k /\ Edited(r, Rewrite(q, p, k), o.one, f) /\ (o.one + k < e => OpAt(Code(r), o.one) \notin Jumping)
  OBVIOUS
<1>7. Clear(o, S, e, p, k) /\ Edited(q, o, o.one, e)
  OBVIOUS
<1> HIDE DEF f
<1>8. Good(r, After(S, o.one, e, k)) /\ r.failed = o.failed
  BY ONLY <1>5, <1>6, <1>7, SimpleCut
<1> DEFINE cut == Rewrite(q, p, k)
<1>9. cut = Rewrite(q, p, k)
  OBVIOUS
<1>10. cut.one = o.one /\ cut.zero = o.zero
  BY ONLY <1>7, <1>9, SimpleEffect
<1> HIDE DEF cut
<1>11. r.one = o.one /\ r.zero = o.zero
  BY <1>6, <1>9, <1>10 DEF Edited
<1> QED
  BY <1>8, <1>11

\* A rule that writes the instruction first and cuts bytes after its first.
LEMMA WriteAndCut ==
  ASSUME NEW o, NEW S, NEW e, NEW p, NEW k, Clear(o, S, e, p, k), o.one < p,
         NEW q, Edited(q, o, o.one, e), NEW r, r = Rewrite(q, p, k),
         NEW name, OpAt(Code(q), o.one) = name, name \notin Jumping, Size(name) = Width(name), o.one + Width(name) + k = e
  PROVE  /\ Good(r, After(S, o.one, e, k))
         /\ r.failed = o.failed /\ r.one = o.one /\ r.zero = o.zero
<1>1. Clear(o, S, e, p, k) /\ Edited(q, o, o.one, e) /\ r = Rewrite(q, p, k)
  OBVIOUS
<1>2. /\ Shaped(r) /\ Code(r) \in Seq(Nat)
      /\ \A x \in Nat : o.one <= x /\ x < p => Byte(Code(r), x) = Byte(Code(q), x)
  BY ONLY <1>1, SimpleEffect
<1>3. o.one \in Nat
  <2>1. Code(o) \in Seq(Nat) /\ Framed(Code(o), S) /\ o.one \in S
    BY DEF Clear, Cutting, Region, Good
  <2> QED
    BY <2>1, Addresses
<1>4. OpAt(Code(r), o.one) = name
  <2>1. Byte(Code(r), o.one) = Byte(Code(q), o.one)
    BY <1>2, <1>3
  <2> QED
    BY <2>1 DEF OpAt
<1>5. Edited(r, Rewrite(q, p, k), o.one, e - k)
  BY <1>1, <1>2 DEF Edited
<1>6. name \notin Jumping /\ Size(name) = Width(name) /\ o.one + Width(name) + k = e
  OBVIOUS
<1> QED
  BY ONLY <1>1, <1>4, <1>5, <1>6, SimpleRule

\* The name of an instruction is written.
LEMMA NameWritten ==
  ASSUME NEW o, Shaped(o), Code(o) \in Seq(Nat), NEW at \in Nat, at < Len(Code(o)), NEW e \in Nat, at < e,
         NEW name \in Range(OpCodes), NEW q, q = SetOp(o, at, name)
  PROVE  Edited(q, o, at, e) /\ OpAt(Code(q), at) = name
<1>1. at \in 0..(Len(Code(o)) - 1)
  <2> DEFINE n == Len(Code(o))
  <2>1. n \in Nat /\ at < n
    OBVIOUS
  <2> HIDE DEF n
  <2>2. at \in 0..(n - 1)
    BY <2>1
  <2> QED
    BY <2>2 DEF n
<1> DEFINE byte == Op[name]
<1>2. q = Set(o, at, byte) /\ byte \in Nat
  BY OpBytes DEF SetOp
<1>3. byte = Op[name]
  OBVIOUS
<1> HIDE DEF byte
<1>4. /\ \A one, f \in Nat : one <= at /\ at < f => Edited(q, o, one, f)
      /\ \A x \in Nat : Byte(Code(q), x) = IF x = at THEN byte ELSE Byte(Code(o), x)
  BY <1>1, <1>2, SetFacts
<1>5. Edited(q, o, at, e)
  BY <1>4
<1>6. Byte(Code(q), at) = Op[name]
  BY <1>3, <1>4
<1> QED
  BY <1>5, <1>6, Named

\* The name of an instruction is written at one.
LEMMA OpWritten ==
  ASSUME NEW o, NEW S, Good(o, S), o.one \in S, NEW e \in Nat, o.one < e, NEW name \in Range(OpCodes),
         NEW q, q = SetOp(o, o.one, name)
  PROVE  /\ Edited(q, o, o.one, e) /\ OpAt(Code(q), o.one) = name
         /\ Shaped(q) /\ Code(q) \in Seq(Nat) /\ Len(Code(q)) = Len(Code(o))
<1>1. Shaped(o) /\ Code(o) \in Seq(Nat) /\ Framed(Code(o), S)
  BY DEF Good
<1> DEFINE at == o.one
<1>2. at \in Nat /\ at < Len(Code(o)) /\ at < e /\ q = SetOp(o, at, name)
  BY <1>1, Addresses
<1> HIDE DEF at
<1>3. Edited(q, o, at, e) /\ OpAt(Code(q), at) = name
  BY <1>1, <1>2, NameWritten
<1> QED
  BY <1>3 DEF Edited, at

\* A byte of the instruction is written.
LEMMA ByteWritten ==
  ASSUME NEW o, NEW q, NEW one \in Nat, NEW f \in Nat, Edited(q, o, one, f), f <= Len(Code(o)),
         NEW x \in Nat, one <= x, x < f, NEW byte \in Nat, NEW r, r = Set(q, x, byte)
  PROVE  /\ Edited(r, o, one, f)
         /\ x # one => OpAt(Code(r), one) = OpAt(Code(q), one)
<1>1. Shaped(q) /\ Code(q) \in Seq(Nat) /\ Len(Code(q)) = Len(Code(o))
  BY DEF Edited
<1>2. x \in 0..(Len(Code(q)) - 1)
  <2>1. Len(Code(q)) \in Nat
    BY <1>1
  <2> DEFINE n == Len(Code(q))
  <2>2. n \in Nat /\ f <= n
    BY <1>1, <2>1
  <2> HIDE DEF n
  <2>3. x \in 0..(n - 1)
    BY <2>2
  <2> QED
    BY <2>3 DEF n
<1>3. /\ \A a, b \in Nat : a <= x /\ x < b => Edited(r, q, a, b)
      /\ \A y \in Nat : Byte(Code(r), y) = IF y = x THEN byte ELSE Byte(Code(q), y)
  BY <1>1, <1>2, SetFacts
<1>4. Edited(r, q, one, f)
  BY <1>3
<1>5. x # one => Byte(Code(r), one) = Byte(Code(q), one)
  BY <1>3
<1> QED
  BY <1>4, <1>5, EditedAgain DEF OpAt

\* Where the two instructions are.
LEMMA Around ==
  ASSUME NEW o, NEW S, Good(o, S), ~Over(o),
         Size(FirstOp(o)) = Width(FirstOp(o)), Size(SecondOp(o)) = Width(SecondOp(o))
  PROVE  /\ o.one \in Nat /\ o.one \in S /\ Two(o) \in S /\ Len(Code(o)) \in Nat
         /\ Two(o) = o.one + Width(FirstOp(o)) /\ Three(o) = o.one + Width(FirstOp(o)) + Width(SecondOp(o))
         /\ Two(o) < Len(Code(o)) /\ Three(o) <= Len(Code(o)) /\ Three(o) \in S \cup {Len(Code(o))}
         /\ Width(FirstOp(o)) \in 1..5 /\ Width(SecondOp(o)) \in 1..5 /\ o.failed = FALSE
         /\ ThirdOp(o) # "NOTHING" /\ Size(ThirdOp(o)) = Width(ThirdOp(o)) =>
              /\ Three(o) \in S
              /\ Three(o) + Width(ThirdOp(o)) \in S \cup {Len(Code(o))}
              /\ Three(o) + Width(ThirdOp(o)) <= Len(Code(o))
<1> DEFINE code == Code(o)  one == o.one  two == Two(o)  three == Three(o)
           u == Width(FirstOp(o))  v == Width(SecondOp(o))
<1>1. Good(o, S) /\ ~Over(o) /\ code = Code(o) /\ one = o.one /\ two = Two(o) /\ three = Three(o)
  OBVIOUS
<1>2. code \in Seq(Nat) /\ Framed(code, S)
  BY DEF Good
<1> HIDE DEF code, one, two, three
<1>3. /\ Len(code) \in Nat /\ ~o.failed
      /\ one \in S /\ two \in S /\ one \in Nat /\ two \in Nat
      /\ two = one + Size(FirstOp(o)) /\ three = two + Size(SecondOp(o))
      /\ Size(SecondOp(o)) = Width(SecondOp(o)) => three \in S \cup {Len(code)}
      /\ ThirdOp(o) # "NOTHING" =>
           /\ three \in S
           /\ Size(ThirdOp(o)) = Width(ThirdOp(o)) => three + Size(ThirdOp(o)) \in S \cup {Len(code)}
  BY ONLY <1>1, Window
<1>4. u \in 1..5 /\ v \in 1..5 /\ Width(ThirdOp(o)) \in 1..5
  BY Sizes
<1>5. \A a \in S : a \in Nat /\ a < Len(code)
  BY <1>2, Addresses
<1>6. two = one + u /\ three = one + u + v
  <2>1. two = one + u /\ three = two + v
    BY <1>3
  <2> HIDE DEF u, v
  <2> QED
    BY <1>3, <1>4, <2>1
<1>7. three \in S \cup {Len(code)}
  BY <1>3
<1>8. ASSUME ThirdOp(o) # "NOTHING", Size(ThirdOp(o)) = Width(ThirdOp(o))
      PROVE  three \in S /\ three + Width(ThirdOp(o)) \in S \cup {Len(code)}
  BY <1>3, <1>8
<1>9. o.failed = FALSE /\ two < Len(code)
  BY <1>3, <1>5 DEF Over, Stopped
<1> DEFINE n == Len(code)
<1>10. \A a \in S \cup {Len(code)} : a <= n
  <2>1. n \in Nat /\ \A a \in S : a \in Nat /\ a < n
    BY <1>3, <1>5
  <2> HIDE DEF n
  <2>2. \A a \in S \cup {n} : a <= n
    BY <2>1
  <2> QED
    BY <2>2 DEF n
<1> QED
  BY <1>2, <1>3, <1>4, <1>6, <1>7, <1>8, <1>9, <1>10 DEF code, one, two, three

\* A rule about two instructions that writes one and cuts one byte behind its first.
LEMMA RuleOfTwo ==
  ASSUME NEW o, NEW S, Good(o, S), ~Over(o), ~Adjustable(o, Two(o)),
         NEW u, NEW v, u = Width(FirstOp(o)), Size(FirstOp(o)) = u, v = Width(SecondOp(o)), Size(SecondOp(o)) = v,
         FirstOp(o) \notin Jumping, SecondOp(o) \notin Jumping,
         NEW q, Edited(q, o, o.one, o.one + u + v), NEW name, OpAt(Code(q), o.one) = name,
         name \notin Jumping, Size(name) = Width(name), Width(name) + 1 = u + v,
         NEW p \in Nat, o.one < p, p < o.one + u + v, NEW r, r = Rewrite(q, p, 1)
  PROVE  Kept(r, o)
<1> DEFINE e == o.one + u + v
           one == o.one
           w == Width(name)
<1>1. /\ Good(o, S) /\ ~Over(o)
      /\ Size(FirstOp(o)) = Width(FirstOp(o)) /\ Size(SecondOp(o)) = Width(SecondOp(o))
  OBVIOUS
<1>2. one \in Nat /\ Three(o) = e /\ u \in 1..5 /\ v \in 1..5
  BY <1>1, Around
<1>3. w \in 1..5
  BY Sizes
<1>4. e = one + u + v /\ w + 1 = u + v /\ one < p /\ p < one + u + v
  OBVIOUS
<1>5. 1 <= 1 /\ one <= p /\ p + 1 <= e /\ one + w + 1 = e /\ p # one
  <2> HIDE DEF e, w, one
  <2> QED
    BY <1>2, <1>3, <1>4
<1> DEFINE k == 1
<1>6. /\ ~Adjustable(o, Two(o)) /\ FirstOp(o) \notin Jumping /\ SecondOp(o) \notin Jumping
      /\ Size(FirstOp(o)) = Width(FirstOp(o)) /\ Size(SecondOp(o)) = Width(SecondOp(o))
      /\ e = Three(o) /\ p \in Nat /\ k \in Nat /\ 1 <= k /\ o.one <= p /\ p + k <= e
      /\ p = o.one => ~LoopsTo(o, o.one) \/ ~Adjustable(o, o.one)
      /\ k = 1 \/ \E last \in Nat : /\ p + k <= last + 1
                                    /\ \A i \in DOMAIN o.func.except : o.func.except[i].start \notin (o.one + 1)..last
  BY <1>2, <1>5
<1>7. /\ Edited(q, o, o.one, e) /\ r = Rewrite(q, p, k) /\ o.one < p
      /\ OpAt(Code(q), o.one) = name /\ name \notin Jumping /\ Size(name) = Width(name) /\ o.one + Width(name) + k = e
  BY <1>5
<1> HIDE DEF k, e
<1>8. Clear(o, S, e, p, k)
  BY ONLY <1>1, <1>6, ClearTwo
<1>9. Good(r, After(S, o.one, e, k)) /\ r.failed = o.failed
  BY ONLY <1>7, <1>8, WriteAndCut
<1> QED
  BY <1>9 DEF Kept

\* The names of the rules are those of instructions.
LEMMA KnownOps ==
  /\ {"GET_LOCALS", "POP_TWO", "POP_N", "TAIL_CALL", "GET_GLOBAL_PROPERTY", "INCREMENT_LOCAL", "ADD_LOCALS",
      "MODULO_LOCALS", "ARRAY_PUSH_LOCALS", "INCREMENT_LOCAL_AND_SET", "INCREMENT"} \subseteq Range(OpCodes)
  /\ {"GET_LOCALS", "POP", "POP_TWO", "POP_N", "TAIL_CALL", "GET_GLOBAL_PROPERTY", "INCREMENT_LOCAL", "ADD_LOCALS",
      "MODULO_LOCALS", "ARRAY_PUSH_LOCALS", "INCREMENT_LOCAL_AND_SET", "INCREMENT", "GET_LOCAL", "RETURN", "VOID", "CALL",
      "GET_GLOBAL", "GET_PROPERTY", "ADD", "MODULO", "ARRAY_PUSH", "SET_LOCAL", "CONSTANT", "DIVIDE", "NEGATE", "BIT_NOT",
      "TRUE", "FALSE", "LESS_EQUAL", "SUBTRACT", "MULTIPLY"} \cap Jumping = {}
<1>1. {"GET_LOCALS", "POP_TWO", "POP_N", "TAIL_CALL", "GET_GLOBAL_PROPERTY", "INCREMENT_LOCAL", "ADD_LOCALS",
       "MODULO_LOCALS", "ARRAY_PUSH_LOCALS", "INCREMENT_LOCAL_AND_SET", "INCREMENT"} \subseteq Range(OpCodes)
  BY KnownNames
<1> QED
  BY <1>1 DEF Jumping, Forward, Backward, ConditionalJumps

\* Two reads of locals become one.
LEMMA TwoLocalsKept ==
  ASSUME NEW o, NEW S, Good(o, S), ~Over(o), ~Adjustable(o, Two(o)), NEW r \in TwoLocals(o)
  PROVE  Kept(r, o)
<1> DEFINE q == SetOp(o, o.one, "GET_LOCALS")
<1>1. FirstOp(o) = "GET_LOCAL" /\ SecondOp(o) = "GET_LOCAL" /\ r = Rewrite(q, o.one + 2, 1)
  BY DEF TwoLocals, Pair
<1>2. /\ Size("GET_LOCAL") = 2 /\ Width("GET_LOCAL") = 2 /\ Size("GET_LOCALS") = 3 /\ Width("GET_LOCALS") = 3
      /\ "GET_LOCALS" \in Range(OpCodes) /\ "GET_LOCAL" \notin Jumping /\ "GET_LOCALS" \notin Jumping
  BY KnownSizes, KnownOps
<1>3. o.one \in Nat /\ o.one \in S
  BY <1>1, <1>2, Around
<1>4. Edited(q, o, o.one, o.one + 2 + 2) /\ OpAt(Code(q), o.one) = "GET_LOCALS"
  <2>1. o.one + 2 + 2 \in Nat /\ o.one < o.one + 2 + 2
    BY <1>3
  <2> QED
    BY <1>2, <1>3, <2>1, OpWritten
<1>5. o.one + 2 \in Nat /\ o.one < o.one + 2 /\ o.one + 2 < o.one + 2 + 2
  BY <1>3
<1> HIDE DEF q
<1> QED
  BY <1>1, <1>2, <1>4, <1>5, RuleOfTwo

\* A property of a global.
LEMMA GlobalPropertyKept ==
  ASSUME NEW o, NEW S, Good(o, S), ~Over(o), ~Adjustable(o, Two(o)), NEW r \in GlobalProperty(o)
  PROVE  Kept(r, o)
<1> DEFINE q == SetOp(o, o.one, "GET_GLOBAL_PROPERTY")
<1>1. FirstOp(o) = "GET_GLOBAL" /\ SecondOp(o) = "GET_PROPERTY" /\ r = Rewrite(q, o.one + 2, 1)
  BY DEF GlobalProperty, Pair
<1>2. /\ \A name \in {"GET_GLOBAL", "GET_PROPERTY"} : Size(name) = 2 /\ Width(name) = 2 /\ name \notin Jumping
      /\ Size("GET_GLOBAL_PROPERTY") = 3 /\ Width("GET_GLOBAL_PROPERTY") = 3
      /\ "GET_GLOBAL_PROPERTY" \in Range(OpCodes) /\ "GET_GLOBAL_PROPERTY" \notin Jumping
  BY KnownSizes, KnownOps
<1>3. o.one \in Nat /\ o.one \in S
  BY <1>1, <1>2, Around
<1>4. Edited(q, o, o.one, o.one + 2 + 2) /\ OpAt(Code(q), o.one) = "GET_GLOBAL_PROPERTY"
  <2>1. o.one + 2 + 2 \in Nat /\ o.one < o.one + 2 + 2
    BY <1>3
  <2> QED
    BY <1>2, <1>3, <2>1, OpWritten
<1>5. o.one + 2 \in Nat /\ o.one < o.one + 2 /\ o.one + 2 < o.one + 2 + 2
  BY <1>3
<1> HIDE DEF q
<1> QED
  BY <1>1, <1>2, <1>4, <1>5, RuleOfTwo

\* An operation on two locals.
LEMMA LocalsOperationKept ==
  ASSUME NEW o, NEW S, Good(o, S), ~Over(o), ~Adjustable(o, Two(o)), NEW r \in LocalsOperation(o)
  PROVE  Kept(r, o)
<1> DEFINE name == OnLocals[SecondOp(o)]
           q == SetOp(o, o.one, name)
<1>1. FirstOp(o) = "GET_LOCALS" /\ SecondOp(o) \in DOMAIN OnLocals /\ r = Rewrite(q, o.one + 3, 1)
  BY DEF LocalsOperation
<1>2. SecondOp(o) \in {"ADD", "MODULO", "ARRAY_PUSH"} /\ name \in {"ADD_LOCALS", "MODULO_LOCALS", "ARRAY_PUSH_LOCALS"}
  BY <1>1 DEF OnLocals
<1>3. /\ Size("GET_LOCALS") = 3 /\ Width("GET_LOCALS") = 3 /\ "GET_LOCALS" \notin Jumping
      /\ Size(SecondOp(o)) = 1 /\ Width(SecondOp(o)) = 1 /\ SecondOp(o) \notin Jumping
      /\ Size(name) = 3 /\ Width(name) = 3 /\ name \notin Jumping /\ name \in Range(OpCodes)
  BY <1>2, KnownSizes, KnownOps
<1>4. o.one \in Nat /\ o.one \in S
  BY <1>1, <1>3, Around
<1> HIDE DEF name
<1>5. Edited(q, o, o.one, o.one + 3 + 1) /\ OpAt(Code(q), o.one) = name
  <2>1. o.one + 3 + 1 \in Nat /\ o.one < o.one + 3 + 1
    BY <1>4
  <2> QED
    BY <1>3, <1>4, <2>1, OpWritten
<1>6. o.one + 3 \in Nat /\ o.one < o.one + 3 /\ o.one + 3 < o.one + 3 + 1
  BY <1>4
<1> HIDE DEF q
<1> QED
  BY <1>1, <1>3, <1>5, <1>6, RuleOfTwo

\* VOID after RETURN goes.
LEMMA ReturnBeforeVoidKept ==
  ASSUME NEW o, NEW S, Good(o, S), ~Over(o), ~Adjustable(o, Two(o)), NEW r \in ReturnBeforeVoid(o)
  PROVE  Kept(r, o)
<1>1. FirstOp(o) = "RETURN" /\ SecondOp(o) = "VOID" /\ r = Rewrite(o, Two(o), 1)
  BY DEF ReturnBeforeVoid, Pair
<1>2. \A name \in {"RETURN", "VOID"} : Size(name) = 1 /\ Width(name) = 1 /\ name \notin Jumping
  BY KnownSizes, KnownOps
<1>3. o.one \in Nat /\ o.one \in S /\ Two(o) = o.one + 1
  <2>1. /\ Width(FirstOp(o)) = 1 /\ Size(FirstOp(o)) = 1
        /\ Width(SecondOp(o)) = 1 /\ Size(SecondOp(o)) = 1
    BY <1>1, <1>2
  <2> QED
    BY <2>1, Around
<1>4. Edited(o, o, o.one, o.one + 1 + 1) /\ OpAt(Code(o), o.one) = "RETURN"
  BY <1>1, EditedSame DEF Good, FirstOp
<1>5. Two(o) \in Nat /\ o.one < Two(o) /\ Two(o) < o.one + 1 + 1
  BY <1>3
<1> QED
  BY <1>1, <1>2, <1>4, <1>5, RuleOfTwo

\* A constant that is added.
LEMMA ConstantIncrementKept ==
  ASSUME NEW o, NEW S, Good(o, S), ~Over(o), ~Adjustable(o, Two(o)), NEW r \in ConstantIncrement(o)
  PROVE  Kept(r, o)
<1> DEFINE byte == ConstantAt(o, o.one).i
           half == SetOp(o, o.one, "INCREMENT")
           q == Set(half, o.one + 1, byte)
<1>1. FirstOp(o) = "CONSTANT" /\ SecondOp(o) = "ADD" /\ r = Rewrite(q, o.one + 2, 1) /\ byte \in Nat
  BY DEF ConstantIncrement, Pair, ByteConstant, ByteMax
<1>2. /\ Size("CONSTANT") = 2 /\ Width("CONSTANT") = 2 /\ "CONSTANT" \notin Jumping
      /\ Size("ADD") = 1 /\ Width("ADD") = 1 /\ "ADD" \notin Jumping
      /\ Size("INCREMENT") = 2 /\ Width("INCREMENT") = 2 /\ "INCREMENT" \notin Jumping /\ "INCREMENT" \in Range(OpCodes)
  BY KnownSizes, KnownOps
<1>3. o.one \in Nat /\ o.one \in S /\ Three(o) = o.one + 2 + 1 /\ Three(o) <= Len(Code(o))
  <2>1. /\ Width(FirstOp(o)) = 2 /\ Size(FirstOp(o)) = 2
        /\ Width(SecondOp(o)) = 1 /\ Size(SecondOp(o)) = 1
    BY <1>1, <1>2
  <2> QED
    BY <2>1, Around
<1> DEFINE f == o.one + 2 + 1
           x == o.one + 1
<1>4. f \in Nat /\ o.one < f /\ x \in Nat /\ o.one <= x /\ x < f /\ x # o.one /\ f <= Len(Code(o))
  BY <1>3
<1> HIDE DEF byte
<1>5. Edited(half, o, o.one, f) /\ OpAt(Code(half), o.one) = "INCREMENT"
  BY <1>2, <1>3, <1>4, OpWritten
<1>6. q = Set(half, x, byte)
  OBVIOUS
<1> HIDE DEF q, half, f, x
<1>7. Edited(q, o, o.one, f) /\ OpAt(Code(q), o.one) = "INCREMENT"
  BY <1>1, <1>3, <1>4, <1>5, <1>6, ByteWritten
<1>8. o.one + 2 \in Nat /\ o.one < o.one + 2 /\ o.one + 2 < o.one + 2 + 1
  BY <1>3
<1> QED
  BY <1>1, <1>2, <1>7, <1>8, RuleOfTwo DEF f

\* Another constant is put in the place of one.
LEMMA ReplaceFacts ==
  ASSUME NEW o, NEW S, Good(o, S), o.one \in S, NEW e \in Nat, o.one + 1 < e, e <= Len(Code(o)),
         NEW value, NEW q, q = Replace(o, value)
  PROVE  Edited(q, o, o.one, e) /\ OpAt(Code(q), o.one) = FirstOp(o)
<1>1. Shaped(o) /\ Code(o) \in Seq(Nat) /\ Framed(Code(o), S)
  BY DEF Good
<1>2. o.one \in Nat
  BY <1>1, Addresses
<1> DEFINE constants == AddConstant(o.func.constants, value)
           half == [o EXCEPT !.func.constants = constants]
           byte == ConstantIndex(constants, value)
<1>3. PICK V : o.func.constants \in Seq(V)
  BY <1>1 DEF Shaped
<1> DEFINE before == o.func.constants
           W == V \cup {value}
<1>4. constants \in Seq(W) /\ \E k \in DOMAIN constants : constants[k] = value
  <2>1. CASE value \in Range(before)
    <3>1. constants = before
      BY <2>1 DEF AddConstant
    <3> QED
      BY <1>3, <2>1, <3>1 DEF Range
  <2>2. CASE value \notin Range(before)
    <3>1. constants = Append(before, value)
      BY <2>2 DEF AddConstant
    <3>2. before \in Seq(W)
      BY <1>3
    <3> HIDE DEF constants
    <3>3. constants \in Seq(W) /\ Len(constants) = Len(before) + 1 /\ constants[Len(before) + 1] = value
      BY <3>1, <3>2
    <3> QED
      BY <3>2, <3>3
  <2> QED
    BY <2>1, <2>2
<1> HIDE DEF constants, W
<1>5. byte \in Nat
  BY <1>4 DEF ConstantIndex
<1>6. q = Set(half, o.one + 1, byte)
  BY DEF Replace, constants
<1>7. /\ Shaped(half) /\ half.func.except = o.func.except /\ half.important = o.important
      /\ half.one = o.one /\ half.zero = o.zero /\ half.failed = o.failed /\ Code(half) = Code(o)
  <2>1. DOMAIN o = {"func", "important", "zero", "one", "failed", "aborted"} /\ DOMAIN o.func = {"code", "constants", "except", "arity"}
    BY <1>1 DEF Shaped
  <2>2. half.func = [o.func EXCEPT !.constants = constants]
    BY <2>1
  <2>3. DOMAIN half = DOMAIN o /\ DOMAIN half.func = DOMAIN o.func /\ half.func.constants = constants
    BY <2>1, <2>2
  <2> QED
    BY <1>4, <2>1, <2>2, <2>3 DEF Shaped, Code
<1>8. Edited(half, o, o.one, e)
  BY <1>1, <1>7 DEF Edited
<1>9. o.one + 1 \in Nat /\ o.one <= o.one + 1 /\ o.one + 1 # o.one
  BY <1>2
<1> DEFINE x == o.one + 1
<1>10. x \in Nat /\ o.one <= x /\ x < e /\ x # o.one /\ q = Set(half, x, byte)
  BY <1>6, <1>9
<1> HIDE DEF half, byte, x
<1>11. Edited(q, o, o.one, e) /\ OpAt(Code(q), o.one) = OpAt(Code(half), o.one)
  <2> DEFINE one == o.one
  <2>1. /\ one \in Nat /\ e \in Nat /\ Edited(half, o, one, e) /\ e <= Len(Code(o))
        /\ x \in Nat /\ one <= x /\ x < e /\ byte \in Nat /\ q = Set(half, x, byte) /\ x # one
    BY <1>2, <1>5, <1>8, <1>10
  <2> HIDE DEF one
  <2>2. Edited(q, o, one, e) /\ OpAt(Code(q), one) = OpAt(Code(half), one)
    BY ONLY <2>1, ByteWritten
  <2> QED
    BY <2>2 DEF one
<1> QED
  BY <1>7, <1>11 DEF FirstOp

\* An operation on one constant.
LEMMA FoldOneKept ==
  ASSUME NEW o, NEW S, Good(o, S), ~Over(o), ~Adjustable(o, Two(o)), NEW r \in FoldOne(o)
  PROVE  Kept(r, o)
<1>1. /\ FirstOp(o) = "CONSTANT" /\ SecondOp(o) \in {"NEGATE", "BIT_NOT"}
      /\ \E value : r = Rewrite(Replace(o, value), o.one + 2, 1)
  BY DEF FoldOne
<1>2. PICK value : r = Rewrite(Replace(o, value), o.one + 2, 1)
  BY <1>1
<1> DEFINE q == Replace(o, value)
<1>3. /\ Size("CONSTANT") = 2 /\ Width("CONSTANT") = 2 /\ "CONSTANT" \notin Jumping
      /\ Size(SecondOp(o)) = 1 /\ Width(SecondOp(o)) = 1 /\ SecondOp(o) \notin Jumping
  BY <1>1, KnownSizes, KnownOps
<1>4. o.one \in Nat /\ o.one \in S /\ Three(o) = o.one + 2 + 1 /\ Three(o) <= Len(Code(o))
  <2>1. /\ Width(FirstOp(o)) = 2 /\ Size(FirstOp(o)) = 2
        /\ Width(SecondOp(o)) = 1 /\ Size(SecondOp(o)) = 1
    BY <1>1, <1>3
  <2> QED
    BY <2>1, Around
<1> DEFINE f == o.one + 2 + 1
<1>5. f \in Nat /\ o.one + 1 < f /\ f <= Len(Code(o))
  BY <1>4
<1>6. q = Replace(o, value) /\ r = Rewrite(q, o.one + 2, 1)
  BY <1>2
<1> HIDE DEF q, f
<1>7. Edited(q, o, o.one, f) /\ OpAt(Code(q), o.one) = "CONSTANT"
  BY <1>1, <1>4, <1>5, <1>6, ReplaceFacts
<1>8. o.one + 2 \in Nat /\ o.one < o.one + 2 /\ o.one + 2 < o.one + 2 + 1
  BY <1>4
<1> QED
  BY <1>1, <1>3, <1>6, <1>7, <1>8, RuleOfTwo DEF f

\* A cut of code that has not been written to.
LEMMA PlainCut ==
  ASSUME NEW o, NEW S, NEW e, NEW p, NEW k, Clear(o, S, e, p, k), NEW cut, cut = Rewrite(o, p, k),
         NEW f, f = e - k, NEW one, one = o.one
  PROVE  /\ Edited(o, o, one, e) /\ Edited(cut, cut, one, f)
         /\ Shaped(cut) /\ Code(cut) \in Seq(Nat) /\ f <= Len(Code(cut)) /\ f \in Nat
         /\ \A x \in Nat : one <= x /\ x < p => Byte(Code(cut), x) = Byte(Code(o), x)
<1>1. /\ Shaped(o) /\ Code(o) \in Seq(Nat) /\ Framed(Code(o), S) /\ one \in S /\ e \in S \cup {Len(Code(o))}
      /\ k \in Nat /\ p \in Nat /\ one <= p /\ p + k <= e
  BY DEF Clear, Cutting, Region, Good
<1>2. Edited(o, o, o.one, e) /\ Clear(o, S, e, p, k) /\ cut = Rewrite(o, p, k)
  BY <1>1, EditedSame
<1>3. /\ Shaped(cut) /\ Code(cut) \in Seq(Nat) /\ Len(Code(cut)) = Len(Code(o)) - k
      /\ \A x \in Nat : one <= x /\ x < p => Byte(Code(cut), x) = Byte(Code(o), x)
  <2>1. /\ Shaped(cut) /\ Code(cut) \in Seq(Nat) /\ Len(Code(cut)) = Len(Code(o)) - k
        /\ \A x \in Nat : o.one <= x /\ x < p => Byte(Code(cut), x) = Byte(Code(o), x)
    BY ONLY <1>2, SimpleEffect
  <2> QED
    BY <2>1
<1>4. f <= Len(Code(cut)) /\ f \in Nat
  <2>1. Len(Code(o)) \in Nat /\ \A a \in S : a \in Nat /\ a < Len(Code(o))
    BY <1>1, Addresses
  <2> DEFINE n == Len(Code(o))
             m == Len(Code(cut))
  <2>2. n \in Nat /\ e \in Nat /\ e <= n /\ m = n - k
    BY <1>1, <1>3, <2>1
  <2> HIDE DEF n, m
  <2>3. f <= m /\ f \in Nat
    BY <1>1, <2>2
  <2> QED
    BY <2>3 DEF m
<1> QED
  BY <1>1, <1>2, <1>3, <1>4, EditedSame

\* Two drops become one of two values.
LEMMA PopTwoKept ==
  ASSUME NEW o, NEW S, Good(o, S), ~Over(o), ~Adjustable(o, Two(o)), ~LoopsTo(o, o.one), NEW r \in PopTwo(o)
  PROVE  Kept(r, o)
<1> DEFINE one == o.one
           e == one + 2
           p == one
           k == 1
           f == e - k
           cut == Rewrite(o, p, k)
<1>1. FirstOp(o) = "POP" /\ SecondOp(o) = "POP" /\ r = SetOp(cut, one, "POP_TWO")
  BY DEF PopTwo, Pair
<1>2. /\ Size("POP") = 1 /\ Width("POP") = 1 /\ "POP" \notin Jumping
      /\ Size("POP_TWO") = 1 /\ Width("POP_TWO") = 1 /\ "POP_TWO" \notin Jumping /\ "POP_TWO" \in Range(OpCodes)
  BY KnownSizes, KnownOps
<1>3. one \in Nat /\ Three(o) = e
  <2>1. Width(FirstOp(o)) = 1 /\ Size(FirstOp(o)) = 1 /\ Width(SecondOp(o)) = 1 /\ Size(SecondOp(o)) = 1
    BY <1>1, <1>2
  <2>2. /\ o.one \in Nat /\ o.one \in S
        /\ Three(o) = o.one + Width(FirstOp(o)) + Width(SecondOp(o))
    BY <2>1, Around
  <2> QED
    BY <2>1, <2>2
<1>4. p \in Nat /\ k \in Nat /\ 1 <= k /\ one <= p /\ p + k <= e /\ one + 1 + k = e /\ one < f /\ k = 1 /\ f = e - k /\ e \in Nat
  BY <1>3
<1>5. p = o.one /\ one = o.one /\ cut = Rewrite(o, p, k)
  OBVIOUS
<1> HIDE DEF one, e, p, k, f, cut
<1>6. Clear(o, S, e, p, k)
  BY <1>1, <1>2, <1>3, <1>4, <1>5, ClearTwo
<1>7. /\ Edited(o, o, one, e) /\ Edited(cut, cut, one, f)
      /\ Shaped(cut) /\ Code(cut) \in Seq(Nat) /\ f <= Len(Code(cut)) /\ f \in Nat
  BY ONLY <1>4, <1>5, <1>6, PlainCut
<1>8. Edited(r, cut, one, f) /\ OpAt(Code(r), one) = "POP_TWO"
  <2>1. one < Len(Code(cut))
    <3>1. Len(Code(cut)) \in Nat
      BY <1>7
    <3> QED
      BY <1>3, <1>4, <1>7, <3>1
  <2> QED
    BY <1>1, <1>2, <1>3, <1>4, <1>7, <2>1, NameWritten
<1> DEFINE name == "POP_TWO"
<1>9. /\ Clear(o, S, e, p, k) /\ Edited(o, o, o.one, e) /\ Edited(r, Rewrite(o, p, k), o.one, e - k)
      /\ OpAt(Code(r), o.one) = name /\ name \notin Jumping /\ Size(name) = Width(name) /\ o.one + Width(name) + k = e
  BY <1>2, <1>4, <1>5, <1>6, <1>7, <1>8
<1> HIDE DEF name
<1>10. Good(r, After(S, o.one, e, k)) /\ r.failed = o.failed
  BY ONLY <1>9, SimpleRule
<1> QED
  BY <1>10 DEF Kept

\* One more value is dropped.
LEMMA PopMoreKept ==
  ASSUME NEW o, NEW S, Good(o, S), ~Over(o), ~Adjustable(o, Two(o)), NEW r \in PopMore(o)
  PROVE  Kept(r, o)
<1> DEFINE one == o.one
           e == one + 3
           p == one + 1
           k == 1
           f == e - k
           cut == Rewrite(o, p, k)
           byte == Byte(Code(o), o.one + 1) + 1
<1>1. FirstOp(o) = "POP_N" /\ SecondOp(o) = "POP" /\ r = Set(cut, p, byte)
  BY DEF PopMore, Pair
<1>2. /\ Size("POP") = 1 /\ Width("POP") = 1 /\ "POP" \notin Jumping
      /\ Size("POP_N") = 2 /\ Width("POP_N") = 2 /\ "POP_N" \notin Jumping
  BY KnownSizes, KnownOps
<1>3. one \in Nat /\ Three(o) = e /\ one \in S
  <2>1. Width(FirstOp(o)) = 2 /\ Size(FirstOp(o)) = 2 /\ Width(SecondOp(o)) = 1 /\ Size(SecondOp(o)) = 1
    BY <1>1, <1>2
  <2>2. /\ o.one \in Nat /\ o.one \in S
        /\ Three(o) = o.one + Width(FirstOp(o)) + Width(SecondOp(o))
    BY <2>1, Around
  <2> QED
    BY <2>1, <2>2
<1>4. /\ p \in Nat /\ k \in Nat /\ 1 <= k /\ one <= p /\ p + k <= e /\ one + 2 + k = e /\ p < f /\ k = 1 /\ f = e - k /\ e \in Nat
      /\ p # one /\ one < p
  BY <1>3
<1>5. one = o.one /\ cut = Rewrite(o, p, k) /\ byte \in Nat
  <2>1. Byte(Code(o), o.one + 1) \in Nat
    BY ByteFacts DEF Good
  <2> QED
    BY <2>1
<1> HIDE DEF one, e, p, k, f, cut, byte
<1>6. Clear(o, S, e, p, k)
  BY <1>1, <1>2, <1>3, <1>4, <1>5, ClearTwo
<1>7. /\ Edited(o, o, one, e) /\ Edited(cut, cut, one, f)
      /\ Shaped(cut) /\ Code(cut) \in Seq(Nat) /\ f <= Len(Code(cut)) /\ f \in Nat
      /\ \A x \in Nat : one <= x /\ x < p => Byte(Code(cut), x) = Byte(Code(o), x)
  BY ONLY <1>4, <1>5, <1>6, PlainCut
<1>8. Edited(r, cut, one, f) /\ OpAt(Code(r), one) = "POP_N"
  <2>1. Byte(Code(cut), one) = Byte(Code(o), one)
    BY <1>3, <1>4, <1>7
  <2>2. OpAt(Code(cut), one) = "POP_N"
    BY <1>1, <1>5, <2>1 DEF OpAt, FirstOp
  <2>3. Edited(r, cut, one, f) /\ (p # one => OpAt(Code(r), one) = OpAt(Code(cut), one))
    <3>1. /\ one \in Nat /\ f \in Nat /\ Edited(cut, cut, one, f) /\ f <= Len(Code(cut))
          /\ p \in Nat /\ one <= p /\ p < f /\ byte \in Nat /\ r = Set(cut, p, byte)
      BY <1>1, <1>3, <1>4, <1>5, <1>7
    <3> QED
      BY ONLY <3>1, ByteWritten
  <2> QED
    BY <1>4, <2>2, <2>3
<1> DEFINE name == "POP_N"
<1>9. /\ Clear(o, S, e, p, k) /\ Edited(o, o, o.one, e) /\ Edited(r, Rewrite(o, p, k), o.one, e - k)
      /\ OpAt(Code(r), o.one) = name /\ name \notin Jumping /\ Size(name) = Width(name) /\ o.one + Width(name) + k = e
  BY <1>2, <1>4, <1>5, <1>6, <1>7, <1>8
<1> HIDE DEF name
<1>10. Good(r, After(S, o.one, e, k)) /\ r.failed = o.failed
  BY ONLY <1>9, SimpleRule
<1> QED
  BY <1>10 DEF Kept

\* What a rule about one instruction, no jump, may cut: all of it.
LEMMA ClearOne ==
  ASSUME NEW o, NEW S, Good(o, S), ~Over(o), ~LoopsTo(o, o.one),
         Size(FirstOp(o)) = Width(FirstOp(o)), FirstOp(o) \notin Jumping,
         \A i \in DOMAIN o.func.except : o.func.except[i].start \notin (o.one + 1)..(Two(o) - 1),
         NEW k, k = Width(FirstOp(o))
  PROVE  /\ Clear(o, S, Two(o), o.one, k)
         /\ o.one \in Nat /\ k \in 1..5 /\ Two(o) = o.one + k /\ Two(o) \in S
<1> DEFINE code == Code(o)  one == o.one  two == Two(o)
<1>1. Good(o, S) /\ ~Over(o) /\ code = Code(o) /\ one = o.one /\ two = Two(o)
  OBVIOUS
<1>2. code \in Seq(Nat) /\ Framed(code, S) /\ FirstOp(o) = OpAt(code, one) /\ "JUMP" \in Jumping
  BY DEF Good, FirstOp, Jumping, Forward
<1>3. /\ \A a \in S : OpAt(code, a) \in {"LOOP", "INCREMENT_LOOP"} => LeadsTo(code, a) # one
      /\ \A a \in S : OpAt(code, a) \in Jumping => LeadsTo(code, a) \in S
  BY NotLedTo DEF Good, Lands
<1> HIDE DEF code, one, two
<1>4. /\ one \in S /\ two \in S /\ one \in Nat /\ two \in Nat /\ one < two
      /\ two = one + Size(FirstOp(o))
      /\ Size(FirstOp(o)) = Width(FirstOp(o)) => \A a \in S : one < a => two <= a
  BY ONLY <1>1, Window
<1>5. \A a \in S : a \in Nat
  BY <1>2, Addresses
<1>6. k \in 1..5 /\ two = one + k
  BY <1>4, Sizes
<1>7. \A a \in S : a <= one \/ two <= a
  BY <1>4, <1>5
<1>8. \A a \in S : one <= a /\ a < two => a = one
  BY <1>4, <1>5, <1>7
<1>9. Region(code, S, one, two)
  BY <1>3, <1>4, <1>7 DEF Region
<1>10. \A a \in S : one <= a /\ a < two => OpAt(code, a) \notin Jumping /\ OpAt(code, a) # "JUMP"
  BY <1>2, <1>8
<1>11. one \in Nat /\ k \in Nat /\ 1 <= k /\ one <= one /\ one + k <= two
  BY <1>4, <1>6
<1>12. \A i \in DOMAIN o.func.except : o.func.except[i].start <= one \/ one + k <= o.func.except[i].start
  <2> DEFINE last == two - 1
  <2>1. last \in Nat /\ one + k <= last + 1
    BY <1>4, <1>6
  <2>2. \A i \in DOMAIN o.func.except : o.func.except[i].start \notin (one + 1)..last
    BY <1>1
  <2> HIDE DEF last
  <2> QED
    BY <1>1, <1>11, <2>1, <2>2, WholeRanges
<1> QED
  BY <1>1, <1>3, <1>4, <1>6, <1>9, <1>10, <1>11, <1>12 DEF Clear, Cutting

\* Before VOID nothing needs to be dropped.
LEMMA PopBeforeVoidKept ==
  ASSUME NEW o, NEW S, Good(o, S), ~Over(o), ~LoopsTo(o, o.one),
         \A i \in DOMAIN o.func.except : o.func.except[i].start \notin (o.one + 1)..(Two(o) - 1),
         NEW r \in PopBeforeVoid(o)
  PROVE  Kept(r, o)
<1> DEFINE one == o.one
           e == Two(o)
           k == Width(FirstOp(o))
           f == e - k
           cut == Rewrite(o, one, k)
<1>1. /\ FirstOp(o) \in {"POP", "POP_TWO", "POP_N"}
      /\ r = Rewrite(o, o.one, Size(FirstOp(o)))
  BY DEF PopBeforeVoid
<1>2. Size(FirstOp(o)) = Width(FirstOp(o)) /\ FirstOp(o) \notin Jumping
  BY <1>1, KnownSizes, KnownOps
<1>3. Clear(o, S, e, one, k) /\ one \in Nat /\ k \in 1..5 /\ e = one + k /\ e \in S
  BY <1>2, ClearOne
<1>4. r = cut /\ cut = Rewrite(o, one, k) /\ one = o.one /\ f = e - k
  BY <1>1, <1>2
<1> HIDE DEF e, k, f, cut, one
<1>5. Edited(o, o, one, e) /\ Edited(cut, cut, one, f)
  BY ONLY <1>3, <1>4, PlainCut
<1>6. ~(one + k < e)
  BY <1>3
<1>7. Replaces(Code(o), S, Code(r), o.one, e, k)
  BY <1>3, <1>4, <1>6 DEF Replaces
<1> DEFINE p == one
<1>8. /\ Clear(o, S, e, p, k) /\ Edited(o, o, o.one, e) /\ f = e - k /\ Edited(r, Rewrite(o, p, k), o.one, f)
      /\ (o.one + k < e => OpAt(Code(r), o.one) \notin Jumping)
  BY <1>3, <1>4, <1>5, <1>6
<1> HIDE DEF p
<1>9. Good(r, After(S, o.one, e, k)) /\ r.failed = o.failed
  BY ONLY <1>7, <1>8, SimpleCut
<1> QED
  BY <1>9 DEF Kept

\* A constant that is added to a local.
LEMMA LocalIncrementKept ==
  ASSUME NEW o, NEW S, Good(o, S), ~Over(o), ~Adjustable(o, Two(o)), ~Adjustable(o, Three(o)), ~Adjustable(o, o.one),
         \A i \in DOMAIN o.func.except : o.func.except[i].start \notin (o.one + 1)..Three(o),
         NEW r \in LocalIncrement(o)
  PROVE  Kept(r, o)
<1> DEFINE one == o.one
           e == one + 5
           p == one
           k == 2
           f == e - k
           x == one + 1
           y == one + 2
           cut == Rewrite(o, p, k)
           slot == Byte(Code(o), one + 1)
           add == ConstantAt(o, Two(o)).i
           first == SetOp(cut, one, "INCREMENT_LOCAL")
           second == Set(first, x, slot)
<1>1. /\ FirstOp(o) = "GET_LOCAL" /\ SecondOp(o) = "CONSTANT" /\ ThirdOp(o) = "ADD"
      /\ r = Set(second, y, add) /\ add \in Nat
  BY DEF LocalIncrement, Pair, ByteConstant, ByteMax
<1>2. /\ Size("GET_LOCAL") = 2 /\ Width("GET_LOCAL") = 2 /\ "GET_LOCAL" \notin Jumping
      /\ Size("CONSTANT") = 2 /\ Width("CONSTANT") = 2 /\ "CONSTANT" \notin Jumping
      /\ Size("ADD") = 1 /\ Width("ADD") = 1 /\ "ADD" \notin Jumping
      /\ Size("INCREMENT_LOCAL") = 3 /\ Width("INCREMENT_LOCAL") = 3 /\ "INCREMENT_LOCAL" \notin Jumping
      /\ "INCREMENT_LOCAL" \in Range(OpCodes)
  BY KnownSizes, KnownOps
<1>3. one \in Nat /\ one \in S /\ Three(o) = one + 4
  <2>1. Width(FirstOp(o)) = 2 /\ Size(FirstOp(o)) = 2 /\ Width(SecondOp(o)) = 2 /\ Size(SecondOp(o)) = 2
    BY <1>1, <1>2
  <2>2. /\ o.one \in Nat /\ o.one \in S
        /\ Three(o) = o.one + Width(FirstOp(o)) + Width(SecondOp(o))
    BY <2>1, Around
  <2> QED
    BY <2>1, <2>2
<1>4. /\ p \in Nat /\ k \in Nat /\ 1 <= k /\ one <= p /\ p + k <= e /\ one + 3 + k = e /\ e = Three(o) + 1
      /\ f = e - k /\ e \in Nat
      /\ x \in Nat /\ y \in Nat /\ one <= x /\ one <= y /\ x < f /\ y < f /\ x # one /\ y # one /\ one < f
      /\ p + k <= Three(o) + 1 /\ Three(o) \in Nat
  BY <1>3
<1>5. one = o.one /\ p = o.one /\ cut = Rewrite(o, p, k) /\ slot \in Nat
  BY ByteFacts DEF Good
<1>6. /\ first = SetOp(cut, one, "INCREMENT_LOCAL") /\ second = Set(first, x, slot)
  OBVIOUS
<1> HIDE DEF one, e, p, k, f, cut, x, y, slot, add, first, second
<1>7. Clear(o, S, e, p, k)
  <2> DEFINE last == Three(o)
  <2>1. /\ Good(o, S) /\ ~Over(o) /\ ~Adjustable(o, Two(o)) /\ ~Adjustable(o, Three(o))
        /\ Size(FirstOp(o)) = Width(FirstOp(o)) /\ Size(SecondOp(o)) = Width(SecondOp(o))
        /\ ThirdOp(o) # "NOTHING" /\ Size(ThirdOp(o)) = Width(ThirdOp(o))
        /\ FirstOp(o) \notin Jumping /\ SecondOp(o) \notin Jumping /\ ThirdOp(o) \notin Jumping
    BY <1>1, <1>2
  <2>2. /\ e = Three(o) + Size(ThirdOp(o)) /\ p \in Nat /\ k \in Nat /\ 1 <= k /\ o.one <= p /\ p + k <= e
        /\ p = o.one => ~LoopsTo(o, o.one) \/ ~Adjustable(o, o.one)
    BY <1>1, <1>2, <1>4, <1>5
  <2>3. \E z \in Nat : /\ p + k <= z + 1
                       /\ \A i \in DOMAIN o.func.except : o.func.except[i].start \notin (o.one + 1)..z
    BY <1>4
  <2> QED
    BY ONLY <2>1, <2>2, <2>3, ClearThree
<1>8. /\ Edited(o, o, one, e) /\ Edited(cut, cut, one, f)
      /\ Shaped(cut) /\ Code(cut) \in Seq(Nat) /\ f <= Len(Code(cut)) /\ f \in Nat
  BY ONLY <1>4, <1>5, <1>7, PlainCut
<1>9. Edited(first, cut, one, f) /\ OpAt(Code(first), one) = "INCREMENT_LOCAL"
  <2>1. one < Len(Code(cut))
    <3>1. Len(Code(cut)) \in Nat
      BY <1>8
    <3> QED
      BY <1>3, <1>4, <1>8, <3>1
  <2> QED
    BY <1>2, <1>3, <1>4, <1>6, <1>8, <2>1, NameWritten
<1>10. Edited(second, cut, one, f) /\ OpAt(Code(second), one) = "INCREMENT_LOCAL"
  <2>1. /\ one \in Nat /\ f \in Nat /\ Edited(first, cut, one, f) /\ f <= Len(Code(cut))
        /\ x \in Nat /\ one <= x /\ x < f /\ slot \in Nat /\ second = Set(first, x, slot)
    BY <1>3, <1>4, <1>5, <1>6, <1>8, <1>9
  <2>2. Edited(second, cut, one, f) /\ (x # one => OpAt(Code(second), one) = OpAt(Code(first), one))
    BY ONLY <2>1, ByteWritten
  <2> QED
    BY <1>4, <1>9, <2>2
<1>11. Edited(r, cut, one, f) /\ OpAt(Code(r), one) = "INCREMENT_LOCAL"
  <2>1. /\ one \in Nat /\ f \in Nat /\ Edited(second, cut, one, f) /\ f <= Len(Code(cut))
        /\ y \in Nat /\ one <= y /\ y < f /\ add \in Nat /\ r = Set(second, y, add)
    BY <1>1, <1>3, <1>4, <1>8, <1>10
  <2>2. Edited(r, cut, one, f) /\ (y # one => OpAt(Code(r), one) = OpAt(Code(second), one))
    BY ONLY <2>1, ByteWritten
  <2> QED
    BY <1>4, <1>10, <2>2
<1> DEFINE name == "INCREMENT_LOCAL"
<1>12. /\ Clear(o, S, e, p, k) /\ Edited(o, o, o.one, e) /\ Edited(r, Rewrite(o, p, k), o.one, e - k)
       /\ OpAt(Code(r), o.one) = name /\ name \notin Jumping /\ Size(name) = Width(name) /\ o.one + Width(name) + k = e
  BY <1>2, <1>4, <1>5, <1>7, <1>8, <1>11
<1> HIDE DEF name
<1>13. Good(r, After(S, o.one, e, k)) /\ r.failed = o.failed
  BY ONLY <1>12, SimpleRule
<1> QED
  BY <1>13 DEF Kept

\* A local is incremented and set.
LEMMA IncrementAndSetKept ==
  ASSUME NEW o, NEW S, Good(o, S), ~Over(o), ~Adjustable(o, Two(o)), ~Adjustable(o, Three(o)),
         \A i \in DOMAIN o.func.except : o.func.except[i].start \notin (o.one + 1)..Three(o),
         NEW r \in IncrementAndSet(o)
  PROVE  Kept(r, o)
<1> DEFINE one == o.one
           e == one + 6
           p == one + 3
           k == 3
           q == SetOp(o, o.one, "INCREMENT_LOCAL_AND_SET")
           name == "INCREMENT_LOCAL_AND_SET"
<1>1. /\ FirstOp(o) = "INCREMENT_LOCAL" /\ SecondOp(o) = "SET_LOCAL" /\ ThirdOp(o) = "POP"
      /\ r = Rewrite(q, p, k)
  BY DEF IncrementAndSet, Pair
<1>2. /\ Size("INCREMENT_LOCAL") = 3 /\ Width("INCREMENT_LOCAL") = 3 /\ "INCREMENT_LOCAL" \notin Jumping
      /\ Size("SET_LOCAL") = 2 /\ Width("SET_LOCAL") = 2 /\ "SET_LOCAL" \notin Jumping
      /\ Size("POP") = 1 /\ Width("POP") = 1 /\ "POP" \notin Jumping
      /\ Size(name) = 3 /\ Width(name) = 3 /\ name \notin Jumping
      /\ name \in Range(OpCodes)
  BY KnownSizes, KnownOps
<1>3. one \in Nat /\ one \in S /\ Three(o) = one + 5
  <2>1. Width(FirstOp(o)) = 3 /\ Size(FirstOp(o)) = 3 /\ Width(SecondOp(o)) = 2 /\ Size(SecondOp(o)) = 2
    BY <1>1, <1>2
  <2>2. /\ o.one \in Nat /\ o.one \in S
        /\ Three(o) = o.one + Width(FirstOp(o)) + Width(SecondOp(o))
    BY <2>1, Around
  <2> QED
    BY <2>1, <2>2
<1>4. /\ p \in Nat /\ k \in Nat /\ 1 <= k /\ one < p /\ one <= p /\ p # one /\ p + k <= e /\ one + 3 + k = e /\ e = Three(o) + 1
      /\ e \in Nat /\ one < e /\ p + k <= Three(o) + 1 /\ Three(o) \in Nat
  BY <1>3
<1>5. one = o.one /\ q = SetOp(o, o.one, name)
  OBVIOUS
<1> HIDE DEF one, e, p, k, q, name
<1>6. Clear(o, S, e, p, k)
  <2>1. /\ Good(o, S) /\ ~Over(o) /\ ~Adjustable(o, Two(o)) /\ ~Adjustable(o, Three(o))
        /\ Size(FirstOp(o)) = Width(FirstOp(o)) /\ Size(SecondOp(o)) = Width(SecondOp(o))
        /\ ThirdOp(o) # "NOTHING" /\ Size(ThirdOp(o)) = Width(ThirdOp(o))
        /\ FirstOp(o) \notin Jumping /\ SecondOp(o) \notin Jumping /\ ThirdOp(o) \notin Jumping
    BY <1>1, <1>2
  <2>2. /\ e = Three(o) + Size(ThirdOp(o)) /\ p \in Nat /\ k \in Nat /\ 1 <= k /\ o.one <= p /\ p + k <= e
        /\ p = o.one => ~LoopsTo(o, o.one) \/ ~Adjustable(o, o.one)
    BY <1>1, <1>2, <1>4, <1>5
  <2>3. \E z \in Nat : /\ p + k <= z + 1
                       /\ \A i \in DOMAIN o.func.except : o.func.except[i].start \notin (o.one + 1)..z
    BY <1>4
  <2> QED
    BY ONLY <2>1, <2>2, <2>3, ClearThree
<1>7. Edited(q, o, o.one, e) /\ OpAt(Code(q), o.one) = name
  BY <1>2, <1>3, <1>4, <1>5, OpWritten
<1>8. /\ Clear(o, S, e, p, k) /\ o.one < p /\ Edited(q, o, o.one, e) /\ r = Rewrite(q, p, k)
      /\ OpAt(Code(q), o.one) = name /\ name \notin Jumping /\ Size(name) = Width(name) /\ o.one + Width(name) + k = e
  BY <1>1, <1>2, <1>4, <1>5, <1>6, <1>7
<1>9. Good(r, After(S, o.one, e, k)) /\ r.failed = o.failed
  BY ONLY <1>8, WriteAndCut
<1> QED
  BY <1>9 DEF Kept

\* Where the search goes back to the first constant of a run.
LEMMA GoesBack ==
  ASSUME NEW cut, NEW T, Good(cut, T), cut.zero # -1, NEW r, r = [cut EXCEPT !.one = cut.zero]
  PROVE  Good(r, T) /\ r.failed = cut.failed
<1>1. DOMAIN cut = {"func", "important", "zero", "one", "failed", "aborted"}
  BY DEF Good, Shaped
<1>2. /\ r.func = cut.func /\ r.important = cut.important /\ r.zero = cut.zero /\ r.one = cut.zero /\ r.failed = cut.failed
      /\ DOMAIN r = DOMAIN cut
  BY <1>1
<1>3. cut.zero \in T /\ Seen(Code(cut), T, cut.zero) /\ Code(cut) \in Seq(Nat) /\ Framed(Code(cut), T)
  BY DEF Good
<1>4. cut.zero \in Nat
  BY <1>3, Addresses
<1>5. Shaped(r) /\ Code(r) = Code(cut)
  BY <1>2 DEF Good, Shaped, Code
<1> QED
  BY <1>2, <1>3, <1>4, <1>5 DEF Good

\* an integer constant that is divided by zero
ByZero(o) ==
  /\ Pair(o, "CONSTANT", "CONSTANT") /\ ThirdOp(o) = "DIVIDE"
  /\ Is(ConstantAt(o, o.one), "integer") /\ Is(ConstantAt(o, Two(o)), "integer") /\ ConstantAt(o, Two(o)).i = 0

\* An operation on two constants, or the division by zero that stops the program.
LEMMA FoldTwoKept ==
  ASSUME NEW o, NEW S, Good(o, S), ~Over(o), ~Adjustable(o, Two(o)), ~Adjustable(o, Three(o)),
         \A i \in DOMAIN o.func.except : o.func.except[i].start \notin (o.one + 1)..Three(o),
         o.zero # -1, NEW r \in FoldTwo(o)
  PROVE  Kept(r, o) \/ (r = [o EXCEPT !.failed = TRUE] /\ ByZero(o))
<1> DEFINE one == o.one
           e == one + 5
           p == Two(o)
           k == 3
           name == "CONSTANT"
<1>1. /\ FirstOp(o) = "CONSTANT" /\ SecondOp(o) = "CONSTANT"
      /\ \/ r = [o EXCEPT !.failed = TRUE] /\ ByZero(o)
         \/ \E value \in Folded(ThirdOp(o), ConstantAt(o, o.one), ConstantAt(o, Two(o))) :
              r = [Rewrite(Replace(o, value), Two(o), 3) EXCEPT !.one = o.zero]
  BY DEF FoldTwo, Pair, ByZero
<1> SUFFICES ASSUME NEW value \in Folded(ThirdOp(o), ConstantAt(o, o.one), ConstantAt(o, Two(o))),
                    r = [Rewrite(Replace(o, value), Two(o), 3) EXCEPT !.one = o.zero]
             PROVE  Kept(r, o)
  BY <1>1
<1>2. ThirdOp(o) \in {"ADD", "SUBTRACT", "MULTIPLY", "DIVIDE"} \cup BitOps
  BY DEF Folded
<1>3. /\ Size("CONSTANT") = 2 /\ Width("CONSTANT") = 2 /\ "CONSTANT" \notin Jumping
      /\ Size(ThirdOp(o)) = 1 /\ Width(ThirdOp(o)) = 1 /\ ThirdOp(o) \notin Jumping /\ ThirdOp(o) # "NOTHING"
  <2>1. Size("CONSTANT") = 2 /\ Width("CONSTANT") = 2 /\ Size(ThirdOp(o)) = 1 /\ Width(ThirdOp(o)) = 1
    BY <1>2, KnownSizes
  <2>2. "CONSTANT" \notin Jumping /\ ThirdOp(o) \notin Jumping /\ ThirdOp(o) # "NOTHING"
    BY <1>2 DEF Jumping, Forward, Backward, ConditionalJumps, BitOps
  <2> QED
    BY <2>1, <2>2
<1>4. one \in Nat /\ one \in S /\ p = one + 2 /\ Three(o) = one + 4 /\ Three(o) + 1 <= Len(Code(o)) /\ Len(Code(o)) \in Nat
  <2>1. Width(FirstOp(o)) = 2 /\ Size(FirstOp(o)) = 2 /\ Width(SecondOp(o)) = 2 /\ Size(SecondOp(o)) = 2
    BY <1>1, <1>3
  <2>2. /\ o.one \in Nat /\ o.one \in S /\ Two(o) = o.one + Width(FirstOp(o)) /\ Len(Code(o)) \in Nat
        /\ Three(o) = o.one + Width(FirstOp(o)) + Width(SecondOp(o))
        /\ ThirdOp(o) # "NOTHING" /\ Size(ThirdOp(o)) = Width(ThirdOp(o)) =>
             Three(o) + Width(ThirdOp(o)) <= Len(Code(o))
    BY <2>1, Around
  <2> QED
    BY <1>3, <2>1, <2>2
<1>5. /\ p \in Nat /\ k \in Nat /\ 1 <= k /\ one < p /\ one <= p /\ p # one /\ p + k <= e /\ one + 2 + k = e /\ e = Three(o) + 1
      /\ e \in Nat /\ one + 1 < e /\ e <= Len(Code(o)) /\ p + k <= Three(o) + 1 /\ Three(o) \in Nat
  BY <1>4
<1> DEFINE q == Replace(o, value)
           cut == Rewrite(q, p, k)
<1>6. one = o.one /\ q = Replace(o, value) /\ cut = Rewrite(q, p, k) /\ r = [cut EXCEPT !.one = o.zero]
  OBVIOUS
<1> HIDE DEF one, e, p, k, q, name, cut
<1>7. Clear(o, S, e, p, k)
  <2>1. /\ Good(o, S) /\ ~Over(o) /\ ~Adjustable(o, Two(o)) /\ ~Adjustable(o, Three(o))
        /\ Size(FirstOp(o)) = Width(FirstOp(o)) /\ Size(SecondOp(o)) = Width(SecondOp(o))
        /\ ThirdOp(o) # "NOTHING" /\ Size(ThirdOp(o)) = Width(ThirdOp(o))
        /\ FirstOp(o) \notin Jumping /\ SecondOp(o) \notin Jumping /\ ThirdOp(o) \notin Jumping
    BY <1>1, <1>3
  <2>2. /\ e = Three(o) + Size(ThirdOp(o)) /\ p \in Nat /\ k \in Nat /\ 1 <= k /\ o.one <= p /\ p + k <= e
        /\ p = o.one => ~LoopsTo(o, o.one) \/ ~Adjustable(o, o.one)
    BY <1>3, <1>5, <1>6
  <2>3. \E z \in Nat : /\ p + k <= z + 1
                       /\ \A i \in DOMAIN o.func.except : o.func.except[i].start \notin (o.one + 1)..z
    BY <1>5
  <2> QED
    BY ONLY <2>1, <2>2, <2>3, ClearThree
<1>8. Edited(q, o, o.one, e) /\ OpAt(Code(q), o.one) = name
  <2>1. Good(o, S) /\ o.one \in S /\ e \in Nat /\ o.one + 1 < e /\ e <= Len(Code(o)) /\ q = Replace(o, value)
    BY <1>4, <1>5, <1>6
  <2>2. Edited(q, o, o.one, e) /\ OpAt(Code(q), o.one) = FirstOp(o)
    BY ONLY <2>1, ReplaceFacts
  <2> QED
    BY <1>1, <2>2 DEF name
<1>9. /\ Clear(o, S, e, p, k) /\ o.one < p /\ Edited(q, o, o.one, e) /\ cut = Rewrite(q, p, k)
      /\ OpAt(Code(q), o.one) = name /\ name \notin Jumping /\ Size(name) = Width(name) /\ o.one + Width(name) + k = e
  BY <1>3, <1>5, <1>6, <1>7, <1>8 DEF name
<1>10. Good(cut, After(S, o.one, e, k)) /\ cut.failed = o.failed /\ cut.zero = o.zero
  BY ONLY <1>9, WriteAndCut
<1> DEFINE T == After(S, o.one, e, k)
<1>11. Good(cut, T) /\ cut.zero # -1 /\ r = [cut EXCEPT !.one = cut.zero]
  BY <1>6, <1>10
<1> HIDE DEF T
<1>12. Good(r, T) /\ r.failed = cut.failed
  BY ONLY <1>11, GoesBack
<1> QED
  BY <1>10, <1>12 DEF Kept

\* A rule that writes one instruction, no jump, and cuts nothing out.
LEMMA NothingCut ==
  ASSUME NEW o, NEW S, Good(o, S), NEW e, Region(Code(o), S, o.one, e),
         \A a \in S : o.one <= a /\ a < e => OpAt(Code(o), a) \notin Jumping,
         NEW r, Edited(r, o, o.one, e), NEW name, OpAt(Code(r), o.one) = name, name \notin Jumping,
         Size(name) = Width(name), o.one + Width(name) = e
  PROVE  Kept(r, o)
<1> DEFINE code == Code(o)  one == o.one  new == Code(r)  list == o.important  k == 0  T == After(S, one, e, k)
<1>1. /\ code \in Seq(Nat) /\ Framed(code, S) /\ Judged(code, S) /\ Lands(code, S) /\ Exact(list, code, S)
      /\ Ranged(o.func.except, code, S) /\ Good(o, S) /\ Region(code, S, one, e)
      /\ e \in S \cup {Len(code)} /\ one \in S /\ one < e
  BY DEF Good, Region
<1>2. /\ Shaped(r) /\ r.func.except = o.func.except /\ r.important = list
      /\ r.one = one /\ r.zero = o.zero /\ r.failed = o.failed
      /\ new \in Seq(Nat) /\ Len(new) = Len(code)
      /\ \A x \in Nat : x < one \/ e <= x => Byte(new, x) = Byte(code, x)
  BY DEF Edited
<1>3. \A a \in S : one <= a /\ a < e => OpAt(code, a) \notin Jumping /\ OpAt(code, a) # "JUMP"
  BY DEF Jumping, Forward
<1>4. OpAt(new, one) = name /\ name \notin Jumping /\ Size(name) = Width(name) /\ one + Width(name) = e
  OBVIOUS
<1> HIDE DEF code, one, new, list, T
<1>5. one \in Nat /\ e \in Nat /\ (\A a \in S : a \in Nat) /\ Len(code) \in Nat
  <2>1. Len(code) \in Nat /\ \A a \in S : a \in Nat
    BY <1>1, Addresses
  <2> QED
    BY <1>1, <2>1
<1>6. k = 0 /\ k \in Nat /\ one + k = one /\ one + k <= e /\ e - k = e /\ ~(one + k = e) /\ Len(new) = Len(code) - k
  BY <1>1, <1>2, <1>5
<1> HIDE DEF k
<1>7. Survives(code, S, code, one, e, k)
  BY <1>1, <1>5, <1>6, SurvivesNone
<1>8. Survives(code, S, new, one, e, k)
  <2>1. \A x \in Nat : x < one \/ e <= x + k => Byte(new, x) = Byte(code, x)
    BY <1>2, <1>6
  <2>2. code \in Seq(Nat) /\ Framed(code, S) /\ one \in S /\ e \in Nat /\ k \in Nat /\ one + k <= e
    BY <1>1, <1>5, <1>6
  <2> QED
    BY ONLY <1>7, <2>1, <2>2, SurvivesSame
<1>9. Replaces(code, S, new, one, e, k)
  BY <1>4, <1>6 DEF Replaces
<1>10. Exact(list, new, T)
  <2>1. list \in Seq(Views) /\ \A j \in DOMAIN list : list[j].index \in S /\ list[j].name = OpAt(code, list[j].index)
    BY <1>1 DEF Exact
  <2>2. ASSUME NEW j \in DOMAIN list PROVE ~(one <= list[j].index /\ list[j].index < e)
    <3>1. list[j].name \in Jumping
      <4>1. list[j] \in Views
        BY <2>1
      <4> QED
        BY <4>1 DEF Views
    <3> QED
      BY <1>3, <2>1, <3>1
  <2>3. ASSUME NEW j \in DOMAIN list PROVE list[j].index - k = list[j].index
    <3> DEFINE x == list[j].index
    <3>1. x \in Nat
      BY <1>5, <2>1
    <3> HIDE DEF x
    <3>2. x - k = x
      BY <1>6, <3>1
    <3> QED
      BY <3>2 DEF x
  <2>4. /\ code \in Seq(Nat) /\ Framed(code, S) /\ one \in S /\ e \in Nat /\ one < e /\ k \in Nat /\ one + k <= e
        /\ Survives(code, S, new, one, e, k) /\ T = After(S, one, e, k) /\ Exact(list, code, S)
        /\ list \in Seq(Views) /\ DOMAIN list = DOMAIN list
    BY <1>1, <1>5, <1>6, <1>8, <2>1 DEF T
  <2>5. /\ \A j \in DOMAIN list :
             /\ list[j].index < one => list[j].index = list[j].index /\ list[j].name = list[j].name
             /\ e <= list[j].index => list[j].index = list[j].index - k /\ list[j].name = list[j].name
             /\ one <= list[j].index /\ list[j].index < e =>
                  one + k < e /\ list[j].index = one /\ list[j].name = OpAt(new, one)
        /\ S \in SUBSET S /\ \A a \in S : a < one \/ e <= a => a \in S
        /\ one + k = e => e \in S
        /\ one + k < e /\ OpAt(new, one) \in Jumping =>
             \E j \in DOMAIN list : one <= list[j].index /\ list[j].index < e
        /\ \A i, j \in DOMAIN list :
             one <= list[i].index /\ list[i].index < e /\ one <= list[j].index /\ list[j].index < e => i = j
    BY <1>4, <1>6, <2>2, <2>3
  <2> QED
    BY ONLY <2>4, <2>5, Relisted
<1>11. Follow(r.func.except, o.func.except, one, k)
  BY <1>1, <1>2, <1>5, <1>6, RangesStay
<1>12. Good(r, T)
  <2> DEFINE p == one
  <2>1. /\ Good(o, S) /\ Region(Code(o), S, o.one, e) /\ k \in Nat /\ o.one + k <= e
        /\ p \in Nat /\ o.one <= p /\ p + k <= e
        /\ \A a \in S : o.one <= a /\ a < e => OpAt(Code(o), a) # "JUMP"
    BY <1>1, <1>3, <1>5, <1>6 DEF code, one
  <2>2. \A i \in DOMAIN o.func.except : o.func.except[i].start <= p \/ p + k <= o.func.except[i].start
    <3>1. \A i \in DOMAIN o.func.except : o.func.except[i].start \in Nat
      BY <1>1 DEF Ranged
    <3>2. \A x \in Nat : x <= one \/ one + k <= x
      BY <1>5, <1>6
    <3> QED
      BY <3>1, <3>2
  <2>3. /\ Shaped(r) /\ Code(r) \in Seq(Nat) /\ Len(Code(r)) = Len(Code(o)) - k
        /\ Survives(Code(o), S, Code(r), o.one, e, k) /\ Replaces(Code(o), S, Code(r), o.one, e, k)
        /\ T = After(S, o.one, e, k) /\ Exact(r.important, Code(r), T)
        /\ Follow(r.func.except, o.func.except, p, k)
        /\ r.one = o.one /\ r.zero = o.zero
    BY <1>2, <1>6, <1>8, <1>9, <1>10, <1>11 DEF code, one, new, T
  <2> HIDE DEF p
  <2> QED
    BY ONLY <2>1, <2>2, <2>3, Assembled
<1> QED
  BY <1>2, <1>12 DEF Kept

\* Three values are dropped by an instruction that has their number.
LEMMA PopThreeKept ==
  ASSUME NEW o, NEW S, Good(o, S), ~Over(o), ~Adjustable(o, Two(o)), NEW r \in PopThree(o)
  PROVE  Kept(r, o)
<1> DEFINE one == o.one
           e == one + 2
           x == one + 1
           three == 3
           name == "POP_N"
           half == SetOp(o, o.one, name)
<1>1. FirstOp(o) = "POP_TWO" /\ SecondOp(o) = "POP" /\ r = Set(half, x, three) /\ half = SetOp(o, o.one, name)
  BY DEF PopThree, Pair
<1>2. /\ Size("POP_TWO") = 1 /\ Width("POP_TWO") = 1 /\ "POP_TWO" \notin Jumping
      /\ Size("POP") = 1 /\ Width("POP") = 1 /\ "POP" \notin Jumping
      /\ Size(name) = 2 /\ Width(name) = 2 /\ name \notin Jumping /\ name \in Range(OpCodes)
  BY KnownSizes, KnownOps
<1>3. one \in Nat /\ one \in S /\ Three(o) = e /\ Three(o) <= Len(Code(o))
  <2>1. Width(FirstOp(o)) = 1 /\ Size(FirstOp(o)) = 1 /\ Width(SecondOp(o)) = 1 /\ Size(SecondOp(o)) = 1
    BY <1>1, <1>2
  <2>2. /\ o.one \in Nat /\ o.one \in S /\ Three(o) <= Len(Code(o))
        /\ Three(o) = o.one + Width(FirstOp(o)) + Width(SecondOp(o))
    BY <2>1, Around
  <2> QED
    BY <2>1, <2>2
<1>4. /\ e \in Nat /\ x \in Nat /\ three \in Nat /\ one < e /\ one <= x /\ x < e /\ x # one /\ one + 2 = e /\ e <= Len(Code(o))
      /\ one = o.one
  BY <1>3
<1> HIDE DEF one, e, x, three, half, name
<1>5. /\ Region(Code(o), S, o.one, e)
      /\ \A a \in S : o.one <= a /\ a < e => OpAt(Code(o), a) \notin Jumping
  <2>1. Size(FirstOp(o)) = Width(FirstOp(o)) /\ Size(SecondOp(o)) = Width(SecondOp(o))
    BY <1>1, <1>2
  <2>2. /\ Region(Code(o), S, o.one, e)
        /\ \A a \in S : o.one <= a /\ a < e => a = o.one \/ a = Two(o)
    BY <1>3, <2>1, RegionTwo
  <2> QED
    BY <1>1, <1>2, <2>2 DEF FirstOp, SecondOp
<1>6. Edited(half, o, one, e) /\ OpAt(Code(half), one) = name
  BY <1>1, <1>2, <1>3, <1>4, OpWritten
<1>7. Edited(r, o, one, e) /\ OpAt(Code(r), one) = name
  <2>1. /\ one \in Nat /\ e \in Nat /\ Edited(half, o, one, e) /\ e <= Len(Code(o))
        /\ x \in Nat /\ one <= x /\ x < e /\ three \in Nat /\ r = Set(half, x, three)
    BY <1>1, <1>3, <1>4, <1>6
  <2>2. Edited(r, o, one, e) /\ (x # one => OpAt(Code(r), one) = OpAt(Code(half), one))
    BY ONLY <2>1, ByteWritten
  <2> QED
    BY <1>4, <1>6, <2>2
<1>8. /\ Good(o, S) /\ Edited(r, o, o.one, e) /\ OpAt(Code(r), o.one) = name /\ name \notin Jumping
      /\ Size(name) = Width(name) /\ o.one + Width(name) = e
  BY <1>2, <1>4, <1>7
<1> QED
  BY ONLY <1>5, <1>8, NothingCut

\* A call whose value is returned.
LEMMA CallInTailKept ==
  ASSUME NEW o, NEW S, Good(o, S), ~Over(o), NEW r \in CallInTail(o)
  PROVE  Kept(r, o)
<1> DEFINE one == o.one
           e == Two(o)
           name == "TAIL_CALL"
<1>1. FirstOp(o) = "CALL" /\ r = SetOp(o, o.one, name)
  BY DEF CallInTail, Pair
<1>2. /\ Size("CALL") = 2 /\ Width("CALL") = 2 /\ "CALL" \notin Jumping
      /\ Size(name) = 2 /\ Width(name) = 2 /\ name \notin Jumping /\ name \in Range(OpCodes)
  BY KnownSizes, KnownOps
<1>3. Code(o) \in Seq(Nat) /\ Framed(Code(o), S) /\ Lands(Code(o), S) /\ FirstOp(o) = OpAt(Code(o), one)
  BY DEF Good, FirstOp
<1>4. /\ one \in S /\ e \in S /\ one \in Nat /\ e \in Nat /\ one < e /\ e = one + 2
      /\ \A a \in S : one < a => e <= a
  <2>1. Good(o, S) /\ ~Over(o) /\ one = o.one /\ e = Two(o)
    OBVIOUS
  <2> HIDE DEF one, e
  <2>2. /\ one \in S /\ e \in S /\ one \in Nat /\ e \in Nat /\ one < e
        /\ e = one + Size(FirstOp(o))
        /\ Size(FirstOp(o)) = Width(FirstOp(o)) => \A a \in S : one < a => e <= a
    BY ONLY <2>1, Window
  <2> QED
    BY <1>1, <1>2, <2>2
<1>5. one = o.one
  OBVIOUS
<1> HIDE DEF one, e, name
<1>6. \A a \in S : a \in Nat /\ (a <= one \/ e <= a)
  <2>1. \A a \in S : a \in Nat
    BY <1>3, Addresses
  <2> QED
    BY <1>4, <2>1
<1>7. Region(Code(o), S, one, e)
  BY <1>3, <1>4, <1>6 DEF Region, Lands
<1>8. \A a \in S : one <= a /\ a < e => OpAt(Code(o), a) \notin Jumping
  <2>1. \A a \in S : one <= a /\ a < e => a = one
    BY <1>4, <1>6
  <2> QED
    BY <1>1, <1>2, <1>3, <2>1
<1>9. Edited(r, o, one, e) /\ OpAt(Code(r), one) = name
  BY <1>1, <1>2, <1>4, <1>5, OpWritten
<1>10. /\ Good(o, S) /\ Region(Code(o), S, o.one, e)
       /\ \A a \in S : o.one <= a /\ a < e => OpAt(Code(o), a) \notin Jumping
       /\ Edited(r, o, o.one, e) /\ OpAt(Code(r), o.one) = name /\ name \notin Jumping
       /\ Size(name) = Width(name) /\ o.one + Width(name) = e
  BY <1>2, <1>4, <1>5, <1>7, <1>8, <1>9
<1> QED
  BY ONLY <1>10, NothingCut

-----------------------------------------------------------------------------
(* Rules about jumps *)

\* Nothing but the code and the list is changed.
Same(q, o) ==
  /\ Shaped(q) /\ q.func.except = o.func.except
  /\ q.one = o.one /\ q.zero = o.zero /\ q.failed = o.failed

\* relist is the list of what takes the place of a region with a listed jump, or none.
Relists(list, relist, new, one, e, k) ==
  /\ relist \in Seq(Views) /\ DOMAIN relist = DOMAIN list
  /\ \A j \in DOMAIN list :
       /\ list[j].index < one => relist[j].index = list[j].index /\ relist[j].name = list[j].name
       /\ e <= list[j].index => relist[j].index = list[j].index - k /\ relist[j].name = list[j].name
       /\ one <= list[j].index /\ list[j].index < e =>
            one + k < e /\ relist[j].index = one /\ relist[j].name = OpAt(new, one)
  /\ one + k < e /\ OpAt(new, one) \in Jumping =>
       \E j \in DOMAIN list : one <= list[j].index /\ list[j].index < e
  /\ \A i, j \in DOMAIN list :
       one <= list[i].index /\ list[i].index < e /\ one <= list[j].index /\ list[j].index < e => i = j

\* A rule that cuts bytes out of a region with a jump.
LEMMA JumpCut ==
  ASSUME NEW o, NEW S, NEW e, NEW p, NEW k, Cutting(o, S, e, p, k), NEW code, code = Code(o), NEW one, one = o.one,
         NEW q, Same(q, o), Prepared(code, S, one, e, Code(q), q.important), Cuts(code, S, one, e, p, k, Code(q), q.important),
         NEW cut, cut = Rewrite(q, p, k), NEW r, Same(r, cut), NEW new, new = Code(r),
         new \in Seq(Nat), Len(new) = Len(Code(cut)),
         \A x \in Nat : x < one \/ e <= x + k => Byte(new, x) = Byte(Code(cut), x),
         Replaces(code, S, new, one, e, k),
         NEW Q \in SUBSET S, \A a \in S : a < one \/ e <= a => a \in Q,
         NEW list, Exact(list, code, Q), Relists(list, r.important, new, one, e, k)
  PROVE  Kept(r, o)
<1> DEFINE T == After(S, one, e, k)
           except == o.func.except
<1>1. /\ code \in Seq(Nat) /\ Framed(code, S) /\ Region(code, S, one, e) /\ Good(o, S) /\ Ranged(except, code, S)
      /\ p \in Nat /\ k \in Nat /\ 1 <= k /\ one <= p /\ p + k <= e
      /\ \A a \in S : one <= a /\ a < e => OpAt(code, a) # "JUMP"
      /\ \A i \in DOMAIN except : except[i].start <= p \/ p + k <= except[i].start
  BY DEF Cutting, Good
<1>2. one \in S /\ one \in Nat /\ e \in Nat /\ one < e /\ one + k <= e
  <2>1. one \in S /\ e \in S \cup {Len(code)} /\ one < e
    BY <1>1 DEF Region
  <2>2. Len(code) \in Nat /\ \A a \in S : a \in Nat
    BY <1>1, Addresses
  <2>3. one \in Nat /\ e \in Nat
    BY <2>1, <2>2
  <2> QED
    BY <1>1, <2>1, <2>3
<1>3. Shaped(q) /\ q.func.except = except /\ q.one = one /\ q.zero = o.zero /\ q.failed = o.failed
  BY DEF Same
<1>4. Len(Code(cut)) = Len(code) - k /\ Survives(code, S, Code(cut), one, e, k)
  <2>1. /\ Cutting(o, S, e, p, k) /\ Shaped(q) /\ cut = Rewrite(q, p, k)
        /\ Prepared(Code(o), S, o.one, e, Code(q), q.important) /\ Cuts(Code(o), S, o.one, e, p, k, Code(q), q.important)
    BY <1>3
  <2>2. Len(Code(cut)) = Len(Code(o)) - k /\ Survives(Code(o), S, Code(cut), o.one, e, k)
    BY ONLY <2>1, CutEffect
  <2> QED
    BY <2>2
<1>5. /\ cut.func.except = [i \in DOMAIN except |-> MoveRange(except[i], p, k)]
      /\ cut.one = one /\ cut.zero = o.zero /\ cut.failed = o.failed
  <2>1. RewritesTo(Rewrite(q, p, k), q, p, k)
    BY ONLY <1>3, RewriteFields
  <2> QED
    BY <1>3, <2>1 DEF RewritesTo
<1>6. Shaped(r) /\ r.func.except = cut.func.except /\ r.one = one /\ r.zero = o.zero /\ r.failed = o.failed
  BY <1>5 DEF Same
<1>7. Survives(code, S, new, one, e, k)
  <2>1. /\ code \in Seq(Nat) /\ Framed(code, S) /\ one \in S /\ e \in Nat /\ k \in Nat /\ one + k <= e
        /\ \A x \in Nat : x < one \/ e <= x + k => Byte(new, x) = Byte(Code(cut), x)
    BY <1>1, <1>2
  <2> QED
    BY ONLY <1>4, <2>1, SurvivesSame
<1> HIDE DEF T
<1>8. Exact(r.important, new, T)
  <2> DEFINE relist == r.important
  <2>1. /\ code \in Seq(Nat) /\ Framed(code, S) /\ one \in S /\ e \in Nat /\ one < e /\ k \in Nat /\ one + k <= e
        /\ Survives(code, S, new, one, e, k) /\ T = After(S, one, e, k)
        /\ one + k = e => e \in S
        /\ Q \in SUBSET S /\ \A a \in S : a < one \/ e <= a => a \in Q
        /\ Exact(list, code, Q)
    BY <1>1, <1>2, <1>7 DEF Replaces, T
  <2>2. Relists(list, relist, new, one, e, k)
    OBVIOUS
  <2> HIDE DEF relist
  <2>3. /\ relist \in Seq(Views) /\ DOMAIN relist = DOMAIN list
        /\ \A j \in DOMAIN list :
             /\ list[j].index < one => relist[j].index = list[j].index /\ relist[j].name = list[j].name
             /\ e <= list[j].index => relist[j].index = list[j].index - k /\ relist[j].name = list[j].name
             /\ one <= list[j].index /\ list[j].index < e =>
                  one + k < e /\ relist[j].index = one /\ relist[j].name = OpAt(new, one)
        /\ one + k < e /\ OpAt(new, one) \in Jumping =>
             \E j \in DOMAIN list : one <= list[j].index /\ list[j].index < e
        /\ \A i, j \in DOMAIN list :
             one <= list[i].index /\ list[i].index < e /\ one <= list[j].index /\ list[j].index < e => i = j
    BY <2>2 DEF Relists
  <2>4. Exact(relist, new, T)
    BY ONLY <2>1, <2>3, Relisted
  <2> QED
    BY <2>4 DEF relist
<1>9. Follow(r.func.except, except, p, k)
  <2> DEFINE moved == r.func.except
  <2>1. moved = [i \in DOMAIN except |-> MoveRange(except[i], p, k)]
    BY <1>5, <1>6
  <2>2. Ranged(except, code, S)
    BY <1>1
  <2> HIDE DEF moved, except
  <2>3. Follow(moved, except, p, k)
    BY ONLY <2>1, <2>2, RangesFollow
  <2> QED
    BY <2>3 DEF moved
<1>10. Good(r, T)
  <2>1. /\ Good(o, S) /\ Region(Code(o), S, o.one, e) /\ k \in Nat /\ o.one + k <= e
        /\ p \in Nat /\ o.one <= p /\ p + k <= e
        /\ \A a \in S : o.one <= a /\ a < e => OpAt(Code(o), a) # "JUMP"
        /\ \A i \in DOMAIN o.func.except : o.func.except[i].start <= p \/ p + k <= o.func.except[i].start
    BY <1>1, <1>2
  <2>2. /\ Shaped(r) /\ Code(r) \in Seq(Nat) /\ Len(Code(r)) = Len(Code(o)) - k
        /\ Survives(Code(o), S, Code(r), o.one, e, k) /\ Replaces(Code(o), S, Code(r), o.one, e, k)
        /\ T = After(S, o.one, e, k) /\ Exact(r.important, Code(r), T)
        /\ Follow(r.func.except, o.func.except, p, k)
        /\ r.one = o.one /\ r.zero = o.zero
    BY <1>4, <1>6, <1>7, <1>8, <1>9 DEF T
  <2> QED
    BY ONLY <2>1, <2>2, Assembled
<1> QED
  BY <1>6, <1>10 DEF Kept

\* A jump of the code is listed once.
LEMMA OneListed ==
  ASSUME NEW o, NEW code, NEW S, Exact(o.important, code, S), NEW a \in S, OpAt(code, a) \in Jumping
  PROVE  \E m \in DOMAIN o.important : /\ Listed(o, a) = {m} /\ Min(Listed(o, a)) = m
                                       /\ o.important[m].index = a /\ o.important[m].name = OpAt(code, a)
<1>1. PICK m \in DOMAIN o.important : o.important[m].index = a
  BY DEF Exact
<1>2. Listed(o, a) = {m}
  BY <1>1 DEF Listed, Exact
<1>3. m \in Nat
  <2>1. o.important \in Seq(Views)
    BY DEF Exact
  <2> QED
    BY <2>1
<1>4. Min({m}) = m
  BY <1>3 DEF Min
<1> QED
  BY <1>1, <1>2, <1>4 DEF Exact

\* The fields of an optimizer after a listed jump becomes another one: half has its code.
MovesTo(r, half, m, name, to) ==
  /\ Same(r, half) /\ Code(r) = Code(half)
  /\ r.important = [half.important EXCEPT ![m] = [index |-> to, name |-> name]]

\* Move changes the instruction and the list.
LEMMA MoveFields ==
  ASSUME NEW o, NEW index, NEW m \in DOMAIN o.important, Listed(o, index) = {m}, Min(Listed(o, index)) = m,
         NEW name, NEW to, NEW half, half = SetOp(o, to, name), Shaped(half), half.important = o.important,
         NEW r, r = Move(o, index, name, to)
  PROVE  MovesTo(r, half, m, name, to)
<1>1. r = [half EXCEPT !.important[m] = [index |-> to, name |-> name]]
  BY DEF Move
<1>2. DOMAIN half = {"func", "important", "zero", "one", "failed", "aborted"}
  BY DEF Shaped
<1>3. /\ DOMAIN r = DOMAIN half /\ r.func = half.func /\ r.zero = half.zero /\ r.one = half.one /\ r.failed = half.failed
      /\ r.important = [half.important EXCEPT ![m] = [index |-> to, name |-> name]]
  BY <1>1, <1>2
<1> QED
  BY <1>3 DEF MovesTo, Same, Shaped, Code

\* The list of a region with one jump, the m-th: MoveView moves the others.
Relisting(relist, list, m, one, name, p, k) ==
  relist = [j \in DOMAIN list |-> IF j = m THEN [index |-> one, name |-> name] ELSE MoveView(list[j], p, k)]

\* Such a list is exact.
LEMMA RelistOne ==
  ASSUME NEW code \in Seq(Nat), NEW S, Framed(code, S), NEW list, Exact(list, code, S),
         NEW one \in Nat, NEW e \in Nat, NEW p \in Nat, NEW k \in Nat, one <= p, p + k <= e, one + k < e,
         NEW m \in DOMAIN list, NEW a, list[m].index = a, one <= a, a < e,
         \A b \in S : one <= b /\ b < e /\ OpAt(code, b) \in Jumping => b = a,
         NEW new, OpAt(new, one) \in Jumping, NEW relist,
         Relisting(relist, list, m, one, OpAt(new, one), p, k)
  PROVE  Relists(list, relist, new, one, e, k)
<1>1. /\ list \in Seq(Views) /\ \A j \in DOMAIN list : list[j].index \in S /\ list[j].name = OpAt(code, list[j].index)
      /\ \A i, j \in DOMAIN list : list[i].index = list[j].index => i = j
  BY DEF Exact
<1>0. /\ DOMAIN relist = DOMAIN list
      /\ relist[m] = [index |-> one, name |-> OpAt(new, one)]
      /\ \A j \in DOMAIN list : j # m => relist[j] = MoveView(list[j], p, k)
  BY DEF Relisting
<1>2. DOMAIN list = 1..Len(list) /\ Len(list) \in Nat /\ \A j \in DOMAIN list : list[j] \in Views
  BY <1>1
<1>3. \A j \in DOMAIN list : list[j].name \in Jumping /\ list[j].index \in Nat
  BY <1>2 DEF Views
<1>4. \A j \in DOMAIN list : one <= list[j].index /\ list[j].index < e => j = m
  <2> TAKE j \in DOMAIN list
  <2> HAVE one <= list[j].index /\ list[j].index < e
  <2>1. list[j].index = a
    BY <1>1, <1>3
  <2> QED
    BY <1>1, <2>1
<1>5. relist[m] \in Views
  BY <1>0 DEF Views
<1>6. ASSUME NEW j \in DOMAIN list, j # m
      PROVE  /\ relist[j] \in Views
             /\ list[j].index < one => relist[j].index = list[j].index /\ relist[j].name = list[j].name
             /\ e <= list[j].index => relist[j].index = list[j].index - k /\ relist[j].name = list[j].name
  <2> DEFINE v == list[j]
  <2>1. v \in Views /\ relist[j] = MoveView(v, p, k) /\ ~(one <= v.index /\ v.index < e)
    BY <1>0, <1>2, <1>4, <1>6
  <2> HIDE DEF v
  <2>2. v.index \in Nat /\ v.name \in Jumping /\ DOMAIN v = {"index", "name"}
    BY <2>1 DEF Views
  <2> DEFINE x == v.index
  <2>3. x \in Nat /\ ~(one <= x /\ x < e)
    BY <2>1, <2>2
  <2>4. x = v.index
    OBVIOUS
  <2> HIDE DEF x
  <2>5. CASE x < one
    <3>1. ~(x >= p) /\ ~(e <= x)
      BY <2>3, <2>5
    <3>2. relist[j] = v
      BY <2>1, <2>4, <3>1 DEF MoveView
    <3> QED
      BY <2>1, <2>4, <3>1, <3>2 DEF v
  <2>6. CASE e <= x
    <3> DEFINE y == x - k
    <3>1. x >= p /\ ~(x < one) /\ y \in Nat
      BY <2>3, <2>6
    <3>2. relist[j] = [v EXCEPT !.index = @ - k]
      BY <2>1, <2>4, <3>1 DEF MoveView
    <3>3. relist[j] = [v EXCEPT !.index = y]
      BY <2>4, <3>2
    <3>4. y = x - k
      OBVIOUS
    <3> HIDE DEF y
    <3>5. relist[j].index = y /\ relist[j].name = v.name /\ relist[j] \in Views
      BY <2>2, <3>1, <3>3 DEF Views
    <3> QED
      BY <2>4, <3>1, <3>4, <3>5 DEF v
  <2> QED
    BY <2>3, <2>5, <2>6
<1>7. relist \in Seq(Views)
  <2>1. \A j \in 1..Len(list) : relist[j] \in Views
    BY <1>2, <1>5, <1>6
  <2>2. relist \in [1..Len(list) -> Views]
    BY <1>2, <2>1 DEF Relisting
  <2> QED
    BY <1>2, <2>2
<1>8. relist[m].index = one /\ relist[m].name = OpAt(new, one) /\ ~(a < one) /\ ~(e <= a)
  <2>1. a \in Nat
    BY <1>3
  <2> QED
    BY <1>0, <2>1
<1>9. \A j \in DOMAIN list :
        /\ list[j].index < one => relist[j].index = list[j].index /\ relist[j].name = list[j].name
        /\ e <= list[j].index => relist[j].index = list[j].index - k /\ relist[j].name = list[j].name
        /\ one <= list[j].index /\ list[j].index < e =>
             one + k < e /\ relist[j].index = one /\ relist[j].name = OpAt(new, one)
  BY <1>3, <1>4, <1>6, <1>8
<1>10. \E j \in DOMAIN list : one <= list[j].index /\ list[j].index < e
  OBVIOUS
<1> QED
  BY <1>0, <1>4, <1>7, <1>9, <1>10 DEF Relists

\* Where a jump of two bytes leads, told by its bytes.
LEMMA SameShort ==
  ASSUME NEW c, NEW d, NEW x, NEW y, Byte(c, x) = Byte(d, y), Byte(c, x + 1) = Byte(d, y + 1)
  PROVE  Short(c, x) = Short(d, y)
BY DEF Short

\* The distance of a jump is a number.
LEMMA ShortFacts ==
  ASSUME NEW code \in Seq(Nat), NEW x
  PROVE  Short(code, x) \in Nat
<1>1. Byte(code, x) \in Nat /\ Byte(code, x + 1) \in Nat
  BY ByteFacts
<1> QED
  BY <1>1 DEF Short

\* A test and a jump become one jump.
LEMMA JumpTaken ==
  ASSUME NEW o, NEW S, Good(o, S), ~Over(o), ~Adjustable(o, Two(o)), ~Adjustable(o, o.one),
         Width(FirstOp(o)) = 1, Size(FirstOp(o)) = 1, FirstOp(o) \notin Jumping,
         SecondOp(o) \in {"JUMP_IF_TRUE", "JUMP_IF_FALSE"},
         NEW name \in Range(OpCodes), name \in Forward, Width(name) = 3, Size(name) = 3,
         NEW r, r = Update(Rewrite(o, o.one, 1), o.one, name)
  PROVE  Kept(r, o)
<1> DEFINE code == Code(o)  one == o.one  two == Two(o)  e == one + 4  p == one  k == 1  f == e - k
           list == o.important
           cut == Rewrite(o, p, k)
<1>1. /\ Width(SecondOp(o)) = 3 /\ Size(SecondOp(o)) = 3 /\ SecondOp(o) \in Forward /\ SecondOp(o) \in Jumping
      /\ SecondOp(o) # "JUMP" /\ SecondOp(o) = OpAt(code, two) /\ FirstOp(o) = OpAt(code, one)
      /\ "JUMP" \in Jumping /\ {"LOOP", "INCREMENT_LOOP"} \subseteq Jumping
  <2>1. Width(SecondOp(o)) = 3 /\ Size(SecondOp(o)) = 3
    BY KnownSizes DEF ConditionalJumps
  <2> QED
    BY <2>1 DEF Jumping, Forward, Backward, ConditionalJumps, SecondOp, FirstOp
<1>2. one \in Nat /\ one \in S /\ two \in S /\ two = one + 1 /\ Three(o) = e
  <2>1. /\ o.one \in Nat /\ o.one \in S /\ Two(o) \in S /\ Two(o) = o.one + Width(FirstOp(o))
        /\ Three(o) = o.one + Width(FirstOp(o)) + Width(SecondOp(o))
    BY <1>1, Around
  <2> QED
    BY <1>1, <2>1
<1>3. /\ code \in Seq(Nat) /\ Framed(code, S) /\ Lands(code, S) /\ Exact(list, code, S) /\ Shaped(o)
  BY DEF Good
<1>4. /\ Region(code, S, one, e)
      /\ \A a \in S : one <= a /\ a < e => a = one \/ a = two
  BY <1>1, <1>2, RegionTwo
<1>5. /\ e \in Nat /\ p \in Nat /\ k \in Nat /\ 1 <= k /\ one <= p /\ p + k <= e /\ k = 1 /\ p = one /\ f = one + 3 /\ f \in Nat
      /\ one + k < e /\ ~(one + k = e) /\ f = e - k /\ one <= two /\ two < e /\ one < f /\ ~(two < p) /\ two + 3 = e /\ p <= two
  BY <1>2
<1>6. cut = Rewrite(o, p, k) /\ r = Move(cut, one, name, one) /\ list = o.important /\ code = Code(o) /\ one = o.one /\ two = Two(o)
  BY DEF Update
<1>7. \A a \in S : a \in Nat
  BY <1>3, Addresses
<1> HIDE DEF code, one, two, e, p, k, f, list, cut
<1>8. \A a \in S : one <= a /\ a < e => OpAt(code, a) # "JUMP"
  BY <1>1, <1>4
<1>9. Cutting(o, S, e, p, k)
  <2>1. \A i \in DOMAIN o.func.except : o.func.except[i].start <= p \/ p + k <= o.func.except[i].start
    BY <1>2, <1>5, WholeRanges
  <2> QED
    BY <1>4, <1>5, <1>6, <1>8, <2>1 DEF Cutting
<1>10. PICK m \in DOMAIN list : list[m].index = two /\ list[m].name = SecondOp(o)
  BY <1>1, <1>2, <1>3 DEF Exact
<1>11. \A j \in DOMAIN list : one <= list[j].index /\ list[j].index < e => j = m
  <2> TAKE j \in DOMAIN list
  <2> HAVE one <= list[j].index /\ list[j].index < e
  <2>1. list[j].index \in S /\ list[j] \in Views /\ list[j].name = OpAt(code, list[j].index)
    BY <1>3 DEF Exact
  <2>2. list[j].index = one \/ list[j].index = two
    BY <1>4, <2>1
  <2>3. list[j].name \in Jumping
    BY <2>1 DEF Views
  <2>4. list[j].index = two
    BY <1>1, <2>1, <2>2, <2>3
  <2> QED
    BY <1>3, <1>10, <2>4 DEF Exact
<1>12. Prepared(code, S, one, e, code, list)
  BY <1>3, <1>11 DEF Prepared, Exact
<1>13. Cuts(code, S, one, e, p, k, code, list)
  <2>1. \A a \in S : OpAt(code, a) \in {"LOOP", "INCREMENT_LOOP"} => LeadsTo(code, a) # one
    BY <1>1, <1>6, NotLedTo
  <2>2. ~Crosses(code, list[m], p)
    BY <1>1, <1>5, <1>10 DEF Crosses
  <2>3. list[m].index + Size(list[m].name) <= e
    BY <1>1, <1>5, <1>10
  <2> QED
    BY <1>5, <1>11, <2>1, <2>2, <2>3 DEF Cuts
<1>14. /\ Code(cut) \in Seq(Nat) /\ Len(Code(cut)) = Len(code) - k
       /\ \A x \in Nat : p <= x /\ x + k < e => Byte(Code(cut), x) = Byte(code, x + k)
  <2>1. /\ Cutting(o, S, e, p, k) /\ Shaped(o) /\ cut = Rewrite(o, p, k)
        /\ Prepared(Code(o), S, o.one, e, Code(o), o.important) /\ Cuts(Code(o), S, o.one, e, p, k, Code(o), o.important)
    BY <1>3, <1>6, <1>9, <1>12, <1>13
  <2>2. /\ Code(cut) \in Seq(Nat) /\ Len(Code(cut)) = Len(Code(o)) - k
        /\ \A x \in Nat : p <= x /\ x + k < e => Byte(Code(cut), x) = Byte(Code(o), x + k)
    BY ONLY <2>1, CutEffect
  <2> QED
    BY <1>6, <2>2
<1>15. /\ Shaped(cut) /\ cut.important = [j \in DOMAIN list |-> MoveView(list[j], p, k)]
  <2>1. RewritesTo(Rewrite(o, p, k), o, p, k)
    BY ONLY <1>3, RewriteFields
  <2> QED
    BY <1>6, <2>1 DEF RewritesTo
<1>16. Listed(cut, one) = {m} /\ Min(Listed(cut, one)) = m /\ m \in DOMAIN cut.important
  <2>1. DOMAIN cut.important = DOMAIN list /\ \A j \in DOMAIN list : cut.important[j] = MoveView(list[j], p, k)
    BY <1>15
  <2>2. \A j \in DOMAIN list : list[j] \in Views /\ list[j].index \in S
    BY <1>3 DEF Exact
  <2>3. ASSUME NEW j \in DOMAIN list PROVE cut.important[j].index = one <=> j = m
    <3> DEFINE v == list[j]
               x == v.index
               y == x - k
    <3>1. v \in Views /\ x \in Nat /\ cut.important[j] = MoveView(v, p, k) /\ DOMAIN v = {"index", "name"}
      BY <1>7, <2>1, <2>2 DEF Views
    <3>2. x >= p => MoveView(v, p, k).index = y
      BY <3>1 DEF MoveView
    <3>3. ~(x >= p) => MoveView(v, p, k).index = x
      BY DEF MoveView
    <3>4. y = x - k /\ (j = m => x = two) /\ (one <= x /\ x < e => j = m)
      BY <1>10, <1>11
    <3> HIDE DEF v, x, y
    <3>5. two = one + 1
      BY <1>2
    <3>6. CASE x >= p
      <4>1. cut.important[j].index = y
        BY <3>1, <3>2, <3>6
      <4>2. y = one <=> x = two
        BY <1>2, <1>5, <3>1, <3>4, <3>5
      <4>3. x = two => one <= x /\ x < e
        BY <1>5
      <4> QED
        BY <3>4, <4>1, <4>2, <4>3
    <3>7. CASE ~(x >= p)
      <4>1. cut.important[j].index = x /\ x # one /\ x # two
        BY <1>2, <1>5, <3>1, <3>3, <3>7
      <4> QED
        BY <3>4, <4>1
    <3> QED
      BY <3>6, <3>7
  <2>4. Listed(cut, one) = {m}
    BY <2>1, <2>3 DEF Listed
  <2>5. m \in Nat
    BY <1>3 DEF Exact
  <2>6. Min({m}) = m
    BY <2>5 DEF Min
  <2> QED
    BY <2>1, <2>4, <2>6
<1> DEFINE half == SetOp(cut, one, name)
<1>17. half = SetOp(cut, one, name)
  OBVIOUS
<1> HIDE DEF half
<1>18. f <= Len(Code(cut)) /\ one < Len(Code(cut)) /\ Len(Code(cut)) \in Nat
  <2>1. e \in S \cup {Len(code)} /\ Len(code) \in Nat /\ \A a \in S : a < Len(code)
    BY <1>3, <1>4, Addresses DEF Region
  <2> DEFINE n == Len(code)
             z == Len(Code(cut))
  <2>2. n \in Nat /\ e <= n /\ z = n - k
    BY <1>5, <1>7, <1>14, <2>1
  <2> HIDE DEF n, z
  <2>3. f <= z /\ one < z /\ z \in Nat
    BY <1>2, <1>5, <2>2
  <2> QED
    BY <2>3 DEF z
<1>19. Edited(half, cut, one, f) /\ OpAt(Code(half), one) = name
  <2> DEFINE at == one
             g == f
  <2>1. /\ Shaped(cut) /\ Code(cut) \in Seq(Nat) /\ at \in Nat /\ at < Len(Code(cut)) /\ g \in Nat /\ at < g
        /\ name \in Range(OpCodes) /\ half = SetOp(cut, at, name)
    BY <1>2, <1>5, <1>14, <1>15, <1>17, <1>18
  <2> HIDE DEF at, g, cut
  <2>2. Edited(half, cut, at, g) /\ OpAt(Code(half), at) = name
    BY ONLY <2>1, NameWritten
  <2> QED
    BY <2>2 DEF at, g
<1>20. /\ Shaped(half) /\ half.func.except = cut.func.except /\ half.important = cut.important
       /\ half.one = cut.one /\ half.zero = cut.zero /\ half.failed = cut.failed
       /\ Code(half) \in Seq(Nat) /\ Len(Code(half)) = Len(Code(cut))
       /\ \A x \in Nat : x < one \/ f <= x => Byte(Code(half), x) = Byte(Code(cut), x)
  BY <1>19 DEF Edited
<1>21. /\ Same(r, half) /\ Code(r) = Code(half)
       /\ r.important = [cut.important EXCEPT ![m] = [index |-> one, name |-> name]]
  <2> DEFINE at == one
  <2>1. /\ m \in DOMAIN cut.important /\ Listed(cut, at) = {m} /\ Min(Listed(cut, at)) = m
        /\ half = SetOp(cut, at, name) /\ Shaped(half) /\ half.important = cut.important
        /\ r = Move(cut, at, name, at)
    BY <1>6, <1>16, <1>17, <1>20
  <2> HIDE DEF at, cut
  <2>2. MovesTo(r, half, m, name, at)
    BY ONLY <2>1, MoveFields
  <2> QED
    BY <1>20, <2>2 DEF MovesTo, at
<1> DEFINE new == Code(r)
           relist == r.important
<1>22. Same(r, cut)
  BY <1>20, <1>21 DEF Same
<1>23. /\ new \in Seq(Nat) /\ Len(new) = Len(Code(cut)) /\ OpAt(new, one) = name
       /\ \A x \in Nat : x < one \/ e <= x + k => Byte(new, x) = Byte(Code(cut), x)
  <2>1. \A x \in Nat : e <= x + k => f <= x
    BY <1>2, <1>5
  <2> QED
    BY <1>19, <1>20, <1>21, <2>1
<1>24. Short(new, one + 1) = Short(code, two + 1)
  <2> DEFINE x == one + 1
             y == one + 2
             c == Code(cut)
             h == Code(half)
  <2>0. /\ x \in Nat /\ y \in Nat /\ p <= x /\ p <= y /\ x + k < e /\ y + k < e /\ x # one /\ y # one /\ one <= x /\ one <= y
        /\ y = x + 1 /\ x + k = two + 1 /\ y + k = two + 1 + 1
    BY <1>2, <1>5
  <2>1. Byte(c, x) = Byte(code, two + 1) /\ Byte(c, y) = Byte(code, two + 1 + 1)
    BY <1>14, <2>0
  <2>2. /\ \A z \in Nat : z # one => Byte(h, z) = Byte(c, z)
    <3> DEFINE byte == Op[name]
               at == one
    <3>1. /\ Shaped(cut) /\ Code(cut) \in Seq(Nat) /\ at \in 0..(Len(Code(cut)) - 1) /\ byte \in Nat
          /\ half = Set(cut, at, byte)
      BY <1>2, <1>14, <1>15, <1>17, <1>18, OpBytes DEF SetOp
    <3> HIDE DEF byte, at
    <3>2. \A z \in Nat : Byte(Code(half), z) = IF z = at THEN byte ELSE Byte(Code(cut), z)
      BY <3>1, SetFacts
    <3> QED
      BY <3>2 DEF at
  <2>3. Byte(new, x) = Byte(c, x) /\ Byte(new, x + 1) = Byte(c, y)
    BY <1>21, <2>0, <2>2
  <2> HIDE DEF c, h, new, y
  <2>4. Byte(new, x) = Byte(code, two + 1) /\ Byte(new, x + 1) = Byte(code, two + 1 + 1)
    BY <2>1, <2>3
  <2> QED
    BY <2>4, SameShort
<1>25. Replaces(code, S, new, one, e, k)
  <2> DEFINE t == LeadsTo(code, two)
             s == Short(code, two + 1)
  <2>1. t \in S /\ Short(code, two + 3 - 2) <= ShortMax /\ t = two + 3 + Short(code, two + 3 - 2)
    BY <1>1, <1>2, <1>3 DEF Lands, LeadsTo
  <2>2. two + 3 - 2 = two + 1 /\ one + 3 - 2 = one + 1
    BY <1>2
  <2>3. s \in Nat
    BY <1>3, ShortFacts
  <2>4. t = two + 3 + s /\ s <= ShortMax
    BY <2>1, <2>2
  <2>5. LeadsTo(new, one) = one + 3 + s
    BY <1>23, <1>24, <2>2 DEF LeadsTo
  <2>6. Short(new, one + Width(name) - 2) <= ShortMax
    BY <1>24, <2>2, <2>4
  <2> HIDE DEF t, s
  <2>7. e <= t /\ ~(t <= one) /\ one + 3 + s = t - k
    BY <1>2, <1>5, <2>3, <2>4
  <2>8. LeadsTo(new, one) = Moved(t, one, k)
    BY <2>5, <2>7 DEF Moved
  <2>9. name \notin Backward
    BY DEF Forward, Backward, ConditionalJumps
  <2>10. one + Width(name) = e - k
    BY <1>2, <1>5
  <2> HIDE DEF new
  <2> QED
    BY <1>5, <1>23, <2>1, <2>6, <2>7, <2>8, <2>9, <2>10 DEF Replaces
<1>26. Relists(list, relist, new, one, e, k)
  <2> DEFINE a == two
  <2>1. Relisting(relist, list, m, one, OpAt(new, one), p, k)
    BY <1>15, <1>21, <1>23 DEF Relisting
  <2>2. /\ code \in Seq(Nat) /\ Framed(code, S) /\ Exact(list, code, S)
        /\ one \in Nat /\ e \in Nat /\ p \in Nat /\ k \in Nat /\ one <= p /\ p + k <= e /\ one + k < e
        /\ m \in DOMAIN list /\ list[m].index = a /\ one <= a /\ a < e
    BY <1>2, <1>3, <1>5, <1>10
  <2>3. \A b \in S : one <= b /\ b < e /\ OpAt(code, b) \in Jumping => b = a
    BY <1>1, <1>4
  <2>4. OpAt(new, one) \in Jumping
    BY <1>23 DEF Jumping
  <2> HIDE DEF a, new, relist
  <2> QED
    BY ONLY <2>1, <2>2, <2>3, <2>4, RelistOne
<1> HIDE DEF new, relist
<1>27. /\ Cutting(o, S, e, p, k) /\ code = Code(o) /\ one = o.one
       /\ Same(o, o) /\ Prepared(code, S, one, e, Code(o), o.important) /\ Cuts(code, S, one, e, p, k, Code(o), o.important)
       /\ cut = Rewrite(o, p, k) /\ Same(r, cut) /\ new = Code(r)
  BY <1>3, <1>6, <1>9, <1>12, <1>13, <1>22 DEF Same, new
<1>28. /\ new \in Seq(Nat) /\ Len(new) = Len(Code(cut))
       /\ \A x \in Nat : x < one \/ e <= x + k => Byte(new, x) = Byte(Code(cut), x)
       /\ Replaces(code, S, new, one, e, k)
       /\ S \in SUBSET S /\ \A a \in S : a < one \/ e <= a => a \in S
       /\ Exact(list, code, S) /\ Relists(list, r.important, new, one, e, k)
  BY <1>3, <1>23, <1>25, <1>26 DEF relist
<1> QED
  BY ONLY <1>27, <1>28, JumpCut, ZenonT(60)

\* A jump is taken off the list.
LEMMA Unlisted ==
  ASSUME NEW code, NEW S, NEW list, Exact(list, code, S), NEW m \in DOMAIN list, NEW a, list[m].index = a,
         NEW rest, rest = RemoveAt(list, m), NEW Q, Q = S \ {a}
  PROVE  Exact(rest, code, Q)
<1> DEFINE n == Len(list)
<1>0. /\ list \in Seq(Views)
      /\ \A j \in DOMAIN list : list[j].index \in S /\ list[j].name = OpAt(code, list[j].index)
      /\ \A b \in S : OpAt(code, b) \in Jumping => \E j \in DOMAIN list : list[j].index = b
      /\ \A i, j \in DOMAIN list : list[i].index = list[j].index => i = j
  BY DEF Exact
<1>11. n \in Nat /\ DOMAIN list = 1..n
  BY <1>0
<1> HIDE DEF n
<1>1. /\ list \in Seq(Views) /\ n \in Nat /\ DOMAIN list = 1..n /\ m \in 1..n
      /\ \A j \in 1..n : list[j].index \in S /\ list[j].name = OpAt(code, list[j].index)
      /\ \A b \in S : OpAt(code, b) \in Jumping => \E j \in 1..n : list[j].index = b
      /\ \A i, j \in 1..n : list[i].index = list[j].index => i = j
  BY <1>0, <1>11
<1>2. /\ rest \in Seq(Views) /\ Len(rest) = n - 1
      /\ \A j \in 1..(n - 1) : rest[j] = IF j < m THEN list[j] ELSE list[j + 1]
  <2>1. list \in Seq(Views) /\ m \in DOMAIN list
    BY <1>0
  <2>2. /\ RemoveAt(list, m) \in Seq(Views) /\ Len(RemoveAt(list, m)) = Len(list) - 1
        /\ \A j \in 1..(Len(list) - 1) : RemoveAt(list, m)[j] = IF j < m THEN list[j] ELSE list[j + 1]
    BY ONLY <2>1, RemoveFacts
  <2> QED
    BY <2>2 DEF n
<1> DEFINE s(j) == IF j < m THEN j ELSE j + 1
<1>3. \A j \in 1..(n - 1) : s(j) \in 1..n /\ s(j) # m
  BY <1>1
<1>4. \A i, j \in 1..(n - 1) : s(i) = s(j) => i = j
  BY <1>1
<1>5. \A j \in 1..n : j # m => \E i \in 1..(n - 1) : s(i) = j
  <2> TAKE j \in 1..n
  <2> HAVE j # m
  <2>1. CASE j < m
    <3>1. j \in 1..(n - 1) /\ s(j) = j
      BY <1>1, <2>1
    <3> QED
      BY <3>1
  <2>2. CASE ~(j < m)
    <3>1. j - 1 \in 1..(n - 1) /\ s(j - 1) = j
      BY <1>1, <2>2
    <3> QED
      BY <3>1
  <2> QED
    BY <2>1, <2>2
<1>6. \A j \in 1..(n - 1) : rest[j] = list[s(j)]
  BY <1>2
<1>7. DOMAIN rest = 1..(n - 1)
  BY <1>2
<1> HIDE DEF s
<1>8. \A j \in DOMAIN rest : rest[j].index \in Q /\ rest[j].name = OpAt(code, rest[j].index)
  BY <1>1, <1>3, <1>6, <1>7
<1>9. \A b \in Q : OpAt(code, b) \in Jumping => \E j \in DOMAIN rest : rest[j].index = b
  <2> TAKE b \in Q
  <2> HAVE OpAt(code, b) \in Jumping
  <2>1. PICK j \in 1..n : list[j].index = b
    BY <1>1
  <2>2. PICK i \in 1..(n - 1) : s(i) = j
    BY <1>5, <2>1
  <2> QED
    BY <1>6, <1>7, <2>1, <2>2
<1>10. \A i, j \in DOMAIN rest : rest[i].index = rest[j].index => i = j
  BY <1>1, <1>3, <1>4, <1>6, <1>7
<1> QED
  BY <1>2, <1>8, <1>9, <1>10 DEF Exact

\* The fields of an optimizer after a jump is taken off the list.
LEMMA DeletionFields ==
  ASSUME NEW o, Shaped(o), NEW index, NEW m \in DOMAIN o.important, Listed(o, index) = {m}, Min(Listed(o, index)) = m,
         NEW r, r = Deletion(o, index)
  PROVE  Same(r, o) /\ Code(r) = Code(o) /\ r.important = RemoveAt(o.important, m)
<1>1. r = [o EXCEPT !.important = RemoveAt(o.important, m)]
  BY DEF Deletion
<1>2. DOMAIN o = {"func", "important", "zero", "one", "failed", "aborted"}
  BY DEF Shaped
<1>3. /\ DOMAIN r = DOMAIN o /\ r.func = o.func /\ r.zero = o.zero /\ r.one = o.one /\ r.failed = o.failed
      /\ r.important = RemoveAt(o.important, m)
  BY <1>1, <1>2
<1> QED
  BY <1>3 DEF Same, Shaped, Code

\* A jump that is never taken goes, and its test.
LEMMA JumpNever ==
  ASSUME NEW o, NEW S, Good(o, S), ~Over(o), ~Adjustable(o, Two(o)), ~Adjustable(o, o.one),
         \A i \in DOMAIN o.func.except : o.func.except[i].start \notin (o.one + 1)..(Three(o) - 1),
         Width(FirstOp(o)) = 1, Size(FirstOp(o)) = 1, FirstOp(o) \notin Jumping,
         SecondOp(o) \in {"JUMP_IF_TRUE", "JUMP_IF_FALSE"},
         NEW r, r = Rewrite(Deletion(o, Two(o)), o.one, 4)
  PROVE  Kept(r, o)
<1> DEFINE code == Code(o)  one == o.one  two == Two(o)  e == one + 4  p == one  k == 4
           list == o.important
           q == Deletion(o, two)
           Q == S \ {two}
<1>1. /\ Width(SecondOp(o)) = 3 /\ Size(SecondOp(o)) = 3 /\ SecondOp(o) \in Forward /\ SecondOp(o) \in Jumping
      /\ SecondOp(o) # "JUMP" /\ SecondOp(o) = OpAt(code, two) /\ FirstOp(o) = OpAt(code, one)
      /\ "JUMP" \in Jumping /\ {"LOOP", "INCREMENT_LOOP"} \subseteq Jumping
  <2>1. Width(SecondOp(o)) = 3 /\ Size(SecondOp(o)) = 3
    BY KnownSizes DEF ConditionalJumps
  <2> QED
    BY <2>1 DEF Jumping, Forward, Backward, ConditionalJumps, SecondOp, FirstOp
<1>2. one \in Nat /\ one \in S /\ two \in S /\ two = one + 1 /\ Three(o) = e
  <2>1. /\ o.one \in Nat /\ o.one \in S /\ Two(o) \in S /\ Two(o) = o.one + Width(FirstOp(o))
        /\ Three(o) = o.one + Width(FirstOp(o)) + Width(SecondOp(o))
    BY <1>1, Around
  <2> QED
    BY <1>1, <2>1
<1>3. /\ code \in Seq(Nat) /\ Framed(code, S) /\ Lands(code, S) /\ Exact(list, code, S) /\ Shaped(o)
  BY DEF Good
<1>4. /\ Region(code, S, one, e)
      /\ \A a \in S : one <= a /\ a < e => a = one \/ a = two
  BY <1>1, <1>2, RegionTwo
<1>5. /\ e \in Nat /\ p \in Nat /\ k \in Nat /\ 1 <= k /\ one <= p /\ p + k <= e /\ p = one /\ k <= e
      /\ ~(one + k < e) /\ one + k = e /\ one <= two /\ two < e /\ two + 3 = e /\ p + k <= e - 1 + 1 /\ e - 1 \in Nat
  BY <1>2
<1>6. /\ q = Deletion(o, two) /\ r = Rewrite(q, p, k) /\ list = o.important /\ code = Code(o) /\ one = o.one /\ two = Two(o)
      /\ Q = S \ {two}
  OBVIOUS
<1>7. Len(code) \in Nat /\ \A a \in S : a \in Nat /\ a < Len(code)
  BY <1>3, Addresses
<1> HIDE DEF code, one, two, e, p, k, list, q, Q
<1>8. \A a \in S : one <= a /\ a < e => OpAt(code, a) # "JUMP"
  BY <1>1, <1>4
<1>9. Cutting(o, S, e, p, k)
  <2>1. \A i \in DOMAIN o.func.except : o.func.except[i].start \notin (one + 1)..(e - 1)
    BY <1>2, <1>6
  <2> DEFINE last == e - 1
  <2>2. /\ last \in Nat /\ p + k <= last + 1
        /\ \A i \in DOMAIN o.func.except : o.func.except[i].start \notin (one + 1)..last
    BY <1>5, <2>1
  <2> HIDE DEF last
  <2>3. \A i \in DOMAIN o.func.except : o.func.except[i].start <= p \/ p + k <= o.func.except[i].start
    BY <1>2, <1>5, <2>2, WholeRanges
  <2> QED
    BY <1>4, <1>5, <1>6, <1>8, <2>3 DEF Cutting
<1>10. PICK m \in DOMAIN list : Listed(o, two) = {m} /\ Min(Listed(o, two)) = m /\ list[m].index = two
  <2>1. Exact(o.important, code, S) /\ two \in S /\ OpAt(code, two) \in Jumping
    BY <1>1, <1>2, <1>3, <1>6
  <2>2. \E m \in DOMAIN o.important : /\ Listed(o, two) = {m} /\ Min(Listed(o, two)) = m
                                      /\ o.important[m].index = two /\ o.important[m].name = OpAt(code, two)
    BY ONLY <2>1, OneListed
  <2> QED
    BY <1>6, <2>2
<1>11. Same(q, o) /\ Code(q) = code /\ q.important = RemoveAt(list, m)
  <2>1. /\ Shaped(o) /\ m \in DOMAIN o.important /\ Listed(o, two) = {m} /\ Min(Listed(o, two)) = m
        /\ q = Deletion(o, two)
    BY <1>3, <1>6, <1>10
  <2>2. Same(q, o) /\ Code(q) = Code(o) /\ q.important = RemoveAt(o.important, m)
    BY ONLY <2>1, DeletionFields
  <2> QED
    BY <1>6, <2>2
<1> DEFINE rest == q.important
           relist == r.important
           new == Code(r)
<1>12. Exact(rest, code, Q)
  BY <1>3, <1>6, <1>10, <1>11, Unlisted
<1>13. Q \in SUBSET S /\ \A a \in S : a < one \/ e <= a => a \in Q
  BY <1>2, <1>5, <1>6, <1>7
<1>14. \A j \in DOMAIN rest : rest[j] \in Views /\ rest[j].index \in Q /\ rest[j].name = OpAt(code, rest[j].index)
  BY <1>12 DEF Exact
<1>15. \A j \in DOMAIN rest : ~(one <= rest[j].index /\ rest[j].index < e)
  <2> TAKE j \in DOMAIN rest
  <2>1. OpAt(code, rest[j].index) \in Jumping /\ rest[j].index \in S /\ rest[j].index # two
    BY <1>6, <1>14 DEF Views
  <2> QED
    BY <1>1, <1>4, <2>1
<1>16. Prepared(code, S, one, e, Code(q), rest)
  BY <1>3, <1>11, <1>12, <1>13, <1>15 DEF Prepared, Exact
<1>17. Cuts(code, S, one, e, p, k, Code(q), rest)
  <2>1. \A a \in S : OpAt(code, a) \in {"LOOP", "INCREMENT_LOOP"} => LeadsTo(code, a) # one
    BY <1>1, <1>6, NotLedTo
  <2> QED
    BY <1>5, <1>15, <2>1 DEF Cuts
<1>18. new \in Seq(Nat)
  <2>1. /\ Cutting(o, S, e, p, k) /\ Shaped(q) /\ r = Rewrite(q, p, k)
        /\ Prepared(Code(o), S, o.one, e, Code(q), q.important) /\ Cuts(Code(o), S, o.one, e, p, k, Code(q), q.important)
    BY <1>6, <1>9, <1>11, <1>16, <1>17 DEF Same
  <2>2. Code(r) \in Seq(Nat)
    BY ONLY <2>1, CutEffect
  <2> QED
    BY <2>2
<1>19. Shaped(r) /\ relist = [j \in DOMAIN rest |-> MoveView(rest[j], p, k)]
  <2>0. Shaped(q) /\ q.important = rest
    BY <1>11 DEF Same
  <2> HIDE DEF rest
  <2>1. RewritesTo(Rewrite(q, p, k), q, p, k)
    BY ONLY <2>0, RewriteFields
  <2> QED
    BY <1>6, <2>0, <2>1 DEF RewritesTo
<1> HIDE DEF rest, relist, new
<1>20. Relists(rest, relist, new, one, e, k)
  <2>1. rest \in Seq(Views) /\ p \in Nat /\ k \in Nat
    BY <1>5, <1>12 DEF Exact
  <2>2. ASSUME NEW j \in DOMAIN rest
        PROVE  /\ rest[j].index >= p => rest[j].index >= k
               /\ rest[j].index < one => rest[j].index < p
               /\ e <= rest[j].index => rest[j].index >= p
    <3> DEFINE x == rest[j].index
    <3>1. x \in Nat /\ ~(one <= x /\ x < e)
      BY <1>6, <1>7, <1>14, <1>15
    <3> HIDE DEF x
    <3>2. /\ x >= p => x >= k
          /\ x < one => x < p
          /\ e <= x => x >= p
      BY <1>2, <1>5, <3>1
    <3> QED
      BY <3>2 DEF x
  <2>3. Earlier(relist, rest, p, k)
    <3>1. \A j \in DOMAIN rest : rest[j].index >= p => rest[j].index >= k
      BY <2>2
    <3>2. rest \in Seq(Views) /\ p \in Nat /\ k \in Nat /\ relist = [j \in DOMAIN rest |-> MoveView(rest[j], p, k)]
      BY <1>19, <2>1
    <3> QED
      BY ONLY <3>1, <3>2, ViewsMoved
  <2> QED
    BY <1>5, <1>15, <2>2, <2>3 DEF Relists, Earlier
<1>21. Replaces(code, S, new, one, e, k)
  <2> DEFINE t == LeadsTo(code, two)
             s == Short(code, two + 3 - 2)
  <2>1. t \in S /\ t = two + 3 + s
    BY <1>1, <1>2, <1>3 DEF Lands, LeadsTo
  <2>2. s \in Nat
    BY <1>3, ShortFacts
  <2> HIDE DEF t, s
  <2>3. e <= t
    BY <1>2, <1>5, <2>1, <2>2
  <2> DEFINE n == Len(code)
  <2>4. n \in Nat /\ t \in Nat /\ t < n /\ e \in S \cup {n}
    BY <1>4, <1>7, <2>1 DEF Region
  <2> HIDE DEF n
  <2>5. e # n
    BY <1>5, <2>3, <2>4
  <2>6. e \in S
    BY <2>4, <2>5
  <2> QED
    BY <1>5, <2>6 DEF Replaces
<1>22. /\ Cutting(o, S, e, p, k) /\ code = Code(o) /\ one = o.one
       /\ Same(q, o) /\ Prepared(code, S, one, e, Code(q), q.important) /\ Cuts(code, S, one, e, p, k, Code(q), q.important)
       /\ r = Rewrite(q, p, k) /\ Same(r, r) /\ new = Code(r)
  BY <1>6, <1>9, <1>11, <1>16, <1>17, <1>19 DEF Same, new, rest
<1>23. /\ new \in Seq(Nat) /\ Len(new) = Len(Code(r))
       /\ \A x \in Nat : x < one \/ e <= x + k => Byte(new, x) = Byte(Code(r), x)
       /\ Replaces(code, S, new, one, e, k)
       /\ Q \in SUBSET S /\ \A a \in S : a < one \/ e <= a => a \in Q
       /\ Exact(rest, code, Q) /\ Relists(rest, r.important, new, one, e, k)
  BY <1>12, <1>13, <1>18, <1>20, <1>21 DEF relist, new
<1> QED
  BY ONLY <1>22, <1>23, JumpCut, ZenonT(60)

\* A jump is written at the beginning of a region (q), and k bytes are cut out (cut).
HoistedTo(cut, q, o, code, list, S, one, e, p, k, name) ==
  /\ Same(q, o) /\ Prepared(code, S, one, e, Code(q), q.important)
  /\ Cuts(code, S, one, e, p, k, Code(q), q.important)
  /\ Shaped(cut) /\ Code(cut) \in Seq(Nat) /\ OpAt(Code(cut), one) = name
  /\ Len(Code(cut)) = Len(code) - k /\ e - k <= Len(Code(cut)) /\ Len(Code(cut)) \in Nat
  /\ \A x \in Nat : one < x /\ x < p => Byte(Code(cut), x) = Byte(code, x)
  /\ \A x \in Nat : p <= x /\ x + k < e => Byte(Code(cut), x) = Byte(code, x + k)
  /\ \A new : OpAt(new, one) = name => Relists(list, cut.important, new, one, e, k)

\* The jump of a region becomes another jump at its beginning, and bytes between them go.
LEMMA Hoisted ==
  ASSUME NEW o, NEW S, NEW e, NEW p, NEW k, Cutting(o, S, e, p, k), NEW code, code = Code(o),
         NEW list, list = o.important, NEW one, one = o.one, one < p,
         NEW a \in S, one < a, a < e, OpAt(code, a) \in Jumping,
         \A b \in S : one <= b /\ b < e /\ OpAt(code, b) \in Jumping => b = a,
         NEW name \in Range(OpCodes), name \in Jumping, one + Size(name) + k = e,
         name \in Forward => e <= p + k + k /\ p + k + 2 <= e,
         NEW q, q = Move(o, a, name, one), NEW cut, cut = Rewrite(q, p, k)
  PROVE  HoistedTo(cut, q, o, code, list, S, one, e, p, k, name)
<1>1. /\ code \in Seq(Nat) /\ Framed(code, S) /\ Region(code, S, one, e) /\ Good(o, S) /\ Shaped(o) /\ Exact(list, code, S)
      /\ p \in Nat /\ k \in Nat /\ 1 <= k /\ one <= p /\ p + k <= e
  BY DEF Cutting, Good
<1>2. one \in S /\ one \in Nat /\ e \in Nat /\ one < e /\ Len(code) \in Nat /\ one < Len(code) /\ e <= Len(code) /\ a \in Nat
      /\ \A b \in S : b \in Nat
  <2>1. one \in S /\ e \in S \cup {Len(code)} /\ one < e
    BY <1>1 DEF Region
  <2>2. Len(code) \in Nat /\ \A b \in S : b \in Nat /\ b < Len(code)
    BY <1>1, Addresses
  <2> DEFINE n == Len(code)
  <2>3. n \in Nat /\ \A b \in S : b \in Nat /\ b < n
    BY <2>2
  <2> HIDE DEF n
  <2>4. one \in Nat /\ e \in Nat /\ one < n /\ e <= n
    BY <2>1, <2>3 DEF n
  <2> QED
    BY <2>1, <2>2, <2>4 DEF n
<1>3. PICK m \in DOMAIN list : Listed(o, a) = {m} /\ Min(Listed(o, a)) = m /\ list[m].index = a
  <2>1. Exact(o.important, code, S) /\ a \in S /\ OpAt(code, a) \in Jumping
    BY <1>1
  <2>2. \E m \in DOMAIN o.important : /\ Listed(o, a) = {m} /\ Min(Listed(o, a)) = m
                                      /\ o.important[m].index = a /\ o.important[m].name = OpAt(code, a)
    BY ONLY <2>1, OneListed
  <2> QED
    BY <2>2
<1> DEFINE half == SetOp(o, one, name)
           v == [index |-> one, name |-> name]
<1>4. /\ Edited(half, o, one, e) /\ OpAt(Code(half), one) = name
      /\ \A x \in Nat : x # one => Byte(Code(half), x) = Byte(code, x)
  <2>1. Edited(half, o, one, e) /\ OpAt(Code(half), one) = name
    <3>1. /\ Shaped(o) /\ Code(o) \in Seq(Nat) /\ one \in Nat /\ one < Len(Code(o)) /\ e \in Nat /\ one < e
          /\ name \in Range(OpCodes) /\ half = SetOp(o, one, name)
      BY <1>1, <1>2
    <3> HIDE DEF half
    <3> QED
      BY ONLY <3>1, NameWritten
  <2>2. \A x \in Nat : x # one => Byte(Code(half), x) = Byte(code, x)
    <3> DEFINE byte == Op[name]
    <3>1. /\ Shaped(o) /\ Code(o) \in Seq(Nat) /\ one \in 0..(Len(Code(o)) - 1) /\ byte \in Nat
          /\ half = Set(o, one, byte)
      BY <1>1, <1>2, OpBytes DEF SetOp
    <3> HIDE DEF byte, half
    <3>2. \A x \in Nat : Byte(Code(half), x) = IF x = one THEN byte ELSE Byte(Code(o), x)
      BY ONLY <3>1, SetFacts
    <3> QED
      BY <3>2
  <2> QED
    BY <2>1, <2>2
<1>5. half = SetOp(o, one, name) /\ v = [index |-> one, name |-> name] /\ v.index = one /\ v.name = name /\ v \in Views
  BY <1>2 DEF Views
<1> HIDE DEF half, v
<1>6. /\ Shaped(half) /\ half.func.except = o.func.except /\ half.important = list
      /\ half.one = o.one /\ half.zero = o.zero /\ half.failed = o.failed
      /\ Code(half) \in Seq(Nat) /\ Len(Code(half)) = Len(code)
      /\ \A x \in Nat : x < one \/ e <= x => Byte(Code(half), x) = Byte(code, x)
  BY <1>4 DEF Edited
<1>7. /\ Same(q, half) /\ Code(q) = Code(half)
      /\ q.important = [list EXCEPT ![m] = v]
  <2>1. /\ m \in DOMAIN o.important /\ Listed(o, a) = {m} /\ Min(Listed(o, a)) = m /\ half = SetOp(o, one, name)
        /\ Shaped(half) /\ half.important = o.important /\ q = Move(o, a, name, one)
    BY <1>3, <1>5, <1>6
  <2>2. MovesTo(q, half, m, name, one)
    BY ONLY <2>1, MoveFields
  <2> QED
    BY <1>5, <1>6, <2>2 DEF MovesTo
<1>8. Same(q, o)
  BY <1>6, <1>7 DEF Same
<1> DEFINE jumps == q.important
           edit == Code(q)
<1>9. /\ edit \in Seq(Nat) /\ Len(edit) = Len(code) /\ OpAt(edit, one) = name
      /\ \A x \in Nat : x < one \/ e <= x => Byte(edit, x) = Byte(code, x)
      /\ \A x \in Nat : x # one => Byte(edit, x) = Byte(code, x)
  BY <1>4, <1>6, <1>7
<1>10. /\ list \in Seq(Views)
       /\ \A j \in DOMAIN list : list[j].index \in S /\ list[j].name = OpAt(code, list[j].index)
       /\ \A b \in S : OpAt(code, b) \in Jumping => \E j \in DOMAIN list : list[j].index = b
       /\ \A i, j \in DOMAIN list : list[i].index = list[j].index => i = j
  BY <1>1 DEF Exact
<1>11. /\ jumps \in Seq(Views) /\ DOMAIN jumps = DOMAIN list /\ jumps[m] = v
       /\ \A j \in DOMAIN list : j # m => jumps[j] = list[j]
  <2>1. DOMAIN jumps = DOMAIN list /\ jumps[m] = v /\ \A j \in DOMAIN list : j # m => jumps[j] = list[j]
    BY <1>3, <1>7, <1>10
  <2>2. jumps \in Seq(Views)
    BY <1>3, <1>5, <1>7, <1>10
  <2> QED
    BY <2>1, <2>2
<1> HIDE DEF jumps, edit
<1>12. \A j \in DOMAIN list : list[j].name \in Jumping /\ list[j].index \in Nat
  <2>1. \A j \in DOMAIN list : list[j] \in Views
    BY <1>10
  <2> QED
    BY <2>1 DEF Views
<1>13. \A j \in DOMAIN list : one <= list[j].index /\ list[j].index < e => j = m
  BY <1>3, <1>10, <1>12
<1>14. Prepared(code, S, one, e, edit, jumps)
  <2>1. \A i, j \in DOMAIN jumps :
          one <= jumps[i].index /\ jumps[i].index < e /\ one <= jumps[j].index /\ jumps[j].index < e => i = j
    BY <1>11, <1>13
  <2>2. \A j \in DOMAIN jumps :
          jumps[j].index < one \/ e <= jumps[j].index =>
            jumps[j].index \in S /\ jumps[j].name = OpAt(code, jumps[j].index)
    <3> TAKE j \in DOMAIN jumps
    <3> HAVE jumps[j].index < one \/ e <= jumps[j].index
    <3>1. j # m
      BY <1>2, <1>5, <1>11
    <3> QED
      BY <1>10, <1>11, <3>1
  <2>3. \A i, j \in DOMAIN jumps : jumps[i].index = jumps[j].index => i = j
    <3> TAKE i, j \in DOMAIN jumps
    <3> HAVE jumps[i].index = jumps[j].index
    <3>1. CASE i = m /\ j # m
      <4>1. list[j].index = one
        BY <1>5, <1>11, <3>1
      <4> QED
        BY <1>2, <1>11, <1>13, <3>1, <4>1
    <3>2. CASE j = m /\ i # m
      <4>1. list[i].index = one
        BY <1>5, <1>11, <3>2
      <4> QED
        BY <1>2, <1>11, <1>13, <3>2, <4>1
    <3>3. CASE i # m /\ j # m
      BY <1>10, <1>11, <3>3
    <3> QED
      BY <3>1, <3>2, <3>3
  <2>4. \A b \in S : (b < one \/ e <= b) /\ OpAt(code, b) \in Jumping => \E j \in DOMAIN jumps : jumps[j].index = b
    <3> TAKE b \in S
    <3> HAVE (b < one \/ e <= b) /\ OpAt(code, b) \in Jumping
    <3>1. PICK j \in DOMAIN list : list[j].index = b
      BY <1>10
    <3>2. j # m
      BY <1>2, <1>3, <3>1
    <3> QED
      BY <1>11, <3>1, <3>2
  <2> QED
    BY <1>9, <1>11, <2>1, <2>2, <2>3, <2>4 DEF Prepared
<1>15. Size(name) \in 3..5 /\ (name \in Backward <=> name \notin Forward)
  BY JumpSizes
<1>16. Cuts(code, S, one, e, p, k, edit, jumps)
  <2>1. \A j \in DOMAIN jumps : one <= jumps[j].index /\ jumps[j].index < e => j = m
    BY <1>11, <1>13
  <2> DEFINE w == Size(name)
             at == Operand(v)
  <2>2. w \in 3..5 /\ one + w + k = e /\ at = one + w - 2
    BY <1>5, <1>15 DEF Operand
  <2>3. v.index + Size(v.name) = one + w
    BY <1>5
  <2>4. name \notin Forward => ~Crosses(edit, v, p)
    BY <1>1, <1>2, <1>5 DEF Crosses
  <2> HIDE DEF w, at
  <2>5. one + w <= e
    BY <1>1, <1>2, <2>2
  <2>6. ASSUME name \in Forward PROVE p <= at /\ at + 2 <= p + k
    <3>1. e <= p + k + k /\ p + k + 2 <= e
      BY <2>6
    <3>2. /\ one \in Nat /\ p \in Nat /\ k \in Nat /\ e \in Nat /\ w \in Nat
          /\ one + w + k = e /\ at = one + w - 2
      BY <1>1, <1>2, <2>2
    <3> QED
      BY ONLY <3>1, <3>2
  <2>7. /\ jumps[m].index + Size(jumps[m].name) <= e
        /\ Crosses(edit, jumps[m], p) => p <= Operand(jumps[m]) /\ Operand(jumps[m]) + 2 <= p + k
    BY <1>11, <2>3, <2>4, <2>5, <2>6 DEF at
  <2>8. \A j \in DOMAIN jumps :
          one <= jumps[j].index /\ jumps[j].index < e =>
            /\ jumps[j].index + Size(jumps[j].name) <= e
            /\ Crosses(edit, jumps[j], p) => p <= Operand(jumps[j]) /\ Operand(jumps[j]) + 2 <= p + k
    BY <2>1, <2>7
  <2>9. p # one
    BY <1>1, <1>2
  <2> QED
    BY <1>1, <2>8, <2>9 DEF Cuts
<1> DEFINE new == Code(cut)
<1>17. /\ new \in Seq(Nat) /\ Len(new) = Len(code) - k
       /\ \A x \in Nat : one <= x /\ x < p => Byte(new, x) = Byte(edit, x)
       /\ \A x \in Nat : p <= x /\ x + k < e => Byte(new, x) = Byte(edit, x + k)
  <2>1. /\ Cutting(o, S, e, p, k) /\ Shaped(q) /\ cut = Rewrite(q, p, k)
        /\ Prepared(Code(o), S, o.one, e, Code(q), q.important) /\ Cuts(Code(o), S, o.one, e, p, k, Code(q), q.important)
    BY <1>8, <1>14, <1>16 DEF Same, edit, jumps
  <2>2. /\ Code(cut) \in Seq(Nat) /\ Len(Code(cut)) = Len(Code(o)) - k
        /\ \A x \in Nat : o.one <= x /\ x < p => Byte(Code(cut), x) = Byte(Code(q), x)
        /\ \A x \in Nat : p <= x /\ x + k < e => Byte(Code(cut), x) = Byte(Code(q), x + k)
    BY ONLY <2>1, CutEffect
  <2> QED
    BY <2>2 DEF edit
<1>18. Shaped(cut) /\ cut.important = [j \in DOMAIN jumps |-> MoveView(jumps[j], p, k)]
  <2>0. Shaped(q) /\ q.important = jumps
    BY <1>8 DEF Same, jumps
  <2> HIDE DEF jumps
  <2>1. RewritesTo(Rewrite(q, p, k), q, p, k)
    BY ONLY <2>0, RewriteFields
  <2> QED
    BY <2>0, <2>1 DEF RewritesTo
<1> HIDE DEF new
<1>19. /\ \A x \in Nat : one < x /\ x < p => Byte(new, x) = Byte(code, x)
       /\ \A x \in Nat : p <= x /\ x + k < e => Byte(new, x) = Byte(code, x + k)
  <2>1. \A x \in Nat : one < x /\ x < p => one <= x /\ x # one
    BY <1>2
  <2>2. \A x \in Nat : p <= x => x + k \in Nat /\ x + k # one
    BY <1>1, <1>2
  <2> QED
    BY <1>9, <1>17, <2>1, <2>2
<1>20. OpAt(new, one) = name
  <2>1. Byte(new, one) = Byte(edit, one)
    BY <1>1, <1>2, <1>17
  <2> QED
    BY <1>9, <2>1 DEF OpAt
<1>21. e - k <= Len(new) /\ Len(new) \in Nat
  <2> DEFINE n == Len(code)
             z == Len(new)
  <2>1. n \in Nat /\ e <= n /\ z = n - k
    BY <1>2, <1>17
  <2> HIDE DEF n, z
  <2>2. e - k <= z /\ z \in Nat
    BY <1>1, <1>2, <2>1
  <2> QED
    BY <2>2 DEF z
<1>22. ASSUME NEW c, OpAt(c, one) = name PROVE Relists(list, cut.important, c, one, e, k)
  <2> DEFINE relist == cut.important
  <2>1. MoveView(v, p, k) = v
    <3>1. ~(v.index >= p)
      BY <1>1, <1>2, <1>5
    <3> QED
      BY <3>1 DEF MoveView
  <2>2. Relisting(relist, list, m, one, OpAt(c, one), p, k)
    <3>1. relist = [j \in DOMAIN list |-> MoveView(jumps[j], p, k)]
      BY <1>11, <1>18
    <3>2. \A j \in DOMAIN list : MoveView(jumps[j], p, k) =
                                   IF j = m THEN [index |-> one, name |-> OpAt(c, one)] ELSE MoveView(list[j], p, k)
      BY <1>5, <1>11, <1>22, <2>1
    <3> QED
      BY <3>1, <3>2 DEF Relisting
  <2>3. /\ code \in Seq(Nat) /\ Framed(code, S) /\ Exact(list, code, S)
        /\ one \in Nat /\ e \in Nat /\ p \in Nat /\ k \in Nat /\ one <= p /\ p + k <= e /\ one + k < e
        /\ m \in DOMAIN list /\ list[m].index = a /\ one <= a /\ a < e
        /\ \A b \in S : one <= b /\ b < e /\ OpAt(code, b) \in Jumping => b = a
        /\ OpAt(c, one) \in Jumping
    BY <1>1, <1>2, <1>3, <1>22
  <2> HIDE DEF relist
  <2>4. Relists(list, relist, c, one, e, k)
    BY ONLY <2>2, <2>3, RelistOne
  <2> QED
    BY <2>4 DEF relist
<1> QED
  BY <1>8, <1>14, <1>16, <1>17, <1>18, <1>19, <1>20, <1>21, <1>22 DEF HoistedTo, new, edit, jumps

\* The increment of a local at the end of a loop, and the jump back.
LEMMA IncrementLoopKept ==
  ASSUME NEW o, NEW S, Good(o, S), ~Over(o), ~Adjustable(o, Two(o)), NEW r \in IncrementLoop(o)
  PROVE  Kept(r, o)
<1> DEFINE code == Code(o)  one == o.one  two == Two(o)  e == one + 6  p == two  k == 1
           list == o.important
           name == "INCREMENT_LOOP"
           q == Move(o, two, name, one)
           cut == Rewrite(q, p, k)
           jump == Short(Code(cut), one + 3) - 1
<1>1. FirstOp(o) = "INCREMENT_LOCAL_AND_SET" /\ SecondOp(o) = "LOOP" /\ r = WithCode(cut, PutShort(Code(cut), one + 3, jump))
  BY DEF IncrementLoop, Pair, WithCode, Code
<1>2. /\ Size("INCREMENT_LOCAL_AND_SET") = 3 /\ Width("INCREMENT_LOCAL_AND_SET") = 3
      /\ Size("LOOP") = 3 /\ Width("LOOP") = 3 /\ Size(name) = 5 /\ Width(name) = 5
      /\ name \in Range(OpCodes)
  BY KnownSizes, KnownNames
<1>3. /\ "INCREMENT_LOCAL_AND_SET" \notin Jumping /\ "LOOP" \in Jumping /\ name \in Jumping /\ name \in Backward
      /\ "LOOP" \in Backward /\ name \notin Forward /\ "LOOP" \notin Forward
  BY DEF Jumping, Forward, Backward, ConditionalJumps
<1>4. one \in Nat /\ one \in S /\ two \in S /\ two = one + 3 /\ Three(o) = e
  <2>1. Width(FirstOp(o)) = 3 /\ Size(FirstOp(o)) = 3 /\ Width(SecondOp(o)) = 3 /\ Size(SecondOp(o)) = 3
    BY <1>1, <1>2
  <2>2. /\ o.one \in Nat /\ o.one \in S /\ Two(o) \in S /\ Two(o) = o.one + Width(FirstOp(o))
        /\ Three(o) = o.one + Width(FirstOp(o)) + Width(SecondOp(o))
    BY <2>1, Around
  <2> QED
    BY <2>1, <2>2
<1>5. /\ code \in Seq(Nat) /\ Framed(code, S) /\ Lands(code, S) /\ Exact(list, code, S) /\ Shaped(o)
      /\ FirstOp(o) = OpAt(code, one) /\ SecondOp(o) = OpAt(code, two)
  BY DEF Good, FirstOp, SecondOp
<1>6. /\ Region(code, S, one, e)
      /\ \A a \in S : one <= a /\ a < e => a = one \/ a = two
  BY <1>1, <1>2, <1>4, RegionTwo
<1>7. /\ e \in Nat /\ p \in Nat /\ k \in Nat /\ 1 <= k /\ one < p /\ one <= p /\ p + k <= e /\ k = 1 /\ p = two
      /\ one < two /\ two < e /\ one + 5 + k = e /\ e - k = one + 5 /\ e = one + 6
  BY <1>4
<1>8. /\ q = Move(o, two, name, one) /\ cut = Rewrite(q, p, k) /\ list = o.important /\ code = Code(o) /\ one = o.one
      /\ two = Two(o) /\ jump = Short(Code(cut), one + 3) - 1 /\ name = "INCREMENT_LOOP"
  OBVIOUS
<1> HIDE DEF code, one, two, e, p, k, list, q, cut, jump, name
<1>9. Cutting(o, S, e, p, k)
  <2>1. \A i \in DOMAIN o.func.except : o.func.except[i].start <= p \/ p + k <= o.func.except[i].start
    BY <1>4, <1>7, WholeRanges
  <2>2. \A a \in S : one <= a /\ a < e => OpAt(code, a) # "JUMP"
    BY <1>1, <1>5, <1>6
  <2> QED
    BY <1>6, <1>7, <1>8, <2>1, <2>2 DEF Cutting
<1>10. \A b \in S : one <= b /\ b < e /\ OpAt(code, b) \in Jumping => b = two
  BY <1>1, <1>3, <1>5, <1>6
<1> DEFINE c == Code(cut)
           f == e - k
<1>11. /\ Same(q, o) /\ Prepared(code, S, one, e, Code(q), q.important)
       /\ Cuts(code, S, one, e, p, k, Code(q), q.important)
       /\ Shaped(cut) /\ c \in Seq(Nat) /\ OpAt(c, one) = name
       /\ Len(c) = Len(code) - k /\ f <= Len(c) /\ Len(c) \in Nat
       /\ \A x \in Nat : p <= x /\ x + k < e => Byte(c, x) = Byte(code, x + k)
       /\ \A new : OpAt(new, one) = name => Relists(list, cut.important, new, one, e, k)
  <2>1. /\ Cutting(o, S, e, p, k) /\ code = Code(o) /\ list = o.important /\ one = o.one /\ one < p
        /\ two \in S /\ one < two /\ two < e /\ OpAt(code, two) \in Jumping
        /\ \A b \in S : one <= b /\ b < e /\ OpAt(code, b) \in Jumping => b = two
        /\ name \in Range(OpCodes) /\ name \in Jumping /\ one + Size(name) + k = e
        /\ name \in Forward => e <= p + k + k /\ p + k + 2 <= e
        /\ q = Move(o, two, name, one) /\ cut = Rewrite(q, p, k)
    BY <1>1, <1>2, <1>3, <1>4, <1>5, <1>7, <1>8, <1>9, <1>10
  <2>2. HoistedTo(cut, q, o, code, list, S, one, e, p, k, name)
    BY ONLY <2>1, Hoisted
  <2> QED
    BY <2>2 DEF HoistedTo, c, f
<1> HIDE DEF f
<1>12. f = one + 5 /\ f \in Nat
  BY <1>4, <1>7 DEF f
<1> DEFINE at == one + 3
           s == Short(code, two + 1)
           t == LeadsTo(code, two)
<1>13. Short(c, at) = s
  <2> DEFINE x == at
             y == at + 1
  <2>0. /\ x \in Nat /\ y \in Nat /\ p <= x /\ p <= y /\ x + k < e /\ y + k < e
        /\ y = x + 1 /\ x + k = two + 1 /\ y + k = two + 1 + 1
    BY <1>4, <1>7
  <2> HIDE DEF c, x, y
  <2>1. Byte(c, x) = Byte(code, two + 1) /\ Byte(c, x + 1) = Byte(code, two + 1 + 1)
    BY <1>11, <2>0
  <2>2. Short(c, x) = Short(code, two + 1)
    BY ONLY <2>1, SameShort
  <2> QED
    BY <2>2 DEF x
<1>14. /\ t \in S /\ t <= two /\ t # two /\ t = two + 3 - s /\ s <= ShortMax /\ s \in Nat
  <2>1. /\ t \in S /\ t <= two /\ Short(code, two + 3 - 2) <= ShortMax /\ t = two + 3 - Short(code, two + 3 - 2)
    BY <1>1, <1>2, <1>3, <1>4, <1>5 DEF Lands, LeadsTo
  <2>2. two + 3 - 2 = two + 1
    BY <1>4
  <2>3. s \in Nat
    BY <1>5, ShortFacts
  <2>4. t # two
    BY <1>1, <1>3, <1>4, <1>5, <1>8, NotLedTo
  <2> QED
    BY <2>1, <2>2, <2>3, <2>4
<1> HIDE DEF t
<1>15. t \in Nat /\ t <= one
  <2>1. \A a \in S : a \in Nat
    BY <1>5, Addresses
  <2>2. ~(one <= t) \/ t = one \/ e <= t
    BY <1>4, <1>6, <1>7, <1>14, <2>1
  <2> QED
    BY <1>4, <1>7, <1>14, <2>1, <2>2
<1> HIDE DEF s
<1>16. jump \in Nat /\ jump <= ShortMax /\ jump = s - 1 /\ jump \in Int /\ 0 <= jump
  <2>1. jump = s - 1
    BY <1>8, <1>13
  <2>2. t \in Nat /\ one \in Nat /\ s \in Nat /\ t <= one /\ t = (one + 3) + 3 - s
    BY <1>4, <1>14, <1>15
  <2>3. 6 <= s
    BY ONLY <2>2
  <2> QED
    BY <1>14, <2>1, <2>3 DEF ShortMax
<1> DEFINE new == Code(r)
<1>17. /\ Same(r, cut) /\ new = PutShort(c, at, jump) /\ r.important = cut.important
  <2>1. Shaped(cut) /\ r = WithCode(cut, PutShort(c, at, jump))
    BY <1>1, <1>11
  <2>2. /\ Shaped(r) /\ Code(r) = PutShort(c, at, jump) /\ r.func.except = cut.func.except /\ r.important = cut.important
        /\ r.one = cut.one /\ r.zero = cut.zero /\ r.failed = cut.failed
    BY ONLY <2>1, CodeFields
  <2> QED
    BY <2>2 DEF Same
<1> HIDE DEF c, new
<1>18. at \in Nat /\ at + 1 < Len(c) /\ one # at /\ one # at + 1 /\ at + 2 = f
  <2> DEFINE n == Len(c)
  <2>1. n \in Nat /\ f <= n
    BY <1>11 DEF c, f
  <2> HIDE DEF n
  <2>2. at \in Nat /\ at + 1 < n /\ one # at /\ one # at + 1 /\ at + 2 = f
    BY <1>4, <1>12, <2>1
  <2> QED
    BY <2>2 DEF n
<1> HIDE DEF at
<1>19. /\ new \in Seq(Nat) /\ Len(new) = Len(c) /\ Short(new, at) = jump
       /\ \A x \in Nat \ {at, at + 1} : Byte(new, x) = Byte(c, x)
  <2>1. c \in Seq(Nat) /\ at \in Nat /\ at + 1 < Len(c) /\ jump \in Int /\ 0 <= jump /\ jump <= ShortMax
    BY <1>11, <1>16, <1>18
  <2>2. /\ PutShort(c, at, jump) \in Seq(Nat)
        /\ Len(PutShort(c, at, jump)) = Len(c)
        /\ \A x \in Nat \ {at, at + 1} : Byte(PutShort(c, at, jump), x) = Byte(c, x)
        /\ Short(PutShort(c, at, jump), at) = jump
    BY ONLY <2>1, PutShortFacts
  <2> QED
    BY <1>17, <2>2
<1>20. OpAt(new, one) = name
  <2>1. Byte(new, one) = Byte(c, one)
    BY <1>4, <1>18, <1>19
  <2> QED
    BY <1>11, <2>1 DEF OpAt
<1>21. \A x \in Nat : x < one \/ e <= x + k => Byte(new, x) = Byte(c, x)
  <2>1. \A x \in Nat : x < one \/ e <= x + k => x # at /\ x # at + 1
    <3>1. at = one + 3 /\ e = one + 6 /\ k = 1 /\ one \in Nat
      BY <1>4, <1>7 DEF at
    <3> QED
      BY ONLY <3>1
  <2> QED
    BY <1>19, <2>1
<1>22. Replaces(code, S, new, one, e, k)
  <2>1. one + Width(name) - 2 = at
    BY <1>2, <1>4 DEF at
  <2>2. LeadsTo(new, one) = one + 5 - jump
    BY <1>2, <1>3, <1>19, <1>20, <2>1 DEF LeadsTo
  <2>3. one + 5 - jump = t
    BY <1>4, <1>14, <1>16
  <2>4. LeadsTo(new, one) = Moved(t, one, k)
    BY <1>15, <2>2, <2>3 DEF Moved
  <2>5. one + Width(name) = e - k
    BY <1>2, <1>7
  <2>6. one + k # e
    BY <1>4, <1>7
  <2>7. Short(new, one + Width(name) - 2) <= ShortMax
    BY <1>16, <1>19, <2>1
  <2> QED
    BY <1>2, <1>14, <1>15, <1>20, <2>4, <2>5, <2>6, <2>7 DEF Replaces
<1>23. /\ Cutting(o, S, e, p, k) /\ code = Code(o) /\ one = o.one
       /\ Same(q, o) /\ Prepared(code, S, one, e, Code(q), q.important) /\ Cuts(code, S, one, e, p, k, Code(q), q.important)
       /\ cut = Rewrite(q, p, k) /\ Same(r, cut) /\ new = Code(r)
  BY <1>8, <1>9, <1>11, <1>17 DEF new
<1>24. /\ new \in Seq(Nat) /\ Len(new) = Len(Code(cut))
       /\ \A x \in Nat : x < one \/ e <= x + k => Byte(new, x) = Byte(Code(cut), x)
       /\ Replaces(code, S, new, one, e, k)
       /\ S \in SUBSET S /\ \A a \in S : a < one \/ e <= a => a \in S
       /\ Exact(list, code, S) /\ Relists(list, r.important, new, one, e, k)
  BY <1>5, <1>11, <1>17, <1>19, <1>20, <1>21, <1>22 DEF c
<1> QED
  BY ONLY <1>23, <1>24, JumpCut, ZenonT(60)

\* Two locals that are compared before a jump.
LEMMA GreaterLocalsKept ==
  ASSUME NEW o, NEW S, Good(o, S), ~Over(o), ~Adjustable(o, Two(o)), ~Adjustable(o, Three(o)),
         \A i \in DOMAIN o.func.except : o.func.except[i].start \notin (o.one + 1)..Three(o),
         NEW r \in GreaterLocals(o)
  PROVE  Kept(r, o)
<1> DEFINE code == Code(o)  one == o.one  two == Two(o)  three == Three(o)  e == one + 7  p == two  k == 2
           list == o.important
           name == "JUMP_IF_GREATER_LOCALS"
           q == Move(o, three, name, one)
<1>1. FirstOp(o) = "GET_LOCALS" /\ SecondOp(o) = "LESS_EQUAL" /\ ThirdOp(o) = "JUMP_IF_FALSE" /\ r = Rewrite(q, p, k)
  BY DEF GreaterLocals, Pair
<1>2. /\ Size("GET_LOCALS") = 3 /\ Width("GET_LOCALS") = 3
      /\ Size("LESS_EQUAL") = 1 /\ Width("LESS_EQUAL") = 1
      /\ Size("JUMP_IF_FALSE") = 3 /\ Width("JUMP_IF_FALSE") = 3 /\ Size(name) = 5 /\ Width(name) = 5
      /\ name \in Range(OpCodes)
  BY KnownSizes, KnownNames DEF ConditionalJumps
<1>3. /\ "GET_LOCALS" \notin Jumping /\ "LESS_EQUAL" \notin Jumping /\ "JUMP_IF_FALSE" \in Jumping /\ name \in Jumping
      /\ name \in Forward /\ "JUMP_IF_FALSE" \in Forward /\ name \notin Backward
  BY DEF Jumping, Forward, Backward, ConditionalJumps
<1>4. one \in Nat /\ one \in S /\ three \in S /\ two = one + 3 /\ three = one + 4 /\ e = three + Size(ThirdOp(o))
  <2>1. /\ Width(FirstOp(o)) = 3 /\ Size(FirstOp(o)) = 3 /\ Width(SecondOp(o)) = 1 /\ Size(SecondOp(o)) = 1
        /\ Width(ThirdOp(o)) = 3 /\ Size(ThirdOp(o)) = 3 /\ ThirdOp(o) # "NOTHING"
    BY <1>1, <1>2
  <2>2. /\ o.one \in Nat /\ o.one \in S /\ Two(o) = o.one + Width(FirstOp(o))
        /\ Three(o) = o.one + Width(FirstOp(o)) + Width(SecondOp(o)) /\ Three(o) \in S
    BY <2>1, Around
  <2> QED
    BY <2>1, <2>2
<1>5. /\ code \in Seq(Nat) /\ Framed(code, S) /\ Lands(code, S) /\ Exact(list, code, S) /\ Shaped(o)
      /\ FirstOp(o) = OpAt(code, one) /\ SecondOp(o) = OpAt(code, two) /\ ThirdOp(o) = OpAt(code, three)
  <2>1. ThirdOp(o) = OpAt(Code(o), Three(o))
    BY <1>1 DEF ThirdOp
  <2> QED
    BY <2>1 DEF Good, FirstOp, SecondOp
<1>6. /\ Region(code, S, one, e)
      /\ \A a \in S : one <= a /\ a < e => a = one \/ a = two \/ a = three
  <2>1. /\ Size(FirstOp(o)) = Width(FirstOp(o)) /\ Size(SecondOp(o)) = Width(SecondOp(o))
        /\ ThirdOp(o) # "NOTHING" /\ Size(ThirdOp(o)) = Width(ThirdOp(o))
    BY <1>1, <1>2
  <2>2. e = Three(o) + Size(ThirdOp(o))
    BY <1>4
  <2> HIDE DEF e
  <2> QED
    BY <2>1, <2>2, RegionThree
<1>7. /\ e \in Nat /\ p \in Nat /\ k \in Nat /\ 1 <= k /\ one < p /\ one <= p /\ p + k <= e /\ k = 2 /\ p = two
      /\ one < three /\ three < e /\ one + 5 + k = e /\ e - k = one + 5 /\ e = one + 7
      /\ e <= p + k + k /\ p + k + 2 <= e /\ three = one + 4 /\ p + k <= three + 1 /\ three \in Nat /\ p = one + 3
  BY <1>4
<1>8. /\ q = Move(o, three, name, one) /\ r = Rewrite(q, p, k) /\ list = o.important /\ code = Code(o) /\ one = o.one
      /\ two = Two(o) /\ three = Three(o) /\ name = "JUMP_IF_GREATER_LOCALS"
  BY <1>1
<1> HIDE DEF code, one, two, three, e, p, k, list, q, name
<1>9. Cutting(o, S, e, p, k)
  <2>1. \A i \in DOMAIN o.func.except : o.func.except[i].start <= p \/ p + k <= o.func.except[i].start
    <3>1. \A i \in DOMAIN o.func.except : o.func.except[i].start \notin (one + 1)..three
      BY <1>8
    <3> QED
      BY <1>4, <1>7, <3>1, WholeRanges
  <2>2. \A a \in S : one <= a /\ a < e => OpAt(code, a) # "JUMP"
    BY <1>1, <1>5, <1>6
  <2> QED
    BY <1>6, <1>7, <1>8, <2>1, <2>2 DEF Cutting
<1>10. \A b \in S : one <= b /\ b < e /\ OpAt(code, b) \in Jumping => b = three
  BY <1>1, <1>3, <1>5, <1>6
<1> DEFINE c == Code(r)
<1>11. /\ Same(q, o) /\ Prepared(code, S, one, e, Code(q), q.important)
       /\ Cuts(code, S, one, e, p, k, Code(q), q.important)
       /\ Shaped(r) /\ c \in Seq(Nat) /\ OpAt(c, one) = name
       /\ \A x \in Nat : p <= x /\ x + k < e => Byte(c, x) = Byte(code, x + k)
       /\ \A new : OpAt(new, one) = name => Relists(list, r.important, new, one, e, k)
  <2>1. /\ Cutting(o, S, e, p, k) /\ code = Code(o) /\ list = o.important /\ one = o.one /\ one < p
        /\ three \in S /\ one < three /\ three < e /\ OpAt(code, three) \in Jumping
        /\ \A b \in S : one <= b /\ b < e /\ OpAt(code, b) \in Jumping => b = three
        /\ name \in Range(OpCodes) /\ name \in Jumping /\ one + Size(name) + k = e
        /\ name \in Forward => e <= p + k + k /\ p + k + 2 <= e
        /\ q = Move(o, three, name, one) /\ r = Rewrite(q, p, k)
    BY <1>1, <1>2, <1>3, <1>4, <1>5, <1>7, <1>8, <1>9, <1>10
  <2>2. HoistedTo(r, q, o, code, list, S, one, e, p, k, name)
    BY ONLY <2>1, Hoisted
  <2> QED
    BY <2>2 DEF HoistedTo, c
<1> DEFINE at == one + 3
           s == Short(code, three + 1)
           t == LeadsTo(code, three)
<1>12. Short(c, at) = s
  <2> DEFINE x == at
             y == at + 1
  <2>0. /\ x \in Nat /\ y \in Nat /\ p <= x /\ p <= y /\ x + k < e /\ y + k < e
        /\ y = x + 1 /\ x + k = three + 1 /\ y + k = three + 1 + 1
    BY <1>4, <1>7
  <2> HIDE DEF c, x, y
  <2>1. Byte(c, x) = Byte(code, three + 1) /\ Byte(c, x + 1) = Byte(code, three + 1 + 1)
    BY <1>11, <2>0
  <2>2. Short(c, x) = Short(code, three + 1)
    BY ONLY <2>1, SameShort
  <2> QED
    BY <2>2 DEF x
<1>13. /\ t \in S /\ t = three + 3 + s /\ s <= ShortMax /\ s \in Nat
  <2>1. /\ t \in S /\ Short(code, three + 3 - 2) <= ShortMax /\ t = three + 3 + Short(code, three + 3 - 2)
    BY <1>1, <1>2, <1>3, <1>4, <1>5 DEF Lands, LeadsTo
  <2>2. three + 3 - 2 = three + 1
    BY <1>7
  <2>3. s \in Nat
    BY <1>5, ShortFacts
  <2> QED
    BY <2>1, <2>2, <2>3
<1> HIDE DEF t, s, c
<1>14. e <= t /\ ~(t <= one) /\ t - k = one + 5 + s
  BY <1>4, <1>7, <1>13
<1>15. Replaces(code, S, c, one, e, k)
  <2>1. one + Width(name) - 2 = at
    BY <1>2, <1>4
  <2> HIDE DEF at
  <2>2. LeadsTo(c, one) = one + 5 + s
    BY <1>2, <1>3, <1>11, <1>12, <2>1 DEF LeadsTo
  <2>4. LeadsTo(c, one) = Moved(t, one, k)
    BY <1>14, <2>2 DEF Moved
  <2>5. one + Width(name) = e - k
    BY <1>2, <1>7
  <2>6. one + k # e
    BY <1>4, <1>7
  <2>7. Short(c, one + Width(name) - 2) <= ShortMax
    BY <1>12, <1>13, <2>1
  <2> QED
    BY <1>2, <1>3, <1>13, <1>14, <1>11, <2>4, <2>5, <2>6, <2>7 DEF Replaces
<1>16. /\ Cutting(o, S, e, p, k) /\ code = Code(o) /\ one = o.one
       /\ Same(q, o) /\ Prepared(code, S, one, e, Code(q), q.important) /\ Cuts(code, S, one, e, p, k, Code(q), q.important)
       /\ r = Rewrite(q, p, k) /\ Same(r, r) /\ c = Code(r)
  BY <1>8, <1>9, <1>11 DEF c, Same
<1>17. /\ c \in Seq(Nat) /\ Len(c) = Len(Code(r))
       /\ \A x \in Nat : x < one \/ e <= x + k => Byte(c, x) = Byte(Code(r), x)
       /\ Replaces(code, S, c, one, e, k)
       /\ S \in SUBSET S /\ \A a \in S : a < one \/ e <= a => a \in S
       /\ Exact(list, code, S) /\ Relists(list, r.important, c, one, e, k)
  BY <1>5, <1>11, <1>15 DEF c
<1> QED
  BY ONLY <1>16, <1>17, JumpCut, ZenonT(60)

\* A test before a jump.
LEMMA TestJumpKept ==
  ASSUME NEW o, NEW S, Good(o, S), ~Over(o), ~Adjustable(o, Two(o)), ~Adjustable(o, o.one), NEW r \in TestJump(o)
  PROVE  Kept(r, o)
<1> DEFINE pair == TestJumps[FirstOp(o)]
           name == IF SecondOp(o) = "JUMP_IF_TRUE" THEN pair[1] ELSE pair[2]
<1>1. /\ FirstOp(o) \in DOMAIN TestJumps /\ SecondOp(o) \in {"JUMP_IF_TRUE", "JUMP_IF_FALSE"}
      /\ r = Update(Rewrite(o, o.one, 1), o.one, name)
  BY DEF TestJump
<1>2. /\ DOMAIN TestJumps = {"EQUAL", "NOT_EQUAL", "LESS", "GREATER", "LESS_EQUAL", "GREATER_EQUAL", "NOT"}
      /\ \A test \in DOMAIN TestJumps :
           TestJumps[test][1] \in ConditionalJumps /\ TestJumps[test][2] \in ConditionalJumps
  BY DEF TestJumps, ConditionalJumps
<1>3. name \in ConditionalJumps
  BY <1>1, <1>2
<1> HIDE DEF name
<1>4. FirstOp(o) \notin Jumping /\ Width(FirstOp(o)) = 1 /\ Size(FirstOp(o)) = 1
  <2>1. Width(FirstOp(o)) = 1 /\ Size(FirstOp(o)) = 1
    BY <1>1, <1>2, KnownSizes
  <2> QED
    BY <1>1, <1>2, <2>1 DEF Jumping, Forward, Backward, ConditionalJumps
<1>5. name \in Range(OpCodes) /\ name \in Forward /\ Width(name) = 3 /\ Size(name) = 3
  BY <1>3, KnownNames, KnownSizes DEF Forward
<1> QED
  BY <1>1, <1>4, <1>5, JumpTaken

\* A constant truth before a jump: the jump is always taken, or never.
LEMMA KnownJumpKept ==
  ASSUME NEW o, NEW S, Good(o, S), ~Over(o), ~Adjustable(o, Two(o)), ~Adjustable(o, o.one),
         \A i \in DOMAIN o.func.except : o.func.except[i].start \notin (o.one + 1)..(Three(o) - 1),
         NEW r \in KnownJump(o)
  PROVE  Kept(r, o)
<1>1. /\ FirstOp(o) \in {"TRUE", "FALSE"} /\ SecondOp(o) \in {"JUMP_IF_TRUE", "JUMP_IF_FALSE"}
      /\ r = Update(Rewrite(o, o.one, 1), o.one, "JUMP") \/ r = Rewrite(Deletion(o, Two(o)), o.one, 4)
  BY DEF KnownJump, Pair
<1>2. FirstOp(o) \notin Jumping /\ Width(FirstOp(o)) = 1 /\ Size(FirstOp(o)) = 1
  <2>1. Width(FirstOp(o)) = 1 /\ Size(FirstOp(o)) = 1
    BY <1>1, KnownSizes
  <2> QED
    BY <1>1, <2>1 DEF Jumping, Forward, Backward, ConditionalJumps
<1>3. CASE r = Update(Rewrite(o, o.one, 1), o.one, "JUMP")
  <2> DEFINE name == "JUMP"
  <2>1. name \in Range(OpCodes) /\ name \in Forward /\ Width(name) = 3 /\ Size(name) = 3
    BY KnownNames, KnownSizes DEF Forward
  <2>2. r = Update(Rewrite(o, o.one, 1), o.one, name)
    BY <1>3
  <2> HIDE DEF name
  <2> QED
    BY <1>1, <1>2, <2>1, <2>2, JumpTaken
<1>4. CASE r = Rewrite(Deletion(o, Two(o)), o.one, 4)
  BY <1>1, <1>2, <1>4, JumpNever
<1> QED
  BY <1>1, <1>3, <1>4

-----------------------------------------------------------------------------
(* The loop of optimize() *)

\* Going on to the next instruction.
LEMMA AdvanceKept ==
  ASSUME NEW o, NEW S, Good(o, S), ~Over(o), NEW r, r = Advance(o)
  PROVE  Kept(r, o)
<1> DEFINE two == Two(o)
           code == Code(o)
<1>1. two \in S /\ two \in Nat /\ o.one \in Nat /\ o.one < two /\ Seen(code, S, two)
  <2>1. /\ two = Two(o) /\ code = Code(o)
    OBVIOUS
  <2> HIDE DEF two, code
  <2> QED
    BY <2>1, Window
<1>2. DOMAIN o = {"func", "important", "zero", "one", "failed", "aborted"} /\ r = [o EXCEPT !.one = two]
  BY DEF Good, Shaped, Advance
<1>3. /\ DOMAIN r = DOMAIN o /\ r.func = o.func /\ r.important = o.important /\ r.zero = o.zero
      /\ r.failed = o.failed /\ r.one = two
  <2> HIDE DEF two
  <2> QED
    BY <1>2
<1> HIDE DEF two
<1>4. r.zero = -1 \/ (r.zero \in S /\ r.zero <= r.one /\ Seen(code, S, r.zero))
  <2>1. o.zero = -1 \/ (o.zero \in S /\ o.zero <= o.one /\ Seen(code, S, o.zero))
    BY DEF Good
  <2>2. \A a \in S : a \in Nat
    BY Addresses DEF Good
  <2> QED
    <3>1. CASE o.zero = -1
      BY <1>3, <3>1
    <3>2. CASE o.zero \in S /\ o.zero <= o.one /\ Seen(code, S, o.zero)
      <4> DEFINE z == o.zero
      <4>1. z \in Nat /\ z <= o.one
        BY <2>2, <3>2
      <4> HIDE DEF z
      <4>2. z <= two
        BY <1>1, <4>1
      <4> QED
        BY <1>3, <3>2, <4>2 DEF z
    <3> QED
      BY <2>1, <3>1, <3>2
<1>5. Good(r, S)
  <2>1. Code(r) = Code(o)
    BY <1>3 DEF Code
  <2>2. Shaped(r)
    BY <1>3 DEF Good, Shaped
  <2> QED
    BY <1>1, <1>3, <1>4, <2>1, <2>2 DEF Good
<1> QED
  BY <1>3, <1>5 DEF Kept

\* Only where the search for constants began is changed.
Scanned(q, o) ==
  /\ q.func = o.func /\ q.important = o.important /\ q.one = o.one
  /\ q.failed = o.failed /\ q.aborted = o.aborted
  /\ Pair(o, "CONSTANT", "CONSTANT") => q.zero # -1

\* Remembering where a run of constants begins.
LEMMA ScanKept ==
  ASSUME NEW o, NEW S, Good(o, S), ~Over(o), NEW q, q = Scan(o)
  PROVE  Good(q, S) /\ Scanned(q, o)
<1> DEFINE code == Code(o)
           zero == IF SecondOp(o) # "CONSTANT" THEN -1 ELSE IF o.zero = -1 THEN o.one ELSE o.zero
<1>1. DOMAIN o = {"func", "important", "zero", "one", "failed", "aborted"}
  BY DEF Good, Shaped
<1>2. o.one \in S /\ o.one \in Nat
  BY Window
<1>3. o.zero = -1 \/ (o.zero \in S /\ o.zero <= o.one /\ Seen(code, S, o.zero))
  BY DEF Good
<1>4. Seen(code, S, o.one) /\ \A a \in S : a \in Nat
  BY Addresses DEF Good
<1>5. zero = -1 \/ (zero \in S /\ zero <= o.one /\ Seen(code, S, zero))
  BY <1>2, <1>3, <1>4
<1>6. Pair(o, "CONSTANT", "CONSTANT") => zero # -1
  BY <1>2 DEF Pair
<1>7. CASE FirstOp(o) # "CONSTANT"
  <2>1. q = o
    BY <1>7 DEF Scan
  <2>2. ~Pair(o, "CONSTANT", "CONSTANT")
    BY <1>7 DEF Pair
  <2> QED
    BY <2>1, <2>2 DEF Scanned
<1>8. CASE FirstOp(o) = "CONSTANT"
  <2>1. q = [o EXCEPT !.zero = zero]
    BY <1>8 DEF Scan
  <2> HIDE DEF zero
  <2>2. /\ DOMAIN q = DOMAIN o /\ q.func = o.func /\ q.important = o.important /\ q.one = o.one
        /\ q.failed = o.failed /\ q.aborted = o.aborted /\ q.zero = zero
    BY <1>1, <2>1
  <2>3. Code(q) = Code(o) /\ Shaped(q)
    BY <2>2 DEF Code, Good, Shaped
  <2>4. Good(q, S)
    BY <1>5, <2>2, <2>3 DEF Good
  <2> QED
    BY <1>6, <2>2, <2>4 DEF Scanned
<1> QED
  BY <1>7, <1>8

\* What is read of an optimizer does not depend on where a run of constants began.
LEMMA ScannedSame ==
  ASSUME NEW o, NEW q, Scanned(q, o)
  PROVE  /\ Code(q) = Code(o) /\ FirstOp(q) = FirstOp(o) /\ Two(q) = Two(o) /\ SecondOp(q) = SecondOp(o)
         /\ Three(q) = Three(o) /\ ThirdOp(q) = ThirdOp(o)
         /\ Over(q) = Over(o) /\ \A t : Adjustable(q, t) = Adjustable(o, t)
         /\ \A at : ConstantAt(q, at) = ConstantAt(o, at)
<1>1. /\ q.func = o.func /\ q.important = o.important /\ q.one = o.one
      /\ q.failed = o.failed /\ q.aborted = o.aborted
  BY DEF Scanned
<1>2. Code(q) = Code(o)
  BY <1>1 DEF Code
<1>3. FirstOp(q) = FirstOp(o)
  BY <1>1, <1>2 DEF FirstOp
<1>4. Two(q) = Two(o)
  BY <1>1, <1>3 DEF Two
<1>5. SecondOp(q) = SecondOp(o)
  BY <1>2, <1>4 DEF SecondOp
<1>6. Three(q) = Three(o)
  BY <1>4, <1>5 DEF Three
<1>7. ThirdOp(q) = ThirdOp(o)
  BY <1>2, <1>6 DEF ThirdOp
<1>8. Over(q) = Over(o)
  BY <1>1, <1>2, <1>4 DEF Over, Stopped
<1>9. \A t : Adjustable(q, t) = Adjustable(o, t)
  BY <1>1, <1>2 DEF Adjustable
<1>10. \A at : ConstantAt(q, at) = ConstantAt(o, at)
  BY <1>1, <1>2 DEF ConstantAt
<1> QED
  BY <1>2, <1>3, <1>4, <1>5, <1>6, <1>7, <1>8, <1>9, <1>10

\* no except range begins after the first byte of the instructions up to an address
Whole(o, last) == \A i \in DOMAIN o.func.except : o.func.except[i].start \notin (o.one + 1)..last

\* what the rules take for granted of an optimizer
Harmless(o) ==
  /\ IncrementLoop(o) # {} => ~Adjustable(o, Two(o))
  /\ PopBeforeVoid(o) # {} => Whole(o, Two(o) - 1)
  /\ PopBeforeVoid(o) \cup PopTwo(o) # {} => ~LoopsTo(o, o.one)
  /\ GreaterLocals(o) \cup LocalIncrement(o) \cup IncrementAndSet(o) \cup FoldTwo(o) # {}
       => ~Adjustable(o, Three(o)) /\ Whole(o, Three(o))
  /\ KnownJump(o) # {} => Whole(o, Three(o) - 1)

\* The rules that do not ask for a jump.
LEMMA UnguardedKept ==
  ASSUME NEW o, NEW S, Good(o, S), ~Over(o), Harmless(o), NEW r \in Unguarded(o)
  PROVE  Kept(r, o)
<1>1. CASE r \in IncrementLoop(o)
  <2>1. ~Adjustable(o, Two(o))
    BY <1>1 DEF Harmless
  <2> QED
    BY <1>1, <2>1, IncrementLoopKept
<1>2. CASE r \in PopBeforeVoid(o)
  <2>1. Whole(o, Two(o) - 1) /\ ~LoopsTo(o, o.one)
    BY <1>2 DEF Harmless
  <2> QED
    BY <1>2, <2>1, PopBeforeVoidKept DEF Whole
<1> QED
  BY <1>1, <1>2 DEF Unguarded

\* The rules for when no jump leads to the second instruction.
LEMMA GuardedSecondKept ==
  ASSUME NEW o, NEW S, Good(o, S), ~Over(o), Harmless(o), ~Adjustable(o, Two(o)), NEW r \in GuardedSecond(o)
  PROVE  Kept(r, o)
<1>1. CASE r \in TwoLocals(o)
  BY <1>1, TwoLocalsKept
<1>2. CASE r \in GreaterLocals(o)
  <2>1. ~Adjustable(o, Three(o)) /\ Whole(o, Three(o))
    BY <1>2 DEF Harmless
  <2> QED
    BY <1>2, <2>1, GreaterLocalsKept DEF Whole
<1>3. CASE r \in PopTwo(o)
  <2>1. ~LoopsTo(o, o.one)
    BY <1>3 DEF Harmless
  <2> QED
    BY <1>3, <2>1, PopTwoKept
<1>4. CASE r \in PopThree(o)
  BY <1>4, PopThreeKept
<1>5. CASE r \in PopMore(o)
  BY <1>5, PopMoreKept
<1> QED
  BY <1>1, <1>2, <1>3, <1>4, <1>5 DEF GuardedSecond

\* The rule about two constants applies whether the run of constants is remembered or not.
LEMMA FoldTwoScanned ==
  ASSUME NEW o, NEW q, Scanned(q, o)
  PROVE  /\ FoldTwo(q) # {} => FoldTwo(o) # {} /\ Pair(o, "CONSTANT", "CONSTANT")
         /\ ByZero(q) => FoldTwo(o) = {[o EXCEPT !.failed = TRUE]}
<1>1. /\ Pair(q, "CONSTANT", "CONSTANT") = Pair(o, "CONSTANT", "CONSTANT") /\ ThirdOp(q) = ThirdOp(o)
      /\ ConstantAt(q, q.one) = ConstantAt(o, o.one) /\ ConstantAt(q, Two(q)) = ConstantAt(o, Two(o))
  BY ScannedSame DEF Pair, Scanned
<1>2. ByZero(q) = ByZero(o)
  BY <1>1 DEF ByZero
<1>3. ByZero(o) => FoldTwo(o) = {[o EXCEPT !.failed = TRUE]}
  BY DEF FoldTwo, ByZero
<1> DEFINE values == Folded(ThirdOp(o), ConstantAt(o, o.one), ConstantAt(o, Two(o)))
           fold(c, value) == [Rewrite(Replace(c, value), Two(c), 3) EXCEPT !.one = c.zero]
<1>4. Pair(o, "CONSTANT", "CONSTANT") /\ ~ByZero(o) => FoldTwo(o) = {fold(o, value) : value \in values}
  BY DEF FoldTwo, ByZero
<1>5. Pair(o, "CONSTANT", "CONSTANT") /\ ~ByZero(o) => FoldTwo(q) = {fold(q, value) : value \in values}
  BY <1>1, <1>2 DEF FoldTwo, ByZero
<1>6. ~Pair(o, "CONSTANT", "CONSTANT") => FoldTwo(q) = {}
  BY <1>1 DEF FoldTwo
<1> HIDE DEF values, fold
<1> QED
  BY <1>2, <1>3, <1>4, <1>5, <1>6

\* The rules for when no jump leads to the first instruction either.
LEMMA GuardedFirstKept ==
  ASSUME NEW o, NEW S, Good(o, S), ~Over(o), Harmless(o), ~Adjustable(o, Two(o)), ~Adjustable(o, o.one),
         NEW q, q = Scan(o), NEW r \in GuardedFirst(q)
  PROVE  Kept(r, o) \/ (r = [q EXCEPT !.failed = TRUE] /\ FoldTwo(o) = {[o EXCEPT !.failed = TRUE]})
<1>1. Good(q, S) /\ Scanned(q, o)
  BY ScanKept
<1>2. /\ FirstOp(q) = FirstOp(o) /\ Two(q) = Two(o) /\ Three(q) = Three(o) /\ q.func = o.func /\ q.one = o.one
      /\ q.failed = o.failed /\ ~Over(q) /\ \A t : Adjustable(q, t) = Adjustable(o, t)
  BY <1>1, ScannedSame DEF Scanned
<1>3. ~Adjustable(q, Two(q)) /\ ~Adjustable(q, q.one)
  BY <1>2
<1>4. ASSUME Kept(r, q) PROVE Kept(r, o)
  BY <1>2, <1>4 DEF Kept
<1>5. \A last : Whole(o, last) => \A i \in DOMAIN q.func.except : q.func.except[i].start \notin (q.one + 1)..last
  BY <1>2 DEF Whole
<1>6. FirstOp(o) # "CONSTANT" => q = o
  BY DEF Scan
<1>7. CASE r \in ReturnBeforeVoid(q)
  BY <1>1, <1>2, <1>3, <1>4, <1>7, ReturnBeforeVoidKept
<1>8. CASE r \in CallInTail(q)
  BY <1>1, <1>2, <1>4, <1>8, CallInTailKept
<1>9. CASE r \in GlobalProperty(q)
  BY <1>1, <1>2, <1>3, <1>4, <1>9, GlobalPropertyKept
<1>10. CASE r \in LocalIncrement(q)
  <2>1. q = o
    BY <1>2, <1>6, <1>10 DEF LocalIncrement, Pair
  <2>2. ~Adjustable(q, Three(q)) /\ Whole(o, Three(q))
    BY <1>10, <2>1 DEF Harmless
  <2> QED
    BY <1>1, <1>2, <1>3, <1>4, <1>5, <1>10, <2>2, LocalIncrementKept
<1>11. CASE r \in LocalsOperation(q)
  BY <1>1, <1>2, <1>3, <1>4, <1>11, LocalsOperationKept
<1>12. CASE r \in IncrementAndSet(q)
  <2>1. q = o
    BY <1>2, <1>6, <1>12 DEF IncrementAndSet, Pair
  <2>2. ~Adjustable(q, Three(q)) /\ Whole(o, Three(q))
    BY <1>12, <2>1 DEF Harmless
  <2> QED
    BY <1>1, <1>2, <1>3, <1>4, <1>5, <1>12, <2>2, IncrementAndSetKept
<1>13. CASE r \in FoldTwo(q)
  <2>1. FoldTwo(o) # {} /\ q.zero # -1
    BY <1>1, <1>13, FoldTwoScanned DEF Scanned
  <2>2. ~Adjustable(q, Three(q)) /\ Whole(o, Three(q))
    BY <1>2, <2>1 DEF Harmless
  <2>3. Kept(r, q) \/ (r = [q EXCEPT !.failed = TRUE] /\ ByZero(q))
    BY <1>1, <1>2, <1>3, <1>5, <1>13, <2>1, <2>2, FoldTwoKept
  <2> QED
    BY <1>1, <1>4, <2>3, FoldTwoScanned
<1>14. CASE r \in FoldOne(q)
  BY <1>1, <1>2, <1>3, <1>4, <1>14, FoldOneKept
<1>15. CASE r \in ConstantIncrement(q)
  BY <1>1, <1>2, <1>3, <1>4, <1>15, ConstantIncrementKept
<1>16. CASE r \in TestJump(q)
  BY <1>1, <1>2, <1>3, <1>4, <1>16, TestJumpKept
<1>17. CASE r \in KnownJump(q)
  <2>1. q = o
    BY <1>2, <1>6, <1>17 DEF KnownJump, Pair
  <2>2. Whole(o, Three(q) - 1)
    BY <1>17, <2>1 DEF Harmless
  <2> QED
    BY <1>1, <1>2, <1>3, <1>4, <1>5, <1>17, <2>2, KnownJumpKept
<1> QED
  BY <1>7, <1>8, <1>9, <1>10, <1>11, <1>12, <1>13, <1>14, <1>15, <1>16, <1>17 DEF GuardedFirst

\* One turn of the loop.
LEMMA TurnKept ==
  ASSUME NEW o, NEW S, Good(o, S), ~Over(o), Harmless(o), NEW r, r = Turn(o)
  PROVE  /\ \E T : Good(r, T)
         /\ r.failed => FoldTwo(o) = {[o EXCEPT !.failed = TRUE]}
<1> DEFINE q == Scan(o)
<1>1. Good(q, S) /\ Scanned(q, o) /\ q = Scan(o)
  BY ScanKept
<1> HIDE DEF q
<1>2. ~o.failed
  BY DEF Over, Stopped
<1>3. ASSUME Kept(r, o) PROVE (\E T : Good(r, T)) /\ ~r.failed
  BY <1>2, <1>3 DEF Kept
<1>4. CASE r \in Unguarded(o)
  BY <1>3, <1>4, UnguardedKept
<1>5. CASE r = Advance(o)
  BY <1>3, <1>5, AdvanceKept
<1>6. CASE ~Adjustable(o, Two(o)) /\ r \in GuardedSecond(o)
  BY <1>3, <1>6, GuardedSecondKept
<1>7. CASE ~Adjustable(o, Two(o)) /\ ~Adjustable(o, o.one) /\ r \in GuardedFirst(q)
  <2>1. Kept(r, o) \/ (r = [q EXCEPT !.failed = TRUE] /\ FoldTwo(o) = {[o EXCEPT !.failed = TRUE]})
    BY <1>1, <1>7, GuardedFirstKept
  <2>2. ASSUME r = [q EXCEPT !.failed = TRUE] PROVE Good(r, S)
    <3>1. DOMAIN q = {"func", "important", "zero", "one", "failed", "aborted"}
      BY <1>1 DEF Good, Shaped
    <3>2. /\ DOMAIN r = DOMAIN q /\ r.func = q.func /\ r.important = q.important /\ r.one = q.one /\ r.zero = q.zero
      BY <2>2, <3>1
    <3>3. Code(r) = Code(q) /\ Shaped(r)
      BY <1>1, <3>1, <3>2 DEF Code, Good, Shaped
    <3> QED
      BY <1>1, <3>2, <3>3 DEF Good
  <2> QED
    BY <1>3, <2>1, <2>2
<1>8. CASE r = Advance(q)
  <2>1. ~Over(q) /\ q.failed = o.failed
    BY <1>1, ScannedSame DEF Scanned
  <2>2. Kept(r, q)
    BY <1>1, <1>8, <2>1, AdvanceKept
  <2> QED
    BY <1>3, <2>1, <2>2 DEF Kept
<1>9. \/ r \in Unguarded(o) \/ r = Advance(o)
      \/ ~Adjustable(o, Two(o)) /\ r \in GuardedSecond(o)
      \/ ~Adjustable(o, Two(o)) /\ ~Adjustable(o, o.one) /\ r \in GuardedFirst(q)
      \/ r = Advance(q)
  BY <1>1 DEF Turn
<1> QED
  BY <1>3, <1>4, <1>5, <1>6, <1>7, <1>8, <1>9

-----------------------------------------------------------------------------
(* What the compiler hands over, and what the properties say *)

\* Bytes are numbers.
LEMMA BytesOfCode ==
  ASSUME NEW code, code \in Seq(0..255)
  PROVE  code \in Seq(Nat) /\ \A j \in 1..Len(code) : code[j] \in Nat /\ code[j] <= 255
<1> DEFINE V == 0..255
<1>1. V \subseteq Nat /\ \A v \in V : v <= 255
  OBVIOUS
<1>2. code \in Seq(V)
  OBVIOUS
<1> HIDE DEF V
<1>3. code \in [1..Len(code) -> V] /\ Len(code) \in Nat
  BY ONLY <1>2
<1>4. code \in [1..Len(code) -> Nat]
  BY ONLY <1>1, <1>3
<1>5. code \in Seq(Nat)
  BY ONLY <1>3, <1>4
<1> QED
  BY <1>1, <1>3, <1>5

\* The optimizer starts on a function of the compiler.
LEMMA CompiledGood ==
  ASSUME NEW func, Compiled(func)
  PROVE  Good(Optimizer(func), Starts(func.code))
<1> DEFINE o == Optimizer(func)
           code == func.code
           S == Starts(code)
<1>1. /\ DOMAIN o = {"func", "important", "zero", "one", "failed", "aborted"} /\ o.func = func
      /\ o.important = Interest(code) /\ o.zero = -1 /\ o.one = 0 /\ Code(o) = code
  BY DEF Optimizer, Code
<1>2. /\ DOMAIN func = {"code", "constants", "except", "arity"}
      /\ code \in Seq(0..ByteMax) /\ func.constants \in Seq(Range(func.constants))
      /\ WellFormed(func) /\ Nested(func.except)
      /\ \A at \in S :
           /\ at + Width(OpAt(code, at)) <= Len(code)
           /\ Size(OpAt(code, at)) = Width(OpAt(code, at)) \/ Size(OpAt(code, at + 1)) = 1
           /\ OpAt(code, at) \in Backward => LeadsTo(code, at) <= at
      /\ \A i \in DOMAIN func.except :
           LET range == func.except[i]
           IN /\ range \in [start : Nat, end : Nat, locals : Nat] /\ range.start <= range.end
              /\ range.end - 3 \in S /\ OpAt(code, range.end - 3) = "JUMP"
  BY DEF Compiled
<1>3. code \in Seq(Nat) /\ \A j \in 1..Len(code) : code[j] \in Nat /\ code[j] <= 255
  <2>1. code \in Seq(0..255)
    BY <1>2 DEF ByteMax
  <2> HIDE DEF code
  <2> QED
    BY ONLY <2>1, BytesOfCode
<1> HIDE DEF o, code, S
<1>4. S = Starts(code) /\ code = func.code /\ o = Optimizer(func)
  BY DEF S, code, o
<1>5. Framed(code, S)
  BY <1>2, <1>3, <1>4, StartsFrame
<1>6. Judged(code, S) /\ Seen(code, S, 0)
  <2>1. \A a \in S : 0 # a + 1
    BY <1>3, <1>5, Addresses
  <2> QED
    BY <1>2, <2>1 DEF Judged, Seen
<1>7. \A x : Short(code, x) <= ShortMax
  <2>1. \A x : Byte(code, x) \in Nat /\ Byte(code, x) <= 255
    <3>1. Op["VOID"] \in Nat /\ Op["VOID"] <= 255
      <4>1. Op["VOID"] \in Nat /\ Op["VOID"] < Len(OpCodes)
        BY KnownNames, OpBytes
      <4>2. Len(OpCodes) = 89
        BY DEF OpCodes
      <4> QED
        BY <4>1, <4>2
    <3> TAKE x
    <3>2. CASE x \in 0..(Len(code) - 1)
      <4>1. x + 1 \in 1..Len(code)
        BY <1>3, <3>2
      <4> QED
        BY <1>3, <3>2, <4>1 DEF Byte
    <3>3. CASE x \notin 0..(Len(code) - 1)
      BY <3>1, <3>3 DEF Byte
    <3> QED
      BY <3>2, <3>3
  <2> TAKE x
  <2>2. Byte(code, x) \in Nat /\ Byte(code, x) <= 255 /\ Byte(code, x + 1) \in Nat /\ Byte(code, x + 1) <= 255
    BY <2>1
  <2> QED
    BY <2>2 DEF Short, ShortMax
<1>8. Lands(code, S)
  <2>1. \A a \in S : OpAt(code, a) \in Jumping => LeadsTo(code, a) \in S
    BY <1>2, <1>4 DEF WellFormed, JumpsOf
  <2> QED
    BY <1>2, <1>7, <2>1 DEF Lands
<1>9. Exact(Interest(code), code, S)
  BY <1>3, <1>5, <1>6, InterestExact
<1>10. Ranged(func.except, code, S)
  <2>1. \A i \in DOMAIN func.except : func.except[i].end \in S
    BY <1>2, <1>4 DEF WellFormed
  <2> QED
    BY <1>2, <2>1 DEF Ranged
<1>11. 0 \in S \cup {Len(code)}
  BY <1>5 DEF Framed
<1>12. Good(o, S)
  <2>1. Shaped(o)
    BY <1>1, <1>2 DEF Shaped
  <2> QED
    BY <1>1, <1>2, <1>3, <1>5, <1>6, <1>8, <1>9, <1>10, <1>11, <2>1 DEF Good
<1> QED
  BY <1>4, <1>12

\* What is good has jumps that land, an exact list and nested ranges.
LEMMA GoodSays ==
  ASSUME NEW o, NEW S, Good(o, S)
  PROVE  /\ WellFormed(o.func) /\ Nested(o.func.except)
         /\ {[index |-> at, name |-> OpAt(o.func.code, at)] : at \in JumpsOf(o.func.code)} = Range(o.important)
<1> DEFINE code == o.func.code
           list == o.important
<1>1. /\ code \in Seq(Nat) /\ Framed(code, S) /\ Lands(code, S) /\ Exact(list, code, S)
      /\ Ranged(o.func.except, code, S) /\ Nested(o.func.except)
  BY DEF Good, Code
<1> HIDE DEF code, list
<1>2. Starts(code) = S /\ JumpsOf(code) = {a \in S : OpAt(code, a) \in Jumping}
  BY <1>1, FramedOnce DEF JumpsOf
<1>3. WellFormed(o.func)
  <2>1. \A at \in JumpsOf(code) : LeadsTo(code, at) \in S
    BY <1>1, <1>2 DEF Lands
  <2>2. \A i \in DOMAIN o.func.except : o.func.except[i].end \in S
    BY <1>1 DEF Ranged
  <2> QED
    BY <1>2, <2>1, <2>2 DEF WellFormed, code
<1>4. {[index |-> at, name |-> OpAt(code, at)] : at \in JumpsOf(code)} = Range(list)
  <2>1. ASSUME NEW at \in JumpsOf(code) PROVE [index |-> at, name |-> OpAt(code, at)] \in Range(list)
    <3>1. PICK j \in DOMAIN list : list[j].index = at
      BY <1>1, <1>2, <2>1 DEF Exact
    <3>2. list[j] \in Views /\ list[j].name = OpAt(code, at)
      BY <1>1, <3>1 DEF Exact
    <3>3. list[j] = [index |-> at, name |-> OpAt(code, at)]
      BY <3>1, <3>2 DEF Views
    <3> QED
      BY <3>3 DEF Range
  <2>2. ASSUME NEW j \in DOMAIN list
        PROVE  list[j] \in {[index |-> at, name |-> OpAt(code, at)] : at \in JumpsOf(code)}
    <3>1. list[j] \in Views /\ list[j].index \in S /\ list[j].name = OpAt(code, list[j].index)
      BY <1>1 DEF Exact
    <3>2. list[j] = [index |-> list[j].index, name |-> OpAt(code, list[j].index)] /\ list[j].name \in Jumping
      BY <3>1 DEF Views
    <3>3. list[j].index \in JumpsOf(code)
      BY <1>2, <3>1, <3>2
    <3> QED
      BY <3>2, <3>3
  <2> QED
    BY <2>1, <2>2 DEF Range
<1> QED
  BY <1>1, <1>3, <1>4 DEF code, list

-----------------------------------------------------------------------------
(* Theorems *)

\* The optimizer is good for some addresses: the starts of its instructions.
Orderly == \E S : Good(optimizer, S)

\* The optimizer begins in order.
LEMMA OrderlyBegins ==
  ASSUME OptimizeInit
  PROVE  Orderly
<1>1. Compiled(optimizer.func) /\ optimizer = Optimizer(optimizer.func)
  BY DEF OptimizeInit
<1>2. Good(Optimizer(optimizer.func), Starts(optimizer.func.code))
  BY <1>1, CompiledGood
<1> QED
  BY <1>1, <1>2 DEF Orderly

\* What Undisturbed says of the optimizer.
LEMMA UndisturbedHarmless ==
  ASSUME Undisturbed, ~Over(optimizer)
  PROVE  Harmless(optimizer)
BY DEF Undisturbed, Harmless, Whole

\* A step keeps the optimizer in order, and it does not fail to find a jump.
LEMMA OrderlyStep ==
  ASSUME Orderly, Undisturbed, [OptimizeNext]_optimizer
  PROVE  /\ Orderly'
         /\ optimizer' # optimizer /\ optimizer'.failed => FoldTwo(optimizer) = {[optimizer EXCEPT !.failed = TRUE]}
<1>1. PICK S : Good(optimizer, S)
  BY DEF Orderly
<1>2. CASE OptimizeTurn
  <2>1. ~Over(optimizer) /\ optimizer' = Turn(optimizer)
    BY <1>2 DEF OptimizeTurn
  <2>2. Harmless(optimizer)
    BY <2>1, UndisturbedHarmless
  <2>3. /\ \E T : Good(optimizer', T)
        /\ optimizer'.failed => FoldTwo(optimizer) = {[optimizer EXCEPT !.failed = TRUE]}
    BY <1>1, <2>1, <2>2, TurnKept
  <2> QED
    BY <2>3 DEF Orderly
<1>3. CASE Begin
  <2>1. Compiled(optimizer'.func) /\ optimizer' = Optimizer(optimizer'.func)
    BY <1>3 DEF Begin
  <2>2. Good(Optimizer(optimizer'.func), Starts(optimizer'.func.code))
    BY <2>1, CompiledGood
  <2>3. ~optimizer'.failed
    <3> DEFINE func == optimizer'.func
    <3>1. Optimizer(func).failed = FALSE
      BY DEF Optimizer
    <3> QED
      BY <2>1, <3>1
  <2> QED
    BY <2>1, <2>2, <2>3 DEF Orderly
<1>4. CASE optimizer' = optimizer
  BY <1>1, <1>4 DEF Orderly
<1> QED
  BY <1>2, <1>3, <1>4 DEF OptimizeNext

\* As long as the compiler hands over what the rules take for granted, the optimizer stays in order.
THEOREM OrderlyAlways == Optimizing /\ []Undisturbed => []Orderly
<1>1. OptimizeInit => Orderly
  BY OrderlyBegins
<1>2. Orderly /\ Undisturbed /\ [OptimizeNext]_optimizer => Orderly'
  BY OrderlyStep
<1> QED
  BY <1>1, <1>2, PTL DEF Optimizing

\* JumpsLand: as long as the compiler hands over what the rules take for granted, every jump,
\* every loop and every handler leads to the beginning of an instruction after any number of
\* rewrites, whatever the functions and however often the rules apply.
THEOREM JumpsLandAlways == Optimizing /\ []Undisturbed => []JumpsLand
<1>1. Orderly => JumpsLand
  BY GoodSays DEF Orderly, JumpsLand
<1> QED
  BY <1>1, OrderlyAlways, PTL

\* ImportantExact: the list of jumps that rewrite() goes through is the jumps of the code.
THEOREM ImportantExactAlways == Optimizing /\ []Undisturbed => []ImportantExact
<1>1. Orderly => ImportantExact
  BY GoodSays DEF Orderly, ImportantExact
<1> QED
  BY <1>1, OrderlyAlways, PTL

\* ExceptNested: the except ranges stay nested or apart, the inner one first, so that
\* exception() finds the innermost handler.
THEOREM ExceptNestedAlways == Optimizing /\ []Undisturbed => []ExceptNested
<1>1. Orderly => ExceptNested
  BY GoodSays DEF Orderly, ExceptNested
<1> QED
  BY <1>1, OrderlyAlways, PTL

\* JumpsFound: the exits of important_move, update and delete for a jump that is
\* not in the list are never taken, in a build with NDEBUG or, until an assertion of rewrite()
\* aborts the program, in one without.
THEOREM JumpsFoundAlways == Optimizing /\ []Undisturbed => JumpsFound
<1>1. Orderly /\ Undisturbed /\ [OptimizeNext]_optimizer
        => [optimizer'.failed => FoldTwo(optimizer) = {[optimizer EXCEPT !.failed = TRUE]}]_optimizer
  BY OrderlyStep
<1> QED
  BY <1>1, OrderlyAlways, PTL DEF Optimizing, JumpsFound

=============================================================================
