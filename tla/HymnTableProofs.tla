-------------------------- MODULE HymnTableProofs --------------------------
(***************************************************************************)
(* Theorems about HymnTable, for any keys, hashes and numbers of bins.     *)
(*                                                                         *)
(* First the shape of a sound table and what each function of the code     *)
(* does to its content: its items, as a set.  Then the functions that walk *)
(* over all chains, and the order in which a loop does.  The invariant of  *)
(* the specification is at the end: the table is sound, and the loop has   *)
(* been at the keys up to the one it is at, and at no other.               *)
(***************************************************************************)
EXTENDS HymnTable, HymnLemmas

Bins(t) == 0..(t.bins - 1)

\* the items of a table
Content(t) == UNION {{t.items[b][i] : i \in DOMAIN t.items[b]} : b \in Bins(t)}

\* a chain of the bin b of a table with so many bins
Chained(c, bins, b) ==
  /\ c \in Seq(Item)
  /\ \A i \in DOMAIN c : BinOf(bins, c[i].key) = b
  /\ \A i, j \in DOMAIN c : c[i].key = c[j].key => i = j

Record(t) == t = [bins |-> t.bins, items |-> t.items, size |-> t.size]

Shaped(t) ==
  /\ Record(t)
  /\ t.bins \in Nat \ {0}
  /\ DOMAIN t.items = Bins(t) /\ t.items = [b \in Bins(t) |-> t.items[b]]
  /\ \A b \in Bins(t) : Chained(t.items[b], t.bins, b)

Sized(t) ==
  /\ t.bins \in InitialBins..MaximumBins
  /\ MaximumBins % t.bins = 0
  /\ t.size = Cardinality(KeysOf(t))
  /\ t.size < Capacity(t.bins) \/ t.bins = MaximumBins

\* A key has a bin.
LEMMA BinType ==
  ASSUME NEW bins \in Nat \ {0}, NEW k \in Keys
  PROVE  BinOf(bins, k) \in 0..(bins - 1)
<1>1. Hash[k] \in Nat
  BY TableAssumption
<1>2. \A h \in Nat : \A d \in Nat \ {0} : h % d \in 0..(d - 1)
  BY SMT
<1> QED
  BY <1>1, <1>2 DEF BinOf

\* The chain a key is looked up in is a chain of its bin.
LEMMA ChainOf ==
  ASSUME NEW t, Shaped(t), NEW k \in Keys
  PROVE  /\ BinOf(t.bins, k) \in Bins(t)
         /\ Chain(t, k) = t.items[BinOf(t.bins, k)]
         /\ Chained(Chain(t, k), t.bins, BinOf(t.bins, k))
BY BinType DEF Shaped, Chain, Bins

\* An item of a table is at one place, in the chain of its key.
LEMMA Located ==
  ASSUME NEW t, Shaped(t), NEW x \in Content(t)
  PROVE  /\ x \in Item
         /\ \E i \in DOMAIN Chain(t, x.key) :
              Chain(t, x.key)[i] = x /\ Places(t, x.key) = {i}
<1>0. PICK b \in Bins(t) : \E i \in DOMAIN t.items[b] : x = t.items[b][i]
  BY DEF Content
<1>1. PICK i \in DOMAIN t.items[b] : x = t.items[b][i]
  BY <1>0
<1>2. Chained(t.items[b], t.bins, b)
  BY DEF Shaped
<1>3. x \in Item
  BY <1>1, <1>2 DEF Chained
<1>4. BinOf(t.bins, x.key) = b
  BY <1>1, <1>2 DEF Chained
<1>5. Chain(t, x.key) = t.items[b]
  BY <1>4 DEF Chain
<1>6. \A j \in DOMAIN t.items[b] : t.items[b][j].key = x.key => j = i
  BY <1>1, <1>2 DEF Chained
<1>7. Places(t, x.key) = {i}
  BY <1>1, <1>5, <1>6 DEF Places
<1> QED
  BY <1>1, <1>3, <1>5, <1>7

\* A place of a key holds an item of the table.
LEMMA PlaceFacts ==
  ASSUME NEW t, Shaped(t), NEW k \in Keys, NEW i \in Places(t, k)
  PROVE  /\ i \in DOMAIN Chain(t, k) /\ Places(t, k) = {i}
         /\ Chain(t, k)[i] \in Content(t) /\ Chain(t, k)[i].key = k
<1>1. i \in DOMAIN Chain(t, k) /\ Chain(t, k)[i].key = k
  BY DEF Places
<1>2. Chain(t, k)[i] \in Content(t)
  BY <1>1, ChainOf DEF Content
<1>3. \A j \in Places(t, k) : j = i
  BY <1>1, ChainOf DEF Chained, Places
<1> QED
  BY <1>1, <1>2, <1>3

\* The keys of a table are the keys of its items.
LEMMA KeysOfContent ==
  ASSUME NEW t, Shaped(t)
  PROVE  /\ KeysOf(t) = {x.key : x \in Content(t)}
         /\ KeysOf(t) \in SUBSET Keys
         /\ \A k \in Keys : k \in KeysOf(t) <=> Places(t, k) # {}
<1>1. KeysOf(t) = {x.key : x \in Content(t)}
  <2>1. DOMAIN t.items = Bins(t)
    BY DEF Shaped
  <2> QED
    BY <2>1 DEF KeysOf, Content, ToSet
<1>2. KeysOf(t) \in SUBSET Keys
  BY <1>1, Located DEF Item
<1>3. \A k \in Keys : k \in KeysOf(t) <=> Places(t, k) # {}
  BY <1>1, Located, PlaceFacts
<1> QED
  BY <1>1, <1>2, <1>3

\* The value of a key is the value of its item.
LEMMA ValueFacts ==
  ASSUME NEW t, Shaped(t)
  PROVE  /\ \A x \in Content(t) : ValueOf(t, x.key) = x.value
         /\ \A k \in Keys \ KeysOf(t) : ValueOf(t, k) = UNDEFINED
         /\ \A k \in Keys : ValueOf(t, k) \in Values \cup {UNDEFINED}
         /\ \A k \in KeysOf(t) : ValueOf(t, k) \in Values /\ [key |-> k, value |-> ValueOf(t, k)] \in Content(t)
<1>1. ASSUME NEW x \in Content(t)
      PROVE  ValueOf(t, x.key) = x.value
  <2>1. PICK i \in DOMAIN Chain(t, x.key) : Chain(t, x.key)[i] = x /\ Places(t, x.key) = {i}
    BY Located
  <2>2. (CHOOSE j \in Places(t, x.key) : TRUE) = i
    BY <2>1
  <2> QED
    BY <2>1, <2>2 DEF ValueOf
<1>2. ASSUME NEW k \in Keys \ KeysOf(t)
      PROVE  ValueOf(t, k) = UNDEFINED
  BY KeysOfContent DEF ValueOf
<1>3. ASSUME NEW k \in KeysOf(t)
      PROVE  ValueOf(t, k) \in Values /\ [key |-> k, value |-> ValueOf(t, k)] \in Content(t)
  <2>1. PICK x \in Content(t) : x.key = k
    BY KeysOfContent
  <2>2. x \in Item /\ ValueOf(t, k) = x.value
    BY <1>1, <2>1, Located
  <2>3. x = [key |-> k, value |-> x.value] /\ x.value \in Values
    BY <2>1, <2>2 DEF Item
  <2> QED
    BY <2>2, <2>3
<1> QED
  BY <1>1, <1>2, <1>3

\* When one chain of a table changes ...
LEMMA Rechained ==
  ASSUME NEW t, Shaped(t), NEW b \in Bins(t), NEW c, Chained(c, t.bins, b), NEW n,
         NEW u, u = [bins |-> t.bins, items |-> [t.items EXCEPT ![b] = c], size |-> n]
  PROVE  /\ Shaped(u) /\ u.bins = t.bins /\ u.size = n /\ Bins(u) = Bins(t)
         /\ \A a \in Bins(t) : u.items[a] = IF a = b THEN c ELSE t.items[a]
         /\ \A x : x \in Content(u) <=>
              \/ \E i \in DOMAIN c : x = c[i]
              \/ \E a \in Bins(t) \ {b} : \E i \in DOMAIN t.items[a] : x = t.items[a][i]
<1>1. u.bins = t.bins /\ u.size = n /\ u.items = [t.items EXCEPT ![b] = c]
  OBVIOUS
<1>2. Bins(u) = Bins(t)
  BY <1>1 DEF Bins
<1>3. \A a \in Bins(t) : u.items[a] = IF a = b THEN c ELSE t.items[a]
  BY <1>1 DEF Shaped
<1>4. Record(u)
  BY DEF Record
<1>5. DOMAIN u.items = Bins(t) /\ u.items = [a \in Bins(t) |-> u.items[a]]
  BY <1>1 DEF Shaped
<1>6. Shaped(u)
  BY <1>1, <1>2, <1>3, <1>4, <1>5 DEF Shaped
<1>7. ASSUME NEW x
      PROVE  x \in Content(u) <=>
              \/ \E i \in DOMAIN c : x = c[i]
              \/ \E a \in Bins(t) \ {b} : \E i \in DOMAIN t.items[a] : x = t.items[a][i]
  <2>1. x \in Content(u) <=> \E a \in Bins(t) : \E i \in DOMAIN u.items[a] : x = u.items[a][i]
    BY <1>2 DEF Content
  <2> HIDE DEF Content
  <2> QED
    BY <1>3, <2>1
<1> QED
  BY <1>1, <1>2, <1>3, <1>6, <1>7
IsAppend(d, c, x) == d = Append(c, x)

\* A chain with a new item at its end ...
LEMMA Appended ==
  ASSUME NEW c, NEW bins, NEW b, Chained(c, bins, b),
         NEW x \in Item, BinOf(bins, x.key) = b, \A i \in DOMAIN c : c[i].key # x.key,
         NEW d, IsAppend(d, c, x)
  PROVE  /\ Chained(d, bins, b)
         /\ ToSet(d) = ToSet(c) \cup {x}
<1>1. c \in Seq(Item)
  BY DEF Chained
<1>2. /\ d \in Seq(Item) /\ DOMAIN d = 1..(Len(c) + 1) /\ DOMAIN c = 1..Len(c) /\ Len(c) \in Nat
      /\ \A i \in 1..Len(c) : d[i] = c[i]
      /\ d[Len(c) + 1] = x
  BY <1>1 DEF IsAppend
<1>3. \A i \in DOMAIN d : i \in DOMAIN c \/ i = Len(c) + 1
  BY <1>2
<1>4. Len(c) + 1 \in DOMAIN d /\ DOMAIN c \subseteq DOMAIN d
  BY <1>2
<1>5. \A i \in DOMAIN d : BinOf(bins, d[i].key) = b
  BY <1>2, <1>3 DEF Chained
<1>6. \A i, j \in DOMAIN d : d[i].key = d[j].key => i = j
  BY <1>2, <1>3 DEF Chained
<1>7. Chained(d, bins, b)
  BY <1>2, <1>5, <1>6 DEF Chained
<1>8. ToSet(d) = ToSet(c) \cup {x}
  BY <1>2, <1>3, <1>4 DEF ToSet
<1> QED
  BY <1>7, <1>8

\* ... one whose item at a place is another item of the same key ...
LEMMA Overwritten ==
  ASSUME NEW c, NEW bins, NEW b, Chained(c, bins, b), NEW p \in DOMAIN c,
         NEW x \in Item, x.key = c[p].key,
         NEW d, DOMAIN d = DOMAIN c, d \in Seq(Item),
         \A i \in DOMAIN c : d[i] = IF i = p THEN x ELSE c[i]
  PROVE  /\ Chained(d, bins, b)
         /\ \A i \in DOMAIN c : d[i].key = c[i].key
         /\ \A y : (\E i \in DOMAIN d : y = d[i]) <=> y = x \/ \E i \in DOMAIN c : i # p /\ y = c[i]
<1>1. \A i \in DOMAIN c : d[i].key = c[i].key
  OBVIOUS
<1>2. Chained(d, bins, b)
  BY <1>1 DEF Chained
<1> QED
  BY <1>1, <1>2

\* ... and one that has lost an item are chains of the same bin.
LEMMA Removed ==
  ASSUME NEW c, NEW bins, NEW b, Chained(c, bins, b), NEW p \in DOMAIN c
  PROVE  /\ Chained(RemoveAt(c, p), bins, b)
         /\ \A y : (\E i \in DOMAIN RemoveAt(c, p) : y = RemoveAt(c, p)[i])
              <=> \E i \in DOMAIN c : i # p /\ y = c[i]
<1> DEFINE d == RemoveAt(c, p)
<1>1. c \in Seq(Item) /\ DOMAIN c = 1..Len(c) /\ Len(c) \in Nat /\ \A i \in DOMAIN c : c[i] \in Item
  BY DEF Chained
<1>2. /\ d \in Seq(Item) /\ Len(d) = Len(c) - 1
      /\ \A j \in 1..(Len(c) - 1) : d[j] = IF j < p THEN c[j] ELSE c[j + 1]
  BY <1>1, RemoveFacts
<1> HIDE DEF d
<1> DEFINE At(j) == IF j < p THEN j ELSE j + 1
<1>3. DOMAIN d = 1..(Len(c) - 1) /\ p \in 1..Len(c)
  BY <1>1, <1>2
<1>4. \A j \in DOMAIN d : At(j) \in DOMAIN c /\ At(j) # p /\ d[j] = c[At(j)]
  BY <1>1, <1>2, <1>3
<1>5. \A i, j \in DOMAIN d : At(i) = At(j) => i = j
  BY <1>1, <1>3
<1>6. \A i \in DOMAIN c : i # p => \E j \in DOMAIN d : At(j) = i
  <2> TAKE i \in DOMAIN c
  <2> HAVE i # p
  <2>1. CASE i < p
    <3>1. i \in DOMAIN d /\ At(i) = i
      BY <1>1, <1>3, <2>1
    <3> QED
      BY <3>1
  <2>2. CASE p < i
    <3>1. i - 1 \in DOMAIN d /\ At(i - 1) = i
      BY <1>1, <1>3, <2>2
    <3> QED
      BY <3>1
  <2>3. i < p \/ p < i
    BY <1>1, <1>3
  <2> QED
    BY <2>1, <2>2, <2>3
<1> HIDE DEF At
<1>7. Chained(d, bins, b)
  BY <1>2, <1>4, <1>5 DEF Chained
<1>8. \A y : (\E j \in DOMAIN d : y = d[j]) <=> \E i \in DOMAIN c : i # p /\ y = c[i]
  BY <1>4, <1>6
<1> QED
  BY <1>7, <1>8 DEF d

\* table_put of a key that is there
LEMMA PutOver ==
  ASSUME NEW t, Shaped(t), NEW k \in Keys, NEW v \in Values, Places(t, k) # {}
  PROVE  LET u == With(t, k, v)
         IN /\ Shaped(u) /\ u.bins = t.bins /\ u.size = t.size
            /\ Content(u) = {x \in Content(t) : x.key # k} \cup {[key |-> k, value |-> v]}
            /\ \A l \in Keys : Places(u, l) = Places(t, l)
<1> DEFINE b == BinOf(t.bins, k)  c == t.items[b]
           d == [i \in DOMAIN c |-> IF i \in Places(t, k) THEN [c[i] EXCEPT !.value = v] ELSE c[i]]
           e == [bins |-> t.bins, items |-> [t.items EXCEPT ![b] = d], size |-> t.size]
           u == With(t, k, v)
<1>1. b \in Bins(t) /\ Chain(t, k) = c /\ Chained(c, t.bins, b)
  BY ChainOf
<1>2. PICK p \in Places(t, k) : TRUE
  OBVIOUS
<1>3. p \in DOMAIN c /\ Places(t, k) = {p} /\ c[p].key = k
  BY <1>1, <1>2, PlaceFacts
<1>4. u = e
  BY DEF With, Shaped, Record
<1> HIDE DEF u
<1>5. /\ Chained(d, t.bins, b) /\ DOMAIN d = DOMAIN c
      /\ \A i \in DOMAIN c : d[i].key = c[i].key
      /\ \A y : (\E i \in DOMAIN d : y = d[i])
              <=> y = [key |-> k, value |-> v] \/ \E i \in DOMAIN c : i # p /\ y = c[i]
  <2> DEFINE x == [key |-> k, value |-> v]
  <2>1. /\ c \in Seq(Item) /\ DOMAIN c = 1..Len(c) /\ Len(c) \in Nat
        /\ \A i \in DOMAIN c : c[i] \in Item
    BY <1>1 DEF Chained
  <2>2. c[p] = [key |-> k, value |-> c[p].value]
    BY <1>3, <2>1 DEF Item
  <2>3. [c[p] EXCEPT !.value = v] = x
    BY <2>2
  <2>4. DOMAIN d = DOMAIN c /\ \A i \in DOMAIN c : d[i] = IF i = p THEN x ELSE c[i]
    BY <1>3, <2>3
  <2>5. x \in Item /\ x.key = k
    BY DEF Item
  <2> HIDE DEF x, c, d
  <2>6. d \in [1..Len(c) -> Item]
    <3>1. \A i \in DOMAIN c : d[i] \in Item
      BY <2>1, <2>4, <2>5
    <3>2. d = [i \in DOMAIN c |-> d[i]]
      BY <2>4 DEF d
    <3> QED
      BY <2>1, <3>1, <3>2
  <2>7. d \in Seq(Item)
    BY <2>1, <2>6
  <2> HIDE DEF b
  <2>8. x.key = c[p].key
    BY <1>3, <2>5
  <2>9. /\ Chained(d, t.bins, b)
        /\ \A i \in DOMAIN c : d[i].key = c[i].key
        /\ \A y : (\E i \in DOMAIN d : y = d[i]) <=> y = x \/ \E i \in DOMAIN c : i # p /\ y = c[i]
    BY <1>1, <1>3, <2>4, <2>5, <2>7, <2>8, Overwritten
  <2> QED
    BY <2>4, <2>9 DEF x
<1> HIDE DEF d
<1>6. /\ Shaped(u) /\ u.bins = t.bins /\ u.size = t.size /\ Bins(u) = Bins(t)
      /\ \A a \in Bins(t) : u.items[a] = IF a = b THEN d ELSE t.items[a]
      /\ \A x : x \in Content(u) <=>
              \/ \E i \in DOMAIN d : x = d[i]
              \/ \E a \in Bins(t) \ {b} : \E i \in DOMAIN t.items[a] : x = t.items[a][i]
  BY <1>1, <1>4, <1>5, Rechained
<1> HIDE DEF e
<1>7. \A x : x \in Content(t) /\ x.key # k <=>
              \/ \E i \in DOMAIN c : i # p /\ x = c[i]
              \/ \E a \in Bins(t) \ {b} : \E i \in DOMAIN t.items[a] : x = t.items[a][i]
  <2>1. \A i \in DOMAIN c : c[i].key = k => i = p
    BY <1>1, <1>3 DEF Chained
  <2>2. \A a \in Bins(t) \ {b} : \A i \in DOMAIN t.items[a] : t.items[a][i].key # k
    BY DEF Shaped, Chained
  <2>3. \A x : x \in Content(t) <=> \E a \in Bins(t) : \E i \in DOMAIN t.items[a] : x = t.items[a][i]
    BY DEF Content
  <2> HIDE DEF b
  <2> QED
    BY <1>1, <1>3, <2>1, <2>2, <2>3
<1>8. Content(u) = {x \in Content(t) : x.key # k} \cup {[key |-> k, value |-> v]}
  BY <1>5, <1>6, <1>7
<1>9. \A l \in Keys : Places(u, l) = Places(t, l)
  <2> TAKE l \in Keys
  <2>1. BinOf(t.bins, l) \in Bins(t)
    BY ChainOf
  <2>2. DOMAIN u.items[BinOf(t.bins, l)] = DOMAIN t.items[BinOf(t.bins, l)]
    BY <1>5, <1>6, <2>1
  <2>3. \A i \in DOMAIN t.items[BinOf(t.bins, l)] :
          u.items[BinOf(t.bins, l)][i].key = t.items[BinOf(t.bins, l)][i].key
    BY <1>5, <1>6, <2>1
  <2> HIDE DEF c
  <2> QED
    BY <1>6, <2>2, <2>3 DEF Places, Chain
<1> QED
  BY <1>6, <1>8, <1>9 DEF u

\* table_put of a new key, before the table grows
LEMMA PutNew ==
  ASSUME NEW t, Shaped(t), NEW k \in Keys, NEW v \in Values, Places(t, k) = {}, t.size \in Nat
  PROVE  LET b == BinOf(t.bins, k)
             u == [t EXCEPT !.items[b] = Append(@, [key |-> k, value |-> v]), !.size = @ + 1]
         IN /\ Shaped(u) /\ u.bins = t.bins /\ u.size = t.size + 1
            /\ Content(u) = Content(t) \cup {[key |-> k, value |-> v]}
            /\ \A l \in Keys : Places(t, l) \subseteq Places(u, l)
<1> DEFINE b == BinOf(t.bins, k)  c == t.items[b]  x == [key |-> k, value |-> v]
           d == Append(c, x)
           e == [bins |-> t.bins, items |-> [t.items EXCEPT ![b] = d], size |-> t.size + 1]
           u == [t EXCEPT !.items[b] = Append(@, [key |-> k, value |-> v]), !.size = @ + 1]
<1>1. b \in Bins(t) /\ Chain(t, k) = c /\ Chained(c, t.bins, b)
  BY ChainOf
<1>2. \A i \in DOMAIN c : c[i].key # k
  BY <1>1 DEF Places
<1>3. x \in Item /\ x.key = k
  BY DEF Item
<1>4. u = e
  <2>1. /\ t = [bins |-> t.bins, items |-> t.items, size |-> t.size]
        /\ b \in DOMAIN t.items
    BY <1>1 DEF Shaped, Record
  <2> DEFINE items == [t.items EXCEPT ![b] = d]  size == t.size + 1
  <2>2. u = [t EXCEPT !.items = items, !.size = size]
    OBVIOUS
  <2> HIDE DEF items, size, u
  <2>3. u = [bins |-> t.bins, items |-> items, size |-> size]
    BY <2>1, <2>2
  <2> QED
    BY <2>3 DEF items, size
<1> HIDE DEF u, x
<1>5. /\ Chained(d, t.bins, b)
      /\ \A y : (\E i \in DOMAIN d : y = d[i]) <=> y = x \/ \E i \in DOMAIN c : y = c[i]
  <2>1. BinOf(t.bins, x.key) = b /\ \A i \in DOMAIN c : c[i].key # x.key
    BY <1>2, <1>3
  <2>2. IsAppend(d, c, x)
    BY DEF IsAppend
  <2>3. Chained(c, t.bins, b) /\ x \in Item
    BY <1>1, <1>3
  <2> HIDE DEF b, c, d, e
  <2>4. Chained(d, t.bins, b)
    BY <2>1, <2>2, <2>3, Appended
  <2>5. \A y : (\E i \in DOMAIN d : y = d[i]) <=> y = x \/ \E i \in DOMAIN c : y = c[i]
    <3>1. ToSet(d) = ToSet(c) \cup {x}
      BY <2>1, <2>2, <2>3, Appended
    <3> QED
      BY <3>1 DEF ToSet
  <2> QED
    BY <2>4, <2>5
<1>6. DOMAIN c \subseteq DOMAIN d /\ \A i \in DOMAIN c : d[i] = c[i]
  BY <1>1 DEF Chained
<1> HIDE DEF d
<1>7. /\ Shaped(u) /\ u.bins = t.bins /\ u.size = t.size + 1 /\ Bins(u) = Bins(t)
      /\ \A a \in Bins(t) : u.items[a] = IF a = b THEN d ELSE t.items[a]
      /\ \A y : y \in Content(u) <=>
              \/ \E i \in DOMAIN d : y = d[i]
              \/ \E a \in Bins(t) \ {b} : \E i \in DOMAIN t.items[a] : y = t.items[a][i]
  BY <1>1, <1>4, <1>5, Rechained
<1> HIDE DEF e
<1>8. Content(u) = Content(t) \cup {x}
  <2>1. \A y : y \in Content(t) <=> \E a \in Bins(t) : \E i \in DOMAIN t.items[a] : y = t.items[a][i]
    BY DEF Content
  <2> HIDE DEF b
  <2>2. \A y : y \in Content(t) <=>
              \/ \E i \in DOMAIN c : y = c[i]
              \/ \E a \in Bins(t) \ {b} : \E i \in DOMAIN t.items[a] : y = t.items[a][i]
    BY <1>1, <2>1
  <2> QED
    BY <1>5, <1>7, <2>2
<1>9. \A l \in Keys : Places(t, l) \subseteq Places(u, l)
  <2> TAKE l \in Keys
  <2>1. BinOf(t.bins, l) \in Bins(t)
    BY ChainOf
  <2>2. DOMAIN t.items[BinOf(t.bins, l)] \subseteq DOMAIN u.items[BinOf(t.bins, l)]
    BY <1>6, <1>7, <2>1
  <2>3. \A i \in DOMAIN t.items[BinOf(t.bins, l)] :
          u.items[BinOf(t.bins, l)][i] = t.items[BinOf(t.bins, l)][i]
    BY <1>6, <1>7, <2>1
  <2> HIDE DEF c
  <2> QED
    BY <1>7, <2>2, <2>3 DEF Places, Chain
<1> QED
  BY <1>7, <1>8, <1>9 DEF u, x

\* table_remove of a key that is there
LEMMA RemovePresent ==
  ASSUME NEW t, Shaped(t), NEW k \in Keys, Places(t, k) # {}, t.size \in Nat
  PROVE  LET u == Without(t, k)
         IN /\ Shaped(u) /\ u.bins = t.bins /\ u.size = t.size - 1
            /\ Content(u) = {x \in Content(t) : x.key # k}
<1> DEFINE b == BinOf(t.bins, k)  c == t.items[b]
           u == Without(t, k)
<1>1. b \in Bins(t) /\ Chain(t, k) = c /\ Chained(c, t.bins, b)
  BY ChainOf
<1>2. PICK p \in Places(t, k) : TRUE
  OBVIOUS
<1>3. p \in DOMAIN c /\ Places(t, k) = {p} /\ c[p].key = k
  BY <1>1, <1>2, PlaceFacts
<1> DEFINE d == RemoveAt(c, p)
           e == [bins |-> t.bins, items |-> [t.items EXCEPT ![b] = d], size |-> t.size - 1]
<1>4. u = e
  <2>1. (CHOOSE i \in Places(t, k) : TRUE) = p
    BY <1>3
  <2> QED
    BY <1>3, <2>1 DEF Without, Shaped, Record
<1> HIDE DEF u
<1>5. /\ Chained(d, t.bins, b)
      /\ \A y : (\E i \in DOMAIN d : y = d[i]) <=> \E i \in DOMAIN c : i # p /\ y = c[i]
  BY <1>1, <1>3, Removed
<1> HIDE DEF d
<1>6. /\ Shaped(u) /\ u.bins = t.bins /\ u.size = t.size - 1
      /\ \A x : x \in Content(u) <=>
              \/ \E i \in DOMAIN d : x = d[i]
              \/ \E a \in Bins(t) \ {b} : \E i \in DOMAIN t.items[a] : x = t.items[a][i]
  BY <1>1, <1>4, <1>5, Rechained
<1> HIDE DEF e
<1>7. \A x : x \in Content(t) /\ x.key # k <=>
              \/ \E i \in DOMAIN c : i # p /\ x = c[i]
              \/ \E a \in Bins(t) \ {b} : \E i \in DOMAIN t.items[a] : x = t.items[a][i]
  <2>1. \A i \in DOMAIN c : c[i].key = k => i = p
    BY <1>1, <1>3 DEF Chained
  <2>2. \A a \in Bins(t) \ {b} : \A i \in DOMAIN t.items[a] : t.items[a][i].key # k
    BY DEF Shaped, Chained
  <2>3. \A x : x \in Content(t) <=> \E a \in Bins(t) : \E i \in DOMAIN t.items[a] : x = t.items[a][i]
    BY DEF Content
  <2> HIDE DEF b
  <2> QED
    BY <1>1, <1>3, <2>1, <2>2, <2>3
<1>8. Content(u) = {x \in Content(t) : x.key # k}
  BY <1>5, <1>6, <1>7
<1> QED
  BY <1>6, <1>8 DEF u

Distinct(c) == \A i, j \in DOMAIN c : c[i].key = c[j].key => i = j

\* A new item at the end of a sequence of items
LEMMA AppendDistinct ==
  ASSUME NEW c \in Seq(Item), Distinct(c), NEW x \in Item, \A y \in ToSet(c) : y.key # x.key
  PROVE  Append(c, x) \in Seq(Item) /\ Distinct(Append(c, x)) /\ ToSet(Append(c, x)) = ToSet(c) \cup {x}
<1> DEFINE d == Append(c, x)
<1>1. /\ d \in Seq(Item) /\ DOMAIN d = 1..(Len(c) + 1) /\ DOMAIN c = 1..Len(c) /\ Len(c) \in Nat
      /\ \A i \in 1..Len(c) : d[i] = c[i]
      /\ d[Len(c) + 1] = x
  OBVIOUS
<1> HIDE DEF d
<1>2. \A i \in DOMAIN d : i \in DOMAIN c \/ i = Len(c) + 1
  BY <1>1
<1>3. Len(c) + 1 \in DOMAIN d /\ DOMAIN c \subseteq DOMAIN d
  BY <1>1
<1>4. \A i \in DOMAIN c : c[i].key # x.key
  BY DEF ToSet
<1>5. Distinct(d)
  BY <1>1, <1>2, <1>4 DEF Distinct
<1>6. ToSet(d) = ToSet(c) \cup {x}
  BY <1>1, <1>2, <1>3 DEF ToSet
<1> QED
  BY <1>1, <1>5, <1>6 DEF d

\* the items of the first i places of a chain whose next bit is high
HighUpTo(c, bins, high, i) ==
  {c[j] : j \in {k \in 1..i : (Hash[c[k].key] \div bins) % 2 = high}}

\* Half of a chain is the items whose next bit is high.
LEMMA HalfFacts ==
  ASSUME NEW c \in Seq(Item), Distinct(c), NEW bins, NEW high
  PROVE  /\ Half(c, bins, high) \in Seq(Item) /\ Distinct(Half(c, bins, high))
         /\ ToSet(Half(c, bins, high)) = {x \in ToSet(c) : (Hash[x.key] \div bins) % 2 = high}
<1> DEFINE n == Len(c)
           High(x) == (Hash[x.key] \div bins) % 2 = high
           step == [i \in 1..n |-> [s \in Seq(Item) |-> IF High(c[i]) THEN Append(s, c[i]) ELSE s]]
           half == CHOOSE g : g = [i \in 0..n |->
                     IF i = 0 THEN <<>>
                     ELSE IF High(c[i]) THEN Append(g[i - 1], c[i])
                     ELSE g[i - 1]]
<1>1. Half(c, bins, high) = half[n]
  BY DEF Half
<1>2. n \in Nat /\ DOMAIN c = 1..n /\ \A i \in 1..n : c[i] \in Item
  OBVIOUS
<1>3. step \in [1..n -> [Seq(Item) -> Seq(Item)]]
  BY <1>2
<1>4. PICK f \in [0..n -> Seq(Item)] : f[0] = <<>> /\ \A i \in 1..n : f[i] = step[i][f[i - 1]]
  <2>1. <<>> \in Seq(Item)
    OBVIOUS
  <2> HIDE DEF step, n
  <2>2. PICK f : Iterates(f, Seq(Item), n, <<>>, step)
    BY <1>2, <1>3, <2>1, Iteration
  <2> QED
    BY <2>2 DEF Iterates
<1>5. \A i \in 1..n : f[i] = IF High(c[i]) THEN Append(f[i - 1], c[i]) ELSE f[i - 1]
  <2> TAKE i \in 1..n
  <2>1. f[i - 1] \in Seq(Item)
    <3>1. i - 1 \in 0..n
      BY <1>2
    <3> QED
      BY <3>1
  <2>2. f[i] = step[i][f[i - 1]]
    BY <1>4
  <2> HIDE DEF High
  <2> QED
    BY <2>1, <2>2
<1> HIDE DEF step
<1>6. half = [i \in 0..n |-> IF i = 0 THEN <<>> ELSE IF High(c[i]) THEN Append(half[i - 1], c[i]) ELSE half[i - 1]]
  <2>1. f = [i \in 0..n |-> IF i = 0 THEN <<>> ELSE IF High(c[i]) THEN Append(f[i - 1], c[i]) ELSE f[i - 1]]
    <3>1. \A i \in 0..n : i = 0 \/ i \in 1..n
      BY <1>2
    <3> HIDE DEF High, n
    <3> QED
      BY <1>4, <1>5, <3>1
  <2> HIDE DEF High, n
  <2> QED
    BY <2>1
<1>7. DOMAIN half = 0..n /\ half[0] = <<>>
      /\ \A i \in 1..n : half[i] = IF High(c[i]) THEN Append(half[i - 1], c[i]) ELSE half[i - 1]
  <2> HIDE DEF half, High
  <2>1. 0 \in 0..n /\ \A i \in 1..n : i \in 0..n /\ i # 0
    BY <1>2
  <2> QED
    BY <1>6, <2>1
<1> HIDE DEF half
<1> DEFINE P == {i \in 0..n : /\ half[i] \in Seq(Item) /\ Distinct(half[i])
                              /\ ToSet(half[i]) = HighUpTo(c, bins, high, i)}
<1>8. 0 \in P
  <2>1. half[0] \in Seq(Item) /\ DOMAIN half[0] = {} /\ 0 \in 0..n
    BY <1>2, <1>7
  <2>2. Distinct(half[0]) /\ ToSet(half[0]) = {} /\ HighUpTo(c, bins, high, 0) = {}
    BY <2>1 DEF Distinct, ToSet, HighUpTo
  <2> QED
    BY <2>1, <2>2
<1>9. ASSUME NEW i \in 1..n, i - 1 \in P PROVE i \in P
  <2>1. /\ i \in 0..n /\ half[i - 1] \in Seq(Item) /\ Distinct(half[i - 1])
        /\ ToSet(half[i - 1]) = HighUpTo(c, bins, high, i - 1)
    BY <1>2, <1>9
  <2>2. \A j : j \in 1..i <=> j \in 1..(i - 1) \/ j = i
    BY <1>2
  <2>3. CASE High(c[i])
    <3>1. HighUpTo(c, bins, high, i) = HighUpTo(c, bins, high, i - 1) \cup {c[i]}
      BY <2>2, <2>3 DEF HighUpTo
    <3>2. \A y \in ToSet(half[i - 1]) : y.key # c[i].key
      <4>1. \A j \in 1..(i - 1) : j \in 1..n /\ j # i
        BY <1>2
      <4>2. \A j \in 1..(i - 1) : c[j].key # c[i].key
        BY <1>2, <4>1 DEF Distinct
      <4> QED
        BY <2>1, <4>2 DEF HighUpTo
    <3>3. half[i] = Append(half[i - 1], c[i]) /\ c[i] \in Item
      BY <1>2, <1>7, <2>3
    <3> HIDE DEF n, High
    <3>4. half[i] \in Seq(Item) /\ Distinct(half[i]) /\ ToSet(half[i]) = ToSet(half[i - 1]) \cup {c[i]}
      BY <2>1, <3>2, <3>3, AppendDistinct
    <3> QED
      BY <2>1, <3>1, <3>4
  <2>4. CASE ~High(c[i])
    <3>1. HighUpTo(c, bins, high, i) = HighUpTo(c, bins, high, i - 1)
      BY <2>2, <2>4 DEF HighUpTo
    <3>2. half[i] = half[i - 1]
      BY <1>7, <2>4
    <3> QED
      BY <2>1, <3>1, <3>2
  <2> QED
    BY <2>3, <2>4
<1>10. n \in P
  <2>1. n \in 0..n
    BY <1>2
  <2> HIDE DEF P, n
  <2> QED
    BY <1>2, <1>8, <1>9, <2>1, Induction
<1>11. HighUpTo(c, bins, high, n) = {x \in ToSet(c) : (Hash[x.key] \div bins) % 2 = high}
  BY <1>2 DEF HighUpTo, ToSet
<1> QED
  BY <1>1, <1>10, <1>11

\* The next bit of its hash says which of two bins a key has in twice the bins.
LEMMA BinSplit ==
  ASSUME NEW n \in Nat \ {0}, NEW k \in Keys
  PROVE  /\ BinOf(2 * n, k) = BinOf(n, k) + (n * ((Hash[k] \div n) % 2))
         /\ (Hash[k] \div n) % 2 \in 0..1
<1>1. Hash[k] \in Nat
  BY TableAssumption
<1> QED
  BY <1>1, NextBit DEF BinOf

\* A number of bins that divides a greater power of two divides it twice.
LEMMA Doubling ==
  ASSUME NEW n \in Nat \ {0}, n < MaximumBins, MaximumBins % n = 0
  PROVE  2 * n <= MaximumBins /\ MaximumBins % (2 * n) = 0
<1> DEFINE M == MaximumBins
<1>1. M \in Nat \ {0} /\ \A d \in 2..M : M % d = 0 => d % 2 = 0
  BY TableAssumption DEF PowerOfTwo
<1> HIDE DEF M
<1>2. PICK q \in Nat : M = n * q
  <2>1. \A m \in Nat : \A d \in Nat \ {0} : m = (d * (m \div d)) + (m % d) /\ m \div d \in Nat
    BY SMT
  <2>2. M = (n * (M \div n)) + 0 /\ M \div n \in Nat
    BY <1>1, <2>1 DEF M
  <2>3. n * (M \div n) \in Nat
    BY <2>2
  <2> QED
    BY <2>2, <2>3
<1>3. q \in 2..M
  <2>1. q # 0 /\ q # 1
    BY <1>1, <1>2 DEF M
  <2>2. q <= n * q
    BY <1>2
  <2> QED
    BY <1>2, <2>1, <2>2
<1>4. M % q = 0
  <2>1. M = (q * n) + 0 /\ 0 \in 0..(q - 1) /\ q \in Nat \ {0}
    BY <1>2, <1>3
  <2> QED
    BY <1>1, <2>1, Remainders
<1>5. PICK p \in Nat : q = 2 * p
  <2>1. q % 2 = 0
    BY <1>1, <1>3, <1>4
  <2> QED
    BY <2>1, <1>2
<1>6. M = (2 * n) * p
  BY <1>2, <1>5
<1> DEFINE e == 2 * n
<1>7. M = (e * p) + 0 /\ 0 \in 0..(e - 1) /\ e \in Nat \ {0}
  BY <1>1, <1>6
<1> HIDE DEF e
<1>8. M % e = 0
  BY <1>1, <1>7, Remainders
<1>9. e <= M
  <2>1. p # 0
    BY <1>3, <1>5
  <2>2. e <= e * p
    BY <1>7, <2>1
  <2> QED
    BY <1>7, <2>2
<1> QED
  BY <1>8, <1>9 DEF e, M

\* table_resize moves every item and changes none.
LEMMA ResizedFacts ==
  ASSUME NEW t, Shaped(t), t.bins < MaximumBins
  PROVE  LET u == Resized(t)
         IN /\ Shaped(u) /\ u.bins = 2 * t.bins /\ u.size = t.size
            /\ Content(u) = Content(t)
<1> DEFINE u == Resized(t)  n == t.bins
           H(a) == Half(t.items[a % n], n, a \div n)
           items == [a \in 0..((2 * n) - 1) |-> H(a)]
<1>1. n \in Nat \ {0} /\ Bins(t) = 0..(n - 1)
  BY DEF Shaped, Bins
<1>2. u = [t EXCEPT !.bins = 2 * n, !.items = items]
  <2>1. ~(t.bins >= MaximumBins)
    BY TableAssumption DEF Shaped, PowerOfTwo
  <2> QED
    BY <2>1 DEF Resized
<1>3. u.bins = 2 * n /\ u.size = t.size /\ u.items = items /\ Record(u)
  <2>1. t = [bins |-> t.bins, items |-> t.items, size |-> t.size]
    BY DEF Shaped, Record
  <2> HIDE DEF items, u
  <2>2. u = [bins |-> 2 * n, items |-> items, size |-> t.size]
    BY <1>2, <2>1
  <2> QED
    BY <2>2 DEF Record
<1> HIDE DEF u
<1>4. Bins(u) = 0..((2 * n) - 1) /\ 2 * n \in Nat \ {0}
  BY <1>1, <1>3 DEF Bins
<1>5. \A a \in Bins(u) : u.items[a] = H(a)
  BY <1>3, <1>4
<1>6. DOMAIN u.items = Bins(u) /\ u.items = [a \in Bins(u) |-> u.items[a]]
  BY <1>3, <1>4
<1> HIDE DEF items
<1>7. ASSUME NEW a \in Bins(u)
      PROVE  /\ a % n \in Bins(t) /\ a \div n \in 0..1 /\ a = (a % n) + (n * (a \div n))
             /\ u.items[a] \in Seq(Item) /\ Distinct(u.items[a])
             /\ ToSet(u.items[a]) = {x \in ToSet(t.items[a % n]) : (Hash[x.key] \div n) % 2 = a \div n}
  <2>1. a % n \in Bins(t) /\ a \div n \in 0..1 /\ a = (a % n) + (n * (a \div n))
    BY <1>1, <1>4, Halves
  <2>2. t.items[a % n] \in Seq(Item) /\ Distinct(t.items[a % n])
    BY <2>1 DEF Shaped, Chained, Distinct
  <2> QED
    BY <1>5, <2>1, <2>2, HalfFacts
<1> HIDE DEF H
<1>8. \A b \in Bins(t) : \A x \in ToSet(t.items[b]) : x \in Item /\ BinOf(n, x.key) = b
  BY DEF Shaped, Chained, ToSet
<1>9. ASSUME NEW a \in Bins(u)
      PROVE  Chained(u.items[a], u.bins, a)
  <2>1. ASSUME NEW x \in ToSet(u.items[a])
        PROVE  BinOf(2 * n, x.key) = a
    <3>1. x \in ToSet(t.items[a % n]) /\ (Hash[x.key] \div n) % 2 = a \div n
      BY <1>7
    <3>2. x.key \in Keys /\ BinOf(n, x.key) = a % n
      BY <1>7, <1>8, <3>1 DEF Item
    <3>3. BinOf(2 * n, x.key) = (a % n) + (n * (a \div n))
      BY <1>1, <3>1, <3>2, BinSplit
    <3> QED
      BY <1>7, <3>3
  <2>2. \A i \in DOMAIN u.items[a] : u.items[a][i] \in ToSet(u.items[a])
    BY DEF ToSet
  <2> QED
    BY <1>3, <1>7, <2>1, <2>2 DEF Chained, Distinct
<1>10. Shaped(u)
  BY <1>3, <1>4, <1>6, <1>9 DEF Shaped
<1>11. Content(u) = UNION {ToSet(u.items[a]) : a \in Bins(u)} /\ Content(t) = UNION {ToSet(t.items[b]) : b \in Bins(t)}
  BY DEF Content, ToSet
<1>12. ASSUME NEW x \in Content(u)
       PROVE  x \in Content(t)
  BY <1>7, <1>11
<1>13. ASSUME NEW x \in Content(t)
       PROVE  x \in Content(u)
  <2>1. PICK b \in Bins(t) : x \in ToSet(t.items[b])
    BY <1>11
  <2> DEFINE h == (Hash[x.key] \div n) % 2  a == (n * h) + b
  <2>2. h \in 0..1
    BY <1>1, <1>8, <2>1, BinSplit DEF Item
  <2> HIDE DEF h
  <2>3. a \in Bins(u) /\ a % n = b /\ a \div n = h
    BY <1>1, <1>4, <2>2, Halves
  <2> HIDE DEF a
  <2>4. x \in ToSet(u.items[a])
    BY <1>7, <2>1, <2>3 DEF h
  <2> QED
    BY <1>11, <2>3, <2>4
<1> QED
  BY <1>3, <1>10, <1>12, <1>13 DEF u

Sound(t) == Shaped(t) /\ Sized(t)

\* What a table answers when an item has come ...
LEMMA ItemCame ==
  ASSUME NEW t, Shaped(t), NEW u, Shaped(u), NEW k \in Keys, NEW v \in Values,
         Content(u) = {x \in Content(t) : x.key # k} \cup {[key |-> k, value |-> v]}
  PROVE  /\ KeysOf(u) = KeysOf(t) \cup {k}
         /\ \A l \in Keys : ValueOf(u, l) = IF l = k THEN v ELSE ValueOf(t, l)
<1>1. /\ KeysOf(u) = {x.key : x \in Content(u)}
      /\ KeysOf(t) = {x.key : x \in Content(t)}
  BY KeysOfContent
<1> DEFINE new == [key |-> k, value |-> v]
<1>2. new.key = k /\ new.value = v /\ new \in Content(u)
  OBVIOUS
<1>3. \A x : x \in Content(u) <=> x = new \/ (x \in Content(t) /\ x.key # k)
  OBVIOUS
<1> HIDE DEF new
<1>4. KeysOf(u) = KeysOf(t) \cup {k}
  BY <1>1, <1>2, <1>3
<1>5. ASSUME NEW l \in Keys, l # k
      PROVE  ValueOf(u, l) = ValueOf(t, l)
  <2>1. CASE l \in KeysOf(t)
    <3>1. PICK x \in Content(t) : x.key = l
      BY <1>1, <2>1
    <3>2. x \in Content(u)
      BY <1>3, <1>5, <3>1
    <3> QED
      BY <3>1, <3>2, ValueFacts
  <2>2. CASE l \notin KeysOf(t)
    <3>1. l \notin KeysOf(u)
      BY <1>4, <1>5, <2>2
    <3> QED
      BY <2>2, <3>1, ValueFacts
  <2> QED
    BY <2>1, <2>2
<1>6. ValueOf(u, k) = v
  BY <1>2, ValueFacts
<1> QED
  BY <1>4, <1>5, <1>6

\* ... and when one has gone
LEMMA ItemWent ==
  ASSUME NEW t, Shaped(t), NEW u, Shaped(u), NEW k \in Keys,
         Content(u) = {x \in Content(t) : x.key # k}
  PROVE  /\ KeysOf(u) = KeysOf(t) \ {k}
         /\ \A l \in Keys : ValueOf(u, l) = IF l = k THEN UNDEFINED ELSE ValueOf(t, l)
<1>1. /\ KeysOf(u) = {x.key : x \in Content(u)}
      /\ KeysOf(t) = {x.key : x \in Content(t)}
  BY KeysOfContent
<1>2. KeysOf(u) = KeysOf(t) \ {k}
  BY <1>1
<1>3. ASSUME NEW l \in Keys, l # k
      PROVE  ValueOf(u, l) = ValueOf(t, l)
  <2>1. CASE l \in KeysOf(t)
    <3>1. PICK x \in Content(t) : x.key = l
      BY <1>1, <2>1
    <3>2. x \in Content(u)
      BY <1>3, <3>1
    <3> QED
      BY <3>1, <3>2, ValueFacts
  <2>2. CASE l \notin KeysOf(t)
    <3>1. l \notin KeysOf(u)
      BY <1>2, <2>2
    <3> QED
      BY <2>2, <3>1, ValueFacts
  <2> QED
    BY <2>1, <2>2
<1>4. ValueOf(u, k) = UNDEFINED
  BY <1>2, ValueFacts
<1> QED
  BY <1>2, <1>3, <1>4

\* Two tables with the same items answer the same.
LEMMA SameContent ==
  ASSUME NEW t, Shaped(t), NEW u, Shaped(u), Content(u) = Content(t)
  PROVE  /\ KeysOf(u) = KeysOf(t)
         /\ \A l \in Keys : ValueOf(u, l) = ValueOf(t, l)
<1>1. /\ KeysOf(u) = {x.key : x \in Content(u)}
      /\ KeysOf(t) = {x.key : x \in Content(t)}
  BY KeysOfContent
<1>2. KeysOf(u) = KeysOf(t)
  BY <1>1
<1>3. ASSUME NEW l \in Keys
      PROVE  ValueOf(u, l) = ValueOf(t, l)
  <2>1. CASE l \in KeysOf(t)
    <3>1. PICK x \in Content(t) : x.key = l
      BY <1>1, <2>1
    <3> QED
      BY <3>1, ValueFacts
  <2>2. CASE l \notin KeysOf(t)
    BY <1>2, <2>2, ValueFacts
  <2> QED
    BY <2>1, <2>2
<1> QED
  BY <1>2, <1>3

\* A table has as many keys as its size says, and room for more or all the bins.
LEMMA SizeType ==
  ASSUME NEW t, Shaped(t)
  PROVE  IsFiniteSet(KeysOf(t)) /\ Cardinality(KeysOf(t)) \in 0..Cardinality(Keys)
<1>1. IsFiniteSet(Keys) /\ KeysOf(t) \in SUBSET Keys
  BY KeysOfContent, TableAssumption
<1>2. IsFiniteSet(KeysOf(t)) /\ Cardinality(KeysOf(t)) <= Cardinality(Keys)
  BY <1>1, FS_Subset
<1>3. Cardinality(KeysOf(t)) \in Nat /\ Cardinality(Keys) \in Nat
  BY <1>1, <1>2, FS_CardinalityType
<1> QED
  BY <1>2, <1>3

\* Twice the bins have room for one more item.
LEMMA RoomForOne ==
  ASSUME NEW bins \in Nat, bins > 1, NEW n \in Nat, n < Capacity(bins)
  PROVE  n + 1 < Capacity(2 * bins)
BY DEF Capacity

\* A new table
LEMMA EmptySound ==
  Sound(EmptyTable) /\ Content(EmptyTable) = {} /\ KeysOf(EmptyTable) = {}
<1> DEFINE t == EmptyTable
<1>1. /\ t.bins = InitialBins /\ t.size = 0
      /\ t.items = [b \in 0..(InitialBins - 1) |-> <<>>]
      /\ Record(t)
  BY DEF EmptyTable, Record
<1>2. InitialBins \in Nat /\ InitialBins > 1 /\ MaximumBins \in Nat \ {0} /\ MaximumBins % InitialBins = 0
  BY TableAssumption DEF PowerOfTwo
<1> HIDE DEF t
<1>3. Bins(t) = 0..(InitialBins - 1) /\ \A b \in Bins(t) : t.items[b] = <<>>
  BY <1>1 DEF Bins
<1>4. \A b \in Bins(t) : Chained(t.items[b], t.bins, b)
  <2>1. <<>> \in Seq(Item) /\ DOMAIN <<>> = {}
    OBVIOUS
  <2>2. \A b \in Bins(t) : t.items[b] \in Seq(Item) /\ DOMAIN t.items[b] = {}
    BY <1>3, <2>1
  <2> QED
    BY <2>2 DEF Chained
<1>5. Shaped(t)
  BY <1>1, <1>2, <1>3, <1>4 DEF Shaped
<1>6. Content(t) = {}
  BY <1>3 DEF Content
<1>7. KeysOf(t) = {}
  BY <1>5, <1>6, KeysOfContent
<1>8. Cardinality(KeysOf(t)) = 0
  BY <1>7, FS_EmptySet
<1>9. InitialBins <= MaximumBins
  <2>1. \A m \in Nat : \A n \in Nat : m < n => m % n = m
    <3> TAKE m \in Nat
    <3> TAKE n \in Nat
    <3> HAVE m < n
    <3>1. m = (n * 0) + m /\ n \in Nat \ {0} /\ m \in 0..(n - 1)
      OBVIOUS
    <3> QED
      BY <3>1, Remainders
  <2> QED
    BY <1>2, <2>1
<1>10. 0 < Capacity(InitialBins)
  BY <1>2 DEF Capacity
<1>11. Sized(t)
  BY <1>1, <1>2, <1>8, <1>9, <1>10 DEF Sized
<1> QED
  BY <1>5, <1>6, <1>7, <1>11 DEF Sound, t

\* table_put keeps a table sound, with the item of the key and no other changed;
\* when it takes no new bins the old keys stay where they are.
LEMMA WithFacts ==
  ASSUME NEW t, Sound(t), NEW k \in Keys, NEW v \in Values
  PROVE  LET u == With(t, k, v)
         IN /\ Sound(u)
            /\ Content(u) = {x \in Content(t) : x.key # k} \cup {[key |-> k, value |-> v]}
            /\ KeysOf(u) = KeysOf(t) \cup {k}
            /\ \A l \in Keys : ValueOf(u, l) = IF l = k THEN v ELSE ValueOf(t, l)
            /\ u.bins = t.bins => \A l \in Keys : Places(t, l) \subseteq Places(u, l)
<1> DEFINE u == With(t, k, v)
<1>1. /\ Shaped(t) /\ t.size = Cardinality(KeysOf(t)) /\ t.size \in Nat
      /\ t.bins \in Nat /\ t.bins > 1 /\ InitialBins > 1
      /\ t.bins \in InitialBins..MaximumBins /\ MaximumBins % t.bins = 0
      /\ t.size < Capacity(t.bins) \/ t.bins = MaximumBins
      /\ InitialBins \in Nat /\ MaximumBins \in Nat
  BY SizeType, TableAssumption DEF Sound, Sized, PowerOfTwo
<1>2. CASE Places(t, k) # {}
  <2>1. /\ Shaped(u) /\ u.bins = t.bins /\ u.size = t.size
        /\ Content(u) = {x \in Content(t) : x.key # k} \cup {[key |-> k, value |-> v]}
        /\ \A l \in Keys : Places(u, l) = Places(t, l)
    BY <1>1, <1>2, PutOver
  <2> HIDE DEF u
  <2>2. /\ KeysOf(u) = KeysOf(t) \cup {k}
        /\ \A l \in Keys : ValueOf(u, l) = IF l = k THEN v ELSE ValueOf(t, l)
    BY <1>1, <2>1, ItemCame
  <2>3. k \in KeysOf(t)
    BY <1>1, <1>2, KeysOfContent
  <2>4. KeysOf(u) = KeysOf(t)
    BY <2>2, <2>3
  <2>5. Sized(u)
    BY <1>1, <2>1, <2>4 DEF Sized
  <2> QED
    BY <2>1, <2>2, <2>5 DEF Sound, u
<1>3. CASE Places(t, k) = {}
  <2> DEFINE b == BinOf(t.bins, k)
             w == [t EXCEPT !.items[b] = Append(@, [key |-> k, value |-> v]), !.size = @ + 1]
  <2>1. /\ Shaped(w) /\ w.bins = t.bins /\ w.size = t.size + 1
        /\ Content(w) = Content(t) \cup {[key |-> k, value |-> v]}
        /\ \A l \in Keys : Places(t, l) \subseteq Places(w, l)
    BY <1>1, <1>3, PutNew
  <2>2. u = IF w.size >= Capacity(w.bins) THEN Resized(w) ELSE w
    BY <1>3 DEF With
  <2> HIDE DEF u, w
  <2>3. k \notin KeysOf(t)
    BY <1>1, <1>3, KeysOfContent
  <2>4. \A x \in Content(t) : x.key # k
    BY <1>1, <2>3, KeysOfContent
  <2>5. Content(w) = {x \in Content(t) : x.key # k} \cup {[key |-> k, value |-> v]}
    BY <2>1, <2>4
  <2>6. KeysOf(w) = KeysOf(t) \cup {k}
    BY <1>1, <2>1, <2>5, ItemCame
  <2>7. Cardinality(KeysOf(w)) = t.size + 1
    BY <1>1, <2>3, <2>6, SizeType, FS_AddElement
  <2>8. CASE u = w
    <3>1. Capacity(t.bins) \in Int
      BY <1>1 DEF Capacity
    <3>2. w.size < Capacity(w.bins) \/ w.bins = MaximumBins
      <4>1. CASE w.size >= Capacity(w.bins)
        <5>1. w = Resized(w) /\ w.bins \in Nat \ {0}
          BY <2>1, <2>2, <2>8, <4>1 DEF Shaped
        <5>2. ~(w.bins < MaximumBins)
          <6>1. w.bins < MaximumBins => w.bins = 2 * w.bins
            BY <2>1, <5>1, ResizedFacts
          <6> QED
            BY <5>1, <6>1
        <5> QED
          BY <1>1, <2>1, <5>2
      <4>2. CASE w.size < Capacity(w.bins)
        BY <4>2
      <4>3. w.size >= Capacity(w.bins) \/ w.size < Capacity(w.bins)
        BY <1>1, <2>1, <3>1
      <4> QED
        BY <4>1, <4>2, <4>3
    <3>3. Sized(u)
      BY <1>1, <2>1, <2>7, <2>8, <3>2 DEF Sized
    <3>4. \A l \in Keys : ValueOf(u, l) = IF l = k THEN v ELSE ValueOf(t, l)
      BY <1>1, <2>1, <2>5, <2>8, ItemCame
    <3> QED
      BY <2>1, <2>5, <2>6, <2>8, <3>3, <3>4 DEF Sound, u
  <2>9. CASE u # w
    <3>1. u = Resized(w) /\ w.bins < MaximumBins
      <4>1. u = Resized(w)
        BY <2>2, <2>9
      <4>2. w.bins >= MaximumBins => Resized(w) = w
        BY DEF Resized
      <4> QED
        BY <1>1, <2>1, <2>9, <4>1, <4>2
    <3>2. Shaped(u) /\ u.bins = 2 * w.bins /\ u.size = w.size /\ Content(u) = Content(w)
      BY <2>1, <3>1, ResizedFacts
    <3>3. KeysOf(u) = KeysOf(w)
      BY <2>1, <3>2, SameContent
    <3>4. t.size < Capacity(t.bins)
      BY <1>1, <2>1, <3>1
    <3>5. u.size < Capacity(u.bins)
      BY <1>1, <2>1, <3>2, <3>4, RoomForOne
    <3>6. 2 * t.bins <= MaximumBins /\ MaximumBins % (2 * t.bins) = 0
      BY <1>1, <2>1, <3>1, Doubling
    <3>7. u.bins \in InitialBins..MaximumBins /\ u.bins # t.bins /\ MaximumBins % u.bins = 0
      BY <1>1, <2>1, <3>2, <3>6
    <3>8. Sized(u)
      BY <1>1, <2>1, <2>7, <3>2, <3>3, <3>5, <3>7 DEF Sized
    <3>9. \A l \in Keys : ValueOf(u, l) = IF l = k THEN v ELSE ValueOf(t, l)
      BY <1>1, <2>5, <3>2, ItemCame
    <3> QED
      BY <2>5, <2>6, <3>2, <3>3, <3>7, <3>8, <3>9 DEF Sound, u
  <2> QED
    BY <2>8, <2>9
<1> QED
  BY <1>2, <1>3

\* table_remove keeps a table sound, without the item of the key and with no
\* other changed; the keys that stay keep their order.
LEMMA WithoutFacts ==
  ASSUME NEW t, Sound(t), NEW k \in Keys
  PROVE  LET u == Without(t, k)
         IN /\ Sound(u) /\ u.bins = t.bins
            /\ Content(u) = {x \in Content(t) : x.key # k}
            /\ KeysOf(u) = KeysOf(t) \ {k}
            /\ \A l \in Keys : ValueOf(u, l) = IF l = k THEN UNDEFINED ELSE ValueOf(t, l)
<1> DEFINE u == Without(t, k)
<1>1. /\ Shaped(t) /\ t.size = Cardinality(KeysOf(t)) /\ t.size \in Nat
      /\ t.bins \in InitialBins..MaximumBins /\ MaximumBins % t.bins = 0
      /\ t.size < Capacity(t.bins) \/ t.bins = MaximumBins
      /\ InitialBins \in Nat /\ MaximumBins \in Nat
      /\ IsFiniteSet(KeysOf(t))
  BY SizeType, TableAssumption DEF Sound, Sized, PowerOfTwo
<1>2. CASE Places(t, k) # {}
  <2>1. /\ Shaped(u) /\ u.bins = t.bins /\ u.size = t.size - 1
        /\ Content(u) = {x \in Content(t) : x.key # k}
    BY <1>1, <1>2, RemovePresent
  <2> HIDE DEF u
  <2>2. /\ KeysOf(u) = KeysOf(t) \ {k}
        /\ \A l \in Keys : ValueOf(u, l) = IF l = k THEN UNDEFINED ELSE ValueOf(t, l)
    BY <1>1, <2>1, ItemWent
  <2>3. k \in KeysOf(t)
    BY <1>1, <1>2, KeysOfContent
  <2>4. Cardinality(KeysOf(u)) = t.size - 1
    BY <1>1, <2>2, <2>3, FS_RemoveElement
  <2>5. Capacity(t.bins) \in Int
    BY <1>1 DEF Capacity
  <2>6. u.size < Capacity(u.bins) \/ u.bins = MaximumBins
    BY <1>1, <2>1, <2>5
  <2>7. Sized(u)
    BY <1>1, <2>1, <2>4, <2>6 DEF Sized
  <2> QED
    BY <2>1, <2>2, <2>7 DEF Sound, u
<1>3. CASE Places(t, k) = {}
  <2>1. u = t
    BY <1>3 DEF Without
  <2>2. k \notin KeysOf(t)
    BY <1>1, <1>3, KeysOfContent
  <2>3. \A x \in Content(t) : x.key # k
    BY <1>1, <2>2, KeysOfContent
  <2> HIDE DEF u
  <2>4. Content(u) = {x \in Content(t) : x.key # k}
    BY <2>1, <2>3
  <2>5. /\ KeysOf(u) = KeysOf(t) \ {k}
        /\ \A l \in Keys : ValueOf(u, l) = IF l = k THEN UNDEFINED ELSE ValueOf(t, l)
    <3>1. Shaped(u)
      BY <1>1, <2>1
    <3> QED
      BY <1>1, <2>4, <3>1, ItemWent
  <2> QED
    BY <2>1, <2>4, <2>5 DEF u
<1> QED
  BY <1>2, <1>3

\* table_clear leaves no item.
LEMMA ClearedFacts ==
  ASSUME NEW t, Sound(t)
  PROVE  LET u == Cleared(t)
         IN /\ Sound(u) /\ KeysOf(u) = {}
            /\ \A l \in Keys : ValueOf(u, l) = UNDEFINED
<1> DEFINE u == Cleared(t)  items == [b \in Bins(t) |-> <<>>]
<1>1. /\ Shaped(t) /\ t.size = Cardinality(KeysOf(t)) /\ t.size \in Nat
      /\ t.bins \in InitialBins..MaximumBins /\ MaximumBins % t.bins = 0
      /\ t.size < Capacity(t.bins) \/ t.bins = MaximumBins
      /\ InitialBins \in Nat /\ MaximumBins \in Nat /\ t.bins \in Nat \ {0}
      /\ t = [bins |-> t.bins, items |-> t.items, size |-> t.size]
      /\ DOMAIN t.items = Bins(t)
  BY SizeType, TableAssumption DEF Sound, Sized, PowerOfTwo, Shaped, Record
<1>2. u = [bins |-> t.bins, items |-> items, size |-> 0]
  <2>1. u = [t EXCEPT !.items = items, !.size = 0]
    BY <1>1 DEF Cleared
  <2> HIDE DEF u, items
  <2> QED
    BY <1>1, <2>1
<1> HIDE DEF u
<1>3. /\ u.bins = t.bins /\ u.size = 0 /\ Record(u) /\ Bins(u) = Bins(t)
      /\ DOMAIN u.items = Bins(u) /\ u.items = [b \in Bins(u) |-> u.items[b]]
      /\ \A b \in Bins(u) : u.items[b] = <<>>
  BY <1>2 DEF Record, Bins
<1>4. \A b \in Bins(u) : Chained(u.items[b], u.bins, b)
  <2>1. <<>> \in Seq(Item) /\ DOMAIN <<>> = {}
    OBVIOUS
  <2>2. \A b \in Bins(u) : u.items[b] \in Seq(Item) /\ DOMAIN u.items[b] = {}
    BY <1>3, <2>1
  <2> QED
    BY <2>2 DEF Chained
<1>5. Shaped(u)
  BY <1>1, <1>3, <1>4 DEF Shaped
<1>6. Content(u) = {}
  BY <1>3 DEF Content
<1>7. KeysOf(u) = {}
  BY <1>5, <1>6, KeysOfContent
<1>8. Cardinality(KeysOf(u)) = 0
  BY <1>7, FS_EmptySet
<1>9. 0 < Capacity(t.bins) \/ t.bins = MaximumBins
  <2>1. Capacity(t.bins) \in Int
    BY <1>1 DEF Capacity
  <2> QED
    BY <1>1, <2>1
<1>10. Sized(u)
  BY <1>1, <1>3, <1>8, <1>9 DEF Sized
<1>11. \A l \in Keys : ValueOf(u, l) = UNDEFINED
  BY <1>5, <1>7, ValueFacts
<1> QED
  BY <1>5, <1>7, <1>10, <1>11 DEF Sound, u

\* Two sequences of items of different keys, one after the other
LEMMA ConcatDistinct ==
  ASSUME NEW a \in Seq(Item), Distinct(a), NEW b \in Seq(Item), Distinct(b),
         \A x \in ToSet(a), y \in ToSet(b) : x.key # y.key
  PROVE  /\ a \o b \in Seq(Item) /\ Distinct(a \o b) /\ ToSet(a \o b) = ToSet(a) \cup ToSet(b)
         /\ a # <<>> => a \o b # <<>> /\ (a \o b)[1] = a[1]
         /\ a = <<>> => a \o b = b
<1> DEFINE c == a \o b
<1>1. /\ c \in Seq(Item) /\ Len(c) = Len(a) + Len(b) /\ Len(a) \in Nat /\ Len(b) \in Nat
      /\ DOMAIN c = 1..(Len(a) + Len(b)) /\ DOMAIN a = 1..Len(a) /\ DOMAIN b = 1..Len(b)
      /\ \A i \in DOMAIN c : c[i] = IF i <= Len(a) THEN a[i] ELSE b[i - Len(a)]
  OBVIOUS
<1>2. a # <<>> => Len(a) > 0
  OBVIOUS
<1>3. a = <<>> => c = b
  OBVIOUS
<1>4. Len(c) > 0 => c # <<>>
  OBVIOUS
<1> HIDE DEF c
<1>5. \A i \in DOMAIN c : \/ i \in DOMAIN a /\ c[i] = a[i]
                          \/ i - Len(a) \in DOMAIN b /\ c[i] = b[i - Len(a)] /\ i \notin DOMAIN a
  BY <1>1
<1>6. \A i \in DOMAIN a : i \in DOMAIN c /\ c[i] = a[i]
  BY <1>1
<1>7. \A i \in DOMAIN b : i + Len(a) \in DOMAIN c /\ c[i + Len(a)] = b[i]
  <2> TAKE i \in DOMAIN b
  <2>1. i + Len(a) \in DOMAIN c /\ ~(i + Len(a) <= Len(a)) /\ (i + Len(a)) - Len(a) = i
    BY <1>1
  <2> QED
    BY <1>1, <2>1
<1>8. \A i \in DOMAIN a, j \in DOMAIN b : a[i].key # b[j].key
  BY DEF ToSet
<1>9. Distinct(c)
  <2> SUFFICES ASSUME NEW i \in DOMAIN c, NEW j \in DOMAIN c, c[i].key = c[j].key
               PROVE  i = j
    BY DEF Distinct
  <2>1. CASE i \in DOMAIN a /\ j \in DOMAIN a
    BY <1>6, <2>1 DEF Distinct
  <2>2. CASE i \notin DOMAIN a /\ j \notin DOMAIN a
    <3>1. i - Len(a) \in DOMAIN b /\ j - Len(a) \in DOMAIN b
          /\ c[i] = b[i - Len(a)] /\ c[j] = b[j - Len(a)]
      BY <1>5, <2>2
    <3>2. i - Len(a) = j - Len(a)
      BY <3>1 DEF Distinct
    <3> QED
      BY <1>1, <3>2
  <2>3. CASE i \in DOMAIN a /\ j \notin DOMAIN a
    BY <1>5, <1>6, <1>8, <2>3
  <2>4. CASE i \notin DOMAIN a /\ j \in DOMAIN a
    <3>1. i - Len(a) \in DOMAIN b /\ c[i] = b[i - Len(a)] /\ c[j] = a[j]
      BY <1>5, <1>6, <2>4
    <3> QED
      BY <1>8, <2>4, <3>1
  <2> QED
    BY <2>1, <2>2, <2>3, <2>4
<1>10. ToSet(c) = ToSet(a) \cup ToSet(b)
  <2>1. \A y \in ToSet(c) : y \in ToSet(a) \cup ToSet(b)
    BY <1>5 DEF ToSet
  <2>2. \A y \in ToSet(a) : y \in ToSet(c)
    BY <1>6 DEF ToSet
  <2>3. \A y \in ToSet(b) : y \in ToSet(c)
    BY <1>7 DEF ToSet
  <2> QED
    BY <2>1, <2>2, <2>3
<1>11. a # <<>> => c # <<>> /\ c[1] = a[1]
  BY <1>1, <1>2, <1>4
<1> QED
  BY <1>1, <1>3, <1>9, <1>10, <1>11 DEF c

\* the items of the first i bins
ContentUpTo(t, i) == UNION {ToSet(t.items[b]) : b \in 0..(i - 1)}

\* b is the first bin with a chain
FirstBin(t, b) == t.items[b] # <<>> /\ \A a \in 0..(b - 1) : t.items[a] = <<>>

\* l comes at or before c in a loop
AtOrBefore(t, l, c) ==
  \/ BinOf(t.bins, l) < BinOf(t.bins, c)
  \/ /\ BinOf(t.bins, l) = BinOf(t.bins, c)
     /\ \E i \in Places(t, l), j \in Places(t, c) : i <= j

\* The place of an item is the place of its key.
LEMMA KeyPlaced ==
  ASSUME NEW t, Shaped(t), NEW b \in Bins(t), NEW i \in DOMAIN t.items[b],
         NEW k, k = t.items[b][i].key
  PROVE  k \in KeysOf(t) /\ k \in Keys /\ BinOf(t.bins, k) = b /\ Places(t, k) = {i}
<1>1. t.items[b][i] \in Content(t)
  BY DEF Content
<1>2. k \in KeysOf(t) /\ k \in Keys
  BY <1>1, KeysOfContent
<1>3. BinOf(t.bins, k) = b /\ Chain(t, k) = t.items[b]
  BY DEF Shaped, Chained, Chain
<1>4. i \in Places(t, k)
  BY <1>3 DEF Places
<1> QED
  BY <1>2, <1>3, <1>4, PlaceFacts

\* a sequence of items in the order of a loop
Ordered(t, c) == \A i, j \in DOMAIN c : i < j => ~AtOrBefore(t, c[j].key, c[i].key)

\* A chain is in the order of a loop.
LEMMA ChainOrdered ==
  ASSUME NEW t, Shaped(t), NEW b \in Bins(t)
  PROVE  Ordered(t, t.items[b])
<1> SUFFICES ASSUME NEW i \in DOMAIN t.items[b], NEW j \in DOMAIN t.items[b], i < j
             PROVE  ~AtOrBefore(t, t.items[b][j].key, t.items[b][i].key)
  BY DEF Ordered
<1> DEFINE k == t.items[b][i].key  l == t.items[b][j].key
<1>1. BinOf(t.bins, k) = b /\ Places(t, k) = {i}
  BY KeyPlaced
<1>2. BinOf(t.bins, l) = b /\ Places(t, l) = {j}
  BY KeyPlaced
<1>3. ~(b < b) /\ ~(j <= i)
  <2>1. t.items[b] \in Seq(Item) /\ t.bins \in Nat /\ b \in 0..(t.bins - 1)
    BY DEF Shaped, Chained, Bins
  <2>2. i \in Nat /\ j \in Nat /\ b \in Nat
    BY <2>1
  <2> QED
    BY <2>2
<1> HIDE DEF k, l
<1>4. ~AtOrBefore(t, l, k)
  BY <1>1, <1>2, <1>3 DEF AtOrBefore
<1> QED
  BY <1>4 DEF k, l

\* Two sequences in the order of a loop, the second behind the first
LEMMA ConcatOrdered ==
  ASSUME NEW t, NEW a \in Seq(Item), Ordered(t, a), NEW b \in Seq(Item), Ordered(t, b),
         \A x \in ToSet(a), y \in ToSet(b) : ~AtOrBefore(t, y.key, x.key)
  PROVE  Ordered(t, a \o b)
<1> DEFINE c == a \o b
<1>1. /\ Len(a) \in Nat /\ Len(b) \in Nat
      /\ DOMAIN c = 1..(Len(a) + Len(b)) /\ DOMAIN a = 1..Len(a) /\ DOMAIN b = 1..Len(b)
      /\ \A i \in DOMAIN c : c[i] = IF i <= Len(a) THEN a[i] ELSE b[i - Len(a)]
  OBVIOUS
<1> HIDE DEF c
<1> SUFFICES ASSUME NEW i \in DOMAIN c, NEW j \in DOMAIN c, i < j
             PROVE  ~AtOrBefore(t, c[j].key, c[i].key)
  BY DEF Ordered, c
<1>2. CASE j <= Len(a)
  <2>1. i \in DOMAIN a /\ j \in DOMAIN a /\ c[i] = a[i] /\ c[j] = a[j]
    BY <1>1, <1>2
  <2> QED
    BY <2>1 DEF Ordered
<1>3. CASE i > Len(a)
  <2>1. /\ i - Len(a) \in DOMAIN b /\ j - Len(a) \in DOMAIN b /\ i - Len(a) < j - Len(a)
        /\ c[i] = b[i - Len(a)] /\ c[j] = b[j - Len(a)]
    BY <1>1, <1>3
  <2> QED
    BY <2>1 DEF Ordered
<1>4. CASE i <= Len(a) /\ j > Len(a)
  <2>1. i \in DOMAIN a /\ c[i] = a[i] /\ j - Len(a) \in DOMAIN b /\ c[j] = b[j - Len(a)]
    BY <1>1, <1>4
  <2>2. c[i] \in ToSet(a) /\ c[j] \in ToSet(b)
    BY <2>1 DEF ToSet
  <2> QED
    BY <2>2
<1> QED
  BY <1>1, <1>2, <1>3, <1>4

\* Items is every item of the table once, in the order of a loop and beginning with the first bin.
LEMMA ItemsFacts ==
  ASSUME NEW t, Shaped(t)
  PROVE  /\ Items(t) \in Seq(Item) /\ Distinct(Items(t)) /\ ToSet(Items(t)) = Content(t)
         /\ Ordered(t, Items(t))
         /\ \A b \in Bins(t) : FirstBin(t, b) => Items(t) # <<>> /\ Items(t)[1] = t.items[b][1]
<1> DEFINE n == t.bins
           s == [i \in 1..n |-> t.items[i - 1]]
           step == [i \in 1..n |-> [x \in Seq(Item) |-> x \o s[i]]]
           flatten == CHOOSE g : g = [i \in 1..Len(s) |-> IF i = 1 THEN s[i] ELSE g[i - 1] \o s[i]]
<1>1. /\ n \in Nat \ {0} /\ Bins(t) = 0..(n - 1)
      /\ \A b \in Bins(t) : t.items[b] \in Seq(Item) /\ Distinct(t.items[b])
      /\ \A b \in Bins(t) : \A x \in ToSet(t.items[b]) : BinOf(n, x.key) = b
  <2>1. n \in Nat \ {0} /\ Bins(t) = 0..(n - 1)
    BY DEF Shaped, Bins
  <2>2. \A b \in Bins(t) : Chained(t.items[b], n, b)
    BY DEF Shaped
  <2> HIDE DEF n
  <2>3. \A b \in Bins(t) : t.items[b] \in Seq(Item) /\ Distinct(t.items[b])
    BY <2>2 DEF Chained, Distinct
  <2>4. \A b \in Bins(t) : \A x \in ToSet(t.items[b]) : BinOf(n, x.key) = b
    BY <2>2 DEF Chained, ToSet
  <2> QED
    BY <2>1, <2>3, <2>4
<1>2. /\ \A i \in 1..n : i - 1 \in Bins(t) /\ s[i] = t.items[i - 1] /\ s[i] \in Seq(Item)
      /\ Len(s) = n
  <2>1. \A i \in 1..n : i - 1 \in Bins(t)
    BY <1>1
  <2>2. Len(s) = n
    <3> HIDE DEF n
    <3> QED
      BY <1>1
  <2> QED
    BY <1>1, <2>1, <2>2
<1>3. Items(t) = flatten[n]
  <2>1. Items(t) = FlattenSeq(s)
    BY DEF Items
  <2>2. FlattenSeq(s) = IF Len(s) = 0 THEN s ELSE flatten[Len(s)]
    BY DEF FlattenSeq
  <2> HIDE DEF flatten, s
  <2> QED
    BY <1>1, <1>2, <2>1, <2>2
<1> HIDE DEF s
<1>4. step \in [1..n -> [Seq(Item) -> Seq(Item)]]
  BY <1>2
<1>5. PICK f : Iterates(f, Seq(Item), n, <<>>, step)
  <2>1. <<>> \in Seq(Item)
    OBVIOUS
  <2> HIDE DEF step, n
  <2> QED
    BY <1>1, <1>4, <2>1, Iteration
<1>6. \A i \in 1..n : f[i - 1] \in Seq(Item) /\ f[i] = f[i - 1] \o s[i]
  <2> TAKE i \in 1..n
  <2>1. f[i - 1] \in Seq(Item)
    <3>1. i - 1 \in 0..n
      BY <1>1
    <3> QED
      BY <1>5, <3>1 DEF Iterates
  <2>2. f[i] = step[i][f[i - 1]]
    BY <1>5 DEF Iterates
  <2> QED
    BY <2>1, <2>2
<1> HIDE DEF step
<1> DEFINE h == [i \in 1..n |-> f[i]]
<1>7. h = [i \in 1..Len(s) |-> IF i = 1 THEN s[i] ELSE h[i - 1] \o s[i]]
  <2>1. f[1] = s[1]
    <3>1. 1 \in 1..n /\ f[0] = <<>>
      BY <1>1, <1>5 DEF Iterates
    <3>2. s[1] \in Seq(Item)
      BY <1>2, <3>1
    <3>3. \A i \in 1..n : i = 1 => i - 1 = 0
      OBVIOUS
    <3>4. f[1] = <<>> \o s[1]
      <4> HIDE DEF n
      <4>1. \A i \in 1..n : i = 1 => f[i] = f[0] \o s[i]
        BY <1>6, <3>3
      <4> QED
        BY <3>1, <4>1
    <3> QED
      BY <3>2, <3>4
  <2>2. \A i \in 1..n : i # 1 => i - 1 \in 1..n
    BY <1>1
  <2>3. \A i \in 1..n : h[i] = IF i = 1 THEN s[i] ELSE h[i - 1] \o s[i]
    BY <1>6, <2>1, <2>2
  <2> HIDE DEF n
  <2>4. h = [i \in 1..n |-> h[i]]
    OBVIOUS
  <2> HIDE DEF h
  <2> QED
    BY <1>2, <2>3, <2>4
<1>8. flatten = [i \in 1..Len(s) |-> IF i = 1 THEN s[i] ELSE flatten[i - 1] \o s[i]]
  <2> HIDE DEF h
  <2> QED
    BY <1>7
<1> HIDE DEF flatten, h
<1>9. /\ flatten[1] = s[1]
      /\ \A i \in 2..n : flatten[i] = flatten[i - 1] \o s[i]
  <2>1. \A i \in 1..n : flatten[i] = IF i = 1 THEN s[i] ELSE flatten[i - 1] \o s[i]
    BY <1>2, <1>8
  <2>2. 1 \in 1..n /\ \A i \in 2..n : i \in 1..n /\ i # 1
    BY <1>1
  <2> QED
    BY <2>1, <2>2
<1> DEFINE Good(i) == /\ flatten[i] \in Seq(Item) /\ Distinct(flatten[i])
                      /\ ToSet(flatten[i]) = ContentUpTo(t, i) /\ Ordered(t, flatten[i])
                      /\ (\A b \in 0..(i - 1) : t.items[b] = <<>>) => flatten[i] = <<>>
                      /\ \A b \in 0..(i - 1) : FirstBin(t, b) =>
                           flatten[i] # <<>> /\ flatten[i][1] = t.items[b][1]
<1>10. Good(1)
  <2>1. flatten[1] = t.items[0] /\ 0 \in Bins(t) /\ \A b : b \in 0..(1 - 1) <=> b = 0
    BY <1>1, <1>2, <1>9
  <2>2. ContentUpTo(t, 1) = ToSet(t.items[0])
    BY <2>1 DEF ContentUpTo
  <2>3. Ordered(t, t.items[0])
    BY <2>1, ChainOrdered
  <2> QED
    BY <1>1, <2>1, <2>2, <2>3 DEF FirstBin
<1>11. ASSUME NEW i \in 2..n, Good(i - 1)
       PROVE  Good(i)
  <2> DEFINE a == flatten[i - 1]  c == t.items[i - 1]
  <2>1. /\ i - 1 \in Bins(t) /\ flatten[i] = a \o c /\ c \in Seq(Item) /\ Distinct(c)
        /\ \A b : b \in 0..(i - 1) <=> b \in 0..((i - 1) - 1) \/ b = i - 1
        /\ \A b \in 0..((i - 1) - 1) : b \in Bins(t) /\ b # i - 1
    <3>1. /\ i - 1 \in Bins(t) /\ i \in 1..n
          /\ \A b : b \in 0..(i - 1) <=> b \in 0..((i - 1) - 1) \/ b = i - 1
          /\ \A b \in 0..((i - 1) - 1) : b \in Bins(t) /\ b # i - 1
      BY <1>1
    <3> QED
      BY <1>1, <1>2, <1>9, <3>1
  <2>2. a \in Seq(Item) /\ Distinct(a) /\ ToSet(a) = ContentUpTo(t, i - 1) /\ Ordered(t, a)
    BY <1>11
  <2>3. \A x \in ToSet(a), y \in ToSet(c) : x.key # y.key
    BY <1>1, <2>1, <2>2 DEF ContentUpTo
  <2>8. Ordered(t, c)
    BY <2>1, ChainOrdered
  <2>9. ASSUME NEW x \in ToSet(a), NEW y \in ToSet(c)
        PROVE  ~AtOrBefore(t, y.key, x.key)
    <3>1. BinOf(n, x.key) \in 0..((i - 1) - 1)
      BY <1>1, <2>1, <2>2 DEF ContentUpTo
    <3>2. BinOf(n, y.key) = i - 1
      BY <1>1, <2>1
    <3>3. ~(BinOf(n, y.key) < BinOf(n, x.key)) /\ BinOf(n, y.key) # BinOf(n, x.key)
      BY <3>1, <3>2
    <3> QED
      BY <3>3 DEF AtOrBefore
  <2> HIDE DEF a, c
  <2>10. Ordered(t, a \o c)
    BY <2>1, <2>2, <2>8, <2>9, ConcatOrdered
  <2>4. /\ a \o c \in Seq(Item) /\ Distinct(a \o c) /\ ToSet(a \o c) = ToSet(a) \cup ToSet(c)
        /\ a # <<>> => a \o c # <<>> /\ (a \o c)[1] = a[1]
        /\ a = <<>> => a \o c = c
    BY <2>1, <2>2, <2>3, ConcatDistinct
  <2>5. ContentUpTo(t, i) = ContentUpTo(t, i - 1) \cup ToSet(c)
    BY <2>1 DEF ContentUpTo, c
  <2>6. (\A b \in 0..(i - 1) : t.items[b] = <<>>) => a \o c = <<>>
    BY <1>11, <2>1, <2>4 DEF a, c
  <2>7. ASSUME NEW b \in 0..(i - 1), FirstBin(t, b)
        PROVE  a \o c # <<>> /\ (a \o c)[1] = t.items[b][1]
    <3>1. CASE b \in 0..((i - 1) - 1)
      BY <1>11, <2>4, <2>7, <3>1 DEF a
    <3>2. CASE b = i - 1
      <4>1. a = <<>> /\ c # <<>>
        BY <1>11, <2>7, <3>2 DEF FirstBin, a, c
      <4> QED
        BY <2>4, <3>2, <4>1 DEF c
    <3> QED
      BY <2>1, <3>1, <3>2
  <2> QED
    BY <2>1, <2>2, <2>4, <2>5, <2>6, <2>7, <2>10
<1> DEFINE P == {m \in 0..(n - 1) : Good(m + 1)}
<1>12. n - 1 \in P
  <2> HIDE DEF Good, n
  <2>1. 0 \in P
    BY <1>1, <1>10
  <2>2. ASSUME NEW m \in 1..(n - 1), m - 1 \in P
        PROVE  m \in P
    <3>1. m + 1 \in 2..n /\ (m + 1) - 1 = m /\ (m - 1) + 1 = m /\ m \in 0..(n - 1)
      BY <1>1
    <3>2. Good((m + 1) - 1)
      BY <2>2, <3>1
    <3>3. Good(m + 1)
      BY <1>11, <3>1, <3>2
    <3> QED
      BY <3>1, <3>3
  <2>3. n - 1 \in Nat /\ n - 1 \in 0..(n - 1)
    BY <1>1
  <2> HIDE DEF P
  <2> QED
    BY <2>1, <2>2, <2>3, Induction
<1>13. Good(n)
  <2> HIDE DEF Good, n
  <2>1. (n - 1) + 1 = n
    BY <1>1
  <2> QED
    BY <1>12, <2>1
<1>14. ContentUpTo(t, n) = Content(t)
  BY <1>1 DEF ContentUpTo, Content, ToSet
<1> QED
  BY <1>1, <1>3, <1>13, <1>14

\* Items of different keys are as many as their keys.
LEMMA CountItems ==
  ASSUME NEW c \in Seq(Item), Distinct(c)
  PROVE  Cardinality({x.key : x \in ToSet(c)}) = Len(c)
<1> DEFINE T == {x.key : x \in ToSet(c)}
           f == [i \in 1..Len(c) |-> c[i].key]
<1>1. Len(c) \in Nat /\ DOMAIN c = 1..Len(c)
  OBVIOUS
<1>2. \A k : k \in T <=> \E i \in 1..Len(c) : c[i].key = k
  BY <1>1 DEF ToSet
<1>3. f \in [1..Len(c) -> T]
  BY <1>2
<1>4. \A i, j \in 1..Len(c) : f[i] = f[j] => i = j
  BY <1>1 DEF Distinct
<1>5. \A k \in T : \E i \in 1..Len(c) : f[i] = k
  BY <1>2
<1> HIDE DEF T, f
<1>6. f \in Bijection(1..Len(c), T)
  <2>1. f \in Injection(1..Len(c), T)
    BY <1>3, <1>4 DEF Injection, IsInjective
  <2>2. f \in Surjection(1..Len(c), T)
    BY <1>3, <1>5 DEF Surjection
  <2> QED
    BY <2>1, <2>2 DEF Bijection
<1>7. ExistsBijection(1..Len(c), T)
  BY <1>6 DEF ExistsBijection
<1>8. Cardinality(T) = Len(c)
  BY <1>1, <1>7, FS_CountingElements
<1> QED
  BY <1>8 DEF T

\* A sound table counts its items.
LEMMA SizeFacts ==
  ASSUME NEW t, Sound(t)
  PROVE  t.size = Len(Items(t))
<1> DEFINE items == Items(t)
<1>1. items \in Seq(Item) /\ Distinct(items) /\ ToSet(items) = Content(t)
  BY ItemsFacts DEF Sound
<1>2. KeysOf(t) = {x.key : x \in Content(t)}
  BY KeysOfContent DEF Sound
<1> HIDE DEF items
<1>3. Cardinality(KeysOf(t)) = Len(items)
  BY <1>1, <1>2, CountItems
<1> QED
  BY <1>3 DEF Sound, Sized, items

\* the sound tables, as a set
Tables == {u \in [bins : Nat, items : UNION {[0..(n - 1) -> Seq(Item)] : n \in Nat}, size : Nat] : Sound(u)}

\* Every sound table is one of them.
LEMMA SoundIsTable ==
  ASSUME NEW u, Sound(u)
  PROVE  u \in Tables
<1>1. /\ Shaped(u) /\ u.size \in Nat /\ u.bins \in Nat
      /\ u = [bins |-> u.bins, items |-> u.items, size |-> u.size]
  BY SizeType DEF Sound, Sized, Shaped, Record
<1>2. u.items \in [0..(u.bins - 1) -> Seq(Item)]
  BY DEF Sound, Shaped, Chained, Bins
<1>3. u.items \in UNION {[0..(n - 1) -> Seq(Item)] : n \in Nat}
  BY <1>1, <1>2
<1> QED
  BY <1>1, <1>3 DEF Tables

\* new_table_copy answers with a sound table that has the same items.
LEMMA CopiedFacts ==
  ASSUME NEW t, Sound(t)
  PROVE  LET u == Copied(t)
         IN /\ Sound(u) /\ KeysOf(u) = KeysOf(t)
            /\ \A l \in Keys : ValueOf(u, l) = ValueOf(t, l)
<1> DEFINE items == Items(t)
           n == Len(items)
           step == [i \in 1..n |-> [u \in Tables |-> With(u, items[i].key, items[i].value)]]
           copy == CHOOSE g : g = [i \in 0..n |->
                     IF i = 0 THEN EmptyTable ELSE With(g[i - 1], items[i].key, items[i].value)]
<1>1. Copied(t) = copy[n]
  BY DEF Copied
<1>2. /\ Shaped(t) /\ items \in Seq(Item) /\ Distinct(items) /\ ToSet(items) = Content(t)
      /\ n \in Nat /\ DOMAIN items = 1..n
      /\ \A i \in 1..n : items[i] \in Item /\ items[i].key \in Keys /\ items[i].value \in Values
  <2>1. /\ Shaped(t) /\ items \in Seq(Item) /\ Distinct(items) /\ ToSet(items) = Content(t)
    BY ItemsFacts DEF Sound
  <2> HIDE DEF items
  <2>2. n \in Nat /\ DOMAIN items = 1..n /\ \A i \in 1..n : items[i] \in Item
    BY <2>1
  <2>3. \A i \in 1..n : items[i].key \in Keys /\ items[i].value \in Values
    BY <2>2 DEF Item
  <2> QED
    BY <2>1, <2>2, <2>3
<1> HIDE DEF items
<1>3. step \in [1..n -> [Tables -> Tables]]
  <2>1. \A i \in 1..n : \A u \in Tables : With(u, items[i].key, items[i].value) \in Tables
    <3> TAKE i \in 1..n
    <3> TAKE u \in Tables
    <3>1. Sound(u)
      BY DEF Tables
    <3>2. Sound(With(u, items[i].key, items[i].value))
      BY <1>2, <3>1, WithFacts
    <3> QED
      BY <3>2, SoundIsTable
  <2> QED
    BY <2>1
<1>4. PICK f : Iterates(f, Tables, n, EmptyTable, step)
  <2>1. EmptyTable \in Tables
    BY EmptySound, SoundIsTable
  <2> HIDE DEF step, n
  <2> QED
    BY <1>2, <1>3, <2>1, Iteration
<1>5. /\ f[0] = EmptyTable /\ f \in [0..n -> Tables]
      /\ \A i \in 1..n : i - 1 \in 0..n /\ f[i - 1] \in Tables /\ f[i] = With(f[i - 1], items[i].key, items[i].value)
  <2>1. f[0] = EmptyTable /\ f \in [0..n -> Tables] /\ \A i \in 1..n : f[i] = step[i][f[i - 1]]
    BY <1>4 DEF Iterates
  <2>2. \A i \in 1..n : i - 1 \in 0..n
    BY <1>2
  <2> HIDE DEF n
  <2> QED
    BY <2>1, <2>2
<1> HIDE DEF step
<1>6. copy = [i \in 0..n |-> IF i = 0 THEN EmptyTable ELSE With(copy[i - 1], items[i].key, items[i].value)]
  <2>1. f = [i \in 0..n |-> IF i = 0 THEN EmptyTable ELSE With(f[i - 1], items[i].key, items[i].value)]
    <3>1. \A i \in 0..n : i = 0 \/ i \in 1..n
      BY <1>2
    <3> HIDE DEF n
    <3> QED
      BY <1>5, <3>1
  <2> HIDE DEF n
  <2> QED
    BY <2>1
<1>7. /\ copy[0] = EmptyTable
      /\ \A i \in 1..n : copy[i] = With(copy[i - 1], items[i].key, items[i].value)
  <2>1. 0 \in 0..n /\ \A i \in 1..n : i \in 0..n /\ i # 0
    BY <1>2
  <2> HIDE DEF copy, n
  <2> QED
    BY <1>6, <2>1
<1> HIDE DEF copy
<1> DEFINE Done(i) == {items[j] : j \in 1..i}
           P == {i \in 0..n : Sound(copy[i]) /\ Content(copy[i]) = Done(i)}
<1>8. 0 \in P
  <2>1. Done(0) = {} /\ 0 \in 0..n
    BY <1>2
  <2> QED
    BY <1>7, <2>1, EmptySound
<1>9. ASSUME NEW i \in 1..n, i - 1 \in P
      PROVE  i \in P
  <2> DEFINE u == copy[i - 1]  k == items[i].key  v == items[i].value
  <2>1. Sound(u) /\ Content(u) = Done(i - 1) /\ i \in 0..n
    BY <1>2, <1>9
  <2>2. /\ items[i] = [key |-> k, value |-> v] /\ k \in Keys /\ v \in Values
        /\ \A j : j \in 1..i <=> j \in 1..(i - 1) \/ j = i
        /\ \A j \in 1..(i - 1) : j \in 1..n /\ j # i
    BY <1>2 DEF Item
  <2>3. \A j \in 1..(i - 1) : items[j].key # k
    BY <1>2, <2>2 DEF Distinct
  <2>4. copy[i] = With(u, k, v)
    BY <1>7
  <2>5. /\ Sound(copy[i])
        /\ Content(copy[i]) = {x \in Content(u) : x.key # k} \cup {[key |-> k, value |-> v]}
    <3> HIDE DEF u, k, v
    <3> QED
      BY <2>1, <2>2, <2>4, WithFacts
  <2>6. {x \in Content(u) : x.key # k} = Done(i - 1)
    BY <2>1, <2>3
  <2>7. Done(i) = Done(i - 1) \cup {items[i]}
    BY <2>2
  <2> HIDE DEF u, k, v, Done
  <2> QED
    BY <2>1, <2>2, <2>5, <2>6, <2>7
<1>10. n \in P
  <2>1. n \in 0..n
    BY <1>2
  <2> HIDE DEF P, n
  <2> QED
    BY <1>2, <1>8, <1>9, <2>1, Induction
<1>11. Done(n) = Content(t)
  BY <1>2 DEF ToSet
<1>12. Sound(copy[n]) /\ Content(copy[n]) = Content(t) /\ Shaped(copy[n])
  BY <1>10, <1>11 DEF Sound
<1> QED
  BY <1>1, <1>2, <1>12, SameContent

\* Different keys in the order of strcmp
Sorted(s) == s \in Seq(Keys) /\ \A i, j \in DOMAIN s : i < j => s[i] < s[j]

\* Inserted keeps that order.
LEMMA InsertedFacts ==
  ASSUME NEW s, Sorted(s), NEW k \in Keys, k \notin ToSet(s)
  PROVE  Sorted(Inserted(s, k)) /\ ToSet(Inserted(s, k)) = ToSet(s) \cup {k}
<1> DEFINE greater == {i \in DOMAIN s : k < s[i]}
           d == Inserted(s, k)
<1>1. /\ s \in Seq(Keys) /\ Len(s) \in Nat /\ DOMAIN s = 1..Len(s)
      /\ k \in Nat /\ \A i \in DOMAIN s : s[i] \in Keys /\ s[i] \in Nat /\ s[i] # k
      /\ \A i, j \in DOMAIN s : i < j => s[i] < s[j]
  <2>1. s \in Seq(Keys) /\ \A i, j \in DOMAIN s : i < j => s[i] < s[j]
    BY DEF Sorted
  <2>2. Len(s) \in Nat /\ DOMAIN s = 1..Len(s) /\ \A i \in DOMAIN s : s[i] \in Keys
    BY <2>1
  <2>3. \A i \in DOMAIN s : s[i] # k
    BY DEF ToSet
  <2>4. \A x \in Keys : x \in Nat
    BY TableAssumption
  <2> QED
    BY <2>1, <2>2, <2>3, <2>4
<1>2. CASE greater = {}
  <2>1. d = Append(s, k)
    BY <1>2 DEF Inserted
  <2>2. /\ d \in Seq(Keys) /\ DOMAIN d = 1..(Len(s) + 1)
        /\ \A i \in DOMAIN s : d[i] = s[i]
        /\ d[Len(s) + 1] = k
    BY <1>1, <2>1
  <2> HIDE DEF d
  <2>3. \A i \in DOMAIN s : s[i] < k
    BY <1>1, <1>2
  <2>4. \A i \in DOMAIN d : i \in DOMAIN s \/ i = Len(s) + 1
    BY <1>1, <2>2
  <2>5. Len(s) + 1 \in DOMAIN d /\ DOMAIN s \subseteq DOMAIN d
    BY <1>1, <2>2
  <2>6. \A i, j \in DOMAIN d : i < j => d[i] < d[j]
    <3> TAKE i, j \in DOMAIN d
    <3> HAVE i < j
    <3>1. i \in DOMAIN s
      BY <1>1, <2>2, <2>4
    <3>2. CASE j \in DOMAIN s
      BY <1>1, <2>2, <3>1, <3>2
    <3>3. CASE j = Len(s) + 1
      BY <1>1, <2>2, <2>3, <3>1, <3>3
    <3> QED
      BY <2>4, <3>2, <3>3
  <2>7. ToSet(d) = ToSet(s) \cup {k}
    BY <2>2, <2>4, <2>5 DEF ToSet
  <2> QED
    BY <2>2, <2>6, <2>7 DEF Sorted, d
<1>3. CASE greater # {}
  <2> DEFINE m == Min(greater)
  <2>1. m \in greater /\ \A i \in greater : m <= i
    <3>1. greater \in SUBSET Nat
      BY <1>1
    <3> HIDE DEF greater
    <3> QED
      BY <1>3, <3>1, MinFacts
  <2>2. d = InsertAt(s, m, k)
    BY <1>3 DEF Inserted
  <2> HIDE DEF m, d
  <2>3. m \in 1..Len(s) /\ k < s[m]
    BY <1>1, <2>1
  <2>4. /\ d \in Seq(Keys) /\ Len(d) = Len(s) + 1
        /\ \A j \in 1..(Len(s) + 1) : d[j] = IF j < m THEN s[j] ELSE IF j = m THEN k ELSE s[j - 1]
    <3>1. m \in 1..(Len(s) + 1)
      BY <1>1, <2>3
    <3>2. /\ InsertAt(s, m, k) \in Seq(Keys) /\ Len(InsertAt(s, m, k)) = Len(s) + 1
          /\ \A j \in 1..(Len(s) + 1) :
               InsertAt(s, m, k)[j] = IF j < m THEN s[j] ELSE IF j = m THEN k ELSE s[j - 1]
      BY <1>1, <3>1, InsertFacts
    <3> QED
      BY <2>2, <3>2
  <2>5. DOMAIN d = 1..(Len(s) + 1)
    BY <2>4
  <2>6. \A i \in DOMAIN s : (i < m => s[i] < k) /\ (m <= i => k < s[i])
    <3> TAKE i \in DOMAIN s
    <3>1. i < m => ~(k < s[i])
      BY <1>1, <2>1, <2>3
    <3>2. CASE m = i
      BY <1>1, <2>3, <3>2
    <3>3. m < i => s[m] < s[i]
      BY <1>1, <2>3
    <3>4. m <= i => m = i \/ m < i
      BY <1>1, <2>3
    <3>5. m < i => k < s[i]
      BY <1>1, <2>3, <3>3
    <3> QED
      BY <1>1, <3>1, <3>2, <3>4, <3>5
  <2>7. \A j \in DOMAIN d :
          \/ j < m /\ j \in DOMAIN s /\ d[j] = s[j]
          \/ j = m /\ d[j] = k
          \/ m < j /\ j - 1 \in DOMAIN s /\ m <= j - 1 /\ d[j] = s[j - 1]
    BY <1>1, <2>3, <2>4, <2>5
  <2>8. \A i, j \in DOMAIN d : i < j => d[i] < d[j]
    <3> TAKE i, j \in DOMAIN d
    <3> HAVE i < j
    <3>0. i \in Int /\ j \in Int /\ m \in Int
      BY <1>1, <2>3, <2>5
    <3>1. CASE i < m /\ i \in DOMAIN s /\ d[i] = s[i]
      <4>1. CASE j < m /\ j \in DOMAIN s /\ d[j] = s[j]
        BY <1>1, <3>1, <4>1
      <4>2. CASE j = m /\ d[j] = k
        BY <2>6, <3>1, <4>2
      <4>3. CASE m < j /\ j - 1 \in DOMAIN s /\ m <= j - 1 /\ d[j] = s[j - 1]
        <5>1. i < j - 1
          BY <3>0, <3>1, <4>3
        <5> QED
          BY <1>1, <3>1, <4>3, <5>1
      <4> QED
        BY <2>7, <4>1, <4>2, <4>3
    <3>2. CASE i = m /\ d[i] = k
      <4>1. m < j /\ j - 1 \in DOMAIN s /\ m <= j - 1 /\ d[j] = s[j - 1]
        BY <2>7, <3>0, <3>2
      <4> QED
        BY <2>6, <3>2, <4>1
    <3>3. CASE m < i /\ i - 1 \in DOMAIN s /\ m <= i - 1 /\ d[i] = s[i - 1]
      <4>1. m < j /\ j - 1 \in DOMAIN s /\ m <= j - 1 /\ d[j] = s[j - 1]
        BY <2>7, <3>0, <3>3
      <4>2. i - 1 < j - 1
        BY <3>0
      <4> QED
        BY <1>1, <3>3, <4>1, <4>2
    <3> QED
      BY <2>7, <3>1, <3>2, <3>3
  <2>9. \A y \in ToSet(d) : y \in ToSet(s) \cup {k}
    BY <2>7 DEF ToSet
  <2>10. \A y \in ToSet(s) \cup {k} : y \in ToSet(d)
    <3>1. k \in ToSet(d)
      <4>1. m \in DOMAIN d /\ d[m] = k
        BY <1>1, <2>3, <2>4, <2>5
      <4> QED
        BY <4>1 DEF ToSet
    <3>2. ASSUME NEW i \in DOMAIN s
          PROVE  s[i] \in ToSet(d)
      <4>1. CASE i < m
        <5>1. i \in DOMAIN d /\ d[i] = s[i]
          BY <1>1, <2>4, <2>5, <4>1
        <5> QED
          BY <5>1 DEF ToSet
      <4>2. CASE m <= i
        <5>1. i + 1 \in DOMAIN d /\ ~(i + 1 < m) /\ i + 1 # m /\ (i + 1) - 1 = i
          BY <1>1, <2>3, <2>5, <4>2
        <5>2. d[i + 1] = s[i]
          BY <2>4, <2>5, <5>1
        <5> QED
          BY <5>1, <5>2 DEF ToSet
      <4> QED
        BY <1>1, <2>3, <4>1, <4>2
    <3> QED
      BY <3>1, <3>2 DEF ToSet
  <2> QED
    BY <2>4, <2>8, <2>9, <2>10 DEF Sorted, d
<1> QED
  BY <1>2, <1>3

\* table_keys lists every key once, in the order of strcmp.
LEMMA KeyListFacts ==
  ASSUME NEW t, Shaped(t)
  PROVE  Sorted(KeyList(t)) /\ ToSet(KeyList(t)) = KeysOf(t)
<1> DEFINE items == Items(t)
           n == Len(items)
           keys == CHOOSE g : g = [i \in 0..n |->
                     IF i = 0 THEN <<>> ELSE Inserted(g[i - 1], items[i].key)]
           Done(i) == {items[j].key : j \in 1..i}
<1>1. KeyList(t) = keys[n]
  BY DEF KeyList
<1>2. /\ items \in Seq(Item) /\ Distinct(items) /\ ToSet(items) = Content(t)
      /\ n \in Nat /\ DOMAIN items = 1..n
      /\ \A i \in 1..n : items[i].key \in Keys
  <2>1. items \in Seq(Item) /\ Distinct(items) /\ ToSet(items) = Content(t)
    BY ItemsFacts
  <2> HIDE DEF items
  <2>2. n \in Nat /\ DOMAIN items = 1..n /\ \A i \in 1..n : items[i] \in Item
    BY <2>1
  <2> QED
    BY <2>1, <2>2 DEF Item
<1> HIDE DEF items
<1> DEFINE Sorts == {s \in Seq(Keys) : Sorted(s)}
           step == [i \in 1..n |-> [s \in Sorts |-> IF items[i].key \in ToSet(s) THEN s ELSE Inserted(s, items[i].key)]]
<1>3. step \in [1..n -> [Sorts -> Sorts]]
  <2>1. ASSUME NEW i \in 1..n, NEW s \in Sorts, items[i].key \notin ToSet(s)
        PROVE  Inserted(s, items[i].key) \in Sorts
    <3>1. Sorted(Inserted(s, items[i].key))
      BY <1>2, <2>1, InsertedFacts
    <3> QED
      BY <3>1 DEF Sorted
  <2> HIDE DEF Sorts
  <2> QED
    BY <2>1
<1>4. PICK f : Iterates(f, Sorts, n, <<>>, step)
  <2>1. <<>> \in Sorts
    <3>1. <<>> \in Seq(Keys) /\ DOMAIN <<>> = {}
      OBVIOUS
    <3> QED
      BY <3>1 DEF Sorted
  <2> HIDE DEF step, n, Sorts
  <2> QED
    BY <1>2, <1>3, <2>1, Iteration
<1>5. /\ f[0] = <<>> /\ f \in [0..n -> Sorts]
      /\ \A i \in 1..n : /\ i - 1 \in 0..n /\ f[i - 1] \in Sorts
                         /\ items[i].key \notin ToSet(f[i - 1]) => f[i] = Inserted(f[i - 1], items[i].key)
  <2>1. f[0] = <<>> /\ f \in [0..n -> Sorts] /\ \A i \in 1..n : f[i] = step[i][f[i - 1]]
    BY <1>4 DEF Iterates
  <2>2. \A i \in 1..n : i - 1 \in 0..n
    BY <1>2
  <2> HIDE DEF n, Sorts
  <2> QED
    BY <2>1, <2>2
<1> HIDE DEF step
<1> DEFINE P == {i \in 0..n : ToSet(f[i]) = Done(i)}
<1>6. 0 \in P
  <2>1. Done(0) = {} /\ 0 \in 0..n /\ DOMAIN f[0] = {}
    BY <1>2, <1>5
  <2> QED
    BY <2>1 DEF ToSet
<1>7. ASSUME NEW i \in 1..n, i - 1 \in P
      PROVE  i \in P /\ items[i].key \notin ToSet(f[i - 1])
  <2>1. /\ i \in 0..n
        /\ \A j : j \in 1..i <=> j \in 1..(i - 1) \/ j = i
        /\ \A j \in 1..(i - 1) : j \in 1..n /\ j # i
    BY <1>2
  <2>2. \A j \in 1..(i - 1) : items[j].key # items[i].key
    BY <1>2, <2>1 DEF Distinct
  <2>3. ToSet(f[i - 1]) = Done(i - 1)
    BY <1>7
  <2>4. items[i].key \notin ToSet(f[i - 1])
    BY <2>2, <2>3
  <2>5. f[i] = Inserted(f[i - 1], items[i].key) /\ Sorted(f[i - 1])
    BY <1>5, <2>4
  <2>6. ToSet(f[i]) = ToSet(f[i - 1]) \cup {items[i].key}
    BY <1>2, <2>4, <2>5, InsertedFacts
  <2>7. Done(i) = Done(i - 1) \cup {items[i].key}
    BY <2>1
  <2> HIDE DEF Done
  <2> QED
    BY <2>1, <2>3, <2>4, <2>6, <2>7
<1>8. \A i \in 0..n : i \in P
  <2> HIDE DEF P, n
  <2> QED
    BY <1>2, <1>6, <1>7, Induction
<1>9. \A i \in 1..n : i - 1 \in P /\ f[i] = Inserted(f[i - 1], items[i].key)
  <2> TAKE i \in 1..n
  <2>1. i - 1 \in P
    BY <1>5, <1>8
  <2>2. items[i].key \notin ToSet(f[i - 1])
    BY <1>7, <2>1
  <2> QED
    BY <1>5, <2>1, <2>2
<1>10. f = [i \in 0..n |-> IF i = 0 THEN <<>> ELSE Inserted(f[i - 1], items[i].key)]
  <2>1. \A i \in 0..n : i = 0 \/ i \in 1..n
    BY <1>2
  <2> HIDE DEF n, P
  <2> QED
    BY <1>5, <1>9, <2>1
<1>11. keys = [i \in 0..n |-> IF i = 0 THEN <<>> ELSE Inserted(keys[i - 1], items[i].key)]
  <2> HIDE DEF n
  <2> QED
    BY <1>10
<1>12. /\ keys[0] = <<>>
       /\ \A i \in 1..n : keys[i] = Inserted(keys[i - 1], items[i].key)
  <2>1. 0 \in 0..n /\ \A i \in 1..n : i \in 0..n /\ i # 0
    BY <1>2
  <2> HIDE DEF keys, n
  <2> QED
    BY <1>11, <2>1
<1> HIDE DEF keys
<1> DEFINE Same == {i \in 0..n : keys[i] = f[i]}
<1>13. n \in Same
  <2>1. 0 \in Same
    BY <1>2, <1>5, <1>12
  <2>2. \A i \in 1..n : i - 1 \in Same => i \in Same
    <3>1. \A i \in 1..n : i \in 0..n
      BY <1>2
    <3> HIDE DEF n
    <3> QED
      BY <1>9, <1>12, <3>1
  <2>3. n \in 0..n
    BY <1>2
  <2> HIDE DEF Same, n
  <2> QED
    BY <1>2, <2>1, <2>2, <2>3, Induction
<1>14. ToSet(f[n]) = Done(n) /\ Sorted(f[n])
  <2>1. n \in 0..n
    BY <1>2
  <2> HIDE DEF Done, n
  <2> QED
    BY <1>5, <1>8, <2>1
<1>15. Done(n) = KeysOf(t)
  <2>1. KeysOf(t) = {x.key : x \in Content(t)}
    BY KeysOfContent
  <2> QED
    BY <1>2, <2>1 DEF ToSet
<1> QED
  BY <1>1, <1>13, <1>14, <1>15

\* The search through the bins ends at the first chain, or there is none.
LEMMA FirstFromFacts ==
  ASSUME NEW t, Shaped(t), NEW b \in Nat
  PROVE  \/ FirstFrom(t, b) = NULL /\ \A c \in b..(t.bins - 1) : t.items[c] = <<>>
         \/ \E c \in b..(t.bins - 1) :
              /\ t.items[c] # <<>> /\ \A a \in b..(c - 1) : t.items[a] = <<>>
              /\ 1 \in DOMAIN t.items[c]
              /\ FirstFrom(t, b) = t.items[c][1].key /\ FirstFrom(t, b) \in KeysOf(t)
<1> DEFINE full == {c \in b..(t.bins - 1) : t.items[c] # <<>>}
<1>1. CASE full = {}
  BY <1>1 DEF FirstFrom
<1>2. CASE full # {}
  <2> DEFINE c == Min(full)
  <2>1. t.bins \in Nat \ {0}
    BY DEF Shaped
  <2>2. full \in SUBSET Nat
    BY <2>1
  <2>3. c \in full /\ \A a \in full : c <= a
    <3> HIDE DEF full
    <3> QED
      BY <1>2, <2>2, MinFacts
  <2>4. FirstFrom(t, b) = Head(t.items[c]).key
    BY <1>2 DEF FirstFrom
  <2> HIDE DEF c
  <2>5. c \in b..(t.bins - 1) /\ t.items[c] # <<>> /\ c \in Bins(t)
    BY <2>1, <2>3 DEF Bins
  <2>6. \A a \in b..(c - 1) : t.items[a] = <<>>
    BY <2>1, <2>3, <2>5
  <2>7. t.items[c] \in Seq(Item)
    BY <2>5 DEF Shaped, Chained
  <2>8. Head(t.items[c]) = t.items[c][1] /\ 1 \in DOMAIN t.items[c]
    BY <2>5, <2>7
  <2>9. t.items[c][1] \in Content(t)
    BY <2>5, <2>8 DEF Content
  <2>10. t.items[c][1].key \in KeysOf(t)
    BY <2>9, KeysOfContent
  <2> QED
    BY <2>4, <2>5, <2>6, <2>8, <2>10
<1> QED
  BY <1>1, <1>2

\* The first key a loop comes to is that of the first item.
LEMMA FirstItem ==
  ASSUME NEW t, Shaped(t), Items(t) # <<>>
  PROVE  FirstFrom(t, 0) = Items(t)[1].key
<1>1. Items(t) \in Seq(Item) /\ ToSet(Items(t)) = Content(t)
  BY ItemsFacts
<1>2. 1 \in DOMAIN Items(t)
  BY <1>1
<1>3. PICK x : x \in Content(t)
  BY <1>1, <1>2 DEF ToSet
<1>4. PICK c \in Bins(t) : t.items[c] # <<>>
  <2>1. PICK c \in Bins(t) : \E i \in DOMAIN t.items[c] : x = t.items[c][i]
    BY <1>3 DEF Content
  <2>2. t.items[c] # <<>>
    <3>1. DOMAIN <<>> = {}
      OBVIOUS
    <3> QED
      BY <2>1, <3>1
  <2> QED
    BY <2>2
<1>5. c \in 0..(t.bins - 1)
  BY DEF Bins
<1>6. PICK b \in 0..(t.bins - 1) :
        /\ t.items[b] # <<>> /\ \A a \in 0..(b - 1) : t.items[a] = <<>>
        /\ FirstFrom(t, 0) = t.items[b][1].key
  BY <1>4, <1>5, FirstFromFacts
<1>7. FirstBin(t, b) /\ b \in Bins(t)
  BY <1>6 DEF FirstBin, Bins
<1>8. Items(t)[1] = t.items[b][1]
  BY <1>7, ItemsFacts
<1> QED
  BY <1>6, <1>8

\* Every key has a place.
LEMMA PlaceOfKey ==
  ASSUME NEW t, Shaped(t), NEW k \in KeysOf(t)
  PROVE  /\ k \in Keys /\ BinOf(t.bins, k) \in Bins(t)
         /\ \E i \in 1..Len(t.items[BinOf(t.bins, k)]) :
              Places(t, k) = {i} /\ t.items[BinOf(t.bins, k)][i].key = k
<1>1. k \in Keys /\ Places(t, k) # {}
  BY KeysOfContent
<1>2. PICK i \in Places(t, k) : TRUE
  BY <1>1
<1>3. i \in DOMAIN Chain(t, k) /\ Places(t, k) = {i} /\ Chain(t, k)[i].key = k
  BY <1>1, <1>2, PlaceFacts
<1>4. /\ BinOf(t.bins, k) \in Bins(t) /\ Chain(t, k) = t.items[BinOf(t.bins, k)]
      /\ Chain(t, k) \in Seq(Item)
  BY <1>1, ChainOf DEF Chained
<1>5. i \in 1..Len(Chain(t, k))
  BY <1>3, <1>4
<1> QED
  BY <1>1, <1>3, <1>4, <1>5

\* Of two keys of a table one is at or before the other.
LEMMA AtOrBeforeTotal ==
  ASSUME NEW t, Shaped(t), NEW k \in KeysOf(t), NEW l \in KeysOf(t)
  PROVE  AtOrBefore(t, k, l) \/ AtOrBefore(t, l, k)
<1>1. PICK i \in 1..Len(t.items[BinOf(t.bins, k)]) : Places(t, k) = {i}
  BY PlaceOfKey
<1>2. PICK j \in 1..Len(t.items[BinOf(t.bins, l)]) : Places(t, l) = {j}
  BY PlaceOfKey
<1>3. BinOf(t.bins, k) \in Bins(t) /\ BinOf(t.bins, l) \in Bins(t)
  BY PlaceOfKey
<1>4. BinOf(t.bins, k) \in Int /\ BinOf(t.bins, l) \in Int /\ i \in Int /\ j \in Int
  BY <1>3 DEF Bins
<1>5. \/ BinOf(t.bins, k) < BinOf(t.bins, l) \/ BinOf(t.bins, l) < BinOf(t.bins, k)
      \/ BinOf(t.bins, k) = BinOf(t.bins, l) /\ (i <= j \/ j <= i)
  BY <1>4
<1> QED
  BY <1>1, <1>2, <1>5 DEF AtOrBefore

\* The key after c in the order of the loop, when c is in the table
LEMMA NextKeyFacts ==
  ASSUME NEW t, Shaped(t), NEW c \in KeysOf(t)
  PROVE  LET n == NextKey(t, c)
         IN \/ n = NULL /\ \A l \in KeysOf(t) : AtOrBefore(t, l, c)
            \/ /\ n \in KeysOf(t) /\ ~AtOrBefore(t, n, c)
               /\ \A l \in KeysOf(t) : AtOrBefore(t, l, n) <=> AtOrBefore(t, l, c) \/ l = n
<1> DEFINE n == NextKey(t, c)  b == BinOf(t.bins, c)  s == t.items[b]
           after == {i \in DOMAIN Chain(t, c) : i - 1 \in Places(t, c)}
<1>1. c \in Keys /\ b \in Bins(t)
  BY PlaceOfKey
<1>2. PICK p \in 1..Len(s) : Places(t, c) = {p} /\ s[p].key = c
  BY PlaceOfKey
<1>3. /\ Chain(t, c) = s /\ s \in Seq(Item) /\ DOMAIN s = 1..Len(s) /\ Len(s) \in Nat
      /\ t.bins \in Nat \ {0} /\ Bins(t) = 0..(t.bins - 1) /\ b \in Nat
  <2>1. Chain(t, c) = s /\ s \in Seq(Item)
    BY <1>1, ChainOf DEF Chained
  <2>2. t.bins \in Nat \ {0} /\ Bins(t) = 0..(t.bins - 1)
    BY DEF Shaped, Bins
  <2> HIDE DEF s, b
  <2> QED
    BY <1>1, <2>1, <2>2
<1>4. n = IF after # {} THEN Chain(t, c)[CHOOSE i \in after : TRUE].key ELSE FirstFrom(t, b + 1)
  BY DEF NextKey
<1>5. ASSUME NEW l \in KeysOf(t)
      PROVE  /\ BinOf(t.bins, l) \in 0..(t.bins - 1)
             /\ \E q \in 1..Len(t.items[BinOf(t.bins, l)]) :
                  /\ Places(t, l) = {q} /\ t.items[BinOf(t.bins, l)][q].key = l
                  /\ AtOrBefore(t, l, c) <=> \/ BinOf(t.bins, l) < b
                                             \/ BinOf(t.bins, l) = b /\ q <= p
  <2>1. PICK q \in 1..Len(t.items[BinOf(t.bins, l)]) :
          Places(t, l) = {q} /\ t.items[BinOf(t.bins, l)][q].key = l
    BY PlaceOfKey
  <2>2. BinOf(t.bins, l) \in Bins(t)
    BY PlaceOfKey
  <2>3. AtOrBefore(t, l, c) <=> \/ BinOf(t.bins, l) < b
                                \/ BinOf(t.bins, l) = b /\ q <= p
    BY <1>2, <2>1 DEF AtOrBefore
  <2> QED
    BY <1>3, <2>1, <2>2, <2>3
<1>6. CASE p < Len(s)
  <2>1. p + 1 \in DOMAIN s /\ \A i \in DOMAIN s : i - 1 = p <=> i = p + 1
    BY <1>2, <1>3, <1>6
  <2>2. after = {p + 1}
    BY <1>2, <1>3, <2>1
  <2>3. n = s[p + 1].key
    BY <1>3, <1>4, <2>2
  <2> HIDE DEF n
  <2>4. n \in KeysOf(t) /\ BinOf(t.bins, n) = b /\ Places(t, n) = {p + 1}
    <3>1. PICK i \in DOMAIN t.items[b] : i = p + 1
      BY <2>1
    <3>2. n = t.items[b][i].key
      BY <2>3, <3>1
    <3> HIDE DEF b, s
    <3>3. n \in KeysOf(t) /\ BinOf(t.bins, n) = b /\ Places(t, n) = {i}
      BY <1>1, <3>2, KeyPlaced
    <3> QED
      BY <3>1, <3>3
  <2>5. ~AtOrBefore(t, n, c)
    <3>1. ~(p + 1 <= p) /\ ~(b < b)
      BY <1>2, <1>3
    <3> QED
      BY <1>2, <2>4, <3>1 DEF AtOrBefore
  <2>6. ASSUME NEW l \in KeysOf(t)
        PROVE  AtOrBefore(t, l, n) <=> AtOrBefore(t, l, c) \/ l = n
    <3>1. PICK q \in 1..Len(t.items[BinOf(t.bins, l)]) :
            /\ Places(t, l) = {q} /\ t.items[BinOf(t.bins, l)][q].key = l
            /\ AtOrBefore(t, l, c) <=> \/ BinOf(t.bins, l) < b
                                       \/ BinOf(t.bins, l) = b /\ q <= p
      BY <1>5
    <3>2. AtOrBefore(t, l, n) <=> \/ BinOf(t.bins, l) < b
                                  \/ BinOf(t.bins, l) = b /\ q <= p + 1
      BY <2>4, <3>1 DEF AtOrBefore
    <3>3. BinOf(t.bins, l) = b => (q = p + 1 <=> l = n)
      BY <2>3, <2>4, <3>1
    <3>4. l = n => BinOf(t.bins, l) = b
      BY <2>4
    <3>5. q <= p + 1 <=> q <= p \/ q = p + 1
      BY <1>2, <3>1
    <3> QED
      BY <3>1, <3>2, <3>3, <3>4, <3>5
  <2> QED
    BY <2>4, <2>5, <2>6 DEF n
<1>7. CASE p = Len(s)
  <2>1. after = {}
    <3>1. \A i \in DOMAIN s : i - 1 # p
      BY <1>2, <1>3, <1>7
    <3> QED
      BY <1>2, <1>3, <3>1
  <2>2. n = FirstFrom(t, b + 1)
    BY <1>4, <2>1
  <2> HIDE DEF n
  <2>8. b + 1 \in Nat
    <3> HIDE DEF b
    <3> QED
      BY <1>3
  <2>3. ASSUME NEW l \in KeysOf(t), BinOf(t.bins, l) <= b
        PROVE  AtOrBefore(t, l, c)
    <3>1. PICK q \in 1..Len(t.items[BinOf(t.bins, l)]) :
            AtOrBefore(t, l, c) <=> \/ BinOf(t.bins, l) < b
                                    \/ BinOf(t.bins, l) = b /\ q <= p
      BY <1>5
    <3>2. BinOf(t.bins, l) = b => q <= p
      BY <1>3, <1>7, <3>1
    <3>3. BinOf(t.bins, l) < b \/ BinOf(t.bins, l) = b
      BY <1>3, <1>5, <2>3
    <3> QED
      BY <3>1, <3>2, <3>3
  <2>4. ASSUME NEW l \in KeysOf(t)
        PROVE  t.items[BinOf(t.bins, l)] # <<>>
    <3>1. Len(<<>>) = 0
      OBVIOUS
    <3>2. PICK q : q \in 1..Len(t.items[BinOf(t.bins, l)])
      BY <1>5
    <3>3. t.items[BinOf(t.bins, l)] = <<>> => q \in 1..0
      BY <3>1, <3>2
    <3> QED
      BY <3>3
  <2>5. CASE n = NULL /\ \A a \in (b + 1)..(t.bins - 1) : t.items[a] = <<>>
    <3>1. \A l \in KeysOf(t) : BinOf(t.bins, l) <= b
      <4> TAKE l \in KeysOf(t)
      <4>1. BinOf(t.bins, l) \in 0..(t.bins - 1) /\ BinOf(t.bins, l) \notin (b + 1)..(t.bins - 1)
        BY <1>5, <2>4, <2>5
      <4> QED
        BY <1>3, <4>1
    <3> QED
      BY <2>3, <2>5, <3>1 DEF n
  <2>6. ASSUME NEW d \in (b + 1)..(t.bins - 1),
               t.items[d] # <<>>, \A a \in (b + 1)..(d - 1) : t.items[a] = <<>>,
               1 \in DOMAIN t.items[d], n = t.items[d][1].key
        PROVE  /\ n \in KeysOf(t) /\ ~AtOrBefore(t, n, c)
               /\ \A l \in KeysOf(t) : AtOrBefore(t, l, n) <=> AtOrBefore(t, l, c) \/ l = n
    <3>1. d \in Bins(t) /\ b < d /\ d \in Nat
      BY <1>3
    <3>2. n \in KeysOf(t) /\ BinOf(t.bins, n) = d /\ Places(t, n) = {1}
      <4>1. PICK i \in DOMAIN t.items[d] : i = 1
        BY <2>6
      <4>2. n = t.items[d][i].key
        BY <2>6, <4>1
      <4>3. n \in KeysOf(t) /\ BinOf(t.bins, n) = d /\ Places(t, n) = {i}
        BY <3>1, <4>2, KeyPlaced
      <4> QED
        BY <4>1, <4>3
    <3>3. ~AtOrBefore(t, n, c)
      <4>1. ~(d < b) /\ d # b
        BY <1>3, <3>1
      <4> QED
        BY <3>2, <4>1 DEF AtOrBefore
    <3>4. ASSUME NEW l \in KeysOf(t)
          PROVE  AtOrBefore(t, l, n) <=> AtOrBefore(t, l, c) \/ l = n
      <4>1. PICK q \in 1..Len(t.items[BinOf(t.bins, l)]) :
              /\ Places(t, l) = {q} /\ t.items[BinOf(t.bins, l)][q].key = l
              /\ AtOrBefore(t, l, c) <=> \/ BinOf(t.bins, l) < b
                                         \/ BinOf(t.bins, l) = b /\ q <= p
        BY <1>5
      <4>2. AtOrBefore(t, l, n) <=> \/ BinOf(t.bins, l) < d
                                    \/ BinOf(t.bins, l) = d /\ q <= 1
        BY <3>2, <4>1 DEF AtOrBefore
      <4>3. BinOf(t.bins, l) \in 0..(t.bins - 1) /\ t.items[BinOf(t.bins, l)] # <<>>
        BY <1>5, <2>4
      <4>4. BinOf(t.bins, l) <= b \/ BinOf(t.bins, l) >= d
        <5>1. BinOf(t.bins, l) \notin (b + 1)..(d - 1)
          BY <2>6, <4>3
        <5> QED
          BY <1>3, <3>1, <4>3, <5>1
      <4>5. BinOf(t.bins, l) = d => (q <= 1 <=> l = n)
        <5>1. q \in Nat /\ q >= 1
          BY <4>1
        <5>2. BinOf(t.bins, l) = d => (q = 1 <=> l = n)
          BY <2>6, <3>2, <4>1
        <5> QED
          BY <5>1, <5>2
      <4>6. l = n => BinOf(t.bins, l) = d
        BY <3>2
      <4>7. CASE BinOf(t.bins, l) <= b
        <5>1. AtOrBefore(t, l, c) /\ BinOf(t.bins, l) < d
          BY <1>3, <2>3, <3>1, <4>3, <4>7
        <5> QED
          BY <4>2, <5>1
      <4>8. CASE BinOf(t.bins, l) >= d
        <5>1. ~(BinOf(t.bins, l) < b) /\ BinOf(t.bins, l) # b /\ ~(BinOf(t.bins, l) < d)
          BY <1>3, <3>1, <4>3, <4>8
        <5> QED
          BY <4>1, <4>2, <4>5, <4>6, <5>1
      <4> QED
        BY <4>4, <4>7, <4>8
    <3> QED
      BY <3>2, <3>3, <3>4
  <2>7. \/ n = NULL /\ \A a \in (b + 1)..(t.bins - 1) : t.items[a] = <<>>
        \/ \E d \in (b + 1)..(t.bins - 1) :
              /\ t.items[d] # <<>> /\ \A a \in (b + 1)..(d - 1) : t.items[a] = <<>>
              /\ 1 \in DOMAIN t.items[d]
              /\ n = t.items[d][1].key
    BY <2>2, <2>8, FirstFromFacts
  <2> QED
    BY <2>5, <2>6, <2>7 DEF n
<1>8. p < Len(s) \/ p = Len(s)
  BY <1>2, <1>3
<1> QED
  BY <1>6, <1>7, <1>8

\* The key after that of an item is the key of the next item.
LEMMA NextItem ==
  ASSUME NEW t, Shaped(t), NEW items, items = Items(t),
         NEW i \in DOMAIN items, NEW j \in DOMAIN items, j = i + 1
  PROVE  NextKey(t, items[i].key) = items[j].key
<1> DEFINE c == items[i].key  m == items[j].key  n == NextKey(t, c)
<1>1. /\ items \in Seq(Item) /\ ToSet(items) = Content(t) /\ Ordered(t, items)
      /\ DOMAIN items = 1..Len(items) /\ Len(items) \in Nat
  <2>1. items \in Seq(Item) /\ ToSet(items) = Content(t) /\ Ordered(t, items)
    BY ItemsFacts
  <2> QED
    BY <2>1
<1>2. \A l \in DOMAIN items : items[l].key \in KeysOf(t)
  BY <1>1, KeysOfContent DEF ToSet
<1>3. \A k \in KeysOf(t) : \E l \in DOMAIN items : items[l].key = k
  BY <1>1, KeysOfContent DEF ToSet
<1>4. c \in KeysOf(t) /\ m \in KeysOf(t)
  BY <1>2
<1>5. ~AtOrBefore(t, m, c)
  <2>1. i < j
    BY <1>1
  <2> QED
    BY <1>1, <2>1 DEF Ordered
<1> HIDE DEF c, m
<1>6. \/ n = NULL /\ \A l \in KeysOf(t) : AtOrBefore(t, l, c)
      \/ /\ n \in KeysOf(t) /\ ~AtOrBefore(t, n, c)
         /\ \A l \in KeysOf(t) : AtOrBefore(t, l, n) <=> AtOrBefore(t, l, c) \/ l = n
  BY <1>4, NextKeyFacts
<1> HIDE DEF n
<1>7. /\ n \in KeysOf(t) /\ ~AtOrBefore(t, n, c)
      /\ \A l \in KeysOf(t) : AtOrBefore(t, l, n) <=> AtOrBefore(t, l, c) \/ l = n
  BY <1>4, <1>5, <1>6
<1>8. PICK l \in DOMAIN items : items[l].key = n
  BY <1>3, <1>7
<1>9. ~(l <= i)
  <2>1. CASE l < i
    <3>1. ~AtOrBefore(t, c, n)
      BY <1>1, <1>8, <2>1 DEF Ordered, c
    <3>2. AtOrBefore(t, c, c) \/ AtOrBefore(t, n, c)
      BY <1>4, <1>7, <3>1, AtOrBeforeTotal
    <3>3. AtOrBefore(t, n, c)
      BY <1>4, <1>7, <3>1, AtOrBeforeTotal
    <3> QED
      BY <1>7, <3>3
  <2>2. CASE l = i
    <3>1. n = c
      BY <1>8, <2>2 DEF c
    <3> QED
      BY <1>4, <1>7, <3>1, AtOrBeforeTotal
  <2> QED
    BY <1>1, <2>1, <2>2
<1>10. CASE l = j
  BY <1>8, <1>10 DEF n, c, m
<1>11. CASE j < l
  <2>1. ~AtOrBefore(t, n, m)
    BY <1>1, <1>8, <1>11 DEF Ordered, m
  <2>2. AtOrBefore(t, m, n)
    BY <1>4, <1>7, <2>1, AtOrBeforeTotal
  <2>3. m = n
    BY <1>4, <1>5, <1>7, <2>2
  <2> QED
    BY <2>3 DEF n, c, m
<1> QED
  BY <1>1, <1>9, <1>10, <1>11

\* A loop comes to the keys of the items, one after the other.
LEMMA WalkFacts ==
  ASSUME NEW t, Shaped(t), t.size = Len(Items(t))
  PROVE  Walk(t) = [i \in DOMAIN Items(t) |-> Items(t)[i].key]
<1> DEFINE items == Items(t)
           n == t.size
           g == [i \in 1..n |-> items[i].key]
           walk == CHOOSE w : w = [i \in 1..n |-> IF i = 1 THEN FirstFrom(t, 0) ELSE NextKey(t, w[i - 1])]
<1>1. Walk(t) = walk
  BY DEF Walk
<1>2. DOMAIN items = 1..n /\ n \in Nat
  <2>1. items \in Seq(Item)
    BY ItemsFacts
  <2> QED
    BY <2>1
<1>3. \A i \in 1..n : i = 1 => FirstFrom(t, 0) = items[i].key
  <2> SUFFICES ASSUME 1 \in 1..n PROVE FirstFrom(t, 0) = items[1].key
    OBVIOUS
  <2>1. Items(t) # <<>>
    <3>1. DOMAIN <<>> = {}
      OBVIOUS
    <3> QED
      BY <1>2, <3>1
  <2> QED
    BY <2>1, FirstItem
<1>4. \A i \in 1..n : i # 1 => i - 1 \in 1..n /\ NextKey(t, items[i - 1].key) = items[i].key
  <2> SUFFICES ASSUME NEW i \in 1..n, i # 1
               PROVE  i - 1 \in 1..n /\ NextKey(t, items[i - 1].key) = items[i].key
    OBVIOUS
  <2>1. i - 1 \in DOMAIN items /\ i \in DOMAIN items /\ i = (i - 1) + 1
    BY <1>2
  <2> HIDE DEF items
  <2>2. \A h, j \in DOMAIN items : j = h + 1 => NextKey(t, items[h].key) = items[j].key
    BY NextItem DEF items
  <2> QED
    BY <1>2, <2>1, <2>2
<1> HIDE DEF items, n
<1>5. g = [i \in 1..n |-> IF i = 1 THEN FirstFrom(t, 0) ELSE NextKey(t, g[i - 1])]
  <2>1. \A i \in 1..n : g[i] = IF i = 1 THEN FirstFrom(t, 0) ELSE NextKey(t, g[i - 1])
    BY <1>3, <1>4
  <2>2. g = [i \in 1..n |-> g[i]]
    OBVIOUS
  <2> HIDE DEF g
  <2> QED
    BY <2>1, <2>2
<1>6. walk = [i \in 1..n |-> IF i = 1 THEN FirstFrom(t, 0) ELSE NextKey(t, walk[i - 1])]
  <2> HIDE DEF g
  <2> QED
    BY <1>5
<1> HIDE DEF walk
<1> DEFINE P == {m \in 0..n : m \in 1..n => walk[m] = items[m].key}
<1>7. \A m \in 0..n : m \in P
  <2>1. 0 \in P
    BY <1>2
  <2>2. ASSUME NEW m \in 1..n, m - 1 \in P
        PROVE  m \in P
    <3>1. walk[m] = IF m = 1 THEN FirstFrom(t, 0) ELSE NextKey(t, walk[m - 1])
      BY <1>6
    <3>2. m # 1 => walk[m - 1] = items[m - 1].key
      BY <1>4, <2>2
    <3>3. walk[m] = items[m].key
      BY <1>3, <1>4, <3>1, <3>2
    <3> QED
      BY <1>2, <3>3
  <2> HIDE DEF P
  <2> QED
    BY <1>2, <2>1, <2>2, Induction
<1>8. walk = [i \in 1..n |-> walk[i]]
  BY <1>6
<1>9. walk = g
  <2>1. \A i \in 1..n : walk[i] = items[i].key
    BY <1>2, <1>7
  <2> QED
    BY <1>8, <2>1
<1> QED
  BY <1>1, <1>2, <1>9 DEF items, g

\* A loop comes to every key; and table_key_of finds the first one of them that has the value.
LEMMA KeyOfFacts ==
  ASSUME NEW t, Shaped(t), t.size = Len(Items(t)), NEW walk, walk = Walk(t)
  PROVE  /\ Range(walk) = KeysOf(t)
         /\ \A v \in Values :
              LET having == {n \in DOMAIN walk : ValueOf(t, walk[n]) = v}
              IN KeyOf(t, v) = IF having = {} THEN NULL ELSE walk[Min(having)]
<1> DEFINE items == Items(t)
<1>1. ToSet(items) = Content(t) /\ DOMAIN items = 1..Len(items) /\ Len(items) \in Nat
  <2>1. items \in Seq(Item) /\ ToSet(items) = Content(t)
    BY ItemsFacts
  <2> HIDE DEF items
  <2> QED
    BY <2>1
<1>2. walk = [i \in DOMAIN items |-> items[i].key]
  BY WalkFacts
<1>3. \A v : KeyOf(t, v) = LET found == {i \in DOMAIN items : items[i].value = v}
                           IN IF found = {} THEN NULL ELSE items[Min(found)].key
  BY DEF KeyOf
<1> HIDE DEF items
<1>4. \A i \in DOMAIN items : items[i].key \in KeysOf(t) /\ ValueOf(t, items[i].key) = items[i].value
  BY <1>1, KeysOfContent, ValueFacts DEF ToSet
<1>5. \A k \in KeysOf(t) : \E i \in DOMAIN items : items[i].key = k
  BY <1>1, KeysOfContent DEF ToSet
<1>6. Range(walk) = KeysOf(t)
  BY <1>2, <1>4, <1>5 DEF Range
<1>7. ASSUME NEW v \in Values
      PROVE  LET having == {n \in DOMAIN walk : ValueOf(t, walk[n]) = v}
             IN KeyOf(t, v) = IF having = {} THEN NULL ELSE walk[Min(having)]
  <2> DEFINE found == {i \in DOMAIN items : items[i].value = v}
             having == {n \in DOMAIN walk : ValueOf(t, walk[n]) = v}
  <2>1. having = found
    BY <1>2, <1>4
  <2>2. KeyOf(t, v) = IF found = {} THEN NULL ELSE items[Min(found)].key
    BY <1>3
  <2>3. found \in SUBSET Nat
    BY <1>1
  <2>4. found # {} => Min(found) \in found
    <3> HIDE DEF found
    <3> QED
      BY <2>3, MinFacts
  <2>5. found # {} => walk[Min(found)] = items[Min(found)].key
    BY <1>2, <2>4
  <2> HIDE DEF found, having
  <2>6. KeyOf(t, v) = IF having = {} THEN NULL ELSE walk[Min(having)]
    BY <2>1, <2>2, <2>5
  <2> QED
    BY <2>6 DEF having
<1> QED
  BY <1>6, <1>7

\* A put that takes no new bins keeps the order of the keys.
LEMMA WithOrder ==
  ASSUME NEW t, Shaped(t), NEW u, Shaped(u), u.bins = t.bins,
         \A l \in Keys : Places(t, l) \subseteq Places(u, l),
         NEW l \in KeysOf(t), NEW c \in KeysOf(t)
  PROVE  AtOrBefore(u, l, c) <=> AtOrBefore(t, l, c)
<1>1. ASSUME NEW k \in KeysOf(t)
      PROVE  Places(u, k) = Places(t, k)
  <2>1. k \in Keys
    BY PlaceOfKey
  <2>2. PICK p \in 1..Len(t.items[BinOf(t.bins, k)]) : Places(t, k) = {p}
    BY PlaceOfKey
  <2>3. p \in Places(u, k)
    BY <2>1, <2>2
  <2>4. Places(u, k) = {p}
    BY <2>1, <2>3, PlaceFacts
  <2> QED
    BY <2>2, <2>4
<1> QED
  BY <1>1 DEF AtOrBefore

\* A removal keeps the order of the keys that stay.
LEMMA WithoutOrder ==
  ASSUME NEW t, Sound(t), NEW k \in Keys, NEW l \in KeysOf(t) \ {k}, NEW m \in KeysOf(t) \ {k}
  PROVE  AtOrBefore(Without(t, k), l, m) <=> AtOrBefore(t, l, m)
<1> DEFINE u == Without(t, k)
<1>1. Shaped(t) /\ Shaped(u) /\ u.bins = t.bins /\ KeysOf(u) = KeysOf(t) \ {k}
  BY WithoutFacts DEF Sound
<1>2. CASE Places(t, k) = {}
  BY <1>2 DEF Without
<1>3. CASE Places(t, k) # {}
  <2> DEFINE b == BinOf(t.bins, k)  c == t.items[b]
  <2>1. b \in Bins(t) /\ Chain(t, k) = c /\ Chained(c, t.bins, b)
    BY <1>1, ChainOf
  <2>2. PICK p \in Places(t, k) : TRUE
    BY <1>3
  <2>3. p \in DOMAIN c /\ Places(t, k) = {p}
    BY <1>1, <2>1, <2>2, PlaceFacts
  <2> DEFINE d == RemoveAt(c, p)
             At(j) == IF j < p THEN j ELSE j + 1
  <2>4. u.items = [t.items EXCEPT ![b] = d]
    <3>1. (CHOOSE i \in Places(t, k) : TRUE) = p
      BY <2>3
    <3> DEFINE items == [t.items EXCEPT ![b] = d]
    <3>2. u = [t EXCEPT !.items = items, !.size = t.size - 1]
      BY <1>3, <3>1 DEF Without
    <3> HIDE DEF items, u
    <3>3. t = [bins |-> t.bins, items |-> t.items, size |-> t.size]
      BY <1>1 DEF Shaped, Record
    <3>4. u.items = items
      BY <3>2, <3>3
    <3> QED
      BY <3>4 DEF items
  <2>5. c \in Seq(Item) /\ DOMAIN c = 1..Len(c) /\ Len(c) \in Nat
    BY <2>1 DEF Chained
  <2>6. /\ DOMAIN d = 1..(Len(c) - 1)
        /\ \A j \in DOMAIN d : d[j] = IF j < p THEN c[j] ELSE c[j + 1]
    <3>1. /\ d \in Seq(Item) /\ Len(d) = Len(c) - 1
          /\ \A j \in 1..(Len(c) - 1) : d[j] = IF j < p THEN c[j] ELSE c[j + 1]
      BY <2>3, <2>5, RemoveFacts
    <3> HIDE DEF d
    <3> QED
      BY <2>5, <3>1
  <2>7. p \in 1..Len(c)
    BY <2>3, <2>5
  <2> HIDE DEF u, d
  <2>8. /\ u.items[b] = d
        /\ \A a \in Bins(t) \ {b} : u.items[a] = t.items[a]
    BY <1>1, <2>1, <2>4 DEF Shaped
  <2>9. ASSUME NEW x \in KeysOf(u)
        PROVE  \E q \in Nat : /\ Places(u, x) = {q}
                              /\ BinOf(t.bins, x) = b => Places(t, x) = {At(q)}
                              /\ BinOf(t.bins, x) # b => Places(t, x) = {q}
    <3> DEFINE a == BinOf(u.bins, x)
    <3>1. PICK q \in 1..Len(u.items[a]) : Places(u, x) = {q} /\ u.items[a][q].key = x
      BY <1>1, PlaceOfKey
    <3>2. a \in Bins(u) /\ Bins(u) = Bins(t) /\ x \in Keys /\ a = BinOf(t.bins, x)
      BY <1>1, PlaceOfKey DEF Bins
    <3> HIDE DEF a, b, c
    <3>3. u.items[a] \in Seq(Item) /\ t.items[a] \in Seq(Item)
      BY <1>1, <3>2 DEF Shaped, Chained
    <3>4. q \in Nat /\ q \in DOMAIN u.items[a]
      BY <3>1, <3>3
    <3>5. CASE a = b
      <4>1. q \in DOMAIN d /\ d[q].key = x
        BY <2>8, <3>1, <3>4, <3>5
      <4>2. At(q) \in DOMAIN c /\ c[At(q)] = d[q]
        BY <2>5, <2>6, <2>7, <4>1
      <4> HIDE DEF At
      <4>3. c = t.items[b]
        BY DEF c
      <4>4. PICK i \in DOMAIN t.items[b] : i = At(q)
        BY <4>2, <4>3
      <4>5. x = t.items[b][i].key
        BY <4>1, <4>2, <4>3, <4>4
      <4>6. Places(t, x) = {i}
        <5>1. Shaped(t) /\ b \in Bins(t)
          BY <1>1, <2>1
        <5> QED
          BY <4>5, <5>1, KeyPlaced
      <4> QED
        BY <3>1, <3>2, <3>4, <3>5, <4>4, <4>6
    <3>6. CASE a # b
      <4>1. u.items[a] = t.items[a] /\ a \in Bins(t)
        BY <2>8, <3>2, <3>6
      <4>2. PICK i \in DOMAIN t.items[a] : i = q
        BY <3>4, <4>1
      <4>3. x = t.items[a][i].key
        BY <3>1, <4>1, <4>2
      <4>4. Places(t, x) = {i}
        <5>1. Shaped(t) /\ a \in Bins(t)
          BY <1>1, <4>1
        <5> QED
          BY <4>3, <5>1, KeyPlaced
      <4> QED
        BY <3>1, <3>2, <3>4, <3>6, <4>2, <4>4
    <3> QED
      BY <3>5, <3>6
  <2>10. PICK i \in Nat : /\ Places(u, l) = {i}
                          /\ BinOf(t.bins, l) = b => Places(t, l) = {At(i)}
                          /\ BinOf(t.bins, l) # b => Places(t, l) = {i}
    BY <1>1, <2>9
  <2>11. PICK j \in Nat : /\ Places(u, m) = {j}
                          /\ BinOf(t.bins, m) = b => Places(t, m) = {At(j)}
                          /\ BinOf(t.bins, m) # b => Places(t, m) = {j}
    BY <1>1, <2>9
  <2>12. At(i) <= At(j) <=> i <= j
    BY <2>7
  <2> HIDE DEF At, b
  <2> QED
    BY <1>1, <2>10, <2>11, <2>12 DEF AtOrBefore, u
<1> QED
  BY <1>2, <1>3

\* What follows a key is a key of the table, or nothing.
LEMMA NextKeyType ==
  ASSUME NEW t, Shaped(t), NEW c \in Keys
  PROVE  NextKey(t, c) \in KeysOf(t) \cup {NULL}
<1> DEFINE after == {i \in DOMAIN Chain(t, c) : i - 1 \in Places(t, c)}
<1>1. CASE after # {}
  <2>1. PICK i \in DOMAIN Chain(t, c) : NextKey(t, c) = Chain(t, c)[i].key
    BY <1>1 DEF NextKey
  <2>2. Chain(t, c)[i] \in Content(t)
    BY ChainOf DEF Content
  <2> QED
    BY <2>1, <2>2, KeysOfContent
<1>2. CASE after = {}
  <2>1. NextKey(t, c) = FirstFrom(t, BinOf(t.bins, c) + 1)
    BY <1>2 DEF NextKey
  <2>2. BinOf(t.bins, c) + 1 \in Nat
    <3>1. BinOf(t.bins, c) \in Bins(t) /\ t.bins \in Nat
      BY ChainOf DEF Shaped
    <3> QED
      BY <3>1 DEF Bins
  <2> QED
    BY <2>1, <2>2, FirstFromFacts
<1> QED
  BY <1>1, <1>2

\* A loop begins with the least key.
LEMMA FirstKeyFacts ==
  ASSUME NEW t, Shaped(t), FirstFrom(t, 0) # NULL
  PROVE  LET n == FirstFrom(t, 0)
         IN n \in KeysOf(t) /\ \A l \in KeysOf(t) : AtOrBefore(t, l, n) <=> l = n
<1> DEFINE n == FirstFrom(t, 0)
<1>1. t.bins \in Nat \ {0} /\ Bins(t) = 0..(t.bins - 1)
  BY DEF Shaped, Bins
<1>2. PICK d \in 0..(t.bins - 1) :
        /\ t.items[d] # <<>> /\ \A a \in 0..(d - 1) : t.items[a] = <<>>
        /\ 1 \in DOMAIN t.items[d]
        /\ n = t.items[d][1].key
  BY FirstFromFacts
<1> HIDE DEF n
<1>3. d \in Bins(t) /\ d \in Nat
  BY <1>1
<1>4. n \in KeysOf(t) /\ BinOf(t.bins, n) = d /\ Places(t, n) = {1}
  <2>1. PICK i \in DOMAIN t.items[d] : i = 1
    BY <1>2
  <2>2. n = t.items[d][i].key
    BY <1>2, <2>1
  <2>3. n \in KeysOf(t) /\ BinOf(t.bins, n) = d /\ Places(t, n) = {i}
    BY <1>3, <2>2, KeyPlaced
  <2> QED
    BY <2>1, <2>3
<1>5. ASSUME NEW l \in KeysOf(t)
      PROVE  AtOrBefore(t, l, n) <=> l = n
  <2>1. PICK q \in 1..Len(t.items[BinOf(t.bins, l)]) :
          Places(t, l) = {q} /\ t.items[BinOf(t.bins, l)][q].key = l
    BY PlaceOfKey
  <2>2. BinOf(t.bins, l) \in 0..(t.bins - 1)
    BY <1>1, PlaceOfKey
  <2>3. t.items[BinOf(t.bins, l)] # <<>>
    <3>1. Len(<<>>) = 0
      OBVIOUS
    <3>2. t.items[BinOf(t.bins, l)] = <<>> => q \in 1..0
      BY <2>1, <3>1
    <3> QED
      BY <3>2
  <2>4. ~(BinOf(t.bins, l) < d)
    <3>1. BinOf(t.bins, l) \notin 0..(d - 1)
      BY <1>2, <2>3
    <3> QED
      BY <1>3, <2>2, <3>1
  <2>5. AtOrBefore(t, l, n) <=> BinOf(t.bins, l) = d /\ q <= 1
    BY <1>4, <2>1, <2>4 DEF AtOrBefore
  <2>6. q <= 1 <=> q = 1
    BY <2>1
  <2>7. BinOf(t.bins, l) = d => (q = 1 <=> l = n)
    BY <1>2, <1>4, <2>1
  <2>8. l = n => BinOf(t.bins, l) = d
    BY <1>4
  <2> QED
    BY <2>5, <2>6, <2>7, <2>8
<1> QED
  BY <1>4, <1>5 DEF n

-----------------------------------------------------------------------------
(* The inductive invariant *)

TableSound == Sound(table)

AnswerType == answer \in Values \cup {UNDEFINED}

LoopType ==
  /\ cursor \in Keys \cup {NULL}
  /\ visits \in [Keys -> 0..2]
  /\ stable \in SUBSET Keys
  /\ moved \in BOOLEAN /\ grown \in BOOLEAN

Resting == cursor = NULL => ~moved /\ visits = [k \in Keys |-> 0]

\* A loop at the key c of t has been at the keys up to c, once, and at no other.
Tracked(t, c, seen, keys) ==
  /\ c \in KeysOf(t) /\ keys \in SUBSET KeysOf(t)
  /\ \A k \in keys : seen[k] = IF AtOrBefore(t, k, c) THEN 1 ELSE 0

Tracking == cursor # NULL /\ ~moved => Tracked(table, cursor, visits, stable)

IInv == TableSound /\ AnswerType /\ LoopType /\ Resting /\ Tracking

\* The invariant holds of a new table, outside of any loop.
LEMMA InitInvariant ==
  ASSUME Init
  PROVE  IInv
<1>1. TableSound
  BY EmptySound DEF Init, TableSound
<1>2. AnswerType /\ LoopType /\ Resting /\ Tracking
  <2>1. answer = UNDEFINED /\ cursor = NULL /\ visits = [k \in Keys |-> 0] /\ stable = {} /\ ~moved /\ ~grown
    BY DEF Init
  <2>2. LoopType
    <3>1. visits \in [Keys -> 0..2]
      BY <2>1
    <3>2. moved \in BOOLEAN /\ grown \in BOOLEAN
      BY DEF Init
    <3> QED
      BY <2>1, <3>1, <3>2 DEF LoopType
  <2> QED
    BY <2>1, <2>2 DEF AnswerType, Resting, Tracking
<1> QED
  BY <1>1, <1>2 DEF IInv

\* The two tables have the order of the keys they share in common.
SameOrder(t, u) ==
  u.bins = t.bins =>
    \A l, c \in KeysOf(t) \cap KeysOf(u) : AtOrBefore(u, l, c) <=> AtOrBefore(t, l, c)

\* A step that changes the table, in or out of a loop, keeps the invariant
\* when it leaves a sound table and the order of the keys that stay.
LEMMA TableStep ==
  ASSUME IInv, Sound(table'), AnswerType', SameOrder(table, table'), Watch(table')
  PROVE  IInv'
<1>1. TableSound' /\ AnswerType'
  BY DEF TableSound
<1>2. LoopType'
  BY DEF IInv, LoopType, Watch
<1>3. Resting'
  BY DEF IInv, Resting, Watch
<1>4. ASSUME cursor' # NULL, ~moved'
      PROVE  Tracked(table', cursor', visits', stable')
  <2>1. /\ cursor # NULL /\ cursor' = cursor /\ visits' = visits
        /\ stable' = stable \cap KeysOf(table')
        /\ ~moved /\ table'.bins = table.bins /\ cursor \in KeysOf(table')
    BY <1>4 DEF Watch
  <2>2. Tracked(table, cursor, visits, stable)
    BY <2>1 DEF IInv, Tracking
  <2>3. \A k \in stable' : k \in stable /\ k \in KeysOf(table) \cap KeysOf(table')
    BY <2>1, <2>2 DEF Tracked
  <2>4. cursor \in KeysOf(table) \cap KeysOf(table')
    BY <2>1, <2>2 DEF Tracked
  <2>5. \A k \in stable' : AtOrBefore(table', k, cursor) <=> AtOrBefore(table, k, cursor)
    BY <2>1, <2>3, <2>4 DEF SameOrder
  <2> QED
    BY <2>1, <2>2, <2>3, <2>5 DEF Tracked
<1>5. Tracking'
  BY <1>4 DEF Tracking
<1> QED
  BY <1>1, <1>2, <1>3, <1>5 DEF IInv

\* table_put
LEMMA PutStep ==
  ASSUME IInv, NEW k \in Keys, NEW v \in Values, Put(k, v)
  PROVE  IInv'
<1> DEFINE u == With(table, k, v)
<1>1. Sound(table) /\ Shaped(table)
  BY DEF IInv, TableSound, Sound
<1>2. /\ Sound(u) /\ KeysOf(u) = KeysOf(table) \cup {k}
      /\ u.bins = table.bins => \A l \in Keys : Places(table, l) \subseteq Places(u, l)
  BY <1>1, WithFacts
<1>3. table' = u /\ Watch(table') /\ answer' = ValueOf(table, k)
  BY DEF Put
<1> HIDE DEF u
<1>4. SameOrder(table, u)
  <2>1. Shaped(u)
    BY <1>2 DEF Sound
  <2>2. \A l, c \in KeysOf(table) : u.bins = table.bins => (AtOrBefore(u, l, c) <=> AtOrBefore(table, l, c))
    BY <1>1, <1>2, <2>1, WithOrder
  <2> QED
    BY <2>2 DEF SameOrder
<1>5. AnswerType'
  BY <1>1, <1>3, ValueFacts DEF AnswerType
<1>6. Sound(table') /\ SameOrder(table, table')
  BY <1>2, <1>3, <1>4
<1> QED
  BY <1>3, <1>5, <1>6, TableStep

\* table_remove
LEMMA DeleteStep ==
  ASSUME IInv, NEW k \in Keys, Delete(k)
  PROVE  IInv'
<1> DEFINE u == Without(table, k)
<1>1. Sound(table) /\ Shaped(table)
  BY DEF IInv, TableSound, Sound
<1>2. Sound(u) /\ KeysOf(u) = KeysOf(table) \ {k}
  BY <1>1, WithoutFacts
<1>3. table' = u /\ Watch(table') /\ answer' = ValueOf(table, k)
  BY DEF Delete
<1>4. \A l, c \in KeysOf(table) \ {k} : AtOrBefore(u, l, c) <=> AtOrBefore(table, l, c)
  BY <1>1, WithoutOrder
<1> HIDE DEF u
<1>5. SameOrder(table, u)
  BY <1>2, <1>4 DEF SameOrder
<1>6. AnswerType'
  BY <1>1, <1>3, ValueFacts DEF AnswerType
<1>7. Sound(table') /\ SameOrder(table, table')
  BY <1>2, <1>3, <1>5
<1> QED
  BY <1>3, <1>6, <1>7, TableStep

\* table_clear
LEMMA ClearStep ==
  ASSUME IInv, Clear
  PROVE  IInv'
<1> DEFINE u == Cleared(table)
<1>1. Sound(table)
  BY DEF IInv, TableSound
<1>2. Sound(u) /\ KeysOf(u) = {}
  BY <1>1, ClearedFacts
<1>3. table' = u /\ Watch(table') /\ answer' = UNDEFINED
  BY DEF Clear
<1> HIDE DEF u
<1>4. Sound(table') /\ SameOrder(table, table') /\ AnswerType'
  BY <1>2, <1>3 DEF SameOrder, AnswerType
<1> QED
  BY <1>3, <1>4, TableStep

\* new_table_copy
LEMMA CopyStep ==
  ASSUME IInv, Copy
  PROVE  IInv'
<1>1. Sound(table) /\ table' = Copied(table) /\ cursor = NULL /\ UNCHANGED <<answer, loop>>
  BY DEF IInv, TableSound, Copy
<1>2. TableSound'
  BY <1>1, CopiedFacts DEF TableSound
<1>3. AnswerType' /\ LoopType' /\ Resting' /\ Tracking'
  BY <1>1 DEF IInv, AnswerType, LoopType, Resting, Tracking, loop
<1> QED
  BY <1>2, <1>3 DEF IInv

\* OP_FOR
LEMMA ForStep ==
  ASSUME IInv, For
  PROVE  IInv'
<1> DEFINE n == FirstFrom(table, 0)
<1>1. /\ Sound(table) /\ Shaped(table) /\ cursor = NULL /\ n # NULL
      /\ ~moved /\ visits = [k \in Keys |-> 0]
      /\ visits' = [visits EXCEPT ![n] = 1]
      /\ cursor' = n /\ stable' = KeysOf(table)
      /\ table' = table /\ answer' = answer /\ moved' = moved /\ grown' = grown
  BY DEF IInv, TableSound, Sound, Resting, For
<1>2. n \in KeysOf(table) /\ \A l \in KeysOf(table) : AtOrBefore(table, l, n) <=> l = n
  BY <1>1, FirstKeyFacts
<1> HIDE DEF n
<1>3. KeysOf(table) \in SUBSET Keys
  BY <1>1, KeysOfContent
<1>4. TableSound' /\ AnswerType' /\ Resting'
  BY <1>1 DEF IInv, TableSound, AnswerType, Resting
<1>5. LoopType'
  BY <1>1, <1>2, <1>3 DEF IInv, LoopType
<1>6. \A k \in KeysOf(table) : visits'[k] = IF k = n THEN 1 ELSE 0
  BY <1>1, <1>3
<1>7. Tracked(table, n, visits', KeysOf(table))
  BY <1>2, <1>6 DEF Tracked
<1>8. Tracking'
  BY <1>1, <1>7 DEF Tracking
<1> QED
  BY <1>4, <1>5, <1>8 DEF IInv

\* The end of a loop
LEMMA LoopEndsStep ==
  ASSUME IInv, LoopEnds, table' = table, answer' = answer
  PROVE  IInv'
<1>1. TableSound' /\ AnswerType'
  BY DEF IInv, TableSound, AnswerType
<1>2. LoopType' /\ Resting' /\ Tracking'
  <2>1. cursor' = NULL /\ visits' = [k \in Keys |-> 0] /\ stable' = {} /\ ~moved' /\ ~grown'
    BY DEF LoopEnds
  <2>2. LoopType'
    <3>1. visits' \in [Keys -> 0..2]
      BY <2>1
    <3>2. moved' \in BOOLEAN /\ grown' \in BOOLEAN
      BY DEF LoopEnds
    <3> QED
      BY <2>1, <3>1, <3>2 DEF LoopType
  <2> QED
    BY <2>1, <2>2 DEF Resting, Tracking
<1> QED
  BY <1>1, <1>2 DEF IInv

\* OP_FOR_LOOP
LEMMA ForLoopStep ==
  ASSUME IInv, ForLoop
  PROVE  IInv'
<1> DEFINE n == NextKey(table, cursor)
<1>1. /\ Sound(table) /\ Shaped(table) /\ cursor # NULL /\ cursor \in Keys
      /\ table' = table /\ answer' = answer
      /\ visits \in [Keys -> 0..2]
  BY DEF IInv, TableSound, Sound, LoopType, ForLoop
<1>2. n \in KeysOf(table) \cup {NULL} /\ KeysOf(table) \in SUBSET Keys
  BY <1>1, NextKeyType, KeysOfContent
<1>3. CASE n = NULL
  <2>1. LoopEnds
    BY <1>3 DEF ForLoop
  <2> QED
    BY <1>1, <2>1, LoopEndsStep
<1>4. CASE n # NULL
  <2>1. /\ cursor' = n /\ visits' = [visits EXCEPT ![n] = IF @ = 2 THEN 2 ELSE @ + 1]
        /\ stable' = stable /\ moved' = moved /\ grown' = grown
    BY <1>4 DEF ForLoop
  <2>2. n \in KeysOf(table) /\ n \in Keys
    BY <1>2, <1>4
  <2>3. ASSUME ~moved
        PROVE  Tracked(table, n, visits', stable)
    <3>1. Tracked(table, cursor, visits, stable)
      BY <1>1, <2>3 DEF IInv, Tracking
    <3>2. /\ ~AtOrBefore(table, n, cursor)
          /\ \A l \in KeysOf(table) : AtOrBefore(table, l, n) <=> AtOrBefore(table, l, cursor) \/ l = n
      BY <1>1, <1>4, <3>1, NextKeyFacts DEF Tracked
    <3> HIDE DEF n
    <3>3. \A k \in stable : k \in KeysOf(table) /\ k \in Keys
      BY <1>2, <3>1 DEF Tracked
    <3>4. ASSUME NEW k \in stable, k # n
          PROVE  visits'[k] = IF AtOrBefore(table, k, n) THEN 1 ELSE 0
      <4>1. visits'[k] = visits[k]
        BY <1>1, <2>1, <3>3, <3>4
      <4> QED
        BY <3>1, <3>2, <3>3, <3>4, <4>1 DEF Tracked
    <3>5. ASSUME n \in stable
          PROVE  visits'[n] = 1 /\ AtOrBefore(table, n, n)
      <4>1. visits[n] = 0
        BY <3>1, <3>2, <3>5 DEF Tracked
      <4>2. visits'[n] = 1
        BY <1>1, <2>1, <2>2, <4>1
      <4> QED
        BY <2>2, <3>2, <4>2
    <3> QED
      BY <2>2, <3>1, <3>4, <3>5 DEF Tracked
  <2> HIDE DEF n
  <2>4. TableSound' /\ AnswerType' /\ Resting'
    BY <1>1, <1>4, <2>1 DEF IInv, TableSound, AnswerType, Resting
  <2>5. LoopType'
    <3>1. visits' \in [Keys -> 0..2]
      BY <1>1, <2>1, <2>2
    <3> QED
      BY <2>1, <2>2, <3>1 DEF IInv, LoopType
  <2>6. Tracking'
    BY <1>1, <2>1, <2>3 DEF Tracking
  <2> QED
    BY <2>4, <2>5, <2>6 DEF IInv
<1> QED
  BY <1>3, <1>4

\* Every step keeps the invariant.
LEMMA NextInvariant ==
  ASSUME IInv, [Next]_vars
  PROVE  IInv'
<1>1. ASSUME NEW k \in Keys, NEW v \in Values, Put(k, v)
      PROVE  IInv'
  BY <1>1, PutStep
<1>2. ASSUME NEW k \in Keys, Get(k)
      PROVE  IInv'
  <2>1. table' = table /\ UNCHANGED loop /\ answer' = ValueOf(table, k)
    BY <1>2 DEF Get
  <2>2. AnswerType'
    <3>1. Shaped(table)
      BY DEF IInv, TableSound, Sound
    <3> QED
      BY <2>1, <3>1, ValueFacts DEF AnswerType
  <2>3. TableSound' /\ LoopType' /\ Resting' /\ Tracking'
    BY <2>1 DEF IInv, TableSound, LoopType, Resting, Tracking, loop
  <2> QED
    BY <2>2, <2>3 DEF IInv
<1>3. ASSUME NEW k \in Keys, Delete(k)
      PROVE  IInv'
  BY <1>3, DeleteStep
<1>4. CASE Clear
  BY <1>4, ClearStep
<1>5. CASE Copy
  BY <1>5, CopyStep
<1>6. CASE For
  BY <1>6, ForStep
<1>7. CASE ForLoop
  BY <1>7, ForLoopStep
<1>8. CASE Break
  BY <1>8, LoopEndsStep DEF Break
<1>9. CASE UNCHANGED vars
  BY <1>9 DEF vars, IInv, TableSound, AnswerType, LoopType, Resting, Tracking
<1> QED
  BY <1>1, <1>2, <1>3, <1>4, <1>5, <1>6, <1>7, <1>8, <1>9 DEF Next

-----------------------------------------------------------------------------
(* Theorems *)

\* The chains hold what the table should, and a loop has been where it should,
\* in every reachable state.
THEOREM Invariant == Spec => []IInv
<1>1. Init => IInv
  BY InitInvariant
<1>2. IInv /\ [Next]_vars => IInv'
  BY NextInvariant
<1> QED
  BY <1>1, <1>2, PTL DEF Spec

\* table_put, table_remove, table_clear, table_resize and the loop opcodes keep
\* every part of the state in its type: TypeOK.
THEOREM TypeCorrect == Spec => []TypeOK
<1>1. IInv => TypeOK
  <2> SUFFICES ASSUME IInv
               PROVE  TypeOK
    OBVIOUS
  <2>1. Shaped(table) /\ Sized(table)
    BY DEF IInv, TableSound, Sound
  <2>2. /\ table.bins \in InitialBins..MaximumBins
        /\ DOMAIN table.items = 0..(table.bins - 1)
    BY <2>1 DEF Shaped, Sized, Bins
  <2>3. ASSUME NEW b \in DOMAIN table.items, NEW i \in DOMAIN table.items[b]
        PROVE  table.items[b][i] \in Item
    <3>1. table.items[b] \in Seq(Item)
      BY <2>1 DEF Shaped, Chained
    <3> QED
      BY <3>1
  <2>4. table.size \in 0..Cardinality(Keys)
    BY <2>1, SizeType DEF Sized
  <2> QED
    BY <2>2, <2>3, <2>4 DEF TypeOK, IInv, AnswerType, LoopType
<1> QED
  BY <1>1, Invariant, PTL

\* Whatever table_resize has moved, every item is in the chain its key is looked
\* up in, and no key has two items: Placed.
THEOREM ItemsArePlaced == Spec => []Placed
<1>1. IInv => Placed
  <2> SUFFICES ASSUME IInv
               PROVE  Placed
    OBVIOUS
  <2>1. Shaped(table)
    BY DEF IInv, TableSound, Sound
  <2>2. \A b \in DOMAIN table.items : \A i \in DOMAIN table.items[b] :
          BinOf(table.bins, table.items[b][i].key) = b
    BY <2>1 DEF Shaped, Chained
  <2> DEFINE items == Items(table)
  <2>3. Distinct(items)
    BY <2>1, ItemsFacts
  <2> HIDE DEF items
  <2>4. IsInjective([i \in DOMAIN items |-> items[i].key])
    BY <2>3 DEF IsInjective, Distinct
  <2> QED
    BY <2>2, <2>4 DEF Placed, items
<1> QED
  BY <1>1, Invariant, PTL

\* The size that decides on growth, and that a script reads as len(t), is the
\* number of items; a table grows before it is full: SizeExact.
THEOREM SizesAreExact == Spec => []SizeExact
<1>1. IInv => SizeExact
  <2> SUFFICES ASSUME IInv
               PROVE  SizeExact
    OBVIOUS
  <2>1. Sound(table)
    BY DEF IInv, TableSound
  <2> QED
    BY <2>1, SizeFacts DEF SizeExact, Sound, Sized
<1> QED
  BY <1>1, Invariant, PTL

\* table_keys lists every key once in the order of strcmp, a loop over a table that is left
\* alone comes to every key, and table_key_of finds the first of them that has the value,
\* whatever the hashes: Listed.
THEOREM KeysAreListed == Spec => []Listed
<1>1. IInv => Listed
  <2> SUFFICES ASSUME IInv
               PROVE  Listed
    OBVIOUS
  <2>1. Sound(table) /\ Shaped(table)
    BY DEF IInv, TableSound, Sound
  <2>2. Sorted(KeyList(table)) /\ ToSet(KeyList(table)) = KeysOf(table)
    BY <2>1, KeyListFacts
  <2> DEFINE walk == Walk(table)
  <2>3. /\ Range(walk) = KeysOf(table)
        /\ \A v \in Values :
             LET having == {n \in DOMAIN walk : ValueOf(table, walk[n]) = v}
             IN KeyOf(table, v) = IF having = {} THEN NULL ELSE walk[Min(having)]
    <3>1. table.size = Len(Items(table))
      BY <2>1, SizeFacts
    <3> HIDE DEF walk
    <3>2. walk = Walk(table)
      BY DEF walk
    <3> QED
      BY <2>1, <3>1, <3>2, KeyOfFacts
  <2> QED
    BY <2>2, <2>3 DEF Listed, Sorted
<1> QED
  BY <1>1, Invariant, PTL

\* A for loop is at every key that stays in the table exactly once, unless the
\* table takes new bins or the body removes the key of the loop: EachVisitedOnce.
THEOREM LoopsAreComplete == Spec => []EachVisitedOnce
<1>1. IInv => EachVisitedOnce
  <2> SUFFICES ASSUME IInv, cursor # NULL, ~moved, NEW k \in stable
               PROVE  /\ visits[k] <= 1
                      /\ NextKey(table, cursor) = NULL => visits[k] = 1
    BY DEF EachVisitedOnce
  <2>1. Shaped(table) /\ Tracked(table, cursor, visits, stable)
    BY DEF IInv, TableSound, Sound, Tracking
  <2>2. cursor \in KeysOf(table) /\ k \in KeysOf(table)
        /\ visits[k] = IF AtOrBefore(table, k, cursor) THEN 1 ELSE 0
    BY <2>1 DEF Tracked
  <2>3. visits[k] <= 1
    BY <2>2
  <2>4. ASSUME NextKey(table, cursor) = NULL
        PROVE  AtOrBefore(table, k, cursor)
    <3>1. NULL \notin KeysOf(table)
      BY <2>1, KeysOfContent, TableAssumption
    <3> QED
      BY <2>1, <2>2, <2>4, <3>1, NextKeyFacts
  <2> QED
    BY <2>2, <2>3, <2>4
<1> QED
  BY <1>1, Invariant, PTL

\* Every call of a script on the table is a call on the map HymnDictionary;
\* copy(t) and the steps of a loop leave that map alone: ImplementsDictionary.
THEOREM Refinement == Spec => ImplementsDictionary
<1> DEFINE dict == [k \in Keys |-> ValueOf(table, k)]
<1>1. Init => Dictionary!DictInit
  <2> SUFFICES ASSUME Init
               PROVE  Dictionary!DictInit
    OBVIOUS
  <2>1. table = EmptyTable /\ answer = UNDEFINED
    BY DEF Init
  <2>2. \A k \in Keys : ValueOf(EmptyTable, k) = UNDEFINED
    BY EmptySound, ValueFacts DEF Sound
  <2> QED
    BY <2>1, <2>2 DEF Dictionary!DictInit
<1>2. IInv /\ [Next]_vars => [Dictionary!DictNext]_(Dictionary!dictVars)
  <2> SUFFICES ASSUME IInv, [Next]_vars
               PROVE  [Dictionary!DictNext]_(Dictionary!dictVars)
    OBVIOUS
  <2>0. Sound(table)
    BY DEF IInv, TableSound
  <2>1. ASSUME NEW k \in Keys, NEW v \in Values, Put(k, v)
        PROVE  Dictionary!Store(k, v)
    <3>1. table' = With(table, k, v) /\ answer' = ValueOf(table, k)
      BY <2>1 DEF Put
    <3>2. \A l \in Keys : ValueOf(table', l) = IF l = k THEN v ELSE ValueOf(table, l)
      BY <2>0, <3>1, WithFacts
    <3>3. dict' = [dict EXCEPT ![k] = v] /\ answer' = dict[k]
      BY <3>1, <3>2
    <3> QED
      BY <3>3 DEF Dictionary!Store
  <2>2. ASSUME NEW k \in Keys, Get(k)
        PROVE  Dictionary!Lookup(k)
    BY <2>2 DEF Get, Dictionary!Lookup
  <2>3. ASSUME NEW k \in Keys, Delete(k)
        PROVE  Dictionary!Drop(k)
    <3>1. table' = Without(table, k) /\ answer' = ValueOf(table, k)
      BY <2>3 DEF Delete
    <3>2. \A l \in Keys : ValueOf(table', l) = IF l = k THEN UNDEFINED ELSE ValueOf(table, l)
      BY <2>0, <3>1, WithoutFacts
    <3>3. dict' = [dict EXCEPT ![k] = UNDEFINED] /\ answer' = dict[k]
      BY <3>1, <3>2
    <3> QED
      BY <3>3 DEF Dictionary!Drop
  <2>4. CASE Clear
    <3>1. table' = Cleared(table) /\ answer' = UNDEFINED
      BY <2>4 DEF Clear
    <3>2. \A l \in Keys : ValueOf(table', l) = UNDEFINED
      BY <2>0, <3>1, ClearedFacts
    <3> QED
      BY <3>1, <3>2 DEF Dictionary!DictNext, Dictionary!Empty
  <2>5. CASE Copy
    <3>1. table' = Copied(table) /\ answer' = answer
      BY <2>5 DEF Copy
    <3>2. \A l \in Keys : ValueOf(table', l) = ValueOf(table, l)
      BY <2>0, <3>1, CopiedFacts
    <3> QED
      BY <3>1, <3>2 DEF Dictionary!dictVars
  <2>6. ASSUME table' = table, answer' = answer
        PROVE  UNCHANGED Dictionary!dictVars
    BY <2>6 DEF Dictionary!dictVars
  <2>7. CASE For \/ ForLoop \/ Break \/ UNCHANGED vars
    BY <2>6, <2>7 DEF For, ForLoop, Break, vars
  <2> QED
    BY <2>1, <2>2, <2>3, <2>4, <2>5, <2>7 DEF Next, Dictionary!DictNext
<1> QED
  BY <1>1, <1>2, Invariant, PTL DEF Spec, ImplementsDictionary, Dictionary!DictSpec

=============================================================================
