----------------------------- MODULE HymnTable -----------------------------
(***************************************************************************)
(* HymnTable, the hash table behind tables, globals and imports, and the   *)
(* for loop that walks over it.                                            *)
(*                                                                         *)
(* A table has a power of two of bins; an item hangs in the chain of the   *)
(* bin its key hashes to, at the end when it is new.  A table that is full *)
(* doubles its bins and splits every chain in two.  A loop keeps nothing   *)
(* but the current key (OP_FOR, OP_FOR_LOOP): it asks the table for the    *)
(* item after that key, whatever its body has done to the table since.     *)
(***************************************************************************)
EXTENDS Integers, SequencesExt

CONSTANTS
  Keys,         \* interned strings, as numbers in the order of strcmp
  Hash,         \* HymnObjectString.hash
  Values,
  UNDEFINED,
  NULL,         \* no item, no loop
  InitialBins,
  MaximumBins

\* no odd divisor but 1
PowerOfTwo(n) == n \in Nat \ {0} /\ \A d \in 2..n : n % d = 0 => d % 2 = 0

ASSUME TableAssumption ==
  /\ Keys \subseteq Nat /\ IsFiniteSet(Keys)
  /\ Hash \in [Keys -> Nat]
  /\ UNDEFINED \notin Values
  /\ NULL \notin Keys
  /\ InitialBins \in Nat /\ InitialBins > 1
  /\ PowerOfTwo(MaximumBins) /\ MaximumBins % InitialBins = 0

VARIABLES
  table,    \* bins, the chain of each bin, and size
  answer,   \* what the last call returned
  cursor,   \* the key of the loop, NULL outside
  visits,   \* history: how often the loop has been at a key (at most 2)
  stable,   \* history: the keys in the table since the loop began
  moved,    \* history: since then items were rehashed, or the key of the loop removed
  grown     \* history: since then a new key came

loop == <<cursor, visits, stable, moved, grown>>
vars == <<table, answer, cursor, visits, stable, moved, grown>>

-----------------------------------------------------------------------------
(* The table *)

EmptyTable == [bins |-> InitialBins, items |-> [b \in 0..InitialBins-1 |-> <<>>], size |-> 0]

\* hash & (bins - 1), with bins a power of two
BinOf(bins, k) == Hash[k] % bins

Chain(t, k) == t.items[BinOf(t.bins, k)]

\* where k is in its chain: at most one index
Places(t, k) == {i \in DOMAIN Chain(t, k) : Chain(t, k)[i].key = k}

\* bins * LOAD_FACTOR, cut to an int: 0.80f is this fraction, and its product
\* with a power of two is exact
Capacity(bins) == (13421773 * bins) \div 16777216

\* Mutant: the chain of a low bin keeps the items of its high bin
ResizedUnsplit(t) ==
  IF t.bins >= MaximumBins THEN t
  ELSE [t EXCEPT
         !.bins = 2 * t.bins,
         !.items = [b \in 0..2*t.bins-1 |-> IF b < t.bins THEN t.items[b] ELSE <<>>]]

\* the items of a chain whose next bit is high, in their order
Half(chain, bins, high) ==
  LET half[i \in 0..Len(chain)] ==
        IF i = 0 THEN <<>>
        ELSE IF (Hash[chain[i].key] \div bins) % 2 = high THEN Append(half[i - 1], chain[i])
        ELSE half[i - 1]
  IN half[Len(chain)]

\* Twice the bins: a chain is split by the next bit of the hash into the bin
\* it had and the one old_bins above, in the order it had
Resized(t) ==
  IF t.bins >= MaximumBins THEN t
  ELSE [t EXCEPT
         !.bins = 2 * t.bins,
         !.items = [b \in 0..2*t.bins-1 |-> Half(t.items[b % t.bins], t.bins, b \div t.bins)]]

\* Mutant: the size is not counted
WithUncounted(t, k, v) ==
  LET bin == BinOf(t.bins, k)
      old == Places(t, k)
  IN IF old # {}
     THEN [t EXCEPT !.items[bin] = [i \in DOMAIN @ |-> IF i \in old THEN [@[i] EXCEPT !.value = v] ELSE @[i]]]
     ELSE [t EXCEPT !.items[bin] = Append(@, [key |-> k, value |-> v])]

\* table_put: overwrite the item of k, or append one and resize a full table
With(t, k, v) ==
  LET bin == BinOf(t.bins, k)
      old == Places(t, k)
      new == [t EXCEPT !.items[bin] = Append(@, [key |-> k, value |-> v]), !.size = @ + 1]
  IN IF old # {}
     THEN [t EXCEPT !.items[bin] = [i \in DOMAIN @ |-> IF i \in old THEN [@[i] EXCEPT !.value = v] ELSE @[i]]]
     ELSE IF new.size >= Capacity(new.bins) THEN Resized(new) ELSE new

\* table_get
ValueOf(t, k) ==
  IF Places(t, k) = {} THEN UNDEFINED
  ELSE LET i == CHOOSE j \in Places(t, k) : TRUE IN Chain(t, k)[i].value

\* Mutant: the size is counted down for a key that is not there
WithoutUnsized(t, k) ==
  LET bin == BinOf(t.bins, k)
  IN [t EXCEPT
       !.items[bin] = IF Places(t, k) = {} THEN @ ELSE RemoveAt(@, CHOOSE i \in Places(t, k) : TRUE),
       !.size = @ - 1]

\* Mutant: the rest of the chain goes with the item
WithoutRest(t, k) ==
  LET bin == BinOf(t.bins, k)
  IN IF Places(t, k) = {} THEN t
     ELSE [t EXCEPT
            !.items[bin] = SubSeq(@, 1, (CHOOSE i \in Places(t, k) : TRUE) - 1),
            !.size = @ - 1]

\* table_remove: unlink the item of k
Without(t, k) ==
  LET bin == BinOf(t.bins, k)
  IN IF Places(t, k) = {} THEN t
     ELSE [t EXCEPT
            !.items[bin] = RemoveAt(@, CHOOSE i \in Places(t, k) : TRUE),
            !.size = @ - 1]

\* table_clear: every chain is freed, the bins stay
Cleared(t) == [t EXCEPT !.items = [b \in DOMAIN @ |-> <<>>], !.size = 0]

\* all items, in the order of the bins and of their chains
Items(t) == FlattenSeq([i \in 1..t.bins |-> t.items[i - 1]])

KeysOf(t) == UNION {{item.key : item \in ToSet(t.items[b])} : b \in DOMAIN t.items}

\* new_table_copy: put every item in a new table
Copied(t) ==
  LET items == Items(t)
      copy[i \in 0..Len(items)] ==
        IF i = 0 THEN EmptyTable ELSE With(copy[i - 1], items[i].key, items[i].value)
  IN copy[Len(items)]

\* the first key of the bins from b on
FirstFrom(t, b) ==
  LET full == {c \in b..t.bins-1 : t.items[c] # <<>>}
  IN IF full = {} THEN NULL ELSE Head(t.items[Min(full)]).key

\* Mutant: a key that ends its chain restarts the search at its own bin
NextKeySameBin(t, k) ==
  LET after == {i \in DOMAIN Chain(t, k) : i - 1 \in Places(t, k)}
  IN IF after # {} THEN Chain(t, k)[CHOOSE i \in after : TRUE].key
     ELSE FirstFrom(t, BinOf(t.bins, k))

\* table_next: the item after k in its chain, or the first of the later bins;
\* also when k is no longer in the table
NextKey(t, k) ==
  LET after == {i \in DOMAIN Chain(t, k) : i - 1 \in Places(t, k)}
  IN IF after # {} THEN Chain(t, k)[CHOOSE i \in after : TRUE].key
     ELSE FirstFrom(t, BinOf(t.bins, k) + 1)

\* Mutant: the key is inserted after the first greater one
InsertedLate(keys, k) ==
  LET greater == {i \in DOMAIN keys : k < keys[i]}
  IN IF greater = {} THEN Append(keys, k) ELSE InsertAt(keys, Min(greater) + 1, k)

\* before the first greater key
Inserted(keys, k) ==
  LET greater == {i \in DOMAIN keys : k < keys[i]}
  IN IF greater = {} THEN Append(keys, k) ELSE InsertAt(keys, Min(greater), k)

\* table_keys
KeyList(t) ==
  LET items == Items(t)
      keys[i \in 0..Len(items)] ==
        IF i = 0 THEN <<>> ELSE Inserted(keys[i - 1], items[i].key)
  IN keys[Len(items)]

\* Mutant: the search goes on behind an item that has the value
KeyOfLast(t, v) ==
  LET items == Items(t)
      found == {i \in DOMAIN items : items[i].value = v}
  IN IF found = {} THEN NULL ELSE items[Max(found)].key

\* table_key_of: the key of the first item, by bins and chains, that has the value
KeyOf(t, v) ==
  LET items == Items(t)
      found == {i \in DOMAIN items : items[i].value = v}
  IN IF found = {} THEN NULL ELSE items[Min(found)].key

-----------------------------------------------------------------------------
(* Operations of a script *)

Init ==
  /\ table = EmptyTable
  /\ answer = UNDEFINED
  /\ cursor = NULL
  /\ visits = [k \in Keys |-> 0]
  /\ stable = {}
  /\ moved = FALSE
  /\ grown = FALSE

\* the history of a loop whose table becomes new; nothing outside a loop
Watch(new) ==
  /\ UNCHANGED <<cursor, visits>>
  /\ IF cursor = NULL THEN UNCHANGED <<stable, moved, grown>>
     ELSE /\ stable' = stable \cap KeysOf(new)
          /\ moved' = (moved \/ new.bins # table.bins \/ cursor \notin KeysOf(new))
          /\ grown' = (grown \/ ~(KeysOf(new) \subseteq KeysOf(table)))

Put(k, v) ==
  /\ table' = With(table, k, v)
  /\ answer' = ValueOf(table, k)
  /\ Watch(table')

Get(k) ==
  /\ answer' = ValueOf(table, k)
  /\ UNCHANGED <<table, loop>>

Delete(k) ==
  /\ table' = Without(table, k)
  /\ answer' = ValueOf(table, k)
  /\ Watch(table')

Clear ==
  /\ table' = Cleared(table)
  /\ answer' = UNDEFINED
  /\ Watch(table')

\* The script goes on with a copy of the table: t = copy(t).  A running loop
\* keeps the table it began with, so the model copies outside of loops.
Copy ==
  /\ cursor = NULL
  /\ table' = Copied(table)
  /\ UNCHANGED <<answer, loop>>

LoopEnds ==
  /\ cursor' = NULL
  /\ visits' = [k \in Keys |-> 0]
  /\ stable' = {}
  /\ moved' = FALSE
  /\ grown' = FALSE

\* OP_FOR
For ==
  /\ cursor = NULL
  /\ FirstFrom(table, 0) # NULL
  /\ cursor' = FirstFrom(table, 0)
  /\ visits' = [visits EXCEPT ![cursor'] = 1]
  /\ stable' = KeysOf(table)
  /\ UNCHANGED <<table, answer, moved, grown>>

\* OP_FOR_LOOP
ForLoop ==
  /\ cursor # NULL
  /\ LET next == NextKey(table, cursor)
     IN \/ next = NULL /\ LoopEnds
        \/ /\ next # NULL
           /\ cursor' = next
           /\ visits' = [visits EXCEPT ![next] = IF @ = 2 THEN 2 ELSE @ + 1]
           /\ UNCHANGED <<stable, moved, grown>>
  /\ UNCHANGED <<table, answer>>

\* break, return or an error in the body
Break ==
  /\ cursor # NULL
  /\ LoopEnds
  /\ UNCHANGED <<table, answer>>

Next ==
  \/ \E k \in Keys, v \in Values : Put(k, v)
  \/ \E k \in Keys : Get(k)
  \/ \E k \in Keys : Delete(k)
  \/ Clear
  \/ Copy
  \/ For
  \/ ForLoop
  \/ Break

\* The body of a loop comes to its end
Fairness == WF_vars(ForLoop)

Spec == Init /\ [][Next]_vars /\ Fairness

-----------------------------------------------------------------------------
(* Properties *)

Item == [key : Keys, value : Values]

TypeOK ==
  /\ table.bins \in InitialBins..MaximumBins
  /\ DOMAIN table.items = 0..table.bins-1
  /\ \A b \in DOMAIN table.items : \A i \in DOMAIN table.items[b] : table.items[b][i] \in Item
  /\ table.size \in 0..Cardinality(Keys)
  /\ answer \in Values \cup {UNDEFINED}
  /\ cursor \in Keys \cup {NULL}
  /\ visits \in [Keys -> 0..2]
  /\ stable \in SUBSET Keys
  /\ moved \in BOOLEAN /\ grown \in BOOLEAN

\* An item is in the chain its key is looked up in, and no key has two items:
\* table_resize, which moves whole chains, loses and doubles nothing.
Placed ==
  /\ \A b \in DOMAIN table.items : \A i \in DOMAIN table.items[b] :
       BinOf(table.bins, table.items[b][i].key) = b
  /\ IsInjective([i \in DOMAIN Items(table) |-> Items(table)[i].key])

\* size, which decides on growth, on the length of keys(t) and on the truth of
\* a table, is the number of items; and a table grows before it is full.
SizeExact ==
  /\ table.size = Len(Items(table))
  /\ table.size < Capacity(table.bins) \/ table.bins = MaximumBins

\* the keys that a loop comes to, one after the other, when its body leaves the table alone
Walk(t) ==
  LET walk[n \in 1..t.size] == IF n = 1 THEN FirstFrom(t, 0) ELSE NextKey(t, walk[n - 1])
  IN walk

\* keys(t) is every key of the table once, in the order of strcmp; and index(t, v) is the
\* first key with the value v that a loop over the table comes to: table_key_of goes through
\* the bins and their chains, a loop asks table_next from key to key.
Listed ==
  LET keys == KeyList(table)
      walk == Walk(table)
  IN /\ \A i, j \in DOMAIN keys : i < j => keys[i] < keys[j]
     /\ ToSet(keys) = KeysOf(table)
     /\ Range(walk) = KeysOf(table)
     /\ \A v \in Values :
          LET having == {n \in DOMAIN walk : ValueOf(table, walk[n]) = v}
          IN KeyOf(table, v) = IF having = {} THEN NULL ELSE walk[Min(having)]

\* A for loop is at every key that stays in the table exactly once, whatever
\* its body overwrites, adds or removes: unless the table is rehashed under it
\* or the body removes the very key it is at.
EachVisitedOnce ==
  cursor # NULL /\ ~moved =>
    \A k \in stable :
      /\ visits[k] <= 1
      /\ NextKey(table, cursor) = NULL => visits[k] = 1

\* A loop over a table that gets no new keys ends, whatever else its body does.
LoopFinishes == (cursor # NULL) ~> (cursor = NULL \/ grown)

\* A table is the map a script takes it for.
Dictionary ==
  INSTANCE HymnDictionary WITH dict <- [k \in Keys |-> ValueOf(table, k)]

ImplementsDictionary == Dictionary!DictSpec
=============================================================================
