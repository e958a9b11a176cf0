------------------------- MODULE HymnStringsProofs -------------------------
(***************************************************************************)
(* The safety properties of HymnStrings, for any number of texts,          *)
(* addresses, slots and literals.                                          *)
(*                                                                         *)
(* None of them is inductive alone.  That a count never goes below zero    *)
(* needs that every slot points to a live string (SlotsAlive) whose count  *)
(* covers the slots that hold it (CountExact); that the last dereference   *)
(* frees its own string and no other needs that no two members have one    *)
(* text (Canonical).  LiteralsAliveOnce needs the one fact the program     *)
(* never writes down: which strings carry the compiler's reference.        *)
(***************************************************************************)
EXTENDS HymnStrings, TLAPS, FiniteSetTheorems

\* H->strings and the allocated objects are the same set
Live == \A o \in Objects : o \in strings <=> text[o] # NULL

\* before anything runs every string has the compiler's reference
CompilerReferences ==
  phase = "compile" => \A o \in strings : count[o] = Cardinality(Holders(o)) + 1

\* in a single script the strings of the literals keep it
LiteralReferences ==
  once /\ phase # "deleted" =>
    \A k \in Literals : pool[k] # NULL =>
      /\ pool[k] \in strings
      /\ count[pool[k]] = Cardinality(Holders(pool[k])) + 1

IInv ==
  /\ TypeOK
  /\ Live
  /\ Canonical
  /\ SlotsAlive
  /\ CountExact
  /\ DeletedEmpty
  /\ CompilerReferences
  /\ LiteralReferences

-----------------------------------------------------------------------------
(* Counting holders *)

\* An object has finitely many holders: its count can be compared with them
LEMMA HoldersFinite ==
  ASSUME NEW o
  PROVE  IsFiniteSet(Holders(o)) /\ Cardinality(Holders(o)) \in Nat
<1>1. Holders(o) \subseteq Slots
  BY DEF Holders
<1>2. IsFiniteSet(Holders(o))
  BY <1>1, StringsAssumption, FS_Subset DEF StringsAssumption
<1> QED
  BY <1>2, FS_CardinalityType

\* An object nothing points to has no holders
LEMMA HoldersNone ==
  ASSUME NEW o, \A s \in Slots : slot[s] # o
  PROVE  Cardinality(Holders(o)) = 0
<1>1. Holders(o) = {}
  BY DEF Holders
<1> QED
  BY <1>1, FS_EmptySet

\* A slot that takes an object is one more holder of it and of nothing else
LEMMA HoldersTake ==
  ASSUME TypeOK, NEW s \in Slots, NEW o \in Objects, slot[s] = NULL,
         slot' = [slot EXCEPT ![s] = o],
         NEW p \in Objects
  PROVE  Cardinality(Holders(p))' =
           Cardinality(Holders(p)) + (IF p = o THEN 1 ELSE 0)
<1>1. NULL \notin Objects
  BY StringsAssumption DEF StringsAssumption
<1>2. CASE p = o
  <2>1. Holders(p)' = Holders(p) \cup {s}
    BY <1>1, <1>2 DEF Holders, TypeOK
  <2>2. s \notin Holders(p)
    BY <1>1 DEF Holders
  <2>3. Cardinality(Holders(p) \cup {s}) = Cardinality(Holders(p)) + 1
    BY <2>2, HoldersFinite, FS_AddElement
  <2> QED
    BY <1>2, <2>1, <2>3
<1>3. CASE p # o
  <2>1. Holders(p)' = Holders(p)
    BY <1>1, <1>3 DEF Holders, TypeOK
  <2> QED
    BY <1>3, <2>1, HoldersFinite
<1> QED
  BY <1>2, <1>3

\* A slot that is cleared is one holder less of what it pointed to
LEMMA HoldersGive ==
  ASSUME TypeOK, NEW s \in Slots, slot[s] # NULL,
         slot' = [slot EXCEPT ![s] = NULL],
         NEW p \in Objects
  PROVE  Cardinality(Holders(p))' =
           Cardinality(Holders(p)) - (IF p = slot[s] THEN 1 ELSE 0)
<1>1. NULL \notin Objects
  BY StringsAssumption DEF StringsAssumption
<1>2. CASE p = slot[s]
  <2>1. Holders(p)' = Holders(p) \ {s}
    BY <1>1, <1>2 DEF Holders, TypeOK
  <2>2. s \in Holders(p)
    BY <1>2 DEF Holders
  <2>3. Cardinality(Holders(p) \ {s}) = Cardinality(Holders(p)) - 1
    BY <2>2, HoldersFinite, FS_RemoveElement
  <2> QED
    BY <1>2, <2>1, <2>3
<1>3. CASE p # slot[s]
  <2>1. Holders(p)' = Holders(p)
    BY <1>1, <1>3 DEF Holders, TypeOK
  <2> QED
    BY <1>3, <2>1, HoldersFinite
<1> QED
  BY <1>2, <1>3

\* An object that goes in where another one comes out, at another slot
LEMMA HoldersMove ==
  ASSUME TypeOK, NEW s \in Slots, NEW t \in Slots, NEW o \in Objects,
         slot[s] # NULL, slot[t] = NULL,
         slot' = [slot EXCEPT ![s] = NULL, ![t] = o],
         NEW p \in Objects
  PROVE  Cardinality(Holders(p))' =
           Cardinality(Holders(p)) - (IF p = slot[s] THEN 1 ELSE 0)
                                   + (IF p = o THEN 1 ELSE 0)
<1>1. NULL \notin Objects
  BY StringsAssumption DEF StringsAssumption
<1>2. PICK left : left = Holders(p) \ {s}
  OBVIOUS
<1>3. /\ IsFiniteSet(left) /\ Cardinality(left) \in Nat
      /\ Cardinality(left) = Cardinality(Holders(p)) - (IF p = slot[s] THEN 1 ELSE 0)
  <2>1. CASE p = slot[s]
    <3>1. s \in Holders(p)
      BY <2>1 DEF Holders
    <3>2. IsFiniteSet(left) /\ Cardinality(left) = Cardinality(Holders(p)) - 1
      BY <1>2, <3>1, HoldersFinite, FS_RemoveElement
    <3> QED
      BY <2>1, <3>2, FS_CardinalityType
  <2>2. CASE p # slot[s]
    <3>1. left = Holders(p)
      BY <1>2, <2>2 DEF Holders
    <3> QED
      BY <2>2, <3>1, HoldersFinite
  <2> QED
    BY <2>1, <2>2
<1>4. CASE p = o
  <2>1. Holders(p)' = left \cup {t}
    BY <1>1, <1>2, <1>4 DEF Holders, TypeOK
  <2>2. t \notin left
    BY <1>1, <1>2 DEF Holders
  <2>3. Cardinality(left \cup {t}) = Cardinality(left) + 1
    BY <1>3, <2>2, FS_AddElement
  <2> QED
    BY <1>3, <1>4, <2>1, <2>3
<1>5. CASE p # o
  <2>1. Holders(p)' = left
    BY <1>1, <1>2, <1>5 DEF Holders, TypeOK
  <2> QED
    BY <1>3, <1>5, <2>1
<1> QED
  BY <1>4, <1>5

\* What a slot points to counts at least the slot itself
LEMMA HoldersSome ==
  ASSUME TypeOK, NEW s \in Slots, slot[s] # NULL
  PROVE  Cardinality(Holders(slot[s])) >= 1
<1>1. s \in Holders(slot[s])
  BY DEF Holders
<1>2. Cardinality(Holders(slot[s])) # 0
  BY <1>1, HoldersFinite, FS_EmptySet
<1> QED
  BY <1>2, HoldersFinite

-----------------------------------------------------------------------------
(* The steps of the invariant, one lemma for each operation *)

\* The machine starts without strings
LEMMA InitHolds == Init => IInv
<1> SUFFICES ASSUME Init PROVE IInv
  OBVIOUS
<1>1. TypeOK
  BY DEF Init, TypeOK
<1>2. Live /\ Canonical /\ SlotsAlive /\ DeletedEmpty
  BY DEF Init, Live, Canonical, SlotsAlive, DeletedEmpty
<1>3. CountExact /\ CompilerReferences /\ LiteralReferences
  BY DEF Init, CountExact, CompilerReferences, LiteralReferences
<1> QED
  BY <1>1, <1>2, <1>3 DEF IInv

\* An address that holds no string is held by no slot
LEMMA FreshUnheld ==
  ASSUME IInv, phase # "deleted", NEW o \in Objects, text[o] = NULL
  PROVE  o \notin strings /\ Cardinality(Holders(o)) = 0
<1>1. o \notin strings
  BY DEF IInv, Live
<1>2. \A s \in Slots : slot[s] # o
  BY <1>1, StringsAssumption DEF IInv, SlotsAlive, StringsAssumption
<1> QED
  BY <1>1, <1>2, HoldersNone

\* Compiling a literal
LEMMA CompileLiteralHolds ==
  ASSUME IInv, NEW k \in Literals, NEW c \in Texts, CompileLiteral(k, c)
  PROVE  IInv'
<1>1. PICK o \in Objects :
        /\ \/ Found(c, o) /\ UNCHANGED <<text, count, strings>>
           \/ Fresh(c, o) /\ Allocate(c, o, 1)
        /\ pool' = [pool EXCEPT ![k] = o]
  BY DEF CompileLiteral
<1>2. /\ phase \in {"compile", "run"}
      /\ once => phase = "compile"
      /\ UNCHANGED <<slot, phase, once, fault>>
  BY DEF CompileLiteral
<1>3. \A p \in Objects : Holders(p)' = Holders(p)
  BY <1>2 DEF Holders
<1>4. \A p \in Objects : Cardinality(Holders(p)) \in Nat
  BY HoldersFinite
<1>5. CASE Found(c, o) /\ UNCHANGED <<text, count, strings>>
  BY <1>1, <1>2, <1>3, <1>5
     DEF IInv, TypeOK, Live, Canonical, SlotsAlive, CountExact, DeletedEmpty,
         CompilerReferences, LiteralReferences, Found
<1>6. CASE Fresh(c, o) /\ Allocate(c, o, 1)
  <2>1. o \notin strings /\ Cardinality(Holders(o)) = 0
    BY <1>2, <1>6, FreshUnheld DEF Fresh
  <2>2. TypeOK'
    BY <1>1, <1>2, <1>6 DEF IInv, TypeOK, Allocate
  <2>3. Live' /\ Canonical'
    BY <1>6, StringsAssumption DEF IInv, TypeOK, Live, Canonical, Fresh, Allocate, StringsAssumption
  <2>4. SlotsAlive' /\ DeletedEmpty'
    BY <1>2, <1>6 DEF IInv, SlotsAlive, DeletedEmpty, Allocate
  <2>5. CountExact' /\ CompilerReferences'
    BY <1>2, <1>3, <1>4, <1>6, <2>1
       DEF IInv, TypeOK, CountExact, CompilerReferences, Allocate
  <2>6. LiteralReferences'
    BY <1>1, <1>2, <1>3, <1>4, <1>6, <2>1
       DEF IInv, TypeOK, LiteralReferences, Allocate
  <2> QED
    BY <2>2, <2>3, <2>4, <2>5, <2>6 DEF IInv
<1> QED
  BY <1>1, <1>5, <1>6

\* Making a string at run time
LEMMA PushStringHolds ==
  ASSUME IInv, NEW s \in Slots, NEW c \in Texts, PushString(s, c)
  PROVE  IInv'
<1>1. PICK o \in Objects :
        /\ \/ /\ Found(c, o)
              /\ count' = [count EXCEPT ![o] = @ + 1]
              /\ UNCHANGED <<text, strings>>
           \/ Fresh(c, o) /\ Allocate(c, o, 1)
        /\ slot' = [slot EXCEPT ![s] = o]
  BY DEF PushString
<1>2. phase = "run" /\ slot[s] = NULL /\ UNCHANGED <<pool, phase, once, fault>>
  BY DEF PushString
<1>3. \A p \in Objects : Cardinality(Holders(p))' =
                           Cardinality(Holders(p)) + (IF p = o THEN 1 ELSE 0)
  BY <1>1, <1>2, HoldersTake DEF IInv
<1>4. \A p \in Objects : Cardinality(Holders(p)) \in Nat
  BY HoldersFinite
<1>5. CASE Found(c, o) /\ count' = [count EXCEPT ![o] = @ + 1] /\ UNCHANGED <<text, strings>>
  <2>1. TypeOK' /\ Live' /\ Canonical' /\ SlotsAlive' /\ DeletedEmpty'
    BY <1>1, <1>2, <1>5
       DEF IInv, TypeOK, Live, Canonical, SlotsAlive, DeletedEmpty, Found
  <2>2. CountExact' /\ CompilerReferences' /\ LiteralReferences'
    BY <1>2, <1>3, <1>4, <1>5
       DEF IInv, TypeOK, CountExact, CompilerReferences, LiteralReferences
  <2> QED
    BY <2>1, <2>2 DEF IInv
<1>6. CASE Fresh(c, o) /\ Allocate(c, o, 1)
  <2>1. o \notin strings /\ Cardinality(Holders(o)) = 0
    BY <1>2, <1>6, FreshUnheld DEF Fresh
  <2>2. TypeOK'
    BY <1>1, <1>2, <1>6 DEF IInv, TypeOK, Allocate
  <2>3. Live' /\ Canonical'
    BY <1>6, StringsAssumption DEF IInv, TypeOK, Live, Canonical, Fresh, Allocate, StringsAssumption
  <2>4. SlotsAlive' /\ DeletedEmpty'
    BY <1>1, <1>2, <1>6 DEF IInv, TypeOK, SlotsAlive, DeletedEmpty, Allocate
  <2>5. CountExact' /\ CompilerReferences' /\ LiteralReferences'
    BY <1>2, <1>3, <1>4, <1>6, <2>1
       DEF IInv, TypeOK, CountExact, CompilerReferences, LiteralReferences, Allocate
  <2> QED
    BY <2>2, <2>3, <2>4, <2>5 DEF IInv
<1> QED
  BY <1>1, <1>5, <1>6

\* Copying a string to another slot
LEMMA CopyHolds ==
  ASSUME IInv, NEW s \in Slots, NEW t \in Slots, Copy(s, t)
  PROVE  IInv'
<1> DEFINE o == slot[s]
<1>1. /\ phase = "run" /\ o # NULL /\ slot[t] = NULL
      /\ count' = [count EXCEPT ![o] = @ + 1]
      /\ slot' = [slot EXCEPT ![t] = o]
      /\ UNCHANGED <<text, strings, pool, phase, once, fault>>
  BY DEF Copy
<1>2. o \in strings /\ o \in Objects
  BY <1>1 DEF IInv, TypeOK, SlotsAlive
<1> HIDE DEF o
<1>3. \A p \in Objects : Cardinality(Holders(p))' =
                           Cardinality(Holders(p)) + (IF p = o THEN 1 ELSE 0)
  BY <1>1, <1>2, HoldersTake DEF IInv
<1>4. \A p \in Objects : Cardinality(Holders(p)) \in Nat
  BY HoldersFinite
<1>5. TypeOK' /\ Live' /\ Canonical' /\ SlotsAlive' /\ DeletedEmpty'
  BY <1>1, <1>2 DEF IInv, TypeOK, Live, Canonical, SlotsAlive, DeletedEmpty
<1>6. CountExact' /\ CompilerReferences' /\ LiteralReferences'
  BY <1>1, <1>3, <1>4
     DEF IInv, TypeOK, CountExact, CompilerReferences, LiteralReferences
<1> QED
  BY <1>5, <1>6 DEF IInv

\* What does not touch counts, slots or H->strings: a pool is freed, the
\* script starts, freed memory is read, nothing happens
LEMMA QuietHolds ==
  ASSUME IInv,
         UNCHANGED <<text, count, strings, slot, once>>,
         fault' \in {"none", "literal", "result"},
         \/ \E k \in Literals : pool' = [pool EXCEPT ![k] = NULL] /\ UNCHANGED phase
         \/ phase = "compile" /\ phase' = "run" /\ UNCHANGED pool
         \/ UNCHANGED <<pool, phase>>
  PROVE  IInv'
<1>1. \A o : Holders(o)' = Holders(o)
  BY DEF Holders
<1>2. TypeOK' /\ Live' /\ Canonical' /\ SlotsAlive' /\ DeletedEmpty'
  BY DEF IInv, TypeOK, Live, Canonical, SlotsAlive, DeletedEmpty
<1>3. CountExact' /\ CompilerReferences' /\ LiteralReferences'
  BY <1>1 DEF IInv, TypeOK, CountExact, CompilerReferences, LiteralReferences
<1> QED
  BY <1>2, <1>3 DEF IInv

\* Loading a literal
LEMMA LoadLiteralHolds ==
  ASSUME IInv, NEW s \in Slots, NEW k \in Literals, LoadLiteral(s, k)
  PROVE  IInv'
<1> DEFINE o == pool[k]
<1>1. /\ phase = "run" /\ o # NULL /\ slot[s] = NULL
      /\ UNCHANGED <<text, strings, pool, phase, once>>
  BY DEF LoadLiteral
<1>2. o \in Objects
  BY <1>1 DEF IInv, TypeOK
<1>3. CASE text[o] # NULL
  <2>1. /\ count' = [count EXCEPT ![o] = @ + 1]
        /\ slot' = [slot EXCEPT ![s] = o]
        /\ UNCHANGED fault
    BY <1>3 DEF LoadLiteral
  <2>2. o \in strings
    BY <1>2, <1>3 DEF IInv, Live
  <2> HIDE DEF o
  <2>3. \A p \in Objects : Cardinality(Holders(p))' =
                             Cardinality(Holders(p)) + (IF p = o THEN 1 ELSE 0)
    BY <1>1, <1>2, <2>1, HoldersTake DEF IInv
  <2>4. \A p \in Objects : Cardinality(Holders(p)) \in Nat
    BY HoldersFinite
  <2>5. TypeOK' /\ Live' /\ Canonical' /\ SlotsAlive' /\ DeletedEmpty'
    BY <1>1, <1>2, <2>1, <2>2
       DEF IInv, TypeOK, Live, Canonical, SlotsAlive, DeletedEmpty
  <2>6. CountExact' /\ CompilerReferences' /\ LiteralReferences'
    BY <1>1, <2>1, <2>3, <2>4
       DEF IInv, TypeOK, CountExact, CompilerReferences, LiteralReferences
  <2> QED
    BY <2>5, <2>6 DEF IInv
<1>4. CASE text[o] = NULL
  <2>1. fault' = "literal" /\ UNCHANGED <<count, slot>>
    BY <1>4 DEF LoadLiteral
  <2> QED
    BY <1>1, <2>1, QuietHolds
<1> QED
  BY <1>3, <1>4

\* Giving a reference back
LEMMA DereferenceHolds ==
  ASSUME IInv, NEW s \in Slots, Dereference(s)
  PROVE  IInv'
<1>1. PICK o \in strings : o = slot[s] /\ o \in Objects
  BY DEF Dereference, IInv, TypeOK, SlotsAlive
<1>2. /\ phase = "run" /\ o # NULL
      /\ count' = [count EXCEPT ![o] = @ - 1]
      /\ slot' = [slot EXCEPT ![s] = NULL]
      /\ \/ /\ count[o] = 1
            /\ strings' = Removed(o)
            /\ text' = [text EXCEPT ![o] = NULL]
         \/ count[o] # 1 /\ UNCHANGED <<strings, text>>
      /\ UNCHANGED <<pool, phase, once, fault>>
  BY <1>1 DEF Dereference
<1>3. Cardinality(Holders(o)) >= 1
  BY <1>1, <1>2, HoldersSome DEF IInv
<1>4. \A p \in Objects : Cardinality(Holders(p))' =
                           Cardinality(Holders(p)) - (IF p = o THEN 1 ELSE 0)
  BY <1>1, <1>2, HoldersGive DEF IInv
<1>5. \A p \in Objects : Cardinality(Holders(p)) \in Nat
  BY HoldersFinite
<1>6. count[o] >= 1
  BY <1>1, <1>2 DEF IInv, CountExact
<1>7. TypeOK'
  BY <1>1, <1>2, <1>6 DEF IInv, TypeOK, Removed
<1>8. CASE count[o] = 1
  <2>1. strings' = strings \ {o} /\ text' = [text EXCEPT ![o] = NULL]
    BY <1>1, <1>2, <1>8 DEF IInv, Canonical, Removed
  <2>2. Cardinality(Holders(o)) = 1
    BY <1>1, <1>2, <1>3, <1>5, <1>8 DEF IInv, CountExact
  <2>3. \A t \in Slots : slot'[t] # o
    <3> SUFFICES ASSUME NEW t \in Slots, slot'[t] = o PROVE FALSE
      OBVIOUS
    <3>1. Cardinality(Holders(o))' = 0
      BY <1>1, <1>4, <2>2
    <3>2. t \in Holders(o)'
      BY <1>2 DEF Holders
    <3>3. Holders(o)' \subseteq Slots
      BY DEF Holders
    <3>4. IsFiniteSet(Holders(o)')
      BY <3>3, StringsAssumption, FS_Subset DEF StringsAssumption
    <3> QED
      BY <3>1, <3>2, <3>4, FS_EmptySet
  <2>4. Live' /\ Canonical'
    BY <1>1, <2>1 DEF IInv, TypeOK, Live, Canonical
  <2>5. SlotsAlive' /\ DeletedEmpty'
    BY <1>2, <2>1, <2>3 DEF IInv, TypeOK, SlotsAlive, DeletedEmpty
  <2>6. CountExact' /\ CompilerReferences'
    BY <1>2, <1>4, <1>5, <2>1
       DEF IInv, TypeOK, CountExact, CompilerReferences
  <2>7. LiteralReferences'
    BY <1>1, <1>2, <1>4, <1>5, <1>8, <2>1, <2>2
       DEF IInv, TypeOK, LiteralReferences
  <2> QED
    BY <1>7, <2>4, <2>5, <2>6, <2>7 DEF IInv
<1>9. CASE count[o] # 1
  <2>1. UNCHANGED <<strings, text>>
    BY <1>2, <1>9
  <2>2. Live' /\ Canonical' /\ SlotsAlive' /\ DeletedEmpty'
    BY <1>2, <2>1 DEF IInv, TypeOK, Live, Canonical, SlotsAlive, DeletedEmpty
  <2>3. CountExact' /\ CompilerReferences' /\ LiteralReferences'
    BY <1>1, <1>2, <1>4, <1>5, <1>6, <1>9, <2>1
       DEF IInv, TypeOK, CountExact, CompilerReferences, LiteralReferences
  <2> QED
    BY <1>7, <2>2, <2>3 DEF IInv
<1> QED
  BY <1>8, <1>9

\* Calling a native function
LEMMA NativeCallHolds ==
  ASSUME IInv, NEW s \in Slots, NEW t \in Slots, NEW c \in Texts, NativeCall(s, t, c)
  PROVE  IInv'
<1>1. PICK a \in strings : a = slot[s] /\ a \in Objects
  BY DEF NativeCall, IInv, TypeOK, SlotsAlive
<1>2. phase = "run" /\ slot[s] # NULL /\ slot[t] = NULL /\ UNCHANGED <<pool, phase, once>>
  BY DEF NativeCall
<1>3. Cardinality(Holders(a)) >= 1 /\ count[a] >= 1
  BY <1>1, <1>2, HoldersSome DEF IInv, CountExact
<1>4. \A p \in Objects : Cardinality(Holders(p)) \in Nat
  BY HoldersFinite
<1>5. ASSUME NEW o \in Objects \ {a},
             \/ Found(c, o) /\ count' = [count EXCEPT ![a] = @ - 1, ![o] = @ + 1]
             \/ Fresh(c, o) /\ count' = [count EXCEPT ![a] = @ - 1, ![o] = 1],
             slot' = [slot EXCEPT ![s] = NULL, ![t] = o],
             \/ /\ count[a] = 1
                /\ strings' = Removed(a) \cup {o}
                /\ text' = [text EXCEPT ![a] = NULL, ![o] = c]
             \/ /\ count[a] # 1
                /\ strings' = strings \cup {o}
                /\ text' = [text EXCEPT ![o] = c],
             UNCHANGED fault
      PROVE  IInv'
  <2>1. \A p \in Objects : Cardinality(Holders(p))' =
          Cardinality(Holders(p)) - (IF p = a THEN 1 ELSE 0) + (IF p = o THEN 1 ELSE 0)
    <3> SUFFICES ASSUME NEW p \in Objects
                 PROVE  Cardinality(Holders(p))' =
                          Cardinality(Holders(p)) - (IF p = slot[s] THEN 1 ELSE 0)
                                                  + (IF p = o THEN 1 ELSE 0)
      BY <1>1
    <3>1. TypeOK /\ o \in Objects
      BY DEF IInv
    <3>2. slot' = [slot EXCEPT ![s] = NULL, ![t] = o]
      BY <1>5
    <3> QED
      BY <1>2, <3>1, <3>2, HoldersMove
  <2>2. \/ o \in strings /\ text[o] = c /\ count'[o] = count[o] + 1
        \/ /\ o \notin strings /\ Cardinality(Holders(o)) = 0 /\ count'[o] = 1
           /\ \A p \in strings : text[p] # c
    BY <1>2, <1>5, FreshUnheld DEF Found, Fresh, IInv, TypeOK
  <2>3. /\ count' \in [Objects -> Nat]
        /\ count'[a] = count[a] - 1
        /\ \A p \in Objects \ {a, o} : count'[p] = count[p]
    BY <1>1, <1>3, <1>5 DEF IInv, TypeOK
  <2>4. count[a] = 1 => strings' = (strings \ {a}) \cup {o}
    BY <1>1, <1>5 DEF IInv, Canonical, Removed
  <2>5. count[a] # 1 => strings' = strings \cup {o}
    BY <1>5
  <2>6. TypeOK'
    BY <1>1, <1>2, <1>5, <2>3, <2>4, <2>5 DEF IInv, TypeOK
  <2>7. Live' /\ Canonical'
    <3>1. c # NULL
      BY StringsAssumption DEF StringsAssumption
    <3>2. CASE count[a] = 1
      BY <1>1, <1>5, <2>2, <2>4, <3>1, <3>2 DEF IInv, TypeOK, Live, Canonical
    <3>3. CASE count[a] # 1
      BY <1>1, <1>5, <2>2, <2>5, <3>1, <3>3 DEF IInv, TypeOK, Live, Canonical
    <3> QED
      BY <3>2, <3>3
  <2>8. count[a] = 1 => \A r \in Slots : slot[r] = a => r = s
    <3> SUFFICES ASSUME count[a] = 1, NEW r \in Slots, slot[r] = a, r # s PROVE FALSE
      OBVIOUS
    <3>1. Cardinality(Holders(a)) = 1
      BY <1>1, <1>2, <1>3, <1>4 DEF IInv, CountExact
    <3>2. IsFiniteSet(Holders(a)) /\ s \in Holders(a) /\ r \in Holders(a)
      BY <1>1, HoldersFinite DEF Holders
    <3>3. /\ Cardinality(Holders(a) \ {s}) = Cardinality(Holders(a)) - 1
          /\ IsFiniteSet(Holders(a) \ {s})
      BY <3>2, FS_RemoveElement
    <3>4. r \in Holders(a) \ {s}
      BY <3>2
    <3> QED
      BY <3>1, <3>3, <3>4, FS_EmptySet
  <2>9. SlotsAlive' /\ DeletedEmpty'
    BY <1>1, <1>2, <1>5, <2>4, <2>5, <2>8 DEF IInv, TypeOK, SlotsAlive, DeletedEmpty
  <2>10. CountExact' /\ CompilerReferences'
    BY <1>1, <1>2, <1>3, <1>4, <2>1, <2>2, <2>3, <2>4, <2>5
       DEF IInv, TypeOK, CountExact, CompilerReferences
  <2>11. LiteralReferences'
    BY <1>1, <1>2, <1>3, <1>4, <2>1, <2>2, <2>3, <2>4, <2>5
       DEF IInv, TypeOK, LiteralReferences
  <2> QED
    BY <2>6, <2>7, <2>9, <2>10, <2>11 DEF IInv
<1>6. ASSUME slot' = [slot EXCEPT ![s] = NULL, ![t] = a],
             UNCHANGED <<text, count, strings, fault>>
      PROVE  IInv'
  <2>1. \A p \in Objects : Cardinality(Holders(p))' = Cardinality(Holders(p))
    <3> SUFFICES ASSUME NEW p \in Objects
                 PROVE  Cardinality(Holders(p))' = Cardinality(Holders(p))
      OBVIOUS
    <3>1. TypeOK
      BY DEF IInv
    <3>2. slot' = [slot EXCEPT ![s] = NULL, ![t] = a]
      BY <1>6
    <3>3. Cardinality(Holders(p))' =
            Cardinality(Holders(p)) - (IF p = slot[s] THEN 1 ELSE 0)
                                    + (IF p = a THEN 1 ELSE 0)
      BY <1>1, <1>2, <3>1, <3>2, HoldersMove
    <3> QED
      BY <1>1, <1>4, <3>3
  <2>2. TypeOK' /\ Live' /\ Canonical' /\ SlotsAlive' /\ DeletedEmpty'
    BY <1>1, <1>2, <1>6 DEF IInv, TypeOK, Live, Canonical, SlotsAlive, DeletedEmpty
  <2>3. CountExact' /\ CompilerReferences' /\ LiteralReferences'
    BY <1>2, <1>6, <2>1
       DEF IInv, TypeOK, CountExact, CompilerReferences, LiteralReferences
  <2> QED
    BY <2>2, <2>3 DEF IInv
<1>7. ASSUME fault' = "result", UNCHANGED <<text, count, strings, slot>> PROVE IInv'
  BY <1>2, <1>7, QuietHolds
<1>8. \/ \E o \in Objects \ {a} :
           /\ \/ Found(c, o) /\ count' = [count EXCEPT ![a] = @ - 1, ![o] = @ + 1]
              \/ Fresh(c, o) /\ count' = [count EXCEPT ![a] = @ - 1, ![o] = 1]
           /\ slot' = [slot EXCEPT ![s] = NULL, ![t] = o]
           /\ \/ /\ count[a] = 1
                 /\ strings' = Removed(a) \cup {o}
                 /\ text' = [text EXCEPT ![a] = NULL, ![o] = c]
              \/ /\ count[a] # 1
                 /\ strings' = strings \cup {o}
                 /\ text' = [text EXCEPT ![o] = c]
           /\ UNCHANGED fault
      \/ slot' = [slot EXCEPT ![s] = NULL, ![t] = a] /\ UNCHANGED <<text, count, strings, fault>>
      \/ fault' = "result" /\ UNCHANGED <<text, count, strings, slot>>
  BY <1>1 DEF NativeCall
<1> QED
  BY <1>5, <1>6, <1>7, <1>8

\* Deleting the machine
LEMMA DeleteMachineHolds ==
  ASSUME IInv, DeleteMachine
  PROVE  IInv'
<1>1. /\ phase = "run" /\ phase' = "deleted"
      /\ \A s \in Slots : slot[s] = NULL
      /\ count' = [o \in Objects |-> IF o \in strings THEN count[o] - 1 ELSE count[o]]
      /\ strings' = {o \in strings : count[o] # 1}
      /\ text' = [o \in Objects |->
                    IF o \in strings /\ count[o] = 1 THEN NULL ELSE text[o]]
      /\ UNCHANGED <<slot, pool, once, fault>>
  BY DEF DeleteMachine
<1>2. \A o \in Objects : Cardinality(Holders(o)) = 0
  BY <1>1, StringsAssumption, HoldersNone DEF StringsAssumption
<1>3. \A o \in strings : o \in Objects /\ count[o] = 1
  BY <1>1, <1>2 DEF IInv, TypeOK, CountExact
<1>4. strings' = {}
  BY <1>1, <1>3
<1>5. TypeOK'
  BY <1>1, <1>3 DEF IInv, TypeOK
<1>6. Live' /\ Canonical'
  BY <1>1, <1>3, <1>4 DEF IInv, Live, Canonical
<1>7. /\ SlotsAlive' /\ CountExact' /\ DeletedEmpty'
      /\ CompilerReferences' /\ LiteralReferences'
  BY <1>1, <1>4
     DEF SlotsAlive, CountExact, DeletedEmpty, CompilerReferences, LiteralReferences
<1> QED
  BY <1>5, <1>6, <1>7 DEF IInv

-----------------------------------------------------------------------------
(* The theorems *)

\* Every step of the machine preserves the invariant
LEMMA StepHolds == IInv /\ [Next]_vars => IInv'
<1> SUFFICES ASSUME IInv, [Next]_vars PROVE IInv'
  OBVIOUS
<1>1. ASSUME NEW k \in Literals, NEW c \in Texts, CompileLiteral(k, c) PROVE IInv'
  BY <1>1, CompileLiteralHolds
<1>2. ASSUME NEW k \in Literals, DeleteLiteral(k) PROVE IInv'
  BY <1>2, QuietHolds DEF DeleteLiteral, IInv, TypeOK
<1>3. CASE StartRun
  BY <1>3, QuietHolds DEF StartRun, IInv, TypeOK
<1>4. ASSUME NEW s \in Slots, NEW c \in Texts, PushString(s, c) PROVE IInv'
  BY <1>4, PushStringHolds
<1>5. ASSUME NEW s \in Slots, NEW t \in Slots, Copy(s, t) PROVE IInv'
  BY <1>5, CopyHolds
<1>6. ASSUME NEW s \in Slots, NEW k \in Literals, LoadLiteral(s, k) PROVE IInv'
  BY <1>6, LoadLiteralHolds
<1>7. ASSUME NEW s \in Slots, Dereference(s) PROVE IInv'
  BY <1>7, DereferenceHolds
<1>8. ASSUME NEW s \in Slots, NEW t \in Slots, NEW c \in Texts, NativeCall(s, t, c) PROVE IInv'
  BY <1>8, NativeCallHolds
<1>9. CASE DeleteMachine
  BY <1>9, DeleteMachineHolds
<1>10. CASE UNCHANGED vars
  BY <1>10, QuietHolds DEF vars, IInv, TypeOK
<1> QED
  BY <1>1, <1>2, <1>3, <1>4, <1>5, <1>6, <1>7, <1>8, <1>9, <1>10 DEF Next

\* The inductive invariant holds in every reachable state
THEOREM InvariantHolds == Spec => []IInv
BY InitHolds, StepHolds, PTL DEF Spec

\* Types; in particular no count is ever negative, which is what the
\* assert(count >= 0) of hymn_dereference_string demands
THEOREM TypeCorrect == Spec => []TypeOK
<1>1. IInv => TypeOK
  BY DEF IInv
<1> QED
  BY <1>1, InvariantHolds, PTL

\* Interning is canonical: the address of a string is its identity
THEOREM InterningCanonical == Spec => []Canonical
<1>1. IInv => Canonical
  BY DEF IInv
<1> QED
  BY <1>1, InvariantHolds, PTL

\* No owning place ever points to a freed string
THEOREM NoDanglingSlot == Spec => []SlotsAlive
<1>1. IInv => SlotsAlive
  BY DEF IInv
<1> QED
  BY <1>1, InvariantHolds, PTL

\* The count of a string is exactly its owners, plus at most the compiler
THEOREM CountsExact == Spec => []CountExact
<1>1. IInv => CountExact
  BY DEF IInv
<1> QED
  BY <1>1, InvariantHolds, PTL

\* hymn_delete leaves no string behind
THEOREM DeleteLeavesNothing == Spec => []DeletedEmpty
<1>1. IInv => DeletedEmpty
  BY DEF IInv
<1> QED
  BY <1>1, InvariantHolds, PTL

\* Literals of a script compiled before it runs never dangle
THEOREM LiteralsNeverDangle == Spec => []LiteralsAliveOnce
<1>1. IInv => LiteralsAliveOnce
  BY DEF IInv, LiteralReferences, LiteralsAliveOnce
<1> QED
  BY <1>1, InvariantHolds, PTL
=============================================================================
