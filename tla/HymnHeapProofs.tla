--------------------------- MODULE HymnHeapProofs ---------------------------
(***************************************************************************)
(* The safety properties of HymnHeap, for any number of objects, literals, *)
(* references and forgotten references.                                    *)
(*                                                                         *)
(* A count is right because every instruction changes the places that own  *)
(* an object and its count by the same number, less what it says it        *)
(* forgets (CountExact).  An object is there exactly as long as its count  *)
(* is positive (AliveCounted), so one that is owned and gone has been      *)
(* forgotten.  What is left are the values an instruction has stored and   *)
(* not yet referenced: LateHeld says what keeps each of them alive.        *)
(***************************************************************************)
EXTENDS HymnHeap, TLAPS, FiniteSetTheorems

Homes == Objects \cup {"stack", "pending", "free"}

SlotRecord == [home : Homes, key : Objects \cup {NULL}, value : Objects \cup {NULL}]

\* slot is a function to records
SlotRecords == slot \in [Slots -> SlotRecord]

\* hymn_dereference frees what it counts down to zero, and nothing else is freed
AliveCounted == \A o \in Objects : kind[o] # "free" <=> count[o] >= 1

\* the address of a literal is not used for anything else
LiteralKinds == \A o \in Literals : kind[o] \in {"string", "free"}

\* ItemsPlaced, item by item
ItemsApart ==
  ~deleted => \A s \in Slots, h \in Objects :
    slot[s].home = h =>
      \/ kind[h] = "array" /\ slot[s].key = NULL
      \/ /\ kind[h] = "table" /\ slot[s].key # NULL
         /\ kind[slot[s].key] = "string" \/ drift[slot[s].key] < 0
         /\ \A r \in Slots : slot[r].home = h /\ slot[r].key = slot[s].key => r = s

\* a container was let go of by the assignment that stored to it, or forgotten
Lost == \E o \in Objects : kind[o] = "free" /\ (o = into \/ drift[o] < 0)

\* slot r owns o, and the running instruction does not release it: it is on the
\* stack, or in a container that is on the stack or is assigned to
HeldBy(r, o) ==
  /\ slot[r].key = o \/ (slot[r].value = o /\ r \notin late)
  /\ \/ slot[r].home = "stack"
     \/ /\ slot[r].home \in Objects
        /\ slot[r].home = into \/ \E q \in Stack \ late : slot[q].value = slot[r].home

\* What the running instruction has yet to reference is held by something else
LateHeld ==
  /\ late = {} => into = NULL
  /\ into # NULL => \A s, r \in late : s = r
  /\ \A s \in late : Lost \/ \E r \in Slots : HeldBy(r, slot[s].value)

\* hymn_delete runs when nothing else does
DeletedQuiet == deleted => Home("pending") = {} /\ late = {}

IInv ==
  /\ TypeOK
  /\ SlotRecords
  /\ CountExact
  /\ AliveCounted
  /\ LiteralKinds
  /\ ItemsApart
  /\ LateHeld
  /\ DeletedQuiet
  /\ StringsReleasedBalanced

-----------------------------------------------------------------------------
(* Counting owners *)

One(p) == IF p THEN 1 ELSE 0

\* Two sets of slots that agree outside of one slot
LEMMA CountOne ==
  ASSUME NEW A \in SUBSET Slots, NEW B \in SUBSET Slots, NEW a,
         A \ {a} = B \ {a}
  PROVE  /\ Cardinality(A) \in Nat /\ Cardinality(B) \in Nat
         /\ Cardinality(B) = Cardinality(A) - One(a \in A) + One(a \in B)
<1>1. IsFiniteSet(A) /\ IsFiniteSet(B)
  BY HeapAssumption, FS_Subset DEF HeapAssumption
<1>2. Cardinality(A) \in Nat /\ Cardinality(B) \in Nat
  BY <1>1, FS_CardinalityType
<1>3. ASSUME NEW S, IsFiniteSet(S), Cardinality(S) \in Nat
      PROVE  Cardinality(S \ {a}) = Cardinality(S) - One(a \in S)
  BY <1>3, FS_RemoveElement DEF One
<1>4. /\ Cardinality(A \ {a}) = Cardinality(A) - One(a \in A)
      /\ Cardinality(B \ {a}) = Cardinality(B) - One(a \in B)
  BY <1>1, <1>2, <1>3
<1> QED
  BY <1>2, <1>4 DEF One

\* ... of two slots
LEMMA CountTwo ==
  ASSUME NEW A \in SUBSET Slots, NEW B \in SUBSET Slots, NEW a \in Slots, NEW b \in Slots,
         a # b, A \ {a, b} = B \ {a, b}
  PROVE  /\ Cardinality(A) \in Nat /\ Cardinality(B) \in Nat
         /\ Cardinality(B) = Cardinality(A) - One(a \in A) - One(b \in A)
                                            + One(a \in B) + One(b \in B)
<1> DEFINE C == (B \ {b}) \cup (A \cap {b})
<1>1. C \in SUBSET Slots /\ A \ {a} = C \ {a} /\ C \ {b} = B \ {b}
  OBVIOUS
<1>2. (a \in C <=> a \in B) /\ (b \in C <=> b \in A)
  OBVIOUS
<1> HIDE DEF C
<1>3. /\ Cardinality(A) \in Nat /\ Cardinality(B) \in Nat /\ Cardinality(C) \in Nat
      /\ Cardinality(C) = Cardinality(A) - One(a \in A) + One(a \in C)
      /\ Cardinality(B) = Cardinality(C) - One(b \in C) + One(b \in B)
  BY <1>1, CountOne
<1> QED
  BY <1>2, <1>3 DEF One

\* ... of three slots
LEMMA CountThree ==
  ASSUME NEW A \in SUBSET Slots, NEW B \in SUBSET Slots,
         NEW a \in Slots, NEW b \in Slots, NEW c \in Slots,
         a # b, a # c, b # c, A \ {a, b, c} = B \ {a, b, c}
  PROVE  /\ Cardinality(A) \in Nat /\ Cardinality(B) \in Nat
         /\ Cardinality(B) = Cardinality(A) - One(a \in A) - One(b \in A) - One(c \in A)
                                            + One(a \in B) + One(b \in B) + One(c \in B)
<1> DEFINE C == (B \ {c}) \cup (A \cap {c})
<1>1. C \in SUBSET Slots /\ A \ {a, b} = C \ {a, b} /\ C \ {c} = B \ {c}
  OBVIOUS
<1>2. (a \in C <=> a \in B) /\ (b \in C <=> b \in B) /\ (c \in C <=> c \in A)
  OBVIOUS
<1> HIDE DEF C
<1>3. /\ Cardinality(A) \in Nat /\ Cardinality(C) \in Nat
      /\ Cardinality(C) = Cardinality(A) - One(a \in A) - One(b \in A) + One(a \in C) + One(b \in C)
  BY <1>1, CountTwo
<1>4. /\ Cardinality(B) \in Nat
      /\ Cardinality(B) = Cardinality(C) - One(c \in C) + One(c \in B)
  BY <1>1, CountOne
<1> QED
  BY <1>2, <1>3, <1>4 DEF One

\* Every set of slots has a size
LEMMA CountType ==
  ASSUME NEW A \in SUBSET Slots
  PROVE  /\ IsFiniteSet(A) /\ Cardinality(A) \in Nat
         /\ Cardinality(Slots) \in Nat /\ Cardinality(A) <= Cardinality(Slots)
<1>1. IsFiniteSet(Slots)
  BY HeapAssumption DEF HeapAssumption
<1> QED
  BY <1>1, FS_Subset, FS_CardinalityType

\* what slot s adds to the owners of o
Weight(s, o) == One(s \notin late /\ slot[s].value = o) + One(slot[s].key = o)

\* a step that leaves the weight of slot s alone
Keeps(s) ==
  /\ s \in late' <=> s \in late
  /\ slot'[s].value = slot[s].value
  /\ slot'[s].key = slot[s].key

\* Owners are counted with natural numbers
LEMMA OwnersType ==
  ASSUME NEW o
  PROVE  /\ Cardinality(Values(o)) \in Nat /\ Cardinality(Keys(o)) \in Nat
         /\ Cardinality(Values(o)) <= Cardinality(Slots)
         /\ Cardinality(Keys(o)) <= Cardinality(Slots)
         /\ Cardinality(Slots) \in Nat
         /\ Compiler(o) \in {0, 1}
         /\ Owners(o) \in Nat
<1>1. Values(o) \in SUBSET Slots /\ Keys(o) \in SUBSET Slots
  BY DEF Values, Keys
<1>2. /\ Cardinality(Values(o)) \in Nat /\ Cardinality(Keys(o)) \in Nat
      /\ Cardinality(Values(o)) <= Cardinality(Slots)
      /\ Cardinality(Keys(o)) <= Cardinality(Slots)
      /\ Cardinality(Slots) \in Nat
  BY <1>1, CountType
<1>3. Compiler(o) \in {0, 1}
  BY DEF Compiler
<1> QED
  BY <1>2, <1>3 DEF Owners

\* A step that moves references, and neither makes nor drops one
LEMMA OwnersKept ==
  ASSUME \A s \in Slots : Keeps(s), deleted' = deleted, NEW o
  PROVE  Owners(o)' = Owners(o)
<1>1. Values(o)' = Values(o) /\ Keys(o)' = Keys(o)
  BY DEF Keeps, Values, Keys
<1> QED
  BY <1>1 DEF Owners, Compiler

\* A step that changes the weight of one slot
LEMMA OwnersOne ==
  ASSUME NEW a \in Slots,
         \A s \in Slots \ {a} : Keeps(s), deleted' = deleted, NEW o
  PROVE  Owners(o)' = Owners(o) - Weight(a, o)
                                + Weight(a, o)'
<1>1. /\ Values(o) \in SUBSET Slots /\ Values(o)' \in SUBSET Slots
      /\ Values(o) \ {a} = Values(o)' \ {a}
      /\ Keys(o) \in SUBSET Slots /\ Keys(o)' \in SUBSET Slots
      /\ Keys(o) \ {a} = Keys(o)' \ {a}
  BY DEF Keeps, Values, Keys
<1>2. /\ Cardinality(Values(o)) \in Nat /\ Cardinality(Values(o)') \in Nat
      /\ Cardinality(Values(o)') =
           Cardinality(Values(o)) - One(a \in Values(o))
                              + One(a \in Values(o)')
  BY <1>1, CountOne
<1>3. /\ Cardinality(Keys(o)) \in Nat /\ Cardinality(Keys(o)') \in Nat
      /\ Cardinality(Keys(o)') =
           Cardinality(Keys(o)) - One(a \in Keys(o))
                              + One(a \in Keys(o)')
  BY <1>1, CountOne
<1>4. \A s \in Slots :
        /\ Weight(s, o) = One(s \in Values(o)) + One(s \in Keys(o))
        /\ Weight(s, o)' = One(s \in Values(o)') + One(s \in Keys(o)')
  BY DEF Weight, Values, Keys, One
<1>5. Compiler(o)' = Compiler(o) /\ Compiler(o) \in {0, 1}
  BY DEF Compiler
<1> QED
  BY <1>2, <1>3, <1>4, <1>5 DEF Owners, One

\* ... of two slots
LEMMA OwnersTwo ==
  ASSUME NEW a \in Slots, NEW b \in Slots, a # b,
         \A s \in Slots \ {a, b} : Keeps(s), deleted' = deleted, NEW o
  PROVE  Owners(o)' = Owners(o) - Weight(a, o) - Weight(b, o)
                                + Weight(a, o)' + Weight(b, o)'
<1>1. /\ Values(o) \in SUBSET Slots /\ Values(o)' \in SUBSET Slots
      /\ Values(o) \ {a, b} = Values(o)' \ {a, b}
      /\ Keys(o) \in SUBSET Slots /\ Keys(o)' \in SUBSET Slots
      /\ Keys(o) \ {a, b} = Keys(o)' \ {a, b}
  BY DEF Keeps, Values, Keys
<1>2. /\ Cardinality(Values(o)) \in Nat /\ Cardinality(Values(o)') \in Nat
      /\ Cardinality(Values(o)') =
           Cardinality(Values(o)) - One(a \in Values(o)) - One(b \in Values(o))
                              + One(a \in Values(o)') + One(b \in Values(o)')
  BY <1>1, CountTwo
<1>3. /\ Cardinality(Keys(o)) \in Nat /\ Cardinality(Keys(o)') \in Nat
      /\ Cardinality(Keys(o)') =
           Cardinality(Keys(o)) - One(a \in Keys(o)) - One(b \in Keys(o))
                              + One(a \in Keys(o)') + One(b \in Keys(o)')
  BY <1>1, CountTwo
<1>4. \A s \in Slots :
        /\ Weight(s, o) = One(s \in Values(o)) + One(s \in Keys(o))
        /\ Weight(s, o)' = One(s \in Values(o)') + One(s \in Keys(o)')
  BY DEF Weight, Values, Keys, One
<1>5. Compiler(o)' = Compiler(o) /\ Compiler(o) \in {0, 1}
  BY DEF Compiler
<1> QED
  BY <1>2, <1>3, <1>4, <1>5 DEF Owners, One

\* ... of three slots
LEMMA OwnersThree ==
  ASSUME NEW a \in Slots, NEW b \in Slots, NEW c \in Slots, a # b, a # c, b # c,
         \A s \in Slots \ {a, b, c} : Keeps(s), deleted' = deleted, NEW o
  PROVE  Owners(o)' = Owners(o) - Weight(a, o) - Weight(b, o) - Weight(c, o)
                                + Weight(a, o)' + Weight(b, o)' + Weight(c, o)'
<1>1. /\ Values(o) \in SUBSET Slots /\ Values(o)' \in SUBSET Slots
      /\ Values(o) \ {a, b, c} = Values(o)' \ {a, b, c}
      /\ Keys(o) \in SUBSET Slots /\ Keys(o)' \in SUBSET Slots
      /\ Keys(o) \ {a, b, c} = Keys(o)' \ {a, b, c}
  BY DEF Keeps, Values, Keys
<1>2. /\ Cardinality(Values(o)) \in Nat /\ Cardinality(Values(o)') \in Nat
      /\ Cardinality(Values(o)') =
           Cardinality(Values(o)) - One(a \in Values(o)) - One(b \in Values(o)) - One(c \in Values(o))
                              + One(a \in Values(o)') + One(b \in Values(o)') + One(c \in Values(o)')
  BY <1>1, CountThree
<1>3. /\ Cardinality(Keys(o)) \in Nat /\ Cardinality(Keys(o)') \in Nat
      /\ Cardinality(Keys(o)') =
           Cardinality(Keys(o)) - One(a \in Keys(o)) - One(b \in Keys(o)) - One(c \in Keys(o))
                              + One(a \in Keys(o)') + One(b \in Keys(o)') + One(c \in Keys(o)')
  BY <1>1, CountThree
<1>4. \A s \in Slots :
        /\ Weight(s, o) = One(s \in Values(o)) + One(s \in Keys(o))
        /\ Weight(s, o)' = One(s \in Values(o)') + One(s \in Keys(o)')
  BY DEF Weight, Values, Keys, One
<1>5. Compiler(o)' = Compiler(o) /\ Compiler(o) \in {0, 1}
  BY DEF Compiler
<1>6. \A s \in Slots :
        /\ One(s \in Values(o)) \in Int /\ One(s \in Values(o)') \in Int
        /\ One(s \in Keys(o)) \in Int /\ One(s \in Keys(o)') \in Int
  BY DEF One
<1>7. /\ Weight(a, o) = One(a \in Values(o)) + One(a \in Keys(o))
      /\ Weight(b, o) = One(b \in Values(o)) + One(b \in Keys(o))
      /\ Weight(c, o) = One(c \in Values(o)) + One(c \in Keys(o))
      /\ Weight(a, o)' = One(a \in Values(o)') + One(a \in Keys(o)')
      /\ Weight(b, o)' = One(b \in Values(o)') + One(b \in Keys(o)')
      /\ Weight(c, o)' = One(c \in Values(o)') + One(c \in Keys(o)')
  BY <1>4
<1>8. Owners(o)' = Cardinality(Values(o)') + Cardinality(Keys(o)') + Compiler(o)'
  BY DEF Owners
<1> HIDE DEF One
<1> QED
  BY <1>2, <1>3, <1>5, <1>6, <1>7, <1>8 DEF Owners

\* A place that owns an object is counted
LEMMA OwnersSome ==
  ASSUME NEW r \in Slots, NEW o, slot[r].key = o \/ (slot[r].value = o /\ r \notin late)
  PROVE  Owners(o) >= 1
<1>1. r \in Keys(o) \/ r \in Values(o)
  BY DEF Keys, Values
<1>2. IsFiniteSet(Keys(o)) /\ IsFiniteSet(Values(o))
  BY HeapAssumption, FS_Subset DEF HeapAssumption, Keys, Values
<1>3. Cardinality(Keys(o)) # 0 \/ Cardinality(Values(o)) # 0
  BY <1>1, <1>2, FS_EmptySet
<1> QED
  BY <1>3, OwnersType DEF Owners

\* An object that is owned and gone has been forgotten
LEMMA OwnedOrForgotten ==
  ASSUME CountExact, AliveCounted, TypeOK, ~deleted,
         NEW r \in Slots, NEW o \in Objects,
         slot[r].key = o \/ (slot[r].value = o /\ r \notin late)
  PROVE  kind[o] # "free" \/ drift[o] < 0
<1>1. Owners(o) \in Nat /\ Owners(o) >= 1
  BY OwnersSome, OwnersType
<1>2. count[o] = Owners(o) + drift[o] /\ drift[o] \in Int
  BY DEF CountExact, TypeOK
<1> QED
  BY <1>1, <1>2 DEF AliveCounted

-----------------------------------------------------------------------------
(* What the instructions have in common *)

\* the last instruction is complete
Idle == ~deleted /\ Home("pending") = {} /\ late = {}

\* the slots of TypeOK
SlotsTyped ==
  /\ SlotRecords
  /\ \A s \in Slots :
       \/ slot[s] = Empty
       \/ /\ slot[s].home \in Objects \cup {"stack", "pending"}
          /\ slot[s].value \in Objects
          /\ slot[s].home = "stack" => slot[s].key = NULL
  /\ late \subseteq Stack

\* an instruction allocates an object or references one that is there
Grows(o) ==
  \/ kind'[o] = kind[o] /\ count'[o] = count[o]
  \/ kind'[o] = kind[o] /\ kind[o] # "free" /\ count'[o] \in Int /\ count'[o] > count[o]
  \/ /\ kind[o] = "free" /\ kind'[o] \in {"array", "table", "string"} /\ count'[o] = 1
     /\ o \in Literals => kind'[o] = "string"

\* kinds, counts and drifts are those of the objects
Shaped ==
  /\ kind' = [o \in Objects |-> kind'[o]]
  /\ count' = [o \in Objects |-> count'[o]]
  /\ drift' = [o \in Objects |-> drift'[o]]

\* an instruction forgets references, and gives back too few only of a string
Drifts(o) == drift'[o] \in -MaxDrift..MaxDrift /\ (drift'[o] <= drift[o] \/ kind[o] = "string")

\* The types of the slots are those of the invariant
LEMMA TypedSlots ==
  ASSUME IInv
  PROVE  SlotsTyped
BY DEF IInv, TypeOK, SlotsTyped

\* Counts and drifts are integers
LEMMA Integral ==
  ASSUME IInv
  PROVE  /\ kind \in [Objects -> {"array", "table", "string", "free"}]
         /\ count \in [Objects -> Int] /\ drift \in [Objects -> Int]
         /\ deleted \in BOOLEAN /\ into \in Objects \cup {NULL}
<1>1. MaxDrift \in Nat /\ Cardinality(Slots) \in Nat
  BY HeapAssumption, CountType DEF HeapAssumption
<1>2. /\ -MaxDrift..(2 * Cardinality(Slots) + MaxDrift + 1) \subseteq Int
      /\ -MaxDrift..MaxDrift \subseteq Int
  BY <1>1
<1> QED
  BY <1>2 DEF IInv, TypeOK

\* An exact count is within its bounds
LEMMA CountBound ==
  ASSUME CountExact', ~deleted', drift' \in [Objects -> -MaxDrift..MaxDrift], NEW o \in Objects
  PROVE  count'[o] \in -MaxDrift..(2 * Cardinality(Slots) + MaxDrift + 1)
<1>1. count'[o] = Cardinality(Values(o)') + Cardinality(Keys(o)') + Compiler(o)' + drift'[o]
  BY DEF CountExact, Owners
<1>2. drift'[o] \in -MaxDrift..MaxDrift /\ MaxDrift \in Nat
  BY HeapAssumption DEF HeapAssumption
<1>3. Values(o)' \in SUBSET Slots /\ Keys(o)' \in SUBSET Slots
  BY DEF Values, Keys
<1>4. /\ Cardinality(Values(o)') \in Nat /\ Cardinality(Keys(o)') \in Nat
      /\ Cardinality(Values(o)') <= Cardinality(Slots)
      /\ Cardinality(Keys(o)') <= Cardinality(Slots)
      /\ Cardinality(Slots) \in Nat
  BY <1>3, CountType
<1>5. Compiler(o)' \in {0, 1}
  BY DEF Compiler
<1> QED
  BY <1>1, <1>2, <1>4, <1>5

\* An instruction that grows counts, keeps them exact and keeps items in their
\* places preserves the invariant
LEMMA InstructionHolds ==
  ASSUME IInv, Idle, SlotsTyped', CountExact', ItemsApart', LateHeld',
         Shaped,
         \A o \in Objects : Grows(o) /\ Drifts(o),
         into' \in Objects \cup {NULL},
         deleted' = deleted
  PROVE  IInv'
<1>1. ~deleted /\ ~deleted'
  BY DEF Idle
<1>2. drift' \in [Objects -> -MaxDrift..MaxDrift]
  BY DEF Drifts, Shaped
<1>3. \A o \in Objects : count'[o] \in -MaxDrift..(2 * Cardinality(Slots) + MaxDrift + 1)
  BY <1>1, <1>2, CountBound
<1>4. kind' \in [Objects -> {"array", "table", "string", "free"}]
  BY DEF Grows, Shaped, IInv, TypeOK
<1>5. TypeOK' /\ SlotRecords'
  <2>1. DOMAIN slot' = Slots /\ \A s \in Slots : slot'[s].key \in Objects \cup {NULL}
    BY DEF SlotsTyped, SlotRecords, SlotRecord
  <2>2. count' \in [Objects -> -MaxDrift..(2 * Cardinality(Slots) + MaxDrift + 1)]
    BY <1>3 DEF Shaped
  <2>3. deleted' \in BOOLEAN
    BY DEF IInv, TypeOK
  <2> QED
    BY <1>2, <1>4, <2>1, <2>2, <2>3 DEF TypeOK, SlotsTyped
<1>6. AliveCounted'
  BY DEF Grows, AliveCounted, IInv, TypeOK
<1>7. LiteralKinds'
  BY HeapAssumption DEF Grows, LiteralKinds, IInv, HeapAssumption
<1> QED
  BY <1>1, <1>5, <1>6, <1>7 DEF IInv, DeletedQuiet, StringsReleasedBalanced

\* An item of a container is in its place after the step
Placed(s, h) ==
  /\ kind'[h] = "table" /\ slot'[s].key # NULL
  /\ kind'[slot'[s].key] = "string" \/ drift'[slot'[s].key] < 0
  /\ \A r \in Slots : slot'[r].home = h /\ slot'[r].key = slot'[s].key => r = s

\* What is in a container stays in its place, or joins the items of an array, or
\* the entries of a table with a key of its own
LEMMA ItemsKept ==
  ASSUME IInv, Idle, SlotsTyped', deleted' = deleted,
         \A o \in Objects : Grows(o) /\ Drifts(o),
         \A s \in Slots, h \in Objects : slot'[s].home = h =>
           \/ slot'[s].home = slot[s].home /\ slot'[s].key = slot[s].key
           \/ kind'[h] = "array" /\ slot'[s].key = NULL
           \/ Placed(s, h)
  PROVE  ItemsApart'
<1> SUFFICES ASSUME NEW s \in Slots, NEW h \in Objects, slot'[s].home = h
             PROVE  (kind'[h] = "array" /\ slot'[s].key = NULL) \/ Placed(s, h)
  BY DEF ItemsApart, Placed
<1>1. CASE slot'[s].home = slot[s].home /\ slot'[s].key = slot[s].key /\ kind[h] = "table"
  <2>1. PICK k \in Objects :
          /\ k = slot[s].key /\ k # NULL
          /\ kind[k] = "string" \/ drift[k] < 0
          /\ \A r \in Slots : slot[r].home = h /\ slot[r].key = k => r = s
    BY <1>1 DEF IInv, Idle, ItemsApart, SlotRecords, SlotRecord
  <2>2. kind'[h] = "table"
    BY <1>1 DEF Grows
  <2>3. kind'[k] = "string" \/ drift'[k] < 0
    BY <2>1 DEF Grows, Drifts, IInv, TypeOK
  <2>4. ASSUME NEW r \in Slots, slot'[r].home = h, slot'[r].key = k PROVE r = s
    <3>1. CASE Placed(r, h)
      BY <1>1, <2>1, <2>4, <3>1 DEF Placed
    <3>2. CASE ~Placed(r, h)
      BY <2>1, <2>2, <2>4, <3>2
    <3> QED
      BY <3>1, <3>2
  <2> QED
    BY <1>1, <2>1, <2>2, <2>3, <2>4 DEF Placed
<1>2. CASE slot'[s].home = slot[s].home /\ slot'[s].key = slot[s].key /\ kind[h] # "table"
  <2>1. kind[h] = "array" /\ slot[s].key = NULL
    BY <1>2 DEF IInv, Idle, ItemsApart
  <2> QED
    BY <1>2, <2>1 DEF Grows
<1> QED
  BY <1>1, <1>2

\* Nothing is waiting to be referenced after an instruction that leaves it so
LEMMA LateNone ==
  ASSUME IInv, Idle, UNCHANGED <<late, into>>
  PROVE  LateHeld'
BY DEF IInv, Idle, LateHeld

\* What the count of an object p gains beyond its drift
Gained(p) == count'[p] - drift'[p] - (count[p] - drift[p])

\* Counts stay exact when they gain what the slots of an object gain: when the
\* references only move,
LEMMA ExactMoves ==
  ASSUME IInv, Idle, deleted' = deleted, \A p \in Objects : count'[p] = count[p] /\ drift'[p] = drift[p],
         \A s \in Slots : Keeps(s)
  PROVE  CountExact'
BY OwnersKept DEF IInv, Idle, CountExact

\* when one slot changes,
LEMMA ExactOne ==
  ASSUME IInv, Idle, deleted' = deleted, NEW a \in Slots, \A s \in Slots \ {a} : Keeps(s),
         \A p \in Objects :
           /\ count'[p] \in Int /\ drift'[p] \in Int
           /\ Gained(p) = Weight(a, p)' - Weight(a, p)
  PROVE  CountExact'
<1> SUFFICES ASSUME NEW p \in Objects PROVE count'[p] = Owners(p)' + drift'[p]
  BY DEF CountExact
<1>1. Owners(p)' = Owners(p) - Weight(a, p) + Weight(a, p)'
  BY OwnersOne
<1>2. Owners(p) \in Nat /\ count[p] = Owners(p) + drift[p] /\ drift[p] \in Int
  BY OwnersType DEF IInv, CountExact, Idle, TypeOK
<1>3. Weight(a, p) \in Int /\ Weight(a, p)' \in Int
  BY DEF Weight, One
<1>4. /\ count'[p] \in Int /\ drift'[p] \in Int
      /\ Gained(p) = Weight(a, p)' - Weight(a, p)
  OBVIOUS
<1> QED
  BY <1>1, <1>2, <1>3, <1>4 DEF Gained

\* two slots,
LEMMA ExactTwo ==
  ASSUME IInv, Idle, deleted' = deleted, NEW a \in Slots, NEW b \in Slots, a # b,
         \A s \in Slots \ {a, b} : Keeps(s),
         \A p \in Objects :
           /\ count'[p] \in Int /\ drift'[p] \in Int
           /\ Gained(p) = Weight(a, p)' - Weight(a, p) + Weight(b, p)' - Weight(b, p)
  PROVE  CountExact'
<1> SUFFICES ASSUME NEW p \in Objects PROVE count'[p] = Owners(p)' + drift'[p]
  BY DEF CountExact
<1>1. Owners(p)' = Owners(p) - Weight(a, p) - Weight(b, p) + Weight(a, p)' + Weight(b, p)'
  BY OwnersTwo
<1>2. Owners(p) \in Nat /\ count[p] = Owners(p) + drift[p] /\ drift[p] \in Int
  BY OwnersType DEF IInv, CountExact, Idle, TypeOK
<1>3. /\ Weight(a, p) \in Int /\ Weight(a, p)' \in Int
      /\ Weight(b, p) \in Int /\ Weight(b, p)' \in Int
  BY DEF Weight, One
<1>4. /\ count'[p] \in Int /\ drift'[p] \in Int
      /\ Gained(p) = Weight(a, p)' - Weight(a, p) + Weight(b, p)' - Weight(b, p)
  OBVIOUS
<1> QED
  BY <1>1, <1>2, <1>3, <1>4 DEF Gained

\* or three
LEMMA ExactThree ==
  ASSUME IInv, Idle, deleted' = deleted, NEW a \in Slots, NEW b \in Slots, NEW c \in Slots,
         a # b, a # c, b # c, \A s \in Slots \ {a, b, c} : Keeps(s),
         \A p \in Objects :
           /\ count'[p] \in Int /\ drift'[p] \in Int
           /\ Gained(p) = Weight(a, p)' - Weight(a, p) + Weight(b, p)' - Weight(b, p)
                                                    + Weight(c, p)' - Weight(c, p)
  PROVE  CountExact'
<1> SUFFICES ASSUME NEW p \in Objects PROVE count'[p] = Owners(p)' + drift'[p]
  BY DEF CountExact
<1>1. Owners(p)' = Owners(p) - Weight(a, p) - Weight(b, p) - Weight(c, p)
                             + Weight(a, p)' + Weight(b, p)' + Weight(c, p)'
  BY OwnersThree
<1>2. Owners(p) \in Nat /\ count[p] = Owners(p) + drift[p] /\ drift[p] \in Int
  BY OwnersType DEF IInv, CountExact, Idle, TypeOK
<1>3. /\ Weight(a, p) \in Int /\ Weight(a, p)' \in Int
      /\ Weight(b, p) \in Int /\ Weight(b, p)' \in Int
      /\ Weight(c, p) \in Int /\ Weight(c, p)' \in Int
  BY DEF Weight, One
<1>4. /\ count'[p] \in Int /\ drift'[p] \in Int
      /\ Gained(p) = Weight(a, p)' - Weight(a, p) + Weight(b, p)' - Weight(b, p)
                                               + Weight(c, p)' - Weight(c, p)
  OBVIOUS
<1> QED
  BY <1>1, <1>2, <1>3, <1>4 DEF Gained

\* an object gains a reference: its first, or one more
Gains(o) ==
  /\ kind' = [kind EXCEPT ![o] = kind'[o]]
  /\ count' = [count EXCEPT ![o] = @ + 1]
  /\ kind[o] # "free" => kind'[o] = kind[o]
  /\ kind'[o] \in {"array", "table", "string"}
  /\ o \in Literals /\ kind[o] = "free" => kind'[o] = "string"

\* An object that gains a reference grows and no other changes
LEMMA GainsGrows ==
  ASSUME IInv, CountsNeverNegative, NEW o \in Objects, Gains(o)
  PROVE  /\ \A p \in Objects : Grows(p) /\ count'[p] = count[p] + One(p = o)
         /\ kind' = [p \in Objects |-> kind'[p]]
         /\ count' = [p \in Objects |-> count'[p]]
<1>1. kind[o] = "free" => count[o] = 0
  BY DEF IInv, TypeOK, AliveCounted, CountsNeverNegative
<1>2. /\ kind' = [p \in Objects |-> kind'[p]] /\ count' = [p \in Objects |-> count'[p]]
      /\ \A p \in Objects \ {o} : kind'[p] = kind[p] /\ count'[p] = count[p]
      /\ count'[o] = count[o] + 1
      /\ \A p \in Objects : count[p] \in Int
  BY Integral DEF Gains
<1>3. Grows(o)
  BY <1>1, <1>2 DEF Gains, Grows
<1>4. \A p \in Objects \ {o} : Grows(p)
  BY <1>2 DEF Grows
<1> QED
  BY <1>2, <1>3, <1>4 DEF One

\* A new object gains its first reference
LEMMA AllocatesGains ==
  ASSUME IInv, CountsNeverNegative, NEW o \in Objects, NEW k \in {"array", "table", "string"},
         Allocates(o, k), o \in Literals => k = "string"
  PROVE  Gains(o)
<1>1. count[o] = 0
  BY DEF Allocates, IInv, TypeOK, AliveCounted, CountsNeverNegative
<1> QED
  BY <1>1 DEF Allocates, Gains, IInv, TypeOK

\* A reference to an object that is there
LEMMA ReferencedGains ==
  ASSUME IInv, NEW o \in Objects, kind[o] # "free", Referenced(o), UNCHANGED kind
  PROVE  Gains(o)
BY DEF Referenced, Gains, IInv, TypeOK

\* A string that is found or made
LEMMA InternsGains ==
  ASSUME IInv, CountsNeverNegative, NEW o \in Objects, Interns(o)
  PROVE  Gains(o)
BY AllocatesGains, ReferencedGains DEF Interns

-----------------------------------------------------------------------------
(* The instructions *)

\* The machine starts without objects
LEMMA InitHolds == Init => IInv
<1> SUFFICES ASSUME Init PROVE IInv
  OBVIOUS
<1>1. TypeOK /\ SlotRecords
  <2>1. Cardinality(Slots) \in Nat /\ MaxDrift \in Nat
    BY CountType, HeapAssumption DEF HeapAssumption
  <2>2. count \in [Objects -> -MaxDrift..(2 * Cardinality(Slots) + MaxDrift + 1)]
    <3>1. 0 \in -MaxDrift..(2 * Cardinality(Slots) + MaxDrift + 1)
          /\ 1 \in -MaxDrift..(2 * Cardinality(Slots) + MaxDrift + 1)
      BY <2>1
    <3> QED
      BY <3>1 DEF Init
  <2>3. drift \in [Objects -> -MaxDrift..MaxDrift]
    BY <2>1 DEF Init
  <2>4. SlotRecords /\ DOMAIN slot = Slots /\ \A s \in Slots : slot[s] = Empty
    BY DEF Init, SlotRecords, SlotRecord, Homes, Empty
  <2> QED
    BY <2>2, <2>3, <2>4 DEF Init, TypeOK
<1>2. CountExact
  <2> SUFFICES ASSUME NEW o \in Objects PROVE count[o] = Owners(o) + drift[o]
    BY DEF CountExact
  <2>1. Values(o) = {} /\ Keys(o) = {}
    BY HeapAssumption DEF Init, Values, Keys, Empty, HeapAssumption
  <2> QED
    BY <2>1, FS_EmptySet DEF Init, Owners, Compiler
<1>3. AliveCounted /\ LiteralKinds
  BY HeapAssumption DEF Init, AliveCounted, LiteralKinds, HeapAssumption
<1>4. ItemsApart
  BY HeapAssumption DEF Init, ItemsApart, Empty, HeapAssumption
<1>5. LateHeld /\ DeletedQuiet /\ StringsReleasedBalanced
  BY DEF Init, LateHeld, DeletedQuiet, StringsReleasedBalanced
<1> QED
  BY <1>1, <1>2, <1>3, <1>4, <1>5 DEF IInv


\* What an instruction does to a slot: nothing, to let go of it, to replace its
\* value, to push, or to store an item in an array
Moved(s) ==
  \/ slot'[s] = slot[s]
  \/ slot[s] # Empty /\ slot'[s] = [slot[s] EXCEPT !.home = "pending"]
  \/ slot[s] # Empty /\ \E o \in Objects : slot'[s] = [slot[s] EXCEPT !.value = o]
  \/ \E o \in Objects :
       \/ slot'[s] = OnStack(o)
       \/ slot'[s] = Pending(o)
       \/ \E k \in Objects : slot'[s] = Entry("pending", k, o)
       \/ \E a \in Objects : kind'[a] = "array" /\ slot'[s] = ItemOf(a, o)

\* ... or to add an entry to a table
Stored(s) == \E t, k, o \in Objects : slot'[s] = Entry(t, k, o)

\* The operands of an instruction are there
LEMMA Operands ==
  ASSUME IInv, Idle
  PROVE  /\ slot = [s \in Slots |-> slot[s]]
         /\ NULL \notin Objects /\ "stack" \notin Objects /\ "pending" \notin Objects
         /\ "free" \notin Objects
         /\ \A s \in Slots :
              /\ slot[s] \in SlotRecord
              /\ slot[s].home = "stack" => slot[s].key = NULL /\ slot[s].value \in Objects
              /\ slot[s].home = "free" => slot[s] = Empty
              /\ slot[s].home \in Objects => slot[s].value \in Objects
              /\ slot[s].home # "pending" /\ s \notin late
<1>1. /\ NULL \notin Objects /\ "stack" \notin Objects /\ "pending" \notin Objects
      /\ "free" \notin Objects
  BY HeapAssumption DEF HeapAssumption
<1>2. SlotsTyped
  BY TypedSlots
<1> QED
  BY <1>1, <1>2 DEF SlotsTyped, SlotRecords, Empty, Idle, Home

\* Instructions move slots of the right types to slots of the right types, and
\* leave containers in order
LEMMA MovedTyped ==
  ASSUME IInv, Idle, slot' = [s \in Slots |-> slot'[s]], \A s \in Slots : Moved(s) \/ Stored(s),
         late' \subseteq Stack'
  PROVE  /\ SlotsTyped'
         /\ \A s \in Slots, h \in Objects : Moved(s) /\ slot'[s].home = h =>
              \/ slot'[s].home = slot[s].home /\ slot'[s].key = slot[s].key
              \/ kind'[h] = "array" /\ slot'[s].key = NULL
<1>1. /\ NULL \notin Objects /\ "stack" \notin Objects /\ "pending" \notin Objects
      /\ "free" \notin Objects
  BY Operands
<1>2. SlotsTyped
  BY TypedSlots
<1>3. ASSUME NEW s \in Slots
      PROVE  /\ slot'[s] \in SlotRecord
             /\ \/ slot'[s] = Empty
                \/ /\ slot'[s].home \in Objects \cup {"stack", "pending"}
                   /\ slot'[s].value \in Objects
                   /\ slot'[s].home = "stack" => slot'[s].key = NULL
             /\ \A h \in Objects : Moved(s) /\ slot'[s].home = h =>
                  \/ slot'[s].home = slot[s].home /\ slot'[s].key = slot[s].key
                  \/ kind'[h] = "array" /\ slot'[s].key = NULL
  <2>1. slot[s] \in SlotRecord
    BY <1>2 DEF SlotsTyped, SlotRecords
  <2>2. CASE slot'[s] = slot[s]
    BY <1>2, <2>1, <2>2 DEF SlotsTyped
  <2>3. CASE slot[s] # Empty /\ slot'[s] = [slot[s] EXCEPT !.home = "pending"]
    BY <1>1, <1>2, <2>1, <2>3 DEF SlotsTyped, SlotRecord, Homes
  <2>4. CASE slot[s] # Empty /\ \E o \in Objects : slot'[s] = [slot[s] EXCEPT !.value = o]
    BY <1>1, <1>2, <2>1, <2>4 DEF SlotsTyped, SlotRecord, Homes
  <2>5. CASE \E o \in Objects : \/ slot'[s] = OnStack(o) \/ slot'[s] = Pending(o)
                                \/ \E k \in Objects : slot'[s] = Entry("pending", k, o)
    BY <1>1, <2>5 DEF SlotRecord, Homes, OnStack, Pending, Entry
  <2>6. CASE \E o, a \in Objects : kind'[a] = "array" /\ slot'[s] = ItemOf(a, o)
    BY <1>1, <2>6 DEF SlotRecord, Homes, ItemOf
  <2>7. CASE Stored(s) /\ ~Moved(s)
    BY <1>1, <2>7 DEF Stored, SlotRecord, Homes, Entry
  <2> QED
    BY <2>2, <2>3, <2>4, <2>5, <2>6, <2>7 DEF Moved
<1> QED
  BY <1>3 DEF SlotsTyped, SlotRecords

\* An instruction that moves references, and neither makes nor drops one,
\* preserves the invariant
LEMMA MoveHolds ==
  ASSUME IInv, Idle, UNCHANGED <<kind, count, late, into, drift, deleted>>,
         slot' = [s \in Slots |-> slot'[s]],
         \A s \in Slots : Moved(s) /\ slot'[s].value = slot[s].value /\ slot'[s].key = slot[s].key
  PROVE  IInv'
<1>1. late' \subseteq Stack'
  BY DEF Idle
<1>2. SlotsTyped' /\ \A s \in Slots, h \in Objects : slot'[s].home = h =>
              \/ slot'[s].home = slot[s].home /\ slot'[s].key = slot[s].key
              \/ kind'[h] = "array" /\ slot'[s].key = NULL
  BY <1>1, MovedTyped
<1>3. Shaped /\ \A p \in Objects : Grows(p) /\ Drifts(p)
  BY DEF IInv, TypeOK, Shaped, Grows, Drifts
<1>4. CountExact'
  BY ExactMoves DEF Keeps
<1>5. ItemsApart'
  BY <1>2, <1>3, ItemsKept
<1>6. into' \in Objects \cup {NULL}
  BY DEF IInv, TypeOK
<1> QED
  BY <1>2, <1>3, <1>4, <1>5, <1>6, LateNone, InstructionHolds

\* An instruction that puts a reference to o in the free slot d, and counts it,
\* preserves the invariant
LEMMA GainHolds ==
  ASSUME IInv, CountsNeverNegative, Idle, UNCHANGED <<late, into, drift, deleted>>,
         NEW o \in Objects, Gains(o), NEW d \in Free, slot'[d] = OnStack(o),
         slot' = [s \in Slots |-> slot'[s]],
         \A s \in Slots \ {d} :
           Moved(s) /\ slot'[s].value = slot[s].value /\ slot'[s].key = slot[s].key
  PROVE  IInv'
<1>1. late' \subseteq Stack' /\ d \in Slots /\ slot[d] = Empty
  BY Operands DEF Idle, Free, Home
<1>2. SlotsTyped' /\ \A s \in Slots, h \in Objects : slot'[s].home = h =>
              \/ slot'[s].home = slot[s].home /\ slot'[s].key = slot[s].key
              \/ kind'[h] = "array" /\ slot'[s].key = NULL
  <2>1. \A s \in Slots : Moved(s)
    BY DEF Moved
  <2> QED
    BY <1>1, <2>1, MovedTyped
<1>3. Shaped /\ \A p \in Objects : Grows(p) /\ Drifts(p) /\ count'[p] = count[p] + One(p = o)
  BY GainsGrows DEF Drifts, Shaped, IInv, TypeOK
<1>4. CountExact'
  <2>1. \A p \in Objects : Weight(d, p) = 0 /\ Weight(d, p)' = One(p = o)
    BY <1>1, HeapAssumption DEF Idle, Weight, One, OnStack, Empty, HeapAssumption
  <2>2. \A r \in Slots \ {d} : Keeps(r)
    BY DEF Keeps
  <2> QED
    BY <1>1, <1>3, <2>1, <2>2, ExactOne, Integral DEF Gained, One
<1>5. ItemsApart'
  BY <1>2, <1>3, ItemsKept
<1>6. into' \in Objects \cup {NULL}
  BY DEF IInv, TypeOK
<1> QED
  BY <1>2, <1>3, <1>4, <1>5, <1>6, LateNone, InstructionHolds

\* An instruction that puts a reference to o in the free slot d, and does not
\* count it, preserves the invariant
LEMMA ForgetHolds ==
  ASSUME IInv, Idle, UNCHANGED <<kind, count, late, into, deleted>>,
         NEW o \in Objects, Forgets(o, -1), NEW d \in Free,
         slot'[d].value = o, slot'[d].key = NULL,
         slot' = [s \in Slots |-> slot'[s]], \A s \in Slots : Moved(s),
         \A s \in Slots \ {d} : slot'[s].value = slot[s].value /\ slot'[s].key = slot[s].key
  PROVE  IInv'
<1>1. late' \subseteq Stack' /\ d \in Slots /\ slot[d] = Empty
  BY Operands DEF Idle, Free, Home
<1>2. SlotsTyped' /\ \A s \in Slots, h \in Objects : slot'[s].home = h =>
              \/ slot'[s].home = slot[s].home /\ slot'[s].key = slot[s].key
              \/ kind'[h] = "array" /\ slot'[s].key = NULL
  BY <1>1, MovedTyped
<1>3. /\ drift' = [drift EXCEPT ![o] = @ - 1] /\ drift[o] - 1 \in -MaxDrift..MaxDrift
      /\ drift \in [Objects -> Int] /\ drift \in [Objects -> -MaxDrift..MaxDrift]
  BY Integral DEF Forgets, IInv, TypeOK
<1>4. Shaped /\ \A p \in Objects : Grows(p) /\ Drifts(p)
  <2>1. Shaped /\ \A p \in Objects : Grows(p)
    BY <1>3 DEF IInv, TypeOK, Shaped, Grows
  <2>2. ASSUME NEW p \in Objects PROVE Drifts(p)
    <3>1. drift[p] \in Int /\ drift[p] \in -MaxDrift..MaxDrift
      BY <1>3
    <3>2. drift'[p] = IF p = o THEN drift[p] - 1 ELSE drift[p]
      BY <1>3
    <3> QED
      BY <1>3, <3>1, <3>2 DEF Drifts
  <2> QED
    BY <2>1, <2>2
<1>5. CountExact'
  <2>1. \A p \in Objects : Weight(d, p) = 0 /\ Weight(d, p)' = One(p = o)
    BY <1>1, HeapAssumption DEF Idle, Weight, One, Empty, HeapAssumption
  <2>2. \A r \in Slots \ {d} : Keeps(r)
    BY DEF Keeps
  <2>3. \A p \in Objects : Gained(p) = One(p = o) /\ count'[p] \in Int /\ drift'[p] \in Int
    BY <1>3, Integral DEF Gained, One
  <2> QED
    BY <1>1, <2>1, <2>2, <2>3, ExactOne, Integral DEF One
<1>6. ItemsApart'
  BY <1>2, <1>4, ItemsKept
<1>7. into' \in Objects \cup {NULL}
  BY DEF IInv, TypeOK
<1> QED
  BY <1>2, <1>4, <1>5, <1>6, <1>7, LateNone, InstructionHolds

\* An instruction that puts a reference to o in the free slot d, to be counted
\* when it has released what it let go of, preserves the invariant if o is held
\* until then
LEMMA LaterHolds ==
  ASSUME IInv, Idle, UNCHANGED <<kind, count, drift, deleted>>,
         NEW o \in Objects, NEW d \in Free, slot'[d] = OnStack(o), late' = {d},
         into' \in Objects \cup {NULL}, \E r \in Slots : HeldBy(r, o)',
         slot' = [s \in Slots |-> slot'[s]],
         \A s \in Slots \ {d} :
           Moved(s) /\ slot'[s].value = slot[s].value /\ slot'[s].key = slot[s].key
  PROVE  IInv'
<1>1. late' \subseteq Stack' /\ d \in Slots /\ slot[d] = Empty
  BY Operands DEF Idle, Free, Home, Stack, OnStack
<1>2. SlotsTyped' /\ \A s \in Slots, h \in Objects : slot'[s].home = h =>
              \/ slot'[s].home = slot[s].home /\ slot'[s].key = slot[s].key
              \/ kind'[h] = "array" /\ slot'[s].key = NULL
  <2>1. \A s \in Slots : Moved(s)
    BY DEF Moved
  <2> QED
    BY <1>1, <2>1, MovedTyped
<1>3. Shaped /\ \A p \in Objects : Grows(p) /\ Drifts(p)
  BY DEF IInv, TypeOK, Shaped, Grows, Drifts
<1>4. CountExact'
  <2>1. \A p \in Objects : Weight(d, p) = 0 /\ Weight(d, p)' = 0
    BY <1>1, HeapAssumption DEF Weight, One, OnStack, Empty, HeapAssumption
  <2>2. \A r \in Slots \ {d} : Keeps(r)
    BY DEF Keeps, Idle
  <2> QED
    BY <1>1, <2>1, <2>2, ExactOne, Integral DEF Gained
<1>5. ItemsApart'
  BY <1>2, <1>3, ItemsKept
<1>6. LateHeld'
  BY DEF LateHeld, OnStack
<1> QED
  BY <1>2, <1>3, <1>4, <1>5, <1>6, InstructionHolds

-----------------------------------------------------------------------------
(* The instructions *)

\* OP_NEW_ARRAY, OP_NEW_TABLE
LEMMA NewHolds ==
  ASSUME IInv, CountsNeverNegative, Idle, NEW s \in Free, NEW o \in Objects \ Literals,
         NEW k \in {"array", "table"}, New(s, o, k)
  PROVE  IInv'
<1>1. /\ slot' = [slot EXCEPT ![s] = OnStack(o)] /\ UNCHANGED <<late, into, drift, deleted>>
      /\ slot = [r \in Slots |-> slot[r]] /\ s \in Slots
  BY Operands DEF New, Free, Home
<1>2. Gains(o)
  BY AllocatesGains DEF New
<1> QED
  BY <1>1, <1>2, GainHolds DEF Moved

\* OP_CONSTANT of a string, push_string
LEMMA PushStringHolds ==
  ASSUME IInv, CountsNeverNegative, Idle, NEW s \in Free, NEW o \in Objects, PushString(s, o)
  PROVE  IInv'
<1>1. /\ slot' = [slot EXCEPT ![s] = OnStack(o)] /\ UNCHANGED <<late, into, drift, deleted>>
      /\ slot = [r \in Slots |-> slot[r]] /\ s \in Slots
  BY Operands DEF PushString, Free, Home
<1>2. Gains(o)
  BY InternsGains DEF PushString
<1> QED
  BY <1>1, <1>2, GainHolds DEF Moved

\* OP_GET_LOCAL and the like
LEMMA GetLocalHolds ==
  ASSUME IInv, CountsNeverNegative, Idle, NoDangling, NEW s \in Stack, NEW d \in Free, GetLocal(s, d)
  PROVE  IInv'
<1>1. PICK o \in Objects : o = slot[s].value
  BY Operands DEF Stack, Home
<1>2. /\ slot' = [slot EXCEPT ![d] = OnStack(o)] /\ UNCHANGED <<kind, late, into, drift, deleted>>
      /\ slot = [r \in Slots |-> slot[r]] /\ d \in Slots
      /\ kind[o] # "free" /\ Referenced(o)
  BY <1>1, Operands DEF GetLocal, Free, Stack, Home, NoDangling
<1>3. Gains(o)
  BY <1>2, ReferencedGains
<1> QED
  BY <1>2, <1>3, GainHolds DEF Moved

\* OP_GET_DYNAMIC of an array
LEMMA GetItemHolds ==
  ASSUME IInv, CountsNeverNegative, Idle, NoDangling,
         NEW a \in Stack, NEW i \in Slots, NEW d \in Free, GetItem(a, i, d)
  PROVE  IInv'
<1>1. PICK o \in Objects : o = slot[i].value
  BY Operands DEF GetItem, Container, Stack, Home
<1>2. /\ slot' = [slot EXCEPT ![d] = OnStack(o), ![a].home = "pending"]
      /\ UNCHANGED <<kind, late, into, drift, deleted>>
      /\ slot = [r \in Slots |-> slot[r]] /\ a \in Slots /\ d \in Slots /\ a # d
      /\ slot[a] # Empty
      /\ kind[o] # "free" /\ Referenced(o)
  BY <1>1, Operands DEF GetItem, Free, Stack, Home, NoDangling, Empty
<1>3. Gains(o)
  BY <1>2, ReferencedGains
<1>4. ASSUME NEW s \in Slots \ {d}
      PROVE  Moved(s) /\ slot'[s].value = slot[s].value /\ slot'[s].key = slot[s].key
  BY <1>2, Operands DEF Moved, SlotRecord
<1>5. slot'[d] = OnStack(o) /\ slot' = [s \in Slots |-> slot'[s]]
  BY <1>2
<1> QED
  BY <1>2, <1>3, <1>4, <1>5, GainHolds

\* OP_GET_PROPERTY
LEMMA GetPropertyHolds ==
  ASSUME IInv, CountsNeverNegative, Idle, NoDangling,
         NEW t \in Stack, NEW i \in Slots, NEW d \in Free, GetProperty(t, i, d)
  PROVE  IInv'
<1>1. PICK o \in Objects : o = slot[i].value
  BY Operands DEF GetProperty, Container, Stack, Home
<1>2. /\ slot' = [slot EXCEPT ![d] = OnStack(o), ![t].home = "pending"]
      /\ UNCHANGED <<kind, late, into, drift, deleted>>
      /\ slot = [r \in Slots |-> slot[r]] /\ t \in Slots /\ d \in Slots /\ t # d
      /\ slot[t] # Empty
      /\ kind[o] # "free" /\ Referenced(o)
  BY <1>1, Operands DEF GetProperty, Free, Stack, Home, NoDangling, Empty
<1>3. Gains(o)
  BY <1>2, ReferencedGains
<1>4. ASSUME NEW s \in Slots \ {d}
      PROVE  Moved(s) /\ slot'[s].value = slot[s].value /\ slot'[s].key = slot[s].key
  BY <1>2, Operands DEF Moved, SlotRecord
<1>5. slot'[d] = OnStack(o) /\ slot' = [s \in Slots |-> slot'[s]]
  BY <1>2
<1> QED
  BY <1>2, <1>3, <1>4, <1>5, GainHolds

\* OP_GET_DYNAMIC of a table
LEMMA GetEntryHolds ==
  ASSUME IInv, CountsNeverNegative, Idle, NoDangling,
         NEW t \in Stack, NEW k \in Stack, NEW i \in Slots, NEW d \in Free, GetEntry(t, k, i, d)
  PROVE  IInv'
<1>1. PICK o \in Objects : o = slot[i].value
  BY Operands DEF GetEntry, Container, Stack, Home
<1>2. /\ slot' = [slot EXCEPT ![d] = OnStack(o), ![t].home = "pending", ![k].home = "pending"]
      /\ UNCHANGED <<kind, late, into, drift, deleted>>
      /\ slot = [r \in Slots |-> slot[r]] /\ t \in Slots /\ k \in Slots /\ d \in Slots
      /\ t # d /\ k # d /\ slot[t] # Empty /\ slot[k] # Empty
      /\ kind[o] # "free" /\ Referenced(o)
  BY <1>1, Operands DEF GetEntry, Free, Stack, Home, NoDangling, Empty
<1>3. Gains(o)
  BY <1>2, ReferencedGains
<1>4. ASSUME NEW s \in Slots \ {d}
      PROVE  Moved(s) /\ slot'[s].value = slot[s].value /\ slot'[s].key = slot[s].key
  BY <1>2, Operands DEF Moved, SlotRecord
<1>5. slot'[d] = OnStack(o) /\ slot' = [s \in Slots |-> slot'[s]]
  BY <1>2
<1> QED
  BY <1>2, <1>3, <1>4, <1>5, GainHolds

\* OP_FOR over an array
LEMMA ForHolds ==
  ASSUME IInv, CountsNeverNegative, Idle, NoDangling,
         NEW a \in Stack, NEW i \in Slots, NEW d \in Free, For(a, i, d)
  PROVE  IInv'
<1>1. PICK o \in Objects : o = slot[i].value
  BY Operands DEF For, Container, Stack, Home
<1>2. /\ slot' = [slot EXCEPT ![d] = OnStack(o)] /\ UNCHANGED <<kind, late, into, drift, deleted>>
      /\ slot = [r \in Slots |-> slot[r]] /\ d \in Slots
      /\ kind[o] # "free" /\ Referenced(o)
  BY <1>1, Operands DEF For, Free, Stack, Home, NoDangling
<1>3. Gains(o)
  BY <1>2, ReferencedGains
<1> QED
  BY <1>2, <1>3, GainHolds DEF Moved

\* OP_ARRAY_PUSH, OP_INSERT
LEMMA ArrayPushHolds ==
  ASSUME IInv, Idle, NEW a \in Stack, NEW v \in Stack, ArrayPush(a, v)
  PROVE  IInv'
<1>1. PICK h \in Objects : h = slot[a].value /\ kind[h] = "array"
  BY Operands DEF ArrayPush, Container, Stack, Home
<1>2. /\ slot' = [slot EXCEPT ![v].home = h, ![a].home = "pending"]
      /\ UNCHANGED <<kind, count, late, into, drift, deleted>>
      /\ slot = [r \in Slots |-> slot[r]] /\ a \in Slots /\ v \in Slots /\ a # v
      /\ slot[a] # Empty
      /\ slot[v] \in SlotRecord /\ slot[v].key = NULL /\ slot[v].value \in Objects
  BY <1>1, Operands DEF ArrayPush, Stack, Home, Empty
<1>3. slot'[v] = ItemOf(h, slot[v].value) /\ kind'[h] = "array"
  BY <1>1, <1>2 DEF ItemOf, SlotRecord
<1>4. ASSUME NEW s \in Slots
      PROVE  Moved(s) /\ slot'[s].value = slot[s].value /\ slot'[s].key = slot[s].key
  BY <1>2, <1>3, Operands DEF Moved, SlotRecord
<1> QED
  BY <1>2, <1>4, MoveHolds

\* OP_ARRAY_POP, OP_DELETE of an array
LEMMA ArrayPopHolds ==
  ASSUME IInv, Idle, NEW a \in Stack, NEW i \in Slots, ArrayPop(a, i)
  PROVE  IInv'
<1>1. PICK h \in Objects : h = slot[a].value /\ kind[h] = "array" /\ slot[i].home = h
  BY Operands DEF ArrayPop, Container, Stack, Home
<1>2. /\ slot' = [slot EXCEPT ![i].home = "stack", ![a].home = "pending"]
      /\ UNCHANGED <<kind, count, late, into, drift, deleted>>
      /\ slot = [r \in Slots |-> slot[r]] /\ a \in Slots /\ a # i
      /\ slot[a] # Empty
      /\ slot[i] \in SlotRecord /\ slot[i].value \in Objects
  BY <1>1, Operands DEF ArrayPop, Stack, Home, Empty
<1>3. slot[i].key = NULL
  BY <1>1 DEF IInv, Idle, ItemsApart
<1>4. slot'[i] = OnStack(slot[i].value)
  BY <1>2, <1>3 DEF OnStack, SlotRecord
<1>5. ASSUME NEW s \in Slots
      PROVE  Moved(s) /\ slot'[s].value = slot[s].value /\ slot'[s].key = slot[s].key
  BY <1>2, <1>4, Operands DEF Moved, SlotRecord
<1> QED
  BY <1>2, <1>5, MoveHolds

\* OP_POP, every instruction that only takes values, and the unwinding after an
\* error
LEMMA DropHolds ==
  ASSUME IInv, NEW S \in SUBSET Stack, Drop(S)
  PROVE  IInv'
<1>1. Idle
  BY DEF Drop, Idle
<1>2. /\ slot' = [s \in Slots |-> IF s \in S THEN [slot[s] EXCEPT !.home = "pending"] ELSE slot[s]]
      /\ UNCHANGED <<kind, count, late, into, drift, deleted>>
      /\ \A s \in S : slot[s] # Empty
  BY <1>1, Operands DEF Drop, Stack, Home, Empty
<1>3. ASSUME NEW s \in Slots
      PROVE  Moved(s) /\ slot'[s].value = slot[s].value /\ slot'[s].key = slot[s].key
  BY <1>1, <1>2, Operands DEF Moved, SlotRecord
<1> QED
  BY <1>1, <1>2, <1>3, MoveHolds

\* OP_CLEAR
LEMMA ClearHolds ==
  ASSUME IInv, Idle, NEW a \in Stack, Clear(a)
  PROVE  IInv'
<1>1. PICK h \in Objects : h = slot[a].value
  BY Operands DEF Stack, Home
<1>2. /\ slot' = [s \in Slots |->
           IF slot[s].home = h THEN [slot[s] EXCEPT !.home = "pending"] ELSE slot[s]]
      /\ UNCHANGED <<kind, count, late, into, drift, deleted>>
  BY <1>1 DEF Clear
<1>3. ASSUME NEW s \in Slots
      PROVE  Moved(s) /\ slot'[s].value = slot[s].value /\ slot'[s].key = slot[s].key
  <2>1. slot[s].home = h => slot[s] # Empty
    BY Operands DEF Empty
  <2> QED
    BY <1>2, <2>1, Operands DEF Moved, SlotRecord
<1> QED
  BY <1>2, <1>3, MoveHolds

\* OP_ARRAY_PUSH_LOCALS
LEMMA ArrayPushLocalsHolds ==
  ASSUME IInv, Idle, NEW a \in Stack, NEW v \in Stack, NEW d \in Free, ArrayPushLocals(a, v, d)
  PROVE  IInv'
<1>1. PICK h \in Objects : h = slot[a].value /\ kind[h] = "array"
  BY Operands DEF ArrayPushLocals, Container, Stack, Home
<1>2. PICK o \in Objects : o = slot[v].value
  BY Operands DEF Stack, Home
<1>3. /\ slot' = [slot EXCEPT ![d] = ItemOf(h, o)] /\ Forgets(o, -1)
      /\ UNCHANGED <<kind, count, late, into, deleted>>
      /\ slot = [r \in Slots |-> slot[r]] /\ d \in Slots
  BY <1>1, <1>2, Operands DEF ArrayPushLocals, Free, Home
<1>4. /\ slot'[d] = ItemOf(h, o) /\ slot'[d].value = o /\ slot'[d].key = NULL
      /\ slot' = [s \in Slots |-> slot'[s]]
  BY <1>3 DEF ItemOf
<1>5. \A s \in Slots : Moved(s)
  BY <1>1, <1>3, <1>4 DEF Moved
<1> QED
  BY <1>3, <1>4, <1>5, ForgetHolds

\* OP_INDEX of a table
LEMMA IndexEntryHolds ==
  ASSUME IInv, Idle, NEW t \in Stack, NEW v \in Stack, NEW i \in Slots, NEW d \in Free,
         IndexEntry(t, v, i, d)
  PROVE  IInv'
<1>1. PICK h \in Objects : h = slot[t].value /\ kind[h] = "table" /\ slot[i].home = h
  BY Operands DEF IndexEntry, Container, Stack, Home
<1>2. PICK o \in Objects : o = slot[i].key
  BY <1>1, Operands DEF IInv, Idle, ItemsApart, SlotRecord
<1>3. /\ slot' = [slot EXCEPT ![d] = OnStack(o), ![t].home = "pending", ![v].home = "pending"]
      /\ Forgets(o, -1) /\ UNCHANGED <<kind, count, late, into, deleted>>
      /\ slot = [r \in Slots |-> slot[r]] /\ t \in Slots /\ v \in Slots /\ d \in Slots
      /\ t # d /\ v # d /\ slot[t] # Empty /\ slot[v] # Empty
  BY <1>2, Operands DEF IndexEntry, Free, Stack, Home, Empty
<1>4. /\ slot'[d] = OnStack(o) /\ slot'[d].value = o /\ slot'[d].key = NULL
      /\ slot' = [s \in Slots |-> slot'[s]]
  BY <1>3 DEF OnStack
<1>5. ASSUME NEW s \in Slots \ {d}
      PROVE  Moved(s) /\ slot'[s].value = slot[s].value /\ slot'[s].key = slot[s].key
  BY <1>3, Operands DEF Moved, SlotRecord
<1>6. \A s \in Slots : Moved(s)
  BY <1>4, <1>5 DEF Moved
<1> QED
  BY <1>3, <1>4, <1>5, <1>6, ForgetHolds

\* OP_SET_LOCAL, OP_SET_GLOBAL: the value is held by its place on the stack
LEMMA SetLocalHolds ==
  ASSUME IInv, Idle, NEW l \in Stack, NEW v \in Stack, NEW d \in Free, SetLocal(l, v, d)
  PROVE  IInv'
<1>1. PICK o \in Objects : o = slot[v].value
  BY Operands DEF Stack, Home
<1>2. /\ slot' = [slot EXCEPT ![l].home = "pending", ![d] = OnStack(o)] /\ late' = {d}
      /\ UNCHANGED <<kind, count, into, drift, deleted>>
      /\ slot = [r \in Slots |-> slot[r]] /\ l \in Slots /\ v \in Slots /\ d \in Slots
      /\ l # d /\ l # v /\ v # d /\ slot[l] # Empty
  BY <1>1, Operands DEF SetLocal, Free, Stack, Home, Empty
<1>3. slot'[d] = OnStack(o) /\ slot' = [s \in Slots |-> slot'[s]]
  BY <1>2
<1>4. ASSUME NEW s \in Slots \ {d}
      PROVE  Moved(s) /\ slot'[s].value = slot[s].value /\ slot'[s].key = slot[s].key
  BY <1>2, Operands DEF Moved, SlotRecord
<1>5. HeldBy(v, o)'
  BY <1>1, <1>2 DEF HeldBy, Stack, Home
<1>6. into' \in Objects \cup {NULL}
  BY <1>2 DEF IInv, TypeOK
<1> QED
  BY <1>2, <1>3, <1>4, <1>5, <1>6, LaterHolds

\* OP_FOR_LOOP over an array: the item is held by the array on the stack
LEMMA ForLoopHolds ==
  ASSUME IInv, Idle, NEW a \in Stack, NEW v \in Stack, NEW i \in Slots, NEW d \in Free,
         ForLoop(a, v, i, d)
  PROVE  IInv'
<1>1. PICK h \in Objects : h = slot[a].value /\ slot[i].home = h
  BY Operands DEF ForLoop, Container, Stack, Home
<1>2. PICK o \in Objects : o = slot[i].value
  BY <1>1, Operands
<1>3. /\ slot' = [slot EXCEPT ![v].home = "pending", ![d] = OnStack(o)] /\ late' = {d}
      /\ UNCHANGED <<kind, count, into, drift, deleted>>
      /\ slot = [r \in Slots |-> slot[r]] /\ a \in Slots /\ v \in Slots /\ d \in Slots
      /\ a # d /\ a # v /\ v # d /\ i # d /\ i # v /\ slot[v] # Empty
      /\ slot[a].home = "stack"
  BY <1>1, <1>2, Operands DEF ForLoop, Free, Stack, Home, Empty
<1>4. slot'[d] = OnStack(o) /\ slot' = [s \in Slots |-> slot'[s]]
  BY <1>3
<1>5. ASSUME NEW s \in Slots \ {d}
      PROVE  Moved(s) /\ slot'[s].value = slot[s].value /\ slot'[s].key = slot[s].key
  BY <1>3, Operands DEF Moved, SlotRecord
<1>6. HeldBy(i, o)'
  <2>1. slot'[i] = slot[i] /\ i \notin late'
    BY <1>3
  <2>2. slot'[a] = slot[a] /\ a \in Slots \ late'
    BY <1>3
  <2>3. a \in (Stack \ late)' /\ slot'[a].value = slot'[i].home
    BY <1>1, <1>3, <2>1, <2>2 DEF Stack, Home
  <2> QED
    BY <1>1, <1>2, <2>1, <2>3 DEF HeldBy
<1>7. into' \in Objects \cup {NULL}
  BY <1>3 DEF IInv, TypeOK
<1> QED
  BY <1>3, <1>4, <1>5, <1>6, <1>7, LaterHolds

\* OP_SET_DYNAMIC of an array: the value is held by the array that is assigned to
LEMMA SetItemHolds ==
  ASSUME IInv, Idle, NEW a \in Stack, NEW v \in Stack, NEW d \in Free, SetItem(a, v, d)
  PROVE  IInv'
<1>1. PICK h \in Objects : h = slot[a].value /\ kind[h] = "array"
  BY Operands DEF SetItem, Container, Stack, Home
<1>2. PICK o \in Objects : o = slot[v].value
  BY Operands DEF Stack, Home
<1>3. /\ UNCHANGED <<kind, count, drift, deleted>> /\ late' = {d} /\ into' = h
      /\ slot = [r \in Slots |-> slot[r]] /\ a \in Slots /\ v \in Slots /\ d \in Slots
      /\ a # d /\ a # v /\ v # d /\ slot[a] # Empty /\ slot[v].key = NULL
      /\ slot[v] \in SlotRecord
      /\ \A i \in Home(h) : i # a /\ i # v /\ i # d /\ slot[i] # Empty
  BY <1>1, Operands DEF SetItem, Free, Stack, Home, Empty
<1>4. PICK I \in SUBSET Home(h) :
        slot' = [s \in Slots |-> IF s = d THEN OnStack(o)
                                 ELSE IF s = v THEN ItemOf(h, o)
                                 ELSE IF s = a \/ s \in I THEN [slot[s] EXCEPT !.home = "pending"]
                                 ELSE slot[s]]
  <2> DEFINE set == [slot EXCEPT ![v].home = h, ![a].home = "pending", ![d] = OnStack(o)]
  <2>1. \A s \in Slots : set[s] = IF s = d THEN OnStack(o)
                                 ELSE IF s = v THEN ItemOf(h, o)
                                 ELSE IF s = a THEN [slot[s] EXCEPT !.home = "pending"]
                                 ELSE slot[s]
    BY <1>2, <1>3 DEF ItemOf, SlotRecord
  <2>2. set = [s \in Slots |-> set[s]]
    BY <1>3
  <2>3. \/ slot' = set
        \/ \E i \in Home(h) : slot' = [set EXCEPT ![i].home = "pending"]
    BY <1>1, <1>2 DEF SetItem
  <2> HIDE DEF set
  <2>4. CASE slot' = set
    <3> WITNESS {} \in SUBSET Home(h)
    <3> QED
      BY <2>1, <2>2, <2>4
  <2>5. CASE \E i \in Home(h) : slot' = [set EXCEPT ![i].home = "pending"]
    <3>1. PICK i \in Home(h) : slot' = [set EXCEPT ![i].home = "pending"]
      BY <2>5
    <3> WITNESS {i} \in SUBSET Home(h)
    <3>2. set[i] = slot[i] /\ i # d /\ i # v /\ i # a /\ i \in Slots
      BY <1>3, <2>1 DEF Home
    <3>3. ASSUME NEW s \in Slots
          PROVE  slot'[s] = IF s = d THEN OnStack(o)
                                 ELSE IF s = v THEN ItemOf(h, o)
                                 ELSE IF s = a \/ s \in {i} THEN [slot[s] EXCEPT !.home = "pending"]
                                 ELSE slot[s]
      BY <2>1, <2>2, <3>1, <3>2
    <3> QED
      BY <2>2, <3>1, <3>3
  <2> QED
    BY <2>3, <2>4, <2>5
<1>5. slot'[d] = OnStack(o) /\ slot' = [s \in Slots |-> slot'[s]]
  BY <1>3, <1>4
<1>6. ASSUME NEW s \in Slots \ {d}
      PROVE  Moved(s) /\ slot'[s].value = slot[s].value /\ slot'[s].key = slot[s].key
  <2>1. CASE s = v
    <3>1. slot'[s] = ItemOf(h, o) /\ kind'[h] = "array"
      BY <1>1, <1>3, <1>4, <2>1
    <3> QED
      BY <1>2, <1>3, <2>1, <3>1 DEF Moved, ItemOf
  <2>2. CASE s # v
    BY <1>3, <1>4, <2>2, Operands DEF Moved, SlotRecord
  <2> QED
    BY <2>1, <2>2
<1>7. HeldBy(v, o)'
  BY <1>3, <1>4, Operands DEF HeldBy, ItemOf
<1> QED
  BY <1>3, <1>5, <1>6, <1>7, LaterHolds

\* OP_CLEAR of a string: the reference that is lost is one too many
LEMMA ClearStringHolds ==
  ASSUME IInv, CountsNeverNegative, Idle, NEW s \in Stack, NEW o \in Objects, ClearString(s, o)
  PROVE  IInv'
<1>1. PICK x \in Objects : x = slot[s].value /\ kind[x] = "string"
  BY Operands DEF ClearString, Container, Stack, Home
<1>2. /\ slot' = [slot EXCEPT ![s] = OnStack(o)] /\ Interns(o) /\ Forgets(x, 1)
      /\ UNCHANGED <<late, into, deleted>>
      /\ slot = [r \in Slots |-> slot[r]] /\ s \in Slots /\ late = {}
      /\ slot[s].key = NULL /\ NULL \notin Objects
  BY <1>1, Operands DEF ClearString, Stack, Home, Idle
<1>3. Gains(o)
  BY <1>2, InternsGains
<1>4. slot' = [r \in Slots |-> slot'[r]] /\ \A r \in Slots : Moved(r)
  BY <1>2 DEF Moved
<1>5. SlotsTyped' /\ \A r \in Slots, h \in Objects : slot'[r].home = h =>
              \/ slot'[r].home = slot[r].home /\ slot'[r].key = slot[r].key
              \/ kind'[h] = "array" /\ slot'[r].key = NULL
  BY <1>2, <1>4, MovedTyped
<1>6. /\ drift' = [drift EXCEPT ![x] = @ + 1] /\ drift[x] + 1 \in -MaxDrift..MaxDrift
      /\ drift \in [Objects -> Int] /\ drift \in [Objects -> -MaxDrift..MaxDrift]
      /\ count \in [Objects -> Int]
  BY <1>2, Integral DEF Forgets, IInv, TypeOK
<1>7. \A p \in Objects : Drifts(p)
  <2> SUFFICES ASSUME NEW p \in Objects PROVE Drifts(p)
    OBVIOUS
  <2>1. drift[p] \in Int /\ drift[p] \in -MaxDrift..MaxDrift
    BY <1>6
  <2>2. drift'[p] = IF p = x THEN drift[p] + 1 ELSE drift[p]
    BY <1>6
  <2> QED
    BY <1>1, <1>6, <2>1, <2>2 DEF Drifts
<1>8. Shaped /\ \A p \in Objects : Grows(p) /\ count'[p] = count[p] + One(p = o)
  BY <1>3, <1>6, GainsGrows DEF Shaped
<1>9. CountExact'
  <2>1. \A p \in Objects : Weight(s, p) = One(p = x) /\ Weight(s, p)' = One(p = o)
    BY <1>1, <1>2 DEF Weight, One, OnStack
  <2>2. \A r \in Slots \ {s} : Keeps(r)
    BY <1>2 DEF Keeps
  <2>3. \A p \in Objects : /\ Gained(p) = One(p = o) - One(p = x)
                           /\ count'[p] \in Int /\ drift'[p] \in Int
    <3> SUFFICES ASSUME NEW p \in Objects
                 PROVE  /\ Gained(p) = One(p = o) - One(p = x)
                        /\ count'[p] \in Int /\ drift'[p] \in Int
      OBVIOUS
    <3>1. count[p] \in Int /\ drift[p] \in Int /\ One(p = o) \in Int /\ One(p = x) \in Int
      BY <1>6 DEF One
    <3>2. drift'[p] = drift[p] + One(p = x)
      BY <1>6 DEF One
    <3>3. count'[p] = count[p] + One(p = o)
      BY <1>8
    <3> QED
      BY <3>1, <3>2, <3>3 DEF Gained
  <2> QED
    BY <1>2, <2>1, <2>2, <2>3, ExactOne
<1>10. ItemsApart'
  BY <1>2, <1>5, <1>7, <1>8, ItemsKept
<1>11. into' \in Objects \cup {NULL} /\ LateHeld'
  BY <1>2, LateNone, Integral
<1> QED
  BY <1>2, <1>5, <1>7, <1>8, <1>9, <1>10, <1>11, InstructionHolds

\* OP_DELETE of a table
LEMMA DeleteEntryHolds ==
  ASSUME IInv, Idle, NEW t \in Stack, NEW k \in Stack, NEW i \in Slots, NEW d \in Free,
         DeleteEntry(t, k, i, d)
  PROVE  IInv'
<1>1. PICK x, y \in Objects : x = slot[i].value /\ y = slot[i].key
  BY Operands DEF DeleteEntry, Container, Stack, Home
<1>2. /\ slot' = [slot EXCEPT ![i] = OnStack(x), ![d] = Pending(y),
                              ![t].home = "pending", ![k].home = "pending"]
      /\ UNCHANGED <<kind, count, late, into, drift, deleted>> /\ late = {}
      /\ slot = [r \in Slots |-> slot[r]] /\ t \in Slots /\ k \in Slots /\ d \in Slots
      /\ t # d /\ k # d /\ i # d /\ i # t /\ i # k
      /\ slot[t] # Empty /\ slot[k] # Empty /\ slot[d] = Empty /\ NULL \notin Objects
  BY <1>1, Operands DEF DeleteEntry, Container, Free, Stack, Home, Empty, Idle
<1>3. slot'[i] = OnStack(x) /\ slot'[d] = Pending(y)
  BY <1>2
<1>4. ASSUME NEW s \in Slots \ {i, d}
      PROVE  Moved(s) /\ slot'[s].value = slot[s].value /\ slot'[s].key = slot[s].key
  BY <1>2, Operands DEF Moved, SlotRecord
<1>5. slot' = [s \in Slots |-> slot'[s]] /\ \A s \in Slots : Moved(s)
  BY <1>2, <1>3, <1>4 DEF Moved
<1>6. SlotsTyped' /\ \A r \in Slots, h \in Objects : slot'[r].home = h =>
              \/ slot'[r].home = slot[r].home /\ slot'[r].key = slot[r].key
              \/ kind'[h] = "array" /\ slot'[r].key = NULL
  BY <1>2, <1>5, MovedTyped
<1>7. Shaped /\ \A p \in Objects : Grows(p) /\ Drifts(p)
  BY <1>2 DEF IInv, TypeOK, Shaped, Grows, Drifts
<1>8. CountExact'
  <2>1. \A p \in Objects : /\ Weight(i, p) = One(p = x) + One(p = y)
                           /\ Weight(i, p)' = One(p = x) /\ Weight(d, p)' = One(p = y)
                           /\ Weight(d, p) = 0
    BY <1>1, <1>2, <1>3 DEF Weight, One, OnStack, Pending, Empty
  <2>2. \A r \in Slots \ {i, d} : Keeps(r)
    BY <1>2, <1>4 DEF Keeps
  <2>3. \A p \in Objects : Gained(p) = 0 /\ count'[p] \in Int /\ drift'[p] \in Int
    BY <1>2, Integral DEF Gained
  <2> QED
    BY <1>2, <2>1, <2>2, <2>3, ExactTwo DEF One
<1>9. ItemsApart'
  BY <1>2, <1>6, <1>7, ItemsKept
<1>10. into' \in Objects \cup {NULL} /\ LateHeld'
  BY <1>2, LateNone, Integral
<1> QED
  BY <1>2, <1>6, <1>7, <1>8, <1>9, <1>10, InstructionHolds

\* A set of three
LEMMA Distinct ==
  ASSUME NEW a, NEW b, NEW c, Cardinality({a, b, c}) = 3
  PROVE  a # b /\ a # c /\ b # c
<1>1. ASSUME NEW x, NEW y PROVE Cardinality({x, y}) \in Nat /\ Cardinality({x, y}) <= 2
  <2>1. IsFiniteSet({}) /\ Cardinality({}) = 0
    BY FS_EmptySet
  <2>2. IsFiniteSet({} \cup {x}) /\ Cardinality({} \cup {x}) = 1
    BY <2>1, FS_AddElement
  <2>3. {x, y} = ({} \cup {x}) \cup {y}
    OBVIOUS
  <2> QED
    BY <2>2, <2>3, FS_AddElement
<1>2. CASE a = b \/ a = c \/ b = c
  <2> DEFINE S == {a, b, c}
  <2>1. Cardinality(S) = 3 /\ (S = {a, b} \/ S = {a, c})
    BY <1>2
  <2> HIDE DEF S
  <2>2. Cardinality(S) <= 2
    BY <1>1, <2>1
  <2> QED
    BY <2>1, <2>2
<1> QED
  BY <1>2

\* OP_FOR_LOOP over a table: key and value are held by the entry, in the table
\* on the stack
LEMMA ForLoopEntryHolds ==
  ASSUME IInv, Idle, NEW t \in Stack, NEW k \in Stack, NEW v \in Stack, NEW i \in Slots,
         NEW d \in Free, ForLoopEntry(t, k, v, i, d)
  PROVE  IInv'
<1>1. PICK h \in Objects : h = slot[t].value /\ kind[h] = "table" /\ slot[i].home = h
  BY Operands DEF ForLoopEntry, Container, Stack, Home
<1>2. PICK x, y \in Objects : x = slot[i].value /\ y = slot[i].key
  BY <1>1, Operands DEF IInv, Idle, ItemsApart, SlotRecord
<1>3. PICK m, o \in Objects : m = slot[k].value /\ o = slot[v].value
  BY Operands DEF Stack, Home
<1> t # k /\ t # v /\ k # v
  BY Distinct DEF ForLoopEntry
<1>4. /\ slot' = [slot EXCEPT ![k] = OnStack(y), ![d] = OnStack(x), ![v] = Entry("pending", m, o)]
      /\ UNCHANGED <<kind, count, into, drift, deleted>> /\ late' = {k, d} /\ late = {}
      /\ slot = [r \in Slots |-> slot[r]] /\ t \in Slots /\ k \in Slots /\ v \in Slots
      /\ d \in Slots /\ t # d /\ k # d /\ v # d
      /\ i # d /\ i # t /\ i # k /\ i # v
      /\ slot[d] = Empty /\ NULL \notin Objects
      /\ slot[k].key = NULL /\ slot[v].key = NULL /\ slot[t].home = "stack"
  BY <1>1, <1>2, <1>3, Operands DEF ForLoopEntry, Free, Stack, Home, Empty, Idle
<1>5. /\ slot'[k] = OnStack(y) /\ slot'[d] = OnStack(x) /\ slot'[v] = Entry("pending", m, o)
      /\ \A s \in Slots \ {k, v, d} : slot'[s] = slot[s]
      /\ slot' = [s \in Slots |-> slot'[s]]
  BY <1>4
<1>6. \A s \in Slots : Moved(s)
  BY <1>5 DEF Moved
<1>7. late' \subseteq Stack'
  BY <1>4, <1>5 DEF Stack, Home, OnStack
<1>8. SlotsTyped' /\ \A r \in Slots, h_1 \in Objects : slot'[r].home = h_1 =>
              \/ slot'[r].home = slot[r].home /\ slot'[r].key = slot[r].key
              \/ kind'[h_1] = "array" /\ slot'[r].key = NULL
  BY <1>5, <1>6, <1>7, MovedTyped
<1>9. Shaped /\ \A p \in Objects : Grows(p) /\ Drifts(p)
  BY <1>4 DEF IInv, TypeOK, Shaped, Grows, Drifts
<1>10. CountExact'
  <2>1. \A p \in Objects :
          /\ Weight(k, p) = One(p = m) /\ Weight(k, p)' = 0
          /\ Weight(v, p) = One(p = o) /\ Weight(v, p)' = One(p = o) + One(p = m)
          /\ Weight(d, p) = 0 /\ Weight(d, p)' = 0
    BY <1>3, <1>4, <1>5 DEF Weight, One, OnStack, Entry, Empty
  <2>2. \A r \in Slots \ {k, v, d} : Keeps(r)
    BY <1>4, <1>5 DEF Keeps
  <2>3. \A p \in Objects : Gained(p) = 0 /\ count'[p] \in Int /\ drift'[p] \in Int
    BY <1>4, Integral DEF Gained
  <2>4. \A p \in Objects :
          Gained(p) = Weight(k, p)' - Weight(k, p) + Weight(v, p)' - Weight(v, p)
                                                + Weight(d, p)' - Weight(d, p)
    BY <2>1, <2>3 DEF One
  <2> QED
    BY <1>4, <2>2, <2>3, <2>4, ExactThree
<1>11. ItemsApart'
  BY <1>4, <1>8, <1>9, ItemsKept
<1>12. LateHeld'
  <2>1. into' = NULL
    BY <1>4 DEF IInv, LateHeld
  <2>2. t \in (Stack \ late)' /\ slot'[t].value = h /\ slot'[i].home = h
    BY <1>1, <1>4, <1>5 DEF Stack, Home
  <2>3. HeldBy(i, x)' /\ HeldBy(i, y)'
    BY <1>1, <1>2, <1>4, <1>5, <2>2 DEF HeldBy
  <2>4. slot'[k].value = y /\ slot'[d].value = x
    BY <1>5 DEF OnStack
  <2>5. (\A s \in late : \E r \in Slots : HeldBy(r, slot[s].value))'
    BY <1>4, <2>3, <2>4
  <2> QED
    BY <2>1, <2>5 DEF LateHeld
<1>13. into' \in Objects \cup {NULL}
  BY <1>4, Integral
<1> QED
  BY <1>4, <1>8, <1>9, <1>10, <1>11, <1>12, <1>13, InstructionHolds

\* OP_ADD_LOCALS that cannot add: what it gives back and does not have is
\* forgotten
LEMMA AddLocalsFailsHolds ==
  ASSUME IInv, Idle, NEW d \in Free, NEW e \in Free, NEW lent \in [{d, e} -> Stack],
         AddLocalsFails(lent)
  PROVE  IInv'
<1> DEFINE Lent(o) == Cardinality({c \in {d, e} : slot[lent[c]].value = o})
<1>1. PICK x, y \in Objects : x = slot[lent[d]].value /\ y = slot[lent[e]].value
  <2>1. lent[d] \in Stack /\ lent[e] \in Stack
    OBVIOUS
  <2> QED
    BY <2>1, Operands DEF Stack, Home
<1>2. /\ slot' = [s \in Slots |-> IF s \in {d, e} THEN Pending(slot[lent[s]].value) ELSE slot[s]]
      /\ UNCHANGED <<kind, count, late, into, deleted>> /\ late = {}
      /\ d \in Slots /\ e \in Slots /\ slot[d] = Empty /\ slot[e] = Empty /\ NULL \notin Objects
  BY Operands DEF AddLocalsFails, Free, Home, Empty, Idle
<1>3. /\ \A o \in Objects : drift[o] - Lent(o) >= -MaxDrift
      /\ drift' = [o \in Objects |-> drift[o] - Lent(o)]
  <2>1. DOMAIN lent = {d, e}
    OBVIOUS
  <2> QED
    BY <2>1 DEF AddLocalsFails
<1>4. \A o \in Objects : Lent(o) \in Nat /\ Lent(o) = One(x = o) + (IF d = e THEN 0 ELSE One(y = o))
  <2> SUFFICES ASSUME NEW o \in Objects
               PROVE  Lent(o) \in Nat /\ Lent(o) = One(x = o) + (IF d = e THEN 0 ELSE One(y = o))
    OBVIOUS
  <2> DEFINE B == {c \in {d, e} : slot[lent[c]].value = o}
  <2>1. Cardinality({}) = 0
    BY FS_EmptySet
  <2>2. CASE d = e
    <3>1. B \in SUBSET Slots /\ {} \in SUBSET Slots /\ {} \ {d} = B \ {d} /\ (d \in B <=> x = o)
      BY <1>1, <1>2, <2>2
    <3>2. Cardinality(B) \in Nat /\ Cardinality(B) = Cardinality({}) - One(d \in {}) + One(d \in B)
      BY <3>1, CountOne
    <3> QED
      BY <2>1, <2>2, <3>1, <3>2 DEF One
  <2>3. CASE d # e
    <3>1. /\ B \in SUBSET Slots /\ {} \in SUBSET Slots /\ {} \ {d, e} = B \ {d, e}
          /\ (d \in B <=> x = o) /\ (e \in B <=> y = o)
      BY <1>1, <1>2, <2>3
    <3>2. Cardinality(B) \in Nat /\ Cardinality(B) = Cardinality({}) - One(d \in {}) - One(e \in {})
                                                           + One(d \in B) + One(e \in B)
      BY <1>2, <2>3, <3>1, CountTwo
    <3> QED
      BY <2>1, <2>3, <3>1, <3>2 DEF One
  <2> QED
    BY <2>2, <2>3
<1> HIDE DEF Lent
<1>5. slot'[d] = Pending(x) /\ slot'[e] = Pending(y) /\ \A s \in Slots \ {d, e} : slot'[s] = slot[s]
  BY <1>1, <1>2
<1>6. slot' = [s \in Slots |-> slot'[s]] /\ \A s \in Slots : Moved(s)
  BY <1>2, <1>5 DEF Moved
<1>7. SlotsTyped' /\ \A r \in Slots, h \in Objects : slot'[r].home = h =>
              \/ slot'[r].home = slot[r].home /\ slot'[r].key = slot[r].key
              \/ kind'[h] = "array" /\ slot'[r].key = NULL
  BY <1>2, <1>6, MovedTyped
<1>8. \A p \in Objects : drift[p] \in Int /\ drift[p] \in -MaxDrift..MaxDrift /\ count[p] \in Int
  BY Integral DEF IInv, TypeOK
<1>9. Shaped /\ \A p \in Objects : Grows(p) /\ Drifts(p)
  <2>1. Shaped /\ \A p \in Objects : Grows(p)
    BY <1>2, <1>3 DEF IInv, TypeOK, Shaped, Grows
  <2>2. ASSUME NEW p \in Objects PROVE Drifts(p)
    <3>1. /\ drift'[p] = drift[p] - Lent(p) /\ drift[p] - Lent(p) >= -MaxDrift
          /\ Lent(p) \in Nat /\ MaxDrift \in Nat
      BY <1>3, <1>4, HeapAssumption DEF HeapAssumption
    <3> QED
      BY <1>8, <3>1 DEF Drifts
  <2> QED
    BY <2>1, <2>2
<1>10. \A p \in Objects : Gained(p) = Lent(p) /\ count'[p] \in Int /\ drift'[p] \in Int
  <2> SUFFICES ASSUME NEW p \in Objects
               PROVE  Gained(p) = Lent(p) /\ count'[p] \in Int /\ drift'[p] \in Int
    OBVIOUS
  <2>1. /\ drift'[p] = drift[p] - Lent(p) /\ count'[p] = count[p] /\ Lent(p) \in Nat
        /\ drift[p] \in Int /\ count[p] \in Int
    BY <1>2, <1>3, <1>4, <1>8
  <2> QED
    BY <2>1 DEF Gained
<1>11. CountExact'
  <2>1. \A p \in Objects : /\ Weight(d, p) = 0 /\ Weight(e, p) = 0
                           /\ Weight(d, p)' = One(x = p) /\ Weight(e, p)' = One(y = p)
    BY <1>2, <1>5 DEF Weight, One, Pending, Empty
  <2>2. \A r \in Slots \ {d, e} : Keeps(r)
    BY <1>2, <1>5 DEF Keeps
  <2>3. CASE d = e
    <3>1. \A p \in Objects : Gained(p) = Weight(d, p)' - Weight(d, p)
      BY <1>4, <1>10, <2>1, <2>3 DEF One
    <3> QED
      BY <1>2, <1>10, <2>2, <2>3, <3>1, ExactOne
  <2>4. CASE d # e
    <3>1. \A p \in Objects : Gained(p) = Weight(d, p)' - Weight(d, p) + Weight(e, p)' - Weight(e, p)
      BY <1>4, <1>10, <2>1, <2>4 DEF One
    <3> QED
      BY <1>2, <1>10, <2>2, <2>4, <3>1, ExactTwo
  <2> QED
    BY <2>3, <2>4
<1>12. ItemsApart'
  BY <1>2, <1>7, <1>9, ItemsKept
<1>13. into' \in Objects \cup {NULL} /\ LateHeld'
  BY <1>2, LateNone, Integral
<1> QED
  BY <1>2, <1>7, <1>9, <1>11, <1>12, <1>13, InstructionHolds

\* OP_SET_PROPERTY, hymn_set_property, of a name that is not there
LEMMA SetPropertyNew ==
  ASSUME IInv, CountsNeverNegative, Idle, NoDangling,
         NEW t \in Stack, NEW v \in Stack, NEW n \in Objects, NEW d \in Free,
         NEW h \in Objects, NEW o \in Objects,
         t # v, kind[n] = "string", kind[h] = "table",
         h = slot[t].value, o = slot[v].value,
         UNCHANGED <<kind, late, into, drift, deleted>>,
         Found(h, n) = {},
         count' = [p \in Objects |-> count'[p]],
         \A p \in Objects : count'[p] = count[p] + One(p = o) + One(p = n),
         slot' = [s \in Slots |-> slot'[s]], slot'[d] = Entry(h, n, o),
         \A s \in Slots \ {d} :
           slot'[s] = IF s = t THEN [slot[s] EXCEPT !.home = "pending"] ELSE slot[s]
  PROVE  IInv'
<1>1. /\ slot = [r \in Slots |-> slot[r]] /\ t \in Slots /\ d \in Slots /\ t # d
      /\ slot[t] # Empty /\ slot[d] = Empty /\ NULL \notin Objects /\ late = {}
      /\ "pending" \notin Objects /\ kind[o] # "free"
  BY Operands DEF Free, Stack, Home, Empty, Idle, NoDangling
<1>2. slot'[d] = Entry(h, n, o) /\ slot' = [s \in Slots |-> slot'[s]]
  BY <1>1
<1>3. ASSUME NEW s \in Slots \ {d}
      PROVE  Moved(s) /\ slot'[s].value = slot[s].value /\ slot'[s].key = slot[s].key
  BY <1>1, Operands DEF Moved, SlotRecord
<1>4. \A s \in Slots : Moved(s) \/ Stored(s)
  BY <1>2, <1>3 DEF Stored
<1>5. late' \subseteq Stack'
  BY <1>1
<1>6. SlotsTyped' /\ \A s \in Slots, g \in Objects : Moved(s) /\ slot'[s].home = g =>
              \/ slot'[s].home = slot[s].home /\ slot'[s].key = slot[s].key
              \/ kind'[g] = "array" /\ slot'[s].key = NULL
  BY <1>2, <1>4, <1>5, MovedTyped
<1>7. \A p \in Objects : count[p] \in Int /\ drift[p] \in Int /\ count'[p] = count[p] + One(p = o) + One(p = n)
  BY Integral DEF One
<1>8. Shaped /\ \A p \in Objects : Grows(p) /\ Drifts(p)
  BY <1>1, <1>7 DEF IInv, TypeOK, Shaped, Grows, Drifts, One
<1>9. CountExact'
  <2>1. \A p \in Objects : Weight(d, p) = 0 /\ Weight(d, p)' = One(p = o) + One(p = n)
    BY <1>1, <1>2 DEF Weight, One, Entry, Empty
  <2>2. \A r \in Slots \ {d} : Keeps(r)
    BY <1>3 DEF Keeps
  <2>3. \A p \in Objects : /\ Gained(p) = Weight(d, p)' - Weight(d, p)
                           /\ count'[p] \in Int /\ drift'[p] \in Int
    BY <1>7, <2>1 DEF Gained, One
  <2> QED
    BY <1>1, <2>2, <2>3, ExactOne
<1>10. ItemsApart'
  <2>1. \A r \in Slots \ {d} : slot'[r].home = h => slot'[r].home = slot[r].home /\ slot'[r].key = slot[r].key
    BY <1>3, <1>6
  <2>2. kind'[h] = "table" /\ kind'[n] = "string" /\ d \in Slots /\ NULL \notin Objects
        /\ slot'[d] = Entry(h, n, o) /\ slot'[d].home = h
    BY <1>1, <1>2 DEF Entry
  <2>3. Placed(d, h)
    <3>1. ASSUME NEW r \in Slots, slot'[r].home = h, slot'[r].key = n PROVE r = d
      BY <2>1, <3>1 DEF Found, Home
    <3>2. slot'[d].key = n /\ n # NULL
      BY <2>2 DEF Entry
    <3> QED
      BY <2>2, <3>1, <3>2 DEF Placed
  <2>4. ASSUME NEW s \in Slots, NEW g \in Objects, slot'[s].home = g
        PROVE  \/ slot'[s].home = slot[s].home /\ slot'[s].key = slot[s].key
               \/ kind'[g] = "array" /\ slot'[s].key = NULL
               \/ Placed(s, g)
    <3>1. CASE s = d
      BY <2>2, <2>3, <2>4, <3>1
    <3>2. CASE s # d
      BY <1>3, <1>6, <2>4, <3>2
    <3> QED
      BY <3>1, <3>2
  <2> QED
    BY <1>6, <1>8, <2>4, ItemsKept
<1>11. into' \in Objects \cup {NULL} /\ LateHeld'
  BY LateNone, Integral
<1> QED
  BY <1>6, <1>8, <1>9, <1>10, <1>11, InstructionHolds

\* ... of a name that is
LEMMA SetPropertyFound ==
  ASSUME IInv, CountsNeverNegative, Idle, NoDangling,
         NEW t \in Stack, NEW v \in Stack, NEW d \in Free, NEW i \in Slots,
         NEW h \in Objects, NEW o \in Objects,
         t # v, kind[h] = "table", slot[i].home = h,
         h = slot[t].value, o = slot[v].value,
         UNCHANGED <<kind, late, into, drift, deleted>>, Referenced(o),
         slot' = [slot EXCEPT ![i].value = o, ![t].home = "pending", ![d] = Pending(slot[i].value)]
  PROVE  IInv'
<1>1. PICK x \in Objects : x = slot[i].value
  BY Operands
<1>2. /\ slot = [r \in Slots |-> slot[r]] /\ t \in Slots /\ d \in Slots /\ t # d /\ i # t /\ i # d
      /\ slot[t] # Empty /\ slot[d] = Empty /\ slot[i] # Empty /\ NULL \notin Objects /\ late = {}
      /\ kind[o] # "free" /\ slot[i] \in SlotRecord
  BY Operands DEF Free, Stack, Home, Empty, Idle, NoDangling
<1>3. /\ slot'[d] = Pending(x) /\ slot'[i] = [slot[i] EXCEPT !.value = o]
      /\ slot' = [s \in Slots |-> slot'[s]]
  BY <1>1, <1>2
<1>4. ASSUME NEW s \in Slots \ {i, d}
      PROVE  Moved(s) /\ slot'[s].value = slot[s].value /\ slot'[s].key = slot[s].key
  BY <1>2, Operands DEF Moved, SlotRecord
<1>5. \A s \in Slots : Moved(s)
  BY <1>1, <1>2, <1>3, <1>4 DEF Moved
<1>6. SlotsTyped' /\ \A s \in Slots, g \in Objects : slot'[s].home = g =>
              \/ slot'[s].home = slot[s].home /\ slot'[s].key = slot[s].key
              \/ kind'[g] = "array" /\ slot'[s].key = NULL
  BY <1>2, <1>3, <1>5, MovedTyped
<1>7. Gains(o)
  BY <1>2, ReferencedGains
<1>8. Shaped /\ \A p \in Objects : Grows(p) /\ Drifts(p) /\ count'[p] = count[p] + One(p = o)
  BY <1>7, GainsGrows DEF Drifts, Shaped, IInv, TypeOK
<1>9. CountExact'
  <2>1. \A p \in Objects : /\ Weight(i, p) = One(p = x) + One(slot[i].key = p)
                           /\ Weight(i, p)' = One(p = o) + One(slot[i].key = p)
                           /\ Weight(d, p) = 0 /\ Weight(d, p)' = One(p = x)
    BY <1>1, <1>2, <1>3 DEF Weight, One, Pending, Empty, SlotRecord
  <2>2. \A r \in Slots \ {i, d} : Keeps(r)
    BY <1>2, <1>4 DEF Keeps
  <2>3. \A p \in Objects : /\ Gained(p) = Weight(i, p)' - Weight(i, p) + Weight(d, p)' - Weight(d, p)
                           /\ count'[p] \in Int /\ drift'[p] \in Int
    <3> SUFFICES ASSUME NEW p \in Objects
                 PROVE  /\ Gained(p) = Weight(i, p)' - Weight(i, p) + Weight(d, p)' - Weight(d, p)
                        /\ count'[p] \in Int /\ drift'[p] \in Int
      OBVIOUS
    <3>1. /\ count[p] \in Int /\ drift[p] \in Int /\ drift'[p] = drift[p]
          /\ count'[p] = count[p] + One(p = o)
      BY <1>8, Integral
    <3>2. One(p = o) \in Int /\ One(p = x) \in Int /\ One(slot[i].key = p) \in Int
      BY DEF One
    <3>3. /\ Weight(i, p) = One(p = x) + One(slot[i].key = p)
          /\ Weight(i, p)' = One(p = o) + One(slot[i].key = p)
          /\ Weight(d, p) = 0 /\ Weight(d, p)' = One(p = x)
      BY <2>1
    <3> QED
      BY <3>1, <3>2, <3>3 DEF Gained
  <2> QED
    BY <1>2, <2>2, <2>3, ExactTwo
<1>10. ItemsApart'
  BY <1>6, <1>8, ItemsKept
<1>11. into' \in Objects \cup {NULL} /\ LateHeld'
  BY LateNone, Integral
<1> QED
  BY <1>6, <1>8, <1>9, <1>10, <1>11, InstructionHolds

\* OP_SET_PROPERTY, hymn_set_property
LEMMA SetPropertyHolds ==
  ASSUME IInv, CountsNeverNegative, Idle, NoDangling,
         NEW t \in Stack, NEW v \in Stack, NEW d \in Free, NEW n \in Literals, SetProperty(t, v, n, d)
  PROVE  IInv'
<1>1. PICK h, o \in Objects : h = slot[t].value /\ o = slot[v].value
  BY Operands DEF Stack, Home
<1>2. /\ t # v /\ kind[n] = "string" /\ kind[h] = "table" /\ n \in Objects
      /\ UNCHANGED <<kind, late, into, drift, deleted>>
  BY <1>1, HeapAssumption DEF SetProperty, Container, HeapAssumption
<1>3. \/ /\ Found(h, n) = {}
         /\ count' = [p \in Objects |->
              count[p] + (IF p = o THEN 1 ELSE 0) + (IF p = n THEN 1 ELSE 0)]
         /\ slot' = [slot EXCEPT ![d] = Entry(h, n, o), ![t].home = "pending"]
      \/ \E i \in Found(h, n) :
           /\ Referenced(o)
           /\ slot' = [slot EXCEPT ![i].value = o, ![t].home = "pending", ![d] = Pending(slot[i].value)]
  BY <1>1 DEF SetProperty
<1>4. \A i \in Found(h, n) : i \in Slots /\ slot[i].home = h
  BY DEF Found, Home
<1>5. CASE Found(h, n) = {}
  <2>1. /\ count' = [p \in Objects |->
              count[p] + (IF p = o THEN 1 ELSE 0) + (IF p = n THEN 1 ELSE 0)]
        /\ slot' = [slot EXCEPT ![d] = Entry(h, n, o), ![t].home = "pending"]
    BY <1>3, <1>5
  <2>2. /\ count' = [p \in Objects |-> count'[p]]
        /\ \A p \in Objects : count'[p] = count[p] + One(p = o) + One(p = n)
    BY <2>1 DEF One
  <2>3. /\ slot' = [s \in Slots |-> slot'[s]] /\ slot'[d] = Entry(h, n, o)
        /\ \A s \in Slots \ {d} :
             slot'[s] = IF s = t THEN [slot[s] EXCEPT !.home = "pending"] ELSE slot[s]
    BY <2>1, Operands DEF Stack, Free, Home
  <2> QED
    BY <1>1, <1>2, <1>5, <2>2, <2>3, SetPropertyNew
<1>6. CASE Found(h, n) # {}
  <2>1. PICK i \in Found(h, n) :
           /\ Referenced(o)
           /\ slot' = [slot EXCEPT ![i].value = o, ![t].home = "pending", ![d] = Pending(slot[i].value)]
    BY <1>3, <1>6
  <2>2. i \in Slots /\ slot[i].home = h
    BY <1>4
  <2>3. slot' = [slot EXCEPT ![i].value = o, ![t].home = "pending", ![d] = Pending(slot[i].value)]
    BY <2>1
  <2>4. Referenced(o)
    BY <2>1
  <2> QED
    BY <1>1, <1>2, <2>2, <2>3, <2>4, SetPropertyFound
<1> QED
  BY <1>5, <1>6

\* Every slot has a next content; t is let go of, and no slot outside S changes
Releases(t, S) ==
  /\ slot' = [s \in Slots |-> slot'[s]]
  /\ \A s \in Slots \ S :
       slot'[s] = IF s = t THEN [slot[s] EXCEPT !.home = "pending"] ELSE slot[s]

\* a slot gets another value
Revalues(i, o) == slot'[i] = [slot[i] EXCEPT !.value = o]

\* OP_SET_DYNAMIC of a table, for a key m that is not there: the value is held by
\* the table that is assigned to
LEMMA SetEntryNew ==
  ASSUME IInv, CountsNeverNegative, Idle, NoDangling,
         NEW t \in Stack, NEW k \in Stack, NEW v \in Stack,
         NEW h \in Objects, NEW m \in Objects, NEW o \in Objects,
         t # k, t # v, k # v, kind[m] = "string", kind[h] = "table",
         h = slot[t].value, m = slot[k].value, o = slot[v].value,
         SetEntry(t, k, v), Found(h, m) = {}, Referenced(m),
         Releases(t, {k}), slot'[k] = Entry(h, m, o)
  PROVE  IInv'
<1> USE DEF Releases
<1> UNCHANGED <<kind, deleted>> /\ late' = {v} /\ into' = h /\ Forgets(m, 1)
  BY DEF SetEntry
<1>1. /\ t \in Slots /\ k \in Slots /\ v \in Slots
      /\ slot[t] # Empty /\ NULL \notin Objects /\ late = {}
      /\ "pending" \notin Objects /\ "stack" \notin Objects
      /\ slot[k].key = NULL /\ slot[v].key = NULL /\ slot[v].home = "stack"
  BY Operands DEF Stack, Home, Empty, Idle
<1>2. ASSUME NEW s \in Slots \ {k}
      PROVE  Moved(s) /\ slot'[s].value = slot[s].value /\ slot'[s].key = slot[s].key
  BY <1>1, Operands DEF Moved, SlotRecord
<1>3. \A s \in Slots : Moved(s) \/ Stored(s)
  BY <1>2 DEF Stored
<1>4. late' \subseteq Stack'
  BY <1>1 DEF Stack, Home
<1>5. SlotsTyped' /\ \A s \in Slots, g \in Objects : Moved(s) /\ slot'[s].home = g =>
              \/ slot'[s].home = slot[s].home /\ slot'[s].key = slot[s].key
              \/ kind'[g] = "array" /\ slot'[s].key = NULL
  BY <1>3, <1>4, MovedTyped
<1>DR. /\ drift' = [drift EXCEPT ![m] = @ + 1] /\ drift[m] + 1 \in -MaxDrift..MaxDrift
      /\ drift \in [Objects -> Int] /\ drift \in [Objects -> -MaxDrift..MaxDrift]
      /\ count \in [Objects -> Int] /\ \A p \in Objects : drift'[p] = drift[p] + One(p = m)
  BY Integral DEF Forgets, IInv, TypeOK, One
<1>DT. \A p \in Objects : Drifts(p)
  <2> SUFFICES ASSUME NEW p \in Objects PROVE Drifts(p)
    OBVIOUS
  <2>1. drift[p] \in Int /\ drift[p] \in -MaxDrift..MaxDrift
    BY <1>DR
  <2>2. drift'[p] = IF p = m THEN drift[p] + 1 ELSE drift[p]
    BY <1>DR
  <2> QED
    BY <1>DR, <2>1, <2>2 DEF Drifts
<1>6. Gains(m)
  BY ReferencedGains
<1>7. Shaped /\ \A p \in Objects : Grows(p) /\ count'[p] = count[p] + One(p = m)
  BY <1>6, <1>DR, GainsGrows DEF Shaped
<1>8. CountExact'
  <2>1. \A p \in Objects : /\ Weight(k, p) = One(p = m) /\ Weight(k, p)' = One(p = o) + One(p = m)
                           /\ Weight(v, p) = One(p = o) /\ Weight(v, p)' = 0
    BY <1>1 DEF Weight, One, Entry
  <2>2. \A r \in Slots \ {k, v} : Keeps(r)
    BY <1>1, <1>2 DEF Keeps
  <2>3. ASSUME NEW p \in Objects
        PROVE  /\ Gained(p) = Weight(k, p)' - Weight(k, p) + Weight(v, p)' - Weight(v, p)
               /\ count'[p] \in Int /\ drift'[p] \in Int
    <3>1. /\ count[p] \in Int /\ drift[p] \in Int /\ drift'[p] = drift[p] + One(p = m)
          /\ count'[p] = count[p] + One(p = m)
      BY <1>7, <1>DR
    <3>2. One(p = o) \in Int /\ One(p = m) \in Int
      BY DEF One
    <3>3. /\ Weight(k, p) = One(p = m) /\ Weight(k, p)' = One(p = o) + One(p = m)
          /\ Weight(v, p) = One(p = o) /\ Weight(v, p)' = 0
      BY <2>1
    <3> QED
      BY <3>1, <3>2, <3>3 DEF Gained
  <2> QED
    BY <1>1, <2>2, <2>3, ExactTwo
<1>9. ItemsApart'
  <2>1. \A r \in Slots \ {k} : slot'[r].home = h => slot'[r].home = slot[r].home /\ slot'[r].key = slot[r].key
    BY <1>2, <1>5
  <2>2. kind'[h] = "table" /\ kind'[m] = "string" /\ slot'[k].home = h /\ slot'[k].key = m /\ m # NULL
    BY <1>1 DEF Entry
  <2>3. Placed(k, h)
    <3>1. ASSUME NEW r \in Slots, slot'[r].home = h, slot'[r].key = m PROVE r = k
      BY <2>1, <3>1 DEF Found, Home
    <3> QED
      BY <2>2, <3>1 DEF Placed
  <2>4. ASSUME NEW s \in Slots, NEW g \in Objects, slot'[s].home = g
        PROVE  \/ slot'[s].home = slot[s].home /\ slot'[s].key = slot[s].key
               \/ kind'[g] = "array" /\ slot'[s].key = NULL
               \/ Placed(s, g)
    <3>1. CASE s = k
      BY <2>2, <2>3, <2>4, <3>1
    <3>2. CASE s # k
      BY <1>2, <1>5, <2>4, <3>2
    <3> QED
      BY <3>1, <3>2
  <2> QED
    BY <1>5, <1>7, <1>DT, <2>4, ItemsKept
<1>10. LateHeld'
  <2>1. HeldBy(k, o)'
    BY <1>1 DEF HeldBy, Entry
  <2>2. slot'[v].value = o
    BY <1>1
  <2> QED
    BY <1>1, <2>1, <2>2 DEF LateHeld
<1> QED
  BY <1>5, <1>7, <1>DT, <1>8, <1>9, <1>10, InstructionHolds

\* ... for the key of entry i
LEMMA SetEntryFound ==
  ASSUME IInv, CountsNeverNegative, Idle, NoDangling,
         NEW t \in Stack, NEW k \in Stack, NEW v \in Stack, NEW i \in Slots,
         NEW h \in Objects, NEW m \in Objects, NEW o \in Objects, NEW x \in Objects,
         t # k, t # v, k # v, kind[m] = "string", slot[i].home = h, slot[i].key = m,
         h = slot[t].value, m = slot[k].value, o = slot[v].value, x = slot[i].value,
         SetEntry(t, k, v), UNCHANGED count,
         Releases(t, {i, k}), Revalues(i, o), slot'[k] = Pending(x)
  PROVE  IInv'
<1> USE DEF Releases, Revalues
<1> UNCHANGED <<kind, deleted>> /\ late' = {v} /\ into' = h /\ Forgets(m, 1)
  BY DEF SetEntry
<1>1. /\ t \in Slots /\ k \in Slots /\ v \in Slots /\ i # t /\ i # k /\ i # v
      /\ slot[t] # Empty /\ slot[i] # Empty /\ NULL \notin Objects /\ late = {}
      /\ "pending" \notin Objects /\ "stack" \notin Objects /\ slot[i] \in SlotRecord
      /\ slot[k].key = NULL /\ slot[v].key = NULL /\ slot[v].home = "stack"
  BY Operands DEF Stack, Home, Empty, Idle
<1>2. ASSUME NEW s \in Slots \ {i, k}
      PROVE  Moved(s) /\ slot'[s].value = slot[s].value /\ slot'[s].key = slot[s].key
  BY <1>1, Operands DEF Moved, SlotRecord
<1>3. \A s \in Slots : Moved(s) \/ Stored(s)
  BY <1>1, <1>2 DEF Moved
<1>4. late' \subseteq Stack'
  BY <1>1 DEF Stack, Home
<1>5. SlotsTyped' /\ \A s \in Slots, g \in Objects : Moved(s) /\ slot'[s].home = g =>
              \/ slot'[s].home = slot[s].home /\ slot'[s].key = slot[s].key
              \/ kind'[g] = "array" /\ slot'[s].key = NULL
  BY <1>3, <1>4, MovedTyped
<1>6. slot'[i].value = o /\ slot'[i].key = m /\ slot'[i].home = h
  BY <1>1 DEF SlotRecord
<1>DR. /\ drift' = [drift EXCEPT ![m] = @ + 1] /\ drift[m] + 1 \in -MaxDrift..MaxDrift
      /\ drift \in [Objects -> Int] /\ drift \in [Objects -> -MaxDrift..MaxDrift]
      /\ count \in [Objects -> Int] /\ \A p \in Objects : drift'[p] = drift[p] + One(p = m)
  BY Integral DEF Forgets, IInv, TypeOK, One
<1>DT. \A p \in Objects : Drifts(p)
  <2> SUFFICES ASSUME NEW p \in Objects PROVE Drifts(p)
    OBVIOUS
  <2>1. drift[p] \in Int /\ drift[p] \in -MaxDrift..MaxDrift
    BY <1>DR
  <2>2. drift'[p] = IF p = m THEN drift[p] + 1 ELSE drift[p]
    BY <1>DR
  <2> QED
    BY <1>DR, <2>1, <2>2 DEF Drifts
<1>7. Shaped /\ \A p \in Objects : Grows(p)
  BY <1>DR DEF IInv, TypeOK, Shaped, Grows
<1>8. CountExact'
  <2>1. \A p \in Objects : /\ Weight(i, p) = One(p = x) + One(p = m) /\ Weight(i, p)' = One(p = o) + One(p = m)
                           /\ Weight(k, p) = One(p = m) /\ Weight(k, p)' = One(p = x)
                           /\ Weight(v, p) = One(p = o) /\ Weight(v, p)' = 0
    BY <1>1, <1>6 DEF Weight, One, Pending
  <2>2. \A r \in Slots \ {i, k, v} : Keeps(r)
    BY <1>1, <1>2 DEF Keeps
  <2>3. ASSUME NEW p \in Objects
        PROVE  /\ Gained(p) = Weight(i, p)' - Weight(i, p) + Weight(k, p)' - Weight(k, p)
                                                       + Weight(v, p)' - Weight(v, p)
               /\ count'[p] \in Int /\ drift'[p] \in Int
    <3>1. /\ count[p] \in Int /\ drift[p] \in Int /\ drift'[p] = drift[p] + One(p = m)
          /\ count'[p] = count[p]
      BY <1>DR
    <3>2. One(p = o) \in Int /\ One(p = m) \in Int /\ One(p = x) \in Int
      BY DEF One
    <3>3. /\ Weight(i, p) = One(p = x) + One(p = m) /\ Weight(i, p)' = One(p = o) + One(p = m)
          /\ Weight(k, p) = One(p = m) /\ Weight(k, p)' = One(p = x)
          /\ Weight(v, p) = One(p = o) /\ Weight(v, p)' = 0
      BY <2>1
    <3>4. Gained(p) = 0 - One(p = m) /\ count'[p] \in Int /\ drift'[p] \in Int
      BY <3>1, <3>2 DEF Gained
    <3>5. Weight(i, p)' - Weight(i, p) + Weight(k, p)' - Weight(k, p)
                              + Weight(v, p)' - Weight(v, p) = 0 - One(p = m)
      BY <3>2, <3>3
    <3> QED
      BY <3>4, <3>5
  <2> QED
    BY <1>1, <2>2, <2>3, ExactThree
<1>9. ItemsApart'
  <2>1. \A s \in Slots : Moved(s)
    BY <1>1, <1>2 DEF Moved
  <2> QED
    BY <1>5, <1>7, <1>DT, <2>1, ItemsKept
<1>10. LateHeld'
  <2>1. HeldBy(i, o)'
    BY <1>1, <1>6 DEF HeldBy
  <2>2. slot'[v].value = o
    BY <1>1
  <2> QED
    BY <1>1, <2>1, <2>2 DEF LateHeld
<1> QED
  BY <1>5, <1>7, <1>DT, <1>8, <1>9, <1>10, InstructionHolds

\* OP_SET_DYNAMIC of a table
LEMMA SetEntryHolds ==
  ASSUME IInv, CountsNeverNegative, Idle, NoDangling,
         NEW t \in Stack, NEW k \in Stack, NEW v \in Stack, SetEntry(t, k, v)
  PROVE  IInv'
<1>1. PICK h, m, o \in Objects : h = slot[t].value /\ m = slot[k].value /\ o = slot[v].value
  BY Operands DEF Stack, Home
<1>2. /\ kind[m] = "string" /\ kind[h] = "table" /\ Forgets(m, 1)
      /\ UNCHANGED <<kind, deleted>> /\ late' = {v} /\ into' = h
  BY <1>1 DEF SetEntry, Container
<1>3. t # k /\ t # v /\ k # v
  BY Distinct DEF SetEntry
<1>4. \/ /\ Found(h, m) = {}
         /\ Referenced(m)
         /\ slot' = [slot EXCEPT ![k] = Entry(h, m, o), ![t].home = "pending"]
      \/ \E i \in Found(h, m) :
           /\ slot' = [slot EXCEPT ![i].value = o, ![t].home = "pending", ![k] = Pending(slot[i].value)]
           /\ UNCHANGED count
  BY <1>1 DEF SetEntry
<1>5. CASE Found(h, m) = {}
  <2>1. /\ Referenced(m)
        /\ slot' = [slot EXCEPT ![k] = Entry(h, m, o), ![t].home = "pending"]
    BY <1>4, <1>5
  <2>2. Releases(t, {k}) /\ slot'[k] = Entry(h, m, o)
    BY <1>3, <2>1, Operands DEF Stack, Home, Releases
  <2>3. Referenced(m)
    BY <2>1
  <2> QED
    BY <1>1, <1>2, <1>3, <1>5, <2>2, <2>3, SetEntryNew
<1>6. CASE Found(h, m) # {}
  <2>1. PICK i \in Found(h, m) :
           /\ slot' = [slot EXCEPT ![i].value = o, ![t].home = "pending", ![k] = Pending(slot[i].value)]
           /\ UNCHANGED count
    BY <1>4, <1>6
  <2>2. i \in Slots /\ slot[i].home = h /\ slot[i].key = m
    BY DEF Found, Home
  <2>3. PICK x \in Objects : x = slot[i].value
    BY <2>2, Operands
  <2>4. i # t /\ i # k /\ t \in Slots /\ k \in Slots
    BY <2>2, Operands DEF Stack, Home
  <2>5. Releases(t, {i, k}) /\ Revalues(i, o) /\ slot'[k] = Pending(x)
    BY <1>3, <2>1, <2>2, <2>3, <2>4, Operands DEF Releases, Revalues
  <2>6. UNCHANGED count
    BY <2>1
  <2> QED
    BY <1>1, <1>2, <1>3, <2>2, <2>3, <2>5, <2>6, SetEntryFound
<1> QED
  BY <1>5, <1>6

\* Copies in slots of their own are as many as what is copied
LEMMA CountImage ==
  ASSUME NEW S \in SUBSET Slots, NEW f \in Copies(S), NEW M \in SUBSET S
  PROVE  Cardinality({f[i] : i \in M}) = Cardinality(M)
<1> DEFINE T == {f[i] : i \in M}
           g == [i \in M |-> f[i]]
<1>1. IsFiniteSet(M)
  BY CountType
<1>2. f \in [S -> Free] /\ \A r, s \in S : f[r] = f[s] => r = s
  BY DEF Copies
<1>3. g \in [M -> T]
  BY <1>2
<1>4. \A r, s \in M : g[r] = g[s] => r = s
  BY <1>2
<1>5. \A t \in T : \E s \in M : g[s] = t
  OBVIOUS
<1> HIDE DEF T, g
<1>6. g \in Bijection(M, T)
  <2>1. g \in Injection(M, T)
    BY <1>3, <1>4 DEF Injection, IsInjective
  <2>2. g \in Surjection(M, T)
    BY <1>3, <1>5 DEF Surjection
  <2> QED
    BY <2>1, <2>2 DEF Bijection
<1>7. ExistsBijection(M, T)
  BY <1>6 DEF ExistsBijection
<1>8. Cardinality(T) = Cardinality(M)
  BY <1>1, <1>7, FS_Bijection
<1> QED
  BY <1>8 DEF T

\* Sets of slots that differ in two slots, and in copies of the slots of M
AddsCopies(A, B, a, d, S, f, M) ==
  /\ A \in SUBSET Slots /\ B \in SUBSET Slots /\ a \in Slots /\ d \in Slots /\ a # d
  /\ S \in SUBSET Slots /\ f \in Copies(S) /\ M \in SUBSET S
  /\ \A i \in S : f[i] # a /\ f[i] # d /\ f[i] \notin A /\ (f[i] \in B <=> i \in M)
  /\ \A s \in Slots \ {a, d} : (\A i \in S : f[i] # s) => (s \in A <=> s \in B)

\* ... are as many as before, less the two slots and the copies
LEMMA CountCopies ==
  ASSUME NEW A, NEW B, NEW a, NEW d, NEW S, NEW f, NEW M,
         AddsCopies(A, B, a, d, S, f, M)
  PROVE  /\ Cardinality(A) \in Nat /\ Cardinality(B) \in Nat /\ Cardinality(M) \in Nat
         /\ Cardinality(B) = Cardinality(A) - One(a \in A) - One(d \in A)
                              + One(a \in B) + One(d \in B) + Cardinality(M)
<1> DEFINE J == {f[i] : i \in M}
           C == B \ J
<1> USE DEF AddsCopies
<1>1. f \in [S -> Slots]
  BY DEF Copies, Free, Home
<1>2. J \in SUBSET Slots /\ J \subseteq B /\ C \in SUBSET Slots /\ B = C \cup J /\ C \cap J = {}
  BY <1>1
<1>3. A \ {a, d} = C \ {a, d} /\ (a \in C <=> a \in B) /\ (d \in C <=> d \in B)
  BY <1>1
<1>4. Cardinality(J) = Cardinality(M)
  BY CountImage
<1> HIDE DEF J, C
<1>5. /\ Cardinality(A) \in Nat /\ Cardinality(C) \in Nat
      /\ Cardinality(C) = Cardinality(A) - One(a \in A) - One(d \in A) + One(a \in C) + One(d \in C)
  BY <1>2, <1>3, CountTwo
<1>6. /\ IsFiniteSet(J) /\ IsFiniteSet(C) /\ Cardinality(J) \in Nat
      /\ Cardinality({}) = 0
  BY <1>2, CountType, FS_EmptySet
<1>7. Cardinality(B) = Cardinality(C) + Cardinality(J)
  <2>1. Cardinality(C \cup J) = Cardinality(C) + Cardinality(J) - Cardinality(C \cap J)
    BY <1>6, FS_Union
  <2>2. Cardinality(C \cup J) = Cardinality(B) /\ Cardinality(C \cap J) = 0
    BY <1>2, <1>6
  <2> QED
    BY <1>5, <1>6, <2>1, <2>2
<1> QED
  BY <1>3, <1>4, <1>5, <1>6, <1>7 DEF One

\* Slot a holds the new container o, slot d what is left of the old one, and the
\* slots of f the copies mk
Replaced(a, o, d, S, f, mk) ==
  /\ slot' = [s \in Slots |-> slot'[s]]
  /\ slot'[a] = OnStack(o) /\ slot'[d] = Pending(slot[a].value)
  /\ \A i \in S : slot'[f[i]] = mk[i]
  /\ \A s \in Slots \ {a, d} : (\A i \in S : f[i] # s) => slot'[s] = slot[s]

\* how often the copies refer to p
CopiedValues(S, mk, p) == {i \in S : mk[i].value = p}
CopiedKeys(S, mk, p) == {i \in S : mk[i].key = p}

\* Copies are items of the new container o, of kind k
GoodCopies(o, k, S, mk) ==
  \A i \in S :
    /\ mk[i] \in SlotRecord /\ mk[i].home = o
    /\ mk[i].value \in Objects /\ kind[mk[i].value] # "free"
    /\ k = "array" => mk[i].key = NULL
    /\ k = "table" =>
         /\ mk[i].key \in Objects /\ kind[mk[i].key] # "free"
         /\ kind[mk[i].key] = "string" \/ drift[mk[i].key] < 0
         /\ \A j \in S : mk[j].key = mk[i].key => j = i

\* each object has a reference for every copy of it, and the new one its first
CountedCopies(o, k, S, mk) ==
  /\ kind[o] = "free" /\ kind' = [kind EXCEPT ![o] = k]
  /\ count' = [p \in Objects |-> count'[p]]
  /\ \A p \in Objects : count'[p] =
       IF p = o THEN 1
       ELSE count[p] + Cardinality(CopiedValues(S, mk, p)) + Cardinality(CopiedKeys(S, mk, p))

\* A container that replaces another one preserves the invariant
LEMMA ReplaceHolds ==
  ASSUME IInv, CountsNeverNegative, Idle, UNCHANGED <<late, into, drift, deleted>>,
         NEW a \in Stack, NEW o \in Objects \ Literals, NEW k \in {"array", "table"},
         NEW S \in SUBSET Slots, NEW d \in Free, NEW f \in Copies(S), NEW mk,
         \A i \in S : f[i] # d,
         Replaced(a, o, d, S, f, mk), CountedCopies(o, k, S, mk), GoodCopies(o, k, S, mk)
  PROVE  IInv'
<1>1. PICK h \in Objects : h = slot[a].value
  BY Operands DEF Stack, Home
<1>2. /\ a \in Slots /\ d \in Slots /\ a # d /\ slot[d] = Empty /\ slot[a].key = NULL
      /\ slot[a] # Empty /\ NULL \notin Objects /\ late = {}
      /\ f \in [S -> Slots] /\ \A i \in S : slot[f[i]] = Empty /\ f[i] # a /\ f[i] # d
      /\ \A r, s \in S : f[r] = f[s] => r = s
  BY Operands DEF Stack, Free, Home, Idle, Empty, Copies
<1>3. /\ slot' = [s \in Slots |-> slot'[s]]
      /\ slot'[a] = OnStack(o) /\ slot'[d] = Pending(h)
      /\ \A i \in S : slot'[f[i]] = mk[i]
      /\ \A s \in Slots \ {a, d} : (\A i \in S : f[i] # s) => slot'[s] = slot[s]
  BY <1>1 DEF Replaced
<1>4. \A i \in S : /\ mk[i] \in SlotRecord /\ mk[i].home = o /\ mk[i].value \in Objects
                   /\ k = "array" => mk[i].key = NULL
                   /\ k = "table" => mk[i].key \in Objects
  BY DEF GoodCopies
<1>5. kind' = [p \in Objects |-> kind'[p]] /\ kind'[o] = k /\ kind[o] = "free"
      /\ \A p \in Objects : p # o => kind'[p] = kind[p]
  BY DEF CountedCopies, IInv, TypeOK
<1>6. \A i \in S : Moved(f[i]) \/ Stored(f[i])
  <2> SUFFICES ASSUME NEW i \in S PROVE Moved(f[i]) \/ Stored(f[i])
    OBVIOUS
  <2>1. CASE k = "array"
    <3>1. slot'[f[i]] = ItemOf(o, mk[i].value)
      BY <1>3, <1>4, <2>1 DEF ItemOf, SlotRecord
    <3> QED
      BY <1>4, <1>5, <2>1, <3>1 DEF Moved
  <2>2. CASE k = "table"
    <3>1. slot'[f[i]] = Entry(o, mk[i].key, mk[i].value)
      BY <1>3, <1>4, <2>2 DEF Entry, SlotRecord
    <3> QED
      BY <1>4, <2>2, <3>1 DEF Stored
  <2> QED
    BY <2>1, <2>2
<1>7. \A s \in Slots : Moved(s) \/ Stored(s)
  <2> SUFFICES ASSUME NEW s \in Slots PROVE Moved(s) \/ Stored(s)
    OBVIOUS
  <2>1. CASE \E i \in S : f[i] = s
    BY <1>6, <2>1
  <2>2. CASE s = a \/ s = d
    BY <1>3, <2>2 DEF Moved
  <2>3. CASE s # a /\ s # d /\ \A i \in S : f[i] # s
    BY <1>3, <2>3 DEF Moved
  <2> QED
    BY <2>1, <2>2, <2>3
<1>8. late' \subseteq Stack'
  BY <1>2
<1>9. SlotsTyped' /\ \A s \in Slots, g \in Objects : Moved(s) /\ slot'[s].home = g =>
              \/ slot'[s].home = slot[s].home /\ slot'[s].key = slot[s].key
              \/ kind'[g] = "array" /\ slot'[s].key = NULL
  BY <1>3, <1>7, <1>8, MovedTyped
<1>10. \A p \in Objects :
         /\ CopiedValues(S, mk, p) \in SUBSET S /\ CopiedKeys(S, mk, p) \in SUBSET S
         /\ Cardinality(CopiedValues(S, mk, p)) \in Nat /\ Cardinality(CopiedKeys(S, mk, p)) \in Nat
  BY CountType DEF CopiedValues, CopiedKeys
<1>11. \A p \in Objects : count[p] \in Int /\ drift[p] \in Int /\ drift'[p] = drift[p]
  BY Integral
<1>12. count[o] = 0
  BY <1>5, <1>11 DEF IInv, AliveCounted, CountsNeverNegative
<1>13. \A p \in Objects : kind[p] = "free" => CopiedValues(S, mk, p) = {} /\ CopiedKeys(S, mk, p) = {}
  BY <1>2 DEF GoodCopies, CopiedValues, CopiedKeys
<1>14. \A p \in Objects :
         count'[p] = count[p] + One(p = o) + Cardinality(CopiedValues(S, mk, p))
                                           + Cardinality(CopiedKeys(S, mk, p))
  <2> SUFFICES ASSUME NEW p \in Objects
               PROVE  count'[p] = count[p] + One(p = o) + Cardinality(CopiedValues(S, mk, p))
                                           + Cardinality(CopiedKeys(S, mk, p))
    OBVIOUS
  <2>1. CASE p = o
    <3>1. CopiedValues(S, mk, p) = {} /\ CopiedKeys(S, mk, p) = {} /\ Cardinality({}) = 0
      BY <1>5, <1>13, <2>1, FS_EmptySet
    <3>2. count'[p] = 1
      BY <2>1 DEF CountedCopies
    <3> QED
      BY <1>12, <2>1, <3>1, <3>2 DEF One
  <2>2. CASE p # o
    <3>1. count'[p] = count[p] + Cardinality(CopiedValues(S, mk, p)) + Cardinality(CopiedKeys(S, mk, p))
      BY <2>2 DEF CountedCopies
    <3> QED
      BY <1>10, <1>11, <2>2, <3>1 DEF One
  <2> QED
    BY <2>1, <2>2
<1>15. Shaped /\ \A p \in Objects : Grows(p) /\ Drifts(p)
  <2>1. Shaped /\ \A p \in Objects : Drifts(p)
    <3>1. count' = [p \in Objects |-> count'[p]]
      BY DEF CountedCopies
    <3>2. drift' = drift /\ drift \in [Objects -> -MaxDrift..MaxDrift]
      BY DEF IInv, TypeOK
    <3>3. Shaped
      BY <1>5, <3>1, <3>2 DEF Shaped
    <3>4. \A p \in Objects : Drifts(p)
      BY <1>11, <3>2 DEF Drifts
    <3> QED
      BY <3>3, <3>4
  <2>2. ASSUME NEW p \in Objects PROVE Grows(p)
    <3>1. CASE p = o
      BY <1>5, <3>1 DEF Grows, CountedCopies
    <3>2. CASE p # o /\ kind[p] = "free"
      <4>1. Cardinality(CopiedValues(S, mk, p)) = 0 /\ Cardinality(CopiedKeys(S, mk, p)) = 0
        BY <1>13, <3>2, FS_EmptySet
      <4>2. count'[p] = count[p]
        BY <1>11, <1>14, <3>2, <4>1 DEF One
      <4> QED
        BY <1>5, <3>2, <4>2 DEF Grows
    <3>3. CASE p # o /\ kind[p] # "free"
      <4>1. count'[p] \in Int /\ count'[p] >= count[p] /\ count[p] \in Int
        BY <1>10, <1>11, <1>14, <3>3 DEF One
      <4> QED
        BY <1>5, <3>3, <4>1 DEF Grows
    <3> QED
      BY <3>1, <3>2, <3>3
  <2> QED
    BY <2>1, <2>2
<1>16. CountExact'
  <2> SUFFICES ASSUME NEW p \in Objects PROVE count'[p] = Owners(p)' + drift'[p]
    BY DEF CountExact
  <2> DEFINE V == CopiedValues(S, mk, p)
             K == CopiedKeys(S, mk, p)
  <2>1. /\ Values(p) \in SUBSET Slots /\ Values(p)' \in SUBSET Slots
        /\ Keys(p) \in SUBSET Slots /\ Keys(p)' \in SUBSET Slots
        /\ V \in SUBSET S /\ K \in SUBSET S
    BY <1>10 DEF Values, Keys
  <2>2. AddsCopies(Values(p), Values(p)', a, d, S, f, V)
    BY <1>2, <1>3, <1>10 DEF AddsCopies, Values, CopiedValues, Empty
  <2>3. AddsCopies(Keys(p), Keys(p)', a, d, S, f, K)
    BY <1>2, <1>3, <1>10 DEF AddsCopies, Keys, CopiedKeys, Empty
  <2>4. /\ a \in Values(p) <=> p = h
        /\ d \notin Values(p)
        /\ a \in Values(p)' <=> p = o
        /\ d \in Values(p)' <=> p = h
        /\ a \notin Keys(p) /\ d \notin Keys(p) /\ a \notin Keys(p)' /\ d \notin Keys(p)'
    BY <1>1, <1>2, <1>3 DEF Values, Keys, OnStack, Pending, Empty
  <2> HIDE DEF V, K
  <2>5. /\ Cardinality(Values(p)) \in Nat /\ Cardinality(Values(p)') \in Nat /\ Cardinality(V) \in Nat
        /\ Cardinality(Values(p)') = Cardinality(Values(p)) - One(a \in Values(p)) - One(d \in Values(p))
                              + One(a \in Values(p)') + One(d \in Values(p)') + Cardinality(V)
    BY <2>2, CountCopies
  <2>6. /\ Cardinality(Keys(p)) \in Nat /\ Cardinality(Keys(p)') \in Nat /\ Cardinality(K) \in Nat
        /\ Cardinality(Keys(p)') = Cardinality(Keys(p)) - One(a \in Keys(p)) - One(d \in Keys(p))
                              + One(a \in Keys(p)') + One(d \in Keys(p)') + Cardinality(K)
    BY <2>3, CountCopies
  <2>7. /\ Cardinality(Values(p)') = Cardinality(Values(p)) + One(p = o) + Cardinality(V)
        /\ Cardinality(Keys(p)') = Cardinality(Keys(p)) + Cardinality(K)
    BY <2>4, <2>5, <2>6 DEF One
  <2>8. /\ Compiler(p)' = Compiler(p) /\ Compiler(p) \in Int /\ One(p = o) \in Int
        /\ count[p] = Cardinality(Values(p)) + Cardinality(Keys(p)) + Compiler(p) + drift[p]
    BY DEF Compiler, One, IInv, CountExact, Idle, Owners
  <2>9. count'[p] = count[p] + One(p = o) + Cardinality(V) + Cardinality(K)
    BY <1>14 DEF V, K
  <2>10. Owners(p)' = Cardinality(Values(p)') + Cardinality(Keys(p)') + Compiler(p)'
    BY DEF Owners
  <2> QED
    BY <1>11, <2>5, <2>6, <2>7, <2>8, <2>9, <2>10
<1>17. ItemsApart'
  <2>1. \A s \in Slots : slot[s].home # o
    BY <1>5 DEF IInv, Idle, ItemsApart
  <2>2. ASSUME NEW s \in Slots, NEW g \in Objects, slot'[s].home = g
        PROVE  \/ slot'[s].home = slot[s].home /\ slot'[s].key = slot[s].key
               \/ kind'[g] = "array" /\ slot'[s].key = NULL
               \/ Placed(s, g)
    <3>1. CASE Moved(s)
      BY <1>9, <2>2, <3>1
    <3>2. CASE ~Moved(s)
      <4>1. PICK i \in S : f[i] = s
        BY <1>3, <3>2 DEF Moved
      <4>2. slot'[s] = mk[i] /\ g = o
        BY <1>3, <1>4, <2>2, <4>1
      <4>3. CASE k = "array"
        BY <1>4, <1>5, <4>2, <4>3
      <4>4. CASE k = "table"
        <5>1. PICK m \in Objects : m = mk[i].key
          BY <1>4, <4>4
        <5>2. /\ kind[m] # "free" /\ (kind[m] = "string" \/ drift[m] < 0)
              /\ \A j \in S : mk[j].key = m => j = i
          BY <4>4, <5>1 DEF GoodCopies
        <5>3. kind'[m] = "string" \/ drift'[m] < 0
          BY <1>5, <1>11, <5>2
        <5>4. ASSUME NEW r \in Slots, slot'[r].home = o, slot'[r].key = m PROVE r = s
          <6>1. slot'[r] # slot[r] /\ r # a /\ r # d
            BY <1>2, <1>3, <2>1, <5>4 DEF OnStack, Pending
          <6>2. PICK j \in S : f[j] = r
            BY <1>3, <6>1
          <6> QED
            BY <1>3, <4>1, <5>2, <5>4, <6>2
        <5> QED
          BY <1>2, <1>5, <4>2, <4>4, <5>1, <5>3, <5>4 DEF Placed
      <4> QED
        BY <4>3, <4>4
    <3> QED
      BY <3>1, <3>2
  <2> QED
    BY <1>9, <1>15, <2>2, ItemsKept
<1>18. into' \in Objects \cup {NULL} /\ LateHeld'
  BY LateNone, Integral
<1> QED
  BY <1>9, <1>15, <1>16, <1>17, <1>18, InstructionHolds

\* OP_COPY, OP_SLICE of an array
LEMMA CopyArrayHolds ==
  ASSUME IInv, CountsNeverNegative, Idle, NoDangling, NEW a \in Stack, NEW o \in Objects,
         NEW S \in SUBSET Slots, CopyArray(a, o, S)
  PROVE  IInv'
<1>1. PICK h \in Objects : h = slot[a].value /\ \A i \in S : slot[i].home = h
  BY Operands DEF CopyArray, Container, Stack, Home
<1> DEFINE mk == [i \in S |-> ItemOf(o, slot[i].value)]
<1>2. \A p : /\ {i \in S : ItemOf(o, slot[i].value).value = p} = CopiedValues(S, mk, p)
             /\ {i \in S : ItemOf(o, slot[i].value).key = p} = CopiedKeys(S, mk, p)
  BY DEF CopiedValues, CopiedKeys
<1>3. PICK d \in Free, f \in Copies(S) :
        /\ d \notin {f[i] : i \in S}
        /\ slot' = [s \in Slots |->
             IF s = a THEN OnStack(o)
             ELSE IF s = d THEN Pending(slot[a].value)
             ELSE IF \E i \in S : f[i] = s THEN ItemOf(o, slot[CHOOSE i \in S : f[i] = s].value)
             ELSE slot[s]]
        /\ kind[o] = "free" /\ o \notin Literals
        /\ kind' = [kind EXCEPT ![o] = "array"]
        /\ count' = [p \in Objects |-> IF p = o THEN 1
             ELSE count[p] + (Cardinality({i \in S : ItemOf(o, slot[i].value).value = p})
                              + Cardinality({i \in S : ItemOf(o, slot[i].value).key = p}))]
  BY SMTT(60) DEF CopyArray, Replace
<1>4. UNCHANGED <<late, into, drift, deleted>>
  BY DEF CopyArray, Replace

<1>5. /\ a \in Slots /\ d \in Slots /\ a # d /\ f \in [S -> Slots] /\ \A i \in S : f[i] # a
      /\ slot[a].value = h /\ NULL \notin Objects
      /\ \A r, s \in S : f[r] = f[s] => r = s
  BY <1>1, Operands DEF Stack, Free, Home, Copies
<1>6. \A i \in S : (CHOOSE j \in S : f[j] = f[i]) = i
  BY <1>5
<1>7. \A i \in S : f[i] # d
  BY <1>3
<1>8. Replaced(a, o, d, S, f, mk)
  <2>1. \A i \in S : slot'[f[i]] = mk[i]
    BY <1>3, <1>5, <1>6, <1>7
  <2> QED
    BY <1>3, <1>5, <2>1 DEF Replaced
<1>9. GoodCopies(o, "array", S, mk)
  <2>1. ASSUME NEW i \in S
        PROVE  /\ slot[i].value \in Objects /\ kind[slot[i].value] # "free"
               /\ mk[i] = ItemOf(o, slot[i].value)
    BY <1>1, <1>5, Operands DEF NoDangling
  <2> QED
    BY <2>1 DEF GoodCopies, ItemOf, SlotRecord, Homes
<1> HIDE DEF mk
<1>10. CountedCopies(o, "array", S, mk)
  <2>1. \A p \in Objects : /\ Cardinality(CopiedValues(S, mk, p)) \in Nat
                           /\ Cardinality(CopiedKeys(S, mk, p)) \in Nat /\ count[p] \in Int
    BY CountType, Integral DEF CopiedValues, CopiedKeys
  <2>2. \A p \in Objects : count'[p] = IF p = o THEN 1
             ELSE count[p] + (Cardinality(CopiedValues(S, mk, p)) + Cardinality(CopiedKeys(S, mk, p)))
    BY <1>2, <1>3
  <2>3. count' = [p \in Objects |-> count'[p]] /\ kind[o] = "free"
    BY <1>3
  <2>4. \A p \in Objects : count'[p] = IF p = o THEN 1
             ELSE count[p] + Cardinality(CopiedValues(S, mk, p)) + Cardinality(CopiedKeys(S, mk, p))
    BY <2>1, <2>2
  <2> QED
    BY <1>3, <2>3, <2>4 DEF CountedCopies
<1> QED
  BY <1>3, <1>4, <1>7, <1>8, <1>9, <1>10, ReplaceHolds

\* OP_COPY of a table
LEMMA CopyTableHolds ==
  ASSUME IInv, CountsNeverNegative, Idle, NoDangling, NEW a \in Stack, NEW o \in Objects,
         CopyTable(a, o)
  PROVE  IInv'
<1>1. PICK h \in Objects : h = slot[a].value /\ kind[h] = "table"
  BY Operands DEF CopyTable, Container, Stack, Home
<1> DEFINE S == Home(h)
<1> S \in SUBSET Slots /\ \A i \in S : slot[i].home = h /\ slot[i].value \in Objects
  BY Operands DEF Home
<1> DEFINE mk == [i \in S |-> Entry(o, slot[i].key, slot[i].value)]
<1>2. \A p : /\ {i \in S : Entry(o, slot[i].key, slot[i].value).value = p} = CopiedValues(S, mk, p)
             /\ {i \in S : Entry(o, slot[i].key, slot[i].value).key = p} = CopiedKeys(S, mk, p)
  BY DEF CopiedValues, CopiedKeys
<1>3. PICK d \in Free, f \in Copies(S) :
        /\ d \notin {f[i] : i \in S}
        /\ slot' = [s \in Slots |->
             IF s = a THEN OnStack(o)
             ELSE IF s = d THEN Pending(slot[a].value)
             ELSE IF \E i \in S : f[i] = s THEN Entry(o, slot[CHOOSE i \in S : f[i] = s].key, slot[CHOOSE i \in S : f[i] = s].value)
             ELSE slot[s]]
        /\ kind[o] = "free" /\ o \notin Literals
        /\ kind' = [kind EXCEPT ![o] = "table"]
        /\ count' = [p \in Objects |-> IF p = o THEN 1
             ELSE count[p] + (Cardinality({i \in S : Entry(o, slot[i].key, slot[i].value).value = p})
                              + Cardinality({i \in S : Entry(o, slot[i].key, slot[i].value).key = p}))]
  BY <1>1, SMTT(60) DEF CopyTable, Replace
<1>4. UNCHANGED <<late, into, drift, deleted>>
  BY DEF CopyTable, Replace

<1>5. /\ a \in Slots /\ d \in Slots /\ a # d /\ f \in [S -> Slots] /\ \A i \in S : f[i] # a
      /\ slot[a].value = h /\ NULL \notin Objects
      /\ \A r, s \in S : f[r] = f[s] => r = s
  BY <1>1, Operands DEF Stack, Free, Home, Copies
<1>6. \A i \in S : (CHOOSE j \in S : f[j] = f[i]) = i
  BY <1>5
<1>7. \A i \in S : f[i] # d
  BY <1>3
<1>8. Replaced(a, o, d, S, f, mk)
  <2>1. \A i \in S : slot'[f[i]] = mk[i]
    BY <1>3, <1>5, <1>6, <1>7
  <2> QED
    BY <1>3, <1>5, <2>1 DEF Replaced
<1>9. GoodCopies(o, "table", S, mk)
  <2>1. ASSUME NEW i \in S
        PROVE  /\ slot[i].value \in Objects /\ kind[slot[i].value] # "free"
               /\ slot[i].key \in Objects /\ kind[slot[i].key] # "free"
               /\ kind[slot[i].key] = "string" \/ drift[slot[i].key] < 0
               /\ \A j \in S : slot[j].key = slot[i].key => j = i
               /\ mk[i] = Entry(o, slot[i].key, slot[i].value)
    <3>1. /\ slot[i].key # NULL /\ slot[i].key \in Objects
          /\ kind[slot[i].key] = "string" \/ drift[slot[i].key] < 0
          /\ \A r \in Slots : slot[r].home = h /\ slot[r].key = slot[i].key => r = i
      BY <1>1, Operands DEF IInv, Idle, ItemsApart, SlotRecord
    <3> QED
      BY <1>1, <1>5, <3>1, Operands DEF NoDangling
  <2> QED
    BY <2>1 DEF GoodCopies, Entry, SlotRecord, Homes
<1> HIDE DEF mk
<1>10. CountedCopies(o, "table", S, mk)
  <2>1. \A p \in Objects : /\ Cardinality(CopiedValues(S, mk, p)) \in Nat
                           /\ Cardinality(CopiedKeys(S, mk, p)) \in Nat /\ count[p] \in Int
    BY CountType, Integral DEF CopiedValues, CopiedKeys
  <2>2. \A p \in Objects : count'[p] = IF p = o THEN 1
             ELSE count[p] + (Cardinality(CopiedValues(S, mk, p)) + Cardinality(CopiedKeys(S, mk, p)))
    BY <1>2, <1>3
  <2>3. count' = [p \in Objects |-> count'[p]] /\ kind[o] = "free"
    BY <1>3
  <2>4. \A p \in Objects : count'[p] = IF p = o THEN 1
             ELSE count[p] + Cardinality(CopiedValues(S, mk, p)) + Cardinality(CopiedKeys(S, mk, p))
    BY <2>1, <2>2
  <2> QED
    BY <1>3, <2>3, <2>4 DEF CountedCopies
<1> QED
  BY <1>3, <1>4, <1>7, <1>8, <1>9, <1>10, ReplaceHolds

\* OP_KEYS of a table
LEMMA KeysOfHolds ==
  ASSUME IInv, CountsNeverNegative, Idle, NoDangling, NEW a \in Stack, NEW o \in Objects,
         KeysOf(a, o)
  PROVE  IInv'
<1>1. PICK h \in Objects : h = slot[a].value /\ kind[h] = "table"
  BY Operands DEF KeysOf, Container, Stack, Home
<1> DEFINE S == Home(h)
<1> S \in SUBSET Slots /\ \A i \in S : slot[i].home = h /\ slot[i].value \in Objects
  BY Operands DEF Home
<1> DEFINE mk == [i \in S |-> ItemOf(o, slot[i].key)]
<1>2. \A p : /\ {i \in S : ItemOf(o, slot[i].key).value = p} = CopiedValues(S, mk, p)
             /\ {i \in S : ItemOf(o, slot[i].key).key = p} = CopiedKeys(S, mk, p)
  BY DEF CopiedValues, CopiedKeys
<1>3. PICK d \in Free, f \in Copies(S) :
        /\ d \notin {f[i] : i \in S}
        /\ slot' = [s \in Slots |->
             IF s = a THEN OnStack(o)
             ELSE IF s = d THEN Pending(slot[a].value)
             ELSE IF \E i \in S : f[i] = s THEN ItemOf(o, slot[CHOOSE i \in S : f[i] = s].key)
             ELSE slot[s]]
        /\ kind[o] = "free" /\ o \notin Literals
        /\ kind' = [kind EXCEPT ![o] = "array"]
        /\ count' = [p \in Objects |-> IF p = o THEN 1
             ELSE count[p] + (Cardinality({i \in S : ItemOf(o, slot[i].key).value = p})
                              + Cardinality({i \in S : ItemOf(o, slot[i].key).key = p}))]
  BY <1>1, SMTT(60) DEF KeysOf, Replace
<1>4. UNCHANGED <<late, into, drift, deleted>>
  BY DEF KeysOf, Replace

<1>5. /\ a \in Slots /\ d \in Slots /\ a # d /\ f \in [S -> Slots] /\ \A i \in S : f[i] # a
      /\ slot[a].value = h /\ NULL \notin Objects
      /\ \A r, s \in S : f[r] = f[s] => r = s
  BY <1>1, Operands DEF Stack, Free, Home, Copies
<1>6. \A i \in S : (CHOOSE j \in S : f[j] = f[i]) = i
  BY <1>5
<1>7. \A i \in S : f[i] # d
  BY <1>3
<1>8. Replaced(a, o, d, S, f, mk)
  <2>1. \A i \in S : slot'[f[i]] = mk[i]
    BY <1>3, <1>5, <1>6, <1>7
  <2> QED
    BY <1>3, <1>5, <2>1 DEF Replaced
<1>9. GoodCopies(o, "array", S, mk)
  <2>1. ASSUME NEW i \in S
        PROVE  /\ slot[i].key \in Objects /\ kind[slot[i].key] # "free"
               /\ mk[i] = ItemOf(o, slot[i].key)
    <3>1. slot[i].key # NULL /\ slot[i].key \in Objects
      BY <1>1, Operands DEF IInv, Idle, ItemsApart, SlotRecord
    <3> QED
      BY <1>1, <1>5, <3>1, Operands DEF NoDangling
  <2> QED
    BY <2>1 DEF GoodCopies, ItemOf, SlotRecord, Homes
<1> HIDE DEF mk
<1>10. CountedCopies(o, "array", S, mk)
  <2>1. \A p \in Objects : /\ Cardinality(CopiedValues(S, mk, p)) \in Nat
                           /\ Cardinality(CopiedKeys(S, mk, p)) \in Nat /\ count[p] \in Int
    BY CountType, Integral DEF CopiedValues, CopiedKeys
  <2>2. \A p \in Objects : count'[p] = IF p = o THEN 1
             ELSE count[p] + (Cardinality(CopiedValues(S, mk, p)) + Cardinality(CopiedKeys(S, mk, p)))
    BY <1>2, <1>3
  <2>3. count' = [p \in Objects |-> count'[p]] /\ kind[o] = "free"
    BY <1>3
  <2>4. \A p \in Objects : count'[p] = IF p = o THEN 1
             ELSE count[p] + Cardinality(CopiedValues(S, mk, p)) + Cardinality(CopiedKeys(S, mk, p))
    BY <2>1, <2>2
  <2> QED
    BY <1>3, <2>3, <2>4 DEF CountedCopies
<1> QED
  BY <1>3, <1>4, <1>7, <1>8, <1>9, <1>10, ReplaceHolds

-----------------------------------------------------------------------------
(* The steps between instructions *)

\* Two places that own an object are counted
LEMMA TwoOwners ==
  ASSUME NEW o, NEW q \in Slots, NEW r \in Slots, q # r,
         q \in Values(o), r \in Values(o) \/ r \in Keys(o)
  PROVE  Owners(o) >= 2
<1>1. /\ Cardinality(Values(o)) \in Nat /\ Cardinality(Keys(o)) \in Nat
      /\ Compiler(o) \in {0, 1}
  BY OwnersType
<1>2. ASSUME NEW A \in SUBSET Slots, A # {} PROVE Cardinality(A) >= 1
  <2>1. Cardinality(A) \in Nat /\ IsFiniteSet(A)
    BY CountType
  <2>2. Cardinality(A) # 0
    BY <1>2, <2>1, FS_EmptySet
  <2> QED
    BY <2>1, <2>2
<1>3. CASE r \in Values(o)
  <2> DEFINE A == Values(o)
             B == Values(o) \ {r}
  <2>1. A \in SUBSET Slots /\ B \in SUBSET Slots /\ A \ {r} = B \ {r} /\ B # {} /\ r \in A /\ r \notin B
    BY <1>3 DEF Values
  <2> HIDE DEF A, B
  <2>2. Cardinality(A) \in Nat /\ Cardinality(B) = Cardinality(A) - One(r \in A) + One(r \in B)
    BY <2>1, CountOne
  <2>3. Cardinality(B) >= 1
    BY <1>2, <2>1
  <2>4. Cardinality(A) >= 2
    BY <2>1, <2>2, <2>3 DEF One
  <2> QED
    BY <1>1, <2>4 DEF Owners, A
<1>4. CASE r \in Keys(o)
  <2>1. Values(o) \in SUBSET Slots /\ Keys(o) \in SUBSET Slots /\ Values(o) # {} /\ Keys(o) # {}
    BY <1>4 DEF Values, Keys
  <2>2. Cardinality(Values(o)) >= 1 /\ Cardinality(Keys(o)) >= 1
    BY <1>2, <2>1
  <2> QED
    BY <1>1, <2>2 DEF Owners
<1> QED
  BY <1>3, <1>4

\* hymn_dereference: a step that frees an object makes what it held pending, and
\* what was late is still held or is lost with its container
LEMMA DereferenceHolds ==
  ASSUME IInv, CountsNeverNegative, NEW s \in Home("pending"), Dereference(s)
  PROVE  IInv'
<1> DEFINE rest == IF slot[s].key = NULL THEN Empty ELSE Pending(slot[s].key)
<1>1. /\ s \in Slots /\ slot[s].home = "pending" /\ slot[s].key \in Objects \cup {NULL}
      /\ SlotsTyped /\ ~deleted /\ ~deleted'
      /\ NULL \notin Objects /\ "stack" \notin Objects /\ "pending" \notin Objects
      /\ "free" \notin Objects
  BY TypedSlots, HeapAssumption
     DEF Dereference, Home, IInv, DeletedQuiet, SlotsTyped, SlotRecords, SlotRecord, HeapAssumption
<1>2. PICK o \in Objects : o = slot[s].value
  BY <1>1 DEF SlotsTyped, Empty
<1>3. /\ count' = [count EXCEPT ![o] = @ - 1]
      /\ kind' = IF count[o] = 1 THEN [kind EXCEPT ![o] = "free"] ELSE kind
      /\ slot' = [r \in Slots |->
             IF r = s THEN rest
             ELSE IF count[o] = 1 /\ slot[r].home = o THEN [slot[r] EXCEPT !.home = "pending"]
             ELSE slot[r]]
      /\ UNCHANGED <<late, into, drift, deleted>>
  BY <1>2 DEF Dereference
<1>4. /\ kind \in [Objects -> {"array", "table", "string", "free"}]
      /\ count \in [Objects -> Int] /\ drift \in [Objects -> Int] /\ count[o] >= 0
      /\ drift' \in [Objects -> -MaxDrift..MaxDrift]
  BY <1>3, Integral DEF CountsNeverNegative, IInv, TypeOK
<1>5. s \notin late
  BY <1>1 DEF SlotsTyped, Stack, Home
<1>6. slot'[s] = rest
  BY <1>1, <1>3
<1>7. ASSUME NEW r \in Slots, r # s
      PROVE  /\ slot'[r] = slot[r] \/ (count[o] = 1 /\ slot[r].home = o /\ slot'[r] = [slot[r] EXCEPT !.home = "pending"])
             /\ slot'[r].value = slot[r].value /\ slot'[r].key = slot[r].key
             /\ count[o] # 1 \/ slot[r].home # o => slot'[r] = slot[r]
  <2>1. slot[r] \in SlotRecord
    BY <1>1 DEF SlotsTyped, SlotRecords
  <2> QED
    BY <1>3, <1>7, <2>1 DEF SlotRecord
<1> HIDE DEF rest
<1>8. SlotsTyped'
  <2>1. ASSUME NEW r \in Slots
        PROVE  /\ slot'[r] \in SlotRecord
               /\ \/ slot'[r] = Empty
                  \/ /\ slot'[r].home \in Objects \cup {"stack", "pending"}
                     /\ slot'[r].value \in Objects
                     /\ slot'[r].home = "stack" => slot'[r].key = NULL
    <3>1. slot[r] \in SlotRecord
      BY <1>1 DEF SlotsTyped, SlotRecords
    <3>2. CASE r = s
      BY <1>1, <1>6, <3>2 DEF rest, Pending, Empty, SlotRecord, Homes
    <3>3. CASE slot'[r] = slot[r]
      BY <1>1, <3>1, <3>3 DEF SlotsTyped
    <3>4. CASE slot[r].home = o /\ slot'[r] = [slot[r] EXCEPT !.home = "pending"]
      BY <1>1, <3>1, <3>4 DEF SlotsTyped, SlotRecord, Homes, Empty
    <3> QED
      BY <1>7, <3>2, <3>3, <3>4
  <2>2. late' \subseteq Stack'
    BY <1>1, <1>3, <1>5, <1>7 DEF SlotsTyped, Stack, Home
  <2> QED
    BY <1>3, <2>1, <2>2 DEF SlotsTyped, SlotRecords
<1>9. \A p \in Objects : Owners(p)' = Owners(p) - One(p = o) /\ Owners(p) \in Nat
  <2>1. \A p \in Objects : /\ Weight(s, p) = One(p = o) + One(slot[s].key = p)
                           /\ Weight(s, p)' = One(slot[s].key = p)
    BY <1>1, <1>2, <1>3, <1>5, <1>6 DEF Weight, One, rest, Pending, Empty
  <2>2. \A r \in Slots \ {s} : Keeps(r)
    BY <1>3, <1>7 DEF Keeps
  <2>3. \A p \in Objects : Owners(p)' = Owners(p) - Weight(s, p) + Weight(s, p)' /\ Owners(p) \in Nat
    BY <1>1, <1>3, <2>2, OwnersOne, OwnersType
  <2> QED
    BY <2>1, <2>3 DEF One
<1>10. /\ \A p \in Objects : count[p] = Owners(p) + drift[p] /\ drift'[p] = drift[p]
       /\ \A p \in Objects : count'[p] = count[p] - One(p = o)
  BY <1>1, <1>3, <1>4 DEF IInv, CountExact, One
<1>11. CountExact'
  BY <1>4, <1>9, <1>10 DEF CountExact, One
<1>12. kind' \in [Objects -> {"array", "table", "string", "free"}] /\ count' \in [Objects -> Int]
  BY <1>3, <1>4
<1>13. TypeOK' /\ SlotRecords'
  <2>1. \A p \in Objects : count'[p] \in -MaxDrift..(2 * Cardinality(Slots) + MaxDrift + 1)
    BY <1>1, <1>4, <1>11, CountBound
  <2>2. count' \in [Objects -> -MaxDrift..(2 * Cardinality(Slots) + MaxDrift + 1)]
    BY <1>12, <2>1
  <2>3. DOMAIN slot' = Slots /\ \A r \in Slots : slot'[r].key \in Objects \cup {NULL}
    BY <1>8 DEF SlotsTyped, SlotRecords, SlotRecord
  <2> QED
    BY <1>3, <1>4, <1>8, <1>12, <2>2, <2>3 DEF TypeOK, SlotsTyped, IInv
<1>14. AliveCounted'
  <2> SUFFICES ASSUME NEW p \in Objects PROVE kind'[p] # "free" <=> count'[p] >= 1
    BY DEF AliveCounted
  <2>1. kind[p] # "free" <=> count[p] >= 1
    BY DEF IInv, AliveCounted
  <2> QED
    BY <1>3, <1>4, <2>1
<1>15. LiteralKinds'
  BY <1>3, <1>4, HeapAssumption DEF IInv, LiteralKinds, HeapAssumption
<1>16. ItemsApart'
  <2> SUFFICES ASSUME NEW r \in Slots, NEW h \in Objects, slot'[r].home = h
               PROVE  \/ kind'[h] = "array" /\ slot'[r].key = NULL
                      \/ /\ kind'[h] = "table" /\ slot'[r].key # NULL
                         /\ kind'[slot'[r].key] = "string" \/ drift'[slot'[r].key] < 0
                         /\ \A q \in Slots : slot'[q].home = h /\ slot'[q].key = slot'[r].key => q = r
    BY DEF ItemsApart
  <2>1. \A q \in Slots : slot'[q].home = h => q # s /\ slot'[q] = slot[q] /\ (count[o] = 1 => h # o)
    <3>1. slot'[s].home # h
      BY <1>1, <1>6 DEF rest, Pending, Empty
    <3>2. ASSUME NEW q \in Slots, slot'[q].home = h
          PROVE  q # s /\ slot'[q] = slot[q] /\ (count[o] = 1 => h # o)
      <4>1. q # s /\ slot[q] \in SlotRecord
        BY <1>1, <3>1, <3>2 DEF SlotsTyped, SlotRecords
      <4>2. slot'[q] # [slot[q] EXCEPT !.home = "pending"]
        BY <1>1, <3>2, <4>1 DEF SlotRecord
      <4>3. slot'[q] = slot[q]
        BY <1>7, <4>1, <4>2
      <4>4. CASE count[o] = 1 /\ slot[q].home = o
        <5>1. slot'[q] = [slot[q] EXCEPT !.home = "pending"]
          BY <1>3, <4>1, <4>4
        <5> QED
          BY <4>2, <5>1
      <4> QED
        BY <3>2, <4>1, <4>3, <4>4
    <3> QED
      BY <3>2
  <2>2. kind'[h] = kind[h] /\ slot[r].home = h /\ slot'[r] = slot[r] /\ r # s
    BY <1>3, <1>4, <2>1
  <2>3. CASE kind[h] = "array" /\ slot[r].key = NULL
    BY <2>2, <2>3
  <2>4. CASE kind[h] = "table"
    <3>1. PICK k \in Objects :
            /\ k = slot[r].key /\ k # NULL
            /\ kind[k] = "string" \/ drift[k] < 0
            /\ \A q \in Slots : slot[q].home = h /\ slot[q].key = k => q = r
      BY <1>1, <2>2, <2>4 DEF IInv, ItemsApart, SlotsTyped, SlotRecords, SlotRecord
    <3>2. kind'[k] = "string" \/ drift'[k] < 0
      <4>1. CASE kind[k] = "string" /\ k = o /\ count[o] = 1
        <5>1. s \in Values(o) /\ r \in Keys(o)
          BY <1>1, <1>2, <1>5, <3>1, <4>1 DEF Values, Keys
        <5>2. Owners(o) >= 2
          BY <1>1, <2>2, <5>1, TwoOwners
        <5>3. count[o] = Owners(o) + drift[o] /\ drift'[o] = drift[o] /\ drift[o] \in Int /\ Owners(o) \in Nat
          BY <1>4, <1>9, <1>10
        <5> QED
          BY <4>1, <5>2, <5>3
      <4>2. CASE ~(k = o /\ count[o] = 1)
        BY <1>3, <1>4, <3>1, <4>2
      <4> QED
        BY <1>3, <3>1, <4>1, <4>2
    <3> QED
      BY <2>1, <2>2, <2>4, <3>1, <3>2
  <2> QED
    BY <1>1, <2>2, <2>3, <2>4 DEF IInv, ItemsApart
<1>17. LateHeld'
  <2>1. \A p \in Objects : kind[p] = "free" => kind'[p] = "free"
    BY <1>3, <1>4
  <2>2. Lost => Lost'
    BY <1>3, <2>1 DEF Lost
  <2>3. \A q \in Slots : slot[q].home = "stack" => q # s /\ slot'[q] = slot[q]
    BY <1>1, <1>2, <1>7
  <2>4. ASSUME NEW x \in Objects, NEW r \in Slots, HeldBy(r, x) PROVE Lost' \/ HeldBy(r, x)'
    <3>1. r # s
      BY <1>1, <2>4 DEF HeldBy
    <3>2. slot'[r].value = slot[r].value /\ slot'[r].key = slot[r].key
      BY <1>7, <3>1
    <3>3. CASE slot[r].home = "stack"
      BY <1>3, <2>3, <2>4, <3>2, <3>3 DEF HeldBy
    <3>4. CASE slot[r].home \in Objects /\ ~(count[o] = 1 /\ slot[r].home = o)
      <4>1. slot'[r] = slot[r]
        BY <1>7, <3>1, <3>4
      <4>2. slot'[r].home = into' \/ \E q \in (Stack \ late)' : slot'[q].value = slot'[r].home
        BY <1>1, <1>3, <2>3, <2>4, <3>4, <4>1 DEF HeldBy, Stack, Home
      <4> QED
        BY <1>3, <2>4, <3>4, <4>1, <4>2 DEF HeldBy
    <3>5. CASE count[o] = 1 /\ slot[r].home = o
      <4>1. kind'[o] = "free"
        BY <1>3, <1>4, <3>5
      <4>2. CASE o = into
        BY <1>3, <4>1, <4>2 DEF Lost
      <4>3. CASE o # into
        <5>1. PICK q \in Stack \ late : slot[q].value = o
          BY <1>1, <2>4, <3>5, <4>3 DEF HeldBy
        <5>2. q \in Slots /\ q # s /\ q \in Values(o) /\ s \in Values(o)
          BY <1>1, <1>2, <1>5, <5>1 DEF Stack, Home, Values
        <5>3. Owners(o) >= 2
          BY <1>1, <5>2, TwoOwners
        <5>4. count[o] = Owners(o) + drift[o] /\ drift'[o] = drift[o] /\ drift[o] \in Int /\ Owners(o) \in Nat
          BY <1>4, <1>9, <1>10
        <5>5. drift'[o] < 0
          BY <3>5, <5>3, <5>4
        <5> QED
          BY <4>1, <5>5 DEF Lost
      <4> QED
        BY <4>2, <4>3
    <3> QED
      BY <2>4, <3>3, <3>4, <3>5 DEF HeldBy
  <2>5. ASSUME NEW l \in late'
        PROVE  Lost' \/ \E x \in Objects, r \in Slots : x = slot'[l].value /\ HeldBy(r, x)'
    <3>1. l \in late /\ l \in Slots /\ slot[l].home = "stack" /\ slot[l].value \in Objects
      BY <1>1, <1>3, <2>5 DEF SlotsTyped, Stack, Home, Empty
    <3>2. PICK x \in Objects : x = slot[l].value /\ x = slot'[l].value
      BY <2>3, <3>1
    <3>3. Lost \/ \E r \in Slots : HeldBy(r, x)
      BY <3>1, <3>2 DEF IInv, LateHeld
    <3>4. Lost' \/ \E r \in Slots : HeldBy(r, x)'
      BY <2>2, <2>4, <3>3
    <3> QED
      BY <3>2, <3>4
  <2>6. (\A l \in late : Lost \/ \E r \in Slots : HeldBy(r, slot[l].value))'
    BY <2>5
  <2>7. (late' = {} => into' = NULL) /\ (into' # NULL => \A q, r \in late' : q = r)
    BY <1>3 DEF IInv, LateHeld
  <2> QED
    BY <2>6, <2>7 DEF LateHeld
<1>18. DeletedQuiet' /\ StringsReleasedBalanced'
  BY <1>1 DEF DeletedQuiet, StringsReleasedBalanced
<1> QED
  BY <1>11, <1>13, <1>14, <1>15, <1>16, <1>17, <1>18 DEF IInv


\* The values an instruction has stored are referenced when what it let go of is
\* gone
LEMMA ReferenceLateHolds ==
  ASSUME IInv, CountsNeverNegative, NEW s \in late, ReferenceLate(s)
  PROVE  IInv'
<1>1. /\ SlotsTyped /\ ~deleted /\ ~deleted' /\ s \in Slots /\ slot[s].key = NULL
      /\ NULL \notin Objects /\ "stack" \notin Objects /\ NoDangling
  BY TypedSlots, HeapAssumption
     DEF ReferenceLate, IInv, DeletedQuiet, SlotsTyped, Stack, Home, Empty, HeapAssumption
<1>2. PICK o \in Objects : o = slot[s].value
  BY <1>1 DEF SlotsTyped, Stack, Home, Empty
<1>3. /\ Referenced(o) /\ late' = late \ {s} /\ into' = NULL
      /\ UNCHANGED <<kind, slot, drift, deleted>> /\ kind[o] # "free"
  BY <1>1, <1>2 DEF ReferenceLate, NoDangling
<1>4. /\ kind \in [Objects -> {"array", "table", "string", "free"}]
      /\ count \in [Objects -> Int] /\ drift \in [Objects -> Int]
      /\ drift' \in [Objects -> -MaxDrift..MaxDrift]
  BY <1>3, Integral DEF IInv, TypeOK
<1>5. /\ count' \in [Objects -> Int]
      /\ \A p \in Objects : count'[p] = count[p] + One(p = o)
  BY <1>3, <1>4 DEF Referenced, One
<1>6. CountExact'
  <2> SUFFICES ASSUME NEW p \in Objects PROVE count'[p] = Owners(p)' + drift'[p]
    BY DEF CountExact
  <2>1. Weight(s, p) = 0 /\ Weight(s, p)' = One(p = o)
    BY <1>1, <1>2, <1>3 DEF Weight, One
  <2>2. \A r \in Slots \ {s} : Keeps(r)
    BY <1>3 DEF Keeps
  <2>3. Owners(p)' = Owners(p) - Weight(s, p) + Weight(s, p)' /\ Owners(p) \in Nat
    BY <1>1, <1>3, <2>2, OwnersOne, OwnersType
  <2>4. count[p] = Owners(p) + drift[p] /\ drift'[p] = drift[p] /\ drift[p] \in Int
    BY <1>1, <1>3, <1>4 DEF IInv, CountExact
  <2>5. count'[p] = count[p] + One(p = o) /\ One(p = o) \in Int
    BY <1>5 DEF One
  <2> QED
    BY <2>1, <2>3, <2>4, <2>5
<1>7. TypeOK' /\ SlotRecords'
  <2>1. \A p \in Objects : count'[p] \in -MaxDrift..(2 * Cardinality(Slots) + MaxDrift + 1)
    BY <1>1, <1>4, <1>6, CountBound
  <2>2. count' \in [Objects -> -MaxDrift..(2 * Cardinality(Slots) + MaxDrift + 1)]
    BY <1>5, <2>1
  <2>3. late' \subseteq Stack'
    BY <1>1, <1>3 DEF SlotsTyped, Stack, Home
  <2>4. SlotRecords'
    BY <1>1, <1>3 DEF SlotsTyped, SlotRecords
  <2> QED
    BY <1>3, <1>4, <2>2, <2>3, <2>4 DEF TypeOK, IInv
<1>8. AliveCounted'
  <2> SUFFICES ASSUME NEW p \in Objects PROVE kind'[p] # "free" <=> count'[p] >= 1
    BY DEF AliveCounted
  <2>1. (kind[p] # "free" <=> count[p] >= 1) /\ kind'[p] = kind[p] /\ count[p] \in Int
    BY <1>3, <1>4 DEF IInv, AliveCounted
  <2>2. count'[p] = count[p] + One(p = o)
    BY <1>5
  <2> QED
    BY <1>3, <2>1, <2>2 DEF One
<1>9. LiteralKinds' /\ ItemsApart'
  BY <1>3 DEF IInv, LiteralKinds, ItemsApart
<1>10. LateHeld'
  <2>1. ASSUME NEW l \in late'
        PROVE  Lost' \/ \E x \in Objects, r \in Slots : x = slot'[l].value /\ HeldBy(r, x)'
    <3>1. into = NULL /\ l \in late
      BY <1>3, <2>1 DEF IInv, LateHeld
    <3>2. PICK x \in Objects : x = slot[l].value /\ x = slot'[l].value
      BY <1>1, <1>3, <3>1 DEF SlotsTyped, Stack, Home, Empty
    <3>3. Lost \/ \E r \in Slots : HeldBy(r, x)
      BY <3>1, <3>2 DEF IInv, LateHeld
    <3>4. Lost => Lost'
      BY <1>1, <1>3, <3>1 DEF Lost
    <3>5. ASSUME NEW r \in Slots, HeldBy(r, x) PROVE HeldBy(r, x)'
      <4>1. slot[r].home = "stack" \/ \E q \in Stack \ late : slot[q].value = slot[r].home /\ slot[r].home \in Objects
        BY <1>1, <3>1, <3>5 DEF HeldBy
      <4>2. Stack' = Stack /\ slot' = slot /\ late' \subseteq late
        BY <1>3 DEF Stack, Home
      <4>3. slot'[r].home = "stack" \/ \E q \in (Stack \ late)' : slot'[q].value = slot'[r].home /\ slot'[r].home \in Objects
        BY <4>1, <4>2
      <4> QED
        BY <3>5, <4>2, <4>3 DEF HeldBy
    <3> QED
      BY <3>2, <3>3, <3>4, <3>5
  <2>2. (\A l \in late : Lost \/ \E r \in Slots : HeldBy(r, slot[l].value))'
    BY <2>1
  <2> QED
    BY <1>3, <2>2 DEF LateHeld
<1>11. DeletedQuiet' /\ StringsReleasedBalanced'
  BY <1>1 DEF DeletedQuiet, StringsReleasedBalanced
<1> QED
  BY <1>6, <1>7, <1>8, <1>9, <1>10, <1>11 DEF IInv

\* hymn_delete: strings that nothing has forgotten have one reference left, the
\* compiler's, when no container is
LEMMA DeleteHolds ==
  ASSUME IInv, CountsNeverNegative, Delete
  PROVE  IInv'
<1>1. Idle /\ SlotsTyped
  BY TypedSlots DEF Delete, Idle
<1>2. /\ Stack = {} /\ deleted' = TRUE /\ UNCHANGED <<slot, late, into, drift>>
      /\ count' = [o \in Objects |-> IF kind[o] = "string" THEN count[o] - 1 ELSE count[o]]
      /\ kind' = [o \in Objects |-> IF kind[o] = "string" /\ count[o] = 1 THEN "free" ELSE kind[o]]
  BY DEF Delete
<1>3. /\ kind \in [Objects -> {"array", "table", "string", "free"}]
      /\ count \in [Objects -> Int] /\ drift \in [Objects -> Int]
      /\ count \in [Objects -> -MaxDrift..(2 * Cardinality(Slots) + MaxDrift + 1)]
      /\ \A o \in Objects : kind[o] # "free" <=> count[o] >= 1
  BY Integral DEF IInv, TypeOK, AliveCounted
<1>4. TypeOK' /\ SlotRecords'
  <2>1. MaxDrift \in Nat /\ Cardinality(Slots) \in Nat
    BY HeapAssumption, CountType DEF HeapAssumption
  <2>2. ASSUME NEW o \in Objects
        PROVE  count'[o] \in -MaxDrift..(2 * Cardinality(Slots) + MaxDrift + 1)
    <3>1. /\ count[o] \in Int /\ count[o] \in -MaxDrift..(2 * Cardinality(Slots) + MaxDrift + 1)
          /\ kind[o] = "string" => count[o] >= 1
      BY <1>3
    <3>2. count'[o] = IF kind[o] = "string" THEN count[o] - 1 ELSE count[o]
      BY <1>2
    <3> QED
      BY <2>1, <3>1, <3>2
  <2>3. count' \in [Objects -> -MaxDrift..(2 * Cardinality(Slots) + MaxDrift + 1)]
    BY <1>2, <2>2
  <2>4. kind' \in [Objects -> {"array", "table", "string", "free"}]
    BY <1>2, <1>3
  <2>5. late' \subseteq Stack' /\ SlotRecords'
    BY <1>1, <1>2 DEF SlotsTyped, Stack, Home, SlotRecords
  <2> QED
    BY <1>2, <2>3, <2>4, <2>5 DEF TypeOK, IInv
<1>5. CountExact' /\ ItemsApart'
  BY <1>2 DEF CountExact, ItemsApart
<1>6. AliveCounted'
  <2> SUFFICES ASSUME NEW p \in Objects PROVE kind'[p] # "free" <=> count'[p] >= 1
    BY DEF AliveCounted
  <2>1. (kind[p] # "free" <=> count[p] >= 1) /\ count[p] \in Int
    BY <1>3
  <2>2. /\ count'[p] = IF kind[p] = "string" THEN count[p] - 1 ELSE count[p]
        /\ kind'[p] = IF kind[p] = "string" /\ count[p] = 1 THEN "free" ELSE kind[p]
    BY <1>2
  <2> QED
    BY <2>1, <2>2
<1>7. LiteralKinds'
  BY <1>2, <1>3, HeapAssumption DEF IInv, LiteralKinds, HeapAssumption
<1>8. LateHeld' /\ DeletedQuiet'
  BY <1>1, <1>2 DEF Idle, IInv, LateHeld, DeletedQuiet, Home
<1>9. StringsReleasedBalanced'
  <2> SUFFICES ASSUME \A o \in Objects : drift'[o] = 0,
                      \A o \in Objects : kind'[o] # "free" => kind'[o] = "string",
                      NEW o \in Objects, kind'[o] # "free"
               PROVE  FALSE
    BY DEF StringsReleasedBalanced, Live
  <2>1. kind[o] = "string" /\ count[o] >= 2
    BY <1>2, <1>3
  <2>2. \A s \in Slots : slot[s].home \notin Objects
    <3>1. ASSUME NEW s \in Slots, slot[s].home \in Objects PROVE FALSE
      <4>1. PICK h \in Objects : h = slot[s].home
        BY <3>1
      <4>2. kind[h] \in {"array", "table"}
        BY <1>1, <4>1 DEF IInv, ItemsApart, Idle
      <4> QED
        BY <1>2, <4>2
    <3> QED
      BY <3>1
  <2>3. \A s \in Slots : slot[s] = Empty
    BY <1>1, <1>2, <2>2 DEF SlotsTyped, Idle, Stack, Home
  <2>4. Values(o) = {} /\ Keys(o) = {}
    BY <2>3, HeapAssumption DEF Values, Keys, Empty, HeapAssumption
  <2>5. Owners(o) = Compiler(o) /\ Compiler(o) \in {0, 1}
    BY <2>4, FS_EmptySet DEF Owners, Compiler
  <2>6. count[o] = Owners(o) + drift[o] /\ drift[o] = 0
    BY <1>1, <1>2 DEF IInv, CountExact, Idle
  <2> QED
    BY <2>1, <2>5, <2>6
<1> QED
  BY <1>4, <1>5, <1>6, <1>7, <1>8, <1>9 DEF IInv

\* Every instruction preserves the invariant
LEMMA InstructionsHold ==
  ASSUME IInv, CountsNeverNegative, Ready, Instruction
  PROVE  IInv'
<1>1. Idle /\ NoDangling
  BY DEF Ready, Idle
<1>2. CASE \E s \in Free, o \in Objects \ Literals, k \in {"array", "table"} : New(s, o, k)
  BY <1>1, <1>2, NewHolds
<1>3. CASE \E s \in Free, o \in Objects : PushString(s, o)
  BY <1>1, <1>3, PushStringHolds
<1>4. CASE \E s \in Stack, d \in Free : GetLocal(s, d)
  BY <1>1, <1>4, GetLocalHolds
<1>5. CASE \E l, v \in Stack, d \in Free : SetLocal(l, v, d)
  BY <1>1, <1>5, SetLocalHolds
<1>6. CASE \E d, e \in Free : \E lent \in [{d, e} -> Stack] : AddLocalsFails(lent)
  <2>1. PICK d \in Free, e \in Free : \E lent \in [{d, e} -> Stack] : AddLocalsFails(lent)
    BY <1>6
  <2>2. PICK lent \in [{d, e} -> Stack] : AddLocalsFails(lent)
    BY <2>1
  <2> QED
    BY <1>1, <2>2, AddLocalsFailsHolds
<1>7. CASE \E a, v \in Stack : ArrayPush(a, v)
  BY <1>1, <1>7, ArrayPushHolds
<1>8. CASE \E a, v \in Stack, d \in Free : ArrayPushLocals(a, v, d)
  BY <1>1, <1>8, ArrayPushLocalsHolds
<1>9. CASE \E a \in Stack, i \in Slots : ArrayPop(a, i)
  BY <1>1, <1>9, ArrayPopHolds
<1>10. CASE \E a \in Stack, i \in Slots, d \in Free : GetItem(a, i, d)
  BY <1>1, <1>10, GetItemHolds
<1>11. CASE \E a, v \in Stack, d \in Free : SetItem(a, v, d)
  BY <1>1, <1>11, SetItemHolds
<1>12. CASE \E t \in Stack, i \in Slots, d \in Free : GetProperty(t, i, d)
  BY <1>1, <1>12, GetPropertyHolds
<1>13. CASE \E t, k \in Stack, i \in Slots, d \in Free : GetEntry(t, k, i, d)
  BY <1>1, <1>13, GetEntryHolds
<1>14. CASE \E t, v \in Stack, d \in Free, n \in Literals : SetProperty(t, v, n, d)
  BY <1>1, <1>14, SetPropertyHolds
<1>15. CASE \E t, k, v \in Stack : SetEntry(t, k, v)
  BY <1>1, <1>15, SetEntryHolds
<1>16. CASE \E t, k \in Stack, i \in Slots, d \in Free : DeleteEntry(t, k, i, d)
  BY <1>1, <1>16, DeleteEntryHolds
<1>17. CASE \E t, v \in Stack, i \in Slots, d \in Free : IndexEntry(t, v, i, d)
  BY <1>1, <1>17, IndexEntryHolds
<1>18. CASE \E a \in Stack : Clear(a)
  BY <1>1, <1>18, ClearHolds
<1>19. CASE \E s \in Stack, o \in Objects : ClearString(s, o)
  BY <1>1, <1>19, ClearStringHolds
<1>20. CASE \E a \in Stack, o \in Objects, S \in SUBSET Slots : CopyArray(a, o, S)
  BY <1>1, <1>20, CopyArrayHolds
<1>21. CASE \E a \in Stack, o \in Objects : CopyTable(a, o)
  BY <1>1, <1>21, CopyTableHolds
<1>22. CASE \E a \in Stack, o \in Objects : KeysOf(a, o)
  BY <1>1, <1>22, KeysOfHolds
<1>23. CASE \E a \in Stack, i \in Slots, d \in Free : For(a, i, d)
  BY <1>1, <1>23, ForHolds
<1>24. CASE \E a, v \in Stack, i \in Slots, d \in Free : ForLoop(a, v, i, d)
  BY <1>1, <1>24, ForLoopHolds
<1>25. CASE \E t, k, v \in Stack, i \in Slots, d \in Free : ForLoopEntry(t, k, v, i, d)
  BY <1>1, <1>25, ForLoopEntryHolds
<1> QED
  BY <1>2, <1>3, <1>4, <1>5, <1>6, <1>7, <1>8, <1>9, <1>10, <1>11, <1>12, <1>13, <1>14, <1>15,
     <1>16, <1>17, <1>18, <1>19, <1>20, <1>21, <1>22, <1>23, <1>24, <1>25 DEF Instruction

\* ... and so does every step
LEMMA StepHolds == IInv /\ [Next]_vars => IInv'
<1> SUFFICES ASSUME IInv, [Next]_vars PROVE IInv'
  OBVIOUS
<1>1. CASE CountsNeverNegative /\ \E s \in Home("pending") : Dereference(s)
  BY <1>1, DereferenceHolds
<1>2. CASE CountsNeverNegative /\ \E s \in late : ReferenceLate(s)
  BY <1>2, ReferenceLateHolds
<1>3. CASE CountsNeverNegative /\ Ready /\ Instruction
  BY <1>3, InstructionsHold
<1>4. CASE CountsNeverNegative /\ \E S \in SUBSET Stack : Drop(S)
  BY <1>4, DropHolds
<1>5. CASE CountsNeverNegative /\ Delete
  BY <1>5, DeleteHolds
<1>6. CASE UNCHANGED vars
  BY <1>6 DEF vars, IInv, TypeOK, Stack, Home, SlotRecords, CountExact, Owners, Values, Keys, Compiler,
     AliveCounted, LiteralKinds, ItemsApart, LateHeld, Lost, HeldBy, DeletedQuiet,
     StringsReleasedBalanced, Live
<1> QED
  BY <1>1, <1>2, <1>3, <1>4, <1>5, <1>6 DEF Next


-----------------------------------------------------------------------------
(* What the invariant says *)

\* What dangles has been forgotten, or was stored by an assignment that let go of
\* its container
LEMMA OnlyDebts == IInv => OnlyDebtsDangle
<1> SUFFICES ASSUME IInv, ~deleted
             PROVE  /\ \A s \in Slots :
                         /\ slot[s].value # NULL /\ kind[slot[s].value] = "free" =>
                              \/ drift[slot[s].value] < 0
                              \/ s \in late /\ \E o \in Objects :
                                   kind[o] = "free" /\ (o = into \/ drift[o] < 0)
                         /\ slot[s].key # NULL /\ kind[slot[s].key] = "free" => drift[slot[s].key] < 0
                    /\ \A o \in Literals : kind[o] # "string" => drift[o] < 0
  BY DEF OnlyDebtsDangle
<1>1. \A r \in Slots, o \in Objects :
        slot[r].key = o \/ (slot[r].value = o /\ r \notin late) => kind[o] # "free" \/ drift[o] < 0
  BY OwnedOrForgotten DEF IInv
<1>2. ASSUME NEW s \in Slots, slot[s].value # NULL, kind[slot[s].value] = "free"
      PROVE  \/ drift[slot[s].value] < 0
             \/ s \in late /\ \E o \in Objects : kind[o] = "free" /\ (o = into \/ drift[o] < 0)
  <2>1. PICK o \in Objects : o = slot[s].value
    BY <1>2 DEF IInv, SlotRecords, SlotRecord
  <2>2. CASE s \notin late
    BY <1>1, <1>2, <2>1, <2>2
  <2>3. CASE s \in late
    <3>1. Lost \/ \E r \in Slots : HeldBy(r, o)
      BY <2>1, <2>3 DEF IInv, LateHeld
    <3>2. CASE Lost
      BY <2>3, <3>2 DEF Lost
    <3>3. CASE \E r \in Slots : HeldBy(r, o)
      BY <1>1, <1>2, <2>1, <3>3 DEF HeldBy
    <3> QED
      BY <3>1, <3>2, <3>3
  <2> QED
    BY <2>2, <2>3
<1>3. ASSUME NEW s \in Slots, slot[s].key # NULL, kind[slot[s].key] = "free"
      PROVE  drift[slot[s].key] < 0
  <2>1. PICK o \in Objects : o = slot[s].key
    BY <1>3 DEF IInv, SlotRecords, SlotRecord
  <2> QED
    BY <1>1, <1>3, <2>1
<1>4. ASSUME NEW o \in Literals, kind[o] # "string" PROVE drift[o] < 0
  <2>1. o \in Objects /\ kind[o] = "free"
    BY <1>4, HeapAssumption DEF IInv, LiteralKinds, HeapAssumption
  <2>2. count[o] \in Int /\ drift[o] \in Int /\ ~(count[o] >= 1) /\ count[o] = Owners(o) + drift[o]
    BY <2>1, Integral DEF IInv, AliveCounted, CountExact
  <2>3. Compiler(o) = 1
    BY DEF Compiler
  <2>4. Owners(o) \in Nat /\ Owners(o) >= 1
    <3>1. /\ Cardinality(Values(o)) \in Nat /\ Cardinality(Keys(o)) \in Nat /\ Owners(o) \in Nat
      BY OwnersType
    <3> QED
      BY <2>3, <3>1 DEF Owners
  <2> QED
    BY <2>2, <2>4
<1> QED
  BY <1>2, <1>3, <1>4

\* Items are in containers of their kind
LEMMA Apart == IInv => ItemsPlaced
<1> SUFFICES ASSUME IInv, ~deleted, NEW s \in Slots, slot[s].home \in Objects
             PROVE  \/ kind[slot[s].home] = "array" /\ slot[s].key = NULL
                    \/ /\ kind[slot[s].home] = "table" /\ slot[s].key # NULL
                       /\ kind[slot[s].key] = "string" \/ drift[slot[s].key] < 0
                       /\ Found(slot[s].home, slot[s].key) = {s}
  BY DEF ItemsPlaced
<1>1. PICK h \in Objects : h = slot[s].home
  OBVIOUS
<1>2. \/ kind[h] = "array" /\ slot[s].key = NULL
      \/ /\ kind[h] = "table" /\ slot[s].key # NULL
         /\ kind[slot[s].key] = "string" \/ drift[slot[s].key] < 0
         /\ \A r \in Slots : slot[r].home = h /\ slot[r].key = slot[s].key => r = s
  BY <1>1 DEF IInv, ItemsApart
<1> QED
  BY <1>1, <1>2 DEF Found, Home

\* Between instructions, what is not reachable is on a cycle or leaks
LEMMA Released == IInv => ReleasedAtOnce
<1> SUFFICES ASSUME IInv, ~deleted, Home("pending") = {}, late = {}, Acyclic,
                    \A o \in Objects : drift[o] <= 0
             PROVE  Live = Reachable
  BY DEF ReleasedAtOnce
<1> DEFINE roots == Live \cap (Literals \cup {slot[s].value : s \in Stack})
           Closed(S) == roots \subseteq S /\ \A o \in S, p \in Live : Holds(o, p) => p \in S
           U == Live \ Reachable
<1>1. Reachable = {o \in Live : \A S \in SUBSET Live : Closed(S) => o \in S}
  BY DEF Reachable
<1>2. roots \subseteq Reachable
  BY <1>1
<1>3. ASSUME NEW p \in Reachable, NEW o \in Live, Holds(p, o) PROVE o \in Reachable
  BY <1>1, <1>3
<1> HIDE DEF roots, Closed
<1>4. CASE U # {}
  <2>1. U \in SUBSET Live
    OBVIOUS
  <2>2. PICK o \in U : \A p \in U : ~Holds(p, o)
    BY <1>4, <2>1 DEF Acyclic
  <2>3. o \in Objects /\ o \in Live /\ o \notin Reachable /\ kind[o] # "free"
    BY <2>2 DEF Live
  <2>4. Owners(o) >= 1
    <3>1. count[o] >= 1 /\ count[o] = Owners(o) + drift[o] /\ drift[o] <= 0
      BY <2>3 DEF IInv, AliveCounted, CountExact
    <3>2. count[o] \in Int /\ drift[o] \in Int /\ Owners(o) \in Nat
      BY <2>3, Integral, OwnersType
    <3> QED
      BY <3>1, <3>2
  <2>5. CASE Compiler(o) # 0
    <3>1. o \in roots
      BY <2>3, <2>5 DEF Compiler, roots
    <3> QED
      BY <1>2, <2>3, <3>1
  <2>6. CASE \E s \in Slots : slot[s].value = o \/ slot[s].key = o
    <3>1. PICK s \in Slots : slot[s].value = o \/ slot[s].key = o
      BY <2>6
    <3>2. Idle
      BY DEF Idle
    <3>3. slot[s].home = "stack" \/ slot[s].home \in Objects
      BY <2>3, <3>1, <3>2, Operands DEF SlotRecord, Homes, Empty
    <3>4. CASE slot[s].home = "stack"
      <4>1. slot[s].value = o /\ s \in Stack
        BY <2>3, <3>1, <3>2, <3>4, Operands DEF Stack, Home
      <4>2. o \in roots
        BY <2>3, <4>1 DEF roots
      <4> QED
        BY <1>2, <2>3, <4>2
    <3>5. CASE slot[s].home \in Objects
      <4>1. PICK p \in Objects : p = slot[s].home
        BY <3>5
      <4>2. kind[p] # "free" /\ Holds(p, o)
        BY <3>1, <4>1 DEF IInv, ItemsApart, Holds, Home
      <4>3. p \in Live /\ p \notin U
        BY <2>2, <4>2 DEF Live
      <4> QED
        BY <1>3, <2>3, <4>2, <4>3
    <3> QED
      BY <3>3, <3>4, <3>5
  <2>7. CASE Compiler(o) = 0 /\ \A s \in Slots : slot[s].value # o /\ slot[s].key # o
    <3>1. Values(o) = {} /\ Keys(o) = {}
      BY <2>7 DEF Values, Keys
    <3>2. Owners(o) = 0
      BY <2>7, <3>1, FS_EmptySet DEF Owners
    <3> QED
      BY <2>4, <3>2
  <2> QED
    BY <2>5, <2>6, <2>7
<1>5. CASE U = {}
  BY <1>1, <1>5
<1> QED
  BY <1>4, <1>5

-----------------------------------------------------------------------------
(* Theorems *)

\* The invariant holds in every state of every run of the machine: the references
\* of hymn_reference and hymn_dereference, of any number of objects
THEOREM Invariant == Spec => []IInv
<1>1. Init => IInv
  BY InitHolds
<1>2. IInv /\ [Next]_vars => IInv'
  BY StepHolds
<1> QED
  BY <1>1, <1>2, PTL DEF Spec

\* Kinds, counts, slots and history stay of their types; a count is bounded by
\* the number of places
THEOREM TypeCorrect == Spec => []TypeOK
<1>1. IInv => TypeOK
  BY DEF IInv
<1> QED
  BY <1>1, Invariant, PTL

\* The count of hymn_reference and hymn_dereference is the number of owners, also
\* between the steps of a release, but for what instructions forget
THEOREM CountsAreExact == Spec => []CountExact
<1>1. IInv => CountExact
  BY DEF IInv
<1> QED
  BY <1>1, Invariant, PTL

\* Memory is used after it is freed only through a reference that an instruction
\* forgot, or by an assignment that lets go of its own container
THEOREM NothingElseDangles == Spec => []OnlyDebtsDangle
<1>1. IInv => OnlyDebtsDangle
  BY OnlyDebts
<1> QED
  BY <1>1, Invariant, PTL

\* The items of arrays and the entries of tables are in containers that are
\* there, and the keys of a table are different
THEOREM ItemsStayPlaced == Spec => []ItemsPlaced
<1>1. IInv => ItemsPlaced
  BY Apart
<1> QED
  BY <1>1, Invariant, PTL

\* Between instructions, hymn_dereference has freed what cannot be reached, but
\* for cycles and references too many
THEOREM MemoryIsReleased == Spec => []ReleasedAtOnce
<1>1. IInv => ReleasedAtOnce
  BY Released
<1> QED
  BY <1>1, Invariant, PTL

\* hymn_delete leaves no string behind, after a script that has forgotten none
\* and left no container
THEOREM StringsAreReleased == Spec => []StringsReleasedBalanced
<1>1. IInv => StringsReleasedBalanced
  BY DEF IInv
<1> QED
  BY <1>1, Invariant, PTL

=============================================================================
