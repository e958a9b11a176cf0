------------------------------ MODULE HymnHeap ------------------------------
(***************************************************************************)
(* Reference counts of arrays, tables and their strings.                   *)
(*                                                                         *)
(* A slot is a place that holds a reference: a value on the stack, a local *)
(* or a global (all of them "stack" here), an item of an array, or an item *)
(* of a table with its key.  A slot that is "pending" holds a reference    *)
(* hymn_dereference still has to give back: the instruction that let go of *)
(* it, or the container it was in, has nothing more to do with it.  So the *)
(* recursion of hymn_dereference, hymn_array_clear and table_clear is a    *)
(* sequence of steps, and the next instruction waits for the last one.     *)
(*                                                                         *)
(* Left out: the order of a stack and of an array's items (an instruction  *)
(* finds its operands in any slots), values that are not counted, errors   *)
(* other than that slots are dropped or lent, and functions.               *)
(***************************************************************************)
EXTENDS Integers, FiniteSets

CONSTANTS
  Objects,    \* addresses of arrays, tables and strings
  Literals,   \* strings of the constant pools: the compiler referenced them
  Slots,      \* bound: how many references there may be
  MaxDrift,   \* bound: references forgotten for one object
  NULL        \* no object

ASSUME HeapAssumption ==
  /\ Literals \subseteq Objects
  /\ IsFiniteSet(Slots)
  /\ MaxDrift \in Nat
  /\ NULL \notin Objects
  /\ {"stack", "pending", "free"} \cap Objects = {}

VARIABLES
  kind,     \* "array", "table", "string", or "free"
  count,    \* the count of an object
  slot,     \* where each reference is: home, key and value
  late,     \* slots whose value the running instruction has yet to reference
  into,     \* history: the container a running assignment stores to
  drift,    \* history: references an object has too many (> 0) or too few
  deleted   \* hymn_delete has run

vars == <<kind, count, slot, late, into, drift, deleted>>

Empty == [home |-> "free", key |-> NULL, value |-> NULL]
OnStack(o) == [home |-> "stack", key |-> NULL, value |-> o]
Pending(o) == [home |-> "pending", key |-> NULL, value |-> o]
ItemOf(a, o) == [home |-> a, key |-> NULL, value |-> o]
Entry(t, k, o) == [home |-> t, key |-> k, value |-> o]

Home(h) == {s \in Slots : slot[s].home = h}
Stack == Home("stack")
Free == Home("free")

\* the slots that hold a reference to o that has been counted
Values(o) == {s \in Slots \ late : slot[s].value = o}
Keys(o) == {s \in Slots : slot[s].key = o}

\* the reference compile_intern_string gave; hymn_delete takes it back
Compiler(o) == IF o \in Literals /\ ~deleted THEN 1 ELSE 0

Owners(o) == Cardinality(Values(o)) + Cardinality(Keys(o)) + Compiler(o)

\* a slot on the stack that holds an array or a table
Container(s, k) == s \in Stack /\ kind[slot[s].value] = k

Init ==
  /\ kind = [o \in Objects |-> IF o \in Literals THEN "string" ELSE "free"]
  /\ count = [o \in Objects |-> IF o \in Literals THEN 1 ELSE 0]
  /\ slot = [s \in Slots |-> Empty]
  /\ late = {}
  /\ into = NULL
  /\ drift = [o \in Objects |-> 0]
  /\ deleted = FALSE

-----------------------------------------------------------------------------
(* References *)

\* every place points to an object that is there, a constant pool as well
NoDangling ==
  /\ \A s \in Slots :
       /\ slot[s].value # NULL => kind[slot[s].value] # "free"
       /\ slot[s].key # NULL => kind[slot[s].key] # "free"
  /\ \A o \in Literals : kind[o] = "string"

\* assert(count >= 0) of hymn_dereference
CountsNeverNegative == \A o \in Objects : count[o] >= 0

\* the last instruction is complete, and has not ended in freed memory
Ready == ~deleted /\ Home("pending") = {} /\ late = {} /\ NoDangling

\* hymn_reference
Referenced(o) == count' = [count EXCEPT ![o] = @ + 1]

\* an instruction that forgets to reference o, or to give a reference back
Forgets(o, n) ==
  /\ drift[o] + n \in -MaxDrift..MaxDrift
  /\ drift' = [drift EXCEPT ![o] = @ + n]

\* a new object, with its first reference
Allocates(o, k) ==
  /\ kind[o] = "free"
  /\ kind' = [kind EXCEPT ![o] = k]
  /\ count' = [count EXCEPT ![o] = 1]

\* Mutant: a string that is found is referenced by hymn_intern_string as well
InternsTwice(o) ==
  \/ kind[o] = "string" /\ count' = [count EXCEPT ![o] = @ + 2] /\ UNCHANGED kind
  \/ o \notin Literals /\ Allocates(o, "string")

\* hymn_intern_string and the reference that follows it
Interns(o) ==
  \/ kind[o] = "string" /\ Referenced(o) /\ UNCHANGED kind
  \/ o \notin Literals /\ Allocates(o, "string")

\* Mutant: what a freed container holds is forgotten
DereferenceShallow(s) ==
  /\ slot[s].home = "pending"
  /\ LET o == slot[s].value
         rest == IF slot[s].key = NULL THEN Empty ELSE Pending(slot[s].key)
     IN /\ count' = [count EXCEPT ![o] = @ - 1]
        /\ kind' = IF count[o] = 1 THEN [kind EXCEPT ![o] = "free"] ELSE kind
        /\ slot' = [r \in Slots |->
             IF r = s THEN rest
             ELSE IF count[o] = 1 /\ slot[r].home = o THEN Empty
             ELSE slot[r]]
  /\ UNCHANGED <<late, into, drift, deleted>>

\* Mutant: table_clear stops at its first entry
DereferenceNoEntry(s) ==
  /\ slot[s].home = "pending" /\ slot[s].key = NULL
  /\ LET o == slot[s].value
     IN /\ count' = [count EXCEPT ![o] = @ - 1]
        /\ kind' = IF count[o] = 1 THEN [kind EXCEPT ![o] = "free"] ELSE kind
        /\ slot' = [r \in Slots |->
             IF r = s THEN Empty
             ELSE IF count[o] = 1 /\ slot[r].home = o THEN [slot[r] EXCEPT !.home = "pending"]
             ELSE slot[r]]
  /\ UNCHANGED <<late, into, drift, deleted>>

\* One step of hymn_dereference: a count goes down.  The last reference frees
\* the object, and what it holds is dereferenced in its turn, the value of an
\* entry before its key.
Dereference(s) ==
  /\ slot[s].home = "pending"
  /\ LET o == slot[s].value
         rest == IF slot[s].key = NULL THEN Empty ELSE Pending(slot[s].key)
     IN /\ count' = [count EXCEPT ![o] = @ - 1]
        /\ kind' = IF count[o] = 1 THEN [kind EXCEPT ![o] = "free"] ELSE kind
        /\ slot' = [r \in Slots |->
             IF r = s THEN rest
             ELSE IF count[o] = 1 /\ slot[r].home = o THEN [slot[r] EXCEPT !.home = "pending"]
             ELSE slot[r]]
  /\ UNCHANGED <<late, into, drift, deleted>>

\* The instruction goes on when what it dereferenced is gone: it references the
\* values it has stored
ReferenceLate(s) ==
  /\ Home("pending") = {}
  /\ s \in late
  /\ NoDangling
  /\ Referenced(slot[s].value)
  /\ late' = late \ {s}
  /\ into' = NULL
  /\ UNCHANGED <<kind, slot, drift, deleted>>

-----------------------------------------------------------------------------
(* The stack *)

\* OP_NEW_ARRAY, OP_NEW_TABLE
New(s, o, k) ==
  /\ s \in Free
  /\ Allocates(o, k)
  /\ slot' = [slot EXCEPT ![s] = OnStack(o)]
  /\ UNCHANGED <<late, into, drift, deleted>>

\* OP_CONSTANT of a string, and push_string
PushString(s, o) ==
  /\ s \in Free
  /\ Interns(o)
  /\ slot' = [slot EXCEPT ![s] = OnStack(o)]
  /\ UNCHANGED <<late, into, drift, deleted>>

\* OP_GET_LOCAL, OP_GET_LOCALS, OP_GET_GLOBAL, OP_DUPLICATE
GetLocal(s, d) ==
  /\ s \in Stack /\ d \in Free
  /\ Referenced(slot[s].value)
  /\ slot' = [slot EXCEPT ![d] = OnStack(slot[s].value)]
  /\ UNCHANGED <<kind, late, into, drift, deleted>>

\* Mutant: the value is not held while the old one is dereferenced
SetLocalMoved(l, v, d) ==
  /\ l \in Stack /\ v \in Stack /\ d \in Free /\ l # v
  /\ slot' = [slot EXCEPT ![l].home = "pending", ![v].home = "pending",
                          ![d] = OnStack(slot[v].value)]
  /\ late' = {d}
  /\ UNCHANGED <<kind, count, into, drift, deleted>>

\* OP_SET_LOCAL, OP_SET_GLOBAL: the value v stays on the stack, the old value
\* of l is dereferenced before the new one is referenced
SetLocal(l, v, d) ==
  /\ l \in Stack /\ v \in Stack /\ d \in Free /\ l # v
  /\ slot' = [slot EXCEPT ![l].home = "pending", ![d] = OnStack(slot[v].value)]
  /\ late' = {d}
  /\ UNCHANGED <<kind, count, into, drift, deleted>>

\* What only takes values: OP_POP, OP_VOID, OP_ECHO, OP_EQUAL, OP_LEN, every
\* instruction that fails and the unwinding that follows.  Also a script that
\* holds a dangling reference gets here in the end.
Drop(S) ==
  /\ ~deleted /\ Home("pending") = {} /\ late = {}
  /\ S # {} /\ S \subseteq Stack
  /\ slot' = [s \in Slots |-> IF s \in S THEN [slot[s] EXCEPT !.home = "pending"] ELSE slot[s]]
  /\ UNCHANGED <<kind, count, late, into, drift, deleted>>

\* OP_ADD_LOCALS that cannot add: an array or a table is one of the operands.
\* Both locals stay where they are, and are dereferenced all the same; the
\* unwinding that follows is a Drop.  lent maps the slots that are pending to
\* the locals they stand for: one slot when the other local is not counted
AddLocalsFails(lent) ==
  /\ \E d \in DOMAIN lent : Container(lent[d], "array") \/ Container(lent[d], "table")
  /\ LET Lent(o) == Cardinality({d \in DOMAIN lent : slot[lent[d]].value = o})
     IN /\ \A o \in Objects : drift[o] - Lent(o) >= -MaxDrift
        /\ drift' = [o \in Objects |-> drift[o] - Lent(o)]
  /\ slot' = [s \in Slots |->
       IF s \in DOMAIN lent THEN Pending(slot[lent[s]].value) ELSE slot[s]]
  /\ UNCHANGED <<kind, count, late, into, deleted>>

-----------------------------------------------------------------------------
(* Arrays *)

\* OP_ARRAY_PUSH, OP_INSERT: the value moves into the array
ArrayPush(a, v) ==
  /\ Container(a, "array") /\ v \in Stack /\ a # v
  /\ slot' = [slot EXCEPT ![v].home = slot[a].value, ![a].home = "pending"]
  /\ UNCHANGED <<kind, count, late, into, drift, deleted>>

\* OP_ARRAY_PUSH_LOCALS: both stay where they are, and nothing is referenced
ArrayPushLocals(a, v, d) ==
  /\ Container(a, "array") /\ v \in Stack /\ d \in Free
  /\ slot' = [slot EXCEPT ![d] = ItemOf(slot[a].value, slot[v].value)]
  /\ Forgets(slot[v].value, -1)
  /\ UNCHANGED <<kind, count, late, into, deleted>>

\* OP_ARRAY_POP, OP_DELETE of an array: the item moves to the stack
ArrayPop(a, i) ==
  /\ Container(a, "array") /\ slot[i].home = slot[a].value
  /\ slot' = [slot EXCEPT ![i].home = "stack", ![a].home = "pending"]
  /\ UNCHANGED <<kind, count, late, into, drift, deleted>>

\* OP_GET_DYNAMIC of an array: the item is referenced, then the array goes
GetItem(a, i, d) ==
  /\ Container(a, "array") /\ slot[i].home = slot[a].value /\ d \in Free
  /\ Referenced(slot[i].value)
  /\ slot' = [slot EXCEPT ![d] = OnStack(slot[i].value), ![a].home = "pending"]
  /\ UNCHANGED <<kind, late, into, drift, deleted>>

\* OP_SET_DYNAMIC of an array: the value moves into the array, at its end or in
\* the place of item i; it is pushed as the result, and referenced only when
\* the array has been dereferenced
SetItem(a, v, d) ==
  /\ Container(a, "array") /\ v \in Stack /\ a # v /\ d \in Free
  /\ LET set == [slot EXCEPT ![v].home = slot[a].value, ![a].home = "pending",
                             ![d] = OnStack(slot[v].value)]
     IN \/ slot' = set
        \/ \E i \in Home(slot[a].value) : slot' = [set EXCEPT ![i].home = "pending"]
  /\ late' = {d}
  /\ into' = slot[a].value
  /\ UNCHANGED <<kind, count, drift, deleted>>

-----------------------------------------------------------------------------
(* Tables *)

\* OP_GET_PROPERTY, whose name is a literal
GetProperty(t, i, d) ==
  /\ Container(t, "table") /\ slot[i].home = slot[t].value /\ slot[i].key \in Literals
  /\ d \in Free
  /\ Referenced(slot[i].value)
  /\ slot' = [slot EXCEPT ![d] = OnStack(slot[i].value), ![t].home = "pending"]
  /\ UNCHANGED <<kind, late, into, drift, deleted>>

\* OP_GET_DYNAMIC of a table, with its key on the stack
GetEntry(t, k, i, d) ==
  /\ Container(t, "table") /\ k \in Stack
  /\ slot[i].home = slot[t].value /\ slot[i].key = slot[k].value /\ d \in Free
  /\ Referenced(slot[i].value)
  /\ slot' = [slot EXCEPT ![d] = OnStack(slot[i].value),
                          ![t].home = "pending", ![k].home = "pending"]
  /\ UNCHANGED <<kind, late, into, drift, deleted>>

\* the entry of a table with a key
Found(t, k) == {i \in Home(t) : slot[i].key = k}

\* Mutant: the name is not referenced
SetPropertyUnnamed(t, v, n, d) ==
  /\ Container(t, "table") /\ v \in Stack /\ t # v
  /\ n \in Literals /\ kind[n] = "string" /\ d \in Free
  /\ LET table == slot[t].value
         o == slot[v].value
     IN /\ count' = [count EXCEPT ![o] = @ + 1]
        /\ \/ /\ Found(table, n) = {}
              /\ slot' = [slot EXCEPT ![d] = Entry(table, n, o), ![t].home = "pending"]
           \/ \E i \in Found(table, n) :
                slot' = [slot EXCEPT ![i].value = o, ![t].home = "pending",
                                     ![d] = Pending(slot[i].value)]
  /\ UNCHANGED <<kind, late, into, drift, deleted>>

\* Mutant: the chain is not searched for the name
SetPropertyTwice(t, v, n, d) ==
  /\ Container(t, "table") /\ v \in Stack /\ t # v
  /\ n \in Literals /\ kind[n] = "string" /\ d \in Free
  /\ LET o == slot[v].value
     IN /\ count' = [p \in Objects |->
             count[p] + (IF p = o THEN 1 ELSE 0) + (IF p = n THEN 1 ELSE 0)]
        /\ slot' = [slot EXCEPT ![d] = Entry(slot[t].value, n, o), ![t].home = "pending"]
  /\ UNCHANGED <<kind, late, into, drift, deleted>>

\* OP_SET_PROPERTY, hymn_set_property: the entry references the value, and a new
\* entry the name; the value of an old one is dereferenced
SetProperty(t, v, n, d) ==
  /\ Container(t, "table") /\ v \in Stack /\ t # v
  /\ n \in Literals /\ kind[n] = "string" /\ d \in Free
  /\ LET table == slot[t].value
         o == slot[v].value
     IN \/ /\ Found(table, n) = {}
           /\ count' = [p \in Objects |->
                count[p] + (IF p = o THEN 1 ELSE 0) + (IF p = n THEN 1 ELSE 0)]
           /\ slot' = [slot EXCEPT ![d] = Entry(table, n, o), ![t].home = "pending"]
        \/ \E i \in Found(table, n) :
             /\ Referenced(o)
             /\ slot' = [slot EXCEPT ![i].value = o, ![t].home = "pending",
                                     ![d] = Pending(slot[i].value)]
  /\ UNCHANGED <<kind, late, into, drift, deleted>>

\* OP_SET_DYNAMIC of a table: the value moves into the entry and is pushed as the
\* result, referenced when the table has been dereferenced.  The key is
\* referenced by a new entry; the reference the stack had is never given back
SetEntry(t, k, v) ==
  /\ Container(t, "table") /\ Container(k, "string") /\ v \in Stack
  /\ Cardinality({t, k, v}) = 3
  /\ LET table == slot[t].value
         name == slot[k].value
         o == slot[v].value
     IN /\ Forgets(name, 1)
        /\ \/ /\ Found(table, name) = {}
              /\ Referenced(name)
              /\ slot' = [slot EXCEPT ![k] = Entry(table, name, o), ![t].home = "pending"]
           \/ \E i \in Found(table, name) :
                /\ slot' = [slot EXCEPT ![i].value = o, ![t].home = "pending",
                                        ![k] = Pending(slot[i].value)]
                /\ UNCHANGED count
  /\ late' = {v}
  /\ into' = slot[t].value
  /\ UNCHANGED <<kind, deleted>>

\* Mutant: the entry takes its key to the stack
DeleteEntryKeyed(t, k, i, d) ==
  /\ Container(t, "table") /\ k \in Stack
  /\ slot[i].home = slot[t].value /\ slot[i].key = slot[k].value /\ d \in Free
  /\ slot' = [slot EXCEPT ![i].home = "stack", ![t].home = "pending", ![k].home = "pending"]
  /\ UNCHANGED <<kind, count, late, into, drift, deleted>>

\* OP_DELETE of a table: the value moves to the stack; the key is dereferenced
\* for the entry and for the stack
DeleteEntry(t, k, i, d) ==
  /\ Container(t, "table") /\ k \in Stack
  /\ slot[i].home = slot[t].value /\ slot[i].key = slot[k].value /\ d \in Free
  /\ slot' = [slot EXCEPT ![i] = OnStack(slot[i].value), ![d] = Pending(slot[i].key),
                          ![t].home = "pending", ![k].home = "pending"]
  /\ UNCHANGED <<kind, count, late, into, drift, deleted>>

\* OP_INDEX of a table: the key of a value is pushed and not referenced
IndexEntry(t, v, i, d) ==
  /\ Container(t, "table") /\ v \in Stack /\ t # v
  /\ slot[i].home = slot[t].value /\ d \in Free
  /\ slot' = [slot EXCEPT ![d] = OnStack(slot[i].key),
                          ![t].home = "pending", ![v].home = "pending"]
  /\ Forgets(slot[i].key, -1)
  /\ UNCHANGED <<kind, count, late, into, deleted>>

-----------------------------------------------------------------------------
(* Both *)

\* OP_CLEAR: the container stays on the stack
Clear(a) ==
  /\ Container(a, "array") \/ Container(a, "table")
  /\ slot' = [s \in Slots |->
       IF slot[s].home = slot[a].value THEN [slot[s] EXCEPT !.home = "pending"] ELSE slot[s]]
  /\ UNCHANGED <<kind, count, late, into, drift, deleted>>

\* OP_CLEAR of a string: "" is pushed, the string is never dereferenced
ClearString(s, o) ==
  /\ Container(s, "string")
  /\ Interns(o)
  /\ slot' = [slot EXCEPT ![s] = OnStack(o)]
  /\ Forgets(slot[s].value, 1)
  /\ UNCHANGED <<late, into, deleted>>

\* the one-to-one maps of a set of slots to free slots
Copies(S) == {f \in [S -> Free] : \A r, s \in S : f[r] = f[s] => r = s}

\* A new container o takes the place of the one in slot a: copies[i] is its
\* item for item i of the old one, made by Make; the old one is dereferenced
Replace(a, o, k, S, Make(_)) ==
  \E d \in Free, copies \in Copies(S) :
    /\ d \notin {copies[i] : i \in S}
    /\ LET new == [s \in Slots |->
             IF s = a THEN OnStack(o)
             ELSE IF s = d THEN Pending(slot[a].value)
             ELSE IF \E i \in S : copies[i] = s THEN Make(CHOOSE i \in S : copies[i] = s)
             ELSE slot[s]]
           Made(p) == Cardinality({i \in S : Make(i).value = p}) + Cardinality({i \in S : Make(i).key = p})
       IN /\ kind[o] = "free" /\ o \notin Literals
          /\ kind' = [kind EXCEPT ![o] = k]
          /\ count' = [p \in Objects |-> IF p = o THEN 1 ELSE count[p] + Made(p)]
          /\ slot' = new
  /\ UNCHANGED <<late, into, drift, deleted>>

\* OP_COPY, OP_SLICE of an array: some or all of the items, each referenced
CopyArray(a, o, S) ==
  /\ Container(a, "array") /\ S \subseteq Home(slot[a].value)
  /\ Replace(a, o, "array", S, LAMBDA i : ItemOf(o, slot[i].value))

\* OP_COPY of a table: every key and value is referenced
CopyTable(a, o) ==
  /\ Container(a, "table")
  /\ Replace(a, o, "table", Home(slot[a].value), LAMBDA i : Entry(o, slot[i].key, slot[i].value))

\* OP_KEYS: an array of the keys, each referenced
KeysOf(a, o) ==
  /\ Container(a, "table")
  /\ Replace(a, o, "array", Home(slot[a].value), LAMBDA i : ItemOf(o, slot[i].key))

\* OP_FOR over an array: the first item is a local; the array stays
For(a, i, d) ==
  /\ Container(a, "array") /\ slot[i].home = slot[a].value /\ d \in Free
  /\ Referenced(slot[i].value)
  /\ slot' = [slot EXCEPT ![d] = OnStack(slot[i].value)]
  /\ UNCHANGED <<kind, late, into, drift, deleted>>

\* OP_FOR_LOOP over an array: the local v is dereferenced before the next item
\* is referenced
ForLoop(a, v, i, d) ==
  /\ Container(a, "array") /\ v \in Stack /\ a # v
  /\ slot[i].home = slot[a].value /\ d \in Free
  /\ slot' = [slot EXCEPT ![v].home = "pending", ![d] = OnStack(slot[i].value)]
  /\ late' = {d}
  /\ UNCHANGED <<kind, count, into, drift, deleted>>

\* OP_FOR_LOOP over a table: the key k and the value v of the loop are
\* dereferenced, in one pending slot, before those of entry i are referenced
ForLoopEntry(t, k, v, i, d) ==
  /\ Container(t, "table") /\ Container(k, "string") /\ v \in Stack
  /\ Cardinality({t, k, v}) = 3
  /\ slot[i].home = slot[t].value /\ d \in Free
  /\ slot' = [slot EXCEPT ![k] = OnStack(slot[i].key), ![d] = OnStack(slot[i].value),
                          ![v] = Entry("pending", slot[k].value, slot[v].value)]
  /\ late' = {k, d}
  /\ UNCHANGED <<kind, count, into, drift, deleted>>

-----------------------------------------------------------------------------

\* hymn_delete, when the globals are gone: every string is dereferenced once
Delete ==
  /\ ~deleted /\ Home("pending") = {} /\ late = {}
  /\ Stack = {}
  /\ LET strings == {o \in Objects : kind[o] = "string"}
     IN /\ count' = [o \in Objects |-> IF o \in strings THEN count[o] - 1 ELSE count[o]]
        /\ kind' = [o \in Objects |-> IF o \in strings /\ count[o] = 1 THEN "free" ELSE kind[o]]
  /\ deleted' = TRUE
  /\ UNCHANGED <<slot, late, into, drift>>

\* one instruction of a script
Instruction ==
  \/ \E s \in Free, o \in Objects \ Literals, k \in {"array", "table"} : New(s, o, k)
  \/ \E s \in Free, o \in Objects : PushString(s, o)
  \/ \E s \in Stack, d \in Free : GetLocal(s, d)
  \/ \E l, v \in Stack, d \in Free : SetLocal(l, v, d)
  \/ \E d, e \in Free : \E lent \in [{d, e} -> Stack] : AddLocalsFails(lent)
  \/ \E a, v \in Stack : ArrayPush(a, v)
  \/ \E a, v \in Stack, d \in Free : ArrayPushLocals(a, v, d)
  \/ \E a \in Stack, i \in Slots : ArrayPop(a, i)
  \/ \E a \in Stack, i \in Slots, d \in Free : GetItem(a, i, d)
  \/ \E a, v \in Stack, d \in Free : SetItem(a, v, d)
  \/ \E t \in Stack, i \in Slots, d \in Free : GetProperty(t, i, d)
  \/ \E t, k \in Stack, i \in Slots, d \in Free : GetEntry(t, k, i, d)
  \/ \E t, v \in Stack, d \in Free, n \in Literals : SetProperty(t, v, n, d)
  \/ \E t, k, v \in Stack : SetEntry(t, k, v)
  \/ \E t, k \in Stack, i \in Slots, d \in Free : DeleteEntry(t, k, i, d)
  \/ \E t, v \in Stack, i \in Slots, d \in Free : IndexEntry(t, v, i, d)
  \/ \E a \in Stack : Clear(a)
  \/ \E s \in Stack, o \in Objects : ClearString(s, o)
  \/ \E a \in Stack, o \in Objects, S \in SUBSET Slots : CopyArray(a, o, S)
  \/ \E a \in Stack, o \in Objects : CopyTable(a, o)
  \/ \E a \in Stack, o \in Objects : KeysOf(a, o)
  \/ \E a \in Stack, i \in Slots, d \in Free : For(a, i, d)
  \/ \E a, v \in Stack, i \in Slots, d \in Free : ForLoop(a, v, i, d)
  \/ \E t, k, v \in Stack, i \in Slots, d \in Free : ForLoopEntry(t, k, v, i, d)

\* a failed assertion ends the program
Next ==
  /\ CountsNeverNegative
  /\ \/ \E s \in Home("pending") : Dereference(s)
     \/ \E s \in late : ReferenceLate(s)
     \/ Ready /\ Instruction
     \/ \E S \in SUBSET Stack : Drop(S)
     \/ Delete

\* hymn_dereference is called and returns
Fairness == WF_vars(CountsNeverNegative /\ \E s \in Home("pending") : Dereference(s))

Spec == Init /\ [][Next]_vars /\ Fairness

-----------------------------------------------------------------------------
(* Properties *)

TypeOK ==
  /\ kind \in [Objects -> {"array", "table", "string", "free"}]
  /\ count \in [Objects -> -MaxDrift..(2 * Cardinality(Slots) + MaxDrift + 1)]
  /\ DOMAIN slot = Slots
  /\ \A s \in Slots :
       \/ slot[s] = Empty
       \/ /\ slot[s].home \in Objects \cup {"stack", "pending"}
          /\ slot[s].value \in Objects
          /\ slot[s].key \in Objects \cup {NULL}
          /\ slot[s].home = "stack" => slot[s].key = NULL
  /\ late \subseteq Stack
  /\ into \in Objects \cup {NULL}
  /\ drift \in [Objects -> -MaxDrift..MaxDrift]
  /\ deleted \in BOOLEAN

\* A count is the number of places that own a reference, also between the
\* steps of a recursive release; it is wrong by what instructions have
\* forgotten and by nothing else.
CountExact == ~deleted => \A o \in Objects : count[o] = Owners(o) + drift[o]

\* Memory is never used after it is freed, with two exceptions: an object that
\* an instruction forgot to reference (drift < 0), and the value of an
\* assignment that has let go of the very container it was stored in (or of a
\* container that somebody forgot to reference).  What is referenced once too
\* often leaks and does no other harm.
OnlyDebtsDangle ==
  ~deleted =>
    /\ \A s \in Slots :
         /\ slot[s].value # NULL /\ kind[slot[s].value] = "free" =>
              \/ drift[slot[s].value] < 0
              \/ s \in late /\ \E o \in Objects :
                   kind[o] = "free" /\ (o = into \/ drift[o] < 0)
         /\ slot[s].key # NULL /\ kind[slot[s].key] = "free" => drift[slot[s].key] < 0
    /\ \A o \in Literals : kind[o] # "string" => drift[o] < 0

\* What containers hold is in containers that are alive; the entries of a table
\* have keys, all different, and the items of an array have none.
ItemsPlaced ==
  ~deleted => \A s \in Slots :
    LET home == slot[s].home
    IN home \in Objects =>
         \/ kind[home] = "array" /\ slot[s].key = NULL
         \/ /\ kind[home] = "table" /\ slot[s].key # NULL
            /\ kind[slot[s].key] = "string" \/ drift[slot[s].key] < 0
            /\ Found(home, slot[s].key) = {s}

Live == {o \in Objects : kind[o] # "free"}

Holds(o, p) == \E s \in Home(o) : slot[s].value = p \/ slot[s].key = p

\* what a script can still get to
Reachable ==
  LET roots == Live \cap (Literals \cup {slot[s].value : s \in Stack})
      Closed(S) == roots \subseteq S /\ \A o \in S, p \in Live : Holds(o, p) => p \in S
  IN {o \in Live : \A S \in SUBSET Live : Closed(S) => o \in S}

Acyclic == \A S \in SUBSET Live : S # {} => \E o \in S : \A p \in S : ~Holds(p, o)

\* Memory is released as soon as possible: between two instructions, what the
\* script cannot get to any more is gone; unless there is a cycle, or a
\* reference too many.
ReleasedAtOnce ==
  ~deleted /\ Home("pending") = {} /\ late = {} /\ Acyclic /\ (\A o \in Objects : drift[o] <= 0) =>
    Live = Reachable

\* assert(strings->size == 0) of hymn_delete, for a script that has forgotten no
\* reference and left no cycle.
StringsReleasedBalanced ==
  deleted /\ (\A o \in Objects : drift[o] = 0) /\ (\A o \in Live : kind[o] = "string") => Live = {}

\* The recursion of hymn_dereference ends, whatever holds what.
CascadeEnds == (Home("pending") # {}) ~> (Home("pending") = {} \/ ~CountsNeverNegative)

\* assert(strings->size == 0) of hymn_delete, for every script
StringsReleased == deleted => \A o \in Objects : kind[o] # "string"
=============================================================================
