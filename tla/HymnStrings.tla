---------------------------- MODULE HymnStrings ----------------------------
(***************************************************************************)
(* The life of a string object in the Hymn virtual machine.                *)
(*                                                                         *)
(* Every string a script can see is interned: H->strings holds one         *)
(* HymnObjectString for each text, and two strings are compared by address *)
(* (hymn_values_equal, the key test of table_get).  A string object lives  *)
(* while its reference count is positive.  Two kinds of places point to    *)
(* it:                                                                     *)
(*   - slots, which own a reference: the value stack, locals, globals, the *)
(*     keys and values of tables, the items of arrays;                     *)
(*   - literals, the entries of the constant pools of compiled functions,  *)
(*     which own nothing: compile_intern_string gives a string one         *)
(*     reference when the compiler is the first to intern its text, and    *)
(*     that reference is never taken back before hymn_delete.              *)
(*                                                                         *)
(* The chains of H->strings are abstracted to the set of its members       *)
(* (module HymnTable models the chains).                                   *)
(***************************************************************************)
EXTENDS Integers, FiniteSets

CONSTANTS
  Texts,        \* what strcmp can tell apart
  Objects,      \* addresses at which a HymnObjectString may be allocated
  Slots,        \* places that own a reference
  Literals,     \* entries of the constant pools
  NULL          \* no object, no text

ASSUME StringsAssumption ==
  /\ NULL \notin Texts
  /\ NULL \notin Objects
  /\ IsFiniteSet(Slots)

VARIABLES
  text,     \* the text of the object at an address, NULL when free
  count,    \* HymnObjectString.count
  strings,  \* the members of H->strings
  slot,     \* the object a slot points to
  pool,     \* the object a literal points to
  phase,    \* "compile", "run" or "deleted"
  once,     \* one script: everything is compiled before anything runs (never
            \* changes; FALSE is a machine that compiles again while it holds
            \* strings: use, a second hymn_do, the REPL)
  fault     \* "none", or what has read freed memory: the model stops there

vars == <<text, count, strings, slot, pool, phase, once, fault>>

TypeOK ==
  /\ text \in [Objects -> Texts \cup {NULL}]
  /\ count \in [Objects -> Nat]
  /\ strings \in SUBSET Objects
  /\ slot \in [Slots -> Objects \cup {NULL}]
  /\ pool \in [Literals -> Objects \cup {NULL}]
  /\ phase \in {"compile", "run", "deleted"}
  /\ once \in BOOLEAN
  /\ fault \in {"none", "literal", "result"}

Init ==
  /\ text = [o \in Objects |-> NULL]
  /\ count = [o \in Objects |-> 0]
  /\ strings = {}
  /\ slot = [s \in Slots |-> NULL]
  /\ pool = [k \in Literals |-> NULL]
  /\ phase = "compile"
  /\ once \in BOOLEAN
  /\ fault = "none"

Holders(o) == {s \in Slots : slot[s] = o}

-----------------------------------------------------------------------------
(* H->strings *)

\* set_add_or_get finds o: a member with the same text
Found(c, o) == o \in strings /\ text[o] = c

\* Mutant: the chain is not searched
FreshUnsearched(c, o) == text[o] = NULL

\* set_add_or_get allocates o: no member has the text, and the address is free
Fresh(c, o) == text[o] = NULL /\ \A p \in strings : text[p] # c

\* the new member, with its first references
Allocate(c, o, references) ==
  /\ text' = [text EXCEPT ![o] = c]
  /\ count' = [count EXCEPT ![o] = references]
  /\ strings' = strings \cup {o}

\* the members that set_remove leaves when it looks up the text of o
Removed(o) == strings \ {p \in strings : text[p] = text[o]}

-----------------------------------------------------------------------------
(* Compiling *)

\* Mutant: like hymn_intern_string, which leaves the first reference to its caller
CompileLiteralUnreferenced(k, c) ==
  /\ phase = "compile" \/ (phase = "run" /\ ~once)
  /\ pool[k] = NULL
  /\ \E o \in Objects :
       /\ \/ Found(c, o) /\ UNCHANGED <<text, count, strings>>
          \/ Fresh(c, o) /\ Allocate(c, o, 0)
       /\ pool' = [pool EXCEPT ![k] = o]
  /\ UNCHANGED <<slot, phase, once, fault>>

\* Mutant: the string is referenced for each literal that shares it
CompileLiteralEach(k, c) ==
  /\ phase = "compile" \/ (phase = "run" /\ ~once)
  /\ pool[k] = NULL
  /\ \E o \in Objects :
       /\ \/ /\ Found(c, o)
             /\ count' = [count EXCEPT ![o] = @ + 1]
             /\ UNCHANGED <<text, strings>>
          \/ Fresh(c, o) /\ Allocate(c, o, 1)
       /\ pool' = [pool EXCEPT ![k] = o]
  /\ UNCHANGED <<slot, phase, once, fault>>

\* Compile text c to literal k.  The reference is given only when the text is
\* new; a text that is already interned is shared as it is.
CompileLiteral(k, c) ==
  /\ phase = "compile" \/ (phase = "run" /\ ~once)
  /\ pool[k] = NULL
  /\ \E o \in Objects :
       /\ \/ Found(c, o) /\ UNCHANGED <<text, count, strings>>
          \/ Fresh(c, o) /\ Allocate(c, o, 1)
       /\ pool' = [pool EXCEPT ![k] = o]
  /\ UNCHANGED <<slot, phase, once, fault>>

\* byte_code_delete frees the pool of a function and dereferences nothing
DeleteLiteral(k) ==
  /\ phase = "run"
  /\ pool[k] # NULL
  /\ pool' = [pool EXCEPT ![k] = NULL]
  /\ UNCHANGED <<text, count, strings, slot, phase, once, fault>>

StartRun ==
  /\ phase = "compile"
  /\ phase' = "run"
  /\ UNCHANGED <<text, count, strings, slot, pool, once, fault>>

-----------------------------------------------------------------------------
(* Running *)

\* A string made at run time: interned, referenced and pushed.  When the text
\* is already there the new copy is deleted and the member is shared.
PushString(s, c) ==
  /\ phase = "run"
  /\ slot[s] = NULL
  /\ \E o \in Objects :
       /\ \/ /\ Found(c, o)
             /\ count' = [count EXCEPT ![o] = @ + 1]
             /\ UNCHANGED <<text, strings>>
          \/ Fresh(c, o) /\ Allocate(c, o, 1)
       /\ slot' = [slot EXCEPT ![s] = o]
  /\ UNCHANGED <<pool, phase, once, fault>>

\* Mutant: the value is copied and not referenced
CopyUnreferenced(s, t) ==
  /\ phase = "run"
  /\ slot[s] # NULL
  /\ slot[t] = NULL
  /\ slot' = [slot EXCEPT ![t] = slot[s]]
  /\ UNCHANGED <<text, count, strings, pool, phase, once, fault>>

\* Copy a string from a slot to another one
Copy(s, t) ==
  /\ phase = "run"
  /\ slot[s] # NULL
  /\ slot[t] = NULL
  /\ count' = [count EXCEPT ![slot[s]] = @ + 1]
  /\ slot' = [slot EXCEPT ![t] = slot[s]]
  /\ UNCHANGED <<text, strings, pool, phase, once, fault>>

\* Load a literal: reference it and push it
LoadLiteral(s, k) ==
  /\ phase = "run"
  /\ pool[k] # NULL
  /\ slot[s] = NULL
  /\ \/ /\ text[pool[k]] # NULL
        /\ count' = [count EXCEPT ![pool[k]] = @ + 1]
        /\ slot' = [slot EXCEPT ![s] = pool[k]]
        /\ UNCHANGED fault
     \/ /\ text[pool[k]] = NULL
        /\ fault' = "literal"
        /\ UNCHANGED <<count, slot>>
  /\ UNCHANGED <<text, strings, pool, phase, once>>

\* Mutant: the place keeps the pointer it has given back
DereferenceKept(s) ==
  /\ phase = "run"
  /\ slot[s] # NULL
  /\ count' = [count EXCEPT ![slot[s]] = @ - 1]
  /\ UNCHANGED <<text, strings, slot, pool, phase, once, fault>>

\* Give a slot's reference back; the last one frees the object
Dereference(s) ==
  /\ phase = "run"
  /\ slot[s] # NULL
  /\ LET o == slot[s] IN
       /\ count' = [count EXCEPT ![o] = @ - 1]
       /\ slot' = [slot EXCEPT ![s] = NULL]
       /\ \/ /\ count[o] = 1
             /\ strings' = Removed(o)
             /\ text' = [text EXCEPT ![o] = NULL]
          \/ /\ count[o] # 1
             /\ UNCHANGED <<strings, text>>
  /\ UNCHANGED <<pool, phase, once, fault>>

\* A native function takes the string of slot s and returns text c to slot t.
\* call_value references the result when the argument has been dereferenced:
\* a result that is its own argument may be gone by then.
NativeCall(s, t, c) ==
  /\ phase = "run"
  /\ slot[s] # NULL
  /\ slot[t] = NULL
  /\ LET a == slot[s] IN
       \/ \E o \in Objects \ {a} :
            /\ \/ /\ Found(c, o)
                  /\ count' = [count EXCEPT ![a] = @ - 1, ![o] = @ + 1]
               \/ /\ Fresh(c, o)
                  /\ count' = [count EXCEPT ![a] = @ - 1, ![o] = 1]
            /\ slot' = [slot EXCEPT ![s] = NULL, ![t] = o]
            /\ \/ /\ count[a] = 1
                  /\ strings' = Removed(a) \cup {o}
                  /\ text' = [text EXCEPT ![a] = NULL, ![o] = c]
               \/ /\ count[a] # 1
                  /\ strings' = strings \cup {o}
                  /\ text' = [text EXCEPT ![o] = c]
            /\ UNCHANGED fault
       \/ /\ Found(c, a)
          /\ count[a] # 1
          /\ slot' = [slot EXCEPT ![s] = NULL, ![t] = a]
          /\ UNCHANGED <<text, count, strings, fault>>
       \/ /\ Found(c, a)
          /\ count[a] = 1
          /\ fault' = "result"
          /\ UNCHANGED <<text, count, strings, slot>>
  /\ UNCHANGED <<pool, phase, once>>

\* hymn_delete, once the globals, the paths and the imports are released:
\* every remaining member is dereferenced once
DeleteMachine ==
  /\ phase = "run"
  /\ \A s \in Slots : slot[s] = NULL
  /\ count' = [o \in Objects |-> IF o \in strings THEN count[o] - 1 ELSE count[o]]
  /\ strings' = {o \in strings : count[o] # 1}
  /\ text' = [o \in Objects |-> IF o \in strings /\ count[o] = 1 THEN NULL ELSE text[o]]
  /\ phase' = "deleted"
  /\ UNCHANGED <<slot, pool, once, fault>>

-----------------------------------------------------------------------------

Next ==
  /\ fault = "none"
  /\ \/ \E k \in Literals, c \in Texts : CompileLiteral(k, c)
     \/ \E k \in Literals : DeleteLiteral(k)
     \/ StartRun
     \/ \E s \in Slots, c \in Texts : PushString(s, c)
     \/ \E s, t \in Slots : Copy(s, t)
     \/ \E s \in Slots, k \in Literals : LoadLiteral(s, k)
     \/ \E s \in Slots : Dereference(s)
     \/ \E s, t \in Slots, c \in Texts : NativeCall(s, t, c)
     \/ DeleteMachine

Spec == Init /\ [][Next]_vars

-----------------------------------------------------------------------------
(* Properties *)

\* Interning: two live string objects never have the same text, so that
\* comparing addresses (hymn_values_equal, table_get) compares the texts; and
\* H->strings knows every live object, so that set_remove always finds it.
Canonical ==
  /\ \A a, b \in strings : text[a] = text[b] => a = b
  /\ \A o \in Objects : text[o] # NULL => o \in strings

\* No slot points to a string that has been freed: hymn_dereference_string
\* frees a string only when its last owner lets go.
SlotsAlive ==
  phase # "deleted" => \A s \in Slots : slot[s] # NULL => slot[s] \in strings

\* The count of a live string is the number of the slots that own it, plus at
\* most the one reference compile_intern_string gives.
CountExact ==
  phase # "deleted" =>
    \A o \in strings :
      /\ count[o] >= 1
      /\ count[o] - Cardinality(Holders(o)) \in {0, 1}

\* assert(strings->size == 0) of hymn_delete: one dereference of every member
\* empties H->strings.
DeletedEmpty == phase = "deleted" => strings = {}

\* When everything is compiled before anything runs, a literal points to a live
\* string for as long as its pool exists: the reference the compiler gave is
\* never handed to a slot.
LiteralsAliveOnce ==
  once /\ phase # "deleted" =>
    \A k \in Literals : pool[k] # NULL => pool[k] \in strings

\* The text a literal stands for never changes while its pool exists.
LiteralsStable ==
  [][\A k \in Literals :
       pool[k] # NULL /\ pool'[k] = pool[k] /\ phase' # "deleted" =>
         text'[pool[k]] = text[pool[k]]]_vars
=============================================================================
