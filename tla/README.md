# TLA+ specifications of the Hymn virtual machine

Hymn (`src/hymn.c`) is a small scripting language: a scanner and a Pratt
compiler produce byte code, a peephole optimizer rewrites it, and a stack
machine runs it. Memory is counted by reference, strings are interned, errors
are values that unwind a stack of frames, and `use` runs another script inside
the running one. There are no threads. What is hard is the order of small
steps: what is counted before what is released, which frame an error lands in,
what a loop finds in a table that its own body has changed.

## 1. Inventory

| Part | Source | State | Operations | Modelled |
|---|---|---|---|---|
| Strings and interning | `hymn.c` 1092-1119, 1342-1463, 2505-2588, 5003-5055 | `H->strings` (HymnSet), `HymnObjectString.count`, constant pools | intern, compile a literal, reference, dereference, delete the machine | `HymnStrings` |
| Hash table | 1121-1335, 2396-2475 | bins, chains, size | put, get, remove, clear, resize, next, keys, index, copy | `HymnTable` |
| Calls, errors, imports | 4928-5450, 5717-5850, 7373-7415, 7677-7697 | value stack, frames, `H->error`, IMPORTS, nested C calls of `run()` | call, tail call, return, throw, unwind, import, exec | `HymnFrames` |
| Reference counts | 2290-2388, 5013-5109, 6459-7203 | counts of arrays, tables and strings, who holds what | the instructions that move, store or release a value, but for those named in section 6 | `HymnHeap` |
| Scanner | 655-2200 | source position, current token | advance | no; scripts are trees |
| Compiler | 2477-3200, 4226-4965 | scopes, locals, loop and jump lists, except list, `C->pop` | one function per syntax form | `HymnCompiler` |
| Optimizer | 3358-4224 | instructions, important jumps, except ranges | peephole rewriting | `HymnOptimizer` |
| Interpreter | 5112-5170, 5633-7385 | value stack, frames, globals, arrays and tables | one case per opcode | `HymnMachine` |
| Function lifetime | 2841-2882 | parent links, constants | delete a function | no |
| Arithmetic, casts, formatting | 3238-3349, 5647-5716, 6032-6450, 7211-7264 | none | operators | `HymnCode`, `HymnMachine` |
| Array contents | 2270-2388, 6644-7101 | length, capacity, items | push, insert, pop, remove, slice | `HymnMachine`; ownership in `HymnHeap` |
| Embedding interface | 7433-7720 | the machine | `hymn_run`, `hymn_call`, `hymn_add`, ... | `hymn_run` |
| Native libraries | `hymn_*.c` | none of their own | text, pattern, path, json, io, os, math | no |
| Command line, REPL | `hymn_main.c` | line buffer | read, evaluate, print | no |
| JavaScript port | `js/` | a second implementation | | no |

How they interact: instructions call the table, the interner and the counters
directly; every release goes through `hymn_dereference`, which may free a
container and come back to everything it held; every error goes through
`exception()`, which releases the values of each frame it leaves; `import()`
calls the compiler and `run()` from inside an instruction; the optimizer
replaces sequences of instructions by single ones that must keep the same
references and the same frames. `PROJECT.json` lists the hazards line by line.

What makes each part correct:

- strings: one object for one text, no place points to a freed one, each count
  is the number of owners, nothing is left at the end;
- table: a map, whatever the hashes; a loop sees what stays in the table once;
- frames: each frame owns its part of the stack, an error lands in the
  innermost `try`, each `run()` ends at its own script, the machine is clean
  when it is idle;
- counts: a count is the number of owners between any two steps, freed memory
  is not used, what is unreachable is gone;
- compiler: the code does what the source says; the height of the stack at an
  instruction does not depend on the way there; every jump is patched;
- optimizer: the code does what it did; jumps, except ranges and the list of
  jumps follow every byte that is removed.

## 2. Modules

`HymnStrings` - life of a string object. `text`, `count` are the object at an
address, `strings` the members of `H->strings`, `slot` the places that own a
reference (stack, locals, globals, items), `pool` the constant pools, which own
nothing. Actions: `CompileLiteral` (`compile_intern_string`), `DeleteLiteral`
(`byte_code_delete`), `PushString`, `Copy`, `LoadLiteral` (`OP_CONSTANT`),
`Dereference`, `NativeCall` (`call_value`: arguments are dereferenced before the
result is referenced), `DeleteMachine`. `phase` and `once` separate a machine
that compiles everything first from one that compiles while it runs (`use`, a
second `hymn_do`, the REPL). An action that would read a freed object sets
`fault`, and the model stops there.

`HymnTable` - the table with its bins, chains and growth as operators on a record
(`With` is `table_put`, `Without` is `table_remove`, `Resized` is `table_resize`,
`NextKey` is `table_next`), and a script as actions over it: `Put`, `Get`,
`Delete`, `Clear`, `Copy`, and a `for` loop (`For`, `ForLoop`, `Break`) whose body
is any sequence of the others. A key is a number in the order of `strcmp`; its
hash is a constant, so that collisions are chosen. `visits`, `stable`, `moved` and
`grown` are history.

`HymnDictionary` - the abstract specification: a map and the last answer.
`HymnTable` implements it under `dict <- [k |-> ValueOf(table, k)]`; growth, copy
and the loop are stutters.

`HymnFrames` - the dispatch loop as far as it touches the stack and the frames.
A program is a constant: functions with code and except ranges, as the compiler
and optimizer leave them. Most instructions are alike here and become `Value` (pushes),
`Operate` (takes n values, leaves some or raises an error) and `Jump`; `CALL`,
`TAIL_CALL`, `VOID`, `RETURN`, `THROW`, `USE` have actions of their own. `runs`
is the C stack: which caller waits for which `run()`. `Exception` is
`exception()` whole. `Heights` gives the height of a frame before each
instruction; `WellFormed` says what compiled code is like (operands are there, a
height does not depend on the way, an `except` block starts with the locals of
its `try` and the message) and is an assumption on `Programs`, which TLC evaluates
for the programs of each run. `NameReads` is the nondeterminism of reading the name of a
freed function (see section 5). `MCFrames` holds the programs.

`HymnHeap` - references. A slot is a place with a reference: on the stack, in an
array, in a table with its key, or `pending`, which is a reference
`hymn_dereference` is still to give back. So the recursion of a release is a
sequence of steps, in any order, and the next instruction waits until it is
over. An instruction that references a value only after it has dereferenced
something leaves the slot in `late`. An instruction that forgets a reference, as
the code does in a few places, says so with `Forgets`, which changes the count's
history variable `drift` and nothing else (`AddLocalsFails`, which forgets two, does
it itself); `drift` is what lets the invariants
say exactly what those places can and cannot spoil.

`HymnCode` - opcodes, bytes and widths, values, and the arithmetic that the
optimizer does ahead of time and the machine at its instructions. A function is a
record of bytes, constants, except ranges and arity. A float is a fraction; an
integer is small. A container is an address in `heap`.

`HymnSource` - scripts as trees, the form in which the scanner and the table of
precedences hand them to the compiler's functions.

`HymnCompiler` - the functions of the compiler as operators on one record `c`, which
is `Compiler *C`: scopes with their locals and code, the loops, the four lists of
jumps, `pop` and `barrier`. An operator has the name of its function (`EndScope`,
`FreeAnd`, `PatchBreaks` is `patch_jump_list`, `For` is `for_statement`), and
emits the same bytes in the same order; the byte code of each script below was compared
with a dump of the real compiler's.

`HymnOptimizer` - `optimize()`. The variable `optimizer` is `struct Optimizer` with the
function it works on. A rule is an operator that gives the set of its results;
`Turn` is one turn of the loop: rules that ask for no jump target, then those that
must not remove one (`Adjustable`). `Rewrite` is `rewrite()` with the jumps, the
except ranges and the important list. Its assertions are in it too: `Asserts` says whether
the build keeps them (the makefile, `debug.sh` and `test.sh`) or has `NDEBUG`
(`install.sh`), and `aborted` that one has failed, after which nothing happens. `Starts` and `LeadsTo` are how the disassembler
reads the code: with the true widths, where the optimizer goes by `next()`. `Optimizing`
is the optimizer alone, on one function after the other: each is `Compiled`, which says
what the compiler hands over, and then every step is a turn of the loop.

`HymnMachine` - `run()`: one action per instruction, or per group that differs in an
operator. `Answers` takes values and leaves one of the results, `Throws` is `exception()`.
An error is raised after the bytes that the instruction has read by then, which
decides the range that catches it.

`HymnScripts` - a script on its way: `Compile`, `Run` until it ends (the build with
`HYMN_NO_OPTIMIZE`), `OptimizerStarts`, `OptimizerTurns` and `OptimizerEnds` for each
function, and `Run` again (every other build). It instantiates the compiler and
extends the machine and the optimizer, whose specification `Optimizing` it implements
with the same variable: the steps of everything else are stutters.

`HymnMeaning` - the reference: an evaluator of the trees, with environments and no
stack, slots, jumps or bytes. It is not a model of code. `MCScripts` holds the scripts and
has the evaluator work out what each means.

`HymnStringsProofs`, `HymnHeapProofs`, `HymnTableProofs`, `HymnOptimizerProofs` - the
proofs about the module each is named after. `HymnLemmas` is what they share about numbers,
sequences and recursive functions.

`HymnFramesLemmas`, `HymnFramesSteps`, `HymnFramesProofs` - the proofs about
`HymnFrames`: errors, calls and returns on a stack of frames; what each
instruction does to it; the imports, the host and the theorems.

Apart from `HymnScripts` the modules share no variables. `HymnStrings` treats all places alike and looks
at texts and literals; `HymnHeap` treats a string as an object without a text and
looks at places; `HymnTable` looks at keys and no counts; `HymnFrames` at
functions and no counts. `HymnFrames` and `HymnMachine` share the rules of calls and
errors: `HymnFrames` adds imports, natives, a host that runs again and the faults of
`exception()`, `HymnMachine` the meaning of every instruction.

## 3. Runs

| Run | Checks | Bounds | States |
|---|---|---|---|
| `strings` | `TypeOK` `Canonical` `SlotsAlive` `CountExact` `DeletedEmpty` `LiteralsAliveOnce` | 3 texts, 3 addresses, 3 slots, 2 literals, symmetric | 552 |
| `strings_literals` | `LiteralsStable`, violated | 2 texts, 2 addresses, 2 slots, 1 literal | |
| `table` | `TypeOK` `Placed` `SizeExact` `Listed` `EachVisitedOnce` `LoopFinishes` `ImplementsDictionary` | 4 keys, 2 values, 2 to 8 bins | 122,934 |
| `frames` | `TypeOK` `FramesOwnStack` `RunsMatchScripts` `IdleClean` `CaughtByInnermost` `ModuleRunsOnce` `NeverFaults` `Finishes` | 6 programs, 5 frames, 2 host runs | 434 |
| `frames_escape` | `CaughtByInnermost`, violated | 1 program | |
| `frames_module` | `NeverFaults`, violated | 1 program | |
| `frames_arity` | `NeverFaults`, violated | 1 program | |
| `heap` | `TypeOK` `CountExact` `OnlyDebtsDangle` `ItemsPlaced` `ReleasedAtOnce` `StringsReleasedBalanced` | 3 objects (1 literal), 5 slots, drift of 1, symmetric | 116,652 |
| `heap_release` | `CascadeEnds` | 3 objects, 3 slots, drift of 1, no symmetry | 30,658 |
| `heap_delete` | `StringsReleased`, violated | 3 objects, 4 slots | |
| `scripts` | `TypeOK` `JumpsLand` `ImportantExact` `HeightsAgree` `ExceptNested` `OptimizedAgrees` `NeverFaults` `Undisturbed` `CompiledMeaning` `Optimizing` `JumpsFound` | 22 scripts, 4 frames | 6,262 |
| `scripts_sizes` | `NeverFaults`, violated | 1 script | |

Why the bounds are enough.

- `strings`: three addresses let a text be freed and its address be taken by
  another text while a third is alive; two literals share a text or not.
- `table`: the code starts with 8 bins and stops at 2^30. With 2 to 8 bins and four keys
  a table grows twice: at its first key, and at its third. Then a chain of up to three is
  split, in any order of its items; chains of two rest, before and after. Two things the
  run does not reach: a chain of three or more that rests, from the middle of
  which an item is removed or where a loop is, and a full table that stays as it is because
  it has the most bins. The theorems of section 4 cover both. Bins are powers of
  two, as the ASSUME requires; nothing else in the code depends on the number 8. The
  proofs need two bins or more: a table that starts with one would have no room for a key.
- `frames`: `HYMN_FRAMES_MAX` is 5, so that recursion, imports and nested calls
  meet it; every instruction of section 2 occurs in and out of a `try`, and two
  host runs show what the first leaves to the second. `ProgramsAreCareful` says that
  these programs keep what the last theorems of section 4 assume of theirs.
- `heap`: three objects make a cycle through a table and an array with a string
  as key, five slots hold the operands of every instruction. `CopyArray` and
  `CopyTable` copy up to two items. With a drift of 1 an object is forgotten once
  at a time, so an `OP_ADD_LOCALS` of one object with itself does not occur.
- `scripts`: the machine is deterministic, so a script is one behaviour and the bound is
  the choice of scripts: every kind of node, every instruction of `HymnMachine`
  and every rule of the optimizer occurs (the coverage of TLC shows it), with
  locals at the places where they matter: before a `break`, a `continue`, a
  `throw`, around loops and tries inside of each other, at both ends of arrays
  and slices. Six scripts are ones that the compiler must refuse. `HYMN_FRAMES_MAX` is 4,
  which two scripts exceed on purpose and in the same way in both builds: no
  other call comes near it, since a tail call saves a frame. The build is one with
  assertions (`Asserts = TRUE`), where `NeverFaults` also says that none fails, so no
  script has a loop right behind instructions that become fewer (section 5). Run
  `scripts_sizes` is of a build without assertions, where the machine meets the wrong code. `Optimizing` and
  `Undisturbed` say that the functions of these scripts are what the theorems about the
  optimizer assume; a `try` that begins with constants that are folded, among others, is
  there for them.

Deadlock is checked where the system never stops (`table`) and in `scripts`, where
a script that is done rests and any other has a step. The host of `frames`
stops after its last run, a deleted machine stops, and `strings` and `heap` also
stop where a model ends in freed memory or in a failed assertion, so these runs
do not check it.

Fairness. `HymnFrames` has `WF(Step)`: `run()` and its callers never wait.
`HymnTable` has `WF(ForLoop)`: the body of a loop reaches its end (a body that runs for
ever has no claim on the loop). `HymnHeap` has weak fairness of a pending
release: `hymn_dereference` is an ordinary call. `HymnScripts` has weak fairness of
`Next`: the compiler, the optimizer and `run()` never wait. Its `Fairness` spells out
`WF_vars(Next)` with the condition under which `Next` is enabled, which is before the
script is done; the deadlock check shows that it is. There is no fairness for what a
script or a host chooses to do next.

## 4. What is proved

Every safety invariant that runs `strings`, `table`, `frames` and `heap` check is a
theorem for all values of the constants, and so is the refinement of
`HymnDictionary`. Of run `scripts`, what is about the code that the optimizer rewrites is
proved for any code. In each of the four modules `IInv` is the inductive invariant, there is a lemma for
each action, and the theorems follow from `Spec => []IInv`.

**Strings** (`HymnStringsProofs`), for any texts, addresses, slots and literals:
`TypeCorrect`, `InterningCanonical`, `NoDanglingSlot`, `CountsExact`,
`DeleteLeavesNothing`, `LiteralsNeverDangle`. Assumed: `NULL` is no text and no
object, and there are finitely many slots.

That a count stays positive needs that every slot points to a live object
(`SlotsAlive`) and that the count covers its holders (`CountExact`); that the last
dereference removes its own object from `H->strings` needs that no two members share
a text (`Canonical`); that `hymn_delete` empties the set needs that no string ever
has more than one reference beyond its holders. `LiteralsAliveOnce` needs what
the program keeps nowhere: which strings have the compiler's reference. Before
anything runs all of them do (`CompilerReferences`); afterwards those of the
literals do (`LiteralReferences`).

**References** (`HymnHeapProofs`), for any objects, literals, slots and any number of
forgotten references: `TypeCorrect`, `CountsAreExact`, `NothingElseDangles`,
`ItemsStayPlaced`, `MemoryIsReleased`, `StringsAreReleased`. Assumed: there are finitely
many slots.

`CountExact` is nearly inductive: an instruction changes the places that own an
object and its count by the same number, less its drift. What it needs is that an
instruction cannot change the count of an object that is gone, which is
`AliveCounted`: an object is there exactly as long as its count is positive.
`OnlyDebtsDangle` needs more, because an instruction that stores a value first and
references it later leaves a place for a moment that the count does not cover.
`LateHeld` says what keeps such a value alive until then: the stack, or a container
that the stack holds or that is being assigned to. As long as
nothing has been forgotten it fails for one instruction, the late reference of
`OP_SET_DYNAMIC` when the assignment frees its own table, which is a place that
`OnlyDebtsDangle` excepts. `ItemsPlaced` needs that no key of
a table is freed while the table has it, again up to drift.

**Tables** (`HymnTableProofs`), for any finite set of keys with any hashes and any
growth from `InitialBins` to `MaximumBins`: `TypeCorrect`, `ItemsArePlaced`,
`SizesAreExact`, `KeysAreListed`, `LoopsAreComplete`, `Refinement`. Assumed: bins are
powers of two (the code masks the hash with `bins - 1`), and two or more at first.

`Sound` is what each function keeps: every chain holds the keys of its bin once
(`Shaped`), and size, bins and the load are what `table_put` tests (`Sized`). From it
follows what a function returns as a map from keys to values: `With` changes one
key, `Without` takes one away, `Resized` none. That is the refinement, action by
action: growth, copies and loops are stutters of `HymnDictionary`. For loops
`Tracking` relates the cursor to the history: the loop has been once at each
stable key at or before the cursor in the order of bins and chains, and at no other.
It is inductive because nothing but a resize or the removal of the key of the
loop moves a stable key past the cursor, which is why `LoopsAreComplete` has the
same two exceptions as the property.

`KeysAreListed` relates two ways through a table: `table_key_of` goes over the bins and
their chains, a loop asks `table_next` from key to key (`Walk`). The items in the order
of the first are in the order of the second (`Ordered`, kept when the chains are put one
after the other), and `table_next` gives the least key after the one it has, so the
n-th key of the loop is that of the n-th item (`WalkFacts`); the rest is about the first
item with the value.

`table_next`, `table_keys` and the chains are recursive functions. Induction theorems with
an operator as parameter cannot be used with this prover, so `HymnLemmas` proves
one over sets: a set of naturals that is not empty has a least element (`Least`, from
the well-founded order of the finite sets by inclusion), so a set with 0 and with
the successor of each of its members is all of them. The set of the arguments for which
a function does what it should is such a set.

**Frames** (`HymnFramesProofs`), for any well-formed programs and any `FramesMax`.
Without further assumptions, whatever a freed name reads: `TypeCorrect`,
`FramesAreApart`, `HostFindsItClean`, `ModulesRunOnce`. `IInv` has three parts.
`Standing`: each frame but the top one waits at a `CALL` or `USE`, and the frame above
begins exactly where the height of its code says (`Laid`); the stack has the height of
the top frame (`Settled`), unless the machine has met a fault. `Marked`: the scripts in
frames are in `IMPORTS`, each once. `Waiting`: there is a C call of `run()` for every script
in a frame. An error keeps them because an `except` block begins at the height of
its own `locals`, below all that the error has left.

The other three are not true of every program, as section 5 shows, so they have
hypotheses:

- `RunsEndWithScripts`, `MachineNeverFaults` and `ErrorsAreCaughtByInnermost` assume that a
  freed name still reads NULL (finding 3) and that tail calls pass enough arguments
  (`TailCallsPassEnough`, finding 4).
- The last two also assume that no tail call is in a `try` (`TailCallsOutsideTries`,
  finding 2) and that no instruction that can fail stands right before one
  (`TriesBeginQuietly`, the `try` at 5142 in section 5).
- All three are about behaviours with `[]Room`: `use` finds a free frame. `import()`
  ignores that `call()` may fail, so with `frame_count` at `HYMN_FRAMES_MAX` the error
  is thrown in the importing script and `run()` is entered anyway: then there are more
  C calls than scripts. The programs of run `frames` have room.

`RunsEndWithScripts` strengthens `IInv` by `SteadyInv` (as many C calls as scripts in
frames, one more when a `run()` has returned), the other two by `CalmInv` (no
`try` has been lost to a tail call). Most of the work is one statement about
`exception()` (`ExceptionFollows`), which every failing instruction and a failed import use.

**Optimizer** (`HymnOptimizerProofs`), for any functions, of any length and with any
number of jumps and except ranges: `OrderlyAlways`, `JumpsLandAlways`,
`ImportantExactAlways`, `ExceptNestedAlways`, `JumpsFoundAlways`. Their hypothesis is
`Optimizing /\ []Undisturbed`.

`Orderly` is the inductive invariant: there is a set S of addresses, the starts of the
instructions, for which `Good(optimizer, S)` holds.

- `Framed`, `Judged`: S begins with 0 and goes from each instruction to the next up to
  the end of the code; what `next()` takes for a longer instruction than it is (`OP_PRINT`,
  `OP_EXISTS`) comes before one of one byte.
- `Lands`: each jump leads to a member of S, and a loop does not lead ahead.
- `Exact`: the list of important instructions has each jump of the code once, and only these.
- `Ranged`, `Nested`: a range ends behind the `JUMP` that ends its `try`, and ranges
  are nested or apart.
- `Seen`: the place of the search, and the place that folding goes back to, are members
  of S that `next()` does not take with the instruction before.

`JumpsLand` alone is not inductive: `rewrite()` shortens the jumps of its list and no
others, so it needs `ImportantExact`; the list stays exact only if the search, which
goes by `next()`, stands at the start of an instruction whenever a rule looks at one. S and not the recursive function
`Starts` is in the invariant because a cut gives the new set at once (members behind it
move, those in it go) and the proof has to unfold no recursion; that S is what `Starts`
finds is proved once at the end.

A cut (`CutEffect`) is proved once for every rule. It has a region, the instructions that
a rule has looked at, into which no jump from outside leads, except to its beginning: each
rule shows what its region is and which bytes go, and gets `Good` for the rewritten code. The rules about
jumps (`IncrementLoop`, `GreaterLocals`, `TestJump`, `KnownJump`) also move, rename or
delete an entry of the list; that they find one is `JumpsFound`: the exits of
`important_move`, `update` and `delete` are not taken.

The theorems are for both values of `Asserts`. In a build with assertions they say what
holds until one fails; that none does is not a theorem, since it is false (the
second defect of section 5). An assertion that fails changes nothing but `aborted`, and the theorems without
assertions are about the same code and the same jumps, so `JumpsLandAlways` says of a program
that aborts there that its jumps were right.

What is assumed is what the code does not ask. `Compiled` is the state in which the
compiler leaves a function: patched jumps, ranges that end behind a `JUMP`, no two-byte
instruction after a `PRINT` or `EXISTS` (finding 6 is a program in which there is
one). `Undisturbed` says that no jump leads to the `LOOP` of an `IncrementLoop` or to the third
instruction of a run, where the code calls `adjustable()` for the first and second at most,
that no loop goes back to a `POP` whose bytes go, and that no `try` begins in the middle of
what goes. The first is false of some compiled programs (the first defect of section 5), so
the theorems cannot do without it. That the compiler
establishes the two is model-checked for the scripts of run `scripts` and not proved.

**Only model-checked.** The liveness properties (`LoopFinishes`, `Finishes`,
`CascadeEnds`, `CompiledMeaning`), which are beyond this prover. `TypeOK`, `HeightsAgree`,
`OptimizedAgrees` and `NeverFaults` of `HymnScripts`, and that it satisfies `Optimizing` and
`Undisturbed`: `HymnCompiler`, `HymnMachine` and `HymnMeaning` have RECURSIVE operators
(trees, and the text of nested values), so theorems cannot rest on them. So it is
proved that optimized code is well-formed, and only checked that it does the same. That real
compiled code is well-formed is read from the compiler and checked on the scripts of run
`scripts`, not proved.

## 5. What the runs found

Each was also seen in a build of the program with assertions or with an address
sanitizer. For 3 and 4 an ordinary build crashes: the allocator has written to
the freed function, its name does not read NULL any more, and the search goes on
in the importer's frames.

1. `strings_literals`: `compile_intern_string` takes a reference only when the
   text is new. A module that is compiled while a script holds "foobar" as a
   computed string shares it without a reference.
2. `frames_escape`: `return g()` in a `try` becomes `OP_TAIL_CALL`, and the
   `except` is gone with the frame when `g` fails.
3. `frames_module`: `exception()` reads `func->name` after the function of a failed
   module has been freed with its frame. `NameReads = {TRUE}` is the outcome in
   which freed memory still reads NULL, and run `frames` shows that everything
   else is right then.
4. `frames_arity`: `OP_TAIL_CALL` throws twice for too few arguments and, from a
   module, fails `assert(H->error == NULL)`.
5. `heap_delete`: `t["a"] = 1` and `clear("k")` leave a reference, so
   `assert(strings->size == 0)` fails in `hymn_delete`.
6. `scripts_sizes`: `next()` counts two bytes for `OP_PRINT` and `OP_EXISTS`, which have
   one. What follows them is read a byte late, jumps are missed by `interest()`, and
   the code pops an empty stack.
The scripts of run `scripts` stay clear of more defects, each of which was
reproduced with the program while the models were written. The properties would report
them; without them the rest would not be checked.

- `INCREMENT_LOCAL_AND_SET`, `LOOP` is fused also when a jump leads to the `LOOP`
  (3731): an assertion of `rewrite()` fails, and without assertions the code is wrong.
- `rewrite()` asserts of a loop that it leaves alone that it does not lead right behind
  the removed bytes (3534, 3547, 3560), unless their number happens to be the size of what is
  there. It may well lead there: `for i = -5, i < 5` aborts while it compiles, and so
  does `i = i + 1` before a `while`. The jump is right, and so is the program that
  `install.sh` builds without assertions. `LoopSources` in `MCScripts` is such a script:
  with it for `Sources` the run violates `NeverFaults`, and with `Asserts = FALSE` it passes.
- The jumps of `and` and `or` are patched by `if` and `elif` only; parentheses do not
  separate them (3189; `test/examples/wad.hm:35`, `test/language/if/if_and_or.hm`).
- The loops and the jump lists are the compiler's, not the function's: a `break` in a
  function inside of a loop is accepted (4622; `test/language/break/break_in_func.hm:1`).
- `C->pop` is compared across functions: a direct command that ends in a function
  may have an operand byte overwritten by `OP_ECHO` (4226).
- `GET_LOCALS` may read the slot that its own first push fills (3769).
- `INCREMENT_LOCAL` refuses strings that `ADD` takes; a `not` before a jump loses its
  type check; the opposite of a test is wrong for NaN (3847, 4150, 4198).
- `ADD` of an integer and a float pushes the integer (6085); folded, it is the sum.
- Constants are divided, by zero too, when they are compiled (4011).
- A `try` whose first byte follows an instruction of one byte catches the error of
  that instruction (5142).
- The value printer marks a container as seen for good, so the second of
  `[a, a]` is written as `[..]` (3238); run `scripts` has the printer as it is.

The programs of run `frames` stay clear of one, which was met when `RunsMatchScripts` could
not be proved: `import()` ignores that `call()` fails (5445). A `use` in the last
free frame throws the stack overflow in the importing script and then enters `run()`
for a module that has no frame; the program crashes. `Room` in section 4 excludes it.

`OnlyDebtsDangle` in run `heap` delimits four more places where the code is not
balanced: `OP_INDEX` on a table, `OP_ARRAY_PUSH_LOCALS`, the error path of
`OP_ADD_LOCALS` (it dereferences locals it does not own), and the late reference of
`OP_SET_DYNAMIC`. It says that no other instruction of the module can make a
reference dangle. Known and outside of the module: a native function that returns
its own temporary argument (`fault = "result"` in `HymnStrings`).

## 6. Not modelled

- Scanner and grammar: characters, tokens, precedence, syntax errors, types of
  variables. A compiled script is a tree without errors of syntax.
- Numbers: 64-bit overflow, rounding, infinities, NaN and the digits of a float;
  integers have 8 bits in bit operations. Limits of the code's data (256 constants,
  65,535 bytes of a jump) are in the operators and no script is that large.
- `OP_FORMAT`, `OP_SOURCE`, `OP_CODES`, `OP_STACK`, `OP_REFERENCE`, which format state;
  `OP_USE` in `HymnMachine` (it is in `HymnFrames`); the wording of messages: every error of
  `HymnMachine` has one text.
- In `HymnHeap` the instructions `OP_SELF`, `OP_GET_GLOBAL_PROPERTY`, and `OP_FOR` over
  a table.
- In `HymnHeap` the order of items and of the stack; in `HymnMachine` the counts. Functions
  as counted values (`function_delete` has rules of its own).
- `hymn_call`, native functions as values, dynamic libraries; scripts that delete from
  `IMPORTS` or `GLOBALS`.
- The depth of the C stack, the size of the value stack, the capacity of arrays,
  builds with `HYMN_NO_MEMORY`, running out of memory.
- The libraries, the command line and the JavaScript port, as in section 1.

## 7. Plan

Done: the models of section 2 with their runs, and the proofs of section 4. Left:

1. `HymnFunctions`: functions as counted values, parents and constants,
   `function_delete`, with `use`.
2. `hymn_call` and the embedding interface; the scanner.
3. A machine without RECURSIVE operators (the text of nested values is what needs them),
   to prove that a rule of the optimizer keeps what its run of instructions does.
