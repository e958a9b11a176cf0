--------------------------- MODULE HymnOptimizer ---------------------------
(***************************************************************************)
(* optimize(): one pass over the bytes of a function that replaces short   *)
(* runs of instructions by one instruction.  The optimizer looks at the    *)
(* instruction at `one` and the next one or two; a rule rewrites the code  *)
(* in place and the loop looks again at `one`.  What a rule removes moves  *)
(* every byte after it, so every jump over it, every except range and the  *)
(* list of important instructions (the jumps) must follow.                 *)
(*                                                                         *)
(* A rule is an operator that gives the set of its results: empty when it  *)
(* does not apply, and never more than one optimizer.  Optimizing is the   *)
(* behaviour of the optimizer on one function after the other.             *)
(***************************************************************************)
EXTENDS HymnCode

CONSTANT Asserts \* a build that keeps assert(), or one with NDEBUG

ASSUME AssertsAssumption == Asserts \in BOOLEAN

VARIABLE optimizer \* the function that is being optimized, and how far it is

\* interest: the jumps of the code, found by next()
Interest(code) ==
  LET From[i \in Nat] ==
        IF i >= Len(code) THEN <<>>
        ELSE LET name == OpAt(code, i)
                 rest == From[i + Size(name)]
             IN IF name \in Jumping THEN <<[index |-> i, name |-> name]>> \o rest ELSE rest
  IN From[0]

\* where optimize() starts; it leaves code of two bytes alone
Optimizer(func) ==
  [func |-> func, important |-> Interest(func.code), zero |-> -1, one |-> 0,
   failed |-> FALSE, aborted |-> FALSE]

Code(o) == o.func.code

FirstOp(o) == OpAt(Code(o), o.one)
Two(o) == o.one + Size(FirstOp(o))
SecondOp(o) == OpAt(Code(o), Two(o))
Three(o) == Two(o) + Size(SecondOp(o))
ThirdOp(o) == IF Three(o) < Len(Code(o)) THEN OpAt(Code(o), Three(o)) ELSE "NOTHING"

Pair(o, first, second) == FirstOp(o) = first /\ SecondOp(o) = second

\* The program is gone: failed by exit() or a trap, aborted by an assertion of rewrite().
Stopped(o) == o.failed \/ o.aborted

\* while (one < COUNT()) ... if (two >= COUNT()) break;
Over(o) == Stopped(o) \/ Len(o.func.code) <= 2 \/ Two(o) >= Len(Code(o))

-----------------------------------------------------------------------------
(* Changes of the code *)

Set(o, at, byte) == [o EXCEPT !.func.code[at + 1] = byte]
SetOp(o, at, name) == Set(o, at, Op[name])

\* Mutant: the jump of FOR is left as it is
CrossesNotFor(code, view, start) ==
  LET size == Size(view.name)
      jump == Short(code, view.index + size - 2)
  IN IF view.name \in Forward
     THEN view.name # "FOR" /\ view.index < start /\ view.index + size + jump > start
     ELSE /\ view.index >= start
          /\ view.index + (IF view.name = "FOR_LOOP" THEN 3 ELSE size) - jump < start

\* a jump that has to be shorter when bytes are removed at start
Crosses(code, view, start) ==
  LET size == Size(view.name)
      jump == Short(code, view.index + size - 2)
  IN IF view.name \in Forward
     THEN view.index < start /\ view.index + size + jump > start
     ELSE /\ view.index >= start
          /\ view.index + (IF view.name = "FOR_LOOP" THEN 3 ELSE size) - jump < start

Shorten(code, view, shift) ==
  LET at == view.index + Size(view.name) - 2
  IN PutShort(code, at, Short(code, at) - shift)

\* the code after each turn of the loop over the important instructions
Shortening(o, start, shift) ==
  LET Done[k \in 0..Len(o.important)] ==
        IF k = 0 THEN Code(o)
        ELSE LET code == Done[k - 1]
                 view == o.important[k]
             IN IF Crosses(code, view, start) THEN Shorten(code, view, shift) ELSE code
  IN Done

Shortened(o, start, shift) == Shortening(o, start, shift)[Len(o.important)]

\* What rewrite() asserts of a jump from the other side that it leaves as it is: it does not
\* lead into the removed bytes, or right behind them, unless next() happens to give their
\* number for what it leads to.  Nothing is asserted of FOR.
Asserted(code, view, start, shift) ==
  LET jump == Short(code, view.index + Size(view.name) - 2)
      target == IF view.name \in Forward THEN view.index + Size(view.name) + jump
                ELSE view.index + (IF view.name = "FOR_LOOP" THEN 3 ELSE Size(view.name)) - jump
  IN /\ view.name # "FOR"
     /\ (view.name \in Forward) = (view.index < start)
     /\ ~Crosses(code, view, start)
     /\ target \in start..(start + shift)
     => Size(OpAt(code, target)) = shift

\* an assertion does not hold, at its turn of the loop
Aborts(o, start, shift) ==
  /\ Asserts
  /\ \E k \in DOMAIN o.important :
       ~Asserted(Shortening(o, start, shift)[k - 1], o.important[k], start, shift)

\* the except ranges when bytes are removed at start
MoveRange(range, start, shift) ==
  [range EXCEPT !.start = IF start < range.start THEN @ - shift ELSE @,
                !.end = IF start < range.start \/ start < range.end THEN @ - shift ELSE @]

\* an important instruction when bytes are removed at start
MoveView(view, start, shift) ==
  IF view.index >= start THEN [view EXCEPT !.index = @ - shift] ELSE view

\* Mutant: the list of important instructions does not follow
RewriteStale(o, start, shift) ==
  LET shorter == Shortened(o, start, shift)
  IN [o EXCEPT
        !.func.code = SubSeq(shorter, 1, start) \o SubSeq(shorter, start + shift + 1, Len(shorter)),
        !.func.except = [k \in DOMAIN @ |-> MoveRange(@[k], start, shift)],
        !.aborted = @ \/ Aborts(o, start, shift)]

\* rewrite: remove shift bytes at start
Rewrite(o, start, shift) ==
  LET shorter == Shortened(o, start, shift)
  IN [o EXCEPT
        !.func.code = SubSeq(shorter, 1, start) \o SubSeq(shorter, start + shift + 1, Len(shorter)),
        !.func.except = [k \in DOMAIN @ |-> MoveRange(@[k], start, shift)],
        !.important = [k \in DOMAIN @ |-> MoveView(@[k], start, shift)],
        !.aborted = @ \/ Aborts(o, start, shift)]

\* the important instructions at an index
Listed(o, index) == {k \in DOMAIN o.important : o.important[k].index = index}

\* The important instruction at an index becomes another one at another place.
\* The program exits when there is none.
Move(o, index, name, to) ==
  IF Listed(o, index) = {} THEN [o EXCEPT !.failed = TRUE]
  ELSE [SetOp(o, to, name) EXCEPT
          !.important[Min(Listed(o, index))] = [index |-> to, name |-> name]]

Update(o, index, name) == Move(o, index, name, index)

Deletion(o, index) ==
  IF Listed(o, index) = {} THEN [o EXCEPT !.failed = TRUE]
  ELSE [o EXCEPT !.important = RemoveAt(@, Min(Listed(o, index)))]

\* a jump back of run() itself, which a cut at its target would not shorten
LoopsTo(o, target) ==
  \E k \in DOMAIN o.important :
    LET view == o.important[k]
        size == Size(view.name)
    IN /\ view.name \in {"LOOP", "INCREMENT_LOOP"}
       /\ view.index + size - Short(Code(o), view.index + size - 2) = target

\* adjustable: an important instruction jumps to the target
Adjustable(o, target) ==
  \E k \in DOMAIN o.important :
    LET view == o.important[k]
        size == Size(view.name)
        jump == Short(Code(o), view.index + size - 2)
    IN IF view.name \in Forward
       THEN view.index < target /\ view.index + size + jump = target
       ELSE view.index >= target /\ view.index + size - jump = target

-----------------------------------------------------------------------------
(* Rules that do not ask whether a jump leads to the second instruction *)

\* i += 1 at the end of a loop: one instruction takes over the jump back
IncrementLoop(o) ==
  IF Pair(o, "INCREMENT_LOCAL_AND_SET", "LOOP") THEN
    LET cut == Rewrite(Move(o, Two(o), "INCREMENT_LOOP", o.one), Two(o), 1)
        jump == Short(Code(cut), o.one + 3) - 1
    IN {[cut EXCEPT !.func.code = PutShort(@, o.one + 3, jump)]}
  ELSE {}

\* VOID drops the frame anyway
PopBeforeVoid(o) ==
  IF FirstOp(o) \in {"POP", "POP_TWO", "POP_N"} /\ SecondOp(o) = "VOID"
  THEN {Rewrite(o, o.one, Size(FirstOp(o)))}
  ELSE {}

Unguarded(o) == IncrementLoop(o) \cup PopBeforeVoid(o)

-----------------------------------------------------------------------------
(* Rules that must not remove a second instruction that a jump leads to *)

TwoLocals(o) ==
  IF Pair(o, "GET_LOCAL", "GET_LOCAL")
  THEN {Rewrite(SetOp(o, o.one, "GET_LOCALS"), o.one + 2, 1)}
  ELSE {}

GreaterLocals(o) ==
  IF Pair(o, "GET_LOCALS", "LESS_EQUAL") /\ ThirdOp(o) = "JUMP_IF_FALSE"
  THEN {Rewrite(Move(o, Three(o), "JUMP_IF_GREATER_LOCALS", o.one), Two(o), 2)}
  ELSE {}

PopTwo(o) ==
  IF Pair(o, "POP", "POP") THEN {SetOp(Rewrite(o, o.one, 1), o.one, "POP_TWO")} ELSE {}

PopThree(o) ==
  IF Pair(o, "POP_TWO", "POP") THEN {Set(SetOp(o, o.one, "POP_N"), o.one + 1, 3)} ELSE {}

PopMore(o) ==
  LET pop == Byte(Code(o), o.one + 1)
  IN IF Pair(o, "POP_N", "POP") /\ pop < ByteMax - 1
     THEN {Set(Rewrite(o, o.one + 1, 1), o.one + 1, pop + 1)}
     ELSE {}

GuardedSecond(o) ==
  TwoLocals(o) \cup GreaterLocals(o) \cup PopTwo(o) \cup PopThree(o) \cup PopMore(o)

-----------------------------------------------------------------------------
(* Rules for when no jump leads to the first instruction either *)

ReturnBeforeVoid(o) ==
  IF Pair(o, "RETURN", "VOID") THEN {Rewrite(o, Two(o), 1)} ELSE {}

CallInTail(o) ==
  IF Pair(o, "CALL", "RETURN") THEN {SetOp(o, o.one, "TAIL_CALL")} ELSE {}

GlobalProperty(o) ==
  IF Pair(o, "GET_GLOBAL", "GET_PROPERTY")
  THEN {Rewrite(SetOp(o, o.one, "GET_GLOBAL_PROPERTY"), o.one + 2, 1)}
  ELSE {}

\* the constant at an instruction CONSTANT; what is no constant is never one by
\* chance that a rule is about
ConstantAt(o, at) ==
  LET k == Byte(Code(o), at + 1) + 1
  IN IF k \in DOMAIN o.func.constants THEN o.func.constants[k] ELSE Undefined

\* Mutant: any integer is taken to fit into a byte
ByteConstantAny(v) == Is(v, "integer")

ByteConstant(v) == Is(v, "integer") /\ v.i \in 0..ByteMax

LocalIncrement(o) ==
  IF /\ Pair(o, "GET_LOCAL", "CONSTANT") /\ ThirdOp(o) = "ADD"
     /\ ByteConstant(ConstantAt(o, Two(o)))
  THEN LET slot == Byte(Code(o), o.one + 1)
           add == ConstantAt(o, Two(o)).i
       IN {Set(Set(SetOp(Rewrite(o, o.one, 2), o.one, "INCREMENT_LOCAL"), o.one + 1, slot),
               o.one + 2, add)}
  ELSE {}

OnLocals == [ADD |-> "ADD_LOCALS", MODULO |-> "MODULO_LOCALS", ARRAY_PUSH |-> "ARRAY_PUSH_LOCALS"]

LocalsOperation(o) ==
  IF FirstOp(o) = "GET_LOCALS" /\ SecondOp(o) \in DOMAIN OnLocals
  THEN {Rewrite(SetOp(o, o.one, OnLocals[SecondOp(o)]), o.one + 3, 1)}
  ELSE {}

IncrementAndSet(o) ==
  IF /\ Pair(o, "INCREMENT_LOCAL", "SET_LOCAL") /\ ThirdOp(o) = "POP"
     /\ Byte(Code(o), o.one + 1) = Byte(Code(o), o.one + 4)
  THEN {Rewrite(SetOp(o, o.one, "INCREMENT_LOCAL_AND_SET"), o.one + 3, 3)}
  ELSE {}

\* the constant of an instruction CONSTANT is replaced by another
Replace(o, value) ==
  LET constants == AddConstant(o.func.constants, value)
  IN Set([o EXCEPT !.func.constants = constants], o.one + 1, ConstantIndex(constants, value))

\* what two constants add up to
FoldedSum(a, b) ==
  CASE Is(b, "string") /\ a.is \in {"none", "bool", "integer", "float"} -> {Text(Plain(a) \o Plain(b))}
    [] Is(a, "string") -> {Text(Plain(a) \o Plain(b))}
    [] Is(a, "integer") /\ Is(b, "integer") -> {Integer("ADD", a.i, b.i)}
    [] Numeric(a) /\ Numeric(b) -> {Fraction("ADD", a, b)}
    [] OTHER -> {}

FoldedProduct(name, a, b) ==
  CASE Is(a, "integer") /\ Is(b, "integer") -> {Integer(name, a.i, b.i)}
    [] Numeric(a) /\ Numeric(b) -> {Fraction(name, a, b)}
    [] OTHER -> {}

FoldedBits(name, a, b) ==
  IF Is(a, "integer") /\ Is(b, "integer") THEN {Number(Bitwise(name, a.i, b.i))} ELSE {}

Folded(name, a, b) ==
  CASE name = "ADD" -> FoldedSum(a, b)
    [] name \in {"SUBTRACT", "MULTIPLY", "DIVIDE"} -> FoldedProduct(name, a, b)
    [] name \in BitOps -> FoldedBits(name, a, b)
    [] OTHER -> {}

\* The division of an integer constant by zero is done, and traps, here.
FoldTwo(o) ==
  IF ~Pair(o, "CONSTANT", "CONSTANT") THEN {}
  ELSE LET a == ConstantAt(o, o.one)
           b == ConstantAt(o, Two(o))
       IN IF ThirdOp(o) = "DIVIDE" /\ Is(a, "integer") /\ Is(b, "integer") /\ b.i = 0
          THEN {[o EXCEPT !.failed = TRUE]}
          ELSE {[Rewrite(Replace(o, value), Two(o), 3) EXCEPT !.one = o.zero] :
                  value \in Folded(ThirdOp(o), a, b)}

Negated(v) ==
  CASE Is(v, "integer") -> {Number(-v.i)}
    [] Is(v, "float") -> {Float(-v.i, v.d)}
    [] OTHER -> {}

FoldOne(o) ==
  IF FirstOp(o) # "CONSTANT" THEN {}
  ELSE LET a == ConstantAt(o, o.one)
           values == CASE SecondOp(o) = "NEGATE" -> Negated(a)
                       [] SecondOp(o) = "BIT_NOT" /\ Is(a, "integer") -> {Number(-1 - a.i)}
                       [] OTHER -> {}
       IN {Rewrite(Replace(o, value), o.one + 2, 1) : value \in values}

ConstantIncrement(o) ==
  IF Pair(o, "CONSTANT", "ADD") /\ ByteConstant(ConstantAt(o, o.one))
  THEN {Rewrite(Set(SetOp(o, o.one, "INCREMENT"), o.one + 1, ConstantAt(o, o.one).i), o.one + 2, 1)}
  ELSE {}

\* Mutant: the opposite of < is >, and that of > is <
TestJumpsStrict == [
  EQUAL         |-> <<"JUMP_IF_EQUAL", "JUMP_IF_NOT_EQUAL">>,
  NOT_EQUAL     |-> <<"JUMP_IF_NOT_EQUAL", "JUMP_IF_EQUAL">>,
  LESS          |-> <<"JUMP_IF_LESS", "JUMP_IF_GREATER">>,
  GREATER       |-> <<"JUMP_IF_GREATER", "JUMP_IF_LESS">>,
  LESS_EQUAL    |-> <<"JUMP_IF_LESS_EQUAL", "JUMP_IF_GREATER">>,
  GREATER_EQUAL |-> <<"JUMP_IF_GREATER_EQUAL", "JUMP_IF_LESS">>,
  NOT           |-> <<"JUMP_IF_FALSE", "JUMP_IF_TRUE">> ]

\* JUMP_IF: what a test and JUMP_IF_TRUE, or JUMP_IF_FALSE, become
TestJumps == [
  EQUAL         |-> <<"JUMP_IF_EQUAL", "JUMP_IF_NOT_EQUAL">>,
  NOT_EQUAL     |-> <<"JUMP_IF_NOT_EQUAL", "JUMP_IF_EQUAL">>,
  LESS          |-> <<"JUMP_IF_LESS", "JUMP_IF_GREATER_EQUAL">>,
  GREATER       |-> <<"JUMP_IF_GREATER", "JUMP_IF_LESS_EQUAL">>,
  LESS_EQUAL    |-> <<"JUMP_IF_LESS_EQUAL", "JUMP_IF_GREATER">>,
  GREATER_EQUAL |-> <<"JUMP_IF_GREATER_EQUAL", "JUMP_IF_LESS">>,
  NOT           |-> <<"JUMP_IF_FALSE", "JUMP_IF_TRUE">> ]

TestJump(o) ==
  IF FirstOp(o) \in DOMAIN TestJumps /\ SecondOp(o) \in {"JUMP_IF_TRUE", "JUMP_IF_FALSE"}
  THEN LET pair == TestJumps[FirstOp(o)]
           name == IF SecondOp(o) = "JUMP_IF_TRUE" THEN pair[1] ELSE pair[2]
       IN {Update(Rewrite(o, o.one, 1), o.one, name)}
  ELSE {}

\* TRUE or FALSE before a jump: it is always taken, or never
KnownJump(o) ==
  CASE Pair(o, "TRUE", "JUMP_IF_TRUE") \/ Pair(o, "FALSE", "JUMP_IF_FALSE") ->
         {Update(Rewrite(o, o.one, 1), o.one, "JUMP")}
    [] Pair(o, "TRUE", "JUMP_IF_FALSE") \/ Pair(o, "FALSE", "JUMP_IF_TRUE") ->
         {Rewrite(Deletion(o, Two(o)), o.one, 4)}
    [] OTHER -> {}

GuardedFirst(o) ==
  ReturnBeforeVoid(o) \cup CallInTail(o) \cup GlobalProperty(o) \cup LocalIncrement(o)
    \cup LocalsOperation(o) \cup IncrementAndSet(o) \cup FoldTwo(o) \cup FoldOne(o)
    \cup ConstantIncrement(o) \cup TestJump(o) \cup KnownJump(o)

-----------------------------------------------------------------------------
(* The loop of optimize() *)

\* zero: the first of a run of constants, where the search goes on after two
\* of them have been folded
Scan(o) ==
  IF FirstOp(o) # "CONSTANT" THEN o
  ELSE [o EXCEPT !.zero = IF SecondOp(o) # "CONSTANT" THEN -1 ELSE IF @ = -1 THEN o.one ELSE @]

Advance(o) == [o EXCEPT !.one = Two(o)]

\* one turn of the loop: a rule that applies, or the next instruction
Turn(o) ==
  LET Apply(rules, otherwise) == IF rules = {} THEN otherwise ELSE CHOOSE r \in rules : TRUE
  IN Apply(Unguarded(o),
       IF Adjustable(o, Two(o)) THEN Advance(o)
       ELSE Apply(GuardedSecond(o),
              IF Adjustable(o, o.one) THEN Advance(o)
              ELSE Apply(GuardedFirst(Scan(o)), Advance(Scan(o)))))
-----------------------------------------------------------------------------
(* Instructions of a function, as the disassembler lists them *)

Starts(code) ==
  LET From[at \in Nat] ==
        IF at >= Len(code) THEN {} ELSE {at} \cup From[at + Width(OpAt(code, at))]
  IN From[0]

JumpsOf(code) == {at \in Starts(code) : OpAt(code, at) \in Jumping}

\* where the jump at an address goes, the debug instructions write it
LeadsTo(code, at) ==
  LET name == OpAt(code, at)
      jump == Short(code, at + Width(name) - 2)
  IN IF name \in Forward THEN at + Width(name) + jump ELSE at + Width(name) - jump

WellFormed(func) ==
  LET starts == Starts(func.code)
  IN /\ \A at \in JumpsOf(func.code) : LeadsTo(func.code, at) \in starts
     /\ \A k \in DOMAIN func.except : func.except[k].end \in starts

\* one except range in another that comes after it, or apart from it
Nested(except) ==
  \A i, j \in DOMAIN except :
    LET a == except[i]
        b == except[j]
    IN i < j => \/ b.start <= a.start /\ a.end <= b.end
                \/ a.end <= b.start \/ b.end <= a.start

\* What the compiler hands over: its jumps and ranges are patched, a jump back
\* does not go ahead, the except block of a range comes after the jump that ends
\* the try, and what next() takes with an instruction it believes longer than it is
\* (EXISTS, PRINT) is one instruction of one byte.
Compiled(func) ==
  /\ DOMAIN func = {"code", "constants", "except", "arity"}
  /\ func.code \in Seq(0..ByteMax) /\ func.constants \in Seq(Range(func.constants))
  /\ WellFormed(func)
  /\ \A at \in Starts(func.code) :
       LET name == OpAt(func.code, at)
       IN /\ at + Width(name) <= Len(func.code)
          /\ Size(name) = Width(name) \/ Size(OpAt(func.code, at + 1)) = 1
          /\ name \in Backward => LeadsTo(func.code, at) <= at
  /\ \A k \in DOMAIN func.except :
       LET range == func.except[k]
       IN /\ range \in [start : Nat, end : Nat, locals : Nat]
          /\ range.start <= range.end
          /\ range.end - 3 \in Starts(func.code) /\ OpAt(func.code, range.end - 3) = "JUMP"
  /\ Nested(func.except)

-----------------------------------------------------------------------------
(* The optimizer at work: optimize() is called for one function, then the next *)

Begin ==
  /\ Compiled(optimizer'.func)
  /\ optimizer' = Optimizer(optimizer'.func)

OptimizeInit == optimizer = Optimizer(optimizer.func) /\ Compiled(optimizer.func)

OptimizeTurn == ~Over(optimizer) /\ optimizer' = Turn(optimizer)

OptimizeNext == OptimizeTurn \/ (Over(optimizer) /\ ~Stopped(optimizer) /\ Begin)

Optimizing == OptimizeInit /\ [][OptimizeNext]_optimizer

-----------------------------------------------------------------------------
(* Properties *)

\* What the rules take for granted and do not ask, about the code that they
\* look at: whether a jump leads to the LOOP that IncrementLoop takes over, to the
\* third instruction of a run, or back to a POP that is dropped at its first byte,
\* and whether an except range begins in the middle of more than one byte that go.
Undisturbed ==
  LET o == optimizer
      Whole(last) == \A k \in DOMAIN o.func.except : o.func.except[k].start \notin (o.one + 1)..last
  IN ~Over(o) =>
       /\ IncrementLoop(o) # {} => ~Adjustable(o, Two(o))
       /\ PopBeforeVoid(o) # {} => Whole(Two(o) - 1)
       /\ PopBeforeVoid(o) \cup PopTwo(o) # {} => ~LoopsTo(o, o.one)
       /\ GreaterLocals(o) \cup LocalIncrement(o) \cup IncrementAndSet(o) \cup FoldTwo(o) # {}
            => ~Adjustable(o, Three(o)) /\ Whole(Three(o))
       /\ KnownJump(o) # {} => Whole(Three(o) - 1)

\* Every jump of the code, every loop and the handler of every except range
\* lead to the beginning of an instruction, as the compiler has patched them and
\* after each rewrite of the optimizer, which must shorten every jump over the
\* bytes it removes (rewrite, 3475) and must not remove what a jump leads to
\* (adjustable, 3424).  A range may start inside of an instruction: two reads of
\* locals, one before the try and one in it, become one.
JumpsLand == WellFormed(optimizer.func)

\* The optimizer's list of jumps is the jumps of the code after every rewrite:
\* a jump that is missing there is not shortened by the next one.
ImportantExact ==
  ~optimizer.failed =>
    {[index |-> at, name |-> OpAt(optimizer.func.code, at)] : at \in JumpsOf(optimizer.func.code)}
      = Range(optimizer.important)

\* The except ranges of a function are nested or apart, the inner one first,
\* before and after the optimizer has moved them: exception() takes the first
\* range around an address.
ExceptNested == Nested(optimizer.func.except)

\* The optimizer finds every jump that it updates, moves or deletes: the program does not
\* exit for one that is missing (3604, 3619, 3640), in either build.  A turn in which it fails
\* is one that divides by a constant zero (4013).
JumpsFound ==
  [][optimizer'.failed => FoldTwo(optimizer) = {[optimizer EXCEPT !.failed = TRUE]}]_optimizer
=============================================================================
