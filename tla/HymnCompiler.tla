--------------------------- MODULE HymnCompiler ----------------------------
(***************************************************************************)
(* The single-pass compiler of Hymn: it writes the bytes of a function as  *)
(* it reads the source, keeps the locals that will be on the stack when    *)
(* each byte runs, and patches jumps when it gets to where they lead.      *)
(*                                                                         *)
(* The source is a tree of HymnSource: the scanner and the precedence of   *)
(* operators are left out.  One compiler record c is passed through, as    *)
(* the code passes its Compiler *C.                                        *)
(***************************************************************************)
EXTENDS HymnCode, HymnSource

LocalMax == 256  \* HYMN_UINT8_COUNT

\* names are one character, so that t.a and t["a"] are the same key
NameOf(n) == Text(<<n>>)

\* the scope of the function that is being compiled
Now(c) == c.scopes[Len(c.scopes)]
Locals(c) == Now(c).locals

\* current(C)->count
Here(c) == Len(Now(c).func.code)

\* compile_error keeps the first error; nothing runs after one
Error(c, error) == [c EXCEPT !.error = IF @ = "none" THEN error ELSE @]

Check(c, ok, error) == IF ok THEN c ELSE Error(c, error)

Emit(c, bytes) == [c EXCEPT !.scopes[Len(c.scopes)].func.code = @ \o bytes]

EmitOp(c, name) == Emit(c, <<Op[name]>>)

\* C->pop: the end of the last POP
EmitPop(c) == [EmitOp(c, "POP") EXCEPT !.pop = Here(c) + 1]

WithConstant(c, v) ==
  LET Checked(d) == Check(d, Len(Now(d).func.constants) <= ByteMax + 1, "too many constants")
  IN Checked([c EXCEPT !.scopes[Len(c.scopes)].func.constants = AddConstant(@, v)])

Constant(c, v) == ConstantIndex(Now(c).func.constants, v)

EmitWith(c, name, v) == Emit(c, <<Op[name], Constant(c, v)>>)

EmitConstant(c, v) == EmitWith(WithConstant(c, v), "CONSTANT", v)

-----------------------------------------------------------------------------
(* Scopes and variables *)

\* scope_init: slot 0 is the function itself
ScopeInit(c, id, type) ==
  [c EXCEPT !.scopes = Append(@,
     [id |-> id, type |-> type, depth |-> 0,
      locals |-> <<[name |-> "", depth |-> 0]>>,
      func |-> [code |-> <<>>, constants |-> <<>>, except |-> <<>>, arity |-> 0]])]

Depth(c) == Now(c).depth

BeginScope(c) == [c EXCEPT !.scopes[Len(c.scopes)].depth = @ + 1]

\* how many locals at the top are of a depth or deeper
Deeper(c, depth) ==
  LET n == Len(Locals(c))
      shallow == {k \in 1..n : Locals(c)[k].depth < depth}
  IN n - Max({0} \cup shallow)

Pops(c, n) == FoldLeft(LAMBDA d, k : EmitPop(d), c, [k \in 1..n |-> k])

\* the scope without its last n locals; echo_if_none does not look behind its end
ScopeWithout(c, n) ==
  [c EXCEPT !.scopes[Len(c.scopes)].depth = @ - 1,
            !.scopes[Len(c.scopes)].locals = SubSeq(@, 1, Len(@) - n),
            !.barrier = Here(c)]

\* Mutant: the locals of the scope stay on the stack
EndScopeKept(c) == ScopeWithout(c, Deeper(c, Depth(c)))

EndScope(c) == ScopeWithout(Pops(c, Deeper(c, Depth(c))), Deeper(c, Depth(c)))

\* push_local and push_hidden_local
PushLocal(c, name, depth) ==
  IF Len(Locals(c)) = LocalMax THEN Error(c, "too many locals")
  ELSE [c EXCEPT !.scopes[Len(c.scopes)].locals = Append(@, [name |-> name, depth |-> depth])]

PushHidden(c) == PushLocal(c, "", Depth(c))

\* the locals that a new name is compared with
InScope(c) ==
  {k \in DOMAIN Locals(c) :
     \A j \in k..Len(Locals(c)) : Locals(c)[j].depth = -1 \/ Locals(c)[j].depth >= Depth(c)}

\* variable: a global's name is a constant, a local is not initialized yet
Variable(c, name) ==
  IF Depth(c) = 0 THEN WithConstant(c, NameOf(name))
  ELSE PushLocal(Check(c, \A k \in InScope(c) : Locals(c)[k].name # name, "variable exists"),
                 name, -1)

LocalInitialize(c) ==
  IF Depth(c) = 0 THEN c
  ELSE [c EXCEPT !.scopes[Len(c.scopes)].locals[Len(Locals(c))].depth = Depth(c)]

FinalizeVariable(c, name) ==
  IF Depth(c) > 0 THEN LocalInitialize(c) ELSE EmitWith(c, "DEFINE_GLOBAL", NameOf(name))

\* resolve_local: the slot of a name, or -1
ResolveLocal(c, name) == SelectLastInSeq(Locals(c), LAMBDA x : x.name = name) - 1

-----------------------------------------------------------------------------
(* Jumps *)

EmitJump(c, name) == Emit(c, <<Op[name], ByteMax, ByteMax>>)

\* the bytes of the jump that has just been emitted
JumpAt(c) == Here(c) - 2

Patch(c, at) ==
  LET offset == Here(c) - at - 2
  IN IF offset > ShortMax THEN Error(c, "jump offset too large")
     ELSE [c EXCEPT !.scopes[Len(c.scopes)].func.code = PutShort(@, at, offset)]

PatchAll(c, jumps) == FoldLeft(LAMBDA d, jump : Patch(d, jump.at), c, jumps)

\* Lists of jumps to patch, the newest first.  Jumps of and, or know their
\* function; those of break and continue do not.
Jump(c, depth) == [at |-> JumpAt(c), depth |-> depth, id |-> Now(c).id]

\* the jumps ahead of the k-th, all of them when k is 0
Ahead(jumps, k) == IF k = 0 THEN jumps ELSE SubSeq(jumps, 1, k - 1)

OfScope(c, jumps) ==
  Ahead(jumps, SelectInSeq(jumps, LAMBDA j : j.id # Now(c).id \/ j.depth < Depth(c)))

WithoutFirst(jumps, gone) == SubSeq(jumps, Len(gone) + 1, Len(jumps))

FreeAnd(c) ==
  LET Free(jumps) == [PatchAll(c, jumps) EXCEPT !.jumpAnd = WithoutFirst(@, jumps)]
  IN Free(OfScope(c, c.jumpAnd))

FreeOr(c) ==
  LET Free(jumps) == [PatchAll(c, jumps) EXCEPT !.jumpOr = WithoutFirst(@, jumps)]
  IN Free(OfScope(c, c.jumpOr))

\* the depth of the innermost loop, 0 outside of loops
LoopDepth(c) == IF c.loops = <<>> THEN 0 ELSE Head(c.loops).depth

\* break: patch_jump_list, when its loop has been left
PatchBreaks(c) ==
  LET Free(jumps) == [PatchAll(c, jumps) EXCEPT !.jump = WithoutFirst(@, jumps)]
  IN Free(Ahead(c.jump, SelectInSeq(c.jump, LAMBDA j : j.depth < LoopDepth(c) + 1)))

\* continue of a for loop: patch_jump_for_list, before its increment
PatchContinues(c) ==
  LET Free(jumps) == [PatchAll(c, jumps) EXCEPT !.jumpFor = WithoutFirst(@, jumps)]
  IN Free(Ahead(c.jumpFor, SelectInSeq(c.jumpFor, LAMBDA j : j.depth < Max({1, LoopDepth(c)}))))

\* emit_loop
EmitLoop(c, start) ==
  LET offset == Here(c) - start + 3
  IN Check(Emit(c, <<Op["LOOP"], (offset \div 256) % 256, offset % 256>>),
           offset <= ShortMax, "loop is too large")

EnterLoop(c, start, isFor) ==
  [c EXCEPT !.loops = <<[start |-> start, depth |-> Depth(c) + 1, isFor |-> isFor]>> \o @]

LeaveLoop(c) == [c EXCEPT !.loops = Tail(@)]

-----------------------------------------------------------------------------
(* Expressions *)

RECURSIVE Expression(_, _), Declaration(_, _)

Expressions(c, es) == InTurn(Expression, c, es)

Declarations(c, body) == InTurn(Declaration, c, body)

Literal(c, v) ==
  CASE v = None -> EmitOp(c, "NONE")
    [] v = Truth(TRUE) -> EmitOp(c, "TRUE")
    [] v = Truth(FALSE) -> EmitOp(c, "FALSE")
    [] OTHER -> EmitConstant(c, v)

\* n is what is done to the variable, "" for reading it, "SET" for =, or the
\* operation of +=, -= and their kind
Access(c, get, set, n, es) ==
  CASE n = "" -> Emit(c, get)
    [] n = "SET" -> Emit(Expressions(c, es), set)
    [] OTHER -> Emit(EmitOp(Expressions(Emit(c, get), es), n), set)

NamedVariable(c, name, n, es) ==
  LET LocalAt(slot) ==
        Access(Check(c, Locals(c)[slot + 1].depth # -1, "referenced before assignment"),
               <<Op["GET_LOCAL"], slot>>, <<Op["SET_LOCAL"], slot>>, n, es)
      GlobalIn(d, k) == Access(d, <<Op["GET_GLOBAL"], k>>, <<Op["SET_GLOBAL"], k>>, n, es)
      Global(d) == GlobalIn(d, Constant(d, NameOf(name)))
  IN IF ResolveLocal(c, name) # -1 THEN LocalAt(ResolveLocal(c, name))
     ELSE Global(WithConstant(c, NameOf(name)))

\* compile_unary, compile_binary and the calls of len, pop, index, ...: the
\* operands, then the operation
Operation(c, e) == EmitOp(Expressions(c, e.es), e.n)

And(c, e) ==
  LET Noted(d) == [d EXCEPT !.jumpAnd = <<Jump(d, Depth(d))>> \o @]
  IN Expression(Noted(EmitJump(Expression(c, e.es[1]), "JUMP_IF_FALSE")), e.es[2])

Or(c, e) ==
  LET Noted(d) == [d EXCEPT !.jumpOr = <<Jump(d, Depth(d))>> \o @]
  IN Expression(FreeAnd(Noted(EmitJump(Expression(c, e.es[1]), "JUMP_IF_TRUE"))), e.es[2])

ArrayLiteral(c, e) ==
  InTurn(LAMBDA d, item : EmitOp(Expression(EmitOp(d, "DUPLICATE"), item), "ARRAY_PUSH"),
           EmitOp(c, "NEW_ARRAY"), e.es)

\* the fields of a table are nodes of their own, with a key as their value
TableLiteral(c, e) ==
  LET Entry(d, field) ==
        EmitPop(EmitWith(
          Expressions(WithConstant(EmitOp(d, "DUPLICATE"), field.v), field.es),
          "SET_PROPERTY", field.v))
  IN InTurn(Entry, EmitOp(c, "NEW_TABLE"), e.es)

\* compile_dot: t.a and t.a = v
Dot(c, e) ==
  LET Property(d) ==
        IF Len(e.es) = 1 THEN EmitWith(d, "GET_PROPERTY", NameOf(e.n))
        ELSE EmitWith(Expression(d, e.es[2]), "SET_PROPERTY", NameOf(e.n))
  IN Property(WithConstant(Expression(c, Head(e.es)), NameOf(e.n)))

\* compile_square: v[i], v[i] = x, and v[i:j], where i or j may be left out
Square(c, e) ==
  LET Piece(d, k) ==
        IF e.es[k].k # "nothing" THEN Expression(d, e.es[k])
        ELSE EmitConstant(d, IF k = 2 THEN Number(0) ELSE None)
  IN EmitOp(InTurn(Piece, c, [k \in DOMAIN e.es |-> k]), e.n)

\* arguments and compile_call
Call(c, e) ==
  Emit(Check(Expressions(c, e.es), Len(e.es) - 1 <= ByteMax, "too many function arguments"),
       <<Op["CALL"], Len(e.es) - 1>>)

\* compile_pointer: t->f(x) passes t as the first argument
Pointer(c, e) ==
  LET Self(d) == EmitWith(d, "SELF", NameOf(e.n))
  IN Emit(Expressions(Self(WithConstant(Expression(c, Head(e.es)), NameOf(e.n))), Tail(e.es)),
          <<Op["CALL"], Len(e.es)>>)

\* echo_if_none: what a direct command leaves is written out
EchoIfNone(c) ==
  IF c.barrier # Here(c) /\ c.pop = Here(c)
  THEN [c EXCEPT !.scopes[Len(c.scopes)].func.code[Here(c)] = Op["ECHO"]]
  ELSE c

\* end_function, without optimize
EndFunction(c) ==
  LET Done(d) ==
        [d EXCEPT
          !.functions = [id \in DOMAIN @ \cup {Now(d).id} |->
                           IF id = Now(d).id THEN Now(d).func ELSE @[id]],
          !.scopes = Front(@)]
  IN Done(EmitOp(IF Now(c).type = "direct" THEN EchoIfNone(c) ELSE c, "VOID"))

\* compile_function: es are the parameters
CompileFunction(c, e) ==
  LET Parameter(d, p) ==
        FinalizeVariable(
          Variable(Check([d EXCEPT !.scopes[Len(d.scopes)].func.arity = @ + 1],
                         Len(e.es) <= ByteMax, "too many function parameters"), p.n), p.n)
      Open(d) == InTurn(Parameter, BeginScope(ScopeInit(d, e.n, "function")), e.es)
  IN EmitConstant(EndFunction(Declarations(Open(c), e.bs[1])), Function(e.n))

Expression(c, e) ==
  CASE e.k = "literal"   -> Literal(c, e.v)
    [] e.k = "variable"  -> NamedVariable(c, e.n, "", <<>>)
    [] e.k = "assign"    -> NamedVariable(c, e.n, e.v.text[1], e.es)
    [] e.k = "operation" -> Operation(c, e)
    [] e.k = "and"       -> And(c, e)
    [] e.k = "or"        -> Or(c, e)
    [] e.k = "array"     -> ArrayLiteral(c, e)
    [] e.k = "table"     -> TableLiteral(c, e)
    [] e.k = "dot"       -> Dot(c, e)
    [] e.k = "square"    -> Square(c, e)
    [] e.k = "call"      -> Call(c, e)
    [] e.k = "pointer"   -> Pointer(c, e)
    [] e.k = "function"  -> CompileFunction(c, e)

-----------------------------------------------------------------------------
(* Statements *)

Block(c, body) == EndScope(Declarations(BeginScope(c), body))

\* set a = e
DefineVariable(c, s) ==
  FinalizeVariable(Expressions(Variable(c, s.n), s.es), s.n)

\* func a(...) { ... }: a local function may name itself
DeclareFunction(c, s) ==
  FinalizeVariable(CompileFunction(LocalInitialize(Variable(c, s.n)), s.es[1]), s.n)

\* if, elif and else: es are the conditions, bs the blocks; an arm is the code so
\* far, the jump over its block, and the jumps to the end of the statement
If(c, s) ==
  LET Close(arm, d) ==
        IF Len(s.bs) = 1 THEN [arm EXCEPT !.c = d]
        ELSE LET Chain(ended) == [arm EXCEPT !.c = ended, !.ends = Append(@, Jump(ended, 0))]
             IN Chain(EmitJump(d, "JUMP"))
      Body(arm, k, tested) ==
        Close([arm EXCEPT !.jump = JumpAt(tested)], Block(FreeOr(tested), s.bs[k]))
      Past(arm) == FreeAnd(Patch(arm.c, arm.jump))
      Arm(arm, k) ==
        Body(arm, k, EmitJump(Expression(IF k = 1 THEN arm.c ELSE Past(arm), s.es[k]), "JUMP_IF_FALSE"))
      Else(d) == IF Len(s.bs) > Len(s.es) THEN Block(d, s.bs[Len(s.bs)]) ELSE d
      Finish(arm) == PatchAll(Else(Past(arm)), arm.ends)
  IN Finish(InTurn(Arm, [c |-> c, jump |-> 0, ends |-> <<>>], [k \in DOMAIN s.es |-> k]))

While(c, s) ==
  LET Body(tested) ==
        PatchBreaks(Patch(LeaveLoop(EmitLoop(Block(tested, s.bs[1]), Here(c))), JumpAt(tested)))
  IN Body(EmitJump(Expression(EnterLoop(c, Here(c), FALSE), s.es[1]), "JUMP_IF_FALSE"))

\* for i = e, condition, increment: the bytes of the increment are taken out and
\* put behind the body
For(c, s) ==
  LET Increment(d) ==
        IF Len(s.es) = 3 THEN EmitPop(Expression(d, s.es[3]))
        ELSE Emit(d, <<Op["INCREMENT_LOCAL_AND_SET"], Len(Locals(c)), 1>>)
      Cut(d, at) == [d EXCEPT !.scopes[Len(d.scopes)].func.code = SubSeq(@, 1, at)]
      Bytes(d, at) == SubSeq(Now(d).func.code, at + 1, Here(d))
      Body(start, tested, d) ==
        EndScope(PatchBreaks(Patch(LeaveLoop(EmitLoop(
          Emit(PatchContinues(Block(Cut(d, Here(tested)), s.bs[1])), Bytes(d, Here(tested))),
          start)), JumpAt(tested))))
      Tested(start, d) == Body(start, d, Increment(EnterLoop(d, Here(d), TRUE)))
      Assigned(d) == Tested(Here(d), EmitJump(Expression(d, s.es[2]), "JUMP_IF_FALSE"))
  IN Assigned(LocalInitialize(Expression(Variable(BeginScope(c), s.n), s.es[1])))

\* for a in e, for a, b in e: three slots for the object, the key and the value;
\* a name of its own is that of the value, the first of two that of the key
Iterator(c, s) ==
  LET object == Len(Locals(c))
      pair == s.v.text # <<>>
      Item(d) == IF pair THEN LocalInitialize(Variable(d, s.v.text[1])) ELSE PushHidden(d)
      Renamed(d) ==
        [d EXCEPT !.scopes[Len(d.scopes)].locals[object + 1].name = "",
                  !.scopes[Len(d.scopes)].locals[object + (IF pair THEN 2 ELSE 3)].name = s.n]
      Close(d, start) ==
        LET offset == Here(d) - start + 2
        IN Check(LeaveLoop(Emit(d, <<(offset \div 256) % 256, offset % 256>>)),
                 offset <= ShortMax, "loop is too large")
      Body(d) ==
        EndScope(PatchBreaks(Patch(Close(
          Emit(PatchContinues(Block(EnterLoop(d, Here(d), TRUE), s.bs[1])), <<Op["FOR_LOOP"], object>>),
          Here(d)), JumpAt(d))))
      Object(d) == Check(LocalInitialize(d), object + 1 < ByteMax, "too many locals in iterator")
      Slots(d) == Renamed(Item(PushHidden(Object(Variable(BeginScope(d), s.n)))))
  IN Body(Emit(Expression(Slots(c), s.es[1]), <<Op["FOR"], object, ByteMax, ByteMax>>))

\* Mutant: the locals of the loop's own scope leave the stack too
PopStackLoopMore(c) == Pops(c, Deeper(c, LoopDepth(c) - 1))

\* pop_stack_loop: the locals of the body leave the stack before its jump
PopStackLoop(c) == Pops(c, Deeper(c, LoopDepth(c)))

Break(c) ==
  LET Leave(d) == [d EXCEPT !.jump = <<Jump(d, LoopDepth(d))>> \o @]
  IN IF c.loops = <<>> THEN Error(c, "break statement outside of loop")
     ELSE Leave(EmitJump(PopStackLoop(c), "JUMP"))

\* Mutant: the continue of a for loop leaves out its increment
ContinueBack(c) ==
  IF c.loops = <<>> THEN Error(c, "continue statement outside of loop")
  ELSE EmitLoop(PopStackLoop(c), Head(c.loops).start)

Continue(c) ==
  LET Skip(d) == [d EXCEPT !.jumpFor = <<Jump(d, LoopDepth(d))>> \o @]
  IN CASE c.loops = <<>> -> Error(c, "continue statement outside of loop")
       [] c.loops # <<>> /\ Head(c.loops).isFor -> Skip(EmitJump(PopStackLoop(c), "JUMP"))
       [] OTHER -> EmitLoop(PopStackLoop(c), Head(c.loops).start)

Return(c, s) ==
  LET d == Check(c, Now(c).type = "function", "return statement outside of function")
  IN IF s.es = <<>> THEN EmitOp(d, "VOID") ELSE EmitOp(Expressions(d, s.es), "RETURN")

\* Mutant: the newest range is the last of the list
TryLast(c, s) ==
  LET range == [start |-> Here(c), end |-> 0, locals |-> Len(Locals(c))]
      older == Len(Now(c).func.except)
      Opened(d) == [d EXCEPT !.scopes[Len(d.scopes)].func.except = Append(@, range)]
      Ended(d) == [d EXCEPT !.scopes[Len(d.scopes)].func.except[older + 1].end = Here(d)]
      Message(d) == FinalizeVariable(Variable(BeginScope(d), s.n), s.n)
      Handler(d) == Patch(EndScope(Declarations(Message(Ended(d)), s.bs[2])), JumpAt(d))
  IN Handler(EmitJump(Block(Opened(c), s.bs[1]), "JUMP"))

\* Mutant: the range begins behind the first byte of its block
TryBehind(c, s) ==
  LET range == [start |-> Here(c) + 1, end |-> 0, locals |-> Len(Locals(c))]
      older == Len(Now(c).func.except)
      Opened(d) == [d EXCEPT !.scopes[Len(d.scopes)].func.except = <<range>> \o @]
      Ended(d, k) == [d EXCEPT !.scopes[Len(d.scopes)].func.except[k].end = Here(d)]
      Message(d) == FinalizeVariable(Variable(BeginScope(d), s.n), s.n)
      Handler(d) ==
        Patch(EndScope(Declarations(
                Message(Ended(d, Len(Now(d).func.except) - older)), s.bs[2])), JumpAt(d))
  IN Handler(EmitJump(Block(Opened(c), s.bs[1]), "JUMP"))

\* try: bs are its block and its except block, n is the name of the message
Try(c, s) ==
  LET range == [start |-> Here(c), end |-> 0, locals |-> Len(Locals(c))]
      older == Len(Now(c).func.except)
      Opened(d) == [d EXCEPT !.scopes[Len(d.scopes)].func.except = <<range>> \o @]
      Ended(d, k) == [d EXCEPT !.scopes[Len(d.scopes)].func.except[k].end = Here(d)]
      Message(d) == FinalizeVariable(Variable(BeginScope(d), s.n), s.n)
      Handler(d) ==
        Patch(EndScope(Declarations(
                Message(Ended(d, Len(Now(d).func.except) - older)), s.bs[2])), JumpAt(d))
  IN Handler(EmitJump(Block(Opened(c), s.bs[1]), "JUMP"))

Declaration(c, s) ==
  CASE s.k = "set"        -> DefineVariable(c, s)
    [] s.k = "func"       -> DeclareFunction(c, s)
    [] s.k = "expression" -> EmitPop(Expressions(c, s.es))
    [] s.k = "statement"  -> Operation(c, s)
    [] s.k = "if"         -> If(c, s)
    [] s.k = "while"      -> While(c, s)
    [] s.k = "for"        -> For(c, s)
    [] s.k = "iterator"   -> Iterator(c, s)
    [] s.k = "return"     -> Return(c, s)
    [] s.k = "break"      -> Break(c)
    [] s.k = "continue"   -> Continue(c)
    [] s.k = "try"        -> Try(c, s)
    [] s.k = "block"      -> Block(c, s.bs[1])

\* compile: a script of a type, "script" or "direct"
Script == "script"

Compile(body, type) ==
  LET c == [scopes |-> <<>>, loops |-> <<>>, jump |-> <<>>, jumpFor |-> <<>>,
            jumpAnd |-> <<>>, jumpOr |-> <<>>, pop |-> -1, barrier |-> -1,
            functions |-> <<>>, error |-> "none"]
  IN EndFunction(Declarations(ScopeInit(c, Script, type), body))
=============================================================================
