----------------------------- MODULE HymnFrames -----------------------------
(***************************************************************************)
(* Calls, errors and imports of the Hymn virtual machine.                  *)
(*                                                                         *)
(* One value stack and one array of frames serve every call.  The C        *)
(* function run() interprets the top frame until a script ends; import()   *)
(* starts another run() inside of the first one.  An error is a value: it  *)
(* travels down the frames to the first except range around their ip, and  *)
(* out of run() where a script frame or the last frame ends.               *)
(*                                                                         *)
(* A program is the compiled code of its functions, with the except ranges *)
(* that try_statement records.  Values are abstracted to what OP_CALL can  *)
(* tell apart; references are counted in other modules.                    *)
(***************************************************************************)
EXTENDS Integers, SequencesExt, FiniteSetsExt

CONSTANTS
  Programs,     \* [arity, code, except] of each function, by its name
  Heights,      \* of each program and function: the height of a frame, its
                \* function included, before each instruction
  Scripts,      \* functions without a name: the main script and the modules
  Main,         \* the script the host runs
  FramesMax,    \* HYMN_FRAMES_MAX
  MaxRuns,      \* bound: how often the host runs the main script
  NameReads     \* what func->name of a freed script function may read:
                \* TRUE is still NULL, FALSE is not NULL any more

\* Instructions are records [op, n, v].  A range [start, end, locals] covers
\* the code of a try block; end is the first instruction of its except block.
Native == "native"   \* a native function
Plain == "plain"     \* a value that is no function
Message == "message" \* an error

Raising == {"OPERATE", "CALL", "TAIL_CALL", "THROW", "USE"}

\* how many values an instruction has taken when it raises an error
Taken(instruction) ==
  CASE instruction.op = "OPERATE" -> instruction.n
    [] instruction.op \in {"CALL", "TAIL_CALL"} -> instruction.n + 1
    [] instruction.op \in {"THROW", "USE"} -> 1
    [] OTHER -> 0

\* what a script can have on the stack; the function of a script is no value
Values(p) == (DOMAIN p.code \cup {Native, Plain, Message}) \ Scripts

\* What the code that hymn.c compiles is like: the height of a frame does not
\* depend on the way to an instruction (HymnScripts checks it of its scripts,
\* HeightsAgree), an instruction finds its operands above the function of its
\* frame (NeverFaults there), and every function ends in OP_VOID or OP_RETURN.
\* A return outside of a function is a compile error.
Fits(p, f, i) ==
  LET code == p.code[f]
      height == Heights[p][f]
      op == code[i].op
      n == code[i].n
      v == code[i].v
  IN /\ n \in Nat
     /\ op \notin {"VOID", "RETURN"} => i < Len(code)
     /\ op = "VALUE" => v \in Values(p) /\ height[i + 1] = height[i] + 1
     /\ op = "OPERATE" =>
          v \in Seq(Values(p)) /\ n < height[i] /\ height[i + 1] = height[i] - n + Len(v)
     /\ op = "POP" => height[i + 1] = height[i] - 1
     /\ op = "JUMP" => n \in 1..Len(code) /\ height[n] = height[i]
     /\ op \in {"CALL", "TAIL_CALL"} => n + 2 <= height[i] /\ height[i + 1] = height[i] - n
     /\ op \in {"RETURN", "THROW"} => 2 <= height[i]
     /\ op = "USE" =>
          v \in (DOMAIN p.code \cap Scripts) \ {Main} /\ height[i + 1] = height[i] - 1
     /\ op \in {"TAIL_CALL", "RETURN"} => f \notin Scripts

\* Where an error can be raised in a range, or an instruction after such a place
\* waits for a result, the locals that the try block began with are on the stack;
\* only what a break or continue pops on its way out takes them.  The except
\* block starts with them and the message.
Guards(p, f, range) ==
  LET code == p.code[f]
      height == Heights[p][f]
  IN /\ range \in [start : Nat \ {0}, end : 1..Len(code), locals : Nat \ {0}]
     /\ height[range.end] = range.locals + 1
     /\ \A i \in range.start..range.end :
          i > 1 /\ code[i - 1].op \in Raising => range.locals <= height[i]
     /\ \A i \in range.start..range.end-1 :
          code[i].op \in Raising => range.locals <= height[i] - Taken(code[i])

WellFormed(p) ==
  /\ Main \in DOMAIN p.code /\ DOMAIN p.code \cap {Native, Plain, Message} = {}
  /\ \A f \in DOMAIN p.code :
       /\ p.arity[f] \in Nat /\ (f \in Scripts => p.arity[f] = 0)
       /\ Len(p.code[f]) \in Nat \ {0}
       /\ Heights[p][f] \in [1..Len(p.code[f]) -> Nat \ {0}]
       /\ Heights[p][f][1] = p.arity[f] + 1
       /\ \A i \in 1..Len(p.code[f]) : Fits(p, f, i)
       /\ Len(p.except[f]) \in Nat /\ DOMAIN p.except[f] = 1..Len(p.except[f])
       /\ \A i \in DOMAIN p.except[f] : Guards(p, f, p.except[f][i])

ASSUME FramesAssumption ==
  /\ FramesMax \in Nat \ {0}
  /\ MaxRuns \in Nat
  /\ NameReads \subseteq BOOLEAN /\ NameReads # {}
  /\ Main \in Scripts /\ Scripts \cap {Native, Plain, Message} = {}
  /\ \A p \in Programs : WellFormed(p)

\* Three things that the code leaves to the script.  What happens without them
\* is a finding of a run each, or is left to the README.

\* no instruction that can fail stands right before a try block
TriesBeginQuietly(p) ==
  \A f \in DOMAIN p.code : \A i \in DOMAIN p.except[f] :
    LET start == p.except[f][i].start
    IN start > 1 => p.code[f][start - 1].op \notin Raising

\* no call in a try block has been made a tail call
TailCallsOutsideTries(p) ==
  \A f \in DOMAIN p.code : \A i \in 1..Len(p.code[f]), j \in DOMAIN p.except[f] :
    p.code[f][i].op = "TAIL_CALL" =>
      i < p.except[f][j].start \/ p.except[f][j].end <= i

\* a tail call passes as many arguments as any function takes
TailCallsPassEnough(p) ==
  \A f, g \in DOMAIN p.code : \A i \in 1..Len(p.code[f]) :
    p.code[f][i].op = "TAIL_CALL" => p.arity[g] <= p.code[f][i].n

VARIABLES
  program,  \* the compiled program, fixed
  stack,    \* the value stack, H->stack to H->stack_top
  frames,   \* H->frames up to frame_count: func, ip, base (frame->stack), and
            \* the history tries: try blocks whose function left by a tail call
  runs,     \* the C calls of run() under way, by who made them
  mode,     \* "idle", "run", or "done" when run() has returned
  error,    \* H->error is set
  imports,  \* the modules in IMPORTS
  hosts,    \* how often the host has run the script
  misled,   \* history: an error went past the try block it was raised in
  fault     \* "none", or why the program has no further meaning

vm == <<stack, frames, mode, error, misled, fault>>
vars == <<program, vm, runs, imports, hosts>>

-----------------------------------------------------------------------------
(* The machine as a record, so that an operation can follow another *)

Machine ==
  [stack |-> stack, frames |-> frames, mode |-> mode, error |-> error,
   misled |-> misled, fault |-> fault]

\* the next state; run() that goes on with no frame reads H->frames[-1]
Becomes(m) ==
  /\ stack' = m.stack /\ frames' = m.frames /\ mode' = m.mode
  /\ error' = m.error /\ misled' = m.misled
  /\ fault' = IF m.mode = "run" /\ m.frames = <<>> THEN "no frame" ELSE m.fault

Push(m, v) == [m EXCEPT !.stack = Append(@, v)]

Drop(m, n) == [m EXCEPT !.stack = SubSeq(@, 1, Len(@) - n)]

Peek(m, n) == m.stack[Len(m.stack) - n + 1]

\* frame->ip moves past the instruction that has been read
Advance(m) == [m EXCEPT !.frames[Len(m.frames)].ip = @ + 1]

\* the except ranges around the ip of a frame, as exception() tests them
Around(frame) ==
  {i \in DOMAIN program.except[frame.func] :
     LET range == program.except[frame.func][i]
     IN range.start <= frame.ip /\ frame.ip <= range.end}

\* the try blocks of the source around the instruction a frame is in
Inside(frame) ==
  {i \in DOMAIN program.except[frame.func] :
     LET range == program.except[frame.func][i]
     IN range.start < frame.ip /\ frame.ip <= range.end}

\* Mutant: an error resumes its try block
HandlerRetry(frame, around) ==
  LET range == program.except[frame.func][Min(around)]
  IN [range EXCEPT !.end = range.start]

\* Mutant: the range of the outermost try block
HandlerOutermost(frame, around) == program.except[frame.func][Max(around)]

\* func->except holds the ranges innermost first
Handler(frame, around) == program.except[frame.func][Min(around)]

\* Mutant: the values above the locals stay
CutKept(m, height) == m

\* pop and dereference down to a height
Cut(m, height) == [m EXCEPT !.stack = SubSeq(@, 1, height)]

\* The frame where the search for a range ends.  exception() tests func->name
\* when it has popped the stack of the frame: the function of a module has
\* been freed by then, and kept says if its name still reads NULL.
LastFrame(m, kept) ==
  Max({1} \cup {i \in DOMAIN m.frames : kept /\ m.frames[i].func \in Scripts})

\* Where an error belongs by the source: the frame and the except block of the
\* innermost try; <<0, 0>> for none, and a block that is 0 when a tail call
\* took its function away
Belongs(m) ==
  LET trying == {i \in DOMAIN m.frames : Inside(m.frames[i]) # {} \/ m.frames[i].tries > 0}
  IN IF trying = {} THEN <<0, 0>>
     ELSE LET i == Max(trying)
              inside == Inside(m.frames[i])
          IN <<i, IF inside = {} THEN 0 ELSE program.except[m.frames[i].func][Min(inside)].end>>

\* exception(), with the message on its way to the top of the stack: resume in
\* the first frame with a range around its ip, or leave run() with H->error
Exception(m, kept) ==
  LET low == LastFrame(m, kept)
      catching == {i \in low..Len(m.frames) : Around(m.frames[i]) # {}}
      i == Max(catching)
      frame == m.frames[i]
      range == Handler(frame, Around(frame))
      height == frame.base + range.locals
  IN IF m.frames = <<>> THEN [m EXCEPT !.fault = "no frame"]
     ELSE IF catching = {} THEN
       [Cut(m, m.frames[low].base) EXCEPT
          !.frames = SubSeq(@, 1, low - 1),
          !.mode = "done",
          !.error = TRUE,
          !.fault = IF m.error THEN "error twice" ELSE @,
          !.misled = @ \/ Belongs(m)[1] >= low]
     ELSE IF Len(m.stack) < height THEN [m EXCEPT !.fault = "stack"]
     ELSE
       [Push(Cut(m, height), Message) EXCEPT
          !.frames = Append(SubSeq(@, 1, i - 1), [frame EXCEPT !.ip = range.end]),
          !.misled = @ \/ Belongs(m) # <<i, range.end>>]

\* Mutant: one frame too many
CallLate(m, f, n, kept) ==
  IF n # program.arity[f] \/ Len(m.frames) > FramesMax THEN Exception(m, kept)
  ELSE [m EXCEPT !.frames = Append(@, [func |-> f, ip |-> 1, base |-> Len(m.stack) - n - 1, tries |-> 0])]

\* call(): a new frame over the function and its arguments; a wrong number of
\* arguments and a full array of frames are errors of the caller
Call(m, f, n, kept) ==
  IF n # program.arity[f] \/ Len(m.frames) = FramesMax THEN Exception(m, kept)
  ELSE [m EXCEPT !.frames = Append(@, [func |-> f, ip |-> 1, base |-> Len(m.stack) - n - 1, tries |-> 0])]

\* call_value(): what the callee is decides; a native function returns a value
\* or raises an error, with its arguments gone
CallValue(m, n, kept, raises) ==
  LET callee == Peek(m, n + 1)
  IN CASE callee \in DOMAIN program.code -> Call(m, callee, n, kept)
       [] callee = Native -> IF raises THEN Exception(Drop(m, n + 1), kept)
                             ELSE Push(Drop(m, n + 1), Plain)
       [] OTHER -> Exception(m, kept)

-----------------------------------------------------------------------------
(* Instructions: one step of the dispatch loop of run() *)

\* the machine when run() has read an instruction op of the top frame
Reads(op) ==
  /\ mode = "run" /\ fault = "none" /\ frames # <<>>
  /\ program.code[Last(frames).func][Last(frames).ip].op = op

Instruction == program.code[Last(frames).func][Last(frames).ip]

\* OP_CONSTANT, OP_GET_LOCAL and all that only push
Value ==
  /\ Reads("VALUE")
  /\ Becomes(Push(Advance(Machine), Instruction.v))
  /\ UNCHANGED <<program, runs, imports, hosts>>

\* An instruction that takes n values and leaves v, or raises an error when it
\* has taken them (OP_ADD, OP_GET_PROPERTY, OP_DEFINE_GLOBAL, OP_POP, ...)
Operate ==
  /\ Reads("OPERATE")
  /\ LET taken == Drop(Advance(Machine), Instruction.n)
     IN \/ Becomes([taken EXCEPT !.stack = @ \o Instruction.v])
        \/ \E kept \in NameReads : Becomes(Exception(taken, kept))
  /\ UNCHANGED <<program, runs, imports, hosts>>

\* OP_POP
Pop ==
  /\ Reads("POP")
  /\ Becomes(Drop(Advance(Machine), 1))
  /\ UNCHANGED <<program, runs, imports, hosts>>

\* OP_JUMP
Jump ==
  /\ Reads("JUMP")
  /\ Becomes([Machine EXCEPT !.frames[Len(frames)].ip = Instruction.n])
  /\ UNCHANGED <<program, runs, imports, hosts>>

\* OP_CALL
CallFunction ==
  /\ Reads("CALL")
  /\ \E kept \in NameReads, raises \in BOOLEAN :
       Becomes(CallValue(Advance(Machine), Instruction.n, kept, raises))
  /\ UNCHANGED <<program, runs, imports, hosts>>

\* Mutant: the values of the caller stay below the callee
ReplacedKept(m, n) ==
  LET frame == Last(m.frames)
  IN [m EXCEPT
       !.frames = Append(Front(@),
         [func |-> Peek(m, n + 1), ip |-> 1, base |-> frame.base,
          tries |-> frame.tries + Cardinality(Inside(frame))])]

\* the caller's values are dropped from under the callee, its frame is reused
Replaced(m, n) ==
  LET frame == Last(m.frames)
  IN [m EXCEPT
       !.stack = SubSeq(@, 1, frame.base) \o SubSeq(@, Len(@) - n, Len(@)),
       !.frames = Append(Front(@),
         [func |-> Peek(m, n + 1), ip |-> 1, base |-> frame.base,
          tries |-> frame.tries + Cardinality(Inside(frame))])]

\* OP_TAIL_CALL: too few arguments raise "not enough arguments", and then "too
\* many arguments" in the frame where the first error has led, also when that
\* error was to end run()
TailCall ==
  /\ Reads("TAIL_CALL")
  /\ LET m == Advance(Machine)
         n == Instruction.n
         callee == Peek(m, n + 1)
     IN \E kept \in NameReads, raises \in BOOLEAN :
          Becomes(
            IF callee \notin DOMAIN program.code THEN CallValue(m, n, kept, raises)
            ELSE IF n < program.arity[callee] THEN
              LET first == Exception(m, kept)
              IN IF first.fault # "none" THEN first
                 ELSE Exception([first EXCEPT !.mode = "run"], kept)
            ELSE IF n > program.arity[callee] THEN Exception(m, kept)
            ELSE Replaced(m, n))
  /\ UNCHANGED <<program, runs, imports, hosts>>

\* Mutant: the frame goes and its values stay
LeaveUncut(m, result) ==
  LET frame == Last(m.frames)
      left == [m EXCEPT !.frames = Front(@)]
  IN IF Len(m.frames) = 1 \/ frame.func \in Scripts THEN [left EXCEPT !.mode = "done"]
     ELSE Push(left, result)

\* Mutant: only the last frame ends run()
LeaveThrough(m, result) ==
  LET frame == Last(m.frames)
      left == Cut([m EXCEPT !.frames = Front(@)], frame.base)
  IN IF Len(m.frames) = 1 THEN [left EXCEPT !.mode = "done"] ELSE Push(left, result)

\* the frame and its values go; a script ends run(), a function leaves a result
Leave(m, result) ==
  LET frame == Last(m.frames)
      left == Cut([m EXCEPT !.frames = Front(@)], frame.base)
  IN IF Len(m.frames) = 1 \/ frame.func \in Scripts THEN [left EXCEPT !.mode = "done"]
     ELSE Push(left, result)

\* OP_VOID
Void ==
  /\ Reads("VOID")
  /\ Becomes(Leave(Advance(Machine), Plain))
  /\ UNCHANGED <<program, runs, imports, hosts>>

\* OP_RETURN
Return ==
  /\ Reads("RETURN")
  /\ Becomes(Leave(Drop(Advance(Machine), 1), Peek(Machine, 1)))
  /\ UNCHANGED <<program, runs, imports, hosts>>

\* OP_THROW
Throw ==
  /\ Reads("THROW")
  /\ \E kept \in NameReads : Becomes(Exception(Drop(Advance(Machine), 1), kept))
  /\ UNCHANGED <<program, runs, imports, hosts>>

-----------------------------------------------------------------------------
(* Imports *)

\* OP_USE of what cannot be found, of a file that cannot be read or compiled,
\* or of a module that is there
UseFails ==
  /\ Reads("USE")
  /\ Instruction.v \notin imports
  /\ \/ UNCHANGED imports
     \/ imports' = imports \cup {Instruction.v}
  /\ \E kept \in NameReads : Becomes(Exception(Drop(Advance(Machine), 1), kept))
  /\ UNCHANGED <<program, runs, hosts>>

UseAgain ==
  /\ Reads("USE")
  /\ Instruction.v \in imports
  /\ Becomes(Drop(Advance(Machine), 1))
  /\ UNCHANGED <<program, runs, imports, hosts>>

\* Mutant: the module is marked when its script has ended
UseUnmarked ==
  /\ Reads("USE")
  /\ Instruction.v \notin imports
  /\ runs' = Append(runs, "import")
  /\ \E kept \in NameReads :
       LET m == Push(Drop(Advance(Machine), 1), Instruction.v)
       IN Becomes([Call(m, Instruction.v, 0, kept) EXCEPT !.mode = "run"])
  /\ UNCHANGED <<program, imports, hosts>>

\* The module is marked, compiled and called, and a new run() starts.  import()
\* does not look at what call() returned: a stack overflow goes to run() as well
Use ==
  /\ Reads("USE")
  /\ Instruction.v \notin imports
  /\ imports' = imports \cup {Instruction.v}
  /\ runs' = Append(runs, "import")
  /\ \E kept \in NameReads :
       LET m == Push(Drop(Advance(Machine), 1), Instruction.v)
       IN Becomes([Call(m, Instruction.v, 0, kept) EXCEPT !.mode = "run"])
  /\ UNCHANGED <<program, hosts>>

\* The inner run() has returned to import(): its error is raised again in the
\* frame that is now on top
ImportReturns ==
  /\ mode = "done" /\ fault = "none" /\ Last(runs) = "import"
  /\ runs' = Front(runs)
  /\ LET m == [Machine EXCEPT !.mode = "run", !.error = FALSE]
     IN IF error THEN \E kept \in NameReads : Becomes(Exception(m, kept)) ELSE Becomes(m)
  /\ UNCHANGED <<program, imports, hosts>>

-----------------------------------------------------------------------------
(* The host: exec() *)

Start ==
  /\ mode = "idle" /\ fault = "none" /\ hosts < MaxRuns
  /\ hosts' = hosts + 1
  /\ runs' = <<"host">>
  /\ Becomes([Call(Push(Machine, Main), Main, 0, TRUE) EXCEPT !.mode = "run"])
  /\ UNCHANGED <<program, imports>>

\* run() has returned to exec(): with an error the host gets the message and the
\* stack is left as it is, else the stack must be empty
HostReturns ==
  /\ mode = "done" /\ fault = "none" /\ runs = <<"host">>
  /\ runs' = <<>>
  /\ Becomes(
       IF error THEN [Machine EXCEPT !.mode = "idle", !.error = FALSE]
       ELSE [Machine EXCEPT
              !.mode = "idle", !.stack = <<>>, !.frames = <<>>,
              !.fault = IF stack = <<>> THEN @ ELSE "stack"])
  /\ UNCHANGED <<program, imports, hosts>>

Init ==
  /\ program \in Programs
  /\ stack = <<>> /\ frames = <<>> /\ runs = <<>>
  /\ mode = "idle" /\ error = FALSE
  /\ imports = {} /\ hosts = 0
  /\ misled = FALSE /\ fault = "none"

Step ==
  \/ Value \/ Operate \/ Pop \/ Jump \/ CallFunction \/ TailCall
  \/ Void \/ Return \/ Throw
  \/ UseFails \/ UseAgain \/ Use \/ ImportReturns
  \/ HostReturns

Next == Step \/ Start

\* run() never waits: what it can do it does
Spec == Init /\ [][Next]_vars /\ WF_vars(Step)

-----------------------------------------------------------------------------
(* Properties *)

TypeOK ==
  /\ program \in Programs
  /\ \A i \in DOMAIN stack : stack[i] \in DOMAIN program.code \cup {Native, Plain, Message}
  /\ Len(frames) <= FramesMax
  /\ \A i \in DOMAIN frames :
       /\ frames[i].func \in DOMAIN program.code
       /\ frames[i].ip \in 1..Len(program.code[frames[i].func])
       /\ frames[i].base \in Nat
  /\ runs \in Seq({"host", "import"})
  /\ mode \in {"idle", "run", "done"}
  /\ error \in BOOLEAN /\ misled \in BOOLEAN
  /\ imports \subseteq Scripts
  /\ hosts \in 0..MaxRuns
  /\ fault \in {"none", "no frame", "error twice", "stack"}

\* A frame owns the stack from its function on up to the next frame's function:
\* after any mixture of calls, tail calls, errors and imports the callee is
\* still in the first slot of its frame, and the frames lie one above the other.
FramesOwnStack ==
  /\ \A i \in DOMAIN frames :
       frames[i].base < Len(stack) /\ stack[frames[i].base + 1] = frames[i].func
  /\ \A i, j \in DOMAIN frames : i < j => frames[i].base < frames[j].base

\* Every run() under way has a script frame of its own, so it ends where its
\* own script ends and returns to the caller that waits for it.
RunsMatchScripts ==
  mode = "run" => Len(runs) = Cardinality({i \in DOMAIN frames : frames[i].func \in Scripts})

\* assert(H->stack_top == H->stack), also when the script has failed: the next
\* script of the same machine starts clean.
IdleClean ==
  mode = "idle" => stack = <<>> /\ frames = <<>> /\ runs = <<>> /\ ~error

\* An error is handled by the except block of the innermost try it is raised
\* in, through any number of calls and imports, and reaches the host only when
\* there is none.
CaughtByInnermost == ~misled

\* A module that imports itself, directly or through others, runs once.
ModuleRunsOnce ==
  \A i, j \in DOMAIN frames :
    frames[i].func = frames[j].func /\ frames[i].func \in Scripts => i = j

\* The machine never reads a frame that is not there, never pops below the
\* locals of an except block, and never sets H->error when it is set.
NeverFaults == fault = "none"

\* Every run of a script without endless tail calls ends, with all the errors
\* it raises: no error is handled twice.
Finishes == (mode # "idle") ~> (mode = "idle")
=============================================================================
