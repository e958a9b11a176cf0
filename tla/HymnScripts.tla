---------------------------- MODULE HymnScripts ----------------------------
(***************************************************************************)
(* A script on its way through Hymn: compiled, run as it was compiled (a   *)
(* build with HYMN_NO_OPTIMIZE), optimized one turn of optimize() at a     *)
(* time, and run again (every other build).  The two runs and the meaning  *)
(* of the tree must agree.                                                 *)
(***************************************************************************)
EXTENDS HymnMachine, HymnOptimizer

CONSTANTS
  Sources,   \* the scripts: [type, body], "script" or "direct" and a tree
  Meanings   \* what each of them does by HymnMeaning: [end, out]

ASSUME MeaningsAssumption == DOMAIN Meanings = DOMAIN Sources

VARIABLES
  program,   \* which program: its place in Sources
  phase,     \* "source", "plain", "optimizing", "optimized" or "done"
  queue,     \* functions that are still to be optimized
  plain,     \* how the first run ended: [end, out]
  heights    \* in this run, the height of the stack above the frame at each
             \* instruction that has been reached

script == <<program, phase, optimizer, queue, plain, heights>>
vars == <<machine, script>>

Compiler == INSTANCE HymnCompiler

NoOptimizer == Optimizer([code |-> <<>>, constants |-> <<>>, except |-> <<>>, arity |-> 0])
NoEnd == [end |-> "none", out |-> <<>>]

\* the end of a run as the host sees it
Outcome == [end |-> status, out |-> out]

Init ==
  /\ program \in DOMAIN Sources
  /\ phase = "source"
  /\ optimizer = NoOptimizer /\ queue = {} /\ plain = NoEnd /\ heights = <<>>
  /\ functions = <<>> /\ frames = <<>> /\ stack = <<>>
  /\ globals = <<>> /\ heap = <<>> /\ out = <<>> /\ status = "idle"

\* compile, with the script function called by exec, or an error for the host
Compile ==
  LET Load(c) ==
        IF c.error # "none"
        THEN /\ phase' = "done" /\ plain' = [end |-> "refused", out |-> <<>>]
             /\ UNCHANGED machine
        ELSE /\ phase' = "plain" /\ functions' = c.functions /\ Start
             /\ UNCHANGED plain
  IN /\ phase = "source"
     /\ \E c \in {Compiler!Compile(Sources[program].body, Sources[program].type)} : Load(c)
     /\ UNCHANGED <<program, optimizer, queue, heights>>

\* The instruction that is about to run, and the height of the stack
Point == <<Frame.id, Frame.ip>>
Height == Len(stack) - Frame.base

Run ==
  /\ phase \in {"plain", "optimized"}
  /\ Step
  /\ heights' = [x \in DOMAIN heights \cup {Point} |-> IF x = Point THEN Height ELSE heights[x]]
  /\ UNCHANGED <<program, phase, optimizer, queue, plain>>

Ended == status \in {"done", "error"}

\* end_function calls optimize for each function
PlainEnds ==
  /\ phase = "plain" /\ Ended
  /\ phase' = "optimizing" /\ plain' = Outcome
  /\ queue' = DOMAIN functions /\ heights' = <<>>
  /\ status' = "idle"
  /\ UNCHANGED <<functions, frames, stack, data, program, optimizer>>

Id == CHOOSE id \in queue : TRUE

OptimizerStarts ==
  /\ phase = "optimizing" /\ queue # {} /\ optimizer = NoOptimizer
  /\ optimizer' = Optimizer(functions[Id])
  /\ UNCHANGED <<machine, program, phase, queue, plain, heights>>

OptimizerTurns ==
  /\ phase = "optimizing" /\ optimizer # NoOptimizer /\ ~Over(optimizer)
  /\ optimizer' = Turn(optimizer)
  /\ UNCHANGED <<machine, program, phase, queue, plain, heights>>

OptimizerEnds ==
  /\ phase = "optimizing" /\ optimizer # NoOptimizer /\ Over(optimizer)
  /\ ~Stopped(optimizer)
  /\ functions' = [functions EXCEPT ![Id] = optimizer.func]
  /\ optimizer' = NoOptimizer /\ queue' = queue \ {Id}
  /\ UNCHANGED <<frames, stack, data, status, program, phase, plain, heights>>

RunAgain ==
  /\ phase = "optimizing" /\ queue = {}
  /\ phase' = "optimized" /\ Start
  /\ UNCHANGED <<functions, program, optimizer, queue, plain, heights>>

Completes ==
  /\ phase = "optimized" /\ Ended
  /\ phase' = "done"
  /\ UNCHANGED <<machine, program, optimizer, queue, plain, heights>>

\* nothing is left to do
Rests == phase = "done" /\ UNCHANGED vars

Next ==
  \/ Compile \/ Run \/ PlainEnds \/ OptimizerStarts \/ OptimizerTurns \/ OptimizerEnds
  \/ RunAgain \/ Completes \/ Rests

\* WF_vars(Next), with ENABLED <<Next>>_vars written out: there is a step until the
\* script is done (TLC reports a deadlock where there is none)
Fairness == []<>(phase = "done") \/ []<><<Next>>_vars

Spec == Init /\ [][Next]_vars /\ Fairness

-----------------------------------------------------------------------------
(* Properties *)

\* Types of the machine and of the script around it.
TypeOK ==
  /\ program \in DOMAIN Sources
  /\ phase \in {"source", "plain", "optimizing", "optimized", "done"}
  /\ queue \subseteq DOMAIN functions
  /\ status \in {"idle", "run", "done", "error"}
  /\ \A i \in DOMAIN frames :
       /\ frames[i].id \in DOMAIN functions
       /\ frames[i].base \in 0..Len(stack)
  /\ Len(frames) <= FramesMax
  /\ \A id \in DOMAIN functions : \A k \in DOMAIN functions[id].code :
       functions[id].code[k] \in 0..ByteMax

\* The height of the stack at an instruction is the same whichever way it is
\* reached: by break, continue, the end of a block, an error or a call.  The
\* compiler counts on it when it gives locals their slots.
HeightsAgree ==
  status = "run" /\ Point \in DOMAIN heights => heights[Point] = Height

\* Every script comes to its end, in both builds, and its compiled code has done
\* what its source says: it prints the same, in the same order, and ends the same
\* way; the compiler refuses a script only for an error of the script.
CompiledMeaning == <>(phase = "done" /\ plain = Meanings[program])

\* Optimized code prints and ends as the code that it was made from.
OptimizedAgrees ==
  phase = "done" /\ plain.end # "refused" => Outcome = plain

\* No instruction pops an empty stack (the assertion in pop), reads a slot
\* above the top, a constant that is not there or past the end of its code;
\* the optimizer does not fail, and its assertions hold.
NeverFaults == ~Faulty /\ ~Stopped(optimizer)
=============================================================================
