-------------------------- MODULE HymnFramesProofs --------------------------
(***************************************************************************)
(* Theorems about HymnFrames, for any well-formed programs.                *)
(***************************************************************************)
EXTENDS HymnFramesSteps

(***************************************************************************)
(* The invariant.  A frame begins where the one below it waits, and the    *)
(* stack ends where the top frame says, except after a fault.              *)
(***************************************************************************)
Standing(p, st, fr, mo, fa) ==
  /\ Laid(p, st, fr) /\ Len(fr) <= FramesMax
  /\ fa = "none" => Settled(p, st, fr)
  /\ fa = "none" /\ mo = "done" /\ fr # <<>> => Paused(p, Top(fr))

\* Every module that has a frame is in IMPORTS, and has no other.
Marked(fr, im) ==
  /\ im \subseteq Scripts \ {Main}
  /\ \A i \in ScriptsIn(fr) : fr[i].func \in im \cup {Main}
  /\ \A i, j \in ScriptsIn(fr) : fr[i].func = fr[j].func => i = j

\* the host at the bottom, and imports that wait above it
Callers(ru) ==
  /\ ru \in Seq({"host", "import"})
  /\ \A i \in 1..Len(ru) : ru[i] = "host" <=> i = 1

\* No more scripts than calls of run(), one less when a run() has returned
Waiting(st, fr, ru, mo, er) ==
  /\ Callers(ru) /\ (mo = "idle" <=> ru = <<>>)
  /\ mo = "done" => Cardinality(ScriptsIn(fr)) + 1 <= Len(ru)
  /\ Cardinality(ScriptsIn(fr)) <= Len(ru)
  /\ mo = "idle" => st = <<>> /\ fr = <<>> /\ er = FALSE

IInv ==
  /\ program \in Programs /\ mode \in {"idle", "run", "done"} /\ error \in BOOLEAN
  /\ misled \in BOOLEAN /\ fault \in Faults
  /\ Standing(program, stack, frames, mode, fault)
  /\ Marked(frames, imports)
  /\ Waiting(stack, frames, runs, mode, error)
  /\ hosts \in 0..MaxRuns

\* The same number, and no error on its way but from one run() to the next
Steady(fr, ru, mo, er) ==
  /\ mo = "run" => Len(ru) = Cardinality(ScriptsIn(fr)) /\ fr # <<>>
  /\ mo = "done" => Len(ru) = Cardinality(ScriptsIn(fr)) + 1
  /\ mo # "done" => er = FALSE

SteadyInv == Steady(frames, runs, mode, error)

CalmInv == fault = "none" /\ misled = FALSE /\ Tryless(frames)

-----------------------------------------------------------------------------
(* Frames and calls of run() *)

\* The scripts among the frames are finitely many, and fewer when one has gone.
LEMMA ScriptCount ==
  ASSUME NEW S, NEW fr \in Seq(S)
  PROVE  /\ IsFiniteSet(ScriptsIn(fr)) /\ Cardinality(ScriptsIn(fr)) \in Nat
         /\ \A g : Older(fr, g) =>
              /\ Cardinality(ScriptsIn(g)) <= Cardinality(ScriptsIn(fr)) /\ Cardinality(ScriptsIn(g)) \in Nat
              /\ \A i \in ScriptsIn(fr) : i \notin ScriptsIn(g) =>
                   Cardinality(ScriptsIn(g)) + 1 <= Cardinality(ScriptsIn(fr))
         /\ \A i \in ScriptsIn(fr) :
              Cardinality(ScriptsIn(fr) \ {i}) = Cardinality(ScriptsIn(fr)) - 1
<1> DEFINE A == ScriptsIn(fr)  l == Len(fr)
<1>1. l \in Nat /\ A \subseteq 1..l
  BY DEF ScriptsIn
<1> HIDE DEF A, l
<1>2. IsFiniteSet(A)
  <2>1. 1 \in Int /\ l \in Int
    BY <1>1
  <2>2. IsFiniteSet(1..l)
    BY <2>1, FS_Interval
  <2> QED
    BY <1>1, <2>2, FS_Subset
<1>3. Cardinality(A) \in Nat
  BY <1>2, FS_CardinalityType
<1>4. ASSUME NEW g, Older(fr, g)
      PROVE  /\ Cardinality(ScriptsIn(g)) <= Cardinality(A) /\ Cardinality(ScriptsIn(g)) \in Nat
             /\ \A i \in A : i \notin ScriptsIn(g) => Cardinality(ScriptsIn(g)) + 1 <= Cardinality(A)
  <2> DEFINE B == ScriptsIn(g)  x == Cardinality(A)  y == Cardinality(B)
  <2>1. B \subseteq A
    BY <1>4 DEF Older, A
  <2> HIDE DEF B
  <2>2. IsFiniteSet(B) /\ Cardinality(B) <= Cardinality(A) /\ (Cardinality(A) = Cardinality(B) => A = B)
    BY <1>2, <2>1, FS_Subset
  <2>3. x \in Nat /\ y \in Nat
    BY <1>3, <2>2, FS_CardinalityType
  <2>4. ASSUME NEW i \in A, i \notin B
        PROVE  y + 1 <= x
    <3>1. x # y /\ y <= x
      BY <2>2, <2>4
    <3> HIDE DEF x, y
    <3> QED
      BY <2>3, <3>1
  <2> QED
    BY <2>2, <2>3, <2>4 DEF B
<1>5. \A i \in A : Cardinality(A \ {i}) = Cardinality(A) - 1
  BY <1>2, FS_RemoveElement
<1> QED
  BY <1>2, <1>3, <1>4, <1>5 DEF A

\* What is older has no module that the frames had not.
LEMMA OlderMarked ==
  ASSUME NEW fr, NEW g, Older(fr, g), NEW im, Marked(fr, im), NEW jm, im \subseteq jm, jm \subseteq Scripts \ {Main}
  PROVE  Marked(g, jm)
  BY DEF Older, Marked

\* The machine of a state at an instruction
LEMMA ReadsFacts ==
  ASSUME IInv, NEW op, Reads(op), NEW m, m = Machine, NEW f, NEW i, NEW b, NEW n, At(m, f, i, b, n)
  PROVE  /\ Ready(m) /\ program.code[f][i] = Instruction /\ program.code[f][i].op = op
         /\ program \in Programs /\ mode = "run" /\ m.frames = frames /\ m.stack = stack
<1>1. /\ m.stack = stack /\ m.frames = frames /\ m.mode = mode /\ m.error = error /\ m.misled = misled
      /\ m.fault = fault /\ DOMAIN m = {"stack", "frames", "mode", "error", "misled", "fault"}
  BY DEF Machine
<1>2. program \in Programs /\ mode = "run" /\ fault = "none" /\ frames # <<>>
  BY DEF IInv, Reads
<1>3. IsMachine(m)
  BY <1>1 DEF IInv, IsMachine
<1>4. Ready(m)
  BY <1>1, <1>2, <1>3 DEF IInv, Standing, Ready, Sound
<1>5. program.code[f][i] = Instruction
  BY <1>1 DEF At, Instruction, Top, Last
<1>6. Instruction.op = op
  BY DEF Reads, Instruction
<1> QED
  BY <1>1, <1>2, <1>4, <1>5, <1>6

\* run() has read an instruction and done what it says.
Dispatched(m) ==
  /\ mode = "run" /\ m.frames = frames /\ m.error = error /\ m.misled = misled /\ m.fault = "none"
  /\ \E e : Follows(m, e) /\ Becomes(e)
  /\ program' = program /\ runs' = runs /\ hosts' = hosts
  /\ imports \subseteq imports' /\ imports' \subseteq Scripts \ {Main}

\* Every instruction but the import of a module
LEMMA Dispatching ==
  ASSUME IInv,
         \/ Value \/ Operate \/ Pop \/ Jump \/ CallFunction \/ TailCall
         \/ Void \/ Return \/ Throw \/ UseFails \/ UseAgain,
         NEW m, m = Machine
  PROVE  Dispatched(m)
<1> DEFINE y == Top(frames)  f == y.func  i == y.ip  b == y.base  n == Len(stack)
<1>1. /\ m.stack = stack /\ m.frames = frames /\ m.error = error /\ m.misled = misled /\ m.fault = fault
  BY DEF Machine
<1>2. At(m, f, i, b, n)
  BY <1>1 DEF At
<1> HIDE DEF f, i, b, n, y
<1>3. ASSUME NEW op, Reads(op)
      PROVE  /\ Ready(m) /\ Instruction = program.code[f][i] /\ program.code[f][i].op = op
             /\ program \in Programs /\ mode = "run" /\ m.fault = "none"
  BY <1>1, <1>2, <1>3, ReadsFacts DEF Reads
<1>4. imports \subseteq Scripts \ {Main}
  BY DEF IInv, Marked
<1>5. ASSUME NEW op, Reads(op), NEW e, Follows(m, e), Becomes(e), UNCHANGED <<program, runs, imports, hosts>>
      PROVE  Dispatched(m)
  BY <1>1, <1>3, <1>4, <1>5 DEF Dispatched
<1>6. ASSUME NEW op, op \notin {"VOID", "RETURN"}, Reads(op)
      PROVE  Fits(program, f, i)
  BY <1>2, <1>3, <1>6, ReadyFacts
<1>7. CASE Value
  <2> DEFINE e == Push(Advance(m), program.code[f][i].v)
  <2>1. Reads("VALUE") /\ Becomes(Push(Advance(Machine), Instruction.v)) /\ UNCHANGED <<program, runs, imports, hosts>>
    BY <1>7 DEF Value
  <2>2. Ready(m) /\ program.code[f][i].op = "VALUE" /\ Instruction = program.code[f][i] /\ program \in Programs
    BY <1>3, <2>1
  <2>3. Follows(m, e)
    BY <1>2, <2>2, ValueStep
  <2>4. Becomes(e)
    BY <2>1, <2>2
  <2> QED
    BY <1>5, <2>1, <2>3, <2>4
<1>8. CASE Operate
  <2> DEFINE x == program.code[f][i]  q == x.n  w == x.v  d == Drop(Advance(m), q)
             e == Restacked(d, d.stack \o w)
  <2>1. /\ Reads("OPERATE") /\ UNCHANGED <<program, runs, imports, hosts>>
    BY <1>8 DEF Operate
  <2>2. Ready(m) /\ x.op = "OPERATE" /\ Instruction = x /\ program \in Programs
    BY <1>3, <2>1
  <2>3. Becomes(e) \/ \E kept \in NameReads : Becomes(Exception(d, kept))
    BY <1>8, <2>2 DEF Operate, Restacked
  <2>4. /\ Fits(program, f, i) /\ q \in Nat /\ w \in Seq(Values(program)) /\ q < Heights[program][f][i]
        /\ Heights[program][f][i + 1] = Heights[program][f][i] - q + Len(w)
    <3>1. Fits(program, f, i)
      BY <1>6, <2>1
    <3> QED
      BY <2>2, <3>1 DEF Fits
  <2>5. x.op \in Raising /\ q = Taken(x) /\ x.op \notin {"VOID", "RETURN"}
    BY <2>2 DEF Raising, Taken
  <2>6. e = Restacked(d, d.stack \o w) /\ d = Drop(Advance(m), q)
    OBVIOUS
  <2> HIDE DEF e, q, w, d
  <2>7. Follows(m, e)
    BY <1>2, <2>2, <2>4, <2>5, <2>6, OperateStep DEF x
  <2>8. \A kept \in NameReads : Follows(m, Exception(d, kept))
    BY <1>2, <2>2, <2>4, <2>5, <2>6, DropStep DEF x
  <2> QED
    BY <1>5, <2>1, <2>3, <2>7, <2>8
<1>9. CASE Pop
  <2> DEFINE x == program.code[f][i]  d == Drop(Advance(m), 1)
  <2>1. Reads("POP") /\ Becomes(d) /\ UNCHANGED <<program, runs, imports, hosts>>
    BY <1>9 DEF Pop
  <2>2. Ready(m) /\ x.op = "POP" /\ program \in Programs
    BY <1>3, <2>1
  <2>3. Fits(program, f, i) /\ Heights[program][f][i + 1] = Heights[program][f][i] - 1
    <3>1. Fits(program, f, i)
      BY <1>6, <2>1
    <3> QED
      BY <2>2, <3>1 DEF Fits
  <2>4. 1 \in Nat /\ 1 < Heights[program][f][i] /\ x.op \notin {"VOID", "RETURN"}
    <3> DEFINE k == i + 1
    <3>1. k = i + 1
      OBVIOUS
    <3> HIDE DEF k
    <3>2. Heights[program][f][k] \in Nat \ {0} /\ Heights[program][f][i] \in Nat
      BY <1>2, <2>2, <3>1, NextFacts, ReadyFacts
    <3>3. Heights[program][f][k] = Heights[program][f][i] - 1
      BY <2>3, <3>1
    <3> QED
      BY <2>2, <3>2, <3>3
  <2>5. Follows(m, d)
    BY <1>2, <2>2, <2>3, <2>4, DropStep
  <2> QED
    BY <1>5, <2>1, <2>5
<1>10. CASE Jump
  <2> DEFINE k == Count(f, i)  e == [m EXCEPT !.frames[Len(m.frames)].ip = k]
  <2>1. Reads("JUMP") /\ UNCHANGED <<program, runs, imports, hosts>>
    BY <1>10 DEF Jump
  <2>2. Ready(m) /\ program.code[f][i].op = "JUMP" /\ Instruction = program.code[f][i] /\ program \in Programs
    BY <1>3, <2>1
  <2>3. Becomes(e)
    BY <1>1, <1>10, <2>2 DEF Jump, Count
  <2>4. Follows(m, e)
    BY <1>2, <2>2, JumpStep
  <2> QED
    BY <1>5, <2>1, <2>3, <2>4
<1>11. CASE CallFunction
  <2> DEFINE q == Count(f, i)  d == Advance(m)
  <2>1. Reads("CALL") /\ UNCHANGED <<program, runs, imports, hosts>>
    BY <1>11 DEF CallFunction
  <2>2. Ready(m) /\ program.code[f][i].op = "CALL" /\ Instruction = program.code[f][i] /\ program \in Programs
    BY <1>3, <2>1
  <2>3. PICK kept \in NameReads, raises \in BOOLEAN : Becomes(CallValue(d, q, kept, raises))
    BY <1>11, <2>2 DEF CallFunction, Count
  <2> DEFINE e == CallValue(d, q, kept, raises)
  <2>4. Follows(m, e)
    <3>1. q = Count(f, i) /\ d = Advance(m) /\ e = CallValue(d, q, kept, raises)
      OBVIOUS
    <3> HIDE DEF q, d, e
    <3> QED
      BY <1>2, <2>2, <3>1, CallStep
  <2> QED
    BY <1>5, <2>1, <2>3, <2>4
<1>12. CASE TailCall
  <2> DEFINE q == Count(f, i)  d == Advance(m)
  <2>1. Reads("TAIL_CALL") /\ UNCHANGED <<program, runs, imports, hosts>>
    BY <1>12 DEF TailCall
  <2>2. Ready(m) /\ program.code[f][i].op = "TAIL_CALL" /\ Instruction = program.code[f][i] /\ program \in Programs
    BY <1>3, <2>1
  <2>3. PICK kept \in NameReads, raises \in BOOLEAN : Becomes(Tails(d, q, kept, raises))
    BY <1>12, <2>2 DEF TailCall, Tails, Count
  <2> DEFINE e == Tails(d, q, kept, raises)
  <2>4. Follows(m, e)
    <3>1. q = Count(f, i) /\ d = Advance(m) /\ e = Tails(d, q, kept, raises)
      OBVIOUS
    <3> HIDE DEF q, d, e
    <3> QED
      BY <1>2, <2>2, <3>1, TailStep
  <2> QED
    BY <1>5, <2>1, <2>3, <2>4
<1>13. CASE Void
  <2> DEFINE e == Leave(Advance(m), Plain)
  <2>1. Reads("VOID") /\ UNCHANGED <<program, runs, imports, hosts>> /\ Becomes(e)
    BY <1>13 DEF Void
  <2>2. Ready(m) /\ program.code[f][i].op = "VOID" /\ program \in Programs
    BY <1>3, <2>1
  <2>3. Follows(m, e)
    BY <1>2, <2>2, VoidStep
  <2> QED
    BY <1>5, <2>1, <2>3
<1>14. CASE Return
  <2> DEFINE e == Leave(Drop(Advance(m), 1), Peek(m, 1))
  <2>1. Reads("RETURN") /\ UNCHANGED <<program, runs, imports, hosts>> /\ Becomes(e)
    BY <1>14 DEF Return
  <2>2. Ready(m) /\ program.code[f][i].op = "RETURN" /\ program \in Programs
    BY <1>3, <2>1
  <2>3. Follows(m, e)
    BY <1>2, <2>2, ReturnStep
  <2> QED
    BY <1>5, <2>1, <2>3
<1>15. ASSUME NEW op \in {"THROW", "USE"}, Reads(op)
       PROVE  /\ \A kept \in NameReads : Follows(m, Exception(Drop(Advance(m), 1), kept))
              /\ op = "USE" => Follows(m, Drop(Advance(m), 1)) /\ Instruction.v \in Scripts \ {Main}
  <2> DEFINE x == program.code[f][i]  d == Drop(Advance(m), 1)
  <2>1. Ready(m) /\ x.op = op /\ program \in Programs /\ Instruction = x
    BY <1>3, <1>15
  <2>2. Fits(program, f, i)
    BY <1>6, <1>15
  <2>3. op = "USE" => /\ Heights[program][f][i + 1] = Heights[program][f][i] - 1
                      /\ Instruction.v \in Scripts \ {Main}
    BY <2>1, <2>2 DEF Fits
  <2>4. x.op \in Raising /\ 1 = Taken(x) /\ x.op \notin {"VOID", "RETURN"}
    BY <1>15, <2>1 DEF Raising, Taken
  <2>5. 1 \in Nat /\ 1 < Heights[program][f][i]
    <3> DEFINE k == i + 1
    <3>1. k = i + 1
      OBVIOUS
    <3> HIDE DEF k
    <3>2. Heights[program][f][k] \in Nat \ {0} /\ Heights[program][f][i] \in Nat
      BY <1>2, <2>1, <2>4, <3>1, NextFacts, ReadyFacts
    <3>3. op = "USE" => Heights[program][f][k] = Heights[program][f][i] - 1
      BY <2>3, <3>1
    <3>4. op = "THROW" => 2 <= Heights[program][f][i]
      BY <2>1, <2>2 DEF Fits
    <3> QED
      BY <1>15, <3>2, <3>3, <3>4
  <2>6. /\ Heights[program][f][i + 1] = Heights[program][f][i] - 1 => Follows(m, d)
        /\ \A kept \in NameReads : Follows(m, Exception(d, kept))
    BY <1>2, <2>1, <2>4, <2>5, DropStep
  <2> QED
    BY <2>3, <2>6
<1>16. CASE Throw
  <2>1. Reads("THROW") /\ UNCHANGED <<program, runs, imports, hosts>>
    BY <1>16 DEF Throw
  <2>2. PICK kept \in NameReads : Becomes(Exception(Drop(Advance(m), 1), kept))
    BY <1>16 DEF Throw
  <2> QED
    BY <1>5, <1>15, <2>1, <2>2
<1>17. CASE UseFails
  <2>1. Reads("USE") /\ UNCHANGED <<program, runs, hosts>>
    BY <1>17 DEF UseFails
  <2>2. PICK kept \in NameReads : Becomes(Exception(Drop(Advance(m), 1), kept))
    BY <1>17 DEF UseFails
  <2>3. Instruction.v \in Scripts \ {Main} /\ Follows(m, Exception(Drop(Advance(m), 1), kept))
    BY <1>15, <2>1
  <2>4. imports \subseteq imports' /\ imports' \subseteq Scripts \ {Main}
    BY <1>4, <1>17, <2>3 DEF UseFails
  <2>5. mode = "run" /\ m.fault = "none"
    BY <1>3, <2>1
  <2> QED
    BY <1>1, <2>1, <2>2, <2>3, <2>4, <2>5 DEF Dispatched
<1>18. CASE UseAgain
  <2>1. Reads("USE") /\ Becomes(Drop(Advance(m), 1)) /\ UNCHANGED <<program, runs, imports, hosts>>
    BY <1>18 DEF UseAgain
  <2> QED
    BY <1>5, <1>15, <2>1
<1> QED
  BY <1>7, <1>8, <1>9, <1>10, <1>11, <1>12, <1>13, <1>14, <1>16, <1>17, <1>18

-----------------------------------------------------------------------------
(* The invariant after a step *)

\* What Becomes says, field by field
LEMMA BecomesFacts ==
  ASSUME NEW e, Becomes(e), Sound(e), program' = program, program \in Programs
  PROVE  /\ Standing(program', stack', frames', mode', fault') /\ frames' = e.frames /\ stack' = e.stack
         /\ mode' = e.mode /\ error' = e.error /\ misled' = e.misled
         /\ mode' \in {"idle", "run", "done"} /\ error' \in BOOLEAN /\ misled' \in BOOLEAN /\ fault' \in Faults
         /\ ~(e.mode = "run" /\ e.frames = <<>>) => fault' = e.fault
         /\ program' \in Programs
<1>1. /\ stack' = e.stack /\ frames' = e.frames /\ mode' = e.mode /\ error' = e.error /\ misled' = e.misled
      /\ fault' = IF e.mode = "run" /\ e.frames = <<>> THEN "no frame" ELSE e.fault
  BY DEF Becomes
<1>2. /\ IsMachine(e) /\ Laid(program, e.stack, e.frames) /\ Len(e.frames) <= FramesMax
      /\ e.fault = "none" => Settled(program, e.stack, e.frames)
      /\ e.fault = "none" /\ e.mode = "done" /\ e.frames # <<>> => Paused(program, Top(e.frames))
  BY DEF Sound
<1>3. fault' \in Faults /\ (fault' = "none" => e.fault = "none")
  BY <1>1, <1>2 DEF IsMachine, Faults
<1>4. Standing(program, e.stack, e.frames, e.mode, fault')
  BY <1>2, <1>3 DEF Standing
<1>5. Standing(program', stack', frames', mode', fault')
  BY <1>1, <1>4
<1> QED
  BY <1>1, <1>2, <1>3, <1>5 DEF IsMachine

\* A step that follows the machine m, which has the frames of the state
LEMMA FollowedBy ==
  ASSUME IInv, NEW m, m.frames = frames, NEW e, Follows(m, e), Becomes(e),
         program' = program, hosts' = hosts, Callers(runs'), runs' # <<>>,
         Cardinality(ScriptsIn(frames)) <= Len(runs'),
         imports \subseteq imports', imports' \subseteq Scripts \ {Main}
  PROVE  IInv'
<1>1. /\ Sound(e) /\ Older(frames, e.frames) /\ e.mode \in {"run", "done"}
      /\ e.mode = "done" => \E i \in ScriptsIn(frames) : i \notin ScriptsIn(e.frames)
  BY DEF Follows
<1>2. /\ Standing(program', stack', frames', mode', fault') /\ frames' = e.frames
      /\ mode' = e.mode
      /\ mode' \in {"idle", "run", "done"} /\ error' \in BOOLEAN /\ misled' \in BOOLEAN /\ fault' \in Faults
      /\ program' \in Programs
  BY <1>1, BecomesFacts DEF IInv
<1>3. Marked(frames', imports')
  BY <1>1, <1>2, OlderMarked DEF IInv
<1>4. /\ Cardinality(ScriptsIn(e.frames)) <= Len(runs')
      /\ e.mode = "done" => Cardinality(ScriptsIn(e.frames)) + 1 <= Len(runs')
  <2> DEFINE x == Cardinality(ScriptsIn(frames))  y == Cardinality(ScriptsIn(e.frames))  l == Len(runs')
  <2>1. frames \in Seq(Frame(program))
    BY DEF IInv, Standing, Laid, Typed
  <2>2. /\ x \in Nat /\ y \in Nat /\ y <= x
        /\ \A i \in ScriptsIn(frames) : i \notin ScriptsIn(e.frames) => y + 1 <= x
    BY <1>1, <2>1, ScriptCount
  <2>3. e.mode = "done" => y + 1 <= x
    BY <1>1, <2>2
  <2>4. l \in Nat /\ x <= l
    BY DEF Callers
  <2> HIDE DEF x, y, l
  <2>5. y <= l /\ (e.mode = "done" => y + 1 <= l)
    BY <2>2, <2>3, <2>4
  <2> QED
    BY <2>5 DEF y, l
<1>5. Waiting(stack', frames', runs', mode', error')
  <2>1. mode' \in {"run", "done"}
    BY <1>1, <1>2
  <2> QED
    BY <1>2, <1>4, <2>1 DEF Waiting
<1>6. hosts' \in 0..MaxRuns
  BY DEF IInv
<1> QED
  BY <1>2, <1>3, <1>5, <1>6 DEF IInv

\* ... when functions keep their names and tail calls pass enough.
LEMMA FollowedSteady ==
  ASSUME IInv, Strict, NEW m, m.frames = frames, m.error = FALSE, NEW e, Follows(m, e), Becomes(e),
         program' = program, Callers(runs'), Len(runs') = Cardinality(ScriptsIn(frames))
  PROVE  SteadyInv'
<1>1. Sound(e) /\ e.mode \in {"run", "done"} /\ Exact(m, e)
  BY DEF Follows
<1>2. frames' = e.frames /\ mode' = e.mode /\ error' = e.error
  BY <1>1, BecomesFacts DEF IInv
<1>3. CASE e.mode = "run"
  <2>1. ~e.error /\ e.frames # <<>> /\ ScriptsIn(e.frames) = ScriptsIn(frames)
    BY <1>1, <1>3 DEF Exact
  <2>2. e.error \in BOOLEAN
    BY <1>1 DEF Sound, IsMachine
  <2>3. Steady(frames', runs', mode', error')
    BY <1>2, <1>3, <2>1, <2>2 DEF Steady
  <2> QED
    BY <2>3 DEF SteadyInv
<1>4. CASE e.mode = "done"
  <2>1. PICK i \in ScriptsIn(frames) : ScriptsIn(e.frames) = ScriptsIn(frames) \ {i}
    BY <1>1, <1>4 DEF Exact
  <2> DEFINE x == Cardinality(ScriptsIn(frames))  y == Cardinality(ScriptsIn(e.frames))
  <2>2. frames \in Seq(Frame(program))
    BY DEF IInv, Standing, Laid, Typed
  <2>3. x \in Nat /\ y = x - 1
    BY <2>1, <2>2, ScriptCount
  <2>4. Len(runs') = x
    OBVIOUS
  <2> HIDE DEF x, y
  <2>5. Len(runs') = y + 1
    BY <2>3, <2>4
  <2>6. Steady(frames', runs', mode', error')
    BY <1>2, <1>4, <2>5 DEF Steady, y
  <2> QED
    BY <2>6 DEF SteadyInv
<1> QED
  BY <1>1, <1>3, <1>4

\* ... and errors go where they belong.
LEMMA FollowedCalm ==
  ASSUME IInv, Quiet, NEW m, m.error = FALSE, Calm(m), NEW e, Follows(m, e), Becomes(e), program' = program
  PROVE  CalmInv'
<1>1. /\ Sound(e) /\ e.mode \in {"run", "done"} /\ Exact(m, e)
      /\ e.fault = "none" /\ e.misled = FALSE /\ Tryless(e.frames)
  BY DEF Follows, Quiet, Calm
<1>2. ~(e.mode = "run" /\ e.frames = <<>>)
  BY <1>1 DEF Exact
<1>3. frames' = e.frames /\ misled' = e.misled /\ fault' = e.fault
  BY <1>1, <1>2, BecomesFacts DEF IInv
<1> QED
  BY <1>1, <1>3 DEF CalmInv

\* run() goes on, whatever the machine is.
LEMMA GoneOn ==
  ASSUME IInv, NEW e, Sound(e), e.mode = "run", Older(frames, e.frames), Becomes(e),
         program' = program, hosts' = hosts, Callers(runs'), runs' # <<>>,
         Cardinality(ScriptsIn(frames)) <= Len(runs'),
         imports \subseteq imports', imports' \subseteq Scripts \ {Main}
  PROVE  IInv'
<1>1. /\ Standing(program', stack', frames', mode', fault') /\ frames' = e.frames
      /\ mode' = "run" /\ error' \in BOOLEAN /\ misled' \in BOOLEAN /\ fault' \in Faults
      /\ program' \in Programs
  BY BecomesFacts DEF IInv
<1>2. Marked(frames', imports')
  BY <1>1, OlderMarked DEF IInv
<1>3. Cardinality(ScriptsIn(e.frames)) <= Len(runs')
  <2> DEFINE x == Cardinality(ScriptsIn(frames))  y == Cardinality(ScriptsIn(e.frames))  l == Len(runs')
  <2>1. frames \in Seq(Frame(program))
    BY DEF IInv, Standing, Laid, Typed
  <2>2. x \in Nat /\ y \in Nat /\ y <= x
    BY <2>1, ScriptCount
  <2>3. l \in Nat /\ x <= l
    BY DEF Callers
  <2> HIDE DEF x, y, l
  <2>4. y <= l
    BY <2>2, <2>3
  <2> QED
    BY <2>4 DEF y, l
<1>4. Waiting(stack', frames', runs', mode', error')
  BY <1>1, <1>3 DEF Waiting
<1> QED
  BY <1>1, <1>2, <1>4 DEF IInv

\* The caller that waits comes and goes.
LEMMA CallerFacts ==
  ASSUME NEW ru, Callers(ru), ru # <<>>
  PROVE  /\ Callers(Append(ru, "import")) /\ Append(ru, "import") # <<>>
         /\ Len(Append(ru, "import")) = Len(ru) + 1 /\ Len(ru) \in Nat
         /\ Last(ru) = "import" =>
              /\ Callers(Front(ru)) /\ Front(ru) # <<>> /\ Len(Front(ru)) = Len(ru) - 1
         /\ ru = <<"host">> => Len(ru) = 1
<1> DEFINE T == {"host", "import"}  l == Len(ru)  u == Append(ru, "import")
<1>1. ru \in Seq(T) /\ l \in Nat /\ l \in 1..l /\ l >= 1
  BY DEF Callers
<1>2. \A i \in 1..l : ru[i] = "host" <=> i = 1
  BY DEF Callers
<1>3. u \in Seq(T) /\ Len(u) = l + 1 /\ u[l + 1] = "import" /\ \A i \in 1..l : u[i] = ru[i]
  <2>1. "import" \in T
    OBVIOUS
  <2> HIDE DEF T
  <2> QED
    BY <1>1, <2>1 DEF l
<1>4. Callers(u) /\ u # <<>>
  <2> HIDE DEF u, l
  <2>1. \A i \in 1..Len(u) : u[i] = "host" <=> i = 1
    <3> SUFFICES ASSUME NEW i \in 1..Len(u)
                 PROVE  u[i] = "host" <=> i = 1
      OBVIOUS
    <3>1. i \in 1..l \/ (i = l + 1 /\ i # 1)
      BY <1>1, <1>3
    <3>2. "import" # "host"
      OBVIOUS
    <3> QED
      BY <1>2, <1>3, <3>1, <3>2
  <2> QED
    BY <1>1, <1>3, <2>1 DEF Callers
<1>5. ASSUME Last(ru) = "import"
      PROVE  Callers(Front(ru)) /\ Front(ru) # <<>> /\ Len(Front(ru)) = Len(ru) - 1
  <2> DEFINE k == l - 1  g == SubSeq(ru, 1, k)
  <2>1. ru[l] = "import"
    BY <1>5 DEF Last
  <2>2. l # 1
    BY <1>1, <1>2, <2>1
  <2>3. k \in 0..l /\ k \in Nat /\ k >= 1 /\ k \in 0..Len(ru)
    <3>1. l \in Nat /\ l # 1 /\ l >= 1
      BY <1>1, <2>2
    <3>2. l = Len(ru)
      OBVIOUS
    <3> HIDE DEF l
    <3>3. k \in 0..l /\ k \in Nat /\ k >= 1
      BY <3>1
    <3> QED
      BY <3>2, <3>3
  <2>4. Front(ru) = g
    BY DEF Front
  <2> HIDE DEF k, T
  <2>5. g \in Seq(T) /\ Len(g) = k /\ \A i \in 1..k : g[i] = ru[i]
    BY <1>1, <2>3, PrefixFacts
  <2> HIDE DEF g
  <2>6. \A i \in 1..Len(g) : g[i] = "host" <=> i = 1
    BY <1>1, <1>2, <2>3, <2>5
  <2>7. Callers(g) /\ g # <<>>
    BY <2>3, <2>5, <2>6 DEF Callers, T
  <2> QED
    BY <2>4, <2>5, <2>7 DEF k
<1>6. ru = <<"host">> => Len(ru) = 1
  OBVIOUS
<1> QED
  BY <1>1, <1>3, <1>4, <1>5, <1>6

\* A frame that waits has taken what it needs to fail.
LEMMA PausedRaises ==
  ASSUME program \in Programs, NEW m, Laid(program, m.stack, m.frames), m.frames # <<>>,
         Settled(program, m.stack, m.frames), Paused(program, Top(m.frames))
  PROVE  Raises(m)
<1> DEFINE y == Top(m.frames)  f == y.func  k == y.ip  i == k - 1  x == program.code[f][i]
           H == Heights[program][f]  b == y.base  n == Len(m.stack)
<1>1. /\ f \in DOMAIN program.code /\ k \in 1..Len(program.code[f]) /\ b \in Nat /\ k \in Nat
      /\ H \in [1..Len(program.code[f]) -> Nat \ {0}] /\ Len(program.code[f]) \in Nat \ {0}
      /\ Level(program, y) = b + H[k]
  BY InstructionFacts DEF Laid
<1>2. k > 1 /\ x.op \in {"CALL", "USE"} /\ n = Level(program, y)
  BY DEF Paused, Settled
<1>3. i \in 1..Len(program.code[f]) /\ i + 1 = k
  <2> DEFINE c == Len(program.code[f])
  <2>1. k \in 1..c /\ c \in Nat /\ k > 1
    BY <1>1, <1>2
  <2> HIDE DEF c, k
  <2>2. i \in 1..c /\ i + 1 = k
    BY <2>1
  <2> QED
    BY <2>2 DEF c
<1>4. Fits(program, f, i)
  BY <1>1, <1>3, FramesAssumption DEF WellFormed
<1>5. /\ x.n \in Nat /\ (x.op = "CALL" => H[k] = H[i] - x.n) /\ (x.op = "USE" => H[k] = H[i] - 1)
  BY <1>3, <1>4 DEF Fits
<1>6. H[i] \in Nat /\ H[k] \in Nat
  BY <1>1, <1>3
<1>7. x.op = "CALL" => Taken(x) = x.n + 1
  BY DEF Taken
<1>8. x.op = "USE" => Taken(x) = 1
  BY DEF Taken
<1> DEFINE hi == H[i]  hk == H[k]  q == x.n  t == Taken(x)
<1>9. n >= b + (hi - t)
  <2>1. /\ hi \in Nat /\ hk \in Nat /\ q \in Nat /\ b \in Nat /\ n = b + hk
        /\ (hk = hi - q /\ t = q + 1) \/ (hk = hi - 1 /\ t = 1)
    BY <1>1, <1>2, <1>5, <1>6, <1>7, <1>8
  <2> HIDE DEF hi, hk, q, t, b, n
  <2> QED
    BY <2>1
<1>10. x.op \in Raising
  BY <1>2 DEF Raising
<1> QED
  BY <1>2, <1>9, <1>10 DEF Raises

-----------------------------------------------------------------------------
(* Imports that return *)

\* the machine in which import() goes on
Resumed == [Machine EXCEPT !.mode = "run", !.error = FALSE]

\* It has the stack and the frames of the state.
LEMMA ResumedFields ==
  ASSUME IInv, fault = "none", mode = "done", NEW m, m = Resumed
  PROVE  /\ IsMachine(m) /\ m.stack = stack /\ m.frames = frames /\ m.mode = "run" /\ m.error = FALSE
         /\ m.misled = misled /\ m.fault = "none"
         /\ Sound(m) /\ Laid(program, stack, frames) /\ Settled(program, stack, frames)
         /\ frames \in Seq(Frame(program)) /\ Len(frames) <= FramesMax /\ program \in Programs
         /\ frames # <<>> => Paused(program, Top(frames))
<1>1. /\ m.stack = stack /\ m.frames = frames /\ m.mode = "run" /\ m.error = FALSE
      /\ m.misled = misled /\ m.fault = "none"
      /\ DOMAIN m = {"stack", "frames", "mode", "error", "misled", "fault"}
  BY DEF Resumed, Machine
<1>2. /\ program \in Programs /\ misled \in BOOLEAN
      /\ Laid(program, stack, frames) /\ Len(frames) <= FramesMax /\ Settled(program, stack, frames)
      /\ frames # <<>> => Paused(program, Top(frames))
  BY DEF IInv, Standing
<1>3. IsMachine(m)
  BY <1>1, <1>2 DEF IsMachine, Faults
<1>4. Sound(m)
  BY <1>1, <1>2, <1>3 DEF Sound
<1>5. frames \in Seq(Frame(program))
  BY <1>2 DEF Laid, Typed
<1> QED
  BY <1>1, <1>2, <1>3, <1>4, <1>5

\* With a frame to return to, what import() does follows that machine.
LEMMA ResumedFollows ==
  ASSUME IInv, fault = "none", mode = "done", frames # <<>>, NEW m, m = Resumed
  PROVE  /\ Follows(m, m)
         /\ \A kept \in NameReads : Follows(m, Exception(m, kept))
<1>1. /\ IsMachine(m) /\ m.stack = stack /\ m.frames = frames /\ m.mode = "run" /\ m.error = FALSE
      /\ m.misled = misled /\ m.fault = "none"
      /\ Sound(m) /\ Laid(program, stack, frames) /\ Settled(program, stack, frames)
      /\ frames \in Seq(Frame(program)) /\ Len(frames) <= FramesMax /\ program \in Programs
      /\ Paused(program, Top(frames))
  BY ResumedFields
<1>2. Alike(m, m) /\ Firsts(m.frames, m.frames, Len(m.frames))
  <2>1. Alike(m, m)
    BY <1>1, AlikeFacts
  <2> QED
    BY <2>1 DEF Alike
<1>3. Follows(m, m)
  BY <1>1, <1>2, Continues
<1>4. Raises(m)
  BY <1>1, PausedRaises
<1>5. ASSUME NEW kept \in NameReads
      PROVE  Follows(m, Exception(m, kept))
  <2> DEFINE e == Exception(m, kept)
  <2>1. e = Exception(m, kept)
    OBVIOUS
  <2> HIDE DEF e
  <2>2. Follows(m, e)
    BY <1>1, <1>2, <1>4, <2>1, ExceptionFollows
  <2> QED
    BY <2>2 DEF e
<1> QED
  BY <1>3, <1>5

\* No frame, no script
LEMMA NoScripts0 ==
  Cardinality(ScriptsIn(<<>>)) = 0
<1>1. ScriptsIn(<<>>) = {}
  BY DEF ScriptsIn
<1> QED
  BY <1>1, FS_EmptySet

\* import() goes on in a caller that is one less.
LEMMA ReturnsTo ==
  ASSUME IInv, ImportReturns
  PROVE  /\ fault = "none" /\ mode = "done" /\ runs # <<>>
         /\ program' = program /\ hosts' = hosts /\ Callers(runs') /\ runs' # <<>>
         /\ Cardinality(ScriptsIn(frames)) <= Len(runs')
         /\ SteadyInv => Len(runs') = Cardinality(ScriptsIn(frames)) /\ frames # <<>>
         /\ imports \subseteq imports' /\ imports' \subseteq Scripts \ {Main}
         /\ error => \E kept \in NameReads : Becomes(Exception(Resumed, kept))
         /\ ~error => Becomes(Resumed)
<1> DEFINE z == Front(runs)  x == Cardinality(ScriptsIn(frames))
<1>1. /\ mode = "done" /\ fault = "none" /\ Last(runs) = "import" /\ runs' = z
      /\ UNCHANGED <<program, imports, hosts>>
      /\ error => \E kept \in NameReads : Becomes(Exception(Resumed, kept))
      /\ ~error => Becomes(Resumed)
  BY DEF ImportReturns, Resumed
<1>2. Callers(runs) /\ runs # <<>> /\ x + 1 <= Len(runs) /\ imports \subseteq Scripts \ {Main}
  BY <1>1 DEF IInv, Waiting, Marked
<1>3. Callers(z) /\ z # <<>> /\ Len(z) = Len(runs) - 1 /\ Len(runs) \in Nat
  BY <1>1, <1>2, CallerFacts
<1>4. x \in Nat
  BY ScriptCount DEF IInv, Standing, Laid, Typed
<1> HIDE DEF z
<1>5. x <= Len(z) /\ Len(z) # 0
  <2>1. x <= Len(z)
    <3> HIDE DEF x
    <3> QED
      BY <1>2, <1>3, <1>4
  <2>2. Len(z) # 0
    BY <1>3 DEF Callers
  <2> QED
    BY <2>1, <2>2
<1>6. ASSUME SteadyInv
      PROVE  Len(z) = x /\ frames # <<>>
  <2>1. Len(runs) = x + 1
    BY <1>1, <1>6 DEF SteadyInv, Steady
  <2>2. Len(z) = x
    <3> HIDE DEF x
    <3> QED
      BY <1>3, <1>4, <2>1
  <2>3. frames # <<>>
    BY <1>5, <2>2, NoScripts0
  <2> QED
    BY <2>2, <2>3
<1> QED
  BY <1>1, <1>2, <1>3, <1>5, <1>6

\* An import that returns keeps the invariants, also when its error is raised
\* again.
LEMMA ReturnKeeps ==
  ASSUME IInv, ImportReturns
  PROVE  /\ IInv'
         /\ Strict /\ SteadyInv => SteadyInv'
         /\ Quiet /\ SteadyInv /\ CalmInv => CalmInv'
<1> DEFINE m == Resumed
<1>1. m = Resumed
  OBVIOUS
<1> HIDE DEF m
<1>2. /\ fault = "none" /\ mode = "done" /\ runs # <<>>
      /\ program' = program /\ hosts' = hosts /\ Callers(runs') /\ runs' # <<>>
      /\ Cardinality(ScriptsIn(frames)) <= Len(runs')
      /\ SteadyInv => Len(runs') = Cardinality(ScriptsIn(frames)) /\ frames # <<>>
      /\ imports \subseteq imports' /\ imports' \subseteq Scripts \ {Main}
      /\ error => \E kept \in NameReads : Becomes(Exception(m, kept))
      /\ ~error => Becomes(m)
  BY <1>1, ReturnsTo
<1>3. /\ IsMachine(m) /\ m.frames = frames /\ m.stack = stack /\ m.mode = "run" /\ m.error = FALSE
      /\ m.misled = misled /\ m.fault = "none"
      /\ Sound(m) /\ program \in Programs /\ Laid(program, stack, frames) /\ Len(frames) <= FramesMax
  BY <1>1, <1>2, ResumedFields
<1>4. ASSUME NEW e, Follows(m, e), Becomes(e)
      PROVE  /\ IInv'
             /\ Strict /\ SteadyInv => SteadyInv'
             /\ Quiet /\ SteadyInv /\ CalmInv => CalmInv'
  <2>1. IInv'
    BY <1>2, <1>3, <1>4, FollowedBy
  <2>2. ASSUME Strict, SteadyInv
        PROVE  SteadyInv'
    BY <1>2, <1>3, <1>4, <2>2, FollowedSteady
  <2>3. ASSUME Quiet, CalmInv
        PROVE  CalmInv'
    <3>1. Calm(m)
      BY <1>3, <2>3 DEF CalmInv, Calm
    <3> QED
      BY <1>2, <1>3, <1>4, <2>3, <3>1, FollowedCalm
  <2> QED
    BY <2>1, <2>2, <2>3
<1>5. CASE frames # <<>>
  <2>1. Follows(m, m) /\ \A kept \in NameReads : Follows(m, Exception(m, kept))
    BY <1>1, <1>2, <1>5, ResumedFollows
  <2>2. error \in BOOLEAN
    BY DEF IInv
  <2> QED
    BY <1>2, <1>4, <2>1, <2>2
<1>6. CASE frames = <<>>
  <2>1. ~SteadyInv
    BY <1>2, <1>6
  <2>2. ASSUME NEW e, Becomes(e), Sound(e), e.mode = "run", e.frames = frames
        PROVE  IInv'
    <3>1. Older(frames, e.frames)
      BY <2>2 DEF Older
    <3> QED
      BY <1>2, <2>2, <3>1, GoneOn
  <2>3. ASSUME NEW kept \in NameReads, NEW e, e = Exception(m, kept)
        PROVE  Sound(e) /\ e.mode = "run" /\ e.frames = frames
    <3>1. Ends(m, e, kept)
      BY <1>3, <2>3, ExceptionFields
    <3>2. IsMachine(e) /\ Stays(m, e) /\ e.fault = "no frame"
      BY <1>3, <1>6, <3>1 DEF Ends
    <3>3. e.stack = stack /\ e.frames = frames /\ e.mode = "run"
      BY <1>3, <3>2 DEF Stays
    <3> QED
      BY <1>3, <3>2, <3>3 DEF Sound
  <2>4. IInv'
    <3>1. CASE error
      <4>1. PICK kept \in NameReads : Becomes(Exception(m, kept))
        BY <1>2, <3>1
      <4> DEFINE e == Exception(m, kept)
      <4>2. e = Exception(m, kept) /\ Becomes(e)
        BY <4>1
      <4> HIDE DEF e
      <4> QED
        BY <2>2, <2>3, <4>2
    <3>2. CASE ~error
      BY <1>2, <1>3, <2>2, <3>2
    <3> QED
      BY <3>1, <3>2
  <2> QED
    BY <2>1, <2>4
<1> QED
  BY <1>5, <1>6
-----------------------------------------------------------------------------
(* Imports that begin *)

\* The frame of a new module is marked and counted.
LEMMA AddedCount ==
  ASSUME IInv, NEW m, m.frames = frames, NEW e, NEW v, Added(m, e, v), v \notin imports, v # Main, v \in Scripts
  PROVE  /\ Marked(e.frames, imports \cup {v})
         /\ Cardinality(ScriptsIn(e.frames)) = Cardinality(ScriptsIn(frames)) + 1
         /\ Cardinality(ScriptsIn(frames)) \in Nat
<1> DEFINE A == ScriptsIn(frames)  l == Len(frames) + 1  h == e.frames  B == ScriptsIn(h)
<1>1. /\ B = A \cup {l} /\ h[l].func = v /\ Len(frames) \in Nat
      /\ \A j \in 1..Len(frames) : h[j].func = frames[j].func
  BY DEF Added
<1>2. A \subseteq 1..Len(frames) /\ l \notin A
  <2>1. A \subseteq 1..Len(frames)
    BY DEF ScriptsIn
  <2>2. l \notin 1..Len(frames)
    BY <1>1
  <2> QED
    BY <2>1, <2>2
<1>3. /\ imports \subseteq Scripts \ {Main}
      /\ \A i \in A : frames[i].func \in imports \cup {Main}
      /\ \A i, j \in A : frames[i].func = frames[j].func => i = j
  BY DEF IInv, Marked
<1>4. frames \in Seq(Frame(program))
  BY DEF IInv, Standing, Laid, Typed
<1>5. IsFiniteSet(A) /\ Cardinality(A) \in Nat
  BY <1>4, ScriptCount
<1> HIDE DEF A, l, h, B
<1>6. Cardinality(B) = Cardinality(A) + 1
  BY <1>1, <1>2, <1>5, FS_AddElement
<1>7. \A i \in A : h[i].func = frames[i].func
  BY <1>1, <1>2
<1>8. /\ imports \cup {v} \subseteq Scripts \ {Main}
      /\ \A i \in B : h[i].func \in imports \cup {v} \cup {Main}
  BY <1>1, <1>3, <1>7
<1>9. \A i, j \in B : h[i].func = h[j].func => i = j
  <2>1. \A i \in A : h[i].func # v
    BY <1>3, <1>7
  <2> QED
    BY <1>1, <1>3, <1>7, <2>1
<1>10. Marked(h, imports \cup {v})
  BY <1>8, <1>9 DEF Marked, B
<1> QED
  BY <1>5, <1>6, <1>10 DEF A, B, h

\* A module that is imported has a run() and a frame of its own; without room for
\* the frame the importer goes on in the new run().
LEMMA UseKeeps ==
  ASSUME IInv, Use
  PROVE  /\ IInv'
         /\ Len(frames) # FramesMax /\ SteadyInv => SteadyInv'
         /\ Len(frames) # FramesMax /\ CalmInv => CalmInv'
<1> DEFINE m == Machine  y == Top(frames)  f == y.func  i == y.ip  b == y.base  n == Len(stack)
           v == Operand(f, i)  d == Drop(Advance(m), 1)  c == Push(d, v)  z == Append(runs, "import")
           E(kept) == [Call(c, v, 0, kept) EXCEPT !.mode = "run"]
<1>1. At(m, f, i, b, n) /\ m.error = error /\ m.misled = misled
  BY DEF At, Machine
<1>2. Reads("USE") /\ Instruction.v \notin imports
  BY DEF Use
<1> HIDE DEF f, i, b, n, y, m
<1>3. /\ Ready(m) /\ program.code[f][i] = Instruction /\ program.code[f][i].op = "USE"
      /\ program \in Programs /\ mode = "run" /\ m.frames = frames /\ m.stack = stack
  BY <1>1, <1>2, ReadsFacts DEF m
<1>4. Instruction.v = v
  BY <1>3 DEF Operand
<1>5. /\ program' = program /\ hosts' = hosts /\ runs' = z /\ imports' = imports \cup {v} /\ v \notin imports
  BY <1>2, <1>4 DEF Use
<1>6. PICK kept \in NameReads : Becomes(E(kept))
  BY <1>4 DEF Use, m
<1> DEFINE e == E(kept)
<1>7. d = Drop(Advance(m), 1) /\ c = Push(d, v) /\ e = [Call(c, v, 0, kept) EXCEPT !.mode = "run"] /\ v = Operand(f, i)
  OBVIOUS
<1>8. Becomes(e)
  BY <1>6
<1> HIDE DEF v, d, c, e, E
<1>9. /\ v \in Scripts /\ v # Main
      /\ Len(frames) # FramesMax => Added(m, e, v)
      /\ Len(frames) = FramesMax => Overflown(m, e)
  BY <1>1, <1>3, <1>7, UseStep
<1> HIDE DEF z
<1>10. Callers(runs) /\ runs # <<>> /\ Cardinality(ScriptsIn(frames)) <= Len(runs)
  BY <1>3 DEF IInv, Waiting
<1>11. Callers(z) /\ z # <<>> /\ Len(z) = Len(runs) + 1 /\ Len(runs) \in Nat
  BY <1>10, CallerFacts DEF z
<1>12. imports \subseteq imports' /\ imports' \subseteq Scripts \ {Main}
  BY <1>5, <1>9 DEF IInv, Marked
<1>13. CASE Len(frames) = FramesMax
  <2>1. Sound(e) /\ e.mode = "run" /\ Older(frames, e.frames)
    BY <1>3, <1>9, <1>13 DEF Overflown
  <2>2. Cardinality(ScriptsIn(frames)) <= Len(z)
    <3>1. Cardinality(ScriptsIn(frames)) \in Nat
      BY ScriptCount DEF IInv, Standing, Laid, Typed
    <3> QED
      BY <1>10, <1>11, <3>1
  <2>3. IInv'
    BY <1>5, <1>8, <1>11, <1>12, <2>1, <2>2, GoneOn
  <2> QED
    BY <1>13, <2>3
<1>14. CASE Len(frames) # FramesMax
  <2>1. Added(m, e, v)
    BY <1>9, <1>14
  <2>2. /\ Sound(e) /\ e.mode = "run" /\ e.fault = "none" /\ e.error = error /\ e.misled = misled
        /\ Len(e.frames) = Len(frames) + 1 /\ Len(frames) \in Nat
        /\ Tryless(frames) => Tryless(e.frames)
    BY <1>1, <1>3, <2>1 DEF Added
  <2>3. e.frames # <<>>
    BY <2>2
  <2>4. /\ Standing(program', stack', frames', mode', fault') /\ frames' = e.frames /\ stack' = e.stack
        /\ mode' = "run" /\ error' = error /\ misled' = misled /\ error' \in BOOLEAN
        /\ misled' \in BOOLEAN /\ fault' \in Faults /\ fault' = "none" /\ program' \in Programs
    BY <1>3, <1>5, <1>8, <2>2, <2>3, BecomesFacts
  <2> DEFINE p == Cardinality(ScriptsIn(frames))  q == Cardinality(ScriptsIn(e.frames))
  <2>5. Marked(e.frames, imports \cup {v}) /\ q = p + 1 /\ p \in Nat
    BY <1>3, <1>5, <1>9, <2>1, AddedCount
  <2>6. q <= Len(z) /\ (p = Len(runs) => q = Len(z))
    <3>1. p <= Len(runs)
      BY <1>10
    <3> HIDE DEF p, q
    <3> QED
      BY <1>11, <2>5, <3>1
  <2>7. Marked(frames', imports')
    BY <1>5, <2>4, <2>5
  <2>8. Waiting(stack', frames', runs', mode', error')
    BY <1>5, <1>11, <2>4, <2>6 DEF Waiting
  <2>9. IInv'
    BY <1>5, <2>4, <2>7, <2>8 DEF IInv
  <2>10. ASSUME SteadyInv
         PROVE  SteadyInv'
    <3>1. p = Len(runs) /\ error = FALSE
      BY <1>3, <2>10 DEF SteadyInv, Steady
    <3>2. Steady(frames', runs', mode', error')
      BY <1>5, <2>3, <2>4, <2>6, <3>1 DEF Steady
    <3> QED
      BY <3>2 DEF SteadyInv
  <2>11. ASSUME CalmInv
         PROVE  CalmInv'
    <3>1. misled = FALSE /\ Tryless(e.frames)
      BY <2>2, <2>11 DEF CalmInv
    <3> QED
      BY <2>4, <3>1 DEF CalmInv
  <2> QED
    BY <2>9, <2>10, <2>11
<1> QED
  BY <1>13, <1>14

-----------------------------------------------------------------------------
(* The host *)

\* What holds of no frames
LEMMA Empty ==
  ASSUME NEW p \in Programs
  PROVE  /\ Laid(p, <<>>, <<>>) /\ Settled(p, <<>>, <<>>) /\ ScriptsIn(<<>>) = {}
         /\ Tryless(<<>>) /\ 0 <= FramesMax /\ FramesMax # 0 /\ FramesMax \in Nat
<1>1. Typed(p, <<>>)
  BY DEF Typed
<1>2. Linked(p, <<>>)
  BY DEF Linked
<1>3. Owned(p, <<>>, <<>>) /\ Scriptless(p, <<>>, <<>>)
  BY DEF Owned, Scriptless
<1>4. FramesMax \in Nat /\ FramesMax # 0
  BY FramesAssumption
<1> QED
  BY <1>1, <1>2, <1>3, <1>4 DEF Laid, Settled, ScriptsIn, Tryless

\* An idle machine has nothing, and run() that has returned to the host has left
\* nothing.
LEMMA NothingLeft ==
  ASSUME IInv, fault = "none", mode = "idle" \/ (mode = "done" /\ runs = <<"host">>)
  PROVE  stack = <<>> /\ frames = <<>> /\ (mode = "idle" => runs = <<>> /\ error = FALSE)
<1>1. CASE mode = "idle"
  BY <1>1 DEF IInv, Waiting
<1>2. CASE mode = "done" /\ runs = <<"host">>
  <2> DEFINE A == ScriptsIn(frames)  x == Cardinality(A)
  <2>1. IsFiniteSet(A) /\ x \in Nat /\ x + 1 <= Len(runs)
    BY <1>2, ScriptCount DEF IInv, Standing, Laid, Typed, Waiting
  <2>2. Len(runs) = 1
    BY <1>2
  <2>3. x = 0
    <3> HIDE DEF x
    <3> QED
      BY <2>1, <2>2
  <2>4. A = {}
    BY <2>1, <2>3, FS_EmptySet
  <2>5. frames = <<>>
    <3> SUFFICES ASSUME frames # <<>>
                 PROVE  FALSE
      OBVIOUS
    <3>1. frames[1].func = Main /\ frames \in Seq(Frame(program))
      BY DEF IInv, Standing, Laid, Linked, Typed
    <3>2. 1 \in 1..Len(frames)
      BY <3>1
    <3>3. Main \in Scripts
      BY FramesAssumption
    <3> QED
      BY <2>4, <3>1, <3>2, <3>3 DEF ScriptsIn
  <2>6. stack = <<>>
    BY <2>5 DEF IInv, Standing, Settled
  <2> QED
    BY <1>2, <2>5, <2>6
<1> QED
  BY <1>1, <1>2

\* the machine in which the host runs the main script
Started(m) == [Call(Push(m, Main), Main, 0, TRUE) EXCEPT !.mode = "run"]

\* It has one frame, of the main script.
LEMMA Starting ==
  ASSUME program \in Programs, NEW m, IsMachine(m), m.stack = <<>>, m.frames = <<>>,
         NEW x, x = Begun(Main, 0, 0), NEW e, e = Started(m)
  PROVE  /\ IsMachine(e) /\ e.stack = <<Main>> /\ e.frames = <<x>> /\ e.mode = "run"
         /\ e.error = m.error /\ e.misled = m.misled /\ e.fault = m.fault
<1> DEFINE c == Push(m, Main)  a == Entered(c, x)
<1>1. Pushed(m, c, Main)
  BY PushFields
<1>2. /\ IsMachine(c) /\ c.stack = <<Main>> /\ c.frames = <<>>
      /\ c.error = m.error /\ c.misled = m.misled /\ c.fault = m.fault
  BY <1>1 DEF Pushed
<1>3. program.arity[Main] = 0
  BY FramesAssumption DEF WellFormed
<1>4. Len(c.frames) # FramesMax
  BY <1>2, FramesAssumption
<1>5. Len(c.stack) - 0 - 1 = 0
  BY <1>2
<1>6. Call(c, Main, 0, TRUE) = a
  BY <1>3, <1>4, <1>5 DEF Call, Entered, Begun
<1>7. e = Again(a)
  BY <1>6 DEF Again, Started
<1> HIDE DEF a, c
<1>8. /\ IsMachine(a) /\ a.stack = <<Main>> /\ a.frames = Append(c.frames, x)
      /\ a.error = m.error /\ a.misled = m.misled /\ a.fault = m.fault
  BY <1>2, EnteredFields DEF a
<1>9. Append(c.frames, x) = <<x>>
  BY <1>2
<1>10. /\ IsMachine(e) /\ e.stack = a.stack /\ e.frames = a.frames /\ e.mode = "run"
       /\ e.error = a.error /\ e.misled = a.misled /\ e.fault = a.fault
  BY <1>7, <1>8, AgainFields
<1> QED
  BY <1>8, <1>9, <1>10

\* One frame of the main script
LEMMA OneFrame ==
  ASSUME NEW p \in Programs, NEW x, x = Begun(Main, 0, 0), NEW st, st = <<Main>>, NEW h, h = <<x>>
  PROVE  /\ Laid(p, st, h) /\ Settled(p, st, h) /\ h # <<>> /\ Len(h) = 1
         /\ ScriptsIn(h) = {1} /\ h[1].func = Main /\ Tryless(h)
<1>1. Main \in DOMAIN p.code /\ Main \in Scripts /\ p.arity[Main] = 0
  BY FramesAssumption DEF WellFormed
<1>2. Main \in Cells(p)
  BY <1>1 DEF Cells
<1>3. st \in Seq(Cells(p)) /\ Len(st) = 1 /\ st[1] = Main
  BY <1>2
<1>4. Typed(p, <<>>) /\ Linked(p, <<>>)
  BY Empty DEF Laid
<1>5. Owned(p, st, <<>>)
  BY <1>3 DEF Owned
<1>6. h = Above(<<>>, x)
  BY DEF Above
<1>7. Offered(p, st, <<>>, Main, 0)
  <2>1. Len(st) = 0 + (p.arity[Main] + 1) /\ st[0 + 1] = Main
    BY <1>1, <1>3
  <2>2. \A j \in 1..Len(st) : j = 0 + 1
    BY <1>3
  <2> QED
    BY <1>3, <1>4, <1>5, <2>1, <2>2 DEF Offered
<1>8. Laid(p, st, h) /\ Settled(p, st, h) /\ h # <<>>
  <2>1. 0 \in Nat
    OBVIOUS
  <2> QED
    BY <1>1, <1>6, <1>7, <2>1, Entering
<1>9. x.func = Main /\ x.tries = 0
  BY DEF Begun
<1>10. Len(h) = 1 /\ h[1] = x
  OBVIOUS
<1>11. ScriptsIn(h) = {1}
  BY <1>1, <1>9, <1>10 DEF ScriptsIn
<1>12. Tryless(h)
  BY <1>9, <1>10 DEF Tryless
<1> QED
  BY <1>8, <1>9, <1>10, <1>11, <1>12

\* The host runs the main script in a machine that is clean.
LEMMA StartKeeps ==
  ASSUME IInv, Start
  PROVE  IInv' /\ SteadyInv' /\ (CalmInv => CalmInv')
<1> DEFINE m == Machine  e == Started(m)
           z == <<"host">>  x == Begun(Main, 0, 0)
<1>1. /\ mode = "idle" /\ fault = "none" /\ hosts < MaxRuns /\ hosts' = hosts + 1 /\ runs' = z
      /\ Becomes(e) /\ program' = program /\ imports' = imports /\ program \in Programs
  BY DEF Start, IInv, Started
<1>2. stack = <<>> /\ frames = <<>> /\ error = FALSE
  BY <1>1, NothingLeft
<1>3. IsMachine(m) /\ m.stack = <<>> /\ m.frames = <<>> /\ m.error = FALSE /\ m.misled = misled /\ m.fault = "none"
  <2>1. /\ m.stack = stack /\ m.frames = frames /\ m.mode = mode /\ m.error = error /\ m.misled = misled
        /\ m.fault = fault /\ DOMAIN m = {"stack", "frames", "mode", "error", "misled", "fault"}
    BY DEF Machine
  <2>2. misled \in BOOLEAN
    BY DEF IInv
  <2> HIDE DEF m
  <2>3. IsMachine(m)
    BY <1>1, <1>2, <2>1, <2>2 DEF IsMachine, Faults
  <2> QED
    BY <1>1, <1>2, <2>1, <2>3
<1>4. e = Started(m) /\ x = Begun(Main, 0, 0)
  OBVIOUS
<1> HIDE DEF m, e, x
<1>5. /\ IsMachine(e) /\ e.stack = <<Main>> /\ e.frames = <<x>> /\ e.mode = "run"
      /\ e.error = FALSE /\ e.misled = misled /\ e.fault = "none"
  BY <1>1, <1>3, <1>4, Starting
<1>6. /\ Laid(program, e.stack, e.frames) /\ Settled(program, e.stack, e.frames) /\ e.frames # <<>>
      /\ Len(e.frames) = 1 /\ ScriptsIn(e.frames) = {1} /\ e.frames[1].func = Main /\ Tryless(e.frames)
  BY <1>1, <1>4, <1>5, OneFrame
<1>7. Sound(e)
  <2>1. 1 <= FramesMax
    BY FramesAssumption
  <2> QED
    BY <1>5, <1>6, <2>1 DEF Sound
<1>8. /\ Standing(program', stack', frames', mode', fault') /\ frames' = e.frames
      /\ mode' = "run" /\ error' = FALSE /\ misled' = misled /\ misled' \in BOOLEAN /\ error' \in BOOLEAN
      /\ fault' \in Faults /\ fault' = "none" /\ program' \in Programs
  BY <1>1, <1>5, <1>6, <1>7, BecomesFacts
<1>9. Cardinality(ScriptsIn(e.frames)) = 1
  BY <1>6, FS_Singleton
<1>10. Callers(z) /\ Len(z) = 1 /\ z # <<>>
  BY DEF Callers
<1> HIDE DEF z
<1>11. Marked(frames', imports')
  BY <1>1, <1>6, <1>8 DEF Marked, IInv
<1>12. Waiting(stack', frames', runs', mode', error')
  BY <1>1, <1>8, <1>9, <1>10 DEF Waiting
<1>13. hosts' \in 0..MaxRuns
  BY <1>1, FramesAssumption DEF IInv
<1>14. IInv'
  BY <1>8, <1>11, <1>12, <1>13 DEF IInv
<1>15. SteadyInv'
  <2>1. Steady(frames', runs', mode', error')
    BY <1>1, <1>6, <1>8, <1>9, <1>10 DEF Steady
  <2> QED
    BY <2>1 DEF SteadyInv
<1>16. CalmInv => CalmInv'
  BY <1>6, <1>8 DEF CalmInv
<1> QED
  BY <1>14, <1>15, <1>16

\* run() returns to the host when it has left nothing.
LEMMA HostKeeps ==
  ASSUME IInv, HostReturns
  PROVE  IInv' /\ SteadyInv' /\ (CalmInv => CalmInv')
<1>1. /\ mode = "done" /\ fault = "none" /\ runs = <<"host">> /\ runs' = <<>>
      /\ program' = program /\ imports' = imports /\ hosts' = hosts
      /\ program \in Programs /\ misled \in BOOLEAN /\ hosts \in 0..MaxRuns
  BY DEF HostReturns, IInv
<1>2. stack = <<>> /\ frames = <<>>
  BY <1>1, NothingLeft
<1>3. /\ stack' = <<>> /\ frames' = <<>> /\ mode' = "idle" /\ error' = FALSE /\ misled' = misled
      /\ fault' = "none"
  <2>1. CASE error
    BY <1>1, <1>2, <2>1 DEF HostReturns, Becomes, Machine
  <2>2. CASE ~error
    <3>1. error = FALSE
      BY <2>2 DEF IInv
    <3> QED
      BY <1>1, <1>2, <3>1 DEF HostReturns, Becomes, Machine
  <2> QED
    BY <2>1, <2>2
<1>4. Laid(program, <<>>, <<>>) /\ Settled(program, <<>>, <<>>) /\ ScriptsIn(<<>>) = {} /\ Tryless(<<>>)
      /\ 0 <= FramesMax
  BY <1>1, Empty
<1>5. Standing(program', stack', frames', mode', fault')
  BY <1>1, <1>3, <1>4 DEF Standing
<1>6. Marked(frames', imports')
  BY <1>1, <1>3, <1>4 DEF Marked, IInv
<1>7. Waiting(stack', frames', runs', mode', error')
  <2>1. Callers(<<>>)
    BY DEF Callers
  <2> QED
    BY <1>1, <1>3, <2>1, NoScripts0 DEF Waiting
<1>8. IInv'
  BY <1>1, <1>3, <1>5, <1>6, <1>7 DEF IInv, Faults
<1>9. SteadyInv'
  BY <1>3 DEF SteadyInv, Steady
<1>10. CalmInv => CalmInv'
  BY <1>3, <1>4 DEF CalmInv
<1> QED
  BY <1>8, <1>9, <1>10

-----------------------------------------------------------------------------
(* Every step *)

\* An instruction keeps the invariants.
LEMMA DispatchKeeps ==
  ASSUME IInv, NEW m, Dispatched(m)
  PROVE  /\ IInv'
         /\ Strict /\ SteadyInv => SteadyInv'
         /\ Quiet /\ SteadyInv /\ CalmInv => CalmInv'
<1>1. /\ mode = "run" /\ m.frames = frames /\ m.error = error /\ m.misled = misled
      /\ program' = program /\ runs' = runs /\ hosts' = hosts
      /\ imports \subseteq imports' /\ imports' \subseteq Scripts \ {Main}
  BY DEF Dispatched
<1>2. PICK e : Follows(m, e) /\ Becomes(e)
  BY DEF Dispatched
<1>3. Callers(runs') /\ runs' # <<>> /\ Cardinality(ScriptsIn(frames)) <= Len(runs')
  BY <1>1 DEF IInv, Waiting
<1>4. IInv'
  BY <1>1, <1>2, <1>3, FollowedBy
<1>5. SteadyInv => m.error = FALSE /\ Len(runs') = Cardinality(ScriptsIn(frames))
  BY <1>1 DEF SteadyInv, Steady
<1>6. ASSUME Strict, SteadyInv
      PROVE  SteadyInv'
  BY <1>1, <1>2, <1>3, <1>5, <1>6, FollowedSteady
<1>7. ASSUME Quiet, SteadyInv, CalmInv
      PROVE  CalmInv'
  <2>1. Calm(m)
    BY <1>1, <1>7 DEF CalmInv, Calm
  <2> QED
    BY <1>1, <1>2, <1>5, <1>7, <2>1, FollowedCalm
<1> QED
  BY <1>4, <1>6, <1>7

\* There is room for the frame of an import.  Without it import() goes on in a
\* run() that no script will end.
Room == Reads("USE") => Len(frames) < FramesMax

\* A step keeps the invariants.
LEMMA NextKeeps ==
  ASSUME IInv, [Next]_vars
  PROVE  /\ IInv'
         /\ Strict /\ Room /\ SteadyInv => SteadyInv'
         /\ Quiet /\ Room /\ SteadyInv /\ CalmInv => CalmInv'
<1>1. CASE \/ Value \/ Operate \/ Pop \/ Jump \/ CallFunction \/ TailCall
           \/ Void \/ Return \/ Throw \/ UseFails \/ UseAgain
  <2> DEFINE m == Machine
  <2>1. m = Machine
    OBVIOUS
  <2> HIDE DEF m
  <2>2. Dispatched(m)
    BY <1>1, <2>1, Dispatching
  <2> QED
    BY <2>2, DispatchKeeps
<1>2. CASE Use
  <2>1. Room => Len(frames) # FramesMax
    <3>1. Reads("USE") /\ Len(frames) \in Nat /\ FramesMax \in Nat
      BY <1>2, FramesAssumption DEF Use, IInv, Standing, Laid, Typed
    <3> QED
      BY <3>1 DEF Room
  <2> QED
    BY <1>2, <2>1, UseKeeps
<1>3. CASE ImportReturns
  BY <1>3, ReturnKeeps
<1>4. CASE HostReturns
  BY <1>4, HostKeeps
<1>5. CASE Start
  BY <1>5, StartKeeps
<1>6. CASE UNCHANGED vars
  <2>1. /\ program' = program /\ stack' = stack /\ frames' = frames /\ mode' = mode /\ error' = error
        /\ misled' = misled /\ fault' = fault /\ runs' = runs /\ imports' = imports /\ hosts' = hosts
    BY <1>6 DEF vars, vm
  <2> QED
    BY <2>1 DEF IInv, SteadyInv, CalmInv
<1> QED
  BY <1>1, <1>2, <1>3, <1>4, <1>5, <1>6 DEF Next, Step

\* The machine begins idle.
LEMMA InitHolds ==
  ASSUME Init
  PROVE  IInv /\ SteadyInv /\ CalmInv
<1>1. /\ program \in Programs /\ stack = <<>> /\ frames = <<>> /\ runs = <<>> /\ mode = "idle"
      /\ error = FALSE /\ imports = {} /\ hosts = 0 /\ misled = FALSE /\ fault = "none"
  BY DEF Init
<1>2. Laid(program, <<>>, <<>>) /\ Settled(program, <<>>, <<>>) /\ ScriptsIn(<<>>) = {} /\ Tryless(<<>>)
      /\ 0 <= FramesMax
  BY <1>1, Empty
<1>3. Standing(program, stack, frames, mode, fault)
  BY <1>1, <1>2 DEF Standing
<1>4. Marked(frames, imports)
  BY <1>1, <1>2 DEF Marked
<1>5. Waiting(stack, frames, runs, mode, error)
  <2>1. Callers(<<>>)
    BY DEF Callers
  <2> QED
    BY <1>1, <2>1, NoScripts0 DEF Waiting
<1>6. hosts \in 0..MaxRuns
  BY <1>1, FramesAssumption
<1>7. IInv
  BY <1>1, <1>3, <1>4, <1>5, <1>6 DEF IInv, Faults
<1>8. SteadyInv
  BY <1>1 DEF SteadyInv, Steady
<1>9. CalmInv
  BY <1>1, <1>2 DEF CalmInv
<1> QED
  BY <1>7, <1>8, <1>9

-----------------------------------------------------------------------------
(* The theorems *)

\* The invariant holds in all states of any programs that the compiler can have
\* made, whatever a freed function reads and however deep calls and imports go.
THEOREM Invariant == Spec => []IInv
<1>1. Init => IInv
  BY InitHolds
<1>2. IInv /\ [Next]_vars => IInv'
  BY NextKeeps
<1> QED
  BY <1>1, <1>2, PTL DEF Spec

\* Every variable keeps its type; frame_count stays within HYMN_FRAMES_MAX and
\* an ip within the code of its function.
THEOREM TypeCorrect == Spec => []TypeOK
<1>1. IInv => TypeOK
  <2> SUFFICES ASSUME IInv
               PROVE  TypeOK
    OBVIOUS
  <2>1. /\ program \in Programs /\ mode \in {"idle", "run", "done"} /\ error \in BOOLEAN
        /\ misled \in BOOLEAN /\ fault \in Faults /\ hosts \in 0..MaxRuns
        /\ Laid(program, stack, frames) /\ Len(frames) <= FramesMax
        /\ imports \subseteq Scripts /\ runs \in Seq({"host", "import"})
    BY DEF IInv, Standing, Marked, Waiting, Callers
  <2>2. \A i \in DOMAIN stack : stack[i] \in DOMAIN program.code \cup {Native, Plain, Message}
    BY <2>1 DEF Laid, Owned, Cells
  <2>3. \A i \in DOMAIN frames :
          /\ frames[i].func \in DOMAIN program.code
          /\ frames[i].ip \in 1..Len(program.code[frames[i].func])
          /\ frames[i].base \in Nat
    <3>1. Typed(program, frames) /\ DOMAIN frames = 1..Len(frames)
      BY <2>1 DEF Laid, Typed
    <3> QED
      BY <2>1, <3>1, FrameFacts
  <2> QED
    BY <2>1, <2>2, <2>3 DEF TypeOK, Faults
<1> QED
  BY <1>1, Invariant, PTL

\* The frames lie one above the other, each with its function in its first slot,
\* after any calls, tail calls, errors and imports.
THEOREM FramesAreApart == Spec => []FramesOwnStack
<1>1. IInv => FramesOwnStack
  <2> SUFFICES ASSUME IInv
               PROVE  FramesOwnStack
    OBVIOUS
  <2>1. Typed(program, frames) /\ Linked(program, frames) /\ Owned(program, stack, frames)
    BY DEF IInv, Standing, Laid
  <2>2. DOMAIN frames = 1..Len(frames)
    BY <2>1 DEF Typed
  <2> QED
    BY <2>1, <2>2 DEF FramesOwnStack, Linked, Owned
<1> QED
  BY <1>1, Invariant, PTL

\* When the host has control again nothing is left on the stack, also after an
\* error.
THEOREM HostFindsItClean == Spec => []IdleClean
<1>1. IInv => IdleClean
  BY DEF IInv, Waiting, IdleClean
<1> QED
  BY <1>1, Invariant, PTL

\* No module has two frames, however modules import each other and fail.
THEOREM ModulesRunOnce == Spec => []ModuleRunsOnce
<1>1. IInv => ModuleRunsOnce
  <2> SUFFICES ASSUME IInv
               PROVE  ModuleRunsOnce
    OBVIOUS
  <2>1. DOMAIN frames = 1..Len(frames)
    BY DEF IInv, Standing, Laid, Typed
  <2>2. \A i, j \in ScriptsIn(frames) : frames[i].func = frames[j].func => i = j
    BY DEF IInv, Marked
  <2> QED
    BY <2>1, <2>2 DEF ModuleRunsOnce, ScriptsIn
<1> QED
  BY <1>1, Invariant, PTL

\* Every run() under way has a script of its own and ends with it, when the name
\* of a freed script still reads NULL, no tail call passes too few arguments,
\* and there is room for the frames of modules.  The findings about kept names
\* and tail calls show that the first two are needed.
THEOREM RunsEndWithScripts ==
  ASSUME NameReads = {TRUE}, \A p \in Programs : TailCallsPassEnough(p)
  PROVE  Spec /\ []Room => []RunsMatchScripts
<1>1. IInv => Strict
  BY DEF IInv, Strict
<1>2. Init => SteadyInv
  BY InitHolds
<1>3. IInv /\ SteadyInv /\ Room /\ [Next]_vars => SteadyInv'
  BY <1>1, NextKeeps
<1>4. IInv /\ SteadyInv => RunsMatchScripts
  <2> SUFFICES ASSUME IInv, SteadyInv, mode = "run"
               PROVE  Len(runs) = Cardinality({i \in DOMAIN frames : frames[i].func \in Scripts})
    BY DEF RunsMatchScripts
  <2>1. DOMAIN frames = 1..Len(frames)
    BY DEF IInv, Standing, Laid, Typed
  <2>2. {i \in DOMAIN frames : frames[i].func \in Scripts} = ScriptsIn(frames)
    BY <2>1 DEF ScriptsIn
  <2> QED
    BY <2>2 DEF SteadyInv, Steady
<1> QED
  BY <1>2, <1>3, <1>4, Invariant, PTL DEF Spec

\* All that the errors of a program need to go where they belong
LEMMA ErrorsStayCalm ==
  ASSUME NameReads = {TRUE},
         \A p \in Programs :
           TailCallsPassEnough(p) /\ TailCallsOutsideTries(p) /\ TriesBeginQuietly(p)
  PROVE  Spec /\ []Room => []CalmInv
<1>1. IInv => Strict /\ Quiet
  BY DEF IInv, Strict, Quiet
<1>2. Init => SteadyInv /\ CalmInv
  BY InitHolds
<1>3. IInv /\ SteadyInv /\ CalmInv /\ Room /\ [Next]_vars => SteadyInv' /\ CalmInv'
  BY <1>1, NextKeeps
<1> QED
  BY <1>2, <1>3, Invariant, PTL DEF Spec

\* The machine never reads a frame that is not there, never lacks the locals of
\* an except block, and never raises an error over an error.
THEOREM MachineNeverFaults ==
  ASSUME NameReads = {TRUE},
         \A p \in Programs :
           TailCallsPassEnough(p) /\ TailCallsOutsideTries(p) /\ TriesBeginQuietly(p)
  PROVE  Spec /\ []Room => []NeverFaults
<1>1. CalmInv => NeverFaults
  BY DEF CalmInv, NeverFaults
<1>2. Spec /\ []Room => []CalmInv
  BY ErrorsStayCalm
<1> QED
  BY <1>1, <1>2, PTL

\* An error is handled by the except block of the innermost try it is raised in,
\* or reaches the host when there is none.
THEOREM ErrorsAreCaughtByInnermost ==
  ASSUME NameReads = {TRUE},
         \A p \in Programs :
           TailCallsPassEnough(p) /\ TailCallsOutsideTries(p) /\ TriesBeginQuietly(p)
  PROVE  Spec /\ []Room => []CaughtByInnermost
<1>1. CalmInv => CaughtByInnermost
  BY DEF CalmInv, CaughtByInnermost
<1>2. Spec /\ []Room => []CalmInv
  BY ErrorsStayCalm
<1> QED
  BY <1>1, <1>2, PTL


=============================================================================
