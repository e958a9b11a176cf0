-------------------------- MODULE HymnFramesSteps ---------------------------
(***************************************************************************)
(* What each instruction of HymnFrames does to the stack and the frames,   *)
(* for any well-formed programs.                                           *)
(***************************************************************************)
EXTENDS HymnFramesLemmas

ScriptsIn(fr) == {i \in 1..Len(fr) : fr[i].func \in Scripts}

Sound(m) ==
  /\ IsMachine(m) /\ Laid(program, m.stack, m.frames) /\ Len(m.frames) <= FramesMax
  /\ m.fault = "none" => Settled(program, m.stack, m.frames)
  /\ m.fault = "none" /\ m.mode = "done" /\ m.frames # <<>> => Paused(program, Top(m.frames))

\* the scripts of g are those of fr that have not gone
Older(fr, g) == \A i \in ScriptsIn(g) : i \in ScriptsIn(fr) /\ g[i].func = fr[i].func

\* A freed function keeps its NULL name, and no tail call has too few arguments.
Strict == NameReads = {TRUE} /\ TailCallsPassEnough(program)

Exact(m, e) ==
  /\ e.fault \in {"none", "stack"}
  /\ e.mode = "run" => ~e.error /\ e.frames # <<>> /\ ScriptsIn(e.frames) = ScriptsIn(m.frames)
  /\ e.mode = "done" => \E i \in ScriptsIn(m.frames) : ScriptsIn(e.frames) = ScriptsIn(m.frames) \ {i}

\* All that a program needs so that its errors go where they belong.
Quiet == Strict /\ TriesBeginQuietly(program) /\ TailCallsOutsideTries(program)

Tryless(fr) == \A i \in 1..Len(fr) : fr[i].tries = 0

Calm(m) == m.misled = FALSE /\ Tryless(m.frames)

\* run() goes on, or has returned and left a script
Follows(m, e) ==
  /\ Sound(e) /\ Older(m.frames, e.frames) /\ e.mode \in {"run", "done"}
  /\ e.mode = "done" => \E i \in ScriptsIn(m.frames) : i \notin ScriptsIn(e.frames)
  /\ Strict /\ m.error = FALSE => Exact(m, e)
  /\ Quiet /\ m.error = FALSE /\ Calm(m) => e.fault = "none" /\ Calm(e)

\* the same functions in the frames of two machines
Alike(s, m) ==
  /\ Firsts(s.frames, m.frames, Len(s.frames))
  /\ m.error = s.error /\ m.misled = s.misled

\* the instruction of the top frame has taken its operands and fails
Raises(m) ==
  LET y == Top(m.frames)
      instruction == program.code[y.func][y.ip - 1]
  IN /\ y.ip > 1 /\ instruction.op \in Raising
     /\ Len(m.stack) >= y.base + (Heights[program][y.func][y.ip - 1] - Taken(instruction))

\* what an instruction takes is a number
LEMMA TakenFacts ==
  ASSUME NEW x, x.n \in Nat
  PROVE  Taken(x) \in Nat
BY DEF Taken

\* A range around the instruction after a failed one is around the failed one.
LEMMA QuietFrame ==
  ASSUME program \in Programs, TriesBeginQuietly(program),
         NEW y, y.func \in DOMAIN program.code, y.ip \in Nat, y.ip > 1,
         program.code[y.func][y.ip - 1].op \in Raising
  PROVE  Around(y) = Inside(y)
<1> DEFINE except == program.except[y.func]
<1>1. ASSUME NEW i \in DOMAIN except
      PROVE  except[i].start \in Nat /\ except[i].start # y.ip
  <2>1. Guards(program, y.func, except[i])
    BY FramesAssumption DEF WellFormed
  <2>2. except[i].start \in Nat \ {0}
    BY <2>1 DEF Guards
  <2>3. except[i].start > 1 => program.code[y.func][except[i].start - 1].op \notin Raising
    BY DEF TriesBeginQuietly
  <2> QED
    BY <2>2, <2>3
<1>2. \A i \in DOMAIN except : except[i].start <= y.ip <=> except[i].start < y.ip
  BY <1>1
<1> QED
  BY <1>2 DEF Around, Inside

\* No frame has lost its locals when the first error is on its way.
LEMMA LocalsThere ==
  ASSUME program \in Programs, NEW m, NEW i \in 1..Len(m.frames)
  PROVE  /\ TriesBeginQuietly(program) /\ Laid(program, m.stack, m.frames) /\ Raises(m)
         /\ Around(m.frames[i]) # {}
         => ~(Len(m.stack) < m.frames[i].base + Handler(m.frames[i], Around(m.frames[i])).locals)
<1>a. HAVE /\ TriesBeginQuietly(program) /\ Laid(program, m.stack, m.frames) /\ Raises(m)
           /\ Around(m.frames[i]) # {}
<1> DEFINE fr == m.frames  y == fr[i]  r == Handler(y, Around(y))  n == Len(m.stack)
<1>1. /\ fr \in Seq(Frame(program)) /\ Len(fr) \in Nat /\ n \in Nat
      /\ Typed(program, fr) /\ Linked(program, fr) /\ Owned(program, m.stack, fr)
  BY <1>a DEF Laid, Typed, Owned
<1>2. /\ y.func \in DOMAIN program.code /\ y.base \in Nat /\ y.ip \in Nat
      /\ Level(program, y) \in Nat /\ Heights[program][y.func][y.ip] \in Nat
      /\ Level(program, y) = y.base + Heights[program][y.func][y.ip]
  BY <1>1, FrameFacts DEF Level
<1>3. /\ r.start <= y.ip /\ y.ip <= r.end /\ r.locals \in Nat \ {0} /\ r.start \in Nat
      /\ r.end \in 1..Len(program.code[y.func]) /\ r.end \in Nat
      /\ Guards(program, y.func, r)
      /\ \E j \in DOMAIN program.except[y.func] : r = program.except[y.func][j]
  <2>1. Len(program.code[y.func]) \in Nat
    BY <1>2, FramesAssumption DEF WellFormed
  <2>2. /\ r.start <= y.ip /\ y.ip <= r.end /\ r.locals \in Nat \ {0} /\ r.start \in Nat
        /\ r.end \in 1..Len(program.code[y.func])
        /\ Guards(program, y.func, r)
        /\ \E j \in DOMAIN program.except[y.func] : r = program.except[y.func][j]
    BY <1>a, <1>2, HandlerFacts
  <2> HIDE DEF r, y
  <2>3. r.end \in 1..Len(program.code[y.func])
    BY <2>2
  <2>4. r.end \in Nat
    BY <2>1, <2>3
  <2> QED
    BY <2>2, <2>4
<1> HIDE DEF r
<1>4. \A j \in r.start..r.end-1 :
        program.code[y.func][j].op \in Raising =>
          r.locals <= Heights[program][y.func][j] - Taken(program.code[y.func][j])
  BY <1>3 DEF Guards
<1>5. ASSUME i < Len(fr)
      PROVE  ~(n < y.base + r.locals)
  <2>1. r.locals <= Heights[program][y.func][y.ip]
    <3>1. i \in 1..(Len(fr) - 1)
      BY <1>1, <1>5
    <3>2. Paused(program, fr[i])
      BY <1>1, <3>1 DEF Linked
    <3>3. fr[i].ip > 1 /\ program.code[fr[i].func][fr[i].ip - 1].op \in Raising
      BY <3>2 DEF Paused, Raising
    <3> QED
      BY <1>1, <1>3, <3>3, Guarded
  <2>2. i + 1 \in 1..Len(fr) /\ i < i + 1
    BY <1>1, <1>5
  <2>3. Level(program, y) <= fr[i + 1].base + 1
    BY <1>1, <2>2, LevelFacts
  <2>4. fr[i + 1].base \in Nat /\ fr[i + 1].base < n
    BY <1>1, <2>2, FrameFacts DEF Owned
  <2> DEFINE b == y.base  l == r.locals  c == Heights[program][y.func][y.ip]  d == fr[i + 1].base
             v == Level(program, y)
  <2>5. /\ b \in Nat /\ l \in Nat /\ c \in Nat /\ d \in Nat /\ v \in Nat /\ v = b + c /\ l <= c
        /\ v <= d + 1 /\ d < n
    BY <1>2, <1>3, <2>1, <2>3, <2>4
  <2> HIDE DEF b, l, c, d, v
  <2>6. ~(n < b + l)
    BY <1>1, <2>5
  <2> QED
    BY <2>6 DEF b, l
<1>6. ASSUME i = Len(fr)
      PROVE  ~(n < y.base + r.locals)
  <2> DEFINE k == y.ip - 1
  <2>1. Top(fr) = y
    BY <1>6 DEF Top
  <2>2. /\ y.ip > 1 /\ program.code[y.func][k].op \in Raising
        /\ n >= y.base + (Heights[program][y.func][k] - Taken(program.code[y.func][k]))
    BY <1>a, <2>1 DEF Raises
  <2>3. r.start # y.ip
    <3>1. PICK j \in DOMAIN program.except[y.func] : r = program.except[y.func][j]
      BY <1>3
    <3>2. r.start > 1 => program.code[y.func][r.start - 1].op \notin Raising
      BY <1>a, <1>2, <3>1 DEF TriesBeginQuietly
    <3> QED
      BY <2>2, <3>2
  <2>4. k \in r.start..r.end-1
    <3>1. /\ y.ip \in Nat /\ r.start \in Nat /\ r.end \in Nat /\ r.start <= y.ip /\ y.ip <= r.end
          /\ r.start # y.ip
      BY <1>2, <1>3, <2>3
    <3> QED
      BY <3>1
  <2> HIDE DEF k
  <2>5. r.locals <= Heights[program][y.func][k] - Taken(program.code[y.func][k])
    BY <1>4, <2>2, <2>4
  <2> DEFINE b == y.base  l == r.locals  d == Heights[program][y.func][k] - Taken(program.code[y.func][k])
  <2>6. d \in Int
    <3>1. Heights[program][y.func] \in [1..Len(program.code[y.func]) -> Nat \ {0}]
      BY <1>2, FramesAssumption DEF WellFormed
    <3>2. k \in 1..Len(program.code[y.func])
      <4>1. y.ip \in 1..Len(program.code[y.func])
        BY <1>1, FrameFacts
      <4>2. Len(program.code[y.func]) \in Nat
        BY <1>2, FramesAssumption DEF WellFormed
      <4> DEFINE t == y.ip  c == Len(program.code[y.func])
      <4>3. t \in 1..c /\ c \in Nat /\ t > 1 /\ k = t - 1
        BY <1>2, <2>2, <4>1, <4>2 DEF k
      <4> HIDE DEF t, c
      <4>4. k \in 1..c
        BY <4>3
      <4> QED
        BY <4>4 DEF c
    <3>3. Fits(program, y.func, k)
      BY <1>2, <3>2, FramesAssumption DEF WellFormed
    <3>4. program.code[y.func][k].n \in Nat
      BY <3>3 DEF Fits
    <3>5. Taken(program.code[y.func][k]) \in Nat
      BY <3>4, TakenFacts
    <3>6. Heights[program][y.func][k] \in Nat
      BY <3>1, <3>2
    <3> QED
      BY <3>5, <3>6
  <2>7. b \in Nat /\ l \in Nat /\ l <= d /\ n >= b + d
    BY <1>2, <1>3, <2>2, <2>5
  <2> HIDE DEF b, l, d
  <2>8. ~(n < b + l)
    BY <1>1, <2>6, <2>7
  <2> QED
    BY <2>8 DEF b, l
<1>7. i < Len(fr) \/ i = Len(fr)
  BY <1>1
<1> QED
  BY <1>5, <1>6, <1>7 DEF r

\* All frames over which an error can go wait for another one, or have failed.
LEMMA QuietFrames ==
  ASSUME program \in Programs, NEW m, NEW i \in 1..Len(m.frames)
  PROVE  /\ TriesBeginQuietly(program) /\ Laid(program, m.stack, m.frames) /\ Raises(m)
         => Around(m.frames[i]) = Inside(m.frames[i])
<1>a. HAVE /\ TriesBeginQuietly(program) /\ Laid(program, m.stack, m.frames) /\ Raises(m)
<1> DEFINE fr == m.frames  y == fr[i]
<1>1. fr \in Seq(Frame(program)) /\ Len(fr) \in Nat /\ Typed(program, fr) /\ Linked(program, fr)
  BY <1>a DEF Laid, Typed
<1>2. y.func \in DOMAIN program.code /\ y.ip \in Nat
  BY <1>1, FrameFacts
<1>3. y.ip > 1 /\ program.code[y.func][y.ip - 1].op \in Raising
  <2>1. CASE i = Len(fr)
    BY <1>a, <2>1 DEF Raises, Top
  <2>2. CASE i < Len(fr)
    <3>1. i \in 1..(Len(fr) - 1)
      BY <1>1, <2>2
    <3>2. Paused(program, y)
      BY <1>1, <3>1 DEF Linked
    <3> QED
      BY <3>2 DEF Paused, Raising
  <2>3. i = Len(fr) \/ i < Len(fr)
    BY <1>1
  <2> QED
    BY <2>1, <2>2, <2>3
<1> QED
  BY <1>a, <1>2, <1>3, QuietFrame

\* The except block that an error finds is that of the innermost try.
LEMMA Unmisled ==
  ASSUME program \in Programs, NEW m, NEW kept \in BOOLEAN, NEW e
  PROVE  /\ TriesBeginQuietly(program) /\ IsMachine(m) /\ Laid(program, m.stack, m.frames)
         /\ m.frames # <<>> /\ Raises(m) /\ Calm(m) /\ m.error = FALSE /\ m.fault = "none"
         /\ e = Exception(m, kept)
         => e.misled = FALSE /\ e.fault = "none"
<1>a. HAVE /\ TriesBeginQuietly(program) /\ IsMachine(m) /\ Laid(program, m.stack, m.frames)
           /\ m.frames # <<>> /\ Raises(m) /\ Calm(m) /\ m.error = FALSE /\ m.fault = "none"
           /\ e = Exception(m, kept)
<1> DEFINE fr == m.frames
           low == LastFrame(m, kept)
           all == {j \in 1..Len(fr) : Around(fr[j]) # {}}
           i == Max(Trying(m, low))
           range == Handler(fr[i], Around(fr[i]))
           height == fr[i].base + range.locals
<1>1. /\ fr \in Seq(Frame(program)) /\ Len(fr) \in Nat /\ DOMAIN fr = 1..Len(fr)
      /\ Typed(program, fr) /\ Linked(program, fr)
  BY <1>a DEF Laid, Typed
<1>2. low \in 1..Len(fr)
  BY <1>a, <1>1, LastFrameFacts
<1>3. Ends(m, e, kept)
  BY <1>a, ExceptionFields
<1> HIDE DEF low
<1>4. m.misled = FALSE /\ \A j \in 1..Len(fr) : fr[j].tries = 0 /\ Inside(fr[j]) = Around(fr[j])
  BY <1>a, QuietFrames DEF Calm, Tryless
<1>5. {j \in DOMAIN fr : Inside(fr[j]) # {} \/ fr[j].tries > 0} = all
  BY <1>1, <1>4
<1>6. Belongs(m) =
        IF all = {} THEN <<0, 0>>
        ELSE <<Max(all), IF Inside(fr[Max(all)]) = {} THEN 0
                         ELSE program.except[fr[Max(all)].func][Min(Inside(fr[Max(all)]))].end>>
  BY <1>5 DEF Belongs
<1>7. all \in SUBSET (0..Len(fr)) /\ all \subseteq 1..Len(fr)
  BY <1>1
<1>8. all # {} => Max(all) \in all /\ \A x \in all : x <= Max(all)
  <2> HIDE DEF all
  <2> QED
    BY <1>1, <1>7, MaxFacts
<1>9. ASSUME Trying(m, low) = {}
      PROVE  e.misled = FALSE /\ e.fault = "none"
  <2>1. Leaves(m, e, low)
    BY <1>a, <1>3, <1>9 DEF Ends, low
  <2>2. ~(Belongs(m)[1] >= low)
    <3>1. CASE all = {}
      <4>1. Belongs(m)[1] = 0
        BY <1>6, <3>1
      <4> QED
        BY <1>2, <4>1
    <3>2. CASE all # {}
      <4>1. Belongs(m)[1] = Max(all)
        <5> DEFINE x == Max(all)
                   z == IF Inside(fr[Max(all)]) = {} THEN 0
                        ELSE program.except[fr[Max(all)].func][Min(Inside(fr[Max(all)]))].end
        <5>1. Belongs(m) = <<x, z>>
          BY <1>6, <3>2
        <5> HIDE DEF x, z
        <5>2. Belongs(m)[1] = x
          BY <5>1
        <5> QED
          BY <5>2 DEF x
      <4>2. Max(all) \in 1..Len(fr) /\ Around(fr[Max(all)]) # {}
        BY <1>8, <3>2
      <4> DEFINE x == Max(all)
      <4> HIDE DEF x, all
      <4>3. x \notin low..Len(fr)
        BY <1>9, <4>2 DEF Trying, x
      <4>4. x \in 1..Len(fr) /\ Belongs(m)[1] = x
        BY <4>1, <4>2 DEF x
      <4> QED
        BY <1>1, <1>2, <4>3, <4>4
    <3> QED
      BY <3>1, <3>2
  <2> QED
    BY <1>a, <1>4, <2>1, <2>2 DEF Leaves, Raised
<1>10. ASSUME Trying(m, low) # {}
       PROVE  e.misled = FALSE /\ e.fault = "none"
  <2>1. /\ i \in low..Len(fr) /\ i \in 1..Len(fr) /\ Around(fr[i]) # {}
        /\ \A j \in low..Len(fr) : Around(fr[j]) # {} => j <= i
    BY <1>1, <1>2, <1>10, TryingFacts
  <2>2. ~(Len(m.stack) < height)
    <3> HIDE DEF i
    <3> QED
      BY <1>a, <2>1, LocalsThere
  <2>3. Resumes(m, e, i, range)
    BY <1>a, <1>3, <1>10, <2>2 DEF Ends, low
  <2> HIDE DEF i
  <2>4. i = Max(all)
    <3> DEFINE x == Max(all)
    <3>1. i \in all /\ all # {}
      BY <2>1
    <3>2. x \in all /\ i <= x
      BY <1>8, <3>1
    <3>3. x \in 1..Len(fr) /\ Around(fr[x]) # {}
      BY <3>2
    <3> HIDE DEF x, all
    <3>4. x \in low..Len(fr)
      BY <1>1, <1>2, <2>1, <3>2, <3>3
    <3>5. x <= i
      BY <2>1, <3>3, <3>4
    <3>6. x = i
      BY <1>1, <2>1, <3>2, <3>3, <3>5
    <3> QED
      BY <3>6 DEF x
  <2>5. all # {} /\ Inside(fr[i]) # {} /\ Inside(fr[i]) = Around(fr[i])
    BY <1>4, <2>1
  <2> HIDE DEF all
  <2>6. Belongs(m) = <<i, program.except[fr[i].func][Min(Around(fr[i]))].end>>
    BY <1>6, <2>4, <2>5
  <2>7. Belongs(m) = <<i, range.end>>
    BY <2>6 DEF Handler
  <2> HIDE DEF range
  <2> QED
    BY <1>a, <1>4, <2>3, <2>7 DEF Resumes, Goes
<1> QED
  BY <1>9, <1>10

\* The scripts in the first n frames are the scripts up to n.
LEMMA FirstsFacts ==
  ASSUME NEW S, NEW fr \in Seq(S), NEW g \in Seq(S), NEW n, Firsts(fr, g, n)
  PROVE  /\ Older(fr, g)
         /\ NoScriptAbove(fr, n) => ScriptsIn(g) = ScriptsIn(fr)
         /\ \A low \in 1..Len(fr) : fr[low].func \in Scripts /\ low = n + 1 =>
              /\ low \in ScriptsIn(fr) /\ low \notin ScriptsIn(g)
              /\ NoScriptAbove(fr, low) => ScriptsIn(g) = ScriptsIn(fr) \ {low}
         /\ Tryless(fr) => Tryless(g)
<1>1. Len(fr) \in Nat /\ n \in Nat /\ n <= Len(fr) /\ Len(g) = n /\ \A i \in 1..n : i \in 1..Len(fr)
  BY DEF Firsts
<1>2. \A i \in 1..n : g[i].func = fr[i].func /\ g[i].tries = fr[i].tries
  BY DEF Firsts
<1>3. ScriptsIn(g) = {i \in ScriptsIn(fr) : i <= n}
  BY <1>1, <1>2 DEF ScriptsIn
<1>4. Older(fr, g)
  BY <1>1, <1>2 DEF ScriptsIn, Older
<1>5. NoScriptAbove(fr, n) => ScriptsIn(g) = ScriptsIn(fr)
  BY <1>1, <1>3 DEF ScriptsIn, NoScriptAbove
<1>6. ASSUME NEW low \in 1..Len(fr), fr[low].func \in Scripts, low = n + 1
      PROVE  /\ low \in ScriptsIn(fr) /\ low \notin ScriptsIn(g)
             /\ NoScriptAbove(fr, low) => ScriptsIn(g) = ScriptsIn(fr) \ {low}
  <2>1. low \in ScriptsIn(fr) /\ low \notin ScriptsIn(g)
    BY <1>1, <1>3, <1>6 DEF ScriptsIn
  <2>2. ASSUME NoScriptAbove(fr, low), NEW i \in ScriptsIn(fr)
        PROVE  i <= n <=> i # low
    <3>1. i \in 1..Len(fr) /\ ~(low < i)
      BY <2>2 DEF ScriptsIn, NoScriptAbove
    <3> QED
      BY <1>1, <1>6, <3>1
  <2> QED
    BY <1>3, <2>1, <2>2
<1>7. Tryless(fr) => Tryless(g)
  BY <1>1, <1>2 DEF Tryless
<1> QED
  BY <1>4, <1>5, <1>6, <1>7

\* The first frames of the same functions
LEMMA FirstsAlike ==
  ASSUME NEW S, NEW fr \in Seq(S), NEW g \in Seq(S), NEW h \in Seq(S), NEW n,
         Firsts(fr, g, Len(fr)), Firsts(g, h, n)
  PROVE  /\ Firsts(fr, h, n) /\ Len(g) = Len(fr)
         /\ \A i \in 1..Len(fr) : g[i].func = fr[i].func
         /\ \A i : NoScriptAbove(g, i) => NoScriptAbove(fr, i)
         /\ ScriptsIn(g) = ScriptsIn(fr)
         /\ Tryless(fr) => Tryless(g)
<1>1. /\ Len(fr) \in Nat /\ Len(g) = Len(fr) /\ n \in Nat /\ n <= Len(fr) /\ Len(h) = n
      /\ \A i \in 1..n : i \in 1..Len(fr)
  BY DEF Firsts
<1>2. \A i \in 1..Len(fr) : g[i].func = fr[i].func /\ g[i].tries = fr[i].tries
  BY DEF Firsts
<1>3. \A i \in 1..n : h[i].func = g[i].func /\ h[i].tries = g[i].tries
  BY DEF Firsts
<1>4. Firsts(fr, h, n)
  BY <1>1, <1>2, <1>3 DEF Firsts
<1>5. \A i : NoScriptAbove(g, i) => NoScriptAbove(fr, i)
  BY <1>1, <1>2 DEF NoScriptAbove
<1>6. ScriptsIn(g) = ScriptsIn(fr)
  BY <1>1, <1>2 DEF ScriptsIn
<1>7. Tryless(fr) => Tryless(g)
  BY <1>1, <1>2 DEF Tryless
<1> QED
  BY <1>1, <1>2, <1>4, <1>5, <1>6, <1>7

\* An error follows what an instruction has made of the machine.
LEMMA ExceptionFollows ==
  ASSUME program \in Programs, NEW s, NEW m, s.frames \in Seq(Frame(program)), Alike(s, m),
         IsMachine(m), Laid(program, m.stack, m.frames), m.frames # <<>>, Len(m.frames) <= FramesMax,
         m.mode = "run", m.fault = "none", NoScripts(m.stack, m.frames) \/ Raises(m), Quiet => Raises(m),
         NEW kept \in NameReads, NEW e, e = Exception(m, kept)
  PROVE  Follows(s, e)
<1> DEFINE a == s.frames  b == m.frames  c == e.frames
<1>1. kept \in BOOLEAN /\ (Strict => kept)
  BY FramesAssumption DEF Strict
<1>2. IsMachine(e) /\ Landed(m, e, kept) /\ Laid(program, e.stack, c)
  <2>1. IsMachine(e) /\ Landed(m, e, kept)
    <3>1. Failed(program, m.stack, m.frames)
      BY DEF Failed, Raises
    <3> QED
      BY <1>1, <3>1, ExceptionFacts
  <2> QED
    BY <2>1 DEF Landed
<1>3. /\ a \in Seq(Frame(program)) /\ b \in Seq(Frame(program)) /\ c \in Seq(Frame(program))
      /\ Len(a) \in Nat /\ Len(b) \in Nat /\ FramesMax \in Nat /\ Len(b) <= FramesMax
      /\ Firsts(a, b, Len(a)) /\ m.error = s.error /\ m.misled = s.misled
  BY <1>2, FramesAssumption DEF Laid, Typed, Alike
<1>4. Tryless(a) => Tryless(b)
  BY <1>3, FirstsFacts
<1>5. Quiet /\ s.error = FALSE /\ Calm(s) => e.misled = FALSE /\ e.fault = "none"
  <2> SUFFICES ASSUME Quiet, s.error = FALSE, Calm(s)
               PROVE  e.misled = FALSE /\ e.fault = "none"
    OBVIOUS
  <2>1. Calm(m)
    BY <1>3, <1>4 DEF Calm
  <2>2. TriesBeginQuietly(program) /\ m.error = FALSE
    BY <1>3 DEF Quiet
  <2> QED
    BY <1>1, <2>1, <2>2, Unmisled
<1>6. ASSUME NEW n, Firsts(b, c, n)
      PROVE  /\ Firsts(a, c, n) /\ Len(b) = Len(a) /\ Older(a, c) /\ Len(c) <= FramesMax
             /\ \A i \in 1..Len(a) : b[i].func = a[i].func
             /\ \A i : NoScriptAbove(b, i) => NoScriptAbove(a, i)
             /\ NoScriptAbove(a, n) => ScriptsIn(c) = ScriptsIn(a)
             /\ Quiet /\ s.error = FALSE /\ Calm(s) => e.fault = "none" /\ Calm(e)
  <2> HIDE DEF a, b, c
  <2>1. /\ Firsts(a, c, n) /\ Len(b) = Len(a)
        /\ \A i \in 1..Len(a) : b[i].func = a[i].func
        /\ \A i : NoScriptAbove(b, i) => NoScriptAbove(a, i)
    BY <1>3, <1>6, FirstsAlike
  <2>2. Older(a, c) /\ (NoScriptAbove(a, n) => ScriptsIn(c) = ScriptsIn(a)) /\ (Tryless(a) => Tryless(c))
    BY <1>3, <2>1, FirstsFacts
  <2>3. Len(c) <= FramesMax
    BY <1>3, <2>1 DEF Firsts
  <2>4. Quiet /\ s.error = FALSE /\ Calm(s) => e.fault = "none" /\ Calm(e)
    BY <1>5, <2>2 DEF Calm, a, c
  <2> QED
    BY <2>1, <2>2, <2>3, <2>4
<1>7. ASSUME NEW low \in 1..Len(b), LeftBy(m, e, kept, low),
             Settled(program, e.stack, c), c = <<>> \/ Paused(program, Top(c))
      PROVE  Follows(s, e)
  <2> DEFINE n == low - 1
  <2>1. /\ b[low].func \in Scripts /\ Firsts(b, c, n) /\ (kept => NoScriptAbove(b, low))
        /\ e.mode = "done" /\ e.error = TRUE /\ e.fault = IF m.error THEN "error twice" ELSE m.fault
    BY <1>7 DEF LeftBy, Raised
  <2>2. low = n + 1
    BY <1>3
  <2> HIDE DEF n
  <2>3. /\ Firsts(a, c, n) /\ Len(b) = Len(a) /\ Older(a, c) /\ Len(c) <= FramesMax
        /\ \A i \in 1..Len(a) : b[i].func = a[i].func
        /\ \A i : NoScriptAbove(b, i) => NoScriptAbove(a, i)
        /\ Quiet /\ s.error = FALSE /\ Calm(s) => e.fault = "none" /\ Calm(e)
    BY <1>6, <2>1
  <2> HIDE DEF a, b, c
  <2>4. a[low].func \in Scripts /\ low \in 1..Len(a)
    BY <2>1, <2>3
  <2>5. /\ low \in ScriptsIn(a) /\ low \notin ScriptsIn(c)
        /\ NoScriptAbove(a, low) => ScriptsIn(c) = ScriptsIn(a) \ {low}
    BY <1>3, <2>2, <2>3, <2>4, FirstsFacts
  <2>6. Sound(e)
    BY <1>2, <1>7, <2>3 DEF Sound, c
  <2>7. ASSUME Strict, s.error = FALSE
        PROVE  Exact(s, e)
    <3>1. e.fault = "none"
      BY <1>3, <2>1, <2>7
    <3>2. ScriptsIn(c) = ScriptsIn(a) \ {low}
      BY <1>1, <2>1, <2>3, <2>5, <2>7
    <3> QED
      BY <2>1, <2>5, <3>1, <3>2 DEF Exact, a, c
  <2> QED
    BY <2>1, <2>3, <2>5, <2>6, <2>7 DEF Follows, a, c
<1>8. ASSUME NEW n \in 1..Len(b), CaughtBy(m, e, kept, n), Settled(program, e.stack, c)
      PROVE  Follows(s, e)
  <2>1. /\ kept => NoScriptAbove(b, n)
        /\ Firsts(b, c, n) /\ e.mode = "run" /\ e.error = m.error /\ e.fault = "none"
    BY <1>8 DEF CaughtBy, Goes
  <2>2. /\ Firsts(a, c, n) /\ Older(a, c) /\ Len(c) <= FramesMax
        /\ \A i : NoScriptAbove(b, i) => NoScriptAbove(a, i)
        /\ NoScriptAbove(a, n) => ScriptsIn(c) = ScriptsIn(a)
        /\ Quiet /\ s.error = FALSE /\ Calm(s) => e.fault = "none" /\ Calm(e)
    BY <1>6, <2>1
  <2> HIDE DEF a, b, c
  <2>3. c # <<>>
    BY <1>3, <2>1 DEF Firsts
  <2>4. Sound(e)
    BY <1>2, <1>8, <2>1, <2>2 DEF Sound, c
  <2>5. ASSUME Strict, s.error = FALSE
        PROVE  Exact(s, e)
    <3>1. ScriptsIn(c) = ScriptsIn(a)
      BY <1>1, <2>1, <2>2, <2>5
    <3> QED
      BY <1>3, <2>1, <2>3, <2>5, <3>1 DEF Exact, a, c
  <2> QED
    BY <2>1, <2>2, <2>4, <2>5 DEF Follows, a, c
<1>9. ASSUME Stuck(m, e)
      PROVE  Follows(s, e)
  <2>1. /\ c = b /\ e.mode = "run" /\ e.error = m.error /\ e.misled = m.misled /\ e.fault = "stack"
    BY <1>9 DEF Stuck, Stays
  <2>2. Firsts(b, c, Len(b)) /\ NoScriptAbove(b, Len(b)) /\ c # <<>>
    BY <1>3, <2>1 DEF Firsts, NoScriptAbove
  <2>3. /\ Older(a, c) /\ Len(c) <= FramesMax
        /\ NoScriptAbove(a, Len(b)) => ScriptsIn(c) = ScriptsIn(a)
        /\ NoScriptAbove(b, Len(b)) => NoScriptAbove(a, Len(b))
    BY <1>6, <2>2
  <2> HIDE DEF a, b, c
  <2>4. Sound(e)
    BY <1>2, <2>1, <2>3 DEF Sound, c
  <2>5. ASSUME Strict, s.error = FALSE
        PROVE  Exact(s, e)
    BY <1>3, <2>1, <2>2, <2>3, <2>5 DEF Exact, a, c
  <2>6. ~(Quiet /\ s.error = FALSE /\ Calm(s))
    BY <1>5, <2>1
  <2> QED
    BY <2>1, <2>3, <2>4, <2>5, <2>6 DEF Follows, a, c
<1> QED
  BY <1>2, <1>7, <1>8, <1>9 DEF Landed

-----------------------------------------------------------------------------
(* What an instruction does to the machine *)

\* the operands of an instruction
Count(f, i) == program.code[f][i].n

Operand(f, i) == program.code[f][i].v

\* run() is at an instruction
Ready(m) == Sound(m) /\ m.mode = "run" /\ m.fault = "none" /\ m.frames # <<>>

\* e is m with another stack, and its top frame at instruction k
Steps(m, e, k) ==
  /\ IsMachine(e) /\ Turned(program, m.frames, e.frames, k)
  /\ e.mode = "run" /\ e.error = m.error /\ e.misled = m.misled /\ e.fault = "none"

\* the frame at the top, its instruction, and the height of the stack there
At(m, f, i, b, n) ==
  /\ f = Top(m.frames).func /\ i = Top(m.frames).ip /\ b = Top(m.frames).base
  /\ n = Len(m.stack)

\* What is known of the machine before an instruction, and of the instruction
LEMMA ReadyFacts ==
  ASSUME program \in Programs, NEW m, NEW f, NEW i, NEW b, NEW n
  PROVE  /\ Ready(m) /\ At(m, f, i, b, n)
         => /\ IsMachine(m) /\ Laid(program, m.stack, m.frames) /\ Settled(program, m.stack, m.frames)
            /\ Typed(program, m.frames) /\ Linked(program, m.frames) /\ Owned(program, m.stack, m.frames)
            /\ NoScripts(m.stack, m.frames)
            /\ m.stack \in Seq(Cells(program)) /\ m.frames \in Seq(Frame(program))
            /\ f \in DOMAIN program.code /\ i \in 1..Len(program.code[f]) /\ i \in Nat
            /\ b \in Nat /\ n \in Nat /\ Heights[program][f][i] \in Nat
            /\ Heights[program][f] \in [1..Len(program.code[f]) -> Nat \ {0}]
            /\ Len(program.code[f]) \in Nat \ {0} /\ Fits(program, f, i)
            /\ n = b + Heights[program][f][i]
            /\ Len(m.frames) \in Nat /\ Len(m.frames) \in 1..Len(m.frames) /\ Len(m.frames) <= FramesMax
            /\ FramesMax \in Nat
<1>a. HAVE /\ Ready(m) /\ At(m, f, i, b, n)
<1>1. /\ IsMachine(m) /\ Laid(program, m.stack, m.frames) /\ Settled(program, m.stack, m.frames)
      /\ Len(m.frames) <= FramesMax /\ m.frames # <<>>
  BY <1>a DEF Ready, Sound
<1>2. /\ Typed(program, m.frames) /\ Linked(program, m.frames) /\ Owned(program, m.stack, m.frames)
      /\ Scriptless(program, m.stack, m.frames)
      /\ m.stack \in Seq(Cells(program)) /\ m.frames \in Seq(Frame(program))
  BY <1>1 DEF Laid, Typed, Owned
<1>3. f = Top(m.frames).func /\ i = Top(m.frames).ip /\ b = Top(m.frames).base /\ n = Len(m.stack)
  BY <1>a DEF At
<1>4. /\ f \in DOMAIN program.code /\ i \in 1..Len(program.code[f]) /\ b \in Nat /\ i \in Nat
      /\ Heights[program][f] \in [1..Len(program.code[f]) -> Nat \ {0}]
      /\ Len(program.code[f]) \in Nat \ {0} /\ Fits(program, f, i)
      /\ Level(program, Top(m.frames)) = b + Heights[program][f][i]
      /\ Heights[program][f][i] \in Nat
      /\ Len(m.frames) \in 1..Len(m.frames) /\ Len(m.frames) \in Nat
  <2> DEFINE fr == m.frames
  <2>1. Typed(program, fr) /\ fr # <<>> /\ f = Top(fr).func /\ i = Top(fr).ip /\ b = Top(fr).base
    BY <1>1, <1>2, <1>3
  <2> HIDE DEF fr
  <2>2. /\ f \in DOMAIN program.code /\ i \in 1..Len(program.code[f]) /\ b \in Nat /\ i \in Nat
        /\ Heights[program][f] \in [1..Len(program.code[f]) -> Nat \ {0}]
        /\ Len(program.code[f]) \in Nat \ {0} /\ Fits(program, f, i)
        /\ Level(program, Top(fr)) = b + Heights[program][f][i]
        /\ Len(fr) \in 1..Len(fr) /\ Len(fr) \in Nat
    BY <2>1, InstructionFacts
  <2>3. Heights[program][f][i] \in Nat
    BY <2>2
  <2> QED
    BY <2>2, <2>3 DEF fr
<1>5. n \in Nat /\ n = Level(program, Top(m.frames))
  BY <1>1, <1>2, <1>3 DEF Settled
<1>6. NoScripts(m.stack, m.frames)
  BY <1>2, <1>3, <1>5 DEF Scriptless, NoScripts
<1>7. FramesMax \in Nat
  BY FramesAssumption
<1> QED
  BY <1>1, <1>2, <1>4, <1>5, <1>6, <1>7

\* frame->ip moves past the instruction.
LEMMA Advancing ==
  ASSUME program \in Programs, NEW m, Ready(m), NEW f, NEW i, NEW b, NEW n, At(m, f, i, b, n),
         NEW e, e = Advance(m)
  PROVE  Steps(m, e, i + 1) /\ e.stack = m.stack
<1> DEFINE fr == m.frames  l == Len(m.frames)  g == [fr EXCEPT ![l] = [fr[l] EXCEPT !.ip = i + 1]]
<1>1. IsMachine(m) /\ m.mode = "run" /\ m.fault = "none" /\ fr # <<>> /\ Typed(program, fr) /\ i \in Nat
  BY ReadyFacts DEF Ready
<1>2. fr[l].ip = i
  BY DEF At, Top
<1>3. e = [m EXCEPT !.frames = g]
  BY <1>2 DEF Advance
<1>4. i + 1 \in Nat
  BY <1>1
<1>5. Turned(program, fr, g, i + 1)
  BY <1>1, <1>4, Turning
<1> HIDE DEF g
<1>6. /\ IsMachine(e) /\ e.frames = g /\ e.stack = m.stack /\ e.mode = m.mode /\ e.error = m.error
      /\ e.misled = m.misled /\ e.fault = m.fault
  BY <1>1, <1>3 DEF IsMachine
<1> QED
  BY <1>1, <1>5, <1>6 DEF Steps

\* run() goes on with the same functions in its frames.
LEMMA Continues ==
  ASSUME program \in Programs, NEW m, NEW e, m.frames \in Seq(Frame(program)),
         Firsts(m.frames, e.frames, Len(m.frames)), Sound(e), e.frames # <<>>,
         e.mode = "run", e.error = m.error, e.misled = m.misled, e.fault = "none"
  PROVE  Follows(m, e)
<1> DEFINE a == m.frames  c == e.frames
<1>1. a \in Seq(Frame(program)) /\ c \in Seq(Frame(program)) /\ Firsts(a, c, Len(a)) /\ Len(a) \in Nat
  BY DEF Sound, Laid, Typed
<1>2. NoScriptAbove(a, Len(a))
  BY <1>1 DEF NoScriptAbove
<1> HIDE DEF a, c
<1>3. Older(a, c) /\ ScriptsIn(c) = ScriptsIn(a) /\ (Tryless(a) => Tryless(c))
  BY <1>1, <1>2, FirstsFacts
<1>4. m.error = FALSE => Exact(m, e)
  BY <1>3 DEF Exact, a, c
<1>5. Calm(m) => Calm(e)
  BY <1>3 DEF Calm, a, c
<1> QED
  BY <1>3, <1>4, <1>5 DEF Follows, a, c

Stepped(m, e, f, b, k) ==
  /\ Laid(program, e.stack, e.frames) /\ NoScripts(e.stack, e.frames) /\ e.frames # <<>>
  /\ Len(e.frames) = Len(m.frames) /\ e.stack \in Seq(Cells(program))
  /\ Alike(m, e)
  /\ Level(program, Top(e.frames)) = b + Heights[program][f][k]
  /\ Len(e.stack) = b + Heights[program][f][k] => Ready(e) /\ Follows(m, e)

\* An instruction that stays in its frame
LEMMA Stepping ==
  ASSUME program \in Programs, NEW m, Ready(m), NEW f, NEW i, NEW b, NEW n, At(m, f, i, b, n),
         NEW k \in 1..Len(program.code[f]), NEW e, Steps(m, e, k),
         NEW h, Moved(program, m.stack, m.frames, e.stack, h)
  PROVE  Stepped(m, e, f, b, k)
<1>1. /\ Laid(program, m.stack, m.frames) /\ Settled(program, m.stack, m.frames) /\ m.frames # <<>>
      /\ Typed(program, m.frames) /\ m.frames \in Seq(Frame(program))
      /\ Len(m.frames) \in Nat /\ Len(m.frames) \in 1..Len(m.frames) /\ Len(m.frames) <= FramesMax
  BY ReadyFacts DEF Ready
<1>2. f = Top(m.frames).func /\ b = Top(m.frames).base
  BY DEF At
<1>3. /\ IsMachine(e) /\ Turned(program, m.frames, e.frames, k)
      /\ e.mode = "run" /\ e.error = m.error /\ e.misled = m.misled /\ e.fault = "none"
  BY DEF Steps
<1> DEFINE a == m.frames  c == e.frames  u == e.stack  st == m.stack
<1>4. /\ Laid(program, u, c) /\ NoScripts(u, c) /\ c # <<>>
      /\ Level(program, Top(c)) = b + Heights[program][f][k]
  <2> HIDE DEF a, c, u, st
  <2>1. Laid(program, st, a) /\ Settled(program, st, a) /\ a # <<>> /\ f = Top(a).func /\ b = Top(a).base
    BY <1>1, <1>2 DEF st, a
  <2>2. Turned(program, a, c, k) /\ Moved(program, st, a, u, h)
    BY <1>3 DEF a, c, u, st
  <2> QED
    BY <2>1, <2>2, Moving
<1>5. Firsts(a, c, Len(a)) /\ Len(c) = Len(a)
  <2>1. /\ Len(c) = Len(a) /\ \A j \in 1..(Len(a) - 1) : c[j] = a[j]
        /\ c[Len(c)].func = a[Len(a)].func /\ c[Len(c)].tries = a[Len(a)].tries
    BY <1>3 DEF Turned, Top
  <2>2. \A j \in 1..Len(a) : j \in 1..(Len(a) - 1) \/ j = Len(a)
    BY <1>1
  <2>3. Len(a) \in 0..Len(a)
    BY <1>1
  <2> HIDE DEF a, c
  <2> QED
    BY <2>1, <2>2, <2>3 DEF Firsts
<1>6. Alike(m, e)
  BY <1>3, <1>5 DEF Alike
<1>7. u \in Seq(Cells(program))
  BY DEF Moved
<1>8. ASSUME Len(u) = b + Heights[program][f][k]
      PROVE  Ready(e) /\ Follows(m, e)
  <2>1. Settled(program, u, c)
    BY <1>4, <1>8 DEF Settled
  <2>2. Sound(e)
    BY <1>1, <1>3, <1>4, <1>5, <2>1 DEF Sound
  <2>3. Ready(e)
    BY <1>3, <1>4, <2>2 DEF Ready
  <2> QED
    BY <1>1, <1>3, <1>4, <1>5, <2>2, <2>3, Continues
<1> QED
  BY <1>4, <1>5, <1>6, <1>7, <1>8 DEF Stepped

\* An instruction that fails in its frame
LEMMA Failing ==
  ASSUME program \in Programs, NEW m, NEW f, NEW i, NEW b, NEW n,
         NEW k \in 1..Len(program.code[f]), NEW d, NEW h, NEW kept \in NameReads, NEW e
  PROVE  /\ Ready(m) /\ At(m, f, i, b, n) /\ program.code[f][i].op \in Raising /\ k = i + 1
         /\ Steps(m, d, k) /\ Moved(program, m.stack, m.frames, d.stack, h)
         /\ n - Taken(program.code[f][i]) <= Len(d.stack) /\ e = Exception(d, kept)
         => Follows(m, e)
<1>a. HAVE /\ Ready(m) /\ At(m, f, i, b, n) /\ program.code[f][i].op \in Raising /\ k = i + 1
           /\ Steps(m, d, k) /\ Moved(program, m.stack, m.frames, d.stack, h)
           /\ n - Taken(program.code[f][i]) <= Len(d.stack) /\ e = Exception(d, kept)
<1>1. /\ Laid(program, d.stack, d.frames) /\ d.frames # <<>> /\ Len(d.frames) = Len(m.frames)
      /\ Alike(m, d)
  <2>1. Stepped(m, d, f, b, k)
    BY <1>a, Stepping
  <2> QED
    BY <2>1 DEF Stepped
<1>2. /\ m.frames \in Seq(Frame(program)) /\ Len(m.frames) <= FramesMax /\ i \in Nat /\ i >= 1
      /\ b \in Nat /\ n \in Nat /\ n = b + Heights[program][f][i] /\ Heights[program][f][i] \in Nat
      /\ Fits(program, f, i)
  BY <1>a, ReadyFacts
<1>3. /\ IsMachine(d) /\ Turned(program, m.frames, d.frames, k) /\ d.mode = "run" /\ d.fault = "none"
  BY <1>a DEF Steps
<1>4. Raises(d)
  <2>1. Top(d.frames).func = f /\ Top(d.frames).base = b /\ Top(d.frames).ip = i + 1
    BY <1>a, <1>3 DEF Turned, At
  <2>2. (i + 1) - 1 = i /\ i + 1 > 1
    BY <1>2
  <2>3. Taken(program.code[f][i]) \in Nat
    <3>1. program.code[f][i].n \in Nat
      BY <1>2 DEF Fits
    <3> QED
      BY <3>1, TakenFacts
  <2> DEFINE t == Taken(program.code[f][i])  c == Heights[program][f][i]
  <2>4. Len(d.stack) >= b + (c - t)
    <3>1. d.stack \in Seq(Cells(program))
      BY <1>a DEF Moved
    <3>2. Len(d.stack) \in Nat /\ n - t <= Len(d.stack) /\ t \in Nat /\ c \in Nat /\ n = b + c
      BY <1>a, <1>2, <2>3, <3>1
    <3>3. b \in Nat /\ n \in Nat
      BY <1>2
    <3> HIDE DEF t, c
    <3> QED
      BY <3>2, <3>3
  <2> QED
    BY <1>a, <2>1, <2>2, <2>4 DEF Raises
<1>5. Len(d.frames) <= FramesMax
  BY <1>1, <1>2
<1> QED
  BY <1>a, <1>1, <1>2, <1>3, <1>4, <1>5, ExceptionFollows

\* a machine with another stack
Restacked(d, w) == [d EXCEPT !.stack = w]

\* A new stack in a machine that is on its way
LEMMA StepsOn ==
  ASSUME NEW m, NEW d, NEW k, Steps(m, d, k), NEW w, NEW e, e = Restacked(d, w)
  PROVE  Steps(m, e, k) /\ e.stack = w /\ e.frames = d.frames
<1>1. /\ IsMachine(d) /\ Turned(program, m.frames, d.frames, k)
      /\ d.mode = "run" /\ d.error = m.error /\ d.misled = m.misled /\ d.fault = "none"
  BY DEF Steps
<1>2. /\ IsMachine(e) /\ e.stack = w /\ e.frames = d.frames /\ e.mode = d.mode /\ e.error = d.error
      /\ e.misled = d.misled /\ e.fault = d.fault
  BY <1>1 DEF IsMachine, Restacked
<1>3. Steps(m, e, k)
  BY <1>1, <1>2 DEF Steps
<1> QED
  BY <1>2, <1>3

\* A stack that is cut, and what is put on it
LEMMA MovedFacts ==
  ASSUME NEW p, NEW st \in Seq(Cells(p)), NEW fr, NEW h \in 0..Len(st), Top(fr).base < h
  PROVE  /\ Moved(p, st, fr, SubSeq(st, 1, h), h) /\ Len(SubSeq(st, 1, h)) = h
         /\ \A v \in Cells(p) : v \notin Scripts =>
              /\ Moved(p, st, fr, Append(SubSeq(st, 1, h), v), h)
              /\ Len(Append(SubSeq(st, 1, h), v)) = h + 1
<1> DEFINE u == SubSeq(st, 1, h)
<1>1. u \in Seq(Cells(p)) /\ Len(u) = h /\ h \in Nat /\ \A j \in 1..h : u[j] = st[j]
  BY PrefixFacts
<1>2. Moved(p, st, fr, u, h)
  BY <1>1 DEF Moved
<1>3. ASSUME NEW v \in Cells(p), v \notin Scripts
      PROVE  Moved(p, st, fr, Append(u, v), h) /\ Len(Append(u, v)) = h + 1
  <2> DEFINE w == Append(u, v)
  <2>1. w \in Seq(Cells(p)) /\ Len(w) = h + 1 /\ w[h + 1] = v /\ \A j \in 1..h : w[j] = st[j]
    <3> HIDE DEF u
    <3> QED
      BY <1>1, <1>3
  <2> HIDE DEF w
  <2>2. \A j \in 1..Len(w) : h < j => w[j] \notin Scripts
    BY <1>1, <1>3, <2>1
  <2> QED
    BY <1>1, <2>1, <2>2 DEF Moved, w
<1> QED
  BY <1>2, <1>3 DEF u

\* the values up to h, and one more
Topped(st, h, v) == Append(SubSeq(st, 1, h), v)

\* ... as a stack of its own
LEMMA MovedTop ==
  ASSUME NEW p, NEW st \in Seq(Cells(p)), NEW fr, NEW h \in 0..Len(st), Top(fr).base < h,
         NEW v \in Cells(p), v \notin Scripts, NEW x, x = Topped(st, h, v)
  PROVE  Moved(p, st, fr, x, h) /\ Len(x) = h + 1
<1>1. /\ Moved(p, st, fr, Append(SubSeq(st, 1, h), v), h)
      /\ Len(Append(SubSeq(st, 1, h), v)) = h + 1
  BY MovedFacts
<1>2. x = Append(SubSeq(st, 1, h), v)
  BY DEF Topped
<1> QED
  BY <1>1, <1>2

\* the values up to h, and others on them
Joined(st, h, w) == SubSeq(st, 1, h) \o w

\* ... and some values
LEMMA MovedJoin ==
  ASSUME NEW p, NEW st \in Seq(Cells(p)), NEW fr, NEW h \in 0..Len(st), Top(fr).base < h,
         NEW w \in Seq(Values(p)), NEW x, x = Joined(st, h, w)
  PROVE  Moved(p, st, fr, x, h) /\ Len(x) = h + Len(w)
<1> DEFINE u == SubSeq(st, 1, h)  n == Len(w)
<1>1. u \in Seq(Cells(p)) /\ Len(u) = h /\ h \in Nat /\ \A j \in 1..h : u[j] = st[j]
  BY PrefixFacts
<1>2. n \in Nat /\ w \in Seq(Cells(p)) /\ \A j \in 1..n : w[j] \notin Scripts
  BY DEF Values, Cells
<1> HIDE DEF u, n
<1>3. /\ h = Len(u) /\ n = Len(w) /\ h \in Nat /\ n \in Nat
      /\ u \in Seq(Cells(p)) /\ w \in Seq(Cells(p))
  BY <1>1, <1>2 DEF n
<1>4. x = u \o w
  BY DEF u, Joined
<1>5. /\ x \in Seq(Cells(p)) /\ Len(x) = h + n /\ \A j \in 1..h : x[j] = u[j]
      /\ \A j \in (h + 1)..(h + n) : x[j] = w[j - h]
  <2>1. /\ u \o w \in Seq(Cells(p)) /\ Len(u \o w) = h + n /\ \A j \in 1..h : (u \o w)[j] = u[j]
        /\ \A j \in (h + 1)..(h + n) : (u \o w)[j] = w[j - h]
    BY <1>3, JoinFacts
  <2> QED
    BY <1>4, <2>1
<1>6. ASSUME NEW j \in 1..Len(x), h < j
      PROVE  x[j] \notin Scripts
  <2>1. j \in (h + 1)..(h + n) /\ j - h \in 1..n
    BY <1>1, <1>2, <1>5, <1>6
  <2> QED
    BY <1>2, <1>5, <2>1
<1>7. \A j \in 1..h : x[j] = st[j]
  BY <1>1, <1>5
<1>8. h <= Len(x)
  BY <1>1, <1>2, <1>5
<1>9. Moved(p, st, fr, x, h)
  BY <1>5, <1>6, <1>7, <1>8 DEF Moved
<1> QED
  BY <1>5, <1>9 DEF n

\* the same stack, and one more value on it
LEMMA MovedUp ==
  ASSUME NEW p, NEW st \in Seq(Cells(p)), NEW fr, NEW n, n = Len(st), Top(fr).base < n
  PROVE  /\ Moved(p, st, fr, st, n)
         /\ \A v \in Cells(p) : v \notin Scripts =>
              Moved(p, st, fr, Append(st, v), n) /\ Len(Append(st, v)) = n + 1
<1>1. n \in Nat /\ n \in 0..Len(st)
  OBVIOUS
<1>2. Moved(p, st, fr, st, n)
  BY <1>1 DEF Moved
<1>3. ASSUME NEW v \in Cells(p), v \notin Scripts
      PROVE  Moved(p, st, fr, Append(st, v), n) /\ Len(Append(st, v)) = n + 1
  <2> DEFINE w == Append(st, v)
  <2>1. w \in Seq(Cells(p)) /\ Len(w) = n + 1 /\ w[n + 1] = v /\ \A j \in 1..n : w[j] = st[j]
    BY <1>1
  <2> HIDE DEF w
  <2>2. \A j \in 1..Len(w) : n < j => w[j] \notin Scripts
    BY <1>1, <1>3, <2>1
  <2> QED
    BY <1>1, <2>1, <2>2 DEF Moved, w
<1> QED
  BY <1>2, <1>3

\* the instruction after the one of the top frame
LEMMA NextFacts ==
  ASSUME program \in Programs, NEW m, Ready(m), NEW f, NEW i, NEW b, NEW n, At(m, f, i, b, n),
         program.code[f][i].op \notin {"VOID", "RETURN"}, NEW k, k = i + 1
  PROVE  k \in 1..Len(program.code[f]) /\ Heights[program][f][k] \in Nat \ {0}
<1>1. /\ i \in 1..Len(program.code[f]) /\ i \in Nat /\ Len(program.code[f]) \in Nat \ {0}
      /\ Fits(program, f, i) /\ Heights[program][f] \in [1..Len(program.code[f]) -> Nat \ {0}]
  BY ReadyFacts
<1>2. i < Len(program.code[f])
  BY <1>1 DEF Fits
<1>3. k \in 1..Len(program.code[f])
  BY <1>1, <1>2
<1> QED
  BY <1>1, <1>3

\* OP_CONSTANT and the like push a value.
LEMMA ValueStep ==
  ASSUME program \in Programs, NEW m, Ready(m), NEW f, NEW i, NEW b, NEW n, At(m, f, i, b, n),
         program.code[f][i].op = "VALUE", NEW e, e = Push(Advance(m), program.code[f][i].v)
  PROVE  Follows(m, e)
<1> DEFINE k == i + 1  v == program.code[f][i].v  H == Heights[program][f]  d == Advance(m)
<1>1. k \in 1..Len(program.code[f])
  BY NextFacts
<1>2. Steps(m, d, k) /\ d.stack = m.stack
  BY Advancing
<1>3. /\ Fits(program, f, i) /\ m.stack \in Seq(Cells(program)) /\ b \in Nat /\ n \in Nat
      /\ H[i] \in Nat /\ n = b + H[i]
      /\ H \in [1..Len(program.code[f]) -> Nat \ {0}] /\ i \in 1..Len(program.code[f])
  BY ReadyFacts
<1>4. v \in Values(program) /\ H[k] = H[i] + 1
  BY <1>3 DEF Fits
<1>5. v \in Cells(program) /\ v \notin Scripts
  BY <1>4 DEF Values, Cells
<1>6. n = Len(m.stack) /\ Top(m.frames).base = b /\ b < n
  <2>1. n = Len(m.stack) /\ Top(m.frames).base = b
    BY DEF At
  <2>2. H[i] \in Nat \ {0}
    BY <1>3
  <2> QED
    BY <1>3, <2>1, <2>2
<1>7. e = Restacked(d, Append(m.stack, v))
  BY <1>2 DEF Push, Restacked
<1> HIDE DEF k, v, d
<1>8. Steps(m, e, k) /\ e.stack = Append(m.stack, v)
  <2> DEFINE w == Append(m.stack, v)
  <2>1. e = Restacked(d, w)
    BY <1>7
  <2> HIDE DEF w
  <2>2. Steps(m, e, k) /\ e.stack = w
    BY <1>2, <2>1, StepsOn
  <2> QED
    BY <2>2 DEF w
<1>9. Moved(program, m.stack, m.frames, e.stack, n) /\ Len(e.stack) = n + 1
  BY <1>3, <1>5, <1>6, <1>8, MovedUp
<1>10. Stepped(m, e, f, b, k)
  BY <1>1, <1>8, <1>9, Stepping
<1>11. Len(e.stack) = b + H[k]
  BY <1>3, <1>4, <1>9
<1> QED
  BY <1>10, <1>11 DEF Stepped

\* An instruction takes some values from above the function of its frame.
LEMMA Dropping ==
  ASSUME program \in Programs, NEW m, Ready(m), NEW f, NEW i, NEW b, NEW n, At(m, f, i, b, n),
         NEW q \in Nat, q < Heights[program][f][i], NEW k, k = i + 1,
         NEW d, d = Drop(Advance(m), q), NEW h, h = n - q
  PROVE  /\ Steps(m, d, k) /\ d.stack = SubSeq(m.stack, 1, h)
         /\ Moved(program, m.stack, m.frames, d.stack, h) /\ Len(d.stack) = h
         /\ h \in 0..Len(m.stack) /\ b < h /\ Top(m.frames).base = b /\ m.stack \in Seq(Cells(program))
         /\ d.stack \in Seq(Cells(program))
<1> DEFINE c == Advance(m)  w == SubSeq(m.stack, 1, h)
<1>1. Steps(m, c, k) /\ c.stack = m.stack
  BY Advancing
<1>2. /\ m.stack \in Seq(Cells(program)) /\ b \in Nat /\ n \in Nat
      /\ Heights[program][f][i] \in Nat /\ n = b + Heights[program][f][i]
  BY ReadyFacts
<1>3. n = Len(m.stack) /\ Top(m.frames).base = b
  BY DEF At
<1>4. h \in 0..Len(m.stack) /\ b < h
  <2> DEFINE H == Heights[program][f][i]
  <2>1. H \in Nat /\ q < H /\ n = b + H /\ b \in Nat /\ n \in Nat
    BY <1>2
  <2> HIDE DEF H
  <2>2. h \in 0..n /\ b < h
    BY <2>1
  <2> QED
    BY <1>3, <2>2
<1>5. d = Restacked(c, w)
  BY <1>1, <1>3 DEF Drop, Restacked
<1>6. Moved(program, m.stack, m.frames, w, h) /\ Len(w) = h /\ w \in Seq(Cells(program))
  <2>1. Moved(program, m.stack, m.frames, w, h) /\ Len(w) = h
    BY <1>2, <1>3, <1>4, MovedFacts
  <2> QED
    BY <2>1 DEF Moved
<1> HIDE DEF c, w
<1>7. Steps(m, d, k) /\ d.stack = w
  BY <1>1, <1>5, StepsOn
<1> QED
  BY <1>2, <1>3, <1>4, <1>6, <1>7 DEF w

\* An instruction takes its operands and leaves nothing, or raises an error.
LEMMA DropStep ==
  ASSUME program \in Programs, NEW m, Ready(m), NEW f, NEW i, NEW b, NEW n, At(m, f, i, b, n),
         program.code[f][i].op \notin {"VOID", "RETURN"},
         NEW q \in Nat, q < Heights[program][f][i], NEW d, d = Drop(Advance(m), q)
  PROVE  /\ Heights[program][f][i + 1] = Heights[program][f][i] - q => Follows(m, d)
         /\ program.code[f][i].op \in Raising /\ q = Taken(program.code[f][i]) =>
              \A kept \in NameReads : Follows(m, Exception(d, kept))
<1> DEFINE k == i + 1  h == n - q
<1>1. k \in 1..Len(program.code[f])
  BY NextFacts
<1>2. /\ Steps(m, d, k) /\ Moved(program, m.stack, m.frames, d.stack, h) /\ Len(d.stack) = h
      /\ d.stack \in Seq(Cells(program))
  BY Dropping
<1>3. /\ b \in Nat /\ n \in Nat /\ Heights[program][f][i] \in Nat /\ n = b + Heights[program][f][i]
  BY ReadyFacts
<1>4. ASSUME Heights[program][f][i + 1] = Heights[program][f][i] - q
      PROVE  Follows(m, d)
  <2>1. Len(d.stack) = b + Heights[program][f][k]
    BY <1>2, <1>3, <1>4
  <2>2. Stepped(m, d, f, b, k)
    <3> HIDE DEF k, h
    <3> QED
      BY <1>1, <1>2, Stepping
  <2> QED
    BY <2>1, <2>2 DEF Stepped
<1>5. ASSUME program.code[f][i].op \in Raising, q = Taken(program.code[f][i]), NEW kept \in NameReads
      PROVE  Follows(m, Exception(d, kept))
  <2> DEFINE e == Exception(d, kept)
  <2>1. n - Taken(program.code[f][i]) <= Len(d.stack)
    BY <1>2, <1>3, <1>5
  <2>2. k = i + 1
    OBVIOUS
  <2> HIDE DEF k, h
  <2>3. e = Exception(d, kept)
    OBVIOUS
  <2> HIDE DEF e
  <2>4. Follows(m, e)
    BY <1>1, <1>2, <1>5, <2>1, <2>2, <2>3, Failing
  <2> QED
    BY <2>4 DEF e
<1> QED
  BY <1>4, <1>5

\* ... or leaves some values.
LEMMA OperateStep ==
  ASSUME program \in Programs, NEW m, Ready(m), NEW f, NEW i, NEW b, NEW n, At(m, f, i, b, n),
         program.code[f][i].op \notin {"VOID", "RETURN"},
         NEW q \in Nat, q < Heights[program][f][i], NEW d, d = Drop(Advance(m), q),
         NEW w \in Seq(Values(program)),
         Heights[program][f][i + 1] = Heights[program][f][i] - q + Len(w),
         NEW e, e = Restacked(d, d.stack \o w)
  PROVE  Follows(m, e)
<1> DEFINE k == i + 1  h == n - q
<1>1. k \in 1..Len(program.code[f])
  BY NextFacts
<1>2. /\ Steps(m, d, k) /\ d.stack = SubSeq(m.stack, 1, h)
      /\ h \in 0..Len(m.stack) /\ b < h /\ Top(m.frames).base = b /\ m.stack \in Seq(Cells(program))
  BY Dropping
<1>3. /\ b \in Nat /\ n \in Nat /\ Heights[program][f][i] \in Nat /\ n = b + Heights[program][f][i]
      /\ Len(w) \in Nat
  BY ReadyFacts
<1>4. Heights[program][f][k] = Heights[program][f][i] - q + Len(w)
  OBVIOUS
<1>5. b + (Heights[program][f][i] - q + Len(w)) = h + Len(w)
  <2> DEFINE H == Heights[program][f][i]  l == Len(w)
  <2>1. H \in Nat /\ n = b + H /\ b \in Nat /\ n \in Nat /\ l \in Nat
    BY <1>3
  <2> HIDE DEF H, l
  <2>2. b + (H - q + l) = h + l
    BY <2>1
  <2> QED
    BY <2>2 DEF H, l
<1> HIDE DEF k, h
<1> DEFINE u == d.stack \o w
<1>6. Moved(program, m.stack, m.frames, u, h) /\ Len(u) = h + Len(w)
  <2>1. Top(m.frames).base < h /\ u = Joined(m.stack, h, w)
    BY <1>2 DEF Joined
  <2> HIDE DEF u
  <2> QED
    BY <1>2, <2>1, MovedJoin
<1>7. e = Restacked(d, u)
  OBVIOUS
<1> HIDE DEF u
<1>8. Steps(m, e, k) /\ e.stack = u
  BY <1>2, <1>7, StepsOn
<1>9. Stepped(m, e, f, b, k)
  BY <1>1, <1>6, <1>8, Stepping
<1>10. Len(e.stack) = b + Heights[program][f][k]
  BY <1>4, <1>5, <1>6, <1>8
<1> QED
  BY <1>9, <1>10 DEF Stepped

\* The values above the function of the top frame are no scripts.
LEMMA NoScriptThere ==
  ASSUME program \in Programs, NEW st \in Seq(Cells(program)), NEW fr, Typed(program, fr),
         Linked(program, fr), fr # <<>>, NoScripts(st, fr),
         NEW j \in 1..Len(st), Top(fr).base + 1 < j
  PROVE  st[j] \notin Scripts
<1> SUFFICES ASSUME st[j] \in Scripts
             PROVE  FALSE
  OBVIOUS
<1>1. Len(fr) \in Nat /\ Len(fr) \in 1..Len(fr) /\ Len(st) \in Nat
  BY DEF Typed
<1>2. PICK i \in 1..Len(fr) : j = fr[i].base + 1
  BY DEF NoScripts
<1>3. fr[i].base \in Nat /\ fr[Len(fr)].base \in Nat
  BY <1>1, FrameFacts
<1>4. i = Len(fr) \/ fr[i].base < fr[Len(fr)].base
  BY <1>1 DEF Linked
<1> QED
  BY <1>1, <1>2, <1>3, <1>4 DEF Top

\* h is g and the frame x
Grown(g, x, h) ==
  /\ x.func \in Scripts => ScriptsIn(h) = ScriptsIn(g) \cup {Len(g) + 1}
  /\ x.func \notin Scripts => ScriptsIn(h) = ScriptsIn(g)
  /\ Len(h) = Len(g) + 1 /\ h[Len(g) + 1] = x
  /\ \A i \in 1..Len(g) : h[i] = g[i]
  /\ Tryless(g) /\ x.tries = 0 => Tryless(h)

\* One frame more
LEMMA AppendScripts ==
  ASSUME NEW p, NEW g \in Seq(Frame(p)), NEW x \in Frame(p), NEW h, h = Above(g, x)
  PROVE  Grown(g, x, h)
<1> DEFINE l == Len(g)
<1>1. h \in Seq(Frame(p)) /\ Len(h) = l + 1 /\ h[l + 1] = x /\ l \in Nat /\ \A i \in 1..l : h[i] = g[i]
  BY DEF Above
<1> HIDE DEF l
<1>2. \A i \in 1..(l + 1) : (i \in 1..l /\ h[i] = g[i]) \/ (i = l + 1 /\ h[i] = x)
  BY <1>1
<1>3. \A i \in 1..l : i \in 1..(l + 1) /\ i # l + 1
  BY <1>1
<1>4. ScriptsIn(g) = {i \in 1..l : g[i].func \in Scripts}
  BY DEF ScriptsIn, l
<1>5. ScriptsIn(h) = {i \in 1..(l + 1) : h[i].func \in Scripts}
  BY <1>1 DEF ScriptsIn
<1>6. l + 1 \in 1..(l + 1)
  BY <1>1
<1>7. /\ x.func \in Scripts => ScriptsIn(h) = ScriptsIn(g) \cup {l + 1}
      /\ x.func \notin Scripts => ScriptsIn(h) = ScriptsIn(g)
  BY <1>1, <1>2, <1>3, <1>4, <1>5, <1>6
<1>8. Tryless(g) /\ x.tries = 0 => Tryless(h)
  BY <1>1, <1>2 DEF Tryless, l
<1> QED
  BY <1>1, <1>7, <1>8 DEF l, Grown

\* The other results of a call
LEMMA CallSteps ==
  ASSUME program \in Programs, NEW m, Ready(m), NEW f, NEW i, NEW b, NEW n, At(m, f, i, b, n),
         program.code[f][i].op \in {"CALL", "TAIL_CALL"}, NEW q, q = Count(f, i),
         NEW d, d = Advance(m)
  PROVE  /\ \A kept \in NameReads : Follows(m, Exception(d, kept))
         /\ \A kept \in NameReads : Follows(m, Exception(Drop(d, q + 1), kept))
         /\ Follows(m, Push(Drop(d, q + 1), Plain))
<1> DEFINE k == i + 1  H == Heights[program][f]  r == q + 1  h == n - r
<1>1. /\ Fits(program, f, i) /\ m.stack \in Seq(Cells(program)) /\ b \in Nat /\ n \in Nat
      /\ H[i] \in Nat /\ n = b + H[i]
  BY ReadyFacts
<1>2. /\ program.code[f][i].op \in Raising /\ Taken(program.code[f][i]) = r
      /\ program.code[f][i].op \notin {"VOID", "RETURN"}
  BY DEF Raising, Taken, Count
<1>3. q \in Nat /\ q + 2 <= H[i] /\ H[k] = H[i] - q
  BY <1>1 DEF Fits, Count
<1>4. r \in Nat /\ r < H[i]
  BY <1>1, <1>3
<1>5. k \in 1..Len(program.code[f]) /\ k = i + 1
  BY <1>2, NextFacts
<1> HIDE DEF k, H, r, h
<1>6. r < Heights[program][f][i]
  BY <1>4 DEF H
<1>7. ASSUME NEW kept \in NameReads
      PROVE  Follows(m, Exception(Drop(d, r), kept))
  <2> DEFINE c == Drop(d, r)
  <2>1. c = Drop(Advance(m), r)
    OBVIOUS
  <2> HIDE DEF c
  <2>2. Follows(m, Exception(c, kept))
    BY <1>2, <1>4, <1>6, <2>1, DropStep
  <2> QED
    BY <2>2 DEF c
<1>8. ASSUME NEW kept \in NameReads
      PROVE  Follows(m, Exception(d, kept))
  <2>1. Steps(m, d, k) /\ d.stack = m.stack
    BY <1>5, Advancing
  <2>2. n = Len(m.stack) /\ Top(m.frames).base = b /\ b < n
    BY <1>1, <1>3 DEF At
  <2>3. Moved(program, m.stack, m.frames, d.stack, n)
    BY <1>1, <2>1, <2>2, MovedUp
  <2>4. n - Taken(program.code[f][i]) <= Len(d.stack)
    BY <1>1, <1>2, <1>4, <2>1, <2>2
  <2> DEFINE e == Exception(d, kept)
  <2>5. e = Exception(d, kept)
    OBVIOUS
  <2> HIDE DEF e
  <2>6. Follows(m, e)
    BY <1>2, <1>5, <2>1, <2>3, <2>4, <2>5, Failing
  <2> QED
    BY <2>6 DEF e
<1>9. Follows(m, Push(Drop(d, r), Plain))
  <2> DEFINE c == Drop(d, r)  e == Push(c, Plain)  u == Append(c.stack, Plain)
  <2>1. c = Drop(Advance(m), r) /\ h = n - r
    BY DEF h
  <2> HIDE DEF c
  <2>2. /\ Steps(m, c, k) /\ c.stack = SubSeq(m.stack, 1, h)
        /\ h \in 0..Len(m.stack) /\ b < h /\ Top(m.frames).base = b
    BY <1>4, <1>5, <1>6, <2>1, Dropping
  <2>3. Plain \in Cells(program) /\ Plain \notin Scripts
    BY FramesAssumption DEF Cells
  <2>4. Moved(program, m.stack, m.frames, u, h) /\ Len(u) = h + 1
    <3>1. Top(m.frames).base < h /\ u = Topped(m.stack, h, Plain)
      BY <2>2 DEF Topped
    <3> HIDE DEF u
    <3> QED
      BY <1>1, <2>2, <2>3, <3>1, MovedTop
  <2>5. e = Restacked(c, u)
    BY DEF Push, Restacked
  <2> HIDE DEF e, u
  <2>6. Steps(m, e, k) /\ e.stack = u
    BY <2>2, <2>5, StepsOn
  <2>7. Stepped(m, e, f, b, k)
    BY <1>5, <2>4, <2>6, Stepping
  <2>8. Len(e.stack) = b + H[k]
    <3> DEFINE x == H[i]  y == H[k]
    <3>1. x \in Nat /\ n = b + x /\ y = x - q /\ q \in Nat /\ b \in Nat /\ n \in Nat /\ h = n - (q + 1)
      BY <1>1, <1>3 DEF h, r
    <3> HIDE DEF x, y
    <3>2. h + 1 = b + y
      BY <3>1
    <3> QED
      BY <2>4, <2>6, <3>2 DEF y
  <2>9. Follows(m, e)
    BY <2>7, <2>8 DEF Stepped, H
  <2> QED
    BY <2>9 DEF e, c
<1> QED
  BY <1>7, <1>8, <1>9 DEF r


\* a machine with one frame more
Entered(d, x) == [d EXCEPT !.frames = Append(@, x)]

\* It is the same but for its frames.
LEMMA EnteredFields ==
  ASSUME NEW d, IsMachine(d), NEW x, NEW e, e = Entered(d, x)
  PROVE  /\ IsMachine(e) /\ e.stack = d.stack /\ e.frames = Append(d.frames, x) /\ e.mode = d.mode
         /\ e.error = d.error /\ e.misled = d.misled /\ e.fault = d.fault
  BY DEF IsMachine, Entered

\* A frame of a function, over frames in which all scripts are left, is a step of run().
LEMMA Entries ==
  ASSUME program \in Programs, NEW m, NEW g \in Seq(Frame(program)), NEW n,
         NEW x \in Frame(program), NEW e
  PROVE  /\ m.frames \in Seq(Frame(program)) /\ Firsts(m.frames, g, n) /\ NoScriptAbove(m.frames, n)
         /\ x.func \notin Scripts /\ (Quiet /\ Calm(m) => x.tries = 0) /\ e.frames = Append(g, x)
         /\ Sound(e) /\ e.mode = "run" /\ e.error = m.error /\ e.misled = m.misled
         /\ e.fault = "none"
         => Follows(m, e)
<1>a. HAVE /\ m.frames \in Seq(Frame(program)) /\ Firsts(m.frames, g, n)
           /\ NoScriptAbove(m.frames, n) /\ x.func \notin Scripts
           /\ (Quiet /\ Calm(m) => x.tries = 0) /\ e.frames = Append(g, x) /\ Sound(e)
           /\ e.mode = "run" /\ e.error = m.error /\ e.misled = m.misled /\ e.fault = "none"
<1> DEFINE a == m.frames  c == e.frames
<1>1. a \in Seq(Frame(program)) /\ Firsts(a, g, n) /\ NoScriptAbove(a, n)
  BY <1>a
<1>2. c = Above(g, x)
  BY <1>a DEF Above
<1>0. Sound(e) /\ e.mode = "run" /\ e.error = m.error /\ e.misled = m.misled /\ e.fault = "none"
  BY <1>a
<1>9. Quiet /\ Calm(m) => x.tries = 0
  BY <1>a
<1> HIDE DEF a, c
<1>3. Older(a, g) /\ ScriptsIn(g) = ScriptsIn(a) /\ (Tryless(a) => Tryless(g))
  BY <1>1, FirstsFacts
<1>4. /\ ScriptsIn(c) = ScriptsIn(g) /\ Len(c) = Len(g) + 1
      /\ \A i \in 1..Len(g) : c[i] = g[i]
      /\ Tryless(g) /\ x.tries = 0 => Tryless(c)
  <2>1. Grown(g, x, c)
    BY <1>2, AppendScripts
  <2> QED
    BY <1>a, <2>1 DEF Grown
<1>5. Older(a, c)
  BY <1>3, <1>4 DEF Older, ScriptsIn
<1>6. ScriptsIn(c) = ScriptsIn(a) /\ c # <<>>
  BY <1>3, <1>4
<1>7. m.error = FALSE => Exact(m, e)
  BY <1>0, <1>6 DEF Exact, a, c
<1>8. Quiet /\ Calm(m) => Calm(e)
  BY <1>0, <1>3, <1>4, <1>9 DEF Calm, a, c
<1> QED
  BY <1>0, <1>5, <1>7, <1>8 DEF Follows, a, c

\* what is called, below its arguments
Callee(m, n) == Peek(m, n + 1)

\* c can be called with the q values on top, and its frame begins at y
Callable(d, c, q, y, n) ==
  /\ c \in DOMAIN program.code /\ q = program.arity[c] /\ Len(d.frames) # FramesMax
  /\ y + q + 1 = n /\ y \in Int

\* A call of a function
LEMMA CallEnters ==
  ASSUME program \in Programs, NEW m, NEW f, NEW i, NEW b, NEW n, NEW q, NEW d, NEW c, NEW y,
         NEW x, NEW e
  PROVE  /\ Ready(m) /\ At(m, f, i, b, n) /\ program.code[f][i].op = "CALL" /\ q = Count(f, i)
         /\ d = Advance(m) /\ c = Callee(d, q) /\ Callable(d, c, q, y, n) /\ x = Begun(c, y, 0)
         /\ e = Entered(d, x)
         => Follows(m, e)
<1>a. HAVE /\ Ready(m) /\ At(m, f, i, b, n) /\ program.code[f][i].op = "CALL" /\ q = Count(f, i)
           /\ d = Advance(m) /\ c = Callee(d, q) /\ Callable(d, c, q, y, n) /\ x = Begun(c, y, 0)
           /\ e = Entered(d, x)
<1>0. /\ c \in DOMAIN program.code /\ q = program.arity[c] /\ Len(d.frames) # FramesMax
      /\ y + q + 1 = n /\ y \in Int
  BY <1>a DEF Callable
<1> DEFINE k == i + 1  H == Heights[program][f]
<1>1. /\ Fits(program, f, i) /\ m.stack \in Seq(Cells(program)) /\ b \in Nat /\ n \in Nat
      /\ Typed(program, m.frames) /\ Linked(program, m.frames) /\ NoScripts(m.stack, m.frames)
      /\ m.frames \in Seq(Frame(program)) /\ i \in Nat /\ i >= 1 /\ Len(m.frames) \in Nat
      /\ Len(m.frames) <= FramesMax /\ FramesMax \in Nat
      /\ H[i] \in Nat /\ n = b + H[i] /\ m.frames # <<>>
  BY <1>a, ReadyFacts DEF Ready
<1>2. n = Len(m.stack) /\ Top(m.frames).base = b
  BY <1>a DEF At
<1>3. k \in 1..Len(program.code[f]) /\ k = i + 1 /\ H[k] \in Nat \ {0}
  BY <1>a, NextFacts
<1>4. q \in Nat /\ q + 2 <= H[i] /\ H[k] = H[i] - q
  BY <1>a, <1>1 DEF Fits, Count
<1>5. Steps(m, d, k) /\ d.stack = m.stack
  BY <1>a, <1>3, Advancing
<1>6. /\ y \in Nat /\ b < y /\ n = y + (q + 1) /\ y + 1 = n - q /\ b < n
      /\ n - q \in 1..n /\ b + 1 < n - q /\ b + H[k] = y + 1
  <2> DEFINE h == H[i]  l == H[k]
  <2>1. /\ h \in Nat /\ n = b + h /\ b \in Nat /\ n \in Nat /\ q \in Nat /\ q + 2 <= h /\ l = h - q
        /\ y \in Int /\ y + q + 1 = n
    BY <1>0, <1>1, <1>4
  <2> HIDE DEF h, l
  <2>2. /\ y \in Nat /\ b < y /\ n = y + (q + 1) /\ y + 1 = n - q /\ b < n
        /\ n - q \in 1..n /\ b + 1 < n - q /\ b + l = y + 1
    BY <2>1
  <2> QED
    BY <2>2 DEF l
<1>7. c = m.stack[y + 1] /\ c \notin Scripts
  <2> DEFINE z == y + 1
  <2>1. z \in 1..Len(m.stack) /\ Top(m.frames).base + 1 < z /\ n - (q + 1) + 1 = z
    <3> DEFINE l == Len(m.stack)  o == Top(m.frames).base
    <3>1. /\ l = n /\ o = b /\ b \in Nat /\ n \in Nat /\ q \in Nat /\ y \in Nat
          /\ b < y /\ n = y + (q + 1)
      BY <1>1, <1>2, <1>4, <1>6
    <3> HIDE DEF l, o
    <3>2. z \in 1..l /\ o + 1 < z /\ n - (q + 1) + 1 = z
      BY <3>1
    <3> QED
      BY <3>2 DEF l, o
  <2>2. c = m.stack[n - (q + 1) + 1]
    BY <1>a, <1>2, <1>5 DEF Callee, Peek
  <2>3. c = m.stack[z]
    BY <2>1, <2>2
  <2> HIDE DEF z
  <2>4. c \notin Scripts
    <3> QED
      BY <1>1, <2>1, <2>3, NoScriptThere
  <2> QED
    BY <2>3, <2>4 DEF z
<1> HIDE DEF k, H
<1>8. Moved(program, m.stack, m.frames, d.stack, n)
  BY <1>1, <1>2, <1>5, <1>6, MovedUp
<1>9. Stepped(m, d, f, b, k)
  BY <1>a, <1>3, <1>5, <1>8, Stepping
<1>10. /\ IsMachine(d) /\ Turned(program, m.frames, d.frames, k)
       /\ d.mode = "run" /\ d.error = m.error /\ d.misled = m.misled /\ d.fault = "none"
  BY <1>5 DEF Steps
<1>11. /\ Typed(program, d.frames) /\ Linked(program, d.frames) /\ Owned(program, d.stack, d.frames)
       /\ NoScripts(d.stack, d.frames) /\ d.frames # <<>> /\ Len(d.frames) = Len(m.frames)
       /\ Firsts(m.frames, d.frames, Len(m.frames))
       /\ Level(program, Top(d.frames)) = y + 1 /\ d.stack \in Seq(Cells(program))
       /\ d.frames \in Seq(Frame(program))
  <2>1. Laid(program, d.stack, d.frames) /\ Alike(m, d)
    BY <1>9 DEF Stepped
  <2> QED
    BY <1>6, <1>9, <2>1 DEF Stepped, Laid, Alike, Typed, H
<1>12. Paused(program, Top(d.frames)) /\ Top(d.frames).base < y
  <2>1. /\ Top(d.frames).ip = k /\ Top(d.frames).func = f /\ Top(d.frames).base = b
    BY <1>a, <1>2, <1>10 DEF Turned, At
  <2>2. k > 1 /\ k - 1 = i
    <3>1. i \in Nat /\ i >= 1 /\ k = i + 1
      BY <1>1, <1>3
    <3> QED
      BY <3>1
  <2> QED
    BY <1>a, <1>6, <2>1, <2>2 DEF Paused
<1>13. Gap(c) = 1
  BY <1>7 DEF Gap
<1>14. x \in Frame(program) /\ x.func = c /\ x.tries = 0
  BY <1>a, <1>0, <1>6 DEF Frame, Begun
<1>15. IsMachine(e) /\ e.stack = d.stack /\ e.frames = Append(d.frames, x) /\ e.mode = "run"
       /\ e.error = m.error /\ e.misled = m.misled /\ e.fault = "none"
  BY <1>a, <1>10, EnteredFields
<1>16. Laid(program, e.stack, e.frames) /\ Settled(program, e.stack, e.frames)
  <2> DEFINE g == d.frames  st == d.stack  z == e.frames
  <2>1. /\ Typed(program, g) /\ Linked(program, g) /\ Owned(program, st, g) /\ g # <<>>
        /\ Top(g).base < y /\ y = Level(program, Top(g)) - Gap(c) /\ Paused(program, Top(g))
    BY <1>6, <1>11, <1>12, <1>13
  <2>2. Len(st) = y + (program.arity[c] + 1) /\ st[y + 1] = c
    BY <1>0, <1>2, <1>5, <1>6, <1>7
  <2>3. \A j \in 1..Len(st) : st[j] \in Scripts =>
          j = y + 1 \/ \E l \in 1..Len(g) : j = g[l].base + 1
    BY <1>11 DEF NoScripts
  <2>4. z = Above(g, x) /\ st \in Seq(Cells(program)) /\ y \in Nat /\ 0 \in Nat
    BY <1>6, <1>11, <1>15 DEF Above
  <2> HIDE DEF g, st, z
  <2>5. Offered(program, st, g, c, y)
    BY <2>1, <2>2, <2>3, <2>4 DEF Offered
  <2>6. Laid(program, st, z) /\ Settled(program, st, z)
    BY <1>a, <1>0, <2>4, <2>5, Entering
  <2> QED
    BY <1>15, <2>6 DEF st, z
<1>17. Sound(e)
  <2>1. Len(e.frames) = Len(m.frames) + 1
    BY <1>11, <1>15
  <2>2. Len(e.frames) <= FramesMax
    BY <1>0, <1>1, <1>11, <2>1
  <2> QED
    BY <1>15, <1>16, <2>2 DEF Sound
<1>18. NoScriptAbove(m.frames, Len(m.frames))
  BY <1>1 DEF NoScriptAbove
<1> QED
  BY <1>1, <1>7, <1>11, <1>14, <1>15, <1>17, <1>18, Entries

\* A value that is no function of the script, or is native, leaves the frames alone.
LEMMA CallOther ==
  ASSUME program \in Programs, NEW m, Ready(m), NEW f, NEW i, NEW b, NEW n, At(m, f, i, b, n),
         program.code[f][i].op \in {"CALL", "TAIL_CALL"}, NEW q, q = Count(f, i),
         NEW d, d = Advance(m), Callee(d, q) \notin DOMAIN program.code,
         NEW kept \in NameReads, NEW raises \in BOOLEAN
  PROVE  Follows(m, CallValue(d, q, kept, raises))
<1> DEFINE w == Exception(Drop(d, q + 1), kept)  z == Push(Drop(d, q + 1), Plain)
           v == Exception(d, kept)  c == Callee(d, q)  u == Call(d, c, q, kept)
           e == CallValue(d, q, kept, raises)
<1>1. Follows(m, w) /\ Follows(m, z) /\ Follows(m, v)
  BY CallSteps
<1>2. e = CASE c \in DOMAIN program.code -> u
            [] c = Native -> IF raises THEN w ELSE z
            [] OTHER -> v
  BY DEF CallValue, Callee
<1>3. c \notin DOMAIN program.code
  OBVIOUS
<1> HIDE DEF w, z, v, c, u, e
<1>4. e = w \/ e = z \/ e = v
  BY <1>2, <1>3
<1>5. Follows(m, e)
  BY <1>1, <1>4
<1> QED
  BY <1>5 DEF e

\* OP_CALL
LEMMA CallStep ==
  ASSUME program \in Programs, NEW m, NEW f, NEW i, NEW b, NEW n, NEW q, NEW kept \in NameReads,
         NEW raises \in BOOLEAN, NEW d, NEW e
  PROVE  /\ Ready(m) /\ At(m, f, i, b, n) /\ program.code[f][i].op = "CALL" /\ q = Count(f, i)
         /\ d = Advance(m) /\ e = CallValue(d, q, kept, raises)
         => Follows(m, e)
<1>a. HAVE /\ Ready(m) /\ At(m, f, i, b, n) /\ program.code[f][i].op = "CALL" /\ q = Count(f, i)
           /\ d = Advance(m) /\ e = CallValue(d, q, kept, raises)
<1> DEFINE c == Callee(d, q)  y == n - q - 1  x == Begun(c, y, 0)
<1>1. Steps(m, d, i + 1) /\ d.stack = m.stack
  <2> DEFINE k == i + 1
  <2>1. k = i + 1
    OBVIOUS
  <2> HIDE DEF k
  <2>2. Steps(m, d, k) /\ d.stack = m.stack
    BY <1>a, <2>1, Advancing
  <2> QED
    BY <2>1, <2>2
<1>2. n = Len(m.stack) /\ n \in Nat /\ Fits(program, f, i) /\ WellFormed(program)
  BY <1>a, ReadyFacts, FramesAssumption DEF At
<1>3. q \in Nat
  BY <1>a, <1>2 DEF Fits, Count
<1>4. y = Len(d.stack) - q - 1 /\ y + q + 1 = n /\ y \in Int
  BY <1>1, <1>2, <1>3
<1>5. CASE c \notin DOMAIN program.code
  BY <1>a, <1>4, <1>5, CallOther
<1>6. CASE c \in DOMAIN program.code
  <2> DEFINE u == Exception(d, kept)  w == Entered(d, x)
  <2>1. Follows(m, u)
    BY <1>a, CallSteps
  <2>2. c # Native
    BY <1>2, <1>6 DEF WellFormed
  <2>3. e = Call(d, c, q, kept)
    <3> DEFINE a == Call(d, c, q, kept)
    <3>1. e = CASE c \in DOMAIN program.code -> a
              [] c = Native -> IF raises THEN Exception(Drop(d, q + 1), kept)
                                         ELSE Push(Drop(d, q + 1), Plain)
              [] OTHER -> u
      BY <1>a DEF CallValue, Callee
    <3> HIDE DEF a, c, u
    <3>2. e = a
      BY <1>6, <2>2, <3>1
    <3> QED
      BY <3>2 DEF a
  <2>4. e = IF q # program.arity[c] \/ Len(d.frames) = FramesMax THEN u ELSE w
    BY <1>4, <2>3 DEF Call, Entered, Begun
  <2>5. CASE q # program.arity[c] \/ Len(d.frames) = FramesMax
    <3>1. e = u
      BY <2>4, <2>5
    <3> QED
      BY <2>1, <3>1
  <2>6. CASE q = program.arity[c] /\ Len(d.frames) # FramesMax
    <3>1. e = w
      BY <2>4, <2>6
    <3>2. c = Callee(d, q) /\ x = Begun(c, y, 0)
      OBVIOUS
    <3>3. e = Entered(d, x)
      BY <3>1
    <3>4. Callable(d, c, q, y, n)
      BY <1>4, <1>6, <2>6 DEF Callable
    <3> HIDE DEF c, y, x, u, w
    <3> QED
      BY <1>a, <3>2, <3>3, <3>4, CallEnters
  <2> QED
    BY <2>5, <2>6
<1> QED
  BY <1>5, <1>6

\* Two machines with the same frames are alike.
LEMMA AlikeFacts ==
  ASSUME NEW S, NEW m, m.frames \in Seq(S), NEW e, e.frames = m.frames, e.error = m.error, e.misled = m.misled
  PROVE  Alike(m, e)
<1> DEFINE g == m.frames
<1>1. Len(g) \in Nat
  OBVIOUS
<1>2. Firsts(g, g, Len(g))
  BY <1>1 DEF Firsts
<1> QED
  BY <1>2 DEF Alike

\* The ranges around an instruction are finitely many.
LEMMA InsideFacts ==
  ASSUME program \in Programs, NEW y, y.func \in DOMAIN program.code
  PROVE  Cardinality(Inside(y)) \in Nat /\ (Inside(y) = {} => Cardinality(Inside(y)) = 0)
<1> DEFINE D == DOMAIN program.except[y.func]  l == Len(program.except[y.func])
<1>1. l \in Nat /\ D = 1..l
  BY FramesAssumption DEF WellFormed
<1>2. Inside(y) \subseteq D
  BY DEF Inside
<1> HIDE DEF D, l
<1>3. IsFiniteSet(D)
  <2>1. 1 \in Int /\ l \in Int
    BY <1>1
  <2>2. IsFiniteSet(1..l)
    BY <2>1, FS_Interval
  <2> QED
    BY <1>1, <2>2
<1>4. IsFiniteSet(Inside(y))
  BY <1>2, <1>3, FS_Subset
<1> QED
  BY <1>4, FS_CardinalityType, FS_EmptySet

\* The last elements of a sequence
LEMMA SuffixFacts ==
  ASSUME NEW S, NEW s \in Seq(S), NEW a \in 1..Len(s), NEW w, w = SubSeq(s, a, Len(s)),
         NEW l, l = Len(s) - a + 1
  PROVE  /\ w \in Seq(S) /\ Len(w) = l /\ l \in Nat \ {0} /\ \A j \in 1..l : w[j] = s[a + j - 1]
<1> DEFINE n == Len(s)
<1>1. n \in Nat /\ a \in 1..n /\ l = n - a + 1
  OBVIOUS
<1>2. l \in Nat \ {0}
  BY <1>1
<1>3. Len(w) = l /\ \A j \in 1..l : w[j] = s[a + j - 1]
  BY <1>1, <1>2
<1>4. w \in Seq(S)
  BY <1>1
<1> QED
  BY <1>2, <1>3, <1>4

\* the values above b make room for the last q + 1
Spliced(st, b, q) == SubSeq(st, 1, b) \o SubSeq(st, Len(st) - q, Len(st))

\* the frame that takes the place of y
Heir(y, c) == Begun(c, y.base, y.tries + Cardinality(Inside(y)))

\* The fields of a machine whose top frame has been given to another function
LEMMA ReplacedFields ==
  ASSUME NEW d, IsMachine(d), NEW q, NEW e, e = Replaced(d, q), NEW y, y = Top(d.frames),
         NEW x, x = Heir(y, Callee(d, q))
  PROVE  /\ IsMachine(e) /\ e.mode = d.mode /\ e.error = d.error /\ e.misled = d.misled /\ e.fault = d.fault
         /\ e.stack = Spliced(d.stack, y.base, q)
         /\ e.frames = Append(SubSeq(d.frames, 1, Len(d.frames) - 1), x)
<1> DEFINE u == SubSeq(d.stack, 1, y.base) \o SubSeq(d.stack, Len(d.stack) - q, Len(d.stack))
           g == Append(SubSeq(d.frames, 1, Len(d.frames) - 1), x)
<1>1. e = [d EXCEPT !.stack = u, !.frames = g]
  BY DEF Replaced, Top, Last, Front, Callee, Heir, Begun
<1> HIDE DEF u, g
<1>2. /\ IsMachine(e) /\ e.mode = d.mode /\ e.error = d.error /\ e.misled = d.misled /\ e.fault = d.fault
      /\ e.stack = u /\ e.frames = g
  BY <1>1 DEF IsMachine
<1> QED
  BY <1>2 DEF u, g, Spliced

\* v has kept the first b slots, and the callee and its arguments above them
Kept(st, v, b, q) ==
  /\ v \in Seq(Cells(program)) /\ Len(v) = b + (q + 1)
  /\ \A j \in 1..b : v[j] = st[j]
  /\ v[b + 1] = st[Len(st) - q]
  /\ \A j \in 1..Len(v) : b < j => v[j] \notin Scripts

\* The values of the caller are replaced by the callee and its arguments.
LEMMA ReplacedStack ==
  ASSUME program \in Programs, NEW st \in Seq(Cells(program)), NEW fr, NEW b \in Nat, NEW n,
         NEW q \in Nat, NEW v
  PROVE  /\ Typed(program, fr) /\ Linked(program, fr) /\ fr # <<>> /\ NoScripts(st, fr)
         /\ b = Top(fr).base /\ n = Len(st) /\ b + 1 < n - q /\ v = Spliced(st, b, q)
         => Kept(st, v, b, q)
<1>a. HAVE /\ Typed(program, fr) /\ Linked(program, fr) /\ fr # <<>> /\ NoScripts(st, fr)
           /\ b = Top(fr).base /\ n = Len(st) /\ b + 1 < n - q /\ v = Spliced(st, b, q)
<1> DEFINE u == SubSeq(st, 1, b)  w == SubSeq(st, n - q, n)  a == n - q  l == q + 1
<1>1. n \in Nat /\ a \in 1..n /\ l \in Nat /\ l = n - a + 1 /\ b \in 0..n /\ b + 1 < a
  BY <1>a, SMT
<1>2. u \in Seq(Cells(program)) /\ Len(u) = b /\ \A j \in 1..b : u[j] = st[j]
  BY <1>a, <1>1, PrefixFacts
<1>3. /\ w \in Seq(Cells(program)) /\ Len(w) = l /\ \A j \in 1..l : w[j] = st[a + j - 1]
  <2>1. w = SubSeq(st, a, Len(st)) /\ a \in 1..Len(st) /\ l = Len(st) - a + 1
    BY <1>a, <1>1
  <2> HIDE DEF w, a, l
  <2> QED
    BY <2>1, SuffixFacts
<1>4. v = u \o w
  BY <1>a DEF Spliced
<1> HIDE DEF u, w, a, l
<1>5. /\ u \o w \in Seq(Cells(program)) /\ Len(u \o w) = b + l /\ \A j \in 1..b : (u \o w)[j] = u[j]
      /\ \A j \in (b + 1)..(b + l) : (u \o w)[j] = w[j - b]
  <2>1. /\ u \in Seq(Cells(program)) /\ w \in Seq(Cells(program)) /\ b \in Nat /\ l \in Nat
        /\ b = Len(u) /\ l = Len(w)
    BY <1>1, <1>2, <1>3
  <2>2. /\ u \o w \in Seq(Cells(program)) /\ Len(u \o w) = b + l /\ \A j \in 1..b : (u \o w)[j] = u[j]
        /\ \A j \in (b + 1)..(b + l) : (u \o w)[j] = w[j - b]
    BY <2>1, JoinFacts
  <2> QED
    BY <2>2
<1>6. /\ v \in Seq(Cells(program)) /\ Len(v) = b + l /\ \A j \in 1..b : v[j] = st[j]
      /\ \A j \in (b + 1)..(b + l) : v[j] = w[j - b]
  BY <1>2, <1>4, <1>5
<1>7. ASSUME NEW j \in 1..l
      PROVE  w[j] = st[a + j - 1] /\ w[j] \notin Scripts
  <2>1. a + j - 1 \in 1..n /\ b + 1 < a + j - 1
    BY <1>1
  <2> DEFINE z == a + j - 1
  <2>2. z \in 1..Len(st) /\ Top(fr).base + 1 < z /\ w[j] = st[z]
    BY <1>a, <1>3, <2>1
  <2> HIDE DEF z
  <2>3. st[z] \notin Scripts
    BY <1>a, <2>2, NoScriptThere
  <2> QED
    BY <1>3, <2>2, <2>3
<1>8. v[b + 1] = st[a]
  <2>1. b + 1 \in (b + 1)..(b + l) /\ (b + 1) - b = 1 /\ 1 \in 1..l /\ a + 1 - 1 = a
    BY <1>1 DEF l
  <2>2. v[b + 1] = w[1] /\ w[1] = st[a + 1 - 1]
    BY <1>3, <1>6, <2>1
  <2> QED
    BY <2>1, <2>2
<1>9. ASSUME NEW j \in 1..Len(v), b < j
      PROVE  v[j] \notin Scripts
  <2>1. j \in (b + 1)..(b + l) /\ j - b \in 1..l
    <3> DEFINE z == Len(v)
    <3>1. z = b + l /\ l \in Nat /\ b \in Nat /\ j \in 1..z /\ b < j
      BY <1>1, <1>6, <1>9
    <3> HIDE DEF z
    <3> QED
      BY <3>1
  <2> QED
    BY <1>6, <1>7, <2>1
<1> QED
  BY <1>a, <1>6, <1>8, <1>9 DEF a, l, Kept

\* A tail call gives the frame of the caller to the callee.
LEMMA ReplacedStep ==
  ASSUME program \in Programs, NEW m, NEW f, NEW i, NEW b, NEW n, NEW q, NEW d, NEW e
  PROVE  /\ Ready(m) /\ At(m, f, i, b, n) /\ program.code[f][i].op = "TAIL_CALL" /\ q = Count(f, i)
         /\ d = Advance(m) /\ Callee(d, q) \in DOMAIN program.code
         /\ q = program.arity[Callee(d, q)] /\ e = Replaced(d, q)
         => Follows(m, e)
<1>a. HAVE /\ Ready(m) /\ At(m, f, i, b, n) /\ program.code[f][i].op = "TAIL_CALL"
           /\ q = Count(f, i) /\ d = Advance(m) /\ Callee(d, q) \in DOMAIN program.code
           /\ q = program.arity[Callee(d, q)] /\ e = Replaced(d, q)
<1> DEFINE k == i + 1  H == Heights[program][f]  c == Callee(d, q)  y == Top(d.frames)
           t == y.tries + Cardinality(Inside(y))
           x == Begun(c, b, t)
           l == Len(m.frames) - 1  g == SubSeq(d.frames, 1, l)  u == SubSeq(d.stack, 1, b)
           v == e.stack
<1>1. /\ Fits(program, f, i) /\ m.stack \in Seq(Cells(program)) /\ b \in Nat /\ n \in Nat
      /\ Typed(program, m.frames) /\ Linked(program, m.frames) /\ NoScripts(m.stack, m.frames)
      /\ m.frames \in Seq(Frame(program)) /\ i \in Nat /\ i \in 1..Len(program.code[f])
      /\ Len(m.frames) \in Nat /\ Len(m.frames) \in 1..Len(m.frames)
      /\ Len(m.frames) <= FramesMax /\ f \in DOMAIN program.code
      /\ H[i] \in Nat /\ n = b + H[i] /\ m.frames # <<>>
  BY <1>a, ReadyFacts DEF Ready
<1>2. n = Len(m.stack) /\ Top(m.frames).base = b /\ Top(m.frames).func = f
  BY <1>a DEF At
<1>3. k \in 1..Len(program.code[f]) /\ k = i + 1 /\ H[k] \in Nat \ {0}
  BY <1>a, NextFacts
<1>4. q \in Nat /\ q + 2 <= H[i] /\ f \notin Scripts
  BY <1>a, <1>1 DEF Fits, Count
<1>5. Steps(m, d, k) /\ d.stack = m.stack
  <2> HIDE DEF k
  <2> QED
    BY <1>a, <1>3, Advancing
<1>6. /\ b < n /\ b + 1 < n - q /\ n - (q + 1) + 1 = n - q /\ n - q \in 1..n
  <2> DEFINE h == H[i]
  <2>1. /\ h \in Nat /\ n = b + h /\ b \in Nat /\ n \in Nat /\ q \in Nat /\ q + 2 <= h
    BY <1>1, <1>4
  <2> HIDE DEF h
  <2> QED
    BY <2>1
<1>7. c = m.stack[n - q]
  BY <1>2, <1>5, <1>6 DEF Callee, Peek
<1>8. Moved(program, m.stack, m.frames, d.stack, n)
  BY <1>1, <1>2, <1>5, <1>6, MovedUp
<1> HIDE DEF k, H, c, y, t, x, l, g, u, v
<1>9. Stepped(m, d, f, b, k)
  BY <1>a, <1>3, <1>5, <1>8, Stepping
<1>10. /\ IsMachine(d) /\ Turned(program, m.frames, d.frames, k)
       /\ d.mode = "run" /\ d.error = m.error /\ d.misled = m.misled /\ d.fault = "none"
  BY <1>5 DEF Steps
<1>11. /\ Laid(program, d.stack, d.frames) /\ Typed(program, d.frames) /\ Linked(program, d.frames)
       /\ NoScripts(d.stack, d.frames) /\ d.frames # <<>> /\ Len(d.frames) = Len(m.frames)
       /\ d.stack \in Seq(Cells(program)) /\ d.frames \in Seq(Frame(program))
       /\ Firsts(m.frames, d.frames, Len(m.frames))
  <2>1. Laid(program, d.stack, d.frames) /\ Alike(m, d)
    BY <1>9 DEF Stepped
  <2> QED
    BY <1>9, <2>1 DEF Stepped, Laid, Alike, Typed
<1>12. y.ip = k /\ y.func = f /\ y.base = b /\ y.tries = Top(m.frames).tries
  BY <1>2, <1>10 DEF Turned, y
<1>13. /\ IsMachine(e) /\ e.mode = "run" /\ e.error = m.error /\ e.misled = m.misled /\ e.fault = "none"
       /\ v = Spliced(d.stack, b, q)
       /\ e.frames = Append(g, x)
  <2>1. y = Top(d.frames) /\ x = Heir(y, Callee(d, q))
    BY <1>12 DEF x, y, c, t, Heir
  <2>2. Len(d.stack) = n /\ Len(d.frames) - 1 = l
    BY <1>2, <1>5, <1>11 DEF l
  <2>3. /\ IsMachine(e) /\ e.mode = d.mode /\ e.error = d.error /\ e.misled = d.misled /\ e.fault = d.fault
        /\ e.stack = Spliced(d.stack, y.base, q)
        /\ e.frames = Append(SubSeq(d.frames, 1, Len(d.frames) - 1), x)
    BY <1>a, <1>10, <2>1, ReplacedFields
  <2> QED
    BY <1>10, <1>12, <2>2, <2>3 DEF v, g
<1>14. /\ v \in Seq(Cells(program)) /\ Len(v) = b + (q + 1) /\ \A j \in 1..b : v[j] = m.stack[j]
       /\ v[b + 1] = c /\ \A j \in 1..Len(v) : b < j => v[j] \notin Scripts
  <2>1. v = Spliced(m.stack, b, q)
    BY <1>5, <1>13
  <2> DEFINE st == m.stack  fr == m.frames
  <2>2. /\ st \in Seq(Cells(program)) /\ Typed(program, fr) /\ Linked(program, fr) /\ fr # <<>>
        /\ NoScripts(st, fr) /\ b \in Nat /\ b = Top(fr).base /\ n = Len(st) /\ q \in Nat
        /\ b + 1 < n - q /\ v = Spliced(st, b, q)
    BY <1>1, <1>2, <1>4, <1>6, <2>1
  <2> HIDE DEF st, fr
  <2>3. Kept(st, v, b, q)
    BY <2>2, ReplacedStack
  <2> QED
    BY <1>7, <2>2, <2>3 DEF Kept, st
<1>15. u \in Seq(Cells(program)) /\ Len(u) = b /\ \A j \in 1..b : u[j] = d.stack[j] /\ v[j] = u[j]
  <2>1. b \in 0..Len(d.stack)
    BY <1>1, <1>2, <1>5, <1>6
  <2>2. u \in Seq(Cells(program)) /\ Len(u) = b /\ \A j \in 1..b : u[j] = d.stack[j]
    BY <1>11, <2>1, PrefixFacts DEF u
  <2> QED
    BY <1>5, <1>14, <2>2
<1>16. g \in Seq(Frame(program)) /\ Len(g) = l /\ l \in 0..Len(d.frames) /\ \A j \in 1..l : g[j] = d.frames[j]
  <2>1. l \in 0..Len(d.frames)
    BY <1>1, <1>11 DEF l
  <2> QED
    BY <1>11, <2>1, PrefixFacts DEF g
<1>17. /\ Typed(program, g) /\ Linked(program, g) /\ Owned(program, u, g) /\ NoScripts(u, g)
       /\ g = <<>> => b = 0 /\ f = Main
       /\ g # <<>> => /\ b = Level(program, Top(g)) - Gap(f) /\ Paused(program, Top(g))
                      /\ Level(program, Top(g)) \in Nat /\ Top(g).base < b
  <2>1. b = Top(d.frames).base /\ f = Top(d.frames).func
    BY <1>12 DEF y
  <2>2. Len(g) = Len(d.frames) - 1 /\ \A j \in 1..(Len(d.frames) - 1) : g[j] = d.frames[j]
    BY <1>11, <1>16 DEF l
  <2>3. Lowered(d.frames, g) /\ Lower(d.stack, u, b)
    BY <1>15, <2>2 DEF Lowered, Lower
  <2> QED
    BY <1>11, <1>15, <1>16, <2>1, <2>3, Returning
<1>18. g # <<>>
  BY <1>4, <1>17, FramesAssumption
<1>19. c \notin Scripts /\ Gap(c) = 1 /\ Gap(f) = 1
  <2>1. b + 1 \in 1..Len(v) /\ b < b + 1
    BY <1>1, <1>4, <1>14
  <2> QED
    BY <1>4, <1>14, <2>1 DEF Gap
<1>20. t \in Nat /\ (Inside(y) = {} => t = y.tries)
  <2>1. y.tries \in Nat /\ y.func \in DOMAIN program.code
    BY <1>1, <1>12, InstructionFacts
  <2>2. Cardinality(Inside(y)) \in Nat /\ (Inside(y) = {} => Cardinality(Inside(y)) = 0)
    BY <2>1, InsideFacts
  <2> QED
    BY <2>1, <2>2 DEF t
<1>21. c \in DOMAIN program.code /\ x \in Frame(program) /\ x.func = c /\ x.tries = t
  <2>1. c \in DOMAIN program.code
    BY <1>a DEF c
  <2> QED
    BY <1>1, <1>20, <2>1 DEF x, Frame, Begun
<1>22. Owned(program, v, g)
  <2>1. \A j \in 1..Len(g) : g[j].base < b /\ g[j].base \in Nat /\ u[g[j].base + 1] = g[j].func
    BY <1>15, <1>17, FrameFacts DEF Owned
  <2>2. \A j \in 1..Len(g) : g[j].base + 1 \in 1..b
    BY <1>1, <2>1
  <2>3. \A j \in 1..Len(g) : g[j].base < Len(v)
    <3> DEFINE h == Len(v)
    <3>1. h \in Nat /\ b \in Nat /\ b <= h
      BY <1>1, <1>4, <1>14
    <3> HIDE DEF h
    <3>2. \A j \in 1..Len(g) : g[j].base < h
      BY <2>1, <3>1
    <3> QED
      BY <3>2 DEF h
  <2> QED
    BY <1>14, <1>15, <2>1, <2>2, <2>3 DEF Owned
<1>23. \A j \in 1..Len(v) : v[j] \in Scripts => \E z \in 1..Len(g) : j = g[z].base + 1
  <2> SUFFICES ASSUME NEW j \in 1..Len(v), v[j] \in Scripts
               PROVE  \E z \in 1..Len(g) : j = g[z].base + 1
    OBVIOUS
  <2>1. j \in 1..b
    BY <1>1, <1>14
  <2> QED
    BY <1>15, <1>17, <2>1 DEF NoScripts
<1>24. Laid(program, v, e.frames) /\ Settled(program, v, e.frames)
  <2> DEFINE z == e.frames
  <2>1. z = Above(g, x)
    BY <1>13 DEF Above
  <2>2. q = program.arity[c] /\ Len(v) = b + (program.arity[c] + 1)
    BY <1>a, <1>14 DEF c
  <2>3. Top(g).base < b /\ b = Level(program, Top(g)) - Gap(c) /\ Paused(program, Top(g))
    BY <1>17, <1>18, <1>19
  <2> HIDE DEF z
  <2>4. Offered(program, v, g, c, b)
    BY <1>14, <1>17, <1>18, <1>22, <1>23, <2>2, <2>3 DEF Offered
  <2>5. Laid(program, v, z) /\ Settled(program, v, z)
    BY <1>1, <1>20, <1>21, <2>1, <2>4, Entering DEF x
  <2> QED
    BY <2>5 DEF z
<1>25. Sound(e)
  <2>1. Len(e.frames) = l + 1
    BY <1>13, <1>16
  <2>2. Len(e.frames) <= FramesMax
    BY <1>1, <2>1 DEF l
  <2> QED
    BY <1>13, <1>24, <2>2 DEF Sound, v
<1>26. Firsts(m.frames, g, l)
  <2>1. l \in 0..Len(m.frames) /\ \A j \in 1..l : j \in 1..Len(m.frames)
    BY <1>1, <1>11, <1>16
  <2>2. \A j \in 1..Len(m.frames) : d.frames[j].func = m.frames[j].func /\ d.frames[j].tries = m.frames[j].tries
    BY <1>11 DEF Firsts
  <2> QED
    BY <1>16, <2>1, <2>2 DEF Firsts
<1>27. NoScriptAbove(m.frames, l)
  <2>1. \A j \in 1..Len(m.frames) : l < j => j = Len(m.frames)
    BY <1>1 DEF l
  <2> QED
    BY <1>2, <1>4, <2>1 DEF NoScriptAbove, Top
<1>28. Quiet /\ Calm(m) => x.tries = 0
  <2> SUFFICES ASSUME Quiet, Calm(m)
               PROVE  t = 0
    BY <1>21
  <2>1. y.tries = 0
    BY <1>1, <1>12 DEF Calm, Tryless, Top
  <2>2. TailCallsOutsideTries(program)
    BY DEF Quiet
  <2>3. Inside(y) = {}
    <3> SUFFICES ASSUME NEW j \in DOMAIN program.except[y.func],
                        program.except[y.func][j].start < y.ip, y.ip <= program.except[y.func][j].end
                 PROVE  FALSE
      BY DEF Inside
    <3> DEFINE r == program.except[f][j]
    <3>1. r.start < k /\ k <= r.end /\ j \in DOMAIN program.except[f]
      BY <1>12
    <3>2. r.start \in Nat /\ r.end \in Nat
      <4>1. Guards(program, f, r)
        BY <1>1, <3>1, FramesAssumption DEF WellFormed
      <4> QED
        BY <4>1 DEF Guards
    <3>3. i < r.start \/ r.end <= i
      BY <1>a, <1>1, <2>2, <3>1 DEF TailCallsOutsideTries
    <3> HIDE DEF r
    <3> QED
      BY <1>1, <1>3, <3>1, <3>2, <3>3
  <2> QED
    BY <1>20, <2>1, <2>3
<1> QED
  BY <1>1, <1>13, <1>16, <1>19, <1>21, <1>25, <1>26, <1>27, <1>28, Entries

\* What is left of what is left
LEMMA OlderFacts ==
  ASSUME NEW a, NEW b, NEW c, Older(a, b), Older(b, c)
  PROVE  Older(a, c)
  BY DEF Older

\* run() that goes on although it has returned
Again(m) == [m EXCEPT !.mode = "run"]

\* It is the same but for its mode.
LEMMA AgainFields ==
  ASSUME NEW m, IsMachine(m), NEW e, e = Again(m)
  PROVE  /\ IsMachine(e) /\ e.stack = m.stack /\ e.frames = m.frames /\ e.mode = "run"
         /\ e.error = m.error /\ e.misled = m.misled /\ e.fault = m.fault
  BY DEF IsMachine, Again

\* No script is above a top frame that has its height.
LEMMA NoneAbove ==
  ASSUME NEW p \in Programs, NEW st, NEW fr, Laid(p, st, fr), Settled(p, st, fr)
  PROVE  NoScripts(st, fr)
<1>1. Typed(p, fr) /\ Scriptless(p, st, fr) /\ Len(st) \in Nat /\ Len(fr) \in Nat
  BY DEF Laid, Owned, Typed
<1>2. CASE fr = <<>>
  BY <1>2 DEF Settled, NoScripts
<1>3. CASE fr # <<>>
  <2>1. Len(fr) \in 1..Len(fr)
    BY <1>1, <1>3 DEF Typed
  <2>2. Level(p, Top(fr)) \in Nat /\ Len(st) = Level(p, Top(fr))
    BY <1>1, <1>3, <2>1, FrameFacts DEF Top, Settled
  <2>3. \A j \in 1..Len(st) : ~(Level(p, Top(fr)) < j)
    BY <2>2
  <2> QED
    BY <1>1, <2>3 DEF Scriptless, NoScripts
<1> QED
  BY <1>2, <1>3

\* A second error, where the first has led
LEMMA SecondError ==
  ASSUME program \in Programs, NEW m, NEW d, Follows(m, d), d.fault = "none", ~Strict,
         NEW c, c = Again(d), NEW kept \in NameReads, NEW e, e = Exception(c, kept)
  PROVE  Follows(m, e)
<1>1. /\ IsMachine(d) /\ Laid(program, d.stack, d.frames) /\ Older(m.frames, d.frames)
      /\ Len(d.frames) <= FramesMax /\ Settled(program, d.stack, d.frames)
  BY DEF Follows, Sound
<1>2. /\ IsMachine(c) /\ c.stack = d.stack /\ c.frames = d.frames /\ c.mode = "run"
      /\ c.error = d.error /\ c.misled = d.misled /\ c.fault = "none"
  BY <1>1, AgainFields
<1>3. ~Quiet
  BY DEF Quiet
<1>4. CASE c.frames = <<>>
  <2>1. Ends(c, e, kept)
    BY <1>2, ExceptionFields
  <2>2. IsMachine(e) /\ Stays(c, e) /\ e.fault = "no frame"
    BY <1>4, <2>1 DEF Ends
  <2>3. e.stack = c.stack /\ e.frames = c.frames /\ e.mode = "run"
    BY <1>2, <2>2 DEF Stays
  <2>4. Sound(e) /\ Older(m.frames, e.frames)
    BY <1>1, <1>2, <2>2, <2>3 DEF Sound
  <2> QED
    BY <1>3, <2>3, <2>4 DEF Follows
<1>5. CASE c.frames # <<>>
  <2>1. c.frames \in Seq(Frame(program)) /\ Laid(program, c.stack, c.frames)
    BY <1>1, <1>2 DEF Laid, Typed
  <2>2. Alike(c, c)
    BY <2>1, AlikeFacts
  <2>a. NoScripts(c.stack, c.frames)
    BY <1>1, <1>2, <1>5, NoneAbove
  <2>3. Follows(c, e)
    BY <1>1, <1>2, <1>3, <1>5, <2>1, <2>2, <2>a, ExceptionFollows
  <2>4. /\ Sound(e) /\ Older(c.frames, e.frames) /\ e.mode \in {"run", "done"}
        /\ e.mode = "done" => \E i \in ScriptsIn(c.frames) : i \notin ScriptsIn(e.frames)
    BY <2>3 DEF Follows
  <2>5. Older(m.frames, e.frames)
    BY <1>1, <1>2, <2>4, OlderFacts
  <2>6. e.mode = "done" => \E i \in ScriptsIn(m.frames) : i \notin ScriptsIn(e.frames)
    BY <1>1, <1>2, <2>4 DEF Older
  <2> QED
    BY <1>3, <2>4, <2>5, <2>6 DEF Follows
<1> QED
  BY <1>4, <1>5

\* OP_TAIL_CALL
Tails(m, n, kept, raises) ==
  LET callee == Peek(m, n + 1)
  IN IF callee \notin DOMAIN program.code THEN CallValue(m, n, kept, raises)
     ELSE IF n < program.arity[callee] THEN
       LET first == Exception(m, kept)
       IN IF first.fault # "none" THEN first
          ELSE Exception([first EXCEPT !.mode = "run"], kept)
     ELSE IF n > program.arity[callee] THEN Exception(m, kept)
     ELSE Replaced(m, n)

\* ... follows what it finds.
LEMMA TailStep ==
  ASSUME program \in Programs, NEW m, Ready(m), NEW f, NEW i, NEW b, NEW n, At(m, f, i, b, n),
         program.code[f][i].op = "TAIL_CALL", NEW q, q = Count(f, i),
         NEW kept \in NameReads, NEW raises \in BOOLEAN, NEW d, d = Advance(m),
         NEW e, e = Tails(d, q, kept, raises)
  PROVE  Follows(m, e)
<1> DEFINE c == Callee(d, q)  v == CallValue(d, q, kept, raises)  first == Exception(d, kept)
           w == Exception(Again(first), kept)  u == Replaced(d, q)
<1>1. f \in DOMAIN program.code /\ Fits(program, f, i) /\ i \in 1..Len(program.code[f])
  BY ReadyFacts
<1>2. q \in Nat
  BY <1>1 DEF Fits, Count
<1>3. Follows(m, first)
  BY CallSteps
<1>4. e = IF c \notin DOMAIN program.code THEN v
          ELSE IF q < program.arity[c] THEN IF first.fault # "none" THEN first ELSE w
          ELSE IF q > program.arity[c] THEN first
          ELSE u
  BY DEF Tails, Again, Callee
<1>5. CASE c \notin DOMAIN program.code
  <2>1. Follows(m, v)
    BY <1>5, CallOther
  <2> HIDE DEF c, v, first, w, u
  <2>2. e = v
    BY <1>4, <1>5
  <2> QED
    BY <2>1, <2>2
<1>6. ASSUME c \in DOMAIN program.code, q < program.arity[c]
      PROVE  Follows(m, e)
  <2>1. ~Strict
    <3>1. program.arity[c] \in Nat
      BY <1>6, FramesAssumption DEF WellFormed
    <3> DEFINE a == program.arity[c]  x == program.code[f][i]
    <3>2. ~(a <= q)
      <4>1. a \in Nat /\ q < a
        BY <1>6, <3>1
      <4> HIDE DEF a
      <4> QED
        BY <1>2, <4>1
    <3>3. x.op = "TAIL_CALL" /\ q = x.n
      BY DEF Count
    <3>4. ~TailCallsPassEnough(program)
      <4> SUFFICES ASSUME TailCallsPassEnough(program)
                   PROVE  FALSE
        OBVIOUS
      <4>1. x.op = "TAIL_CALL" => a <= x.n
        BY <1>1, <1>6 DEF TailCallsPassEnough
      <4> QED
        BY <3>2, <3>3, <4>1
    <3> QED
      BY <3>4 DEF Strict
  <2>2. CASE first.fault # "none"
    <3> HIDE DEF c, v, first, w, u
    <3>1. e = first
      BY <1>4, <1>6, <2>2
    <3> QED
      BY <1>3, <3>1
  <2>3. CASE first.fault = "none"
    <3> DEFINE a == Again(first)
    <3>1. a = Again(first)
      OBVIOUS
    <3>2. e = w
      <4> HIDE DEF c, v, first, w, u
      <4> QED
        BY <1>4, <1>6, <2>3
    <3>3. e = Exception(a, kept)
      BY <3>2
    <3> HIDE DEF a, first, c, w, v, u
    <3> QED
      BY <1>3, <2>1, <2>3, <3>1, <3>3, SecondError
  <2> QED
    BY <2>2, <2>3
<1>7. ASSUME c \in DOMAIN program.code, q = program.arity[c]
      PROVE  Follows(m, e)
  <2>1. ~(q < program.arity[c]) /\ ~(q > program.arity[c])
    BY <1>2, <1>7
  <2>2. e = u
    <3> HIDE DEF c, v, first, w, u
    <3> QED
      BY <1>4, <1>7, <2>1
  <2>3. e = Replaced(d, q)
    BY <2>2
  <2> QED
    BY <1>7, <2>3, ReplacedStep
<1>8. ASSUME c \in DOMAIN program.code, q > program.arity[c]
      PROVE  Follows(m, e)
  <2>1. program.arity[c] \in Nat
    BY <1>8, FramesAssumption DEF WellFormed
  <2>2. ~(q < program.arity[c])
    BY <1>2, <1>8, <2>1
  <2> HIDE DEF c, v, first, w, u
  <2>3. e = first
    BY <1>4, <1>8, <2>2
  <2> QED
    BY <1>3, <2>3
<1>9. ASSUME c \in DOMAIN program.code
      PROVE  q < program.arity[c] \/ q = program.arity[c] \/ q > program.arity[c]
  <2>1. program.arity[c] \in Nat
    BY <1>9, FramesAssumption DEF WellFormed
  <2> QED
    BY <1>2, <2>1
<1> QED
  BY <1>5, <1>6, <1>7, <1>8, <1>9

\* The fields of a machine whose top frame y has gone
Gone(d, e, y, result) ==
  /\ IsMachine(e) /\ e.error = d.error /\ e.misled = d.misled /\ e.fault = d.fault
  /\ e.frames = SubSeq(d.frames, 1, Len(d.frames) - 1)
  /\ Len(d.frames) = 1 \/ y.func \in Scripts =>
       e.mode = "done" /\ e.stack = SubSeq(d.stack, 1, y.base)
  /\ ~(Len(d.frames) = 1 \/ y.func \in Scripts) =>
       e.mode = d.mode /\ e.stack = Append(SubSeq(d.stack, 1, y.base), result)

\* OP_VOID and OP_RETURN end run(), or leave a result.
LEMMA LeaveFields ==
  ASSUME NEW d, IsMachine(d), NEW result, NEW e, e = Leave(d, result), NEW y, y = Top(d.frames)
  PROVE  Gone(d, e, y, result)
<1> DEFINE u == SubSeq(d.stack, 1, y.base)  g == SubSeq(d.frames, 1, Len(d.frames) - 1)
           v == Append(u, result)
           a == [d EXCEPT !.frames = g]  c == [a EXCEPT !.stack = u]
<1>1. c.stack = u
  <2> HIDE DEF g, u
  <2> QED
    BY DEF IsMachine
<1>2. e = IF Len(d.frames) = 1 \/ y.func \in Scripts THEN [c EXCEPT !.mode = "done"]
          ELSE [c EXCEPT !.stack = v]
  <2>1. Last(d.frames) = y /\ Front(d.frames) = g /\ a.stack = d.stack
    <3> HIDE DEF g
    <3>1. a.stack = d.stack
      BY DEF IsMachine
    <3> QED
      BY <3>1 DEF Last, Front, Top, g
  <2>2. Leave(d, result) = IF Len(d.frames) = 1 \/ y.func \in Scripts THEN [c EXCEPT !.mode = "done"]
                           ELSE Push(c, result)
    BY <2>1 DEF Leave, Cut
  <2> QED
    BY <1>1, <2>2 DEF Push
<1> HIDE DEF u, g, v
<1>3. /\ IsMachine(e) /\ e.error = d.error /\ e.misled = d.misled /\ e.fault = d.fault
      /\ e.frames = g
  BY <1>2 DEF IsMachine
<1>4. ASSUME Len(d.frames) = 1 \/ y.func \in Scripts
      PROVE  e.mode = "done" /\ e.stack = u
  BY <1>2, <1>4 DEF IsMachine
<1>5. ASSUME ~(Len(d.frames) = 1 \/ y.func \in Scripts)
      PROVE  e.mode = d.mode /\ e.stack = v
  BY <1>2, <1>5 DEF IsMachine
<1> QED
  BY <1>3, <1>4, <1>5 DEF u, v, g, Gone

\* The frame of a function goes.
LEMMA LeaveStep ==
  ASSUME program \in Programs, NEW m, Ready(m), NEW f, NEW i, NEW b, NEW n, At(m, f, i, b, n),
         NEW k, NEW d, Steps(m, d, k), d.stack \in Seq(Cells(program)), b <= Len(d.stack),
         \A j \in 1..b : d.stack[j] = m.stack[j],
         NEW result, f \notin Scripts => result \in Cells(program) /\ result \notin Scripts,
         NEW e, e = Leave(d, result)
  PROVE  Follows(m, e)
<1> DEFINE a == m.frames  l == Len(a) - 1  g == SubSeq(d.frames, 1, l)  u == SubSeq(d.stack, 1, b)
           y == Top(d.frames)
<1>1. /\ m.stack \in Seq(Cells(program)) /\ b \in Nat /\ Laid(program, m.stack, a)
      /\ a \in Seq(Frame(program)) /\ Len(a) \in Nat /\ Len(a) \in 1..Len(a)
      /\ Len(a) <= FramesMax /\ a # <<>> /\ FramesMax \in Nat
  BY ReadyFacts, FramesAssumption DEF Ready
<1>2. Top(a).base = b /\ Top(a).func = f
  BY DEF At
<1>3. /\ IsMachine(d) /\ Turned(program, a, d.frames, k)
      /\ d.mode = "run" /\ d.error = m.error /\ d.misled = m.misled /\ d.fault = "none"
  BY DEF Steps
<1>4. /\ y.func = f /\ y.base = b /\ Len(d.frames) = Len(a)
      /\ d.frames \in Seq(Frame(program)) /\ \A j \in 1..l : d.frames[j] = a[j]
  BY <1>2, <1>3 DEF Turned
<1>5. l \in Nat /\ l \in 0..Len(d.frames) /\ l \in 0..Len(a) /\ Len(a) = l + 1
  BY <1>1, <1>4
<1> HIDE DEF l, y, a
<1>6. g \in Seq(Frame(program)) /\ Len(g) = l /\ \A j \in 1..l : g[j] = a[j]
  BY <1>4, <1>5, PrefixFacts
<1>7. u \in Seq(Cells(program)) /\ Len(u) = b /\ \A j \in 1..b : u[j] = m.stack[j]
  <2>1. b \in 0..Len(d.stack)
    BY <1>1
  <2> QED
    BY <2>1, PrefixFacts
<1> HIDE DEF g, u
<1>8. /\ Typed(program, g) /\ Linked(program, g) /\ Owned(program, u, g) /\ NoScripts(u, g)
      /\ g = <<>> => b = 0 /\ f = Main
      /\ g # <<>> => /\ b = Level(program, Top(g)) - Gap(f) /\ Paused(program, Top(g))
                     /\ Level(program, Top(g)) \in Nat /\ Top(g).base < b
  <2>1. Len(g) = Len(a) - 1 /\ \A j \in 1..(Len(a) - 1) : g[j] = a[j]
    BY <1>6 DEF l
  <2>2. Lowered(a, g) /\ Lower(m.stack, u, b)
    BY <1>7, <2>1 DEF Lowered, Lower
  <2> QED
    BY <1>1, <1>2, <1>6, <1>7, <2>2, Returning
<1>9. Firsts(a, g, l)
  <2>1. \A j \in 1..l : j \in 1..Len(a)
    BY <1>5
  <2> QED
    BY <1>5, <1>6, <2>1 DEF Firsts
<1>10. \A j \in 1..Len(a) : l < j => j = Len(a)
  BY <1>5
<1>11. Older(a, g) /\ (Tryless(a) => Tryless(g))
  BY <1>1, <1>6, <1>9, FirstsFacts
<1>12. /\ IsMachine(e) /\ e.error = d.error /\ e.misled = d.misled /\ e.fault = d.fault
       /\ e.frames = SubSeq(d.frames, 1, Len(d.frames) - 1)
       /\ Len(d.frames) = 1 \/ y.func \in Scripts => e.mode = "done" /\ e.stack = SubSeq(d.stack, 1, y.base)
       /\ ~(Len(d.frames) = 1 \/ y.func \in Scripts) =>
            e.mode = d.mode /\ e.stack = Append(SubSeq(d.stack, 1, y.base), result)
  <2>1. y = Top(d.frames)
    BY DEF y
  <2>2. Gone(d, e, y, result)
    BY <1>3, <2>1, LeaveFields
  <2> QED
    BY <2>2 DEF Gone
<1>13. IsMachine(e) /\ e.frames = g /\ e.error = m.error /\ e.misled = m.misled /\ e.fault = "none"
  BY <1>3, <1>4, <1>12 DEF g, l
<1>14. Len(g) <= FramesMax
  BY <1>1, <1>5, <1>6
<1>15. Scriptless(program, u, g)
  BY <1>8 DEF NoScripts, Scriptless
<1>16. CASE Len(a) = 1 \/ f \in Scripts
  <2>1. e.mode = "done" /\ e.stack = u
    BY <1>4, <1>12, <1>16 DEF u
  <2>2. f \in Scripts
    <3> SUFFICES ASSUME Len(a) = 1
                 PROVE  f \in Scripts
      BY <1>16
    <3>1. g = <<>>
      BY <1>5, <1>6
    <3> QED
      BY <1>8, <3>1, FramesAssumption
  <2>3. Laid(program, u, g)
    BY <1>8, <1>15 DEF Laid
  <2>4. Settled(program, u, g)
    <3>1. CASE g = <<>>
      <4>1. u = <<>>
        BY <1>7, <1>8, <3>1
      <4> QED
        BY <3>1, <4>1 DEF Settled
    <3>2. CASE g # <<>>
      <4>1. b = Level(program, Top(g)) - 0 /\ Level(program, Top(g)) \in Nat
        BY <1>8, <2>2, <3>2 DEF Gap
      <4>2. b = Level(program, Top(g))
        BY <4>1
      <4> QED
        BY <1>7, <3>2, <4>2 DEF Settled
    <3> QED
      BY <3>1, <3>2
  <2>5. Sound(e)
    BY <1>8, <1>13, <1>14, <2>1, <2>3, <2>4 DEF Sound
  <2>6. NoScriptAbove(a, Len(a))
    BY <1>1 DEF NoScriptAbove
  <2> DEFINE z == Len(a)
  <2>7. z \in 1..Len(a) /\ a[z].func \in Scripts /\ z = l + 1 /\ NoScriptAbove(a, z)
    BY <1>1, <1>2, <1>5, <2>2, <2>6 DEF Top
  <2> HIDE DEF z
  <2>8. z \in ScriptsIn(a) /\ z \notin ScriptsIn(g) /\ ScriptsIn(g) = ScriptsIn(a) \ {z}
    BY <1>1, <1>6, <1>9, <2>7, FirstsFacts
  <2>9. Exact(m, e)
    BY <1>13, <2>1, <2>8 DEF Exact, a
  <2>10. Calm(m) => Calm(e)
    BY <1>11, <1>13 DEF Calm, a
  <2> QED
    BY <1>11, <1>13, <2>1, <2>5, <2>8, <2>9, <2>10 DEF Follows, a
<1>17. CASE ~(Len(a) = 1 \/ f \in Scripts)
  <2> DEFINE v == Append(u, result)
  <2>1. e.mode = "run" /\ e.stack = v
    BY <1>3, <1>4, <1>12, <1>17 DEF u
  <2>2. g # <<>>
    BY <1>5, <1>6, <1>17
  <2>3. Level(program, Top(g)) = b + 1
    <3>1. b = Level(program, Top(g)) - 1 /\ Level(program, Top(g)) \in Nat
      BY <1>8, <1>17, <2>2 DEF Gap
    <3> QED
      BY <3>1
  <2>4. v \in Seq(Cells(program)) /\ Len(v) = b + 1 /\ v[b + 1] = result /\ \A j \in 1..b : v[j] = u[j]
    BY <1>1, <1>7, <1>17
  <2> HIDE DEF v
  <2>5. Owned(program, v, g)
    <3>1. \A j \in 1..Len(g) : g[j].base < b /\ g[j].base \in Nat /\ u[g[j].base + 1] = g[j].func
      BY <1>7, <1>8, FrameFacts DEF Owned
    <3>2. \A j \in 1..Len(g) : g[j].base + 1 \in 1..b /\ g[j].base < Len(v)
      BY <1>1, <2>4, <3>1
    <3> QED
      BY <2>4, <3>1, <3>2 DEF Owned
  <2>6. \A j \in 1..Len(v) : v[j] \in Scripts => \E x \in 1..Len(g) : j = g[x].base + 1
    <3> SUFFICES ASSUME NEW j \in 1..Len(v), v[j] \in Scripts
                 PROVE  \E x \in 1..Len(g) : j = g[x].base + 1
      OBVIOUS
    <3>1. j \in 1..b
      BY <1>1, <1>17, <2>4
    <3> QED
      BY <1>7, <1>8, <2>4, <3>1 DEF NoScripts
  <2>7. Laid(program, v, g)
    BY <1>8, <2>5, <2>6 DEF Laid, Scriptless
  <2>8. Settled(program, v, g)
    BY <2>2, <2>3, <2>4 DEF Settled
  <2>9. Sound(e)
    BY <1>13, <1>14, <2>1, <2>7, <2>8 DEF Sound
  <2>10. NoScriptAbove(a, l)
    BY <1>2, <1>10, <1>17 DEF NoScriptAbove, Top
  <2>11. ScriptsIn(g) = ScriptsIn(a)
    BY <1>1, <1>6, <1>9, <2>10, FirstsFacts
  <2>12. m.error = FALSE => Exact(m, e)
    BY <1>13, <2>1, <2>2, <2>11 DEF Exact, a
  <2>13. Calm(m) => Calm(e)
    BY <1>11, <1>13 DEF Calm, a
  <2> QED
    BY <1>11, <1>13, <2>1, <2>9, <2>12, <2>13 DEF Follows, a
<1> QED
  BY <1>16, <1>17

\* OP_JUMP
LEMMA JumpStep ==
  ASSUME program \in Programs, NEW m, Ready(m), NEW f, NEW i, NEW b, NEW n, At(m, f, i, b, n),
         program.code[f][i].op = "JUMP", NEW k, k = Count(f, i),
         NEW e, e = [m EXCEPT !.frames[Len(m.frames)].ip = k]
  PROVE  Follows(m, e)
<1> DEFINE fr == m.frames  l == Len(m.frames)  g == [fr EXCEPT ![l] = [fr[l] EXCEPT !.ip = k]]
<1>1. /\ IsMachine(m) /\ m.mode = "run" /\ m.fault = "none" /\ fr # <<>> /\ Typed(program, fr)
      /\ Fits(program, f, i) /\ m.stack \in Seq(Cells(program)) /\ b \in Nat /\ n \in Nat
      /\ Heights[program][f][i] \in Nat \ {0} /\ n = b + Heights[program][f][i]
  BY ReadyFacts DEF Ready
<1>2. k \in 1..Len(program.code[f]) /\ Heights[program][f][k] = Heights[program][f][i] /\ k \in Nat
  BY <1>1 DEF Fits, Count
<1>3. n = Len(m.stack) /\ Top(m.frames).base = b
  BY DEF At
<1>4. e = [m EXCEPT !.frames = g]
  OBVIOUS
<1>5. Turned(program, fr, g, k)
  BY <1>1, <1>2, Turning
<1> HIDE DEF g
<1>6. /\ IsMachine(e) /\ e.frames = g /\ e.stack = m.stack /\ e.mode = m.mode /\ e.error = m.error
      /\ e.misled = m.misled /\ e.fault = m.fault
  BY <1>1, <1>4 DEF IsMachine
<1>7. Steps(m, e, k)
  BY <1>1, <1>5, <1>6 DEF Steps
<1>8. b < n
  <2> DEFINE h == Heights[program][f][i]
  <2>1. h \in Nat \ {0} /\ n = b + h /\ b \in Nat
    BY <1>1
  <2> HIDE DEF h
  <2> QED
    BY <2>1
<1>9. Moved(program, m.stack, m.frames, e.stack, n)
  BY <1>1, <1>3, <1>6, <1>8, MovedUp
<1>10. Stepped(m, e, f, b, k)
  BY <1>2, <1>7, <1>9, Stepping
<1>11. Len(e.stack) = b + Heights[program][f][k]
  BY <1>1, <1>2, <1>3, <1>6
<1> QED
  BY <1>10, <1>11 DEF Stepped

\* OP_VOID
LEMMA VoidStep ==
  ASSUME program \in Programs, NEW m, Ready(m), NEW f, NEW i, NEW b, NEW n, At(m, f, i, b, n),
         NEW e, e = Leave(Advance(m), Plain)
  PROVE  Follows(m, e)
<1> DEFINE d == Advance(m)  k == i + 1
<1>1. Steps(m, d, k) /\ d.stack = m.stack
  BY Advancing
<1>2. m.stack \in Seq(Cells(program)) /\ b \in Nat /\ n \in Nat /\ Heights[program][f][i] \in Nat
      /\ n = b + Heights[program][f][i]
  BY ReadyFacts
<1>3. b <= Len(d.stack)
  <2>1. Len(d.stack) = n
    BY <1>1 DEF At
  <2> QED
    BY <1>2, <2>1
<1>4. Plain \in Cells(program) /\ Plain \notin Scripts
  BY FramesAssumption DEF Cells
<1> HIDE DEF d, k
<1>5. e = Leave(d, Plain) /\ d.stack \in Seq(Cells(program)) /\ \A j \in 1..b : d.stack[j] = m.stack[j]
  BY <1>1, <1>2 DEF d
<1> QED
  BY <1>1, <1>3, <1>4, <1>5, LeaveStep

\* OP_RETURN
LEMMA ReturnStep ==
  ASSUME program \in Programs, NEW m, Ready(m), NEW f, NEW i, NEW b, NEW n, At(m, f, i, b, n),
         program.code[f][i].op = "RETURN",
         NEW e, e = Leave(Drop(Advance(m), 1), Peek(m, 1))
  PROVE  Follows(m, e)
<1> DEFINE d == Drop(Advance(m), 1)  k == i + 1  h == n - 1  H == Heights[program][f][i]
           result == Peek(m, 1)
<1>1. /\ m.stack \in Seq(Cells(program)) /\ b \in Nat /\ n \in Nat /\ H \in Nat
      /\ n = b + H /\ Fits(program, f, i) /\ Typed(program, m.frames) /\ Linked(program, m.frames)
      /\ NoScripts(m.stack, m.frames) /\ m.frames # <<>>
  BY ReadyFacts DEF Ready
<1>2. 2 <= H
  BY <1>1 DEF Fits
<1>3. 1 \in Nat /\ 1 < H /\ h \in Nat /\ b + 1 < n /\ b <= h /\ n - 1 + 1 = n /\ h \in 0..n
  <2> HIDE DEF H
  <2> QED
    BY <1>1, <1>2
<1>4. n = Len(m.stack) /\ Top(m.frames).base = b
  BY DEF At
<1>5. /\ Steps(m, d, k) /\ d.stack = SubSeq(m.stack, 1, h) /\ Len(d.stack) = h
      /\ d.stack \in Seq(Cells(program))
  <2>1. d = Drop(Advance(m), 1) /\ k = i + 1 /\ h = n - 1
    OBVIOUS
  <2> HIDE DEF d, k, h
  <2> QED
    BY <1>3, <2>1, Dropping
<1>6. \A j \in 1..b : d.stack[j] = m.stack[j]
  <2>1. \A j \in 1..h : SubSeq(m.stack, 1, h)[j] = m.stack[j]
    BY <1>1, <1>3, <1>4, PrefixFacts
  <2>2. \A j \in 1..b : j \in 1..h
    BY <1>1, <1>3
  <2> QED
    BY <1>5, <2>1, <2>2
<1>7. result = m.stack[n]
  BY <1>3, <1>4 DEF Peek
<1>8. result \in Cells(program) /\ result \notin Scripts
  <2>1. n \in 1..Len(m.stack) /\ Top(m.frames).base + 1 < n
    BY <1>1, <1>3, <1>4
  <2>2. m.stack[n] \notin Scripts
    BY <1>1, <2>1, NoScriptThere
  <2>3. m.stack[n] \in Cells(program)
    BY <1>1, <2>1
  <2> QED
    BY <1>7, <2>2, <2>3
<1>9. b <= Len(d.stack) /\ e = Leave(d, result)
  BY <1>3, <1>5
<1> HIDE DEF d, k, result
<1> QED
  BY <1>5, <1>6, <1>8, <1>9, LeaveStep

\* The module v has a frame of its own on those of m.
Added(m, e, v) ==
  /\ Sound(e) /\ e.mode = "run" /\ e.fault = "none" /\ e.error = m.error /\ e.misled = m.misled
  /\ Len(e.frames) = Len(m.frames) + 1 /\ Len(m.frames) \in Nat
  /\ ScriptsIn(e.frames) = ScriptsIn(m.frames) \cup {Len(m.frames) + 1}
  /\ e.frames[Len(m.frames) + 1].func = v
  /\ \A j \in 1..Len(m.frames) : e.frames[j].func = m.frames[j].func
  /\ Tryless(m.frames) => Tryless(e.frames)

\* There is no room for it, and the error has been raised in the importer.
Overflown(m, e) == Sound(e) /\ e.mode = "run" /\ Older(m.frames, e.frames)

\* a value more on the stack of a machine
Pushed(d, e, v) ==
  /\ IsMachine(e) /\ e.stack = Append(d.stack, v) /\ e.frames = d.frames /\ e.mode = d.mode
  /\ e.error = d.error /\ e.misled = d.misled /\ e.fault = d.fault

\* ... and nothing else changes.
LEMMA PushFields ==
  ASSUME NEW d, IsMachine(d), NEW v, NEW e, e = Push(d, v)
  PROVE  Pushed(d, e, v)
<1> DEFINE w == Append(d.stack, v)
<1>1. e = [d EXCEPT !.stack = w]
  BY DEF Push
<1> HIDE DEF w
<1>2. /\ IsMachine(e) /\ e.stack = w /\ e.frames = d.frames /\ e.mode = d.mode
      /\ e.error = d.error /\ e.misled = d.misled /\ e.fault = d.fault
  BY <1>1 DEF IsMachine
<1> QED
  BY <1>2 DEF Pushed, w

\* OP_USE of a module that is new
LEMMA UseStep ==
  ASSUME program \in Programs, NEW m, NEW f, NEW i, NEW b, NEW n, NEW v, NEW kept \in NameReads,
         NEW d, NEW c, NEW e
  PROVE  /\ Ready(m) /\ At(m, f, i, b, n) /\ program.code[f][i].op = "USE" /\ v = Operand(f, i)
         /\ d = Drop(Advance(m), 1) /\ c = Push(d, v)
         /\ e = [Call(c, v, 0, kept) EXCEPT !.mode = "run"]
         => /\ v \in Scripts /\ v # Main
            /\ Len(m.frames) # FramesMax => Added(m, e, v)
            /\ Len(m.frames) = FramesMax => Overflown(m, e)
<1>a. HAVE /\ Ready(m) /\ At(m, f, i, b, n) /\ program.code[f][i].op = "USE" /\ v = Operand(f, i)
           /\ d = Drop(Advance(m), 1) /\ c = Push(d, v)
           /\ e = [Call(c, v, 0, kept) EXCEPT !.mode = "run"]
<1> DEFINE k == i + 1  h == n - 1  H == Heights[program][f]
           x == Begun(v, h, 0)
           g == d.frames  w == c.stack
<1>1. /\ Fits(program, f, i) /\ m.stack \in Seq(Cells(program)) /\ b \in Nat /\ n \in Nat
      /\ m.frames \in Seq(Frame(program)) /\ i \in Nat /\ i >= 1 /\ Len(m.frames) \in Nat
      /\ Len(m.frames) <= FramesMax /\ FramesMax \in Nat /\ m.mode = "run" /\ m.fault = "none"
      /\ H[i] \in Nat /\ n = b + H[i] /\ m.frames # <<>>
  BY <1>a, ReadyFacts, FramesAssumption DEF Ready
<1>2. /\ v \in DOMAIN program.code /\ v \in Scripts /\ v # Main /\ H[k] = H[i] - 1
      /\ k \in 1..Len(program.code[f]) /\ k = i + 1 /\ H[k] \in Nat \ {0}
  BY <1>a, <1>1, NextFacts DEF Fits, Operand
<1>3. /\ 1 \in Nat /\ 1 < H[i] /\ h \in Nat /\ h + 1 = n /\ h = b + H[k] /\ b < h /\ h < n
  <2> DEFINE y == H[i]  z == H[k]
  <2>1. y \in Nat /\ n = b + y /\ b \in Nat /\ n \in Nat /\ z = y - 1 /\ z \in Nat \ {0}
    BY <1>1, <1>2
  <2> HIDE DEF y, z
  <2>2. 1 < y /\ h \in Nat /\ h + 1 = n /\ h = b + z /\ b < h /\ h < n
    BY <2>1
  <2> QED
    BY <2>2 DEF y, z
<1>4. /\ Steps(m, d, k) /\ Moved(program, m.stack, m.frames, d.stack, h) /\ Len(d.stack) = h
      /\ d.stack \in Seq(Cells(program))
  <2>1. 1 < Heights[program][f][i] /\ k = i + 1 /\ h = n - 1
    BY <1>3
  <2> HIDE DEF k, h, H
  <2> QED
    BY <1>a, <1>3, <2>1, Dropping
<1>5. n = Len(m.stack) /\ Top(m.frames).base = b /\ Top(m.frames).func = f
  BY <1>a DEF At
<1> HIDE DEF k, h, H, x, g, w
<1>6. Stepped(m, d, f, b, k)
  BY <1>a, <1>2, <1>4, Stepping
<1>7. /\ IsMachine(d) /\ Turned(program, m.frames, g, k)
      /\ d.mode = "run" /\ d.error = m.error /\ d.misled = m.misled /\ d.fault = "none"
  BY <1>4 DEF Steps, g
<1>8. /\ Laid(program, d.stack, g) /\ Typed(program, g) /\ Linked(program, g) /\ Owned(program, d.stack, g)
      /\ NoScripts(d.stack, g) /\ g # <<>> /\ Len(g) = Len(m.frames)
      /\ Alike(m, d) /\ Level(program, Top(g)) = h /\ g \in Seq(Frame(program))
  <2>1. Laid(program, d.stack, g)
    BY <1>6 DEF Stepped, g
  <2> QED
    BY <1>3, <1>6, <2>1 DEF Stepped, Laid, Typed, g, H
<1>9. /\ Top(g).ip = k /\ Top(g).func = f /\ Top(g).base = b
  BY <1>5, <1>7 DEF Turned
<1>10. Paused(program, Top(g)) /\ k > 1 /\ k - 1 = i
  <2>1. k > 1 /\ k - 1 = i
    <3>1. i \in Nat /\ i >= 1 /\ k = i + 1
      BY <1>1, <1>2
    <3> QED
      BY <3>1
  <2> QED
    BY <1>a, <1>9, <2>1 DEF Paused
<1>11. Pushed(d, c, v)
  BY <1>a, <1>7, PushFields
<1>12. /\ IsMachine(c) /\ c.frames = g /\ c.mode = "run" /\ c.error = m.error
       /\ c.misled = m.misled /\ c.fault = "none" /\ w = Append(d.stack, v)
  BY <1>7, <1>11 DEF Pushed, g, w
<1>13. v \in Cells(program)
  BY <1>2 DEF Cells
<1>14. w \in Seq(Cells(program)) /\ Len(w) = n /\ w[h + 1] = v /\ \A j \in 1..h : w[j] = d.stack[j]
  <2> DEFINE u == d.stack
  <2>1. u \in Seq(Cells(program)) /\ Len(u) = h /\ w = Append(u, v)
    BY <1>4, <1>12
  <2> HIDE DEF u
  <2>2. w \in Seq(Cells(program)) /\ Len(w) = h + 1 /\ w[h + 1] = v /\ \A j \in 1..h : w[j] = u[j]
    BY <1>3, <1>13, <2>1
  <2> QED
    BY <1>3, <2>2 DEF u
<1>15. Owned(program, w, g)
  <2>1. \A j \in 1..Len(g) : g[j].base < h /\ g[j].base \in Nat /\ d.stack[g[j].base + 1] = g[j].func
    BY <1>4, <1>8, FrameFacts DEF Owned
  <2>2. \A j \in 1..Len(g) : g[j].base + 1 \in 1..h /\ g[j].base < n
    BY <1>a, <1>1, <1>3, <2>1
  <2> QED
    BY <1>14, <2>1, <2>2 DEF Owned
<1>16. \A j \in 1..Len(w) : w[j] \in Scripts => j = h + 1 \/ \E z \in 1..Len(g) : j = g[z].base + 1
  <2> SUFFICES ASSUME NEW j \in 1..Len(w), w[j] \in Scripts, j # h + 1
               PROVE  \E z \in 1..Len(g) : j = g[z].base + 1
    OBVIOUS
  <2>1. j \in 1..h
    BY <1>3, <1>14
  <2> QED
    BY <1>4, <1>8, <1>14, <2>1 DEF NoScripts
<1>17. ASSUME Len(m.frames) # FramesMax
       PROVE  Added(m, e, v)
  <2> DEFINE z == Append(g, x)  a == Entered(c, x)
  <2>1. program.arity[v] = 0 /\ Gap(v) = 0
    BY <1>2, FramesAssumption DEF WellFormed, Gap
  <2>2. Call(c, v, 0, kept) = a
    <3>1. Len(w) - 0 - 1 = h
      BY <1>1, <1>3, <1>14
    <3>2. Len(c.frames) # FramesMax
      BY <1>8, <1>12, <1>17
    <3> QED
      BY <2>1, <3>1, <3>2 DEF Call, Entered, Begun, x, w
  <2>3. e = Again(a)
    BY <1>a, <2>2 DEF Again
  <2> HIDE DEF a
  <2>4. /\ IsMachine(a) /\ a.stack = w /\ a.frames = z /\ a.mode = "run"
        /\ a.error = m.error /\ a.misled = m.misled /\ a.fault = "none"
    BY <1>12, EnteredFields DEF a, w
  <2>5. /\ IsMachine(e) /\ e.stack = w /\ e.frames = z /\ e.mode = "run"
        /\ e.error = m.error /\ e.misled = m.misled /\ e.fault = "none"
    BY <2>3, <2>4, AgainFields
  <2>6. x \in Frame(program) /\ x.func = v /\ x.tries = 0
    BY <1>2, <1>3 DEF x, Frame, Begun
  <2>7. /\ x = Begun(v, h, 0) /\ z = Above(g, x)
        /\ Top(g).base < h /\ h = Level(program, Top(g)) - Gap(v)
        /\ Len(w) = h + (program.arity[v] + 1)
    <3>1. h = h - 0 /\ n = h + (0 + 1)
      BY <1>3
    <3>2. x = Begun(v, h, 0) /\ z = Above(g, x)
      BY DEF x, Above
    <3> QED
      BY <1>3, <1>8, <1>9, <1>14, <2>1, <3>1, <3>2
  <2> HIDE DEF z
  <2>8. Laid(program, w, z) /\ Settled(program, w, z)
    <3>1. Offered(program, w, g, v, h)
      BY <1>8, <1>10, <1>14, <1>15, <1>16, <2>7 DEF Offered
    <3>2. 0 \in Nat
      OBVIOUS
    <3> QED
      BY <1>2, <1>3, <2>7, <3>1, <3>2, Entering
  <2>9. /\ ScriptsIn(z) = ScriptsIn(g) \cup {Len(g) + 1} /\ Len(z) = Len(g) + 1 /\ z[Len(g) + 1] = x
        /\ \A j \in 1..Len(g) : z[j] = g[j]
        /\ Tryless(g) => Tryless(z)
    <3>1. Grown(g, x, z)
      BY <1>8, <2>6, <2>7, AppendScripts
    <3> QED
      BY <1>2, <2>6, <3>1 DEF Grown
  <2>10. Sound(e)
    <3>1. Len(z) <= FramesMax
      BY <1>1, <1>8, <1>17, <2>9
    <3> QED
      BY <2>5, <2>8, <3>1 DEF Sound
  <2> DEFINE fr == m.frames
  <2>11. /\ ScriptsIn(g) = ScriptsIn(fr) /\ (Tryless(fr) => Tryless(g))
         /\ \A j \in 1..Len(fr) : g[j].func = fr[j].func
    <3>1. Firsts(fr, g, Len(fr)) /\ fr \in Seq(Frame(program))
      BY <1>1, <1>8 DEF Alike, g
    <3>2. NoScriptAbove(fr, Len(fr))
      BY <1>1 DEF NoScriptAbove
    <3> HIDE DEF fr
    <3>3. ScriptsIn(g) = ScriptsIn(fr) /\ (Tryless(fr) => Tryless(g))
      BY <1>8, <3>1, <3>2, FirstsFacts
    <3> QED
      BY <3>1, <3>3 DEF Firsts
  <2>12. ScriptsIn(z) = ScriptsIn(fr) \cup {Len(fr) + 1} /\ Len(z) = Len(fr) + 1
    BY <1>8, <2>9, <2>11
  <2>13. z[Len(fr) + 1].func = v /\ \A j \in 1..Len(fr) : z[j].func = fr[j].func
    BY <1>8, <2>6, <2>9, <2>11
  <2> QED
    BY <1>1, <2>5, <2>9, <2>10, <2>11, <2>12, <2>13 DEF Added
<1>18. ASSUME Len(m.frames) = FramesMax
       PROVE  Overflown(m, e)
  <2> DEFINE a == Exception(c, kept)
  <2>1. e = Again(a)
    <3>1. Len(c.frames) = FramesMax
      BY <1>8, <1>12, <1>18
    <3>2. Call(c, v, 0, kept) = a
      BY <3>1 DEF Call
    <3> QED
      BY <1>a, <3>2 DEF Again
  <2>2. a = Exception(c, kept)
    OBVIOUS
  <2> HIDE DEF a
  <2>3. Laid(program, w, g)
    <3>1. Scriptless(program, w, g)
      <4>1. Level(program, Top(g)) < h + 1
        BY <1>3, <1>8
      <4> QED
        BY <1>8, <1>16, <4>1 DEF Scriptless
    <3> QED
      BY <1>8, <1>15, <3>1 DEF Laid
  <2>4. Alike(m, c)
    BY <1>8, <1>12 DEF Alike, g
  <2>5. Raises(c)
    <3> DEFINE y == Top(g)  z == program.code[y.func][y.ip - 1]
    <3>1. z.op = "USE" /\ z.op \in Raising /\ Taken(z) = 1 /\ y.ip > 1
      BY <1>a, <1>9, <1>10 DEF Raising, Taken
    <3>2. Len(w) >= y.base + (Heights[program][y.func][y.ip - 1] - 1)
      <4> DEFINE l == H[i]
      <4>1. n = b + l /\ l \in Nat /\ b \in Nat
        BY <1>1
      <4> HIDE DEF l
      <4>2. n >= b + (l - 1)
        BY <4>1
      <4> QED
        BY <1>9, <1>10, <1>14, <4>2 DEF l, H
    <3> QED
      BY <1>12, <3>1, <3>2 DEF Raises, w
  <2>6. Follows(m, a)
    <3>1. Laid(program, c.stack, c.frames) /\ c.frames # <<>> /\ Len(c.frames) <= FramesMax
      BY <1>1, <1>8, <1>12, <2>3 DEF w
    <3> QED
      BY <1>1, <1>12, <2>2, <2>4, <2>5, <3>1, ExceptionFollows
  <2>7. /\ Sound(a) /\ Older(m.frames, a.frames) /\ IsMachine(a)
    BY <2>6 DEF Follows, Sound
  <2>8. /\ IsMachine(e) /\ e.stack = a.stack /\ e.frames = a.frames /\ e.mode = "run" /\ e.fault = a.fault
    BY <2>1, <2>7, AgainFields
  <2>9. Sound(e)
    BY <2>7, <2>8 DEF Sound
  <2> QED
    BY <2>7, <2>8, <2>9 DEF Overflown
<1> QED
  BY <1>2, <1>17, <1>18
=============================================================================
