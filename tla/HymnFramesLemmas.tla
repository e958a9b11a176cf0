-------------------------- MODULE HymnFramesLemmas --------------------------
(***************************************************************************)
(* Frames, errors and calls of HymnFrames, for any well-formed programs:   *)
(* when the frames lie one above the other, and that an error, a call and  *)
(* a return leave them so.                                                 *)
(***************************************************************************)
EXTENDS HymnFrames, HymnLemmas

Cells(p) == DOMAIN p.code \cup {Native, Plain, Message}

Frame(p) == [func : DOMAIN p.code, ip : Nat, base : Nat, tries : Nat]

Top(fr) == fr[Len(fr)]

\* the height of the stack when a frame is on top and at its ip
Level(p, frame) == frame.base + Heights[p][frame.func][frame.ip]

\* The function of a module replaces its own name on the stack; any other is
\* replaced by its result.
Gap(f) == IF f \in Scripts THEN 0 ELSE 1

\* a frame that waits for another one
Paused(p, frame) == frame.ip > 1 /\ p.code[frame.func][frame.ip - 1].op \in {"CALL", "USE"}

Typed(p, fr) ==
  fr \in Seq(Frame(p)) /\ \A i \in 1..Len(fr) : fr[i].ip \in 1..Len(p.code[fr[i].func])

\* Every frame begins where the one below it waits for its result
Linked(p, fr) ==
  /\ fr # <<>> => fr[1].func = Main /\ fr[1].base = 0
  /\ \A i \in 1..Len(fr) : \A j \in 1..Len(fr) : i < j => fr[i].base < fr[j].base
  /\ \A i \in 1..(Len(fr) - 1) :
       fr[i + 1].base = Level(p, fr[i]) - Gap(fr[i + 1].func) /\ Paused(p, fr[i])

\* every frame has its function in its first slot
Owned(p, st, fr) ==
  /\ st \in Seq(Cells(p))
  /\ \A i \in 1..Len(fr) : fr[i].base < Len(st) /\ st[fr[i].base + 1] = fr[i].func

\* no script is on the stack but as the function of a frame
NoScripts(st, fr) ==
  \A j \in 1..Len(st) : st[j] \in Scripts => \E i \in 1..Len(fr) : j = fr[i].base + 1

\* the same, up to the height of the top frame
Scriptless(p, st, fr) ==
  \A j \in 1..Len(st) : st[j] \in Scripts =>
    \/ \E i \in 1..Len(fr) : j = fr[i].base + 1
    \/ fr # <<>> /\ Level(p, Top(fr)) < j

\* The last instruction of the top frame can fail, unless no script is left on
\* the stack.
Failed(p, st, fr) ==
  \/ NoScripts(st, fr)
  \/ Top(fr).ip > 1 /\ p.code[Top(fr).func][Top(fr).ip - 1].op \in Raising

Laid(p, st, fr) == Typed(p, fr) /\ Linked(p, fr) /\ Owned(p, st, fr) /\ Scriptless(p, st, fr)

Settled(p, st, fr) == IF fr = <<>> THEN st = <<>> ELSE Len(st) = Level(p, Top(fr))

\* What the assumption says of a frame
LEMMA FrameFacts ==
  ASSUME NEW p \in Programs, NEW fr, Typed(p, fr), NEW i \in 1..Len(fr)
  PROVE  /\ fr[i] \in Frame(p) /\ fr[i].func \in DOMAIN p.code
         /\ fr[i].base \in Nat /\ fr[i].ip \in Nat /\ fr[i].tries \in Nat
         /\ fr[i].ip \in 1..Len(p.code[fr[i].func])
         /\ Heights[p][fr[i].func][fr[i].ip] \in Nat \ {0}
         /\ Level(p, fr[i]) \in Nat /\ fr[i].base < Level(p, fr[i])
<1>1. fr[i] \in Frame(p) /\ fr[i].ip \in 1..Len(p.code[fr[i].func])
  BY DEF Typed
<1>2. /\ fr[i].func \in DOMAIN p.code /\ fr[i].base \in Nat
      /\ fr[i].ip \in Nat /\ fr[i].tries \in Nat
  BY <1>1 DEF Frame
<1>3. Heights[p][fr[i].func] \in [1..Len(p.code[fr[i].func]) -> Nat \ {0}]
  BY <1>2, FramesAssumption DEF WellFormed
<1>4. Heights[p][fr[i].func][fr[i].ip] \in Nat \ {0}
  BY <1>1, <1>3
<1> QED
  BY <1>1, <1>2, <1>4 DEF Level

\* Some of the frames from the first on, the last of them moved to another
\* instruction, are still linked.
LEMMA FramesCut ==
  ASSUME NEW p \in Programs, NEW fr, Typed(p, fr), Linked(p, fr),
         NEW g \in Seq(Frame(p)), Len(g) <= Len(fr),
         \A i \in 1..Len(g) :
           /\ g[i].func = fr[i].func /\ g[i].base = fr[i].base
           /\ g[i].ip \in 1..Len(p.code[fr[i].func])
           /\ i < Len(g) => g[i] = fr[i]
  PROVE  Typed(p, g) /\ Linked(p, g)
<1>1. Typed(p, g)
  BY DEF Typed
<1>2. Len(g) \in Nat /\ Len(fr) \in Nat /\ (g # <<>> => 1 \in 1..Len(g) /\ fr # <<>>)
  BY DEF Typed
<1>3. g # <<>> => g[1].func = Main /\ g[1].base = 0
  BY <1>2 DEF Linked
<1>4. \A i \in 1..Len(g) : \A j \in 1..Len(g) : i < j => g[i].base < g[j].base
  BY <1>2 DEF Linked
<1>5. ASSUME NEW i \in 1..(Len(g) - 1)
      PROVE  g[i + 1].base = Level(p, g[i]) - Gap(g[i + 1].func) /\ Paused(p, g[i])
  <2>1. i \in 1..(Len(fr) - 1) /\ i \in 1..Len(g) /\ i + 1 \in 1..Len(g) /\ i < Len(g)
    BY <1>2
  <2>2. g[i] = fr[i] /\ g[i + 1].base = fr[i + 1].base /\ g[i + 1].func = fr[i + 1].func
    BY <2>1
  <2>3. fr[i + 1].base = Level(p, fr[i]) - Gap(fr[i + 1].func) /\ Paused(p, fr[i])
    BY <2>1 DEF Linked
  <2> QED
    BY <2>2, <2>3
<1> QED
  BY <1>1, <1>3, <1>4, <1>5 DEF Linked

\* the stack u keeps the slots of st up to n, and the frames g are the first
\* ones of fr; no script is above n, and no module in the frames that have gone
\* begins below
Keeps(p, st, fr, u, g, n) ==
  /\ n \in 0..Len(st) /\ u \in Seq(Cells(p)) /\ n <= Len(u)
  /\ \A j \in 1..n : u[j] = st[j]
  /\ \A j \in 1..Len(u) : n < j => u[j] \notin Scripts
  /\ g \in Seq(Frame(p)) /\ Len(g) <= Len(fr)
  /\ \A i \in 1..Len(g) : g[i].func = fr[i].func /\ g[i].base = fr[i].base
  /\ g # <<>> => Top(g).base < n
  /\ \A i \in 1..Len(fr) : Len(g) < i /\ fr[i].func \in Scripts => n <= fr[i].base
  /\ NoScripts(st, fr) \/ (fr # <<>> /\ n <= Level(p, Top(fr)))

\* The slots that are kept are owned by the frames that are.
LEMMA StackCut ==
  ASSUME NEW p \in Programs, NEW st, NEW fr, NEW u, NEW g, NEW n
  PROVE  /\ Laid(p, st, fr) /\ Keeps(p, st, fr, u, g, n)
         => Owned(p, u, g) /\ NoScripts(u, g)
<1>a. HAVE /\ Laid(p, st, fr) /\ Keeps(p, st, fr, u, g, n)
<1>1. /\ Len(st) \in Nat /\ Len(u) \in Nat /\ Len(g) \in Nat /\ Len(fr) \in Nat
      /\ n \in Nat /\ n <= Len(st)
      /\ Typed(p, fr) /\ Linked(p, fr) /\ Owned(p, st, fr) /\ Scriptless(p, st, fr)
  BY <1>a DEF Laid, Typed, Owned, Keeps
<1>k. /\ n <= Len(u) /\ u \in Seq(Cells(p)) /\ Len(g) <= Len(fr)
      /\ \A j \in 1..n : u[j] = st[j]
      /\ \A j \in 1..Len(u) : n < j => u[j] \notin Scripts
      /\ \A i \in 1..Len(g) : g[i].func = fr[i].func /\ g[i].base = fr[i].base
      /\ g # <<>> => Top(g).base < n
      /\ \A i \in 1..Len(fr) : Len(g) < i /\ fr[i].func \in Scripts => n <= fr[i].base
      /\ NoScripts(st, fr) \/ (fr # <<>> /\ n <= Level(p, Top(fr)))
  BY <1>a DEF Keeps
<1>2. ASSUME NEW i \in 1..Len(g)
      PROVE  g[i].base < n /\ g[i].base \in Nat /\ i \in 1..Len(fr)
  <2>1. i \in 1..Len(fr) /\ Len(g) \in 1..Len(g) /\ Len(g) \in 1..Len(fr) /\ g # <<>>
    BY <1>1, <1>k
  <2>2. g[i].base = fr[i].base /\ fr[i].base \in Nat
    BY <1>1, <1>k, <2>1, FrameFacts
  <2>3. Top(g).base = fr[Len(g)].base /\ Top(g).base < n /\ fr[Len(g)].base \in Nat
    BY <1>1, <1>k, <2>1, FrameFacts DEF Top
  <2>4. i = Len(g) \/ fr[i].base < fr[Len(g)].base
    BY <1>1, <1>k, <2>1 DEF Linked
  <2> QED
    BY <1>1, <1>k, <2>1, <2>2, <2>3, <2>4
<1>3. Owned(p, u, g)
  <2>1. ASSUME NEW i \in 1..Len(g)
        PROVE  g[i].base < Len(u) /\ u[g[i].base + 1] = g[i].func
    <3>1. g[i].base + 1 \in 1..n /\ g[i].base < Len(u)
      BY <1>1, <1>k, <1>2
    <3>2. st[fr[i].base + 1] = fr[i].func
      BY <1>1, <1>k, <1>2 DEF Owned
    <3> QED
      BY <1>k, <3>1, <3>2
  <2> QED
    BY <1>k, <2>1 DEF Owned
<1>4. ASSUME NEW j \in 1..Len(u), u[j] \in Scripts
      PROVE  \E i \in 1..Len(g) : j = g[i].base + 1
  <2>1. j <= n /\ j \in 1..n /\ j \in 1..Len(st) /\ st[j] \in Scripts
    BY <1>1, <1>k, <1>4
  <2>2. PICK i \in 1..Len(fr) : j = fr[i].base + 1
    <3>1. CASE NoScripts(st, fr)
      BY <2>1, <3>1 DEF NoScripts
    <3>2. CASE fr # <<>> /\ n <= Level(p, Top(fr))
      <4>1. Len(fr) \in 1..Len(fr)
        BY <1>1, <1>k, <3>2 DEF Typed
      <4>2. Level(p, Top(fr)) \in Nat
        BY <1>1, <4>1, FrameFacts DEF Top
      <4>3. ~(Level(p, Top(fr)) < j)
        BY <1>1, <1>k, <2>1, <3>2, <4>2
      <4> QED
        BY <1>1, <1>k, <2>1, <4>3 DEF Scriptless
    <3> QED
      BY <1>k, <3>1, <3>2
  <2>3. fr[i].func = st[j] /\ fr[i].base \in Nat
    BY <1>1, <1>k, <2>2, FrameFacts DEF Owned
  <2>4. i <= Len(g)
    <3>1. ~(n <= fr[i].base)
      BY <1>1, <1>k, <2>1, <2>2, <2>3
    <3> QED
      BY <1>1, <1>k, <2>1, <2>3, <3>1
  <2> QED
    BY <1>1, <1>k, <2>2, <2>4
<1> QED
  BY <1>3, <1>4 DEF NoScripts

\* The first elements of a sequence
LEMMA PrefixFacts ==
  ASSUME NEW S, NEW s \in Seq(S), NEW n \in 0..Len(s)
  PROVE  /\ SubSeq(s, 1, n) \in Seq(S) /\ Len(SubSeq(s, 1, n)) = n
         /\ \A i \in 1..n : SubSeq(s, 1, n)[i] = s[i] /\ s[i] \in S
<1>1. Len(s) \in Nat /\ n \in Nat /\ n <= Len(s) /\ \A i \in 1..Len(s) : s[i] \in S
  OBVIOUS
<1> QED
  BY <1>1

\* ... and one more
LEMMA AppendFacts ==
  ASSUME NEW S, NEW s \in Seq(S), NEW n \in 0..Len(s), NEW x \in S
  PROVE  LET u == Append(SubSeq(s, 1, n), x)
         IN /\ u \in Seq(S) /\ Len(u) = n + 1 /\ u[n + 1] = x
            /\ \A i \in 1..n : u[i] = s[i]
<1> DEFINE w == SubSeq(s, 1, n)
<1>1. w \in Seq(S) /\ Len(w) = n /\ \A i \in 1..n : w[i] = s[i]
  BY PrefixFacts
<1> HIDE DEF w
<1>2. Append(w, x) \in Seq(S) /\ Len(Append(w, x)) = n + 1 /\ Append(w, x)[n + 1] = x
  BY <1>1
<1>3. \A i \in 1..n : Append(w, x)[i] = w[i]
  BY <1>1
<1> QED
  BY <1>1, <1>2, <1>3 DEF w

-----------------------------------------------------------------------------
(* An error on its way down the frames *)

Faults == {"none", "no frame", "error twice", "stack"}

IsMachine(m) ==
  /\ DOMAIN m = {"stack", "frames", "mode", "error", "misled", "fault"}
  /\ m.mode \in {"idle", "run", "done"} /\ m.error \in BOOLEAN /\ m.misled \in BOOLEAN
  /\ m.fault \in Faults

\* the error is on its way to the caller of run()
Raised(m, e) ==
  /\ e.mode = "done" /\ e.error = TRUE
  /\ e.fault = IF m.error THEN "error twice" ELSE m.fault

\* g has the functions of the first n frames
Firsts(fr, g, n) ==
  /\ n \in 0..Len(fr) /\ Len(g) = n
  /\ \A i \in 1..n : g[i].func = fr[i].func /\ g[i].tries = fr[i].tries

\* no script is above frame n
NoScriptAbove(fr, n) == \A i \in 1..Len(fr) : n < i => fr[i].func \notin Scripts

\* run() has been left by the script that is frame low of m
LeftBy(m, e, kept, low) ==
  /\ m.frames[low].func \in Scripts
  /\ kept => NoScriptAbove(m.frames, low)
  /\ Firsts(m.frames, e.frames, low - 1)
  /\ Raised(m, e)

\* run() goes on
Goes(m, e) == e.mode = m.mode /\ e.error = m.error /\ e.fault = m.fault

\* frame i of m has the error
CaughtBy(m, e, kept, i) ==
  /\ kept => NoScriptAbove(m.frames, i)
  /\ Firsts(m.frames, e.frames, i)
  /\ Goes(m, e)

\* e differs from m in its fault only
Stays(m, e) ==
  /\ e.stack = m.stack /\ e.frames = m.frames /\ e.mode = m.mode /\ e.error = m.error
  /\ e.misled = m.misled

\* the locals of the except block are not there
Stuck(m, e) == Stays(m, e) /\ e.fault = "stack"

\* what an error leaves is a stack of frames again
Landed(m, e, kept) ==
  /\ IsMachine(e)
  /\ Laid(program, e.stack, e.frames)
  /\ \/ /\ \E low \in 1..Len(m.frames) : LeftBy(m, e, kept, low)
        /\ Settled(program, e.stack, e.frames)
        /\ e.frames = <<>> \/ Paused(program, Top(e.frames))
     \/ /\ \E i \in 1..Len(m.frames) : CaughtBy(m, e, kept, i)
        /\ Settled(program, e.stack, e.frames)
     \/ Stuck(m, e)

\* The frame where the search for a range ends is that of a script.
LEMMA LastFrameFacts ==
  ASSUME program \in Programs, NEW m, Typed(program, m.frames), Linked(program, m.frames),
         m.frames # <<>>, NEW kept \in BOOLEAN
  PROVE  LET low == LastFrame(m, kept)
         IN /\ low \in 1..Len(m.frames) /\ m.frames[low].func \in Scripts
            /\ kept => \A i \in 1..Len(m.frames) : low < i => m.frames[i].func \notin Scripts
<1> DEFINE fr == m.frames
           S == {1} \cup {i \in DOMAIN fr : kept /\ fr[i].func \in Scripts}
<1>1. fr \in Seq(Frame(program)) /\ Len(fr) \in Nat /\ DOMAIN fr = 1..Len(fr) /\ 1 \in 1..Len(fr)
  BY DEF Typed
<1>2. S \in SUBSET (0..Len(fr)) /\ S # {}
  BY <1>1
<1>3. Max(S) \in S /\ \A x \in S : x <= Max(S)
  <2> HIDE DEF S
  <2> QED
    BY <1>1, <1>2, MaxFacts
<1>4. fr[1].func \in Scripts
  BY FramesAssumption DEF Linked
<1>5. LastFrame(m, kept) = Max(S)
  BY DEF LastFrame
<1> DEFINE low == Max(S)
<1>6. low \in 1..Len(fr) /\ fr[low].func \in Scripts
  BY <1>1, <1>3, <1>4
<1>7. kept => \A i \in 1..Len(fr) : low < i => fr[i].func \notin Scripts
  <2> SUFFICES ASSUME kept, NEW i \in 1..Len(fr), low < i, fr[i].func \in Scripts
               PROVE  FALSE
    OBVIOUS
  <2>1. i \in S
    BY <1>1
  <2>2. i <= low
    BY <1>3, <2>1
  <2> HIDE DEF low
  <2> QED
    BY <1>1, <1>6, <2>2
<1> QED
  BY <1>5, <1>6, <1>7

\* The range a frame is resumed at is around its instruction.
LEMMA HandlerFacts ==
  ASSUME program \in Programs, NEW frame, frame.func \in DOMAIN program.code,
         Around(frame) # {}
  PROVE  LET r == Handler(frame, Around(frame))
         IN /\ r.start \in Nat /\ r.end \in 1..Len(program.code[frame.func]) /\ r.locals \in Nat \ {0}
            /\ r.start <= frame.ip /\ frame.ip <= r.end
            /\ \E i \in DOMAIN program.except[frame.func] : r = program.except[frame.func][i]
            /\ Guards(program, frame.func, r)
<1> DEFINE except == program.except[frame.func]  i == Min(Around(frame))
<1>1. /\ Len(except) \in Nat /\ DOMAIN except = 1..Len(except)
      /\ \A j \in DOMAIN except : Guards(program, frame.func, except[j])
  BY FramesAssumption DEF WellFormed
<1>2. Around(frame) \in SUBSET Nat /\ Around(frame) \subseteq DOMAIN except
  BY <1>1 DEF Around
<1>3. i \in Around(frame)
  BY <1>2, MinFacts
<1> HIDE DEF i
<1>4. i \in DOMAIN except /\ except[i].start <= frame.ip /\ frame.ip <= except[i].end
  BY <1>3 DEF Around
<1>5. Guards(program, frame.func, except[i])
  BY <1>1, <1>4
<1>6. except[i].start \in Nat /\ except[i].end \in 1..Len(program.code[frame.func]) /\ except[i].locals \in Nat \ {0}
  BY <1>5 DEF Guards
<1>7. Handler(frame, Around(frame)) = except[i]
  BY DEF Handler, i
<1> QED
  BY <1>4, <1>5, <1>6, <1>7

\* An error that no frame wants leaves run().
LEMMA Leaving ==
  ASSUME program \in Programs, NEW m, IsMachine(m), Laid(program, m.stack, m.frames),
         NEW kept, NEW low \in 1..Len(m.frames), m.frames[low].func \in Scripts,
         kept => \A i \in 1..Len(m.frames) : low < i => m.frames[i].func \notin Scripts,
         NEW e, IsMachine(e),
         e.stack = SubSeq(m.stack, 1, m.frames[low].base), e.frames = SubSeq(m.frames, 1, low - 1),
         Raised(m, e)
  PROVE  Landed(m, e, kept)
<1> DEFINE fr == m.frames  st == m.stack  g == e.frames  u == e.stack  n == fr[low].base
<1>1. /\ fr \in Seq(Frame(program)) /\ Len(fr) \in Nat /\ low \in Nat /\ low >= 1
      /\ st \in Seq(Cells(program)) /\ Len(st) \in Nat
      /\ Typed(program, fr) /\ Linked(program, fr) /\ Owned(program, st, fr)
  BY DEF Laid, Typed, Owned
<1>2. n \in Nat /\ n < Len(st) /\ n \in 0..Len(st)
  BY <1>1, FrameFacts DEF Owned
<1>3. /\ g \in Seq(Frame(program)) /\ Len(g) = low - 1 /\ low - 1 \in 0..Len(fr)
      /\ \A i \in 1..(low - 1) : g[i] = fr[i]
  <2>1. low - 1 \in 0..Len(fr)
    BY <1>1
  <2> QED
    BY <1>1, <2>1, PrefixFacts
<1>4. u \in Seq(Cells(program)) /\ Len(u) = n /\ \A j \in 1..n : u[j] = st[j]
  BY <1>1, <1>2, PrefixFacts
<1> HIDE DEF g, u, n
<1>5. Len(g) <= Len(fr) /\ Len(g) < low /\ \A i \in 1..Len(g) : i \in 1..Len(fr) /\ i < low
  BY <1>1, <1>3
<1>6. \A i \in 1..Len(g) : g[i] = fr[i] /\ fr[i].ip \in 1..Len(program.code[fr[i].func])
  BY <1>1, <1>3, <1>5, FrameFacts
<1>7. Typed(program, g) /\ Linked(program, g)
  <2>1. \A i \in 1..Len(g) :
           /\ g[i].func = fr[i].func /\ g[i].base = fr[i].base
           /\ g[i].ip \in 1..Len(program.code[fr[i].func])
           /\ i < Len(g) => g[i] = fr[i]
    BY <1>6
  <2> QED
    BY <1>1, <1>3, <1>5, <2>1, FramesCut
<1>8. g # <<>> => Top(g).base < n
  <2> SUFFICES ASSUME g # <<>>
               PROVE  Top(g).base < n
    OBVIOUS
  <2>1. Len(g) \in 1..Len(g)
    BY <1>3
  <2>2. Top(g) = fr[Len(g)] /\ Len(g) \in 1..Len(fr) /\ Len(g) < low
    BY <1>5, <1>6, <2>1 DEF Top
  <2>3. fr[Len(g)].base < fr[low].base
    BY <1>1, <2>2 DEF Linked
  <2> QED
    BY <2>2, <2>3 DEF n
<1>9. \A i \in 1..Len(fr) : Len(g) < i /\ fr[i].func \in Scripts => n <= fr[i].base
  <2> SUFFICES ASSUME NEW i \in 1..Len(fr), Len(g) < i
               PROVE  n <= fr[i].base
    OBVIOUS
  <2>1. i = low \/ low < i
    BY <1>1, <1>3
  <2>2. fr[i].base \in Nat
    BY <1>1, FrameFacts
  <2>3. low < i => fr[low].base < fr[i].base
    BY <1>1 DEF Linked
  <2> QED
    BY <1>2, <2>1, <2>2, <2>3 DEF n
<1>10. fr # <<>> /\ n <= Level(program, Top(fr))
  <2>1. fr # <<>> /\ Len(fr) \in 1..Len(fr)
    BY <1>1
  <2>2. Level(program, Top(fr)) \in Nat /\ Top(fr).base \in Nat /\ Top(fr).base < Level(program, Top(fr))
    BY <1>1, <2>1, FrameFacts DEF Top
  <2>3. n <= Top(fr).base
    <3>1. low = Len(fr) \/ low < Len(fr)
      BY <1>1
    <3>2. low < Len(fr) => fr[low].base < fr[Len(fr)].base
      BY <1>1, <2>1 DEF Linked
    <3> QED
      BY <1>2, <2>2, <3>1, <3>2 DEF n, Top
  <2> QED
    BY <1>2, <2>1, <2>2, <2>3
<1>11. Owned(program, u, g) /\ NoScripts(u, g)
  <2>1. \A i \in 1..Len(g) : g[i].func = fr[i].func /\ g[i].base = fr[i].base
    BY <1>6
  <2>2. \A j \in 1..Len(u) : n < j => u[j] \notin Scripts
    BY <1>2, <1>4
  <2>3. n <= Len(u)
    BY <1>2, <1>4
  <2>4. Keeps(program, st, fr, u, g, n)
    BY <1>2, <1>3, <1>4, <1>5, <1>8, <1>9, <1>10, <2>1, <2>2, <2>3 DEF Keeps
  <2> QED
    BY <2>4, StackCut
<1>12. Laid(program, u, g)
  BY <1>7, <1>11 DEF Laid, NoScripts, Scriptless
<1>13. ASSUME g = <<>>
       PROVE  Settled(program, u, g)
  <2>1. low = 1
    BY <1>1, <1>3, <1>13
  <2>2. n = 0
    BY <1>1, <2>1 DEF Linked, n
  <2>3. u = <<>>
    BY <1>4, <2>2
  <2> QED
    BY <1>13, <2>3 DEF Settled
<1>14. ASSUME g # <<>>
       PROVE  Settled(program, u, g)
  <2>1. /\ Len(g) \in 1..Len(g) /\ Len(g) = low - 1
        /\ low - 1 \in 1..(Len(fr) - 1) /\ (low - 1) + 1 = low
    BY <1>1, <1>3, <1>14
  <2>2. /\ fr[low].base = Level(program, fr[low - 1]) - Gap(fr[low].func)
        /\ Paused(program, fr[low - 1])
    BY <1>1, <2>1 DEF Linked
  <2>3. Top(g) = fr[low - 1] /\ Gap(fr[low].func) = 0
    BY <1>6, <2>1 DEF Top, Gap
  <2>4. Level(program, fr[low - 1]) \in Nat
    <3>1. low - 1 \in 1..Len(fr)
      BY <1>1, <2>1
    <3> QED
      BY <1>1, <3>1, FrameFacts
  <2>5. Len(u) = Level(program, Top(g))
    BY <1>4, <2>2, <2>3, <2>4 DEF n
  <2> QED
    BY <1>14, <2>2, <2>3, <2>5 DEF Settled
<1>15. Settled(program, u, g) /\ (g = <<>> \/ Paused(program, Top(g)))
  <2>1. g # <<>> => Paused(program, Top(g))
    <3> SUFFICES ASSUME g # <<>>
                 PROVE  Paused(program, Top(g))
      OBVIOUS
    <3>1. Len(g) \in 1..Len(g) /\ Len(g) \in 1..(Len(fr) - 1)
      BY <1>1, <1>3
    <3>2. Paused(program, fr[Len(g)]) /\ Top(g) = fr[Len(g)]
      BY <1>1, <1>6, <3>1 DEF Linked, Top
    <3> QED
      BY <3>2
  <2> QED
    BY <1>13, <1>14, <2>1
<1>16. LeftBy(m, e, kept, low)
  <2>1. Firsts(fr, g, low - 1)
    BY <1>3 DEF Firsts
  <2> QED
    BY <2>1 DEF LeftBy, NoScriptAbove, g
<1> QED
  BY <1>12, <1>15, <1>16 DEF Landed, g, u

\* A frame that goes on at another instruction is else what it was.
LEMMA MovedFrame ==
  ASSUME NEW y, NEW a, NEW b, NEW c, NEW d, NEW k,
         y = [func |-> a, ip |-> b, base |-> c, tries |-> d]
  PROVE  [y EXCEPT !.ip = k] = [func |-> a, ip |-> k, base |-> c, tries |-> d]
OBVIOUS

\* The stack of a frame ends below that of the frame over it.
LEMMA LevelFacts ==
  ASSUME NEW p \in Programs, NEW fr, Typed(p, fr), Linked(p, fr), NEW i \in 1..Len(fr)
  PROVE  /\ Level(p, fr[i]) <= Level(p, Top(fr))
         /\ \A j \in 1..Len(fr) : i < j =>
              /\ Level(p, fr[i]) <= fr[j].base + 1
              /\ fr[j].func \in Scripts => Level(p, fr[i]) <= fr[j].base
<1>1. Len(fr) \in Nat /\ Level(p, fr[i]) \in Nat
  BY FrameFacts DEF Typed
<1>2. ASSUME NEW j \in 1..Len(fr), i < j
      PROVE  /\ Level(p, fr[i]) <= fr[j].base + 1
             /\ fr[j].func \in Scripts => Level(p, fr[i]) <= fr[j].base
  <2>1. i \in 1..(Len(fr) - 1) /\ i + 1 \in 1..Len(fr) /\ (j = i + 1 \/ i + 1 < j)
    BY <1>1, <1>2
  <2>2. fr[i + 1].base \in Nat /\ fr[j].base \in Nat
    BY <2>1, FrameFacts
  <2>3. fr[i + 1].base = Level(p, fr[i]) - Gap(fr[i + 1].func)
    BY <2>1 DEF Linked
  <2>4. Gap(fr[i + 1].func) \in 0..1 /\ (fr[i + 1].func \in Scripts => Gap(fr[i + 1].func) = 0)
    BY DEF Gap
  <2>5. CASE j = i + 1
    BY <1>1, <2>2, <2>3, <2>4, <2>5
  <2>6. CASE i + 1 < j
    <3>1. fr[i + 1].base < fr[j].base
      BY <2>1, <2>6 DEF Linked
    <3> QED
      BY <1>1, <2>2, <2>3, <2>4, <3>1
  <2> QED
    BY <2>1, <2>5, <2>6
<1>3. Level(p, fr[i]) <= Level(p, Top(fr))
  <2>1. Len(fr) \in 1..Len(fr) /\ (i = Len(fr) \/ i < Len(fr))
    BY <1>1
  <2>2. /\ Level(p, Top(fr)) \in Nat /\ Top(fr).base \in Nat
        /\ Top(fr).base < Level(p, Top(fr))
    BY <2>1, FrameFacts DEF Top
  <2>3. CASE i = Len(fr)
    BY <1>1, <2>3 DEF Top
  <2>4. CASE i < Len(fr)
    <3>1. Level(p, fr[i]) <= Top(fr).base + 1
      BY <1>2, <2>1, <2>4 DEF Top
    <3> QED
      BY <1>1, <2>2, <3>1
  <2> QED
    BY <2>1, <2>3, <2>4
<1> QED
  BY <1>2, <1>3

\* A frame whose last instruction can fail has the locals of any range around it.
LEMMA Guarded ==
  ASSUME NEW p \in Programs, NEW fr, Typed(p, fr), NEW i \in 1..Len(fr), NEW r,
         Guards(p, fr[i].func, r), r.start <= fr[i].ip, fr[i].ip <= r.end,
         fr[i].ip > 1, p.code[fr[i].func][fr[i].ip - 1].op \in Raising
  PROVE  r.locals <= Heights[p][fr[i].func][fr[i].ip]
<1>1. fr[i].ip \in 1..Len(p.code[fr[i].func]) /\ fr[i].ip \in Nat /\ fr[i].func \in DOMAIN p.code
  BY FrameFacts
<1>2. Len(p.code[fr[i].func]) \in Nat
  BY <1>1, FramesAssumption DEF WellFormed
<1>3. /\ r.start \in Nat /\ r.end \in 1..Len(p.code[fr[i].func])
      /\ \A k \in r.start..r.end :
           k > 1 /\ p.code[fr[i].func][k - 1].op \in Raising =>
             r.locals <= Heights[p][fr[i].func][k]
  BY DEF Guards
<1>4. r.end \in Nat
  <2> DEFINE c == Len(p.code[fr[i].func])
  <2>1. c \in Nat /\ r.end \in 1..c
    BY <1>2, <1>3
  <2> HIDE DEF c
  <2> QED
    BY <2>1
<1>5. fr[i].ip \in r.start..r.end
  BY <1>1, <1>3, <1>4
<1> QED
  BY <1>3, <1>5

\* A frame with a range around its instruction goes on at the except block.
LEMMA Catching ==
  ASSUME program \in Programs, NEW m, NEW kept, NEW i \in 1..Len(m.frames), NEW r, NEW h, NEW e
  PROVE  /\ IsMachine(m) /\ Laid(program, m.stack, m.frames)
         /\ (kept => \A j \in 1..Len(m.frames) : i < j => m.frames[j].func \notin Scripts)
         /\ Guards(program, m.frames[i].func, r) /\ r.start <= m.frames[i].ip
         /\ m.frames[i].ip <= r.end /\ h = m.frames[i].base + r.locals /\ h <= Len(m.stack)
         /\ Failed(program, m.stack, m.frames)
         /\ IsMachine(e) /\ e.stack = Append(SubSeq(m.stack, 1, h), Message)
         /\ e.frames = Append(SubSeq(m.frames, 1, i - 1), [m.frames[i] EXCEPT !.ip = r.end])
         /\ Goes(m, e)
         => Landed(m, e, kept)
<1>a. HAVE /\ IsMachine(m) /\ Laid(program, m.stack, m.frames)
           /\ (kept => \A j \in 1..Len(m.frames) : i < j => m.frames[j].func \notin Scripts)
           /\ Guards(program, m.frames[i].func, r) /\ r.start <= m.frames[i].ip
           /\ m.frames[i].ip <= r.end /\ h = m.frames[i].base + r.locals /\ h <= Len(m.stack)
           /\ Failed(program, m.stack, m.frames)
           /\ IsMachine(e) /\ e.stack = Append(SubSeq(m.stack, 1, h), Message)
           /\ e.frames = Append(SubSeq(m.frames, 1, i - 1), [m.frames[i] EXCEPT !.ip = r.end])
           /\ Goes(m, e)
<1> DEFINE fr == m.frames  st == m.stack  g == e.frames  u == e.stack
           x == [m.frames[i] EXCEPT !.ip = r.end]
<1>1. /\ fr \in Seq(Frame(program)) /\ Len(fr) \in Nat /\ i \in Nat /\ i >= 1
      /\ st \in Seq(Cells(program)) /\ Len(st) \in Nat
      /\ Typed(program, fr) /\ Linked(program, fr) /\ Owned(program, st, fr)
  BY <1>a DEF Laid, Typed, Owned
<1>2. /\ r.end \in 1..Len(program.code[fr[i].func]) /\ r.locals \in Nat \ {0} /\ r.start \in Nat \ {0}
      /\ Heights[program][fr[i].func][r.end] = r.locals + 1
  BY <1>a DEF Guards
<1>3. /\ fr[i] \in Frame(program) /\ fr[i].base \in Nat /\ Level(program, fr[i]) \in Nat
      /\ h \in Nat /\ fr[i].base < h /\ h \in 0..Len(st)
  <2>1. fr[i] \in Frame(program) /\ fr[i].base \in Nat /\ Level(program, fr[i]) \in Nat
    BY <1>1, FrameFacts
  <2> DEFINE b == fr[i].base  l == r.locals
  <2>2. b \in Nat /\ l \in Nat \ {0} /\ h = b + l
    BY <1>a, <1>2, <2>1
  <2> HIDE DEF b, l
  <2>3. h \in Nat /\ b < h
    BY <2>2
  <2>4. h \in 0..Len(st)
    BY <1>a, <1>1, <2>3
  <2> QED
    BY <2>1, <2>3, <2>4 DEF b
<1>b. ASSUME fr[i].ip > 1, program.code[fr[i].func][fr[i].ip - 1].op \in Raising
      PROVE  h <= Level(program, fr[i])
  <2>1. r.locals <= Heights[program][fr[i].func][fr[i].ip]
    BY <1>a, <1>1, <1>b, Guarded
  <2>2. Heights[program][fr[i].func][fr[i].ip] \in Nat
    BY <1>1, FrameFacts
  <2> DEFINE b == fr[i].base  l == r.locals  c == Heights[program][fr[i].func][fr[i].ip]
             v == Level(program, fr[i])
  <2>3. b \in Nat /\ c \in Nat /\ l \in Nat \ {0} /\ l <= c /\ v = b + c /\ h = b + l
    BY <1>a, <1>2, <1>3, <2>1, <2>2 DEF Level
  <2> HIDE DEF b, l, c, v
  <2>4. h <= v
    BY <2>3
  <2> QED
    BY <2>4 DEF v
<1>c. i < Len(fr) => h <= Level(program, fr[i])
  <2> SUFFICES ASSUME i < Len(fr)
               PROVE  h <= Level(program, fr[i])
    OBVIOUS
  <2>1. i \in 1..(Len(fr) - 1)
    BY <1>1
  <2>2. Paused(program, fr[i])
    BY <1>1, <2>1 DEF Linked
  <2>3. fr[i].ip > 1 /\ program.code[fr[i].func][fr[i].ip - 1].op \in Raising
    BY <2>2 DEF Paused, Raising
  <2> QED
    BY <1>b, <2>3
<1>4. /\ x \in Frame(program) /\ x.func = fr[i].func /\ x.base = fr[i].base
      /\ x.tries = fr[i].tries /\ x.ip = r.end
  <2> DEFINE y == fr[i]
  <2>1. /\ y.func \in DOMAIN program.code /\ y.base \in Nat /\ y.tries \in Nat
        /\ y = [func |-> y.func, ip |-> y.ip, base |-> y.base, tries |-> y.tries]
    BY <1>3 DEF Frame
  <2> HIDE DEF y
  <2>2. [y EXCEPT !.ip = r.end] = [func |-> y.func, ip |-> r.end, base |-> y.base, tries |-> y.tries]
    BY <2>1, MovedFrame
  <2>3. x = [func |-> y.func, ip |-> r.end, base |-> y.base, tries |-> y.tries]
    BY <2>2 DEF x, y
  <2>4. r.end \in Nat
    BY <1>2
  <2> QED
    BY <2>1, <2>3, <2>4 DEF Frame, y
<1> HIDE DEF x
<1>5. /\ g \in Seq(Frame(program)) /\ Len(g) = i /\ g[i] = x
      /\ \A j \in 1..(i - 1) : g[j] = fr[j]
  <2> DEFINE k == i - 1
  <2>1. k \in 0..Len(fr) /\ k + 1 = i /\ g = Append(SubSeq(fr, 1, k), x)
    BY <1>a, <1>1 DEF x
  <2> HIDE DEF k
  <2>2. LET w == Append(SubSeq(fr, 1, k), x)
        IN /\ w \in Seq(Frame(program)) /\ Len(w) = k + 1 /\ w[k + 1] = x
           /\ \A j \in 1..k : w[j] = fr[j]
    BY <1>1, <1>4, <2>1, AppendFacts
  <2> QED
    BY <2>1, <2>2 DEF k
<1>6. /\ u \in Seq(Cells(program)) /\ Len(u) = h + 1 /\ u[h + 1] = Message
      /\ \A j \in 1..h : u[j] = st[j]
  <2>1. Message \in Cells(program)
    BY DEF Cells
  <2>2. u = Append(SubSeq(st, 1, h), Message)
    BY <1>a
  <2> HIDE DEF u, st
  <2> QED
    BY <1>1, <1>3, <2>1, <2>2, AppendFacts
<1> HIDE DEF g, u
<1>7. /\ Len(g) <= Len(fr)
      /\ \A j \in 1..Len(g) : j \in 1..Len(fr) /\ (j = i \/ j \in 1..(i - 1))
  BY <1>1, <1>5
<1>8. \A j \in 1..Len(g) :
        /\ g[j].func = fr[j].func /\ g[j].base = fr[j].base /\ g[j].tries = fr[j].tries
        /\ g[j].ip \in 1..Len(program.code[fr[j].func])
        /\ j < Len(g) => g[j] = fr[j]
  <2> SUFFICES ASSUME NEW j \in 1..Len(g)
               PROVE  /\ g[j].func = fr[j].func /\ g[j].base = fr[j].base /\ g[j].tries = fr[j].tries
                      /\ g[j].ip \in 1..Len(program.code[fr[j].func])
                      /\ j < Len(g) => g[j] = fr[j]
    OBVIOUS
  <2>1. CASE j = i
    BY <1>1, <1>2, <1>4, <1>5, <2>1
  <2>2. CASE j \in 1..(i - 1)
    <3>1. g[j] = fr[j] /\ j \in 1..Len(fr)
      BY <1>5, <1>7, <2>2
    <3>2. fr[j].ip \in 1..Len(program.code[fr[j].func])
      BY <1>1, <3>1, FrameFacts
    <3> QED
      BY <3>1, <3>2
  <2> QED
    BY <1>7, <2>1, <2>2
<1>9. Typed(program, g) /\ Linked(program, g)
  BY <1>1, <1>5, <1>7, <1>8, FramesCut
<1>10. Top(g) = x /\ g # <<>>
  BY <1>1, <1>5 DEF Top
<1>11. Owned(program, u, g) /\ NoScripts(u, g)
  <2>1. \A j \in 1..Len(u) : h < j => u[j] \notin Scripts
    <3>1. Message \notin Scripts
      BY FramesAssumption
    <3> QED
      BY <1>3, <1>6, <3>1
  <2>2. h <= Len(u) /\ Top(g).base < h
    BY <1>3, <1>4, <1>6, <1>10
  <2>3. \A j \in 1..Len(fr) : Len(g) < j /\ fr[j].func \in Scripts => h <= fr[j].base
    <3> SUFFICES ASSUME NEW j \in 1..Len(fr), i < j, fr[j].func \in Scripts
                 PROVE  h <= fr[j].base
      BY <1>5
    <3>1. Level(program, fr[i]) <= fr[j].base /\ fr[j].base \in Nat
      BY <1>1, FrameFacts, LevelFacts
    <3>2. h <= Level(program, fr[i])
      BY <1>1, <1>c
    <3> QED
      BY <1>3, <3>1, <3>2
  <2>4. NoScripts(st, fr) \/ (fr # <<>> /\ h <= Level(program, Top(fr)))
    <3> SUFFICES ASSUME ~NoScripts(st, fr)
                 PROVE  fr # <<>> /\ h <= Level(program, Top(fr))
      OBVIOUS
    <3>1. Level(program, fr[i]) <= Level(program, Top(fr)) /\ fr # <<>> /\ Len(fr) \in 1..Len(fr)
      BY <1>1, LevelFacts
    <3>2. Level(program, Top(fr)) \in Nat
      BY <1>1, <3>1, FrameFacts DEF Top
    <3>3. Top(fr).ip > 1 /\ program.code[Top(fr).func][Top(fr).ip - 1].op \in Raising
      BY <1>a DEF Failed
    <3>4. i = Len(fr) => h <= Level(program, fr[i])
      BY <1>b, <3>3 DEF Top
    <3>5. i < Len(fr) \/ i = Len(fr)
      BY <1>1
    <3>6. h <= Level(program, fr[i])
      BY <1>c, <3>4, <3>5
    <3> QED
      BY <1>3, <3>1, <3>2, <3>6
  <2>5. Keeps(program, st, fr, u, g, h)
    BY <1>3, <1>5, <1>6, <1>7, <1>8, <2>1, <2>2, <2>3, <2>4 DEF Keeps
  <2> QED
    BY <1>a, <2>5, StackCut
<1>12. Laid(program, u, g)
  BY <1>9, <1>11 DEF Laid, NoScripts, Scriptless
<1>13. Settled(program, u, g)
  <2>1. Level(program, x) = h + 1
    <3>1. Level(program, x) = fr[i].base + (r.locals + 1)
      BY <1>2, <1>4 DEF Level
    <3> DEFINE b == fr[i].base  l == r.locals
    <3>2. b \in Nat /\ l \in Nat /\ h = b + l /\ Level(program, x) = b + (l + 1)
      BY <1>a, <1>2, <1>3, <3>1
    <3> HIDE DEF b, l
    <3> QED
      BY <3>2
  <2> QED
    BY <1>6, <1>10, <2>1 DEF Settled
<1>14. CaughtBy(m, e, kept, i)
  <2>1. Firsts(fr, g, i)
    BY <1>1, <1>5, <1>8 DEF Firsts
  <2> QED
    BY <1>a, <2>1 DEF CaughtBy, NoScriptAbove, g
<1> QED
  BY <1>a, <1>12, <1>13, <1>14 DEF Landed, g, u

\* the frames whose instruction a range is around, from a frame on
Trying(m, low) == {i \in low..Len(m.frames) : Around(m.frames[i]) # {}}

\* What the two ends of an error change
Leaves(m, e, low) ==
  /\ e.stack = SubSeq(m.stack, 1, m.frames[low].base)
  /\ e.frames = SubSeq(m.frames, 1, low - 1)
  /\ e.misled = (m.misled \/ Belongs(m)[1] >= low)
  /\ Raised(m, e)

Resumes(m, e, i, range) ==
  /\ e.stack = Append(SubSeq(m.stack, 1, m.frames[i].base + range.locals), Message)
  /\ e.frames = Append(SubSeq(m.frames, 1, i - 1), [m.frames[i] EXCEPT !.ip = range.end])
  /\ e.misled = (m.misled \/ Belongs(m) # <<i, range.end>>)
  /\ Goes(m, e)

Ends(m, e, kept) ==
  LET low == LastFrame(m, kept)
      i == Max(Trying(m, low))
      range == Handler(m.frames[i], Around(m.frames[i]))
      height == m.frames[i].base + range.locals
  IN /\ IsMachine(e)
     /\ m.frames = <<>> => Stays(m, e) /\ e.fault = "no frame"
     /\ m.frames # <<>> /\ Trying(m, low) = {} => Leaves(m, e, low)
     /\ m.frames # <<>> /\ Trying(m, low) # {} /\ Len(m.stack) < height =>
          Stays(m, e) /\ e.fault = "stack"
     /\ m.frames # <<>> /\ Trying(m, low) # {} /\ ~(Len(m.stack) < height) =>
          Resumes(m, e, i, range)

\* An error finds its frame, or leaves run(), or finds the locals gone.
LEMMA ExceptionFields ==
  ASSUME NEW m, IsMachine(m), NEW kept, NEW e, e = Exception(m, kept)
  PROVE  Ends(m, e, kept)
<1> DEFINE low == LastFrame(m, kept)
           trying == Trying(m, low)
           i == Max(trying)
           frame == m.frames[i]
           range == Handler(frame, Around(frame))
           height == frame.base + range.locals
           c == Cut(m, m.frames[low].base)
           d == Push(Cut(m, height), Message)
           q == m.misled \/ Belongs(m)[1] >= low
           o == IF m.error THEN "error twice" ELSE m.fault
           t == m.misled \/ Belongs(m) # <<i, range.end>>
           w == Append(SubSeq(m.frames, 1, i - 1), [frame EXCEPT !.ip = range.end])
<1>1. /\ c.stack = SubSeq(m.stack, 1, m.frames[low].base) /\ c.frames = m.frames /\ c.mode = m.mode
      /\ c.error = m.error /\ c.misled = m.misled /\ c.fault = m.fault
      /\ DOMAIN c = {"stack", "frames", "mode", "error", "misled", "fault"}
  BY DEF IsMachine, Cut
<1>2. /\ d.stack = Append(SubSeq(m.stack, 1, height), Message) /\ d.frames = m.frames
      /\ d.mode = m.mode /\ d.error = m.error /\ d.misled = m.misled /\ d.fault = m.fault
      /\ DOMAIN d = {"stack", "frames", "mode", "error", "misled", "fault"}
  BY DEF IsMachine, Cut, Push
<1>3. e = IF m.frames = <<>> THEN [m EXCEPT !.fault = "no frame"]
          ELSE IF trying = {} THEN
            [c EXCEPT !.frames = SubSeq(c.frames, 1, low - 1), !.mode = "done", !.error = TRUE,
                      !.fault = IF m.error THEN "error twice" ELSE c.fault,
                      !.misled = c.misled \/ Belongs(m)[1] >= low]
          ELSE IF Len(m.stack) < height THEN [m EXCEPT !.fault = "stack"]
          ELSE
            [d EXCEPT !.frames = Append(SubSeq(d.frames, 1, i - 1), [frame EXCEPT !.ip = range.end]),
                      !.misled = d.misled \/ Belongs(m) # <<i, range.end>>]
  BY DEF Exception, Trying
<1> HIDE DEF c, d
<1>4. q \in BOOLEAN /\ t \in BOOLEAN /\ o \in Faults
  BY DEF IsMachine, Faults
<1>5. e = IF m.frames = <<>> THEN [m EXCEPT !.fault = "no frame"]
          ELSE IF trying = {} THEN
            [c EXCEPT !.frames = SubSeq(m.frames, 1, low - 1), !.mode = "done", !.error = TRUE,
                      !.fault = o, !.misled = q]
          ELSE IF Len(m.stack) < height THEN [m EXCEPT !.fault = "stack"]
          ELSE [d EXCEPT !.frames = w, !.misled = t]
  BY <1>1, <1>2, <1>3
<1> HIDE DEF low, trying, i, frame, range, height, q, o, t, w
<1>6. m.frames = <<>> => IsMachine(e) /\ Stays(m, e) /\ e.fault = "no frame"
  BY <1>5 DEF IsMachine, Stays, Faults
<1>7. m.frames # <<>> /\ trying = {} =>
        /\ IsMachine(e) /\ e.stack = c.stack /\ e.frames = SubSeq(m.frames, 1, low - 1)
        /\ e.misled = q /\ e.mode = "done" /\ e.error = TRUE /\ e.fault = o
  BY <1>1, <1>4, <1>5 DEF IsMachine, Faults
<1>8. m.frames # <<>> /\ trying # {} /\ Len(m.stack) < height =>
        IsMachine(e) /\ Stays(m, e) /\ e.fault = "stack"
  BY <1>5 DEF IsMachine, Stays, Faults
<1>9. m.frames # <<>> /\ trying # {} /\ ~(Len(m.stack) < height) =>
        /\ IsMachine(e) /\ e.stack = d.stack /\ e.frames = w /\ e.misled = t
        /\ e.mode = m.mode /\ e.error = m.error /\ e.fault = m.fault
  BY <1>2, <1>4, <1>5 DEF IsMachine, Faults
<1>10. m.frames # <<>> /\ trying = {} => Leaves(m, e, low)
  BY <1>1, <1>7 DEF Leaves, Raised, o, q
<1>11. m.frames # <<>> /\ trying # {} /\ ~(Len(m.stack) < height) => Resumes(m, e, i, range)
  BY <1>2, <1>9 DEF Resumes, Goes, t, w, height, frame
<1> QED
  BY <1>6, <1>7, <1>8, <1>9, <1>10, <1>11 DEF Ends, low, trying, i, frame, range, height

\* the frames that are tried are among the frames
LEMMA TryingFacts ==
  ASSUME NEW m, NEW S, m.frames \in Seq(S), NEW low \in 1..Len(m.frames), Trying(m, low) # {}
  PROVE  LET i == Max(Trying(m, low))
         IN /\ i \in low..Len(m.frames) /\ i \in 1..Len(m.frames) /\ Around(m.frames[i]) # {}
            /\ \A j \in low..Len(m.frames) : Around(m.frames[j]) # {} => j <= i
<1>1. Len(m.frames) \in Nat
  OBVIOUS
<1>2. Trying(m, low) \in SUBSET (0..Len(m.frames)) /\ Trying(m, low) \subseteq low..Len(m.frames)
  BY <1>1 DEF Trying
<1>3. Max(Trying(m, low)) \in Trying(m, low) /\ \A x \in Trying(m, low) : x <= Max(Trying(m, low))
  BY <1>1, <1>2, MaxFacts
<1> DEFINE i == Max(Trying(m, low))
<1> HIDE DEF i
<1>4. i \in Trying(m, low) /\ \A x \in Trying(m, low) : x <= i
  BY <1>3 DEF i
<1>5. i \in low..Len(m.frames) /\ Around(m.frames[i]) # {}
  BY <1>4 DEF Trying
<1>6. \A j \in low..Len(m.frames) : Around(m.frames[j]) # {} => j <= i
  BY <1>4 DEF Trying
<1>7. i \in 1..Len(m.frames)
  BY <1>1, <1>5
<1> QED
  BY <1>5, <1>6, <1>7 DEF i

\* An error leaves a stack of frames, wherever it goes.
LEMMA ExceptionFacts ==
  ASSUME program \in Programs, NEW m, NEW kept \in BOOLEAN, NEW e
  PROVE  /\ IsMachine(m) /\ Laid(program, m.stack, m.frames) /\ m.frames # <<>>
         /\ Failed(program, m.stack, m.frames)
         /\ e = Exception(m, kept)
         => IsMachine(e) /\ Landed(m, e, kept)
<1>a. HAVE /\ IsMachine(m) /\ Laid(program, m.stack, m.frames) /\ m.frames # <<>>
           /\ Failed(program, m.stack, m.frames)
           /\ e = Exception(m, kept)
<1> DEFINE low == LastFrame(m, kept)
           i == Max(Trying(m, low))
           range == Handler(m.frames[i], Around(m.frames[i]))
           height == m.frames[i].base + range.locals
<1>1. /\ IsMachine(e)
      /\ m.frames # <<>> /\ Trying(m, low) = {} => Leaves(m, e, low)
      /\ m.frames # <<>> /\ Trying(m, low) # {} /\ Len(m.stack) < height =>
           Stays(m, e) /\ e.fault = "stack"
      /\ m.frames # <<>> /\ Trying(m, low) # {} /\ ~(Len(m.stack) < height) =>
           Resumes(m, e, i, range)
  <2>1. Ends(m, e, kept)
    BY <1>a, ExceptionFields
  <2> QED
    BY <2>1 DEF Ends
<1>2. /\ low \in 1..Len(m.frames) /\ m.frames[low].func \in Scripts
      /\ kept => \A j \in 1..Len(m.frames) : low < j => m.frames[j].func \notin Scripts
      /\ Typed(program, m.frames) /\ m.frames \in Seq(Frame(program)) /\ m.stack \in Seq(Cells(program))
  <2>1. Typed(program, m.frames) /\ Linked(program, m.frames) /\ Owned(program, m.stack, m.frames)
    BY <1>a DEF Laid
  <2> QED
    BY <1>a, <2>1, LastFrameFacts DEF Typed, Owned
<1> HIDE DEF low
<1>3. ASSUME Trying(m, low) = {}
      PROVE  Landed(m, e, kept)
  <2>1. Leaves(m, e, low)
    BY <1>a, <1>1, <1>3
  <2>2. /\ e.stack = SubSeq(m.stack, 1, m.frames[low].base) /\ e.frames = SubSeq(m.frames, 1, low - 1)
        /\ Raised(m, e)
    BY <2>1 DEF Leaves
  <2> QED
    BY <1>a, <1>1, <1>2, <2>2, Leaving
<1>4. ASSUME Trying(m, low) # {}
      PROVE  Landed(m, e, kept)
  <2>1. i \in low..Len(m.frames) /\ i \in 1..Len(m.frames) /\ Around(m.frames[i]) # {}
    BY <1>2, <1>4, TryingFacts
  <2> HIDE DEF i
  <2>2. m.frames[i].func \in DOMAIN program.code /\ m.frames[i].base \in Nat
    BY <1>2, <2>1, FrameFacts
  <2>3. /\ range.start <= m.frames[i].ip /\ m.frames[i].ip <= range.end
        /\ Guards(program, m.frames[i].func, range) /\ range.locals \in Nat \ {0}
    BY <2>1, <2>2, HandlerFacts
  <2> HIDE DEF range
  <2>4. height \in Nat /\ Len(m.stack) \in Nat
    BY <1>2, <2>2, <2>3
  <2>5. kept => \A j \in 1..Len(m.frames) : i < j => m.frames[j].func \notin Scripts
    <3>1. \A j \in 1..Len(m.frames) : i < j => low < j
      BY <1>2, <2>1
    <3> QED
      BY <1>2, <3>1
  <2>6. ASSUME Len(m.stack) < height
        PROVE  Landed(m, e, kept)
    <3>1. Stuck(m, e)
      BY <1>a, <1>1, <1>4, <2>6 DEF Stuck
    <3>2. e.stack = m.stack /\ e.frames = m.frames
      BY <3>1 DEF Stuck, Stays
    <3> QED
      BY <1>a, <1>1, <3>1, <3>2 DEF Landed
  <2>7. ASSUME ~(Len(m.stack) < height)
        PROVE  Landed(m, e, kept)
    <3>1. Resumes(m, e, i, range)
      BY <1>a, <1>1, <1>4, <2>7
    <3>2. /\ e.stack = Append(SubSeq(m.stack, 1, height), Message)
          /\ e.frames = Append(SubSeq(m.frames, 1, i - 1), [m.frames[i] EXCEPT !.ip = range.end])
          /\ Goes(m, e)
      BY <3>1 DEF Resumes
    <3>3. height <= Len(m.stack)
      BY <2>4, <2>7
    <3> DEFINE h == height
    <3>4. h = m.frames[i].base + range.locals
      OBVIOUS
    <3> HIDE DEF h
    <3>5. /\ e.stack = Append(SubSeq(m.stack, 1, h), Message) /\ h <= Len(m.stack)
      BY <3>2, <3>3 DEF h
    <3> QED
      BY <1>a, <1>1, <2>1, <2>3, <2>5, <3>2, <3>4, <3>5, Catching
  <2> QED
    BY <2>6, <2>7
<1> QED
  BY <1>1, <1>3, <1>4

-----------------------------------------------------------------------------
(* An instruction of the top frame *)

\* g is fr with its last frame at the instruction k
Turned(p, fr, g, k) ==
  /\ g \in Seq(Frame(p)) /\ Len(g) = Len(fr)
  /\ \A j \in 1..(Len(fr) - 1) : g[j] = fr[j]
  /\ Top(g).func = Top(fr).func /\ Top(g).base = Top(fr).base /\ Top(g).tries = Top(fr).tries
  /\ Top(g).ip = k

\* the stack u keeps the slots of st up to n, which are more than those below
\* the top frame and its function, and has no script above
Moved(p, st, fr, u, n) ==
  /\ n \in 0..Len(st) /\ u \in Seq(Cells(p)) /\ n <= Len(u)
  /\ \A j \in 1..n : u[j] = st[j]
  /\ \A j \in 1..Len(u) : n < j => u[j] \notin Scripts
  /\ Top(fr).base < n

\* what the assumption says of the instruction of the top frame
LEMMA InstructionFacts ==
  ASSUME NEW p \in Programs, NEW fr, Typed(p, fr), fr # <<>>,
         NEW f, NEW i, NEW b, f = Top(fr).func, i = Top(fr).ip, b = Top(fr).base
  PROVE  /\ f \in DOMAIN p.code /\ i \in 1..Len(p.code[f]) /\ b \in Nat /\ Top(fr).tries \in Nat
         /\ Heights[p][f] \in [1..Len(p.code[f]) -> Nat \ {0}]
         /\ Len(p.code[f]) \in Nat \ {0} /\ i \in Nat
         /\ Fits(p, f, i) /\ Level(p, Top(fr)) = b + Heights[p][f][i]
         /\ Heights[p][f][i] \in Nat
         /\ Len(fr) \in 1..Len(fr) /\ Len(fr) \in Nat
<1>1. Len(fr) \in 1..Len(fr) /\ Len(fr) \in Nat
  BY DEF Typed
<1>2. /\ f \in DOMAIN p.code /\ i \in 1..Len(p.code[f]) /\ b \in Nat /\ Top(fr).tries \in Nat /\ i \in Nat
  BY <1>1, FrameFacts DEF Top
<1>3. /\ Heights[p][f] \in [1..Len(p.code[f]) -> Nat \ {0}] /\ Len(p.code[f]) \in Nat \ {0}
      /\ Fits(p, f, i)
  BY <1>2, FramesAssumption DEF WellFormed
<1>4. Heights[p][f][i] \in Nat
  BY <1>2, <1>3
<1> QED
  BY <1>1, <1>2, <1>3, <1>4 DEF Level

\* A sequence with another element at one place
LEMMA ExceptFacts ==
  ASSUME NEW S, NEW s \in Seq(S), NEW l \in 1..Len(s), NEW x \in S, NEW g, g = [s EXCEPT ![l] = x]
  PROVE  /\ g \in Seq(S) /\ Len(g) = Len(s) /\ g[l] = x
         /\ \A j \in 1..Len(s) : j # l => g[j] = s[j]
<1>1. Len(s) \in Nat /\ s \in [1..Len(s) -> S]
  OBVIOUS
<1>2. g \in [1..Len(s) -> S]
  BY <1>1
<1>3. g[l] = x /\ \A j \in 1..Len(s) : j # l => g[j] = s[j]
  BY <1>1
<1>4. g \in Seq(S) /\ Len(g) = Len(s)
  BY <1>1, <1>2
<1> QED
  BY <1>3, <1>4

\* The last frame can be turned to any instruction.
LEMMA Turning ==
  ASSUME NEW p \in Programs, NEW fr, Typed(p, fr), fr # <<>>,
         NEW k \in Nat, NEW l, l = Len(fr), NEW g, g = [fr EXCEPT ![l] = [fr[l] EXCEPT !.ip = k]]
  PROVE  Turned(p, fr, g, k)
<1> DEFINE y == fr[l]  x == [y EXCEPT !.ip = k]
<1>1. fr \in Seq(Frame(p)) /\ l \in 1..Len(fr) /\ l \in Nat
  BY DEF Typed
<1>2. y \in Frame(p)
  BY <1>1
<1>3. /\ y.func \in DOMAIN p.code /\ y.base \in Nat /\ y.tries \in Nat
      /\ y = [func |-> y.func, ip |-> y.ip, base |-> y.base, tries |-> y.tries]
  BY <1>2 DEF Frame
<1> HIDE DEF y
<1>4. x = [func |-> y.func, ip |-> k, base |-> y.base, tries |-> y.tries]
  BY <1>3, MovedFrame
<1>5. /\ x \in Frame(p) /\ x.func = y.func /\ x.base = y.base /\ x.tries = y.tries /\ x.ip = k
  BY <1>3, <1>4 DEF Frame
<1>6. g = [fr EXCEPT ![l] = x]
  BY DEF x, y
<1> HIDE DEF x
<1>7. g \in Seq(Frame(p)) /\ Len(g) = Len(fr) /\ g[l] = x /\ \A j \in 1..(Len(fr) - 1) : g[j] = fr[j]
  <2>1. g \in Seq(Frame(p)) /\ Len(g) = Len(fr) /\ g[l] = x /\ \A j \in 1..Len(fr) : j # l => g[j] = fr[j]
    BY <1>1, <1>5, <1>6, ExceptFacts
  <2>2. \A j \in 1..(Len(fr) - 1) : j \in 1..Len(fr) /\ j # l
    BY <1>1
  <2> QED
    BY <2>1, <2>2
<1>8. Top(g) = x /\ Top(fr) = y
  BY <1>7 DEF Top, y
<1> QED
  BY <1>5, <1>7, <1>8 DEF Turned

\* An instruction that stays in its frame moves the top of the stack.
LEMMA Moving ==
  ASSUME NEW p \in Programs, NEW st, NEW fr, Laid(p, st, fr), Settled(p, st, fr), fr # <<>>,
         NEW f, f = Top(fr).func, NEW k \in 1..Len(p.code[f]), NEW g, Turned(p, fr, g, k),
         NEW u, NEW n, Moved(p, st, fr, u, n)
  PROVE  /\ Laid(p, u, g) /\ NoScripts(u, g) /\ g # <<>>
         /\ Level(p, Top(g)) = Top(fr).base + Heights[p][f][k]
<1>1. /\ fr \in Seq(Frame(p)) /\ Len(fr) \in Nat /\ Len(fr) \in 1..Len(fr)
      /\ Typed(p, fr) /\ Linked(p, fr) /\ st \in Seq(Cells(p)) /\ Len(st) \in Nat
      /\ Len(st) = Level(p, Top(fr))
  BY DEF Laid, Typed, Owned, Settled
<1>2. /\ g \in Seq(Frame(p)) /\ Len(g) = Len(fr) /\ \A j \in 1..(Len(fr) - 1) : g[j] = fr[j]
      /\ Top(g).func = f /\ Top(g).base = Top(fr).base /\ Top(g).ip = k
  BY DEF Turned
<1>3. \A j \in 1..Len(g) :
        /\ g[j].func = fr[j].func /\ g[j].base = fr[j].base
        /\ g[j].ip \in 1..Len(p.code[fr[j].func])
        /\ j < Len(g) => g[j] = fr[j]
  <2> SUFFICES ASSUME NEW j \in 1..Len(g)
               PROVE  /\ g[j].func = fr[j].func /\ g[j].base = fr[j].base
                      /\ g[j].ip \in 1..Len(p.code[fr[j].func])
                      /\ j < Len(g) => g[j] = fr[j]
    OBVIOUS
  <2>1. CASE j = Len(fr)
    BY <1>1, <1>2, <2>1 DEF Top
  <2>2. CASE j \in 1..(Len(fr) - 1)
    <3>1. g[j] = fr[j] /\ j \in 1..Len(fr)
      BY <1>1, <1>2, <2>2
    <3>2. fr[j].ip \in 1..Len(p.code[fr[j].func])
      BY <1>1, <3>1, FrameFacts
    <3> QED
      BY <3>1, <3>2
  <2> QED
    BY <1>1, <1>2, <2>1, <2>2
<1>4. Typed(p, g) /\ Linked(p, g)
  <2>1. Len(g) <= Len(fr)
    BY <1>1, <1>2
  <2> QED
    BY <1>1, <1>2, <1>3, <2>1, FramesCut
<1>5. Owned(p, u, g) /\ NoScripts(u, g)
  <2>1. /\ n \in 0..Len(st) /\ u \in Seq(Cells(p)) /\ n <= Len(u)
        /\ \A j \in 1..n : u[j] = st[j]
        /\ \A j \in 1..Len(u) : n < j => u[j] \notin Scripts
        /\ Top(fr).base < n
    BY DEF Moved
  <2>2. n <= Level(p, Top(fr))
    BY <1>1, <2>1
  <2>3. \A i \in 1..Len(fr) : Len(g) < i /\ fr[i].func \in Scripts => n <= fr[i].base
    BY <1>1, <1>2
  <2>4. Len(g) <= Len(fr)
    BY <1>1, <1>2
  <2>5. Keeps(p, st, fr, u, g, n)
    BY <1>2, <1>3, <2>1, <2>2, <2>3, <2>4 DEF Keeps
  <2> QED
    BY <2>5, StackCut
<1>6. g # <<>>
  BY <1>1, <1>2
<1>7. Laid(p, u, g)
  BY <1>4, <1>5 DEF Laid, NoScripts, Scriptless
<1>8. Level(p, Top(g)) = Top(fr).base + Heights[p][f][k]
  BY <1>2 DEF Level
<1> QED
  BY <1>5, <1>6, <1>7, <1>8

-----------------------------------------------------------------------------
(* Frames come and go *)

\* the frame of a function that has been called, and frames with one more
Begun(f, b, t) == [func |-> f, ip |-> 1, base |-> b, tries |-> t]

Above(g, x) == Append(g, x)

\* f and its arguments are on the stack, from b up, over what the frames own
Offered(p, st, g, f, b) ==
  /\ st \in Seq(Cells(p)) /\ Typed(p, g) /\ Linked(p, g) /\ Owned(p, st, g)
  /\ g = <<>> => f = Main /\ b = 0
  /\ g # <<>> => /\ Top(g).base < b /\ b = Level(p, Top(g)) - Gap(f)
                 /\ Paused(p, Top(g))
  /\ Len(st) = b + (p.arity[f] + 1) /\ st[b + 1] = f
  /\ \A j \in 1..Len(st) : st[j] \in Scripts =>
       j = b + 1 \/ \E i \in 1..Len(g) : j = g[i].base + 1

\* A function that is called gets a frame over its arguments.
LEMMA Entering ==
  ASSUME NEW p \in Programs, NEW st, NEW g, NEW f \in DOMAIN p.code, NEW b \in Nat, NEW t \in Nat,
         NEW x, NEW h
  PROVE  /\ Offered(p, st, g, f, b) /\ x = Begun(f, b, t) /\ h = Above(g, x)
         => Laid(p, st, h) /\ Settled(p, st, h) /\ h # <<>>
<1>a. HAVE /\ Offered(p, st, g, f, b) /\ x = Begun(f, b, t) /\ h = Above(g, x)
<1> DEFINE l == Len(g) + 1
<1>0. /\ st \in Seq(Cells(p)) /\ Typed(p, g) /\ Linked(p, g) /\ Owned(p, st, g)
      /\ g = <<>> => f = Main /\ b = 0
      /\ g # <<>> => /\ Top(g).base < b /\ b = Level(p, Top(g)) - Gap(f)
                     /\ Paused(p, Top(g))
      /\ Len(st) = b + (p.arity[f] + 1) /\ st[b + 1] = f
      /\ \A j \in 1..Len(st) : st[j] \in Scripts =>
           j = b + 1 \/ \E i \in 1..Len(g) : j = g[i].base + 1
  BY <1>a DEF Offered
<1>1. g \in Seq(Frame(p)) /\ Len(g) \in Nat /\ l \in Nat /\ l \in 1..l /\ Len(st) \in Nat
  BY <1>0 DEF Typed
<1>2. /\ p.arity[f] \in Nat /\ Len(p.code[f]) \in Nat \ {0}
      /\ Heights[p][f][1] = p.arity[f] + 1
  BY FramesAssumption DEF WellFormed
<1>3. x \in Frame(p) /\ x.func = f /\ x.ip = 1 /\ x.base = b /\ x.ip \in 1..Len(p.code[f])
  BY <1>a, <1>2 DEF Frame, Begun
<1> HIDE DEF l
<1>4. h \in Seq(Frame(p)) /\ Len(h) = l /\ h[l] = x /\ \A j \in 1..Len(g) : h[j] = g[j]
  BY <1>a, <1>1, <1>3 DEF l, Above
<1>5. \A j \in 1..l : (j \in 1..Len(g) /\ h[j] = g[j]) \/ (j = l /\ h[j] = x)
  BY <1>1, <1>4 DEF l
<1>6. Top(h) = x /\ h # <<>>
  BY <1>1, <1>4 DEF Top
<1>7. Typed(p, h)
  <2>1. ASSUME NEW j \in 1..Len(h)
        PROVE  h[j].ip \in 1..Len(p.code[h[j].func])
    BY <1>0, <1>3, <1>4, <1>5, FrameFacts
  <2> QED
    BY <1>4, <2>1 DEF Typed
<1>8. ASSUME NEW j \in 1..Len(g)
      PROVE  g[j].base < b /\ g[j].base \in Nat
  <2>1. g # <<>> /\ Len(g) \in 1..Len(g) /\ (j = Len(g) \/ j < Len(g))
    BY <1>1
  <2>2. j < Len(g) => g[j].base < g[Len(g)].base
    BY <1>0, <2>1 DEF Linked
  <2>3. g[j].base \in Nat /\ g[Len(g)].base \in Nat /\ g[Len(g)].base < b
    BY <1>0, <2>1, FrameFacts DEF Top
  <2> QED
    BY <2>1, <2>2, <2>3
<1>9. Linked(p, h)
  <2>1. h[1].func = Main /\ h[1].base = 0
    <3>1. CASE g = <<>>
      <4>1. l = 1
        BY <3>1 DEF l
      <4> QED
        BY <1>0, <1>3, <1>4, <3>1, <4>1
    <3>2. CASE g # <<>>
      <4>1. 1 \in 1..Len(g)
        BY <1>1, <3>2
      <4> QED
        BY <1>0, <1>4, <3>2, <4>1 DEF Linked
    <3> QED
      BY <3>1, <3>2
  <2>2. ASSUME NEW i \in 1..Len(h), NEW j \in 1..Len(h), i < j
        PROVE  h[i].base < h[j].base
    <3>1. i \in 1..Len(g)
      BY <1>1, <1>4, <2>2 DEF l
    <3>2. CASE j \in 1..Len(g)
      BY <1>0, <1>4, <2>2, <3>1, <3>2 DEF Linked
    <3>3. CASE j = l
      BY <1>3, <1>4, <1>8, <3>1, <3>3
    <3> QED
      BY <1>4, <1>5, <3>2, <3>3
  <2>3. ASSUME NEW i \in 1..(Len(h) - 1)
        PROVE  h[i + 1].base = Level(p, h[i]) - Gap(h[i + 1].func) /\ Paused(p, h[i])
    <3>1. i \in 1..Len(g) /\ (i = Len(g) \/ i \in 1..(Len(g) - 1)) /\ g # <<>>
      BY <1>1, <1>4 DEF l
    <3>2. CASE i \in 1..(Len(g) - 1)
      <4>1. i + 1 \in 1..Len(g)
        BY <1>1, <3>2
      <4>2. h[i] = g[i] /\ h[i + 1] = g[i + 1]
        BY <1>4, <3>1, <4>1
      <4>3. g[i + 1].base = Level(p, g[i]) - Gap(g[i + 1].func) /\ Paused(p, g[i])
        BY <1>0, <3>2 DEF Linked
      <4> QED
        BY <4>2, <4>3
    <3>3. CASE i = Len(g)
      <4>1. h[i] = Top(g) /\ h[i + 1] = x
        BY <1>4, <3>1, <3>3 DEF l, Top
      <4> QED
        BY <1>0, <1>3, <3>1, <4>1
    <3> QED
      BY <3>1, <3>2, <3>3
  <2> QED
    BY <2>1, <2>2, <2>3 DEF Linked
<1>10. Owned(p, st, h)
  <2>1. ASSUME NEW i \in 1..Len(h)
        PROVE  h[i].base < Len(st) /\ st[h[i].base + 1] = h[i].func
    <3>1. CASE i \in 1..Len(g)
      BY <1>0, <1>4, <3>1 DEF Owned
    <3>2. CASE i = l
      <4> DEFINE a == p.arity[f]  z == Len(st)
      <4>1. h[i] = x /\ x.base = b /\ x.func = f /\ st[b + 1] = f
        BY <1>0, <1>3, <1>4, <3>2
      <4>2. z = b + (a + 1) /\ a \in Nat /\ b \in Nat
        BY <1>0, <1>2
      <4> HIDE DEF a, z
      <4>3. b < z
        BY <4>2
      <4> QED
        BY <4>1, <4>3 DEF z
    <3> QED
      BY <1>4, <1>5, <3>1, <3>2
  <2> QED
    BY <1>0, <2>1 DEF Owned
<1>11. Scriptless(p, st, h)
  <2>1. ASSUME NEW j \in 1..Len(st), st[j] \in Scripts
        PROVE  \E i \in 1..Len(h) : j = h[i].base + 1
    <3>1. CASE j = b + 1
      BY <1>1, <1>3, <1>4, <3>1
    <3>2. CASE \E i \in 1..Len(g) : j = g[i].base + 1
      <4>1. PICK i \in 1..Len(g) : j = g[i].base + 1
        BY <3>2
      <4>2. i \in 1..Len(h) /\ h[i] = g[i]
        BY <1>1, <1>4 DEF l
      <4> QED
        BY <4>1, <4>2
    <3> QED
      BY <1>0, <2>1, <3>1, <3>2
  <2> QED
    BY <2>1 DEF Scriptless
<1>12. Settled(p, st, h)
  <2>1. Level(p, x) = b + (p.arity[f] + 1)
    BY <1>2, <1>3 DEF Level
  <2> QED
    BY <1>0, <1>6, <2>1 DEF Settled
<1> QED
  BY <1>6, <1>7, <1>9, <1>10, <1>11, <1>12 DEF Laid

\* g is fr without its last frame, u is the first b slots of st
Lowered(fr, g) == Len(g) = Len(fr) - 1 /\ \A j \in 1..(Len(fr) - 1) : g[j] = fr[j]

Lower(st, u, b) == Len(u) = b /\ \A j \in 1..b : u[j] = st[j]

\* The frames without the last one, over the stack that the last one began at.
LEMMA Returning ==
  ASSUME NEW p \in Programs, NEW st, NEW fr, Laid(p, st, fr), fr # <<>>,
         NEW b, b = Top(fr).base, NEW f, f = Top(fr).func,
         NEW g \in Seq(Frame(p)), Lowered(fr, g), NEW u \in Seq(Cells(p)), Lower(st, u, b)
  PROVE  /\ Typed(p, g) /\ Linked(p, g) /\ Owned(p, u, g) /\ NoScripts(u, g)
         /\ g = <<>> => b = 0 /\ f = Main
         /\ g # <<>> => /\ b = Level(p, Top(g)) - Gap(f) /\ Paused(p, Top(g))
                        /\ Level(p, Top(g)) \in Nat /\ Top(g).base < b
<1> DEFINE l == Len(fr) - 1
<1>1. /\ fr \in Seq(Frame(p)) /\ Len(fr) \in Nat /\ Len(fr) \in 1..Len(fr) /\ l \in 0..Len(fr)
      /\ Typed(p, fr) /\ Linked(p, fr) /\ st \in Seq(Cells(p)) /\ Len(st) \in Nat
      /\ Owned(p, st, fr) /\ l \in Nat
  BY DEF Laid, Typed, Owned
<1>2. b \in Nat /\ b < Len(st) /\ b \in 0..Len(st)
  BY <1>1, FrameFacts DEF Owned, Top
<1>3. g \in Seq(Frame(p)) /\ Len(g) = l /\ \A j \in 1..l : g[j] = fr[j]
  BY DEF Lowered
<1>4. u \in Seq(Cells(p)) /\ Len(u) = b /\ \A j \in 1..b : u[j] = st[j]
  BY DEF Lower
<1>5. \A j \in 1..Len(g) :
        /\ j \in 1..Len(fr) /\ j < Len(fr) /\ g[j] = fr[j] /\ fr[j].ip \in 1..Len(p.code[fr[j].func])
  <2>1. Len(g) = l /\ l \in Nat /\ l < Len(fr) /\ Len(fr) \in Nat
    BY <1>1, <1>3
  <2>2. \A j \in 1..l : g[j] = fr[j]
    BY <1>3
  <2> HIDE DEF l
  <2>3. \A j \in 1..Len(g) : j \in 1..Len(fr) /\ j < Len(fr) /\ g[j] = fr[j]
    BY <2>1, <2>2
  <2> QED
    BY <1>1, <2>3, FrameFacts
<1>6. Len(g) <= Len(fr)
  BY <1>1, <1>3
<1>7. Typed(p, g) /\ Linked(p, g)
  BY <1>1, <1>3, <1>5, <1>6, FramesCut
<1>8. ASSUME g # <<>>
      PROVE  /\ b = Level(p, Top(g)) - Gap(f) /\ Paused(p, Top(g)) /\ Level(p, Top(g)) \in Nat
             /\ Top(g).base < b
  <2>1. l \in 1..(Len(fr) - 1) /\ l + 1 = Len(fr) /\ l \in 1..Len(g) /\ l \in 1..Len(fr) /\ l < Len(fr)
    BY <1>1, <1>3, <1>8
  <2> HIDE DEF l
  <2>2. Top(g) = fr[l] /\ fr[l + 1] = Top(fr)
    BY <1>3, <2>1 DEF Top
  <2>3. fr[l + 1].base = Level(p, fr[l]) - Gap(fr[l + 1].func) /\ Paused(p, fr[l])
    BY <1>1, <2>1 DEF Linked
  <2>4. Level(p, fr[l]) \in Nat
    BY <1>1, <2>1, FrameFacts
  <2>5. fr[l].base < fr[Len(fr)].base
    BY <1>1, <2>1 DEF Linked
  <2> QED
    BY <2>1, <2>2, <2>3, <2>4, <2>5 DEF Top
<1>9. ASSUME g = <<>>
      PROVE  b = 0 /\ f = Main
  <2>1. Len(<<>>) = 0
    OBVIOUS
  <2>2. Len(fr) - 1 = 0
    BY <1>3, <1>9, <2>1
  <2>3. Len(fr) = 1
    BY <1>1, <2>2
  <2> QED
    BY <1>1, <2>3 DEF Linked, Top
<1>10. Owned(p, u, g) /\ NoScripts(u, g)
  <2>1. \A i \in 1..Len(fr) : Len(g) < i /\ fr[i].func \in Scripts => b <= fr[i].base
    <3>1. \A i \in 1..Len(fr) : Len(g) < i => i = Len(fr)
      BY <1>1, <1>3
    <3> QED
      BY <1>2, <3>1 DEF Top
  <2>2. fr # <<>> /\ b <= Level(p, Top(fr))
    <3>1. Level(p, Top(fr)) \in Nat /\ Top(fr).base < Level(p, Top(fr))
      BY <1>1, FrameFacts DEF Top
    <3> QED
      BY <1>2, <3>1
  <2>3. b <= Len(u) /\ \A j \in 1..Len(u) : b < j => u[j] \notin Scripts
    BY <1>2, <1>4
  <2>4. \A j \in 1..Len(g) : g[j].func = fr[j].func /\ g[j].base = fr[j].base
    BY <1>5
  <2>5. Keeps(p, st, fr, u, g, b)
    BY <1>2, <1>3, <1>4, <1>6, <1>8, <2>1, <2>2, <2>3, <2>4 DEF Keeps
  <2> QED
    BY <2>5, StackCut
<1> QED
  BY <1>2, <1>3, <1>4, <1>7, <1>8, <1>9, <1>10
=============================================================================
