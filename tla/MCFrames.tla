------------------------------ MODULE MCFrames ------------------------------
(***************************************************************************)
(* Small compiled programs for HymnFrames.  Every script and function ends *)
(* in VOID or RETURN; the first local of a frame is its function, so that  *)
(* locals counts from 1; a try block ends in the JUMP before its except    *)
(* block, which begins with the message as its local.                      *)
(***************************************************************************)
EXTENDS HymnFrames

V(v) == [op |-> "VALUE", n |-> 0, v |-> v]
O(n, v) == [op |-> "OPERATE", n |-> n, v |-> v]
P == [op |-> "POP", n |-> 0, v |-> Plain]
J(n) == [op |-> "JUMP", n |-> n, v |-> Plain]
C(n) == [op |-> "CALL", n |-> n, v |-> Plain]
T(n) == [op |-> "TAIL_CALL", n |-> n, v |-> Plain]
U(m) == [op |-> "USE", n |-> 1, v |-> m]
Void0 == [op |-> "VOID", n |-> 0, v |-> Plain]
Ret == [op |-> "RETURN", n |-> 1, v |-> Plain]
Thr == [op |-> "THROW", n |-> 1, v |-> Plain]

R(start, end, locals) == [start |-> start, end |-> end, locals |-> locals]

\* try blocks in a function and around its call; the inner except block throws
\* its message again
Nested == [
  arity  |-> [main |-> 0, f |-> 1, g |-> 0],
  code   |-> [
    main |-> << V(Plain), V("f"), V(Plain), C(1), P, J(9), O(0, <<>>), P,
                V(Native), C(0), P, P, Void0 >>,
    f    |-> << V("g"), C(0), P,
                V("g"), C(0), P, O(0, <<>>), J(11), V(Message), Thr,
                J(13), P, V(Plain), Ret >>,
    g    |-> << V(Plain), V(Plain), O(2, <<Plain>>), Ret >> ],
  except |-> [
    main |-> << R(2, 7, 2) >>,
    f    |-> << R(7, 9, 2), R(4, 12, 2) >>,
    g    |-> << >> ] ]

\* recursion without end, in a try block
Recursive == [
  arity  |-> [main |-> 0, f |-> 0],
  code   |-> [
    main |-> << V("f"), C(0), P, J(6), P, V("f"), C(0), P, Void0 >>,
    f    |-> << V(Plain), V("f"), C(0), O(2, <<Plain>>), Ret >> ],
  except |-> [ main |-> << R(1, 5, 1) >>, f |-> << >> ] ]

\* calls of what is no function, and with the wrong number of arguments
Wrong == [
  arity  |-> [main |-> 0, f |-> 1],
  code   |-> [
    main |-> << V(Plain), C(0), P, J(6), P,
                V("f"), C(0), P, J(11), P,
                V("f"), V(Plain), V(Plain), C(2), P, J(18), P, Void0 >>,
    f    |-> << V(Plain), Ret >> ],
  except |-> [ main |-> << R(11, 17, 1), R(6, 10, 1), R(1, 5, 1) >>, f |-> << >> ] ]

\* tail calls of a function, a native function, and with an argument too many
Tails == [
  arity  |-> [main |-> 0, f |-> 1, g |-> 1, h |-> 1],
  code   |-> [
    main |-> << V(Plain), V("f"), V(Plain), C(1), P, J(8), P, P, Void0 >>,
    f    |-> << V(Plain), V("g"), V(Plain), T(1), Ret >>,
    g    |-> << O(0, <<Plain>>), V("h"), V(Plain), V(Plain), O(2, <<Plain>>), T(1), Ret >>,
    h    |-> << V(Plain), O(1, <<>>), V(Native), V(Plain), T(1), Ret >> ],
  except |-> [ main |-> << R(2, 7, 2) >>, f |-> << >>, g |-> << >>, h |-> << >> ] ]

TailsTooMany == [
  arity  |-> [main |-> 0, f |-> 0],
  code   |-> [
    main |-> << V("f"), C(0), P, J(6), P, Void0 >>,
    f    |-> << V("f"), V(Plain), T(1), Ret >> ],
  except |-> [ main |-> << R(1, 5, 1) >>, f |-> << >> ] ]

\* modules that import each other, in and out of try blocks
Modules == [
  arity  |-> [main |-> 0, mod |-> 0, lib |-> 0, f |-> 0],
  code   |-> [
    main |-> << V(Plain), U("mod"), J(5), P,
                V(Plain), U("lib"), V("f"), C(0), P, Void0 >>,
    mod  |-> << V(Plain), V(Plain), U("lib"), J(6), P, O(0, <<>>), P, Void0 >>,
    lib  |-> << V(Plain), U("mod"), V("f"), C(0), P, Void0 >>,
    f    |-> << O(0, <<>>), V(Plain), U("mod"), Void0 >> ],
  except |-> [
    main |-> << R(1, 4, 1) >>,
    mod  |-> << R(2, 5, 2) >>,
    lib  |-> << >>,
    f    |-> << >> ] ]

MCPrograms == {Nested, Recursive, Wrong, Tails, TailsTooMany, Modules}

-----------------------------------------------------------------------------
(* Programs that the machine runs into trouble with *)

\* a module whose function makes a tail call with an argument too few
TailTooFew == [
  arity  |-> [main |-> 0, mod |-> 0, f |-> 0, g |-> 1],
  code   |-> [
    main |-> << V(Plain), U("mod"), Void0 >>,
    mod  |-> << V("f"), C(0), P, Void0 >>,
    f    |-> << V("g"), T(0), Ret >>,
    g    |-> << V(Plain), Ret >> ],
  except |-> [ main |-> << >>, mod |-> << >>, f |-> << >>, g |-> << >> ] ]

MCTailTooFew == {TailTooFew}

\* try { return g() } except e { ... }
TailInTry == [
  arity  |-> [main |-> 0, f |-> 0, g |-> 0],
  code   |-> [
    main |-> << V("f"), C(0), P, Void0 >>,
    f    |-> << V("g"), T(0), Ret, J(6), P, Void0 >>,
    g    |-> << O(0, <<Plain>>), Ret >> ],
  except |-> [ main |-> << >>, f |-> << R(1, 5, 1) >>, g |-> << >> ] ]

MCTailInTry == {TailInTry}

\* try { use "mod" } except e { ... }, where mod throws
FailingModule == [
  arity  |-> [main |-> 0, mod |-> 0],
  code   |-> [
    main |-> << V(Plain), U("mod"), J(5), P, Void0 >>,
    mod  |-> << V(Plain), Thr, Void0 >> ],
  except |-> [ main |-> << R(1, 4, 1) >>, mod |-> << >> ] ]

MCFailingModule == {FailingModule}

-----------------------------------------------------------------------------
(* The height before each instruction, as the code above leaves it *)

HeightsOf(p) ==
  [f \in DOMAIN p.code |->
     LET code == p.code[f]
         after(i, height) ==
           CASE code[i].op = "VALUE" -> height + 1
             [] code[i].op = "OPERATE" -> height - code[i].n + Len(code[i].v)
             [] code[i].op \in {"POP", "USE", "RETURN", "THROW"} -> height - 1
             [] code[i].op \in {"CALL", "TAIL_CALL"} -> height - code[i].n
             [] OTHER -> height
         jumps(i) == {j \in 1..i-1 : code[j].op = "JUMP" /\ code[j].n = i}
         caught(i) == {j \in DOMAIN p.except[f] : p.except[f][j].end = i}
         height[i \in DOMAIN code] ==
           IF i = 1 THEN p.arity[f] + 1
           ELSE IF caught(i) # {} THEN p.except[f][Min(caught(i))].locals + 1
           ELSE IF jumps(i) # {} THEN height[Min(jumps(i))]
           ELSE after(i - 1, height[i - 1])
     IN height]

MCHeights ==
  [p \in MCPrograms \cup MCTailTooFew \cup MCTailInTry \cup MCFailingModule |-> HeightsOf(p)]

\* the programs of run frames are as the theorems of HymnFramesProofs want them
ASSUME ProgramsAreCareful ==
  \A p \in MCPrograms : TriesBeginQuietly(p) /\ TailCallsOutsideTries(p) /\ TailCallsPassEnough(p)
=============================================================================
