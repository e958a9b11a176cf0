----------------------------- MODULE MCScripts -----------------------------
(***************************************************************************)
(* Scripts for HymnScripts.  Each uses one part of the language in the     *)
(* ways that are hard for a single-pass compiler with a stack and for an   *)
(* optimizer that moves bytes; together they have every statement, every   *)
(* instruction and every rule of the optimizer.                            *)
(***************************************************************************)
EXTENDS HymnScripts, HymnSource

Reference == INSTANCE HymnMeaning

Add2(a, b) == Do("ADD", <<a, b>>)
Less(a, b) == Do("LESS", <<a, b>>)
Same(a, b) == Do("EQUAL", <<a, b>>)
Say(texts) == Echo(S(texts))

A == Var("a")
B == Var("b")
C == Var("c")
F == Var("f")
G == Var("g")
K == Var("i")
T == Var("t")
X == Var("x")

\* constants that are folded, and the same operations on variables
Sums == <<
  Let("a", I(7)), Let("b", Lit(Float(3, 2))),
  Echo(Add2(I(2), Do("MULTIPLY", <<I(3), I(4)>>))),
  Echo(Do("SUBTRACT", <<Do("DIVIDE", <<I(-7), I(2)>>), I(1)>>)),
  Echo(Do("DIVIDE", <<Lit(Float(1, 2)), I(2)>>)),
  Echo(Add2(Add2(S(<<"a">>), I(1)), Lit(Float(1, 2)))),
  Echo(Add2(I(1), S(<<"b">>))),
  Echo(Do("BIT_OR", <<Do("BIT_AND", <<I(6), I(3)>>), I(8)>>)),
  Echo(Do("BIT_XOR", <<Do("BIT_LEFT_SHIFT", <<I(1), I(3)>>), Do("BIT_RIGHT_SHIFT", <<I(9), I(1)>>)>>)),
  Echo(Do("NEGATE", <<Do("BIT_NOT", <<I(5)>>)>>)),
  Echo(Do("NEGATE", <<Lit(Float(1, 2))>>)),
  Echo(Add2(A, I(3))), Echo(Add2(B, I(3))),
  Echo(Do("SUBTRACT", <<A, B>>)), Echo(Do("MULTIPLY", <<A, A>>)), Echo(Do("DIVIDE", <<A, B>>)),
  Echo(Do("MODULO", <<Do("NEGATE", <<A>>), I(4)>>)),
  Echo(Do("BIT_AND", <<A, I(5)>>)), Echo(Do("BIT_OR", <<A, I(8)>>)), Echo(Do("BIT_XOR", <<A, I(-1)>>)),
  Echo(Do("BIT_LEFT_SHIFT", <<A, I(2)>>)), Echo(Do("BIT_RIGHT_SHIFT", <<A, I(1)>>)),
  Echo(Do("BIT_NOT", <<A>>)), Echo(Do("NEGATE", <<B>>)),
  Echo(Do("NOT", <<Same(A, I(7))>>)), Echo(Do("NOT_EQUAL", <<A, B>>)),
  Echo(Less(A, B)), Echo(Do("LESS_EQUAL", <<A, A>>)),
  Echo(Do("GREATER", <<A, B>>)), Echo(Do("GREATER_EQUAL", <<B, A>>)),
  Exp(Update_("a", "ADD", I(2))), Exp(Update_("a", "MULTIPLY", A)), Echo(A), Echo(Yes), Echo(Nil) >>

\* casts, and the texts of values
Casts == <<
  Let("a", List(<<I(1), S(<<"b">>), Nil, Yes>>)),
  Stmt("ARRAY_PUSH", <<A, A>>), Echo(A), Echo(List(<<>>)), Echo(Fields(<<>>)),
  Let("t", Fields(<<Field("b", I(2)), Field("a", A)>>)), Echo(T),
  Echo(Do("INT", <<S(<<"1", "2", "x">>)>>)), Echo(Do("INT", <<S(<<"x">>)>>)),
  Echo(Do("INT", <<Do("NEGATE", <<Lit(Float(7, 2))>>)>>)), Echo(Do("INT", <<I(3)>>)),
  Echo(Do("FLOAT", <<S(<<"-", "3">>)>>)), Echo(Do("FLOAT", <<I(3)>>)),
  Echo(Add2(Do("STRING", <<I(12)>>), Do("TYPE", <<A>>))), Echo(Do("LEN", <<Do("STRING", <<I(-12)>>)>>)),
  Echo(Do("CLEAR", <<I(3)>>)), Echo(Do("CLEAR", <<Yes>>)), Echo(Do("CLEAR", <<Nil>>)),
  Echo(Do("CLEAR", <<S(<<"a">>)>>)), Echo(Do("CLEAR", <<Lit(Float(1, 2))>>)),
  Let("x", Do("COPY", <<T>>)), Exp(Do("CLEAR", <<T>>)), Echo(Do("LEN", <<T>>)), Echo(Do("LEN", <<X>>)),
  Echo(Do("COPY", <<I(1)>>)), Exp(Do("CLEAR", <<A>>)), Echo(X),
  Echo(Add2(Nil, S(<<"a">>))), Echo(Add2(S(<<"a">>), List(<<I(1), I(2)>>))),
  Stmt("PRINT", <<Nil, S(<<"a">>)>>), Echo(Yes), Stmt("PRINT", <<I(1), S(<<"a">>)>>) >>

\* every way to reach an item, at both ends
Arrays == <<
  Let("a", List(<<I(1), I(2)>>)),
  Stmt("ARRAY_PUSH", <<A, I(3)>>), Exp(AtPut(A, I(3), I(4))), Exp(AtPut(A, I(-1), I(5))),
  Stmt("INSERT", <<A, I(0), I(0)>>), Stmt("INSERT", <<A, I(5), I(6)>>), Stmt("INSERT", <<A, I(-1), I(9)>>),
  Echo(A), Echo(At(A, I(-7))), Echo(Do("DELETE", <<A, I(-2)>>)), Echo(Do("DELETE", <<A, I(0)>>)),
  Echo(Part(A, I(1), I(-1))), Echo(Part(A, Nothing, Nothing)), Echo(Part(A, I(3), Nothing)),
  Echo(Do("INDEX", <<A, I(5)>>)), Echo(Do("INDEX", <<A, Nil>>)),
  Let("b", Do("COPY", <<A>>)), Exp(Do("ARRAY_POP", <<B>>)), Echo(Do("LEN", <<A>>)), Echo(Do("LEN", <<B>>)),
  Echo(Do("ARRAY_POP", <<List(<<>>)>>)),
  Let("x", S(<<"a", "b", "c">>)), Echo(At(X, I(-1))), Echo(Part(X, I(1), I(3))),
  Echo(Do("INDEX", <<X, S(<<"b", "c">>)>>)), Echo(Do("INDEX", <<X, S(<<"d">>)>>)), Echo(Do("LEN", <<X>>)) >>

\* indices that are not there: each error leaves the stack as the try found it
TryIndex(stmt) == TryIn(<<Say(<<"a">>), stmt>>, "e", <<Echo(Var("e"))>>)

Bounds1 == <<
  Let("a", List(<<I(1), I(2)>>)),
  TryIndex(Echo(At(A, I(2)))), TryIndex(Echo(At(A, I(-3)))), TryIndex(Echo(At(A, S(<<"a">>)))),
  TryIndex(Exp(AtPut(A, I(3), I(0)))), TryIndex(Exp(AtPut(A, I(-3), I(0)))),
  TryIndex(Echo(Part(A, I(2), Nothing))), TryIndex(Echo(Part(A, I(-1), Nothing))),
  TryIndex(Echo(Part(A, I(0), I(3)))), TryIndex(Echo(Part(I(1), I(0), I(3)))), Echo(A) >>

Bounds2 == <<
  Let("a", List(<<I(1), I(2)>>)),
  TryIndex(Echo(Do("DELETE", <<A, I(2)>>))), TryIndex(Stmt("INSERT", <<A, I(3), I(0)>>)),
  TryIndex(Echo(Do("ARRAY_POP", <<I(1)>>))), TryIndex(Stmt("ARRAY_PUSH", <<Nil, I(0)>>)),
  TryIndex(Echo(At(S(<<"a">>), I(1)))), TryIndex(Echo(Prop(A, "b"))), TryIndex(Exp(PropPut(A, "b", I(1)))),
  TryIndex(Echo(Prop(A, "c"))) >>

Bounds3 == <<
  Let("a", List(<<I(1), I(2)>>)),
  TryIndex(Echo(Do("KEYS", <<A>>))), TryIndex(Echo(Do("LEN", <<I(1)>>))), TryIndex(Echo(Do("INT", <<A>>))),
  TryIndex(Echo(Less(A, I(1)))), TryIndex(Echo(Do("NOT", <<I(1)>>))), TryIndex(Echo(Add2(A, I(1)))),
  TryIndex(Echo(Var("u"))) >>

Bounds4 == <<
  Let("a", List(<<I(1), I(2)>>)),
  TryIndex(Exp(CallOf(A, <<>>))), TryIndex(Exp(Arrow(A, "b", <<>>))), TryIndex(Exp(Do("EXISTS", <<A, S(<<"a">>)>>))),
  TryIndex(In("x", I(1), <<Echo(X)>>)), TryIndex(Cond(Less(Nil, I(1)), <<Echo(X)>>)), Echo(A) >>

\* tables, by name, by key and by arrow
Tables == <<
  Let("t", Fields(<<Field("b", I(1)), Field("a", I(2)), Field("b", I(3))>>)),
  Exp(PropPut(T, "c", I(4))), Exp(AtPut(T, S(<<"d">>), I(5))), Exp(AtPut(T, S(<<"a">>), S(<<"a">>))),
  Echo(T), Echo(Prop(T, "a")), Echo(At(T, S(<<"x">>))), Echo(Prop(T, "x")),
  Echo(Do("DELETE", <<T, S(<<"b">>)>>)), Echo(Do("DELETE", <<T, S(<<"b">>)>>)),
  Echo(Do("INDEX", <<T, I(5)>>)), Echo(Do("INDEX", <<T, I(6)>>)), Echo(Do("KEYS", <<T>>)),
  Def("f", <<"a", "b">>, <<Exp(PropPut(A, "c", Add2(Prop(A, "c"), B))), Ret(Prop(A, "c"))>>),
  Exp(PropPut(T, "x", F)), Echo(Arrow(T, "x", <<I(6)>>)), Echo(Add2(Arrow(T, "x", <<I(1)>>), I(1))),
  Exp(PropPut(T, "x", T)), Echo(T), Exp(Assign("u", I(8))), Echo(Var("u")),
  Echo(Do("EXISTS", <<T, S(<<"x">>)>>)), Echo(Do("EXISTS", <<T, S(<<"b">>)>>)), Echo(Do("EXISTS", <<T, S(<<"d">>)>>)) >>

\* conditions, each way; and and or where an if patches their jumps
Conditions == <<
  Def("f", <<"a", "b">>, <<
    Elif(<<Less(A, B), Same(A, B)>>, <<<<Say(<<"<">>)>>, <<Say(<<"=">>)>>, <<Say(<<">">>)>>>>),
    Elif(<<Do("GREATER_EQUAL", <<A, B>>), Do("NOT_EQUAL", <<A, I(1)>>)>>,
         <<<<Say(<<"g">>)>>, <<Say(<<"n">>)>>>>),
    Elif(<<Do("LESS_EQUAL", <<A, I(2)>>), Do("GREATER", <<A, B>>)>>, <<<<Say(<<"l">>)>>, <<Say(<<"h">>)>>>>),
    Cond(Do("LESS_EQUAL", <<A, B>>), <<Say(<<"u">>)>>),
    Cond(Do("NOT", <<Less(A, B)>>), <<Say(<<"v">>)>>),
    Cond(Both(Less(A, B), Less(A, I(2))), <<Say(<<"&">>)>>),
    Cond(Either(Less(A, B), Same(A, I(3))), <<Let("x", I(1)), Echo(X)>>),
    Elif(<<Either(Both(Same(A, I(1)), Same(B, I(2))), Same(A, I(3))), Both(A, B)>>,
         <<<<Say(<<"1">>)>>, <<Say(<<"2">>)>>, <<Say(<<"3">>)>>>>),
    Elif(<<A>>, <<<<RetNone>>, <<Say(<<"0">>)>>>>) >>),
  Exp(CallOf(F, <<I(1), I(2)>>)), Exp(CallOf(F, <<I(2), I(2)>>)), Exp(CallOf(F, <<I(3), I(1)>>)),
  Echo(CallOf(F, <<I(0), Lit(Float(1, 2))>>)),
  Cond(Yes, <<Say(<<"a">>)>>), Cond(No, <<Say(<<"b">>)>>), Cond(Nil, <<Say(<<"c">>)>>),
  Elif(<<S(<<>>), List(<<I(0)>>)>>, <<<<Say(<<"d">>)>>, <<Say(<<"e">>)>>>>),
  Cond(Do("NOT", <<Less(I(1), I(2))>>), <<Say(<<"f">>)>>) >>

\* break and continue out of blocks with locals, in loops inside of loops
Loops == <<
  Let("a", I(0)),
  Loop(Yes, <<
    Exp(Update_("a", "ADD", I(1))), Let("b", A), Let("c", I(2)),
    Cond(Less(B, C), <<Let("x", B), Let("t", B), Cont>>),
    Cond(Same(B, I(4)), <<Let("x", B), Brk>>), Echo(B)>>),
  For3("i", <<I(0), Less(K, I(5))>>, <<
    Let("b", Add2(K, I(1))), Let("c", I(1)), Let("x", I(1)),
    Cond(Same(B, I(2)), <<Cont>>), Cond(Same(B, I(4)), <<Brk>>),
    For3("i", <<I(0), Do("LESS_EQUAL", <<K, B>>), Update_("i", "ADD", I(2))>>, <<
      Cond(Same(K, I(2)), <<Let("t", K), Cont>>), Echo(K)>>),
    Echo(B)>>),
  Def("f", <<"a">>, <<
    For3("i", <<I(1), Do("LESS_EQUAL", <<K, A>>)>>, <<
      Let("c", A), Loop(Less(C, I(9)), <<Exp(Update_("c", "ADD", A))>>), Echo(C),
      Loop(Less(A, I(9)), <<Exp(Update_("a", "ADD", I(5))), Exp(Update_("a", "ADD", K))>>),
      Cond(Same(K, I(3)), <<Let("b", K), Ret(Do("MULTIPLY", <<A, B>>))>>),
      Cond(Same(Do("MODULO", <<A, K>>), I(1)), <<Cont>>), Echo(Do("MODULO", <<A, K>>))>>),
    Ret(I(0))>>),
  Echo(CallOf(F, <<I(2)>>)) >>

\* loops over arrays and tables that change under way
Iterators == <<
  Let("a", List(<<I(1), I(2), I(3)>>)), Let("t", Fields(<<Field("a", I(1)), Field("b", I(2)), Field("c", I(3))>>)),
  In("x", A, <<Let("b", X), Cond(Same(X, I(2)), <<Stmt("ARRAY_PUSH", <<A, I(4)>>), Cont>>), Echo(B)>>),
  InPair("i", "x", A, <<Cond(Same(K, I(2)), <<Let("b", X), Brk>>), Echo(Add2(K, X))>>),
  InPair("k", "x", T, <<Cond(Same(X, I(2)), <<Exp(Do("DELETE", <<T, Var("k")>>))>>), Echo(Var("k")), Echo(X)>>),
  In("x", T, <<Exp(AtPut(T, S(<<"d">>), X)), In("x", A, <<Cond(Same(X, I(3)), <<Brk>>), Echo(X)>>)>>),
  In("x", List(<<>>), <<Echo(X)>>), In("x", Fields(<<>>), <<Echo(X)>>), Echo(T),
  Def("f", <<"a">>, <<In("x", A, <<In("b", A, <<Cond(Less(X, B), <<Ret(Add2(X, B))>>)>>)>>)>>),
  Echo(CallOf(F, <<A>>)), Echo(CallOf(F, <<List(<<I(2)>>)>>)) >>

\* locals: how many of them a block pops, shadowing, and the instructions on
\* two slots
Locals_ == <<
  Def("f", <<"a", "b">>, <<
    Let("x", Add2(A, B)), Echo(Do("MODULO", <<X, B>>)), Exp(Update_("x", "ADD", I(5))), Echo(Add2(X, I(3))),
    Echo(Add2(X, I(300))),
    Braces(<<Let("c", X), Let("t", X), Let("g", Add2(T, I(1))), Exp(Update_("x", "SUBTRACT", Var("g"))), Echo(X)>>),
    Braces(<<Let("c", I(1)), Braces(<<Let("t", C), Let("u", C), Echo(Add2(T, Var("u")))>>)>>),
    Let("c", List(<<>>)), Stmt("ARRAY_PUSH", <<C, A>>), Stmt("ARRAY_PUSH", <<C, B>>), Echo(C),
    Exp(Assign("a", Assign("b", I(4)))), Echo(Add2(A, B)), Echo(Do("GREATER", <<A, X>>)),
    Let("h", Func("h", <<"a">>, <<Ret(Add2(A, A))>>)),
    Def("k", <<>>, <<Ret(I(3))>>), Echo(Add2(CallOf(Var("h"), <<A>>), CallOf(Var("k"), <<>>)))>>),
  Echo(CallOf(F, <<I(7), I(3)>>)),
  Braces(<<Let("a", I(1)), Braces(<<Let("b", I(2)), Let("c", A), Let("x", B), Echo(Add2(B, C))>>), Echo(A)>>),
  Def("g", <<>>, <<Exp(Assign("x", I(2))), Let("y", List(<<X>>)), Echo(Var("y"))>>), Exp(CallOf(G, <<>>)), Echo(X),
  Echo(Prop(Fields(<<Field("a", I(1))>>), "a")), Echo(F), Let("x", I(1)) >>

\* calls: recursion, tail calls, functions as values, wrong calls and the last frame
Calls == <<
  Def("f", <<"a">>, <<Cond(Less(A, I(2)), <<Ret(I(1))>>), Ret(Do("MULTIPLY", <<A, CallOf(F, <<Do("SUBTRACT", <<A, I(1)>>)>>)>>))>>),
  Def("g", <<"a", "b">>, <<Cond(Same(A, I(0)), <<Ret(B)>>), Let("c", Add2(B, I(1))),
                           Ret(CallOf(G, <<Do("SUBTRACT", <<A, I(1)>>), C>>))>>),
  Def("h", <<"a">>, <<Echo(S(<<"h">>)), Let("x", CallOf(Var("h"), <<Add2(A, I(1))>>)), Ret(X)>>),
  Echo(CallOf(F, <<I(3)>>)), Echo(CallOf(G, <<I(2), I(1)>>)),
  TryIn(<<Echo(I(1)), Echo(CallOf(Var("h"), <<I(1)>>))>>, "e", <<Echo(Var("e"))>>),
  TryIn(<<Echo(I(2)), Echo(CallOf(F, <<I(1), I(2)>>))>>, "e", <<Echo(Var("e"))>>),
  TryIn(<<Echo(I(3)), Echo(CallOf(F, <<>>))>>, "e", <<Echo(Var("e"))>>),
  Let("u", Nil), Def("k", <<>>, <<Ret(CallOf(Var("u"), <<>>))>>),
  TryIn(<<Echo(I(4)), Echo(CallOf(Var("k"), <<>>))>>, "e", <<Echo(Var("e"))>>),
  Let("a", List(<<F, Func("l", <<>>, <<>>)>>)), Echo(CallOf(At(A, I(0)), <<I(2)>>)), Echo(CallOf(At(A, I(1)), <<>>)),
  Let("t", Fields(<<>>)), TryIn(<<Echo(I(5)), Exp(Arrow(T, "x", <<>>))>>, "e", <<Echo(Var("e"))>>),
  Exp(CallOf(Var("h"), <<I(5)>>)) >>

\* errors: nested tries, through calls, out of blocks with locals and of loops
Tries == <<
  Def("f", <<"a">>, <<Let("b", A), Braces(<<Let("c", A), Cond(Same(C, I(2)), <<Throw(List(<<C>>))>>), Echo(C)>>), Ret(B)>>),
  Def("g", <<"a">>, <<
    Let("b", I(1)),
    TryIn(<<Let("c", Add2(I(1), I(1))), Let("x", C),
            TryIn(<<Let("t", C), Echo(CallOf(F, <<A>>)), Echo(T)>>, "m",
                  <<Say(<<"i">>), Let("u", Var("m")), Throw(Var("m"))>>),
            Echo(X)>>, "m",
          <<Echo(Add2(S(<<"o">>), Var("m"))), Let("c", B), Ret(B)>>),
    Ret(Add2(B, A))>>),
  Echo(CallOf(G, <<I(1)>>)), Echo(CallOf(G, <<I(2)>>)),
  For3("i", <<I(0), Less(K, I(4))>>, <<
    Let("a", K),
    TryIn(<<Let("b", K), Cond(Same(K, I(1)), <<Let("c", A), Cont>>), Cond(Same(B, I(3)), <<Brk>>),
            Echo(CallOf(F, <<B>>))>>, "m",
          <<Let("b", Var("m")), Echo(Var("m")), Cond(Same(A, I(2)), <<Cont>>), Echo(A)>>),
    Echo(I(9))>>),
  TryIn(<<Let("a", I(1)), TryIn(<<Let("b", A), Echo(A)>>, "m", <<Echo(Var("m"))>>), Let("c", A), Throw(A)>>, "m",
        <<Echo(Var("m"))>>),
  In("x", List(<<I(1), I(2)>>), <<TryIn(<<Let("a", X), Exp(CallOf(F, <<A>>))>>, "m", <<Echo(X), Echo(Var("m"))>>)>>),
  Say(<<"z">>), Exp(CallOf(F, <<I(2)>>)) >>

\* a direct command writes what its last expression leaves
Direct1 == << Let("a", I(1)), Exp(Add2(A, I(2))) >>
Direct2 == << Let("a", I(1)), Cond(A, <<Let("b", A), Exp(B)>>) >>

\* what the compiler refuses
Refused == <<
  << Braces(<<Let("a", I(1)), Let("a", I(2))>>) >>,
  << Braces(<<Let("a", A)>>) >>,
  << Cond(Yes, <<Brk>>) >>,
  << Cond(Yes, <<Cont>>) >>,
  << Ret(I(1)) >>,
  << Def("f", <<"a", "a">>, <<>>) >> >>

Valid == << Sums, Casts, Arrays, Bounds1, Bounds2, Bounds3, Bounds4, Tables, Conditions, Loops, Iterators, Locals_, Calls, Tries >>

Script(body) == [type |-> "script", body |-> body]
Direct(body) == [type |-> "direct", body |-> body]

Runs(bodies) == [k \in DOMAIN bodies |-> Script(bodies[k])]

MCSources == Runs(Valid) \o <<Direct(Direct1), Direct(Direct2)>> \o Runs(Refused)

\* scripts without an error, and what the others come to
Meant(sources) == [k \in DOMAIN sources |-> Reference!Meaning(sources[k].body, sources[k].type)]
NotMeant == [k \in DOMAIN Refused |-> [end |-> "refused", out |-> <<>>]]

MCMeanings == Meant(Runs(Valid) \o <<Direct(Direct1), Direct(Direct2)>>) \o NotMeant

\* print() and an if after it
Sized ==
  << Let("a", I(1)),
     Elif(<<Same(A, I(1))>>, <<<<Stmt("PRINT", <<I(0), S(<<"o">>)>>)>>,
                              <<Exp(Assign("a", Add2(Do("MULTIPLY", <<A, I(2)>>), I(1))))>>>>),
     Say(<<"x">>), Say(<<"y">>) >>

SizedSources == << Script(Sized) >>
SizedMeanings == Meant(SizedSources)

\* a loop from a constant that is folded: the LOOP leads right behind the removed byte, which
\* an assertion of rewrite() does not allow
Loop_ ==
  << For3("i", <<Do("NEGATE", <<I(2)>>), Less(K, I(1))>>, <<Echo(K)>>) >>

LoopSources == << Script(Loop_) >>
LoopMeanings == Meant(LoopSources)

Keys3 == << <<"a">>, <<"b">>, <<"c">>, <<"d">>, <<"x">> >>
=============================================================================
