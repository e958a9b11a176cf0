----------------------------- MODULE HymnSource -----------------------------
(***************************************************************************)
(* Source of Hymn as trees, what the scanner and the table of precedences  *)
(* make of its text.  A node is [k, n, v, es, bs]: its kind, its name or   *)
(* operation, its value, its expressions and its blocks of statements.     *)
(* Nodes have the names that the source has where it has one.              *)
(***************************************************************************)
EXTENDS HymnCode

Node(k, n, v, es, bs) == [k |-> k, n |-> n, v |-> v, es |-> es, bs |-> bs]

-----------------------------------------------------------------------------
(* Expressions *)

Lit(v) == Node("literal", "", v, <<>>, <<>>)
S(text) == Lit(Text(text))
Yes == Lit(Truth(TRUE))
No == Lit(Truth(FALSE))
Nil == Lit(None)
Nothing == Node("nothing", "", None, <<>>, <<>>)

Var(n) == Node("variable", n, None, <<>>, <<>>)
Assign(n, e) == Node("assign", n, Text(<<"SET">>), <<e>>, <<>>)       \* n = e
Update_(n, op, e) == Node("assign", n, Text(<<op>>), <<e>>, <<>>)     \* n += e
Do(op, es) == Node("operation", op, None, es, <<>>)                   \* a + b, -a, len(a)
I(i) == IF i < 0 THEN Do("NEGATE", <<Lit(Number(-i))>>) ELSE Lit(Number(i))
Both(a, b) == Node("and", "", None, <<a, b>>, <<>>)                   \* a and b
Either(a, b) == Node("or", "", None, <<a, b>>, <<>>)                  \* a or b
List(es) == Node("array", "", None, es, <<>>)                         \* [a, b]
Field(n, e) == Node("field", n, Text(<<n>>), <<e>>, <<>>)
Fields(fields) == Node("table", "", None, fields, <<>>)               \* { n: e }
At(a, i) == Node("square", "GET_DYNAMIC", None, <<a, i>>, <<>>)       \* a[i]
AtPut(a, i, e) == Node("square", "SET_DYNAMIC", None, <<a, i, e>>, <<>>)
Part(a, i, j) == Node("square", "SLICE", None, <<a, i, j>>, <<>>)     \* a[i:j]
Prop(t, n) == Node("dot", n, None, <<t>>, <<>>)                       \* t.n
PropPut(t, n, e) == Node("dot", n, None, <<t, e>>, <<>>)
CallOf(f, es) == Node("call", "", None, <<f>> \o es, <<>>)            \* f(a)
Arrow(t, n, es) == Node("pointer", n, None, <<t>> \o es, <<>>)        \* t->n(a)
Func(id, names, body) ==
  Node("function", id, None, [k \in DOMAIN names |-> Var(names[k])], <<body>>)

-----------------------------------------------------------------------------
(* Statements *)

Let(n, e) == Node("set", n, None, <<e>>, <<>>)                        \* set n = e
Def(n, names, body) == Node("func", n, None, <<Func(n, names, body)>>, <<>>)
Exp(e) == Node("expression", "", None, <<e>>, <<>>)
Stmt(op, es) == Node("statement", op, None, es, <<>>)                 \* echo, push, throw
Echo(e) == Stmt("ECHO", <<e>>)
Throw(e) == Stmt("THROW", <<e>>)
Cond(e, body) == Node("if", "", None, <<e>>, <<body>>)
Elif(es, bodies) == Node("if", "", None, es, bodies)                  \* one more body: else
Loop(e, body) == Node("while", "", None, <<e>>, <<body>>)
For3(n, es, body) == Node("for", n, None, es, <<body>>)               \* for n = e, e, e
In(n, e, body) == Node("iterator", n, None, <<e>>, <<body>>)          \* for n in e
InPair(n, m, e, body) == Node("iterator", n, Text(<<m>>), <<e>>, <<body>>)
Ret(e) == Node("return", "", None, <<e>>, <<>>)
RetNone == Node("return", "", None, <<>>, <<>>)
Brk == Node("break", "", None, <<>>, <<>>)
Cont == Node("continue", "", None, <<>>, <<>>)
TryIn(body, n, handler) == Node("try", n, None, <<>>, <<body, handler>>)
Braces(body) == Node("block", "", None, <<>>, <<body>>)
=============================================================================
