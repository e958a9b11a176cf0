---------------------------- MODULE HymnMeaning ----------------------------
(***************************************************************************)
(* What a Hymn script means, read from its tree: an evaluator that has no  *)
(* byte code, no stack and no jumps.  It is the reference that compiled    *)
(* and optimized code is compared with.                                    *)
(*                                                                         *)
(* m is the state of the script: env the locals of the function, inner     *)
(* scopes last, level the number of blocks around, depth the calls under   *)
(* way; a table is a function of its keys.  Evaluation gives [m, sig, v]:  *)
(* sig is "ok" or the way out that v leaves by, "return", "throw", "break" *)
(* or "continue".                                                          *)
(***************************************************************************)
EXTENDS HymnSource

CONSTANTS FramesMax, BinOrder, Alphabet

Empty == [env |-> <<>>, level |-> 0, depth |-> 1, defs |-> <<>>, globals |-> <<>>,
          heap |-> <<>>, out |-> <<>>]

Result(m, sig, v) == [m |-> m, sig |-> sig, v |-> v]
Ok(m, v) == Result(m, "ok", v)
Fail(m) == Result(m, "throw", Text(<<"error">>))

Extend(f, x, v) == [y \in DOMAIN f \cup {x} |-> IF y = x THEN v ELSE f[y]]

-----------------------------------------------------------------------------
(* Values *)

Cell(m, v) == m.heap[v.i]

Size_(m, v) ==
  CASE Is(v, "string") -> Len(v.text)
    [] Is(v, "array") -> Len(Cell(m, v))
    [] OTHER -> Cardinality(DOMAIN Cell(m, v))

Container(v) == v.is \in {"array", "table"}

Truthy(m, v) ==
  CASE v.is = "none" -> FALSE
    [] v.is \in {"bool", "integer", "float"} -> v.i # 0
    [] v.is \in {"string", "array", "table"} -> Size_(m, v) > 0
    [] OTHER -> TRUE

KeysIn(m, v, order) == SelectSeq(order, LAMBDA k : k \in DOMAIN Cell(m, v))

Listed(texts) == FoldLeft(LAMBDA a, t : IF a = <<>> THEN t ELSE a \o <<",", " ">> \o t, <<>>, texts)

\* the text of a value; a container inside of itself is cut short
RECURSIVE Show(_, _, _)

Show(m, v, around) ==
  LET Item(x) == IF Is(x, "string") THEN <<"\"">> \o x.text \o <<"\"">>
                 ELSE Show(m, x, around \cup {v.i})
      keys == KeysIn(m, v, Alphabet)
      Entry(k) == <<"\"">> \o keys[k] \o <<"\"", ":", " ">> \o Item(Cell(m, v)[keys[k]])
  IN CASE ~Container(v) -> Plain(v)
       [] Is(v, "array") ->
            IF v.i \in around THEN <<"[", "..", "]">>
            ELSE <<"[">> \o Listed([k \in 1..Size_(m, v) |-> Item(Cell(m, v)[k])]) \o <<"]">>
       [] OTHER ->
            IF v.i \in around THEN <<"{", " ", "..", " ", "}">>
            ELSE IF Size_(m, v) = 0 THEN <<"{", "}">>
            ELSE <<"{", " ">> \o Listed([k \in DOMAIN keys |-> Entry(k)]) \o <<" ", "}">>

Shown(m, v) == Show(m, v, {})

\* the number a text begins with
Prefix(text) ==
  LET good == {i \in -99..99 : IsPrefix(Decimal(i), text)}
  IN IF good = {} THEN None
     ELSE Number(CHOOSE i \in good : \A j \in good : Len(Decimal(j)) <= Len(Decimal(i)))

-----------------------------------------------------------------------------
(* Operations on values *)

\* an operation of one or two values, without a change of the heap
Operate(m, op, vs) ==
  LET a == vs[1]
      b == vs[2]
      Ints == Is(a, "integer") /\ Is(b, "integer")
      Numbers == Numeric(a) /\ Numeric(b)
      fault == Fail(m)
      x == a.i * b.d
      y == b.i * a.d
      order == CASE op = "LESS" -> x < y [] op = "LESS_EQUAL" -> x <= y
                 [] op = "GREATER" -> x > y [] OTHER -> x >= y
      same == IF Numbers THEN x = y ELSE a = b
      starts == {k \in 0..Len(a.text) : \A j \in DOMAIN b.text :
                   k + j <= Len(a.text) /\ a.text[k + j] = b.text[j]}
      places == {k \in DOMAIN Cell(m, a) : Cell(m, a)[k] = b}
      at == IF b.i < 0 THEN b.i + Size_(m, a) ELSE b.i
  IN CASE op = "ADD" /\ (Is(a, "string") \/ (Is(b, "string") /\ ~Container(a) /\ ~Is(a, "function"))) ->
            Ok(m, Text(Shown(m, a) \o Shown(m, b)))
       [] op \in {"ADD", "SUBTRACT", "MULTIPLY", "DIVIDE"} /\ Ints -> Ok(m, Integer(op, a.i, b.i))
       [] op \in {"ADD", "SUBTRACT", "MULTIPLY", "DIVIDE"} /\ Numbers /\ ~Ints -> Ok(m, Fraction(op, a, b))
       [] op = "MODULO" /\ Ints -> Ok(m, Number(Remainder(a.i, b.i)))
       [] op \in BitOps /\ Ints -> Ok(m, Number(Bitwise(op, a.i, b.i)))
       [] op = "BIT_NOT" /\ Is(a, "integer") -> Ok(m, Number(-a.i - 1))
       [] op = "NEGATE" /\ Numeric(a) -> Ok(m, [a EXCEPT !.i = -a.i])
       [] op = "NOT" /\ Is(a, "bool") -> Ok(m, Truth(a # Truth(TRUE)))
       [] op = "EQUAL" -> Ok(m, Truth(same))
       [] op = "NOT_EQUAL" -> Ok(m, Truth(~same))
       [] op \in {"LESS", "LESS_EQUAL", "GREATER", "GREATER_EQUAL"} /\ Numbers -> Ok(m, Truth(order))
       [] op = "INT" /\ Numeric(a) -> Ok(m, Number(Quotient(a.i, a.d)))
       [] op = "FLOAT" /\ Numeric(a) -> Ok(m, Float(a.i, a.d))
       [] op = "INT" /\ Is(a, "string") -> Ok(m, Prefix(a.text))
       [] op = "FLOAT" /\ Is(a, "string") ->
            Ok(m, IF Prefix(a.text) = None THEN None ELSE Float(Prefix(a.text).i, 1))
       [] op = "STRING" -> Ok(m, Text(Shown(m, a)))
       [] op = "TYPE" -> Ok(m, Text(<<a.is>>))
       [] op = "LEN" /\ (Is(a, "string") \/ Container(a)) -> Ok(m, Number(Size_(m, a)))
       [] op = "EXISTS" /\ Is(a, "table") /\ Is(b, "string") -> Ok(m, Truth(b.text \in DOMAIN Cell(m, a)))
       [] op = "INDEX" /\ Is(a, "string") /\ Is(b, "string") ->
            Ok(m, Number(Min(IF starts = {} THEN {-1} ELSE starts)))
       [] op = "INDEX" /\ Is(a, "array") -> Ok(m, Number(Min(IF places = {} THEN {0} ELSE places) - 1))
       [] op = "INDEX" /\ Is(a, "table") ->
            Ok(m, IF places = {} THEN None ELSE Text(Head(SelectSeq(BinOrder, LAMBDA k : k \in places))))
       [] op = "GET_DYNAMIC" /\ a.is \in {"string", "array"} /\ Is(b, "integer") ->
            IF at \notin 0..Size_(m, a) - 1 THEN fault
            ELSE Ok(m, IF Is(a, "array") THEN Cell(m, a)[at + 1] ELSE Text(<<a.text[at + 1]>>))
       [] op = "GET_DYNAMIC" /\ Is(a, "table") /\ Is(b, "string") ->
            Ok(m, IF b.text \in DOMAIN Cell(m, a) THEN Cell(m, a)[b.text] ELSE None)
       [] OTHER -> fault

Pure == {"ADD", "SUBTRACT", "MULTIPLY", "DIVIDE", "MODULO", "BIT_NOT", "NEGATE", "NOT", "EQUAL",
         "NOT_EQUAL", "LESS", "LESS_EQUAL", "GREATER", "GREATER_EQUAL", "INT", "FLOAT", "STRING",
         "TYPE", "LEN", "EXISTS", "INDEX", "GET_DYNAMIC"} \cup BitOps

Stored(m, v, cell) == [m EXCEPT !.heap[v.i] = cell]
Allocated(m, cell) == [m EXCEPT !.heap = Append(@, cell)]
Address(m) == Len(m.heap) + 1

\* an operation that changes an array or a table, makes one, or prints
Change(m, op, vs) ==
  LET a == vs[1]
      b == vs[2]
      n == Size_(m, a)
      items == Cell(m, a)
      at == IF b.i < 0 THEN b.i + n ELSE b.i
      array == Is(a, "array")
      inside == array /\ Is(b, "integer") /\ at >= 0 /\ b.i < n
      upto == array /\ Is(b, "integer") /\ at >= 0 /\ b.i <= n
      keyed == Is(a, "table") /\ Is(b, "string")
      to == IF Is(vs[3], "none") THEN n ELSE IF vs[3].i < 0 THEN vs[3].i + n ELSE vs[3].i
      cut == /\ a.is \in {"array", "string"} /\ Is(b, "integer") /\ b.i >= 0
             /\ vs[3].is \in {"none", "integer"} /\ vs[3].i <= n /\ b.i < to
      Said(where, v) == [m EXCEPT !.out = Append(@, [to |-> where, text |-> v])]
  IN CASE op = "ARRAY_PUSH" /\ array -> Ok(Stored(m, a, Append(items, b)), None)
       [] op = "ARRAY_POP" /\ array ->
            IF n = 0 THEN Ok(m, None)
            ELSE Ok(Stored(m, a, [k \in 1..n - 1 |-> items[k]]), items[n])
       [] op = "INSERT" /\ upto ->
            Ok(Stored(m, a, [k \in 1..n + 1 |-> IF k <= at THEN items[k]
                               ELSE IF k = at + 1 THEN vs[3] ELSE items[k - 1]]), None)
       [] op = "DELETE" /\ inside ->
            Ok(Stored(m, a, [k \in 1..n - 1 |-> items[IF k <= at THEN k ELSE k + 1]]), items[at + 1])
       [] op = "DELETE" /\ keyed ->
            Ok(Stored(m, a, [k \in DOMAIN items \ {b.text} |-> items[k]]),
               IF b.text \in DOMAIN items THEN items[b.text] ELSE None)
       [] op = "SET_DYNAMIC" /\ upto -> Ok(Stored(m, a, Extend(items, at + 1, vs[3])), vs[3])
       [] op = "SET_DYNAMIC" /\ keyed -> Ok(Stored(m, a, Extend(items, b.text, vs[3])), vs[3])
       [] op = "SLICE" /\ cut ->
            IF array THEN Ok(Allocated(m, [k \in 1..to - b.i |-> items[b.i + k]]), Array(Address(m)))
            ELSE Ok(m, Text([k \in 1..to - b.i |-> a.text[b.i + k]]))
       [] op = "COPY" -> IF Container(a) THEN Ok(Allocated(m, items), [a EXCEPT !.i = Address(m)])
                         ELSE Ok(m, a)
       [] op = "CLEAR" ->
            CASE Container(a) -> Ok(Stored(m, a, <<>>), a)
              [] Is(a, "string") -> Ok(m, Text(<<>>))
              [] a.is \in {"bool", "integer", "float"} -> Ok(m, [a EXCEPT !.i = 0, !.d = 1])
              [] OTHER -> Ok(m, None)
       [] op = "KEYS" /\ Is(a, "table") ->
            LET keys == KeysIn(m, a, Alphabet)
            IN Ok(Allocated(m, [k \in DOMAIN keys |-> Text(keys[k])]), Array(Address(m)))
       [] op = "ECHO" -> Ok(Said("out", Append(Shown(m, a), "\n")), None)
       [] op = "PRINT" -> Ok(Said(IF Truthy(m, a) THEN "error" ELSE "out", Shown(m, b)), None)
       [] op = "THROW" -> Result(m, "throw", a)
       [] OTHER -> Fail(m)

Does(m, op, vs) == IF op \in Pure THEN Operate(m, op, vs) ELSE Change(m, op, vs)

-----------------------------------------------------------------------------
(* Variables: the innermost local of the function, or a global *)

LocalAt(m, n) == SelectLastInSeq(m.env, LAMBDA x : x.name = n)

Read(m, n) ==
  IF LocalAt(m, n) > 0 THEN Ok(m, m.env[LocalAt(m, n)].value)
  ELSE IF n \in DOMAIN m.globals THEN Ok(m, m.globals[n]) ELSE Fail(m)

Write(m, n, v) ==
  IF LocalAt(m, n) > 0 THEN [m EXCEPT !.env[LocalAt(m, n)].value = v]
  ELSE [m EXCEPT !.globals = Extend(@, n, v)]

Bind(m, n, v) == [m EXCEPT !.env = Append(@, [name |-> n, value |-> v])]

Define(m, n, v) ==
  CASE m.level > 0 -> Ok(Bind(m, n, v), None)
    [] n \in DOMAIN m.globals -> Fail(m)
    [] OTHER -> Ok([m EXCEPT !.globals = Extend(@, n, v)], None)

\* the scope and the calls of an earlier state
Leave(m, earlier) ==
  [m EXCEPT !.env = SubSeq(@, 1, Len(earlier.env)), !.level = earlier.level, !.depth = earlier.depth]

-----------------------------------------------------------------------------
(* Expressions and statements *)

RECURSIVE Eval(_, _), Exec(_, _), Repeat(_, _, _), Each(_, _, _, _)

\* expressions from left to right: v is the sequence of their values
EvalAll(m, es) ==
  InTurn(LAMBDA r, e : IF r.sig # "ok" THEN r
                         ELSE LET x == Eval(r.m, e)
                              IN [x EXCEPT !.v = IF x.sig = "ok" THEN Append(r.v, @) ELSE @],
           Ok(m, <<>>), es)

ExecAll(m, body) == InTurn(LAMBDA r, s : IF r.sig = "ok" THEN Exec(r.m, s) ELSE r, Ok(m, None), body)

InBlock(m, body) ==
  LET r == ExecAll([m EXCEPT !.level = @ + 1], body)
  IN IF r.sig = "throw" THEN r ELSE [r EXCEPT !.m = Leave(r.m, m)]

\* a function sees its parameters and the globals
CallWith(m, f, vs) ==
  IF ~Is(f, "function") THEN Fail(m)
  ELSE LET def == m.defs[f.text[1]]
           env == [k \in DOMAIN vs |-> [name |-> def.es[k].n, value |-> vs[k]]]
           r == ExecAll([m EXCEPT !.env = env, !.level = 1, !.depth = @ + 1], def.bs[1])
           back == [r.m EXCEPT !.env = m.env, !.level = m.level, !.depth = m.depth]
       IN IF Len(vs) # Len(def.es) \/ m.depth = FramesMax THEN Fail(m)
          ELSE IF r.sig = "throw" THEN Result(back, "throw", r.v)
          ELSE Ok(back, IF r.sig = "return" THEN r.v ELSE None)

\* and, or: the value that decides
Circuit(m, e) ==
  LET r == Eval(m, e.es[1])
  IN IF r.sig # "ok" \/ Truthy(r.m, r.v) = (e.k = "or") THEN r ELSE Eval(r.m, e.es[2])

Eval(m, e) ==
  LET all == EvalAll(m, e.es)
      vs == all.v
      fields == [k \in DOMAIN e.es |-> e.es[k].v.text]
  IN CASE e.k = "literal" -> Ok(m, e.v)
       [] e.k = "variable" -> Read(m, e.n)
       [] e.k \in {"and", "or"} -> Circuit(m, e)
       [] e.k = "function" -> Ok([m EXCEPT !.defs = Extend(@, e.n, e)], Function(e.n))
       [] e.k = "assign" ->
            LET old == Read(m, e.n)
                r == Eval(m, e.es[1])
                new == IF e.v.text[1] = "SET" THEN r ELSE Does(r.m, e.v.text[1], <<old.v, r.v>>)
            IN IF e.v.text[1] # "SET" /\ old.sig # "ok" THEN old
               ELSE IF r.sig # "ok" THEN r
               ELSE IF new.sig # "ok" THEN new ELSE Ok(Write(new.m, e.n, new.v), new.v)
       [] e.k = "nothing" -> Ok(m, None)
       [] e.k = "field" -> Eval(m, e.es[1])
       [] OTHER ->
            IF all.sig # "ok" THEN all
            ELSE CASE e.k = "operation" -> Does(all.m, e.n, vs)
                   [] e.k = "square" ->
                        IF e.n = "SLICE" /\ e.es[2].k = "nothing"
                        THEN Does(all.m, e.n, <<vs[1], Number(0), vs[3]>>)
                        ELSE Does(all.m, e.n, vs)
                   [] e.k = "array" -> Ok(Allocated(all.m, vs), Array(Address(all.m)))
                   [] e.k = "table" ->
                        Ok(Allocated(all.m, [key \in Range(fields) |-> vs[Max({k \in DOMAIN fields : fields[k] = key})]]),
                           Table(Address(all.m)))
                   [] e.k = "dot" ->
                        IF ~Is(vs[1], "table") THEN Fail(all.m)
                        ELSE IF Len(vs) = 1 THEN Does(all.m, "GET_DYNAMIC", <<vs[1], Text(<<e.n>>)>>)
                        ELSE Does(all.m, "SET_DYNAMIC", <<vs[1], Text(<<e.n>>), vs[2]>>)
                   [] e.k = "call" -> CallWith(all.m, vs[1], Tail(vs))
                   [] e.k = "pointer" ->
                        IF ~Is(vs[1], "table") \/ <<e.n>> \notin DOMAIN Cell(all.m, vs[1]) THEN Fail(all.m)
                        ELSE CallWith(all.m, Cell(all.m, vs[1])[<<e.n>>], vs)

\* while e: s has the test and, for a for loop, the step
Repeat(m, s, step) ==
  LET test == Eval(m, s.test)
      body == InBlock(test.m, s.body)
      after == Eval(body.m, step)
  IN IF test.sig # "ok" THEN test
     ELSE IF ~Truthy(test.m, test.v) THEN Ok(test.m, None)
     ELSE IF body.sig = "break" THEN Ok(body.m, None)
     ELSE IF body.sig \in {"return", "throw"} THEN body
     ELSE IF after.sig # "ok" THEN after
     ELSE Repeat(after.m, s, step)

\* for a, b in object: from the item after the one at k
Each(m, s, object, k) ==
  LET keys == KeysIn(m, object, BinOrder)
      Bin(key) == SelectInSeq(BinOrder, LAMBDA x : x = key)
      next == IF Is(object, "array") THEN k + 1
              ELSE Min({Bin(keys[j]) : j \in {j \in DOMAIN keys : Bin(keys[j]) > k}}
                         \cup {Len(BinOrder) + 1})
      more == IF Is(object, "array") THEN next <= Size_(m, object) ELSE next <= Len(BinOrder)
      index == IF Is(object, "array") THEN Number(next - 1) ELSE Text(BinOrder[next])
      item == Cell(m, object)[IF Is(object, "array") THEN next ELSE BinOrder[next]]
      named == IF s.v.text = <<>> THEN Bind([m EXCEPT !.level = @ + 1], s.n, item)
               ELSE Bind(Bind([m EXCEPT !.level = @ + 1], s.n, index), s.v.text[1], item)
      body == InBlock(named, s.bs[1])
      after == [body EXCEPT !.m = Leave(@, m)]
  IN IF ~more THEN Ok(m, None)
     ELSE IF body.sig = "break" THEN Ok(after.m, None)
     ELSE IF body.sig \in {"return", "throw"} THEN after
     ELSE Each(after.m, s, object, next)

\* the first condition of an if that holds, or 0; conditions before it are
\* evaluated in their order
Chosen(m, es) ==
  InTurn(LAMBDA r, k : IF r.sig # "ok" \/ r.v > 0 THEN r
                         ELSE LET x == Eval(r.m, es[k])
                              IN IF x.sig # "ok" THEN x
                                 ELSE Ok(x.m, IF Truthy(x.m, x.v) THEN k ELSE 0),
           Ok(m, 0), [k \in DOMAIN es |-> k])

Exec(m, s) ==
  CASE s.k = "set" ->
         LET r == Eval(m, s.es[1]) IN IF r.sig = "ok" THEN Define(r.m, s.n, r.v) ELSE r
    [] s.k = "func" -> LET r == Eval(m, s.es[1]) IN Define(r.m, s.n, r.v)
    [] s.k = "expression" -> Eval(m, s.es[1])
    [] s.k = "statement" ->
         LET r == EvalAll(m, s.es) IN IF r.sig = "ok" THEN Does(r.m, s.n, r.v) ELSE r
    [] s.k = "block" -> InBlock(m, s.bs[1])
    [] s.k = "if" ->
         LET r == Chosen(m, s.es)
             arm == IF r.sig = "ok" /\ r.v > 0 THEN r.v
                    ELSE IF Len(s.bs) > Len(s.es) THEN Len(s.bs) ELSE 0
         IN IF r.sig # "ok" THEN r ELSE IF arm = 0 THEN Ok(r.m, None) ELSE InBlock(r.m, s.bs[arm])
    [] s.k = "while" -> Repeat(m, [test |-> s.es[1], body |-> s.bs[1]], Nil)
    [] s.k = "for" ->
         LET first == Eval(m, s.es[1])
             inside == Bind([first.m EXCEPT !.level = @ + 1], s.n, first.v)
             step == IF Len(s.es) = 3 THEN s.es[3] ELSE Update_(s.n, "ADD", I(1))
             r == Repeat(inside, [test |-> s.es[2], body |-> s.bs[1]], step)
         IN IF first.sig # "ok" THEN first ELSE [r EXCEPT !.m = Leave(@, m)]
    [] s.k = "iterator" ->
         LET r == Eval(m, s.es[1])
         IN IF r.sig # "ok" THEN r
            ELSE IF ~Container(r.v) THEN Fail(r.m)
            ELSE Each(r.m, s, r.v, 0)
    [] s.k = "return" ->
         LET r == EvalAll(m, s.es)
         IN IF r.sig # "ok" THEN r ELSE Result(r.m, "return", IF s.es = <<>> THEN None ELSE r.v[1])
    [] s.k \in {"break", "continue"} -> Result(m, s.k, None)
    [] s.k = "try" ->
         LET r == InBlock(m, s.bs[1])
             caught == Bind([Leave(r.m, m) EXCEPT !.level = @ + 1], s.n, r.v)
             handled == ExecAll(caught, s.bs[2])
         IN IF r.sig # "throw" THEN r
            ELSE [handled EXCEPT !.m = Leave(handled.m, m)]

-----------------------------------------------------------------------------
\* A direct command writes the value of an expression at its end
Ended(body, type) ==
  IF type = "direct" /\ body # <<>> /\ Last(body).k = "expression"
  THEN Append(Front(body), Echo(Last(body).es[1]))
  ELSE body

\* what a script prints, an error that nobody catches included
Meaning(body, type) ==
  LET r == ExecAll(Empty, Ended(body, type))
  IN IF r.sig = "throw"
     THEN [end |-> "error", out |-> Append(r.m.out, [to |-> "host", text |-> Shown(r.m, r.v)])]
     ELSE [end |-> "done", out |-> r.m.out]
=============================================================================
