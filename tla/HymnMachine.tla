---------------------------- MODULE HymnMachine ----------------------------
(***************************************************************************)
(* run(): the interpreter of byte code.  One action per instruction, or    *)
(* per group of instructions that differ in an operator only.              *)
(*                                                                         *)
(* An error is raised after the bytes that the instruction has read by     *)
(* then, which decides the except range that catches it.  Imports, natives *)
(* and the two errors of a tail call are in HymnFrames, the counts of      *)
(* references in HymnHeap, the chains of a table in HymnTable.             *)
(***************************************************************************)
EXTENDS HymnCode

CONSTANTS
  FramesMax,   \* HYMN_FRAMES_MAX
  BinOrder,    \* the texts that are keys, in the order of their bins
  Alphabet     \* the same texts in the order of strcmp

ASSUME MachineAssumption ==
  /\ FramesMax \in Nat \ {0}
  /\ Range(BinOrder) = Range(Alphabet)

VARIABLES
  functions, \* the compiled functions, by their names
  frames,    \* H->frames up to frame_count: id, ip and base of each
  stack,     \* the value stack
  globals,   \* H->globals, a function of names
  heap,      \* the arrays and tables [is, items] at addresses 1, 2, ...;
             \* the items of a table are [key, value] in the order of bins
  out,       \* what has been printed: [to, text]
  status     \* "run", "done", "error", and "idle" outside of a run

data == <<globals, heap, out>>
machine == <<functions, frames, stack, data, status>>

ErrorText == Text(<<"error">>)  \* the message of every error the machine raises

-----------------------------------------------------------------------------
(* The instruction at ip and its operands *)

Frame == frames[Len(frames)]
Running == functions[Frame.id]
Instruction == OpAt(Running.code, Frame.ip)
Operand(k) == Byte(Running.code, Frame.ip + k)
JumpBy == Short(Running.code, Frame.ip + Width(Instruction) - 2)

Slot(k) == Frame.base + Operand(k) + 1
Local(k) == stack[Slot(k)]
ConstantOf(k) == Running.constants[Operand(k) + 1]
Peek(n) == stack[Len(stack) - n + 1]
Drop(n) == SubSeq(stack, 1, Len(stack) - n)

Arithmetic == {"SUBTRACT", "MULTIPLY", "DIVIDE"}
Tests == {"LESS", "LESS_EQUAL", "GREATER", "GREATER_EQUAL"}
Equals == {"EQUAL", "NOT_EQUAL"}
EqualJumps == {"JUMP_IF_EQUAL", "JUMP_IF_NOT_EQUAL"}
TestOf == [JUMP_IF_LESS |-> "LESS", JUMP_IF_LESS_EQUAL |-> "LESS_EQUAL",
           JUMP_IF_GREATER |-> "GREATER", JUMP_IF_GREATER_EQUAL |-> "GREATER_EQUAL"]

\* how many values an instruction takes from the stack
Takes(name) ==
  CASE name \in {"INSERT", "SET_DYNAMIC", "SLICE"} -> 3
    [] name \in Arithmetic \cup Tests \cup Equals \cup BitOps \cup DOMAIN TestOf
         \cup EqualJumps -> 2
    [] name \in {"ADD", "MODULO", "ARRAY_PUSH", "DELETE", "EXISTS", "GET_DYNAMIC", "INDEX",
                 "POP_TWO", "PRINT", "SET_PROPERTY"} -> 2
    [] name = "POP_N" -> Operand(1)
    [] name \in {"CALL", "TAIL_CALL"} -> Operand(1) + 1
    [] name \in {"TRUE", "FALSE", "NONE", "CONSTANT", "NEW_ARRAY", "NEW_TABLE", "GET_GLOBAL",
                 "GET_GLOBAL_PROPERTY", "GET_LOCAL", "GET_LOCALS", "ADD_LOCALS",
                 "MODULO_LOCALS", "ARRAY_PUSH_LOCALS", "INCREMENT_LOCAL",
                 "INCREMENT_LOCAL_AND_SET", "INCREMENT_LOOP", "JUMP", "LOOP", "FOR",
                 "FOR_LOOP", "JUMP_IF_GREATER_LOCALS", "VOID"} -> 0
    [] OTHER -> 1

\* the operands of an instruction that are slots, and those that are constants
Slots(name) ==
  CASE name \in {"GET_LOCAL", "SET_LOCAL", "INCREMENT_LOCAL", "INCREMENT_LOCAL_AND_SET",
                 "INCREMENT_LOOP", "FOR", "FOR_LOOP"} -> {1}
    [] name \in {"GET_LOCALS", "ADD_LOCALS", "MODULO_LOCALS", "ARRAY_PUSH_LOCALS",
                 "JUMP_IF_GREATER_LOCALS"} -> {1, 2}
    [] OTHER -> {}

Constants(name) ==
  CASE name \in {"CONSTANT", "DEFINE_GLOBAL", "SET_GLOBAL", "GET_GLOBAL", "SET_PROPERTY",
                 "GET_PROPERTY", "SELF"} -> {1}
    [] name = "GET_GLOBAL_PROPERTY" -> {1, 2}
    [] OTHER -> {}

LeftOut == {"USE", "SOURCE", "CODES", "STACK", "REFERENCE", "FORMAT", "UNKNOWN"}

\* an integer that is divided by zero
Traps ==
  LET dividing(a, b) == Is(a, "integer") /\ b = Number(0)
  IN CASE Instruction \in {"DIVIDE", "MODULO"} -> dividing(Peek(2), Peek(1))
       [] Instruction = "MODULO_LOCALS" -> dividing(Local(1), Local(2))
       [] OTHER -> FALSE

\* the instruction has a meaning: the stack holds what it takes (the assertion
\* in pop), its slots are below the top and its constants in the pool
Sound ==
  /\ Frame.ip \in 0..Len(Running.code) - 1
  /\ Instruction \notin LeftOut
  /\ Len(stack) >= Takes(Instruction)
  /\ \A k \in Slots(Instruction) : Slot(k) <= Len(stack)
  /\ \A k \in Constants(Instruction) : Operand(k) + 1 \in DOMAIN Running.constants
  /\ ~Traps

Reads(names) == status = "run" /\ Instruction \in names /\ Sound

-----------------------------------------------------------------------------
(* What an instruction does *)

\* ip after k bytes of the instruction have been read
Moved(k) == [frames EXCEPT ![Len(frames)].ip = @ + k]

Goes(offset) == frames' = Moved(Width(Instruction) + offset)

Continues == Goes(0)

\* the values pushed and the heap that an instruction leaves
Leaves(values, cells) == [values |-> values, heap |-> cells]
Just(v) == Leaves(<<v>>, heap)

\* New cells of the heap, and changed ones
Fresh == Len(heap) + 1
Alloc(is, items) == Append(heap, [is |-> is, items |-> items])
Put(v, items) == [heap EXCEPT ![v.i].items = items]
Items(v) == heap[v.i].items

-----------------------------------------------------------------------------
(* Values *)

\* hymn_value_false
Falsy(v) ==
  CASE v.is = "none" -> TRUE
    [] v.is \in {"bool", "integer", "float"} -> v.i = 0
    [] v.is = "string" -> v.text = <<>>
    [] v.is \in {"array", "table"} -> Items(v) = <<>>
    [] OTHER -> FALSE

\* hymn_values_equal; hymn_match_values does not compare an integer with a float
Equal(a, b) == IF Numeric(a) /\ Numeric(b) THEN a.i = b.i /\ a.d = b.d ELSE a = b

Compare(name, a, b) ==
  LET x == a.i * b.d
      y == b.i * a.d
  IN CASE name = "LESS" -> x < y
       [] name = "LESS_EQUAL" -> x <= y
       [] name = "GREATER" -> x > y
       [] OTHER -> x >= y

\* what a table has for a key, as a set
Found(items, key) == {items[k].value : k \in {j \in DOMAIN items : items[j].key = key}}

\* table_get, where a missing key reads none
Property(items, key) == IF Found(items, key) = {} THEN None ELSE CHOOSE v \in Found(items, key) : TRUE

Bin(key) == SelectInSeq(BinOrder, LAMBDA k : k = key)

\* table_put and table_remove
Without(items, key) == SelectSeq(items, LAMBDA x : x.key # key)

With(items, key, value) ==
  SelectSeq(items, LAMBDA x : Bin(x.key) < Bin(key)) \o <<[key |-> key, value |-> value]>>
    \o SelectSeq(items, LAMBDA x : Bin(x.key) > Bin(key))

\* table_keys
SortedKeys(items) == SelectSeq(Alphabet, LAMBDA key : Found(items, key) # {})

Joined(texts, between) ==
  FoldLeft(LAMBDA all, t : IF all = <<>> THEN t ELSE all \o between \o t, <<>>, texts)

Quoted(text) == <<"\"">> \o text \o <<"\"">>

\* value_to_string_recusive: the text of a value and the containers seen so far,
\* which are written once only
RECURSIVE Written(_, _, _)

Written(v, seen, quote) ==
  LET list == IF v.is = "array" THEN Items(v)
              ELSE [k \in DOMAIN SortedKeys(Items(v)) |->
                      Property(Items(v), SortedKeys(Items(v))[k])]
      Name(k) == IF v.is = "array" THEN <<>>
                 ELSE Quoted(SortedKeys(Items(v))[k]) \o <<":", " ">>
      Write(done, k) ==
        LET item == Written(list[k], done.seen, TRUE)
        IN [texts |-> Append(done.texts, Name(k) \o item.text), seen |-> item.seen]
      written == FoldLeft(Write, [texts |-> <<>>, seen |-> seen \cup {v.i}],
                          [k \in DOMAIN list |-> k])
      open == IF v.is = "array" THEN <<"[">> ELSE <<"{", " ">>
      close == IF v.is = "array" THEN <<"]">> ELSE <<" ", "}">>
  IN IF v.is \notin {"array", "table"}
     THEN [text |-> IF quote /\ Is(v, "string") THEN Quoted(v.text) ELSE Plain(v), seen |-> seen]
     ELSE IF Items(v) = <<>>
     THEN [text |-> IF v.is = "array" THEN <<"[", "]">> ELSE <<"{", "}">>, seen |-> seen]
     ELSE IF v.i \in seen
     THEN [text |-> IF v.is = "array" THEN <<"[", "..", "]">> ELSE <<"{", " ", "..", " ", "}">>,
           seen |-> seen]
     ELSE [text |-> open \o Joined(written.texts, <<",", " ">>) \o close, seen |-> written.seen]

\* hymn_value_to_string
ToText(v) == Written(v, {}, FALSE).text

Concat(a, b) == Text(ToText(a) \o ToText(b))

\* OP_ADD, as sets; an integer and a float leave the integer
Sum(a, b) ==
  CASE Is(a, "string") \/ (Is(b, "string") /\ (Numeric(a) \/ a.is \in {"none", "bool"})) ->
         {Concat(a, b)}
    [] Is(a, "integer") /\ Is(b, "integer") -> {Integer("ADD", a.i, b.i)}
    [] Is(a, "integer") /\ Is(b, "float") -> {a}
    [] Is(a, "float") /\ Numeric(b) -> {Fraction("ADD", a, b)}
    [] OTHER -> {}

Calculated(name, a, b) ==
  CASE Is(a, "integer") /\ Is(b, "integer") -> {Integer(name, a.i, b.i)}
    [] Numeric(a) /\ Numeric(b) -> {Fraction(name, a, b)}
    [] OTHER -> {}

Modulo(a, b) ==
  IF Is(a, "integer") /\ Is(b, "integer") THEN {Number(Remainder(a.i, b.i))} ELSE {}

\* a number grows by the byte in the instruction
Grown(v, by) == IF Numeric(v) THEN Calculated("ADD", v, Number(by)) ELSE {}

\* indices of items that are there, and of those with the place behind the last;
\* a negative index counts from the end
IndexBelow(i, size) == {j \in {IF i < 0 THEN size + i ELSE i} : i < size /\ j >= 0}
IndexUpTo(i, size) == {j \in {IF i < 0 THEN size + i ELSE i} : i <= size /\ j >= 0}

\* strtod on a text: the number in front of it, as a set
Leading(text) ==
  LET sign == IF text # <<>> /\ Head(text) = "-" THEN 1 ELSE 0
      digits == {k \in sign + 1..Len(text) : \A j \in sign + 1..k : text[j] \in Range(Digit)}
      value == FoldLeft(LAMBDA n, c : 10 * n + (CHOOSE i \in 1..10 : Digit[i] = c) - 1, 0,
                        SubSeq(text, sign + 1, Max({0} \cup digits)))
  IN IF digits = {} THEN {} ELSE {IF sign = 1 THEN -value ELSE value}

-----------------------------------------------------------------------------
(* Errors and results *)

\* exception: the error unwinds the frames to the first range around an ip
Catching(read) ==
  {i \in DOMAIN frames :
     \E k \in DOMAIN functions[frames[i].id].except :
       LET range == functions[frames[i].id].except[k]
       IN range.start <= Moved(read)[i].ip /\ Moved(read)[i].ip <= range.end}

Handler(i, read) ==
  LET except == functions[frames[i].id].except
      ip == Moved(read)[i].ip
  IN except[Min({k \in DOMAIN except : except[k].start <= ip /\ ip <= except[k].end})]

Throws(read, message) ==
  /\ UNCHANGED <<functions, globals, heap>>
  /\ IF Catching(read) = {}
     THEN /\ frames' = <<>> /\ stack' = <<>>
          /\ out' = Append(out, [to |-> "host", text |-> ToText(message)])
          /\ status' = "error"
     ELSE LET i == Max(Catching(read))
              handler == Handler(i, read)
          IN /\ frames' = [SubSeq(frames, 1, i) EXCEPT ![i].ip = handler.end]
             /\ stack' = Append(SubSeq(stack, 1, frames[i].base + handler.locals), message)
             /\ UNCHANGED <<out, status>>

\* The instruction takes n values and leaves one of the results; without any
\* it raises an error.
Answers(read, n, results) ==
  IF results = {} THEN Throws(read, ErrorText)
  ELSE \E r \in results :
         /\ stack' = Drop(n) \o r.values /\ heap' = r.heap /\ Continues
         /\ UNCHANGED <<functions, globals, out, status>>

-----------------------------------------------------------------------------
(* Instructions on the stack *)

Void ==
  /\ Reads({"VOID"})
  /\ frames' = Front(frames)
  /\ LET base == SubSeq(stack, 1, Frame.base)
     IN IF Len(frames) = 1 THEN stack' = base /\ status' = "done"
        ELSE stack' = Append(base, None) /\ UNCHANGED status
  /\ UNCHANGED <<functions, data>>

Return ==
  /\ Reads({"RETURN"})
  /\ frames' = Front(frames)
  /\ LET base == SubSeq(stack, 1, Frame.base)
     IN IF Len(frames) = 1 THEN stack' = base /\ status' = "done"
        ELSE stack' = Append(base, Peek(1)) /\ UNCHANGED status
  /\ UNCHANGED <<functions, data>>

Pop ==
  /\ Reads({"POP", "POP_TWO", "POP_N"})
  /\ Answers(Width(Instruction), Takes(Instruction), {Leaves(<<>>, heap)})

Literals == [TRUE |-> Truth(TRUE), FALSE |-> Truth(FALSE), NONE |-> None]

PushLiteral ==
  /\ Reads(DOMAIN Literals)
  /\ Answers(1, 0, {Just(Literals[Instruction])})

PushConstant ==
  /\ Reads({"CONSTANT"})
  /\ Answers(2, 0, {Just(ConstantOf(1))})

Duplicate ==
  /\ Reads({"DUPLICATE"})
  /\ Answers(1, 0, {Just(Peek(1))})

GetLocals ==
  /\ Reads({"GET_LOCAL", "GET_LOCALS"})
  /\ Answers(Width(Instruction), 0,
       {Leaves(IF Instruction = "GET_LOCAL" THEN <<Local(1)>> ELSE <<Local(1), Local(2)>>, heap)})

SetLocal ==
  /\ Reads({"SET_LOCAL"})
  /\ stack' = [stack EXCEPT ![Slot(1)] = Peek(1)]
  /\ Continues /\ UNCHANGED <<functions, data, status>>

-----------------------------------------------------------------------------
(* Numbers and texts *)

Add ==
  /\ Reads({"ADD"})
  /\ Answers(1, 2, {Just(v) : v \in Sum(Peek(2), Peek(1))})

AddLocals ==
  /\ Reads({"ADD_LOCALS"})
  /\ Answers(3, 0, {Just(v) : v \in Sum(Local(1), Local(2))})

Increment ==
  /\ Reads({"INCREMENT"})
  /\ LET a == Peek(1)
         by == Number(Operand(1))
     IN Answers(2, 1, {Just(v) : v \in IF Numeric(a) \/ Is(a, "string") THEN Sum(a, by) ELSE {}})

IncrementLocal ==
  /\ Reads({"INCREMENT_LOCAL"})
  /\ Answers(3, 0, {Just(v) : v \in Grown(Local(1), Operand(2))})

IncrementSet ==
  /\ Reads({"INCREMENT_LOCAL_AND_SET", "INCREMENT_LOOP"})
  /\ LET loop == Instruction = "INCREMENT_LOOP"
         grown == Grown(Local(1), Operand(2))
     IN IF grown = {} THEN Throws(Width(Instruction), ErrorText)
        ELSE /\ stack' = [stack EXCEPT ![Slot(1)] = CHOOSE v \in grown : TRUE]
             /\ Goes(IF loop THEN -JumpBy ELSE 0)
             /\ UNCHANGED <<functions, data, status>>

Calculate ==
  /\ Reads(Arithmetic)
  /\ Answers(1, 2, {Just(v) : v \in Calculated(Instruction, Peek(2), Peek(1))})

TakeModulo ==
  /\ Reads({"MODULO"})
  /\ Answers(1, 2, {Just(v) : v \in Modulo(Peek(2), Peek(1))})

ModuloLocals ==
  /\ Reads({"MODULO_LOCALS"})
  /\ Answers(3, 0, {Just(v) : v \in Modulo(Local(1), Local(2))})

BitOperation ==
  /\ Reads(BitOps)
  /\ LET a == Peek(2)
         b == Peek(1)
     IN Answers(1, 2, {Just(Number(Bitwise(Instruction, a.i, b.i))) :
                         x \in {y \in {1} : Is(a, "integer") /\ Is(b, "integer")}})

\* ~, - and not
Unary ==
  /\ Reads({"BIT_NOT", "NEGATE", "NOT"})
  /\ LET a == Peek(1)
         results == CASE Instruction = "BIT_NOT" /\ Is(a, "integer") -> {Number(-1 - a.i)}
                      [] Instruction = "NEGATE" /\ Is(a, "integer") -> {Number(-a.i)}
                      [] Instruction = "NEGATE" /\ Is(a, "float") -> {Float(-a.i, a.d)}
                      [] Instruction = "NOT" /\ Is(a, "bool") -> {Truth(a.i = 0)}
                      [] OTHER -> {}
     IN Answers(1, 1, {Just(v) : v \in results})

TestEqual ==
  /\ Reads(Equals)
  /\ Answers(1, 2, {Just(Truth(Equal(Peek(2), Peek(1)) = (Instruction = "EQUAL")))})

Test ==
  /\ Reads(Tests)
  /\ LET a == Peek(2)
         b == Peek(1)
     IN Answers(1, 2, {Just(Truth(Compare(Instruction, a, b))) :
                         x \in {y \in {1} : Numeric(a) /\ Numeric(b)}})

\* int(), float(), str() and type()
CastInt ==
  /\ Reads({"INT"})
  /\ LET a == Peek(1)
         results == CASE Numeric(a) -> {Number(Quotient(a.i, a.d))}
                      [] Is(a, "string") ->
                           IF Leading(a.text) = {} THEN {None} ELSE {Number(i) : i \in Leading(a.text)}
                      [] OTHER -> {}
     IN Answers(1, 1, {Just(v) : v \in results})

CastFloat ==
  /\ Reads({"FLOAT"})
  /\ LET a == Peek(1)
         results == CASE Numeric(a) -> {Float(a.i, a.d)}
                      [] Is(a, "string") ->
                           IF Leading(a.text) = {} THEN {None} ELSE {Float(i, 1) : i \in Leading(a.text)}
                      [] OTHER -> {}
     IN Answers(1, 1, {Just(v) : v \in results})

CastText ==
  /\ Reads({"STRING", "TYPE"})
  /\ Answers(1, 1, {Just(Text(IF Instruction = "TYPE" THEN <<Peek(1).is>> ELSE ToText(Peek(1))))})

-----------------------------------------------------------------------------
(* Variables, calls and jumps *)

DefineGlobal ==
  /\ Reads({"DEFINE_GLOBAL"})
  /\ LET name == ConstantOf(1).text
     IN IF name \in DOMAIN globals THEN Throws(2, ErrorText)
        ELSE /\ globals' = [x \in DOMAIN globals \cup {name} |->
                              IF x = name THEN Peek(1) ELSE globals[x]]
             /\ stack' = Drop(1) /\ Continues
             /\ UNCHANGED <<functions, heap, out, status>>

SetGlobal ==
  /\ Reads({"SET_GLOBAL"})
  /\ LET name == ConstantOf(1).text
     IN globals' = [x \in DOMAIN globals \cup {name} |-> IF x = name THEN Peek(1) ELSE globals[x]]
  /\ Continues /\ UNCHANGED <<functions, stack, heap, out, status>>

GetGlobal ==
  /\ Reads({"GET_GLOBAL"})
  /\ LET name == ConstantOf(1).text
     IN Answers(2, 0, {Just(globals[x]) : x \in {name} \cap DOMAIN globals})

GetGlobalProperty ==
  /\ Reads({"GET_GLOBAL_PROPERTY"})
  /\ LET tables == {x \in {ConstantOf(1).text} \cap DOMAIN globals : Is(globals[x], "table")}
     IN Answers(3, 0, {Just(Property(Items(globals[x]), ConstantOf(2).text)) : x \in tables})

CallFunction ==
  /\ Reads({"CALL"})
  /\ LET f == Peek(Operand(1) + 1)
         base == Len(stack) - Operand(1) - 1
     IN IF \/ ~Is(f, "function") \/ functions[f.text[1]].arity # Operand(1)
           \/ Len(frames) = FramesMax
        THEN Throws(2, ErrorText)
        ELSE /\ frames' = Append(Moved(2), [id |-> f.text[1], ip |-> 0, base |-> base])
             /\ UNCHANGED <<functions, stack, data, status>>

TailCall ==
  /\ Reads({"TAIL_CALL"})
  /\ LET f == Peek(Operand(1) + 1)
     IN IF ~Is(f, "function") \/ functions[f.text[1]].arity # Operand(1)
        THEN Throws(2, ErrorText)
        ELSE /\ frames' = [frames EXCEPT ![Len(frames)] = [@ EXCEPT !.id = f.text[1], !.ip = 0]]
             /\ stack' = SubSeq(stack, 1, Frame.base)
                           \o SubSeq(stack, Len(stack) - Operand(1), Len(stack))
             /\ UNCHANGED <<functions, data, status>>

\* t->f: the function below the table; a missing one is undefined
Self ==
  /\ Reads({"SELF"})
  /\ LET t == Peek(1)
         found == Found(Items(t), ConstantOf(1).text)
         f == IF found = {} THEN Undefined ELSE CHOOSE v \in found : TRUE
     IN IF Is(t, "table") THEN Answers(2, 1, {Leaves(<<f, t>>, heap)})
        ELSE Throws(1, ErrorText)

JumpAlways ==
  /\ Reads({"JUMP", "LOOP"})
  /\ Goes(IF Instruction = "JUMP" THEN JumpBy ELSE -JumpBy)
  /\ UNCHANGED <<functions, stack, data, status>>

Jumps(n, taken) ==
  /\ Goes(IF taken THEN JumpBy ELSE 0)
  /\ stack' = Drop(n)
  /\ UNCHANGED <<functions, data, status>>

JumpIf ==
  /\ Reads({"JUMP_IF_FALSE", "JUMP_IF_TRUE"})
  /\ Jumps(1, Falsy(Peek(1)) = (Instruction = "JUMP_IF_FALSE"))

JumpIfEqual ==
  /\ Reads(EqualJumps)
  /\ Jumps(2, Equal(Peek(2), Peek(1)) = (Instruction = "JUMP_IF_EQUAL"))

JumpIfTest ==
  /\ Reads(DOMAIN TestOf)
  /\ IF Numeric(Peek(2)) /\ Numeric(Peek(1))
     THEN Jumps(2, Compare(TestOf[Instruction], Peek(2), Peek(1)))
     ELSE Throws(1, ErrorText)

JumpIfGreaterLocals ==
  /\ Reads({"JUMP_IF_GREATER_LOCALS"})
  /\ IF Numeric(Local(1)) /\ Numeric(Local(2))
     THEN Jumps(0, Compare("GREATER", Local(1), Local(2)))
     ELSE Throws(5, ErrorText)

-----------------------------------------------------------------------------
(* Loops over an array or a table: the object at a slot, the index or key at *)
(* the next one and the item at the one after                               *)

\* the index or key, and the item, of the items from k on
ItemAt(object, k) ==
  IF Is(object, "array") THEN <<Number(k - 1), Items(object)[k]>>
  ELSE <<Text(Items(object)[k].key), Items(object)[k].value>>

For ==
  /\ Reads({"FOR"})
  /\ LET object == Local(1)
         Slotted(pair) == [stack \o <<None, None>> EXCEPT ![Slot(1) + 1] = pair[1],
                                                          ![Slot(1) + 2] = pair[2]]
     IN IF object.is \notin {"array", "table"} THEN Throws(2, ErrorText)
        ELSE /\ stack' = Slotted(IF Items(object) = <<>> THEN <<None, None>> ELSE ItemAt(object, 1))
             /\ Goes(IF Items(object) = <<>> THEN JumpBy ELSE 0)
             /\ UNCHANGED <<functions, data, status>>

\* table_next, or the index after this one
NextItem(object, at) ==
  IF Is(object, "array") THEN at.i + 2
  ELSE LET later == {k \in DOMAIN Items(object) : Bin(Items(object)[k].key) > Bin(at.text)}
       IN Min(later \cup {Len(Items(object)) + 1})

ForLoop ==
  /\ Reads({"FOR_LOOP"})
  /\ LET object == Local(1)
         k == NextItem(object, stack[Slot(1) + 1])
     IN IF k > Len(Items(object)) THEN Continues /\ UNCHANGED stack
        ELSE /\ Goes(-JumpBy)
             /\ stack' = [stack EXCEPT ![Slot(1) + 1] = ItemAt(object, k)[1],
                                       ![Slot(1) + 2] = ItemAt(object, k)[2]]
  /\ UNCHANGED <<functions, data, status>>

-----------------------------------------------------------------------------
(* Arrays, tables and texts *)

New ==
  /\ Reads({"NEW_ARRAY", "NEW_TABLE"})
  /\ Answers(1, 0, {IF Instruction = "NEW_ARRAY"
                    THEN Leaves(<<Array(Fresh)>>, Alloc("array", <<>>))
                    ELSE Leaves(<<Table(Fresh)>>, Alloc("table", <<>>))})

SetProperty ==
  /\ Reads({"SET_PROPERTY"})
  /\ LET t == Peek(2)
         v == Peek(1)
     IN IF Is(t, "table")
        THEN Answers(2, 2, {Leaves(<<v>>, Put(t, With(Items(t), ConstantOf(1).text, v)))})
        ELSE Throws(1, ErrorText)

GetProperty ==
  /\ Reads({"GET_PROPERTY"})
  /\ IF Is(Peek(1), "table")
     THEN Answers(2, 1, {Just(Property(Items(Peek(1)), ConstantOf(1).text))})
     ELSE Throws(1, ErrorText)

Exists ==
  /\ Reads({"EXISTS"})
  /\ LET t == Peek(2)
         key == Peek(1)
     IN Answers(1, 2, {Just(Truth(Found(Items(t), key.text) # {})) :
                         x \in {y \in {1} : Is(t, "table") /\ Is(key, "string")}})

SetDynamic ==
  /\ Reads({"SET_DYNAMIC"})
  /\ LET object == Peek(3)
         at == Peek(2)
         v == Peek(1)
         old == Items(object)
         changed ==
           CASE Is(object, "array") /\ Is(at, "integer") ->
                  {IF j = Len(old) THEN Append(old, v) ELSE [old EXCEPT ![j + 1] = v] :
                     j \in IndexUpTo(at.i, Len(old))}
             [] Is(object, "table") /\ Is(at, "string") -> {With(old, at.text, v)}
             [] OTHER -> {}
     IN Answers(1, 3, {Leaves(<<v>>, Put(object, items)) : items \in changed})

GetDynamic ==
  /\ Reads({"GET_DYNAMIC"})
  /\ LET object == Peek(2)
         at == Peek(1)
         results ==
           CASE Is(object, "string") /\ Is(at, "integer") ->
                  {Text(<<object.text[j + 1]>>) : j \in IndexBelow(at.i, Len(object.text))}
             [] Is(object, "array") /\ Is(at, "integer") ->
                  {Items(object)[j + 1] : j \in IndexBelow(at.i, Len(Items(object)))}
             [] Is(object, "table") /\ Is(at, "string") -> {Property(Items(object), at.text)}
             [] OTHER -> {}
     IN Answers(1, 2, {Just(v) : v \in results})

Length ==
  /\ Reads({"LEN"})
  /\ LET v == Peek(1)
         results == CASE Is(v, "string") -> {Len(v.text)}
                      [] v.is \in {"array", "table"} -> {Len(Items(v))}
                      [] OTHER -> {}
     IN Answers(1, 1, {Just(Number(n)) : n \in results})

ArrayPop ==
  /\ Reads({"ARRAY_POP"})
  /\ LET a == Peek(1)
         popped == IF Items(a) = <<>> THEN Just(None)
                   ELSE Leaves(<<Last(Items(a))>>, Put(a, Front(Items(a))))
     IN IF Is(a, "array") THEN Answers(1, 1, {popped}) ELSE Throws(1, ErrorText)

ArrayPush ==
  /\ Reads({"ARRAY_PUSH"})
  /\ LET a == Peek(2)
     IN IF Is(a, "array")
        THEN Answers(1, 2, {Leaves(<<>>, Put(a, Append(Items(a), Peek(1))))})
        ELSE Throws(1, ErrorText)

ArrayPushLocals ==
  /\ Reads({"ARRAY_PUSH_LOCALS"})
  /\ LET a == Local(1)
     IN IF Is(a, "array")
        THEN Answers(3, 0, {Leaves(<<>>, Put(a, Append(Items(a), Local(2))))})
        ELSE Throws(2, ErrorText)

ArrayInsert ==
  /\ Reads({"INSERT"})
  /\ LET a == Peek(3)
         at == Peek(2)
         places == IF Is(a, "array") /\ Is(at, "integer") THEN IndexUpTo(at.i, Len(Items(a))) ELSE {}
     IN Answers(1, 3, {Leaves(<<>>, Put(a, InsertAt(Items(a), j + 1, Peek(1)))) : j \in places})

Delete ==
  /\ Reads({"DELETE"})
  /\ LET object == Peek(2)
         at == Peek(1)
         results ==
           CASE Is(object, "array") /\ Is(at, "integer") ->
                  {Leaves(<<Items(object)[j + 1]>>, Put(object, RemoveAt(Items(object), j + 1))) :
                     j \in IndexBelow(at.i, Len(Items(object)))}
             [] Is(object, "table") /\ Is(at, "string") ->
                  {Leaves(<<Property(Items(object), at.text)>>,
                          Put(object, Without(Items(object), at.text)))}
             [] OTHER -> {}
     IN Answers(1, 2, results)

\* a copy has the items themselves
Copy ==
  /\ Reads({"COPY"})
  /\ LET v == Peek(1)
     IN Answers(1, 1, {CASE Is(v, "array") -> Leaves(<<Array(Fresh)>>, Alloc("array", Items(v)))
                         [] Is(v, "table") -> Leaves(<<Table(Fresh)>>, Alloc("table", Items(v)))
                         [] OTHER -> Just(v)})

\* the ends of a slice, as a set: start is not negative, end may count from the
\* end, and a slice is not empty
SliceEnds(a, b, size) ==
  {j \in {CASE Is(b, "none") -> size
            [] OTHER -> IF b.i < 0 THEN size + b.i ELSE b.i} :
     /\ Is(a, "integer") /\ b.is \in {"integer", "none"}
     /\ a.i >= 0 /\ b.i <= size /\ j > a.i}

Slice ==
  /\ Reads({"SLICE"})
  /\ LET v == Peek(3)
         a == Peek(2)
         b == Peek(1)
         results ==
           CASE Is(v, "string") ->
                  {Just(Text(SubSeq(v.text, a.i + 1, j))) : j \in SliceEnds(a, b, Len(v.text))}
             [] Is(v, "array") ->
                  {Leaves(<<Array(Fresh)>>, Alloc("array", SubSeq(Items(v), a.i + 1, j))) :
                     j \in SliceEnds(a, b, Len(Items(v)))}
             [] OTHER -> {}
     IN Answers(1, 3, results)

Clear ==
  /\ Reads({"CLEAR"})
  /\ LET v == Peek(1)
     IN Answers(1, 1, {CASE Is(v, "bool") -> Just(Truth(FALSE))
                         [] Is(v, "integer") -> Just(Number(0))
                         [] Is(v, "float") -> Just(Float(0, 1))
                         [] Is(v, "string") -> Just(Text(<<>>))
                         [] v.is \in {"array", "table"} -> Leaves(<<v>>, Put(v, <<>>))
                         [] OTHER -> Just(None)})

Keys ==
  /\ Reads({"KEYS"})
  /\ LET t == Peek(1)
         keys == SortedKeys(Items(t))
     IN IF Is(t, "table")
        THEN Answers(1, 1, {Leaves(<<Array(Fresh)>>,
                                   Alloc("array", [k \in DOMAIN keys |-> Text(keys[k])]))})
        ELSE Throws(1, ErrorText)

\* index(): where a text, an item or a value is
Index ==
  /\ Reads({"INDEX"})
  /\ LET v == Peek(2)
         x == Peek(1)
         starts == {k \in 0..Len(v.text) - Len(x.text) : SubSeq(v.text, k + 1, k + Len(x.text)) = x.text}
         places == {k \in DOMAIN Items(v) : Items(v)[k] = x}
         held == {k \in DOMAIN Items(v) : Items(v)[k].value = x}
         results ==
           CASE Is(v, "string") /\ Is(x, "string") ->
                  {Number(IF starts = {} THEN -1 ELSE Min(starts))}
             [] Is(v, "array") -> {Number(IF places = {} THEN -1 ELSE Min(places) - 1)}
             [] Is(v, "table") -> {IF held = {} THEN None ELSE Text(Items(v)[Min(held)].key)}
             [] OTHER -> {}
     IN Answers(1, 2, {Just(r) : r \in results})

-----------------------------------------------------------------------------
(* Output and errors *)

EchoTop ==
  /\ Reads({"ECHO"})
  /\ out' = Append(out, [to |-> "out", text |-> Append(ToText(Peek(1)), "\n")])
  /\ stack' = Drop(1) /\ Continues
  /\ UNCHANGED <<functions, globals, heap, status>>

PrintTop ==
  /\ Reads({"PRINT"})
  /\ out' = Append(out, [to |-> IF Falsy(Peek(2)) THEN "out" ELSE "error",
                         text |-> ToText(Peek(1))])
  /\ stack' = Drop(2) /\ Continues
  /\ UNCHANGED <<functions, globals, heap, status>>

ThrowTop ==
  /\ Reads({"THROW"})
  /\ Throws(1, Peek(1))

-----------------------------------------------------------------------------
Step ==
  \/ Void \/ Return \/ Pop \/ PushLiteral \/ PushConstant \/ Duplicate \/ GetLocals \/ SetLocal
  \/ Add \/ AddLocals \/ Increment \/ IncrementLocal \/ IncrementSet \/ Calculate
  \/ TakeModulo \/ ModuloLocals \/ BitOperation \/ Unary \/ TestEqual \/ Test
  \/ CastInt \/ CastFloat \/ CastText
  \/ DefineGlobal \/ SetGlobal \/ GetGlobal \/ GetGlobalProperty
  \/ CallFunction \/ TailCall \/ Self
  \/ JumpAlways \/ JumpIf \/ JumpIfEqual \/ JumpIfTest \/ JumpIfGreaterLocals
  \/ For \/ ForLoop
  \/ New \/ SetProperty \/ GetProperty \/ Exists \/ SetDynamic \/ GetDynamic \/ Length
  \/ ArrayPop \/ ArrayPush \/ ArrayPushLocals \/ ArrayInsert \/ Delete \/ Copy \/ Slice
  \/ Clear \/ Keys \/ Index
  \/ EchoTop \/ PrintTop \/ ThrowTop

\* exec: the script function is pushed and called
Start ==
  /\ status' = "run"
  /\ frames' = <<[id |-> "script", ip |-> 0, base |-> 0]>>
  /\ stack' = <<Function("script")>>
  /\ globals' = <<>> /\ heap' = <<>> /\ out' = <<>>

\* A running instruction without a meaning: the program reads past its stack,
\* its code or its constants, or divides by zero.
Faulty == status = "run" /\ ~Sound
=============================================================================
