------------------------------ MODULE HymnCode ------------------------------
(***************************************************************************)
(* The byte code of Hymn: the opcodes and their bytes, the values that a   *)
(* pool of constants holds, and the arithmetic on values that the          *)
(* optimizer does ahead of time and run() does at its instructions.        *)
(*                                                                         *)
(* A function is compiled to a record [instructions, constants, except,    *)
(* arity]: a sequence of bytes, addressed from 0 as in the code, a pool of *)
(* values, and the except ranges [start, end, locals], innermost first.    *)
(***************************************************************************)
EXTENDS Integers, SequencesExt, FiniteSetsExt

\* A fold from the left whose steps are evaluated one after the other: TLC would
\* pass a step on to the next one unevaluated, and nest them all.
InTurn(Does(_, _), start, seq) ==
  FoldLeft(LAMBDA done, x : CHOOSE r \in {Does(d, x) : d \in {done}} : TRUE, start, seq)

OpCodes == <<
  "ADD", "ADD_LOCALS", "INCREMENT", "INSERT", "ARRAY_POP", "ARRAY_PUSH",
  "ARRAY_PUSH_LOCALS", "BIT_AND", "BIT_LEFT_SHIFT", "BIT_NOT", "BIT_OR",
  "BIT_RIGHT_SHIFT", "BIT_XOR", "CALL", "TAIL_CALL", "SELF", "CLEAR", "CONSTANT",
  "COPY", "CODES", "STACK", "REFERENCE", "FORMAT", "DEFINE_GLOBAL", "DELETE",
  "DIVIDE", "DUPLICATE", "ECHO", "EQUAL", "EXISTS", "FALSE", "GET_DYNAMIC",
  "GET_GLOBAL", "GET_GLOBAL_PROPERTY", "GET_LOCAL", "GET_LOCALS", "GET_PROPERTY",
  "GREATER", "GREATER_EQUAL", "INDEX", "SOURCE", "JUMP", "JUMP_IF_EQUAL",
  "JUMP_IF_NOT_EQUAL", "JUMP_IF_LESS", "JUMP_IF_GREATER", "JUMP_IF_GREATER_LOCALS",
  "JUMP_IF_LESS_EQUAL", "JUMP_IF_GREATER_EQUAL", "JUMP_IF_FALSE", "JUMP_IF_TRUE",
  "KEYS", "LEN", "LESS", "LESS_EQUAL", "LOOP", "MODULO", "MODULO_LOCALS", "MULTIPLY",
  "NEGATE", "NEW_ARRAY", "NEW_TABLE", "NONE", "NOT", "NOT_EQUAL", "POP", "POP_TWO",
  "POP_N", "PRINT", "RETURN", "SET_DYNAMIC", "SET_GLOBAL", "SET_LOCAL",
  "SET_PROPERTY", "INCREMENT_LOCAL", "INCREMENT_LOCAL_AND_SET", "INCREMENT_LOOP",
  "SLICE", "SUBTRACT", "THROW", "FLOAT", "INT", "STRING", "TRUE", "TYPE", "USE",
  "FOR", "FOR_LOOP", "VOID" >>

ByteMax == 255     \* UINT8_MAX
ShortMax == 65535  \* UINT16_MAX

Op == [name \in Range(OpCodes) |-> (CHOOSE k \in DOMAIN OpCodes : OpCodes[k] = name) - 1]

\* the byte at an address; past the end of the code it is VOID, which every
\* code ends with (bounds what is read by mistake)
Byte(code, at) == IF at \in 0..Len(code) - 1 THEN code[at + 1] ELSE Op["VOID"]

OpAt(code, at) ==
  LET byte == Byte(code, at)
  IN IF byte < Len(OpCodes) THEN OpCodes[byte + 1] ELSE "UNKNOWN"

Short(code, at) == 256 * Byte(code, at) + Byte(code, at + 1)

PutShort(code, at, short) ==
  [code EXCEPT ![at + 1] = (short \div 256) % 256, ![at + 2] = short % 256]

ConditionalJumps == {
  "JUMP_IF_EQUAL", "JUMP_IF_NOT_EQUAL", "JUMP_IF_LESS", "JUMP_IF_GREATER",
  "JUMP_IF_LESS_EQUAL", "JUMP_IF_GREATER_EQUAL", "JUMP_IF_FALSE", "JUMP_IF_TRUE" }

\* instructions that end in the two bytes of a jump
Forward == {"JUMP", "JUMP_IF_GREATER_LOCALS", "FOR"} \cup ConditionalJumps
Backward == {"LOOP", "FOR_LOOP", "INCREMENT_LOOP"}
Jumping == Forward \cup Backward

\* the bytes of an instruction as run() reads them and disassemble_instruction
\* steps over them
Width(name) ==
  CASE name \in {"CALL", "CONSTANT", "DEFINE_GLOBAL", "GET_GLOBAL", "GET_LOCAL",
                 "GET_PROPERTY", "INCREMENT", "POP_N", "SELF", "SET_GLOBAL", "SET_LOCAL",
                 "SET_PROPERTY", "TAIL_CALL"} -> 2
    [] name \in {"ADD_LOCALS", "ARRAY_PUSH_LOCALS", "GET_GLOBAL_PROPERTY", "GET_LOCALS",
                 "INCREMENT_LOCAL", "INCREMENT_LOCAL_AND_SET", "MODULO_LOCALS", "JUMP",
                 "LOOP"} \cup ConditionalJumps -> 3
    [] name \in {"FOR", "FOR_LOOP"} -> 4
    [] name \in {"INCREMENT_LOOP", "JUMP_IF_GREATER_LOCALS"} -> 5
    [] OTHER -> 1

\* the bytes of an instruction as next() tells them to the optimizer
Size(name) == IF name \in {"EXISTS", "PRINT"} THEN 2 ELSE Width(name)

-----------------------------------------------------------------------------
(* Values: i is the integer, the truth, the address or the numerator of a  *)
(* value, d the denominator of a float, text the characters of a string.   *)

Value(is, i, d, text) == [is |-> is, i |-> i, d |-> d, text |-> text]

None == Value("none", 0, 1, <<>>)
Undefined == Value("undefined", 0, 1, <<>>)
Truth(b) == Value("bool", IF b THEN 1 ELSE 0, 1, <<>>)
Number(i) == Value("integer", i, 1, <<>>)
Text(text) == Value("string", 0, 1, text)
Array(address) == Value("array", address, 1, <<>>)
Table(address) == Value("table", address, 1, <<>>)
Function(id) == Value("function", 0, 1, <<id>>)

\* a float is a fraction in its lowest terms: rounding, infinities and NaN are
\* left out
Float(n, d) ==
  LET s == IF d < 0 THEN -1 ELSE 1
      m == IF n < 0 THEN -n ELSE n
      k == Max({q \in 1..(s * d) : (s * d) % q = 0 /\ m % q = 0})
  IN Value("float", (s * n) \div k, (s * d) \div k, <<>>)

Is(v, type) == v.is = type

Numeric(v) == v.is \in {"integer", "float"}

Digit == <<"0", "1", "2", "3", "4", "5", "6", "7", "8", "9">>

Digits[n \in Nat] ==
  IF n < 10 THEN <<Digit[n + 1]>> ELSE Append(Digits[n \div 10], Digit[(n % 10) + 1])

Decimal(i) == IF i < 0 THEN <<"-">> \o Digits[-i] ELSE Digits[i]

\* hymn_value_to_string of what is no container; a float is written as its fraction
Plain(v) ==
  CASE v.is = "bool" -> IF v.i = 1 THEN <<"true">> ELSE <<"false">>
    [] v.is = "integer" -> Decimal(v.i)
    [] v.is = "float" -> Decimal(v.i) \o <<"/">> \o Digits[v.d]
    [] v.is = "none" -> <<"none">>
    [] OTHER -> v.text

\* C divides towards zero, and the rest has the sign of the dividend
Quotient(x, y) ==
  LET m == (IF x < 0 THEN -x ELSE x) \div (IF y < 0 THEN -y ELSE y)
  IN IF (x < 0) # (y < 0) THEN -m ELSE m

Remainder(x, y) == x - y * Quotient(x, y)

\* The bits of integers from -BitsRange to BitsRange - 1: enough for the values
\* here, HymnInt has 64
BitWidth == 8
BitsRange == 2 ^ (BitWidth - 1)

Bit(x, k) == (x \div 2 ^ k) % 2

Signed(x) == LET m == x % (2 * BitsRange) IN IF m < BitsRange THEN m ELSE m - 2 * BitsRange

Bitwise(name, x, y) ==
  LET Both(k) ==
        CASE name = "BIT_AND" -> Bit(x, k) * Bit(y, k)
          [] name = "BIT_OR"  -> IF Bit(x, k) + Bit(y, k) > 0 THEN 1 ELSE 0
          [] OTHER            -> (Bit(x, k) + Bit(y, k)) % 2
  IN CASE name = "BIT_LEFT_SHIFT"  -> x * 2 ^ y
       [] name = "BIT_RIGHT_SHIFT" -> x \div 2 ^ y
       [] OTHER -> Signed(FoldFunction(+, 0, [k \in 0..BitWidth - 1 |-> Both(k) * 2 ^ k]))

BitOps == {"BIT_AND", "BIT_OR", "BIT_XOR", "BIT_LEFT_SHIFT", "BIT_RIGHT_SHIFT"}

\* + - * / of two numbers, one of them a float
Fraction(name, a, b) ==
  CASE name = "ADD"      -> Float(a.i * b.d + b.i * a.d, a.d * b.d)
    [] name = "SUBTRACT" -> Float(a.i * b.d - b.i * a.d, a.d * b.d)
    [] name = "MULTIPLY" -> Float(a.i * b.i, a.d * b.d)
    [] OTHER             -> Float(a.i * b.d, a.d * b.i)

\* + - * / of two integers
Integer(name, x, y) ==
  CASE name = "ADD"      -> Number(x + y)
    [] name = "SUBTRACT" -> Number(x - y)
    [] name = "MULTIPLY" -> Number(x * y)
    [] OTHER             -> Number(Quotient(x, y))

\* value_pool_add
AddConstant(constants, value) ==
  IF value \in Range(constants) THEN constants ELSE Append(constants, value)

ConstantIndex(constants, value) == (CHOOSE k \in DOMAIN constants : constants[k] = value) - 1
=============================================================================
