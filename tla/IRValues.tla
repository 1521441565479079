-------------------------------- MODULE IRValues --------------------------------
(***************************************************************************)
(* What the instructions of a straight-line piece of IR mean: each value   *)
(* is a number of its type's width.  This is the meaning of the language,  *)
(* with no stack slots or registers; Instructions implements it.           *)
(*                                                                         *)
(* A program is a record:                                                  *)
(*   argTypes  the types of the values it starts from, numbered from 1     *)
(*   args      their words: <<low, high>> each                             *)
(*   code      a sequence of instructions; the result of code[j] has       *)
(*             number Len(argTypes) + j                                    *)
(* An operand is [kind |-> "value", n |-> its number] or                   *)
(* [kind |-> "const", c |-> its value].                                    *)
(***************************************************************************)
EXTENDS Integers, Sequences, Bitwise

CONSTANTS ByteBits, HalfBits, WordBits

VARIABLES
  prog,
  pc,        \* the index of the next instruction
  val,       \* the value of each number, 0 before it is computed
  memory,    \* the word at each address
  trapped

Bits(type) ==
  CASE type = "i1" -> 1
    [] type = "i8" -> ByteBits
    [] type = "i16" -> HalfBits
    [] type = "i32" -> WordBits
    [] type = "i64" -> 2 * WordBits

Unsigned(type, x) == x % 2 ^ Bits(type)
Signed(type, x) == IF x >= 2 ^ (Bits(type) - 1) THEN x - 2 ^ Bits(type) ELSE x
Bool(b) == IF b THEN 1 ELSE 0

ResultType(inst) == IF inst.kind = "icmp" THEN "i1" ELSE inst.type

Abs(x) == IF x < 0 THEN -x ELSE x
(* Division that rounds toward zero, and its remainder. *)
Quotient(x, y) == IF (x < 0) = (y < 0) THEN Abs(x) \div Abs(y) ELSE -(Abs(x) \div Abs(y))
Remainder(x, y) == x - y * Quotient(x, y)

Divisions == {"udiv", "urem", "sdiv", "srem"}
Shifts == {"shl", "lshr", "ashr"}

(* Division by zero, a signed quotient that does not fit, and a shift by   *)
(* the width or more have no defined result.                               *)
BinaryDefined(op, type, x, y) ==
  /\ op \in Divisions => y # 0
  /\ op \in {"sdiv", "srem"} =>
       ~(Signed(type, x) = -(2 ^ (Bits(type) - 1)) /\ Signed(type, y) = -1)
  /\ op \in Shifts => y < Bits(type)

Binary(op, type, x, y) ==
  LET sx == Signed(type, x)
      sy == Signed(type, y)
  IN Unsigned(type,
       CASE op = "add" -> x + y
         [] op = "sub" -> x - y
         [] op = "mul" -> x * y
         [] op = "udiv" -> x \div y
         [] op = "urem" -> x % y
         [] op = "sdiv" -> Quotient(sx, sy)
         [] op = "srem" -> Remainder(sx, sy)
         [] op = "and" -> x & y
         [] op = "or" -> x | y
         [] op = "xor" -> x ^^ y
         [] op = "shl" -> x * 2 ^ y
         [] op = "lshr" -> x \div 2 ^ y
         [] op = "ashr" -> sx \div 2 ^ y)

Compare(pred, type, x, y) ==
  LET sx == Signed(type, x)
      sy == Signed(type, y)
  IN Bool(CASE pred = "eq" -> x = y
            [] pred = "ne" -> x # y
            [] pred = "ugt" -> x > y
            [] pred = "uge" -> x >= y
            [] pred = "ult" -> x < y
            [] pred = "ule" -> x <= y
            [] pred = "sgt" -> sx > sy
            [] pred = "sge" -> sx >= sy
            [] pred = "slt" -> sx < sy
            [] pred = "sle" -> sx <= sy)

(* The word that an atomicrmw leaves in memory; it returns the old one.    *)
Atomic(op, old, x) ==
  LET Larger(a, b) == IF a > b THEN a ELSE b
      Smaller(a, b) == IF a > b THEN b ELSE a
      s == Signed("i32", old)
      t == Signed("i32", x)
  IN Unsigned("i32",
       CASE op = "xchg" -> x
         [] op = "add" -> old + x
         [] op = "sub" -> old - x
         [] op = "and" -> old & x
         [] op = "nand" -> -1 - (old & x)
         [] op = "or" -> old | x
         [] op = "xor" -> old ^^ x
         [] op = "max" -> Larger(s, t)
         [] op = "min" -> Smaller(s, t)
         [] op = "umax" -> Larger(old, x)
         [] op = "umin" -> Smaller(old, x))

Value(o) == IF o.kind = "const" THEN o.c ELSE val[o.n]

Memory(type, p) == IF type = "i64" THEN memory[p] + 2 ^ WordBits * memory[p + 4]
                   ELSE Unsigned(type, memory[p])

Inst == prog.code[pc]
Number == Len(prog.argTypes) + pc

Defined == Inst.kind = "binary" =>
             BinaryDefined(Inst.op, Inst.type, Value(Inst.x), Value(Inst.y))

Result ==
  CASE Inst.kind = "binary" -> Binary(Inst.op, Inst.type, Value(Inst.x), Value(Inst.y))
    [] Inst.kind = "icmp" -> Compare(Inst.op, Inst.type, Value(Inst.x), Value(Inst.y))
    [] Inst.kind = "select" -> IF Value(Inst.cond) = 1 THEN Value(Inst.x) ELSE Value(Inst.y)
    [] Inst.kind = "zext" -> Value(Inst.x)
    [] Inst.kind = "sext" -> Unsigned(Inst.type, Signed(Inst.from, Value(Inst.x)))
    [] Inst.kind = "trunc" -> Unsigned(Inst.type, Value(Inst.x))
    [] Inst.kind = "load" -> Memory(Inst.type, Value(Inst.x))
    [] Inst.kind = "atomicrmw" -> Memory("i32", Value(Inst.x))

(* A store changes the bits of its type and leaves the others. *)
Stored(old, type, x) == old - Unsigned(type, old) + x

Store ==
  LET p == Value(Inst.y)
      x == Value(Inst.x)
  IN memory' = IF Inst.type = "i64"
               THEN [memory EXCEPT ![p] = x % 2 ^ WordBits, ![p + 4] = x \div 2 ^ WordBits]
               ELSE [memory EXCEPT ![p] = Stored(memory[p], Inst.type, x)]

Exchange ==
  memory' = [memory EXCEPT ![Value(Inst.x)] = Atomic(Inst.op, @, Value(Inst.y))]

Init ==
  /\ pc = 1
  /\ val = [v \in 1 .. (Len(prog.argTypes) + Len(prog.code)) |->
              IF v > Len(prog.argTypes) THEN 0
              ELSE Unsigned(prog.argTypes[v],
                            prog.args[v][1] + 2 ^ WordBits * prog.args[v][2])]
  /\ trapped = FALSE

Fatal == {"unhandled", "unreachable"}

Step ==
  /\ pc \in DOMAIN prog.code /\ ~trapped
  /\ Inst.kind \notin Fatal
  /\ Defined
  /\ pc' = pc + 1
  /\ val' = IF Inst.kind \in {"store", "ignored"} THEN val ELSE [val EXCEPT ![Number] = Result]
  /\ CASE Inst.kind = "store" -> Store
       [] Inst.kind = "atomicrmw" -> Exchange
       [] OTHER -> UNCHANGED memory
  /\ UNCHANGED <<prog, trapped>>

(* An undefined operation may stop the program or give any value. *)
UndefinedStep ==
  /\ pc \in DOMAIN prog.code /\ ~trapped
  /\ ~Defined
  /\ \/ trapped' = TRUE /\ UNCHANGED <<pc, val>>
     \/ /\ pc' = pc + 1
        /\ \E x \in 0 .. (2 ^ Bits(Inst.type) - 1) : val' = [val EXCEPT ![Number] = x]
        /\ UNCHANGED trapped
  /\ UNCHANGED <<prog, memory>>

(* A program goes no further than an unreachable, or an instruction that   *)
(* the generator does not know.                                            *)
Stop ==
  /\ pc \in DOMAIN prog.code /\ ~trapped
  /\ Inst.kind \in Fatal
  /\ trapped' = TRUE
  /\ UNCHANGED <<prog, pc, val, memory>>

Next == Step \/ UndefinedStep \/ Stop

Spec == Init /\ [][Next]_<<prog, pc, val, memory, trapped>>
================================================================================
