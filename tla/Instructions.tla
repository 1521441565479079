------------------------------ MODULE Instructions ------------------------------
(***************************************************************************)
(* The code translate_instruction() generates for the instructions that    *)
(* compute: it moves operands from stack slots to registers, operates on   *)
(* whole words whatever the type's width, and spills the result.  Slots of *)
(* types narrower than a word may hold garbage in their upper bits.        *)
(*                                                                         *)
(* Programs and operands are as in IRValues.  trunc (like the casts of     *)
(* pointers) generates no code: its result is an alias of its operand.     *)
(*                                                                         *)
(* A definition Name_Variant is a faulty form of the Name it precedes; no  *)
(* specification uses it.                                                  *)
(***************************************************************************)
EXTENDS Integers, Sequences, Bitwise

CONSTANTS
  Programs,
  ByteBits, HalfBits, WordBits,   \* 8, 16 and 32 in the program
  Garbage                         \* the words a register may start with

ASSUME WidthAssumption ==
  /\ 1 < ByteBits /\ ByteBits < HalfBits /\ HalfBits < WordBits
  /\ WordBits <= 2 ^ ByteBits

WordCount == 2 ^ WordBits

VARIABLES
  prog,
  pc,
  slots,       \* the two parts of each value's stack slot
  eax, ecx, edx,
  memory,      \* the word at each address
  trapped      \* a division faulted

registers == <<eax, ecx, edx>>
vars == <<prog, pc, slots, registers, memory, trapped>>

Bits(type) ==
  CASE type = "i1" -> 1
    [] type = "i8" -> ByteBits
    [] type = "i16" -> HalfBits
    [] type = "i32" -> WordBits

Wrap(x) == x % WordCount
Low(bits, x) == x % 2 ^ bits
Negative(bits, x) == x >= 2 ^ (bits - 1)
AsSigned(bits, x) == IF Negative(bits, x) THEN x - 2 ^ bits ELSE x

(* A write of the low bits of a register keeps the others. *)
Merge(bits, old, x) == old - Low(bits, old) + Low(bits, x)

Init ==
  /\ prog \in Programs
  /\ pc = 1
  /\ slots = [v \in 1 .. (Len(prog.argTypes) + Len(prog.code)) |->
                IF v > Len(prog.argTypes) THEN <<0, 0>> ELSE prog.args[v]]
  /\ eax \in Garbage /\ ecx = eax /\ edx = eax
  /\ memory = prog.memory
  /\ trapped = FALSE

Number(i) == Len(prog.argTypes) + i
Inst == prog.code[pc]
At(kind) == pc \in DOMAIN prog.code /\ ~trapped /\ Inst.kind = kind
Is64 == Inst.type = "i64"

(***************************************************************************)
(* get_aliased_value() and move_part_to_reg(): parts 1 and 2 are at        *)
(* offsets 0 and 4 of the slot, or of the constant.                        *)
(***************************************************************************)
Instruction(n) == prog.code[n - Len(prog.argTypes)]
IsAlias(o) ==
  o.kind = "value" /\ o.n > Len(prog.argTypes) /\ Instruction(o.n).kind = "trunc"

RECURSIVE Unaliased(_)
Unaliased(o) == IF IsAlias(o) THEN Unaliased(Instruction(o.n).x) ELSE o

Part(operand, i) ==
  LET o == Unaliased(operand)
  IN IF o.kind = "value" THEN slots[o.n][i]
     ELSE IF i = 1 THEN Wrap(o.c) ELSE o.c \div WordCount
Operand(o) == Part(o, 1)
Wide(o) == Part(o, 1) + WordCount * Part(o, 2)

SpillParts(lo, hi) == slots' = [slots EXCEPT ![Number(pc)] = <<lo, hi>>]
Spill(x) == slots' = [slots EXCEPT ![Number(pc)][1] = x]

Advance == pc' = pc + 1 /\ UNCHANGED prog

(* extend_to_i32() *)
Extended(x, signed, bits) ==
  IF signed THEN Wrap(AsSigned(bits, Low(bits, x))) ELSE Low(bits, x)

(***************************************************************************)
(* Binary operators on at most 32 bits: eax op ecx.                        *)
(***************************************************************************)
AtBinary(ops) == At("binary") /\ ~Is64 /\ Inst.op \in ops
ShiftCount == Low(ByteBits, Operand(Inst.y)) % WordBits     \* %cl

SimpleResult(op, x, y) ==
  CASE op = "add" -> Wrap(x + y)
    [] op = "sub" -> Wrap(x - y)
    [] op = "and" -> x & y
    [] op = "or" -> x | y
    [] op = "xor" -> x ^^ y

Arithmetic ==
  /\ AtBinary({"add", "sub", "and", "or", "xor"})
  /\ eax' = SimpleResult(Inst.op, Operand(Inst.x), Operand(Inst.y))
  /\ ecx' = Operand(Inst.y)
  /\ Spill(eax')
  /\ Advance /\ UNCHANGED <<edx, memory, trapped>>

Multiply ==
  /\ AtBinary({"mul"})
  /\ LET product == Operand(Inst.x) * Operand(Inst.y)
     IN eax' = Wrap(product) /\ edx' = product \div WordCount
  /\ ecx' = Operand(Inst.y)
  /\ Spill(eax')
  /\ Advance /\ UNCHANGED <<memory, trapped>>

(* divl and idivl fault when the divisor is zero or the quotient too wide. *)
Abs(x) == IF x < 0 THEN -x ELSE x
Quotient(x, y) == IF (x < 0) = (y < 0) THEN Abs(x) \div Abs(y) ELSE -(Abs(x) \div Abs(y))

Divide ==
  /\ AtBinary({"udiv", "urem", "sdiv", "srem"})
  /\ LET signed == Inst.op \in {"sdiv", "srem"}
         Number32(x) == LET w == Extended(x, signed, Bits(Inst.type))
                        IN IF signed THEN AsSigned(WordBits, w) ELSE w
         x == Number32(Operand(Inst.x))
         y == Number32(Operand(Inst.y))
         q == Quotient(x, y)
     IN IF y = 0 \/ (signed /\ q = 2 ^ (WordBits - 1))
        THEN trapped' = TRUE /\ UNCHANGED <<prog, pc, slots, registers>>
        ELSE /\ eax' = Wrap(q) /\ edx' = Wrap(x - y * q) /\ ecx' = Wrap(y)
             /\ Spill(IF Inst.op \in {"udiv", "sdiv"} THEN eax' ELSE edx')
             /\ Advance /\ UNCHANGED trapped
  /\ UNCHANGED memory

ShiftLeft ==
  /\ AtBinary({"shl"})
  /\ eax' = Wrap(Operand(Inst.x) * 2 ^ ShiftCount)
  /\ ecx' = Operand(Inst.y)
  /\ Spill(eax')
  /\ Advance /\ UNCHANGED <<edx, memory, trapped>>

ShiftedOperand_Raw(signed) == Operand(Inst.x)
ShiftedOperand(signed) == Extended(Operand(Inst.x), signed, Bits(Inst.type))

ShiftRight ==
  /\ AtBinary({"lshr", "ashr"})
  /\ LET signed == Inst.op = "ashr"
         x == ShiftedOperand(signed)
     IN eax' = IF signed THEN Wrap(AsSigned(WordBits, x) \div 2 ^ ShiftCount)
               ELSE x \div 2 ^ ShiftCount
  /\ ecx' = Operand(Inst.y)
  /\ Spill(eax')
  /\ Advance /\ UNCHANGED <<edx, memory, trapped>>

(***************************************************************************)
(* Comparisons: the condition sets %dl, and all of %edx is spilled.        *)
(***************************************************************************)
SignedPredicates == {"sgt", "sge", "slt", "sle"}

Holds(pred, bits, a, b) ==
  LET x == IF pred \in SignedPredicates THEN AsSigned(bits, a) ELSE a
      y == IF pred \in SignedPredicates THEN AsSigned(bits, b) ELSE b
  IN CASE pred = "eq" -> x = y
       [] pred = "ne" -> x # y
       [] pred \in {"ugt", "sgt"} -> x > y
       [] pred \in {"uge", "sge"} -> x >= y
       [] pred \in {"ult", "slt"} -> x < y
       [] pred \in {"ule", "sle"} -> x <= y
Condition(b) == IF b THEN 1 ELSE 0

CompareWords ==
  /\ At("icmp") /\ ~Is64
  /\ LET signed == Inst.op \in SignedPredicates
     IN /\ ecx' = Extended(Operand(Inst.x), signed, Bits(Inst.type))
        /\ eax' = Extended(Operand(Inst.y), signed, Bits(Inst.type))
  /\ edx' = Merge(ByteBits, edx, Condition(Holds(Inst.op, WordBits, ecx', eax')))
  /\ Spill(edx')
  /\ Advance /\ UNCHANGED <<memory, trapped>>

(* "testb %al, %al" and a conditional jump over the second move to ecx. *)
SelectTest(x) == Low(ByteBits, x) # 0

Select ==
  /\ At("select") /\ ~Is64
  /\ eax' = Operand(Inst.cond)
  /\ ecx' = IF SelectTest(eax') THEN Operand(Inst.x) ELSE Operand(Inst.y)
  /\ Spill(ecx')
  /\ Advance /\ UNCHANGED <<edx, memory, trapped>>

(***************************************************************************)
(* Extensions, loads and stores, with their i64 forms.                     *)
(***************************************************************************)
SignWord(x) == IF Negative(WordBits, x) THEN WordCount - 1 ELSE 0

Extend ==
  /\ At("zext") \/ At("sext")
  /\ LET signed == Inst.kind = "sext"
     IN /\ eax' = Extended(Operand(Inst.x), signed, Bits(Inst.from))
        /\ edx' = IF Is64 /\ signed THEN SignWord(eax') ELSE edx
        /\ IF Is64 THEN SpillParts(eax', IF signed THEN edx' ELSE 0) ELSE Spill(eax')
  /\ Advance /\ UNCHANGED <<ecx, memory, trapped>>

(* mov<size> (%eax), %eax keeps the bits of the address above the size. *)
Load ==
  /\ At("load") /\ ~Is64
  /\ LET p == Operand(Inst.x)
     IN eax' = Merge(Bits(Inst.type), p, memory[p])
  /\ Spill(eax')
  /\ Advance /\ UNCHANGED <<ecx, edx, memory, trapped>>

Load64 ==
  /\ At("load") /\ Is64
  /\ eax' = Operand(Inst.x)
  /\ SpillParts(memory[eax'], memory[eax' + 4])
  /\ ecx' = memory[eax' + 4]
  /\ \E g \in Garbage : edx' = g                  \* the address of the slot
  /\ Advance /\ UNCHANGED <<memory, trapped>>

StoredWord(old, bits, x) == Merge(bits, old, x)

Store ==
  /\ At("store") /\ ~Is64
  /\ edx' = Operand(Inst.y) /\ eax' = Operand(Inst.x)
  /\ memory' = [memory EXCEPT ![edx'] = StoredWord(@, Bits(Inst.type), eax')]
  /\ Advance /\ UNCHANGED <<ecx, slots, trapped>>

StoredHigh_Repeat(o) == Part(o, 1)
StoredHigh(o) == Part(o, 2)

Store64 ==
  /\ At("store") /\ Is64
  /\ edx' = Operand(Inst.y)
  /\ memory' = [memory EXCEPT ![edx'] = Part(Inst.x, 1), ![edx' + 4] = StoredHigh(Inst.x)]
  /\ ecx' = Part(Inst.x, 2)
  /\ \E g \in Garbage : eax' = g                  \* the address of the operand
  /\ Advance /\ UNCHANGED <<slots, trapped>>

(***************************************************************************)
(* atomicrmw: a call of the helper for the operator, which takes the       *)
(* address in eax and the operand in edx.                                  *)
(***************************************************************************)
AtomicHelper(op, old, x) ==
  LET less == AsSigned(WordBits, old) < AsSigned(WordBits, x)
  IN CASE op = "xchg" -> x
       [] op \in {"add", "sub", "and", "or", "xor"} -> SimpleResult(op, old, x)
       [] op = "nand" -> WordCount - 1 - (old & x)
       [] op = "max" -> IF less THEN x ELSE old
       [] op = "min" -> IF less THEN old ELSE x
       [] op = "umax" -> IF old < x THEN x ELSE old
       [] op = "umin" -> IF old < x THEN old ELSE x

AtomicRMW ==
  /\ At("atomicrmw")
  /\ LET p == Operand(Inst.x)
     IN /\ memory' = [memory EXCEPT ![p] = AtomicHelper(Inst.op, @, Operand(Inst.y))]
        /\ eax' = memory[p]
  /\ \E g \in Garbage : ecx' = g /\ edx' = g
  /\ Spill(eax')
  /\ Advance /\ UNCHANGED trapped

(* The result of a trunc is where its operand is. *)
Alias ==
  /\ At("trunc")
  /\ Advance /\ UNCHANGED <<slots, registers, memory, trapped>>

(* The intrinsics for lifetimes and debugging generate no code. *)
IgnoredIntrinsic ==
  /\ At("ignored")
  /\ Advance /\ UNCHANGED <<slots, registers, memory, trapped>>

(***************************************************************************)
(* i64: a call of a runtime helper, with pointers to the operands' slots.  *)
(* The helper leaves anything in the registers it does not return in.      *)
(***************************************************************************)
DoubleBits == 2 * WordBits

Helper(op, x, y) ==
  LET sx == AsSigned(DoubleBits, x)
      sy == AsSigned(DoubleBits, y)
  IN Low(DoubleBits,
       CASE op = "add" -> x + y
         [] op = "sub" -> x - y
         [] op = "mul" -> x * y
         [] op = "udiv" -> x \div y
         [] op = "urem" -> x % y
         [] op = "sdiv" -> Quotient(sx, sy)
         [] op = "srem" -> sx - sy * Quotient(sx, sy)
         [] op = "and" -> x & y
         [] op = "or" -> x | y
         [] op = "xor" -> x ^^ y
         [] op = "shl" -> x * 2 ^ y
         [] op = "lshr" -> x \div 2 ^ y
         [] op = "ashr" -> sx \div 2 ^ y)

HelperTraps(op, x, y) ==
  \/ op \in {"udiv", "urem", "sdiv", "srem"} /\ y = 0
  \/ /\ op \in {"sdiv", "srem"}
     /\ x = 2 ^ (DoubleBits - 1) /\ y = 2 ^ DoubleBits - 1

HelperUndefined(op, y) == op \in {"shl", "lshr", "ashr"} /\ y >= DoubleBits

HelperArguments == <<Wide(Inst.x), Wide(Inst.y)>>

Binary64 ==
  /\ At("binary") /\ Is64
  /\ LET x == HelperArguments[1]
         y == HelperArguments[2]
     IN IF HelperTraps(Inst.op, x, y)
        THEN trapped' = TRUE /\ UNCHANGED <<prog, pc, slots, registers>>
        ELSE /\ \E r \in IF HelperUndefined(Inst.op, y) THEN {0, x}
                         ELSE {Helper(Inst.op, x, y)} :
                  SpillParts(Wrap(r), r \div WordCount)
             /\ \E g \in Garbage : eax' = g /\ ecx' = g /\ edx' = g
             /\ Advance /\ UNCHANGED trapped
  /\ UNCHANGED memory

CompareWide ==
  /\ At("icmp") /\ Is64
  /\ eax' = Condition(Holds(Inst.op, DoubleBits, HelperArguments[1], HelperArguments[2]))
  /\ \E g \in Garbage : ecx' = g /\ edx' = g
  /\ Spill(eax')
  /\ Advance /\ UNCHANGED <<memory, trapped>>

(***************************************************************************)
(* In place of an instruction that is not handled (floating point, atomics *)
(* that are not i32, other intrinsics) there is a call of                  *)
(* runtime_unhandled(), which aborts, and for unreachable there is a hlt,  *)
(* which a program may not execute.                                        *)
(***************************************************************************)
Abort == trapped' = TRUE /\ UNCHANGED <<prog, pc, slots, registers, memory>>
Unhandled == At("unhandled") /\ Abort
Unreachable == At("unreachable") /\ Abort

Next ==
  \/ Arithmetic \/ Multiply \/ Divide \/ ShiftLeft \/ ShiftRight \/ Binary64
  \/ CompareWords \/ CompareWide \/ Select
  \/ Extend \/ Load \/ Load64 \/ Store \/ Store64 \/ AtomicRMW \/ Alias
  \/ IgnoredIntrinsic \/ Unhandled \/ Unreachable

Spec == Init /\ [][Next]_vars
--------------------------------------------------------------------------------
(* The value that IR number v has is in the low bits of the slot it is     *)
(* read from, once it is computed.                                         *)
TypeOf(v) ==
  IF v <= Len(prog.argTypes) THEN prog.argTypes[v]
  ELSE IF Instruction(v).kind = "icmp" THEN "i1" ELSE Instruction(v).type

NoResult == {"store", "ignored", "unhandled", "unreachable"}
ValueOf(v) ==
  LET o == [kind |-> "value", n |-> v]
  IN IF v >= Number(pc) \/ (v > Len(prog.argTypes) /\ Instruction(v).kind \in NoResult) THEN 0
     ELSE IF TypeOf(v) = "i64" THEN Wide(o)
     ELSE Low(Bits(TypeOf(v)), Operand(o))

(* Whatever is in the upper bits of slots and registers, every instruction *)
(* computes, stores and loads the values that the IR prescribes, and a     *)
(* program faults only where the IR's result is undefined.                 *)
IR == INSTANCE IRValues WITH val <- [v \in DOMAIN slots |-> ValueOf(v)]

ImplementsIR == IR!Spec
================================================================================
