------------------------------ MODULE MCInstructions ------------------------------
(***************************************************************************)
(* Families of short programs for Instructions: the first instructions     *)
(* leave garbage in the upper bits of their result and the later ones meet *)
(* it.  Types have 1, 3, 4 and 6 bits for 1, 8, 16 and 32.                 *)
(***************************************************************************)
EXTENDS Instructions

MCGarbage == {0, 58}
Samples == {0, 1, 4, 11, 44, 63}
WideSamples == {<<0, 0>>, <<1, 0>>, <<7, 0>>, <<63, 63>>, <<0, 32>>, <<44, 9>>}

Narrow == {"i8", "i16", "i32"}
Operators == {"add", "sub", "mul", "udiv", "urem", "sdiv", "srem", "and", "or", "xor",
              "shl", "lshr", "ashr"}
Predicates == {"eq", "ne", "ugt", "uge", "ult", "ule", "sgt", "sge", "slt", "sle"}

V(n) == [kind |-> "value", n |-> n]
C(x) == [kind |-> "const", c |-> x]
Bin(op, ty, x, y) == [kind |-> "binary", op |-> op, type |-> ty, x |-> x, y |-> y]
Cmp(pred, ty, x, y) == [kind |-> "icmp", op |-> pred, type |-> ty, x |-> x, y |-> y]
Sel(ty, c, x, y) == [kind |-> "select", type |-> ty, cond |-> c, x |-> x, y |-> y]
Ext(kind, from, ty, x) == [kind |-> kind, from |-> from, type |-> ty, x |-> x]
Trunc(from, ty, x) == [kind |-> "trunc", from |-> from, type |-> ty, x |-> x]
Ld(ty, p) == [kind |-> "load", type |-> ty, x |-> p]
Rmw(op, p, x) == [kind |-> "atomicrmw", op |-> op, type |-> "i32", x |-> p, y |-> x]
St(ty, x, p) == [kind |-> "store", type |-> ty, x |-> x, y |-> p]

(* Programs over two arguments of type ty. *)
Over(ty, args, codes) ==
  { [argTypes |-> <<ty, ty>>, args |-> <<a, b>>, code |-> c,
     memory |-> [p \in {8, 12} |-> 42]] : a \in args, b \in args, c \in codes }
NarrowArgs == { <<w, 0>> : w \in Samples }

Chains(ty) ==
  { <<Bin(op1, ty, V(1), V(2)), Bin(op2, ty, V(3), V(2))>> :
      op1 \in {"sub", "mul", "sdiv", "xor", "shl"}, op2 \in Operators }

Choices(ty) ==
  { <<Bin("add", ty, V(1), V(2)), Cmp(pred, ty, V(3), V(2)), Sel(ty, V(4), V(3), V(1))>> :
      pred \in Predicates }
  \cup { <<Cmp("slt", ty, V(1), V(2)), Cmp("ne", ty, V(1), C(4)), Bin(op, "i1", V(3), V(4)),
           Bin("xor", "i1", V(5), C(1)), Sel(ty, V(6), V(1), V(2))>> :
           op \in {"and", "or", "xor"} }

Widenings(ty) ==
  { <<Bin("mul", ty, V(1), V(2)), Ext(k, ty, to, V(3)), Trunc(to, "i8", V(4)),
      Trunc("i8", "i1", V(5)), Ext(k2, "i1", "i32", V(6)), Ext(k, "i8", "i16", V(5))>> :
      k \in {"zext", "sext"}, k2 \in {"zext", "sext"}, to \in {"i32", "i64"} }

NarrowPrograms ==
  UNION { Over(ty, NarrowArgs, Chains(ty) \cup Choices(ty)) : ty \in Narrow }
    \cup UNION { Over(ty, NarrowArgs, Widenings(ty)) : ty \in {"i8", "i16"} }

(* Words of different widths meet in memory.                               *)
MemoryPrograms ==
  Over("i32", NarrowArgs,
    { <<St("i32", V(1), C(8)), Trunc("i32", ty, V(2)), St(ty, V(4), C(8)), Ld(ty2, C(8)),
        Ext(k, ty2, "i64", V(6)), St("i64", V(7), C(8)), Ld("i8", C(12)),
        Bin("udiv", "i8", V(9), C(3))>> :
        ty \in {"i8", "i16"}, ty2 \in {"i8", "i16", "i32"}, k \in {"zext", "sext"} })

WidePrograms ==
  Over("i64", WideSamples,
    { <<Bin(op, "i64", V(1), V(2)), Trunc("i64", "i16", V(3)),
        Bin("ashr", "i16", V(4), C(1)), Ext("sext", "i16", "i64", V(5)),
        Cmp(pred, "i64", V(6), V(2)), Sel("i8", V(7), C(5), C(2)),
        St("i64", V(3), C(8)), Ld("i64", C(8)), Bin("sub", "i64", V(10), C(64))>> :
        op \in Operators, pred \in {"eq", "ult", "sgt"} }
    \cup { <<Cmp(pred, "i64", V(1), V(2))>> : pred \in Predicates })

AtomicPrograms ==
  Over("i32", NarrowArgs,
    { <<St("i32", V(1), C(8)), Ext("sext", "i32", "i64", V(2)), Trunc("i64", "i32", V(4)),
        Rmw(op, C(8), V(5)), Rmw("xchg", C(8), V(6)), Bin("udiv", "i32", V(7), V(6))>> :
        op \in {"xchg", "add", "sub", "and", "nand", "or", "xor", "max", "min", "umax", "umin"} })

(* Programs that stop in the middle.                                       *)
Fatalities ==
  Over("i32", NarrowArgs,
    { <<St("i32", V(1), C(8)), [kind |-> "ignored"], Bin("add", "i32", V(1), V(2)), [kind |-> k],
        St("i8", V(5), C(8))>> : k \in {"unhandled", "unreachable"} })

MCPrograms == NarrowPrograms \cup MemoryPrograms \cup WidePrograms \cup AtomicPrograms \cup Fatalities

(* The condition of a select is the low bit of a word. *)
TruncSelect ==
  Over("i32", NarrowArgs, { <<Trunc("i32", "i1", V(1)), Sel("i32", V(3), V(1), V(2))>> })
================================================================================
