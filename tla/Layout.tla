--------------------------------- MODULE Layout ---------------------------------
(***************************************************************************)
(* Where the words of a stack frame are, in closed form.  This is the      *)
(* convention that caller and callee, and all instructions of a function,  *)
(* have to agree on; FrameLayout is the code that arrives at it.           *)
(***************************************************************************)
EXTENDS Integers, Sequences, FiniteSets

Types == {"i32", "i64", "void"}

(* get_arg_stack_size(): void results have a slot as well. *)
ArgStackSize(ty) == IF ty = "i64" THEN 8 ELSE 4

(* The bytes in front of the k-th of a sequence of arguments. *)
ArgOffset(types, k) ==
  4 * (k - 1) + 4 * Cardinality({j \in 1 .. (k - 1) : types[j] = "i64"})

ArgsSize(types) == ArgOffset(types, Len(types) + 1)

(* The return address and the caller's %ebp lie between the frame pointer  *)
(* and the parameters.                                                     *)
FirstParameter == 8

ParamSlot(params, k) == FirstParameter + ArgOffset(params, k)

(***************************************************************************)
(* An instruction is a record [kind, type, args].  Instructions of kind    *)
(* "alias" have no slot: their value is read from their operand's.         *)
(* args are the types of the operands that a call passes on the stack.     *)
(***************************************************************************)
IsAlias(i) == i.kind = "alias"

(* The bytes of the slots of the first k instructions. *)
VarsSize(insts, k) ==
  4 * Cardinality({j \in 1 .. k : ~ IsAlias(insts[j])})
    + 4 * Cardinality({j \in 1 .. k : ~ IsAlias(insts[j]) /\ insts[j].type = "i64"})

InstSlot(insts, k) == -VarsSize(insts, k)

(* 64-bit operations call helpers with pointers to a result and two operands. *)
kMinCalleeArgsSize == 12

(* The values of a function that have a slot. *)
Param(k) == <<"param", k>>
Inst(k) == <<"inst", k>>

SlottedValues(f) ==
  {Param(k) : k \in DOMAIN f.params}
    \cup {Inst(k) : k \in {j \in DOMAIN f.insts : ~ IsAlias(f.insts[j])}}

ValueType(f, v) == IF v[1] = "param" THEN f.params[v[2]] ELSE f.insts[v[2]].type

FrameSlots(f) ==
  [v \in SlottedValues(f) |->
     IF v[1] = "param" THEN ParamSlot(f.params, v[2]) ELSE InstSlot(f.insts, v[2])]

(* Two ranges of n1 and n2 bytes that start at a1 and a2 share no byte. *)
Disjoint(a1, n1, a2, n2) == a1 + n1 <= a2 \/ a2 + n2 <= a1
================================================================================
