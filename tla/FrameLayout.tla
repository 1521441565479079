------------------------------- MODULE FrameLayout -------------------------------
(***************************************************************************)
(* How translate_function() lays out the frame of a function and how       *)
(* translate_instruction() fills the area for outgoing arguments: one loop *)
(* finds the size of that area, one gives slots to the parameters, one to  *)
(* the instructions, and the last emits the stores in front of each call.  *)
(*                                                                         *)
(* A definition Name_Variant is a faulty form of the Name it precedes; no  *)
(* specification uses it.                                                  *)
(***************************************************************************)
EXTENDS Layout

CONSTANT Functions   \* records [params, insts]

Kinds == {"alias", "call", "i64op", "other"}

ASSUME FunctionsAssumption ==
  \A f \in Functions :
    /\ f.params \in Seq(Types)
    /\ f.insts \in Seq([kind : Kinds, type : Types, args : Seq(Types)])

VARIABLES
  func,                      \* the function that is translated
  phase,                     \* the loop that runs, then "done"
  inst,                      \* the current instruction
  arg,                       \* its current operand, or the current parameter
  offset,                    \* size, arg_offset or stack_offset
  frame_callees_args_size,   \* the bytes reserved for outgoing arguments
  vars_size,                 \* the bytes used by slots of instructions
  stackslots,                \* the offset from %ebp of each slot
  stored                     \* the offset from %esp of the current call's operands

vars == <<func, phase, inst, arg, offset, frame_callees_args_size, vars_size,
          stackslots, stored>>

arg_offset_start_OneWord == 4
arg_offset_start == 8      \* skip return address and frame pointer

Empty == [x \in {} |-> 0]
With(f, x, y) == [z \in DOMAIN f \cup {x} |-> IF z = x THEN y ELSE f[z]]

Init ==
  /\ func \in Functions
  /\ phase = "scan"
  /\ inst = 1 /\ arg = 1 /\ offset = 0
  /\ frame_callees_args_size = kMinCalleeArgsSize
  /\ vars_size = 0
  /\ stackslots = Empty /\ stored = Empty

Current == func.insts[inst]
AtInstruction == inst \in DOMAIN func.insts

(* Only call instructions are scanned; a 64-bit operation calls a helper    *)
(* with three pointers and relies on the minimum.                           *)
Scanned(i) == IF i.kind = "call" THEN i.args ELSE << >>
Passed(i) ==
  IF i.kind = "i64op" THEN <<"i32", "i32", "i32">> ELSE Scanned(i)

NextInstruction ==
  /\ inst' = inst + 1 /\ arg' = 1 /\ offset' = 0

(* get_args_stack_size() *)
ScanArgument ==
  /\ phase = "scan" /\ AtInstruction
  /\ arg \in DOMAIN Scanned(Current)
  /\ offset' = offset + ArgStackSize(Scanned(Current)[arg])
  /\ arg' = arg + 1
  /\ UNCHANGED <<func, phase, inst, frame_callees_args_size, vars_size, stackslots, stored>>

LargerSize_LastCall(size) == size
LargerSize(size) == IF size > frame_callees_args_size THEN size ELSE frame_callees_args_size

ScanInstruction ==
  /\ phase = "scan" /\ AtInstruction
  /\ arg \notin DOMAIN Scanned(Current)
  /\ frame_callees_args_size' = LargerSize(offset)
  /\ NextInstruction
  /\ UNCHANGED <<func, phase, vars_size, stackslots, stored>>

FinishScan ==
  /\ phase = "scan" /\ ~AtInstruction
  /\ phase' = "params"
  /\ inst' = 1 /\ arg' = 1 /\ offset' = arg_offset_start
  /\ UNCHANGED <<func, frame_callees_args_size, vars_size, stackslots, stored>>

PlaceParameter ==
  /\ phase = "params" /\ arg \in DOMAIN func.params
  /\ stackslots' = With(stackslots, Param(arg), offset)
  /\ offset' = offset + ArgStackSize(func.params[arg])
  /\ arg' = arg + 1
  /\ UNCHANGED <<func, phase, inst, frame_callees_args_size, vars_size, stored>>

FinishParameters ==
  /\ phase = "params" /\ arg \notin DOMAIN func.params
  /\ phase' = "locals"
  /\ UNCHANGED <<func, inst, arg, offset, frame_callees_args_size, vars_size,
                 stackslots, stored>>

SlotFor_BeforeGrowth(size) == -vars_size
SlotFor(size) == -(vars_size + size)

NeedsSlot_Always(i) == TRUE
NeedsSlot(i) == ~ IsAlias(i)

PlaceInstruction ==
  /\ phase = "locals" /\ AtInstruction
  /\ IF NeedsSlot(Current)
     THEN LET size == ArgStackSize(Current.type)
          IN /\ vars_size' = vars_size + size
             /\ stackslots' = With(stackslots, Inst(inst), SlotFor(size))
     ELSE UNCHANGED <<vars_size, stackslots>>
  /\ inst' = inst + 1
  /\ UNCHANGED <<func, phase, arg, offset, frame_callees_args_size, stored>>

FinishLocals ==
  /\ phase = "locals" /\ ~AtInstruction
  /\ phase' = "emit"
  /\ inst' = 1 /\ arg' = 1 /\ offset' = 0
  /\ UNCHANGED <<func, frame_callees_args_size, vars_size, stackslots, stored>>

StoredSize_AllWords(ty) == 4
StoredSize(ty) == IF ty = "i64" THEN 8 ELSE 4

(* write_reg_to_esp_offset(), once or, for an i64, twice. *)
StoreArgument ==
  /\ phase = "emit" /\ AtInstruction
  /\ arg \in DOMAIN Passed(Current)
  /\ stored' = With(stored, arg, offset)
  /\ offset' = offset + StoredSize(Passed(Current)[arg])
  /\ arg' = arg + 1
  /\ UNCHANGED <<func, phase, inst, frame_callees_args_size, vars_size, stackslots>>

FinishInstruction ==
  /\ phase = "emit" /\ AtInstruction
  /\ arg \notin DOMAIN Passed(Current)
  /\ stored' = Empty
  /\ NextInstruction
  /\ UNCHANGED <<func, phase, frame_callees_args_size, vars_size, stackslots>>

FinishFunction ==
  /\ phase = "emit" /\ ~AtInstruction
  /\ phase' = "done"
  /\ UNCHANGED <<func, inst, arg, offset, frame_callees_args_size, vars_size,
                 stackslots, stored>>

Next ==
  \/ ScanArgument \/ ScanInstruction \/ FinishScan
  \/ PlaceParameter \/ FinishParameters
  \/ PlaceInstruction \/ FinishLocals
  \/ StoreArgument \/ FinishInstruction \/ FinishFunction

Spec == Init /\ [][Next]_vars
--------------------------------------------------------------------------------
(* Counters, sizes and offsets have the ranges that the generated code      *)
(* relies on: sizes are never negative, only values of the function have a  *)
(* slot, and only operands of the current call are being stored.            *)
TypeOK ==
  /\ func \in Functions
  /\ phase \in {"scan", "params", "locals", "emit", "done"}
  /\ inst \in 1 .. (Len(func.insts) + 1)
  /\ arg \in Nat /\ offset \in Nat
  /\ frame_callees_args_size \in Nat /\ vars_size \in Nat
  /\ DOMAIN stackslots \subseteq SlottedValues(func)
  /\ \A v \in DOMAIN stackslots : stackslots[v] \in Int
  /\ phase = "emit" /\ AtInstruction => DOMAIN stored \subseteq DOMAIN Passed(Current)
  /\ \A k \in DOMAIN stored : stored[k] \in Nat

(* No two values share a byte of the frame, and no value overlaps the       *)
(* return address or the saved frame pointer (bytes 0 to 7), at any point   *)
(* of translate_function().                                                 *)
SlotsDisjoint ==
  \A v \in DOMAIN stackslots :
    /\ Disjoint(stackslots[v], ArgStackSize(ValueType(func, v)), 0, FirstParameter)
    /\ \A u \in DOMAIN stackslots \ {v} :
         Disjoint(stackslots[v], ArgStackSize(ValueType(func, v)),
                  stackslots[u], ArgStackSize(ValueType(func, u)))

(* The stores in front of a call, to the bottom of a frame of frame_size    *)
(* bytes, stay inside the frame and never overwrite a slot: the area that   *)
(* the first loop measured fits every call of the last, helpers included.   *)
OutgoingArgsFit ==
  LET frame_size == vars_size + frame_callees_args_size IN
  phase = "emit" /\ AtInstruction =>
    \A k \in DOMAIN stored :
      LET size == ArgStackSize(Passed(Current)[k]) IN
      /\ stored[k] + size <= frame_callees_args_size
      /\ \A v \in DOMAIN stackslots :
           Disjoint(stored[k] - frame_size, size,
                    stackslots[v], ArgStackSize(ValueType(func, v)))

(* A caller stores each argument where a callee with these parameter types  *)
(* looks for it: 8 bytes further up once the return address and the frame   *)
(* pointer are pushed.  A recursive call shows both sides at once.          *)
CallerCalleeAgree ==
  phase = "emit" /\ AtInstruction /\ Current.kind = "call" /\ Current.args = func.params =>
      \A k \in DOMAIN stored : stackslots[Param(k)] = FirstParameter + stored[k]

(* When code is emitted every value that the instructions may name has its  *)
(* slot, where the closed form puts it.                                     *)
LayoutComputed ==
  phase \in {"emit", "done"} =>
    /\ stackslots = FrameSlots(func)
    /\ vars_size = VarsSize(func.insts, Len(func.insts))
================================================================================
