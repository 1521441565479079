---------------------------- MODULE FrameLayoutProofs ----------------------------
(***************************************************************************)
(* The loops of translate_function() compute the closed form of Layout,    *)
(* and the stores in front of every call fit the area that was measured,   *)
(* for functions of any number of parameters, instructions and operands.   *)
(***************************************************************************)
EXTENDS FrameLayout, SharedLemmas

(* The parameters and instructions that have been given a slot so far.     *)
PlacedParams ==
  IF phase = "scan" THEN 0
  ELSE IF phase = "params" THEN arg - 1 ELSE Len(func.params)

PlacedInsts ==
  IF phase \in {"scan", "params"} THEN 0
  ELSE IF phase = "locals" THEN inst - 1 ELSE Len(func.insts)

SlotsInv ==
  /\ DOMAIN stackslots =
       {Param(k) : k \in 1 .. PlacedParams}
         \cup {Inst(k) : k \in {j \in 1 .. PlacedInsts : ~ IsAlias(func.insts[j])}}
  /\ stackslots = [v \in DOMAIN stackslots |-> FrameSlots(func)[v]]
  /\ vars_size = VarsSize(func.insts, PlacedInsts)

(* The instructions whose operands have been counted. *)
Measured == IF phase = "scan" THEN inst - 1 ELSE Len(func.insts)

ScanInv ==
  /\ frame_callees_args_size \in Nat
  /\ frame_callees_args_size >= kMinCalleeArgsSize
  /\ \A j \in 1 .. Measured :
       ArgsSize(Scanned(func.insts[j])) <= frame_callees_args_size

(* The operand list that the current loop walks over. *)
Walked ==
  IF phase = "params" THEN func.params
  ELSE IF phase \in {"scan", "emit"} /\ AtInstruction
       THEN IF phase = "scan" THEN Scanned(Current) ELSE Passed(Current)
  ELSE << >>

WalkInv ==
  /\ func \in Functions
  /\ phase \in {"scan", "params", "locals", "emit", "done"}
  /\ inst \in 1 .. (Len(func.insts) + 1)
  /\ phase = "params" => inst = 1
  /\ phase # "locals" /\ phase # "done" => arg \in 1 .. (Len(Walked) + 1)
  /\ phase \in {"locals", "done"} => arg \in Nat /\ offset \in Nat
  /\ phase \in {"scan", "emit"} => offset = ArgOffset(Walked, arg)
  /\ phase = "params" => offset = arg_offset_start + ArgOffset(Walked, arg)
  /\ DOMAIN stored = IF phase = "emit" THEN 1 .. (arg - 1) ELSE {}
  /\ \A k \in DOMAIN stored : stored[k] = ArgOffset(Walked, k)

IInv == WalkInv /\ ScanInv /\ SlotsInv
--------------------------------------------------------------------------------
InstSet == [kind : {"alias", "call", "i64op", "other"}, type : Types, args : Seq(Types)]

LEMMA FunctionParts ==
  ASSUME NEW f \in Functions
  PROVE  /\ f.params \in Seq(Types) /\ f.insts \in Seq(InstSet)
         /\ \A j \in DOMAIN f.insts :
              Scanned(f.insts[j]) \in Seq(Types) /\ Passed(f.insts[j]) \in Seq(Types)
<1>1. f.params \in Seq(Types) /\ f.insts \in Seq(InstSet)
  BY FunctionsAssumption DEF InstSet, Kinds
<1>2. ASSUME NEW i \in InstSet
      PROVE  Scanned(i) \in Seq(Types) /\ Passed(i) \in Seq(Types)
  <2>1. i.args \in Seq(Types) /\ << >> \in Seq(Types)
    BY DEF InstSet
  <2>2. <<"i32", "i32", "i32">> \in Seq(Types)
    BY DEF Types
  <2>. QED
    BY <2>1, <2>2 DEF Scanned, Passed
<1>. QED
  BY <1>1, <1>2

LEMMA WalkedIsTypes == WalkInv => Walked \in Seq(Types)
<1>. SUFFICES ASSUME WalkInv PROVE Walked \in Seq(Types)
  OBVIOUS
<1>2. func \in Functions /\ inst \in 1 .. (Len(func.insts) + 1)
  BY DEF WalkInv
<1>3. AtInstruction => inst \in DOMAIN func.insts
  BY DEF AtInstruction
<1>. QED
  BY <1>2, <1>3, FunctionParts DEF Walked, Current

(* A walk starts with nothing passed over. *)
LEMMA FreshWalk ==
  ASSUME NEW types \in Seq(Types)
  PROVE  1 \in 1 .. (Len(types) + 1) /\ ArgOffset(types, 1) = 0
BY ArgOffsetStep

LEMMA WalkInit == Init => WalkInv
<1>. SUFFICES ASSUME Init PROVE WalkInv
  OBVIOUS
<1>1. func \in Functions /\ func.insts \in Seq(InstSet)
  BY FunctionParts DEF Init
<1>2. Walked \in Seq(Types)
  BY <1>1, FunctionParts DEF Init, Walked, AtInstruction, Current
<1>3. 1 \in 1 .. (Len(Walked) + 1) /\ ArgOffset(Walked, 1) = 0
  BY <1>2, FreshWalk
<1>. QED
  BY <1>1, <1>3 DEF Init, WalkInv, Empty

LEMMA WalkStep == WalkInv /\ [Next]_vars => WalkInv'
<1>. SUFFICES ASSUME WalkInv, [Next]_vars PROVE WalkInv'
  OBVIOUS
<1>0. /\ func \in Functions /\ func.insts \in Seq(InstSet) /\ func.params \in Seq(Types)
      /\ inst \in 1 .. (Len(func.insts) + 1)
      /\ Walked \in Seq(Types)
  BY WalkedIsTypes, FunctionParts DEF WalkInv
<1>. DEFINE ts == Walked
(* One operand further on: the offset grows by its size. *)
<1>1. ASSUME arg \in DOMAIN ts, arg' = arg + 1, Walked' = ts
      PROVE  /\ arg' \in 1 .. (Len(ts) + 1)
             /\ ArgOffset(ts, arg') = ArgOffset(ts, arg) + ArgStackSize(ts[arg])
             /\ ArgOffset(ts, arg) \in Nat
  BY <1>0, <1>1, ArgOffsetStep
<1>2. CASE ScanArgument
  <2>1. ts = Scanned(Current) /\ Walked' = ts
    BY <1>2 DEF ScanArgument, Walked, AtInstruction, Current
  <2>. QED
    BY <1>0, <1>1, <1>2, <2>1 DEF ScanArgument, WalkInv
<1>3. CASE ScanInstruction
  <2>1. /\ phase = "scan" /\ phase' = "scan" /\ func' = func /\ stored' = stored
        /\ inst' = inst + 1 /\ arg' = 1 /\ offset' = 0 /\ inst \in DOMAIN func.insts
    BY <1>3 DEF ScanInstruction, NextInstruction, AtInstruction
  <2>2. Walked' \in Seq(Types)
    BY <1>0, <2>1, FunctionParts DEF Walked, AtInstruction, Current
  <2>3. 1 \in 1 .. (Len(Walked') + 1) /\ ArgOffset(Walked', 1) = 0
    BY <2>2, FreshWalk
  <2>. QED
    BY <1>0, <2>1, <2>3 DEF WalkInv
<1>4. CASE FinishScan
  <2>1. Walked' \in Seq(Types)
    BY <1>0, <1>4 DEF FinishScan, Walked
  <2>2. 1 \in 1 .. (Len(Walked') + 1) /\ ArgOffset(Walked', 1) = 0
    BY <2>1, FreshWalk
  <2>. QED
    BY <1>0, <1>4, <2>2 DEF FinishScan, WalkInv, FirstParameter, arg_offset_start
<1>5. CASE PlaceParameter
  <2>1. ts = func.params /\ Walked' = ts
    BY <1>5 DEF PlaceParameter, Walked
  <2>2. /\ phase = "params" /\ phase' = "params" /\ func' = func /\ inst' = inst
        /\ arg \in DOMAIN ts /\ arg' = arg + 1 /\ stored' = stored
        /\ offset = 8 + ArgOffset(ts, arg) /\ offset' = offset + ArgStackSize(ts[arg])
    BY <1>5, <2>1 DEF PlaceParameter, WalkInv, arg_offset_start
  <2>3. arg' \in 1 .. (Len(ts) + 1) /\ offset' = 8 + ArgOffset(ts, arg')
    <3>1. ArgStackSize(ts[arg]) \in Nat
      BY DEF ArgStackSize
    <3>. HIDE DEF ts
    <3>. QED
      BY <1>1, <2>1, <2>2, <3>1
  <2>. QED
    BY <1>0, <2>1, <2>2, <2>3 DEF WalkInv, arg_offset_start
<1>6. CASE FinishParameters
  <2>1. arg \in 1 .. (Len(Walked) + 1) /\ offset = arg_offset_start + ArgOffset(Walked, arg)
    BY <1>6 DEF FinishParameters, WalkInv
  <2>2. ArgOffset(Walked, arg) \in Nat
    BY <1>0, <2>1, ArgOffsetStep
  <2>. QED
    BY <1>6, <2>1, <2>2 DEF FinishParameters, WalkInv, arg_offset_start
<1>7. CASE PlaceInstruction
  BY <1>0, <1>7 DEF PlaceInstruction, WalkInv, AtInstruction
<1>8. CASE FinishLocals
  <2>1. /\ phase = "locals" /\ phase' = "emit" /\ func' = func /\ stored' = stored
        /\ inst' = 1 /\ arg' = 1 /\ offset' = 0
    BY <1>8 DEF FinishLocals
  <2>2. Walked' \in Seq(Types)
    BY <1>0, <2>1, FunctionParts DEF Walked, AtInstruction, Current
  <2>3. 1 \in 1 .. (Len(Walked') + 1) /\ ArgOffset(Walked', 1) = 0
    BY <2>2, FreshWalk
  <2>. QED
    BY <1>0, <2>1, <2>3 DEF WalkInv
<1>9. CASE StoreArgument
  <2>1. ts = Passed(Current) /\ Walked' = ts
    BY <1>9 DEF StoreArgument, Walked, AtInstruction, Current
  <2>2. /\ phase = "emit" /\ phase' = "emit" /\ func' = func /\ inst' = inst
        /\ arg \in DOMAIN ts /\ arg' = arg + 1
        /\ offset' = offset + ArgStackSize(ts[arg])
        /\ stored' = With(stored, arg, offset)
    BY <1>9, <2>1 DEF StoreArgument, StoredSize, ArgStackSize
  <2>3. DOMAIN stored' = 1 .. (arg' - 1)
    BY <1>0, <2>2 DEF With, WalkInv
  <2>4. \A k \in DOMAIN stored' : stored'[k] = ArgOffset(ts, k)
    BY <2>2 DEF With, WalkInv
  <2>. QED
    BY <1>0, <1>1, <2>1, <2>2, <2>3, <2>4 DEF WalkInv
<1>10. CASE FinishInstruction
  <2>1. /\ phase = "emit" /\ phase' = "emit" /\ func' = func /\ stored' = Empty
        /\ inst' = inst + 1 /\ arg' = 1 /\ offset' = 0 /\ inst \in DOMAIN func.insts
    BY <1>10 DEF FinishInstruction, NextInstruction, AtInstruction
  <2>2. Walked' \in Seq(Types)
    BY <1>0, <2>1, FunctionParts DEF Walked, AtInstruction, Current
  <2>3. 1 \in 1 .. (Len(Walked') + 1) /\ ArgOffset(Walked', 1) = 0
    BY <2>2, FreshWalk
  <2>. QED
    BY <1>0, <2>1, <2>3 DEF WalkInv, Empty
<1>11. CASE FinishFunction
  <2>1. ts = << >>
    BY <1>11 DEF FinishFunction, Walked
  <2>2. arg = 1 /\ offset = ArgOffset(ts, 1)
    BY <1>11, <2>1 DEF FinishFunction, WalkInv
  <2>3. offset = 0
    BY <1>0, <2>2, FreshWalk
  <2>. QED
    BY <1>11, <2>2, <2>3 DEF FinishFunction, WalkInv
<1>12. CASE UNCHANGED vars
  BY <1>12 DEF vars, WalkInv, Walked, AtInstruction, Current
<1>. QED
  BY <1>2, <1>3, <1>4, <1>5, <1>6, <1>7, <1>8, <1>9, <1>10, <1>11, <1>12 DEF Next
LEMMA ScanInit == Init => ScanInv
BY DEF Init, ScanInv, Measured, kMinCalleeArgsSize

LEMMA ScanStep == WalkInv /\ ScanInv /\ [Next]_vars => ScanInv'
<1>. SUFFICES ASSUME WalkInv, ScanInv, [Next]_vars PROVE ScanInv'
  OBVIOUS
<1>0. func \in Functions /\ func.insts \in Seq(InstSet)
      /\ inst \in 1 .. (Len(func.insts) + 1)
  BY FunctionParts DEF WalkInv
<1>1. CASE ScanInstruction
  <2>1. /\ phase = "scan" /\ phase' = "scan" /\ inst' = inst + 1 /\ func' = func
        /\ inst \in DOMAIN func.insts /\ arg \notin DOMAIN Scanned(func.insts[inst])
        /\ frame_callees_args_size' = LargerSize(offset)
    BY <1>1 DEF ScanInstruction, NextInstruction, AtInstruction, Current
  <2>2. Walked = Scanned(func.insts[inst]) /\ Walked \in Seq(Types)
    BY <2>1, WalkedIsTypes DEF Walked, AtInstruction, Current
  <2>3. arg = Len(Walked) + 1 /\ offset = ArgOffset(Walked, arg)
    BY <2>1, <2>2 DEF WalkInv
  <2>4. offset = ArgsSize(Scanned(func.insts[inst])) /\ offset \in Nat
    BY <2>2, <2>3, ArgOffsetStep DEF ArgsSize
  <2>5. /\ frame_callees_args_size' \in Nat
        /\ frame_callees_args_size' >= frame_callees_args_size
        /\ frame_callees_args_size' >= offset
    BY <2>1, <2>4 DEF LargerSize, ScanInv
  <2>6. ASSUME NEW j \in 1 .. inst
        PROVE  ArgsSize(Scanned(func.insts[j])) <= frame_callees_args_size'
    <3>1. CASE j = inst
      BY <2>4, <2>5, <3>1
    <3>2. CASE j \in 1 .. (inst - 1)
      <4>1. ArgsSize(Scanned(func.insts[j])) <= frame_callees_args_size
        BY <2>1, <3>2 DEF ScanInv, Measured
      <4>2. ArgsSize(Scanned(func.insts[j])) \in Nat
        BY <1>0, <3>2, FunctionParts, ArgOffsetStep
      <4>. QED
        BY <2>5, <4>1, <4>2 DEF ScanInv
    <3>. QED
      BY <1>0, <3>1, <3>2
  <2>. QED
    BY <1>0, <2>1, <2>5, <2>6 DEF ScanInv, Measured, kMinCalleeArgsSize
<1>2. CASE FinishScan
  BY <1>0, <1>2 DEF FinishScan, ScanInv, Measured, AtInstruction, kMinCalleeArgsSize
<1>3. CASE ScanArgument
  BY <1>3 DEF ScanArgument, ScanInv, Measured, kMinCalleeArgsSize
<1>4. CASE PlaceParameter \/ FinishParameters \/ PlaceInstruction \/ FinishLocals
  BY <1>4 DEF PlaceParameter, FinishParameters, PlaceInstruction, FinishLocals,
              ScanInv, Measured, kMinCalleeArgsSize
<1>5. CASE StoreArgument \/ FinishInstruction \/ FinishFunction
  BY <1>5 DEF StoreArgument, FinishInstruction, FinishFunction, ScanInv, Measured,
              kMinCalleeArgsSize
<1>6. CASE UNCHANGED vars
  BY <1>6 DEF vars, ScanInv, Measured, kMinCalleeArgsSize
<1>. QED
  BY <1>1, <1>2, <1>3, <1>4, <1>5, <1>6 DEF Next
--------------------------------------------------------------------------------
(* Slots that are placed belong to values of the function.                 *)
LEMMA PlacedAreSlotted ==
  WalkInv /\ SlotsInv => /\ DOMAIN stackslots \subseteq SlottedValues(func)
                         /\ PlacedParams \in 0 .. Len(func.params)
                         /\ PlacedInsts \in 0 .. Len(func.insts)
<1>. SUFFICES ASSUME WalkInv, SlotsInv
              PROVE  /\ DOMAIN stackslots \subseteq SlottedValues(func)
                     /\ PlacedParams \in 0 .. Len(func.params)
                     /\ PlacedInsts \in 0 .. Len(func.insts)
  OBVIOUS
<1>1. /\ func.params \in Seq(Types) /\ func.insts \in Seq(InstSet)
      /\ inst \in 1 .. (Len(func.insts) + 1)
      /\ phase = "params" => arg \in 1 .. (Len(func.params) + 1)
  BY FunctionParts DEF WalkInv, Walked
<1>2. PlacedParams \in 0 .. Len(func.params) /\ PlacedInsts \in 0 .. Len(func.insts)
  BY <1>1 DEF PlacedParams, PlacedInsts
<1>. QED
  BY <1>1, <1>2 DEF SlotsInv, SlottedValues

LEMMA SlotsInit == Init => SlotsInv
<1>. SUFFICES ASSUME Init PROVE SlotsInv
  OBVIOUS
<1>1. func.insts \in Seq(InstSet) /\ 0 \in 0 .. Len(func.insts)
  BY FunctionParts DEF Init
<1>2. VarsSize(func.insts, 0) = 0
  BY <1>1, VarsSizeStep
<1>. QED
  BY <1>2 DEF Init, SlotsInv, PlacedParams, PlacedInsts, Empty

LEMMA SlotsStep == WalkInv /\ SlotsInv /\ [Next]_vars => SlotsInv'
<1>. SUFFICES ASSUME WalkInv, SlotsInv, [Next]_vars PROVE SlotsInv'
  OBVIOUS
<1>0. /\ func \in Functions /\ func.insts \in Seq(InstSet) /\ func.params \in Seq(Types)
      /\ inst \in 1 .. (Len(func.insts) + 1)
      /\ DOMAIN stackslots \subseteq SlottedValues(func)
  BY FunctionParts, PlacedAreSlotted DEF WalkInv
<1>1. ASSUME func' = func, stackslots' = stackslots, vars_size' = vars_size,
             PlacedParams' = PlacedParams, PlacedInsts' = PlacedInsts
      PROVE  SlotsInv'
  BY <1>1 DEF SlotsInv
<1>2. CASE PlaceParameter
  <2>1. /\ func' = func /\ vars_size' = vars_size /\ phase = "params" /\ phase' = "params"
        /\ arg \in DOMAIN func.params /\ arg' = arg + 1
        /\ stackslots' = With(stackslots, Param(arg), offset)
        /\ offset = 8 + ArgOffset(func.params, arg)
    BY <1>2 DEF PlaceParameter, WalkInv, Walked, arg_offset_start
  <2>2. FrameSlots(func)[Param(arg)] = offset
    BY <2>1 DEF FrameSlots, SlottedValues, Param, ParamSlot, FirstParameter
  <2>3. PlacedParams' = arg /\ PlacedParams = arg - 1 /\ PlacedInsts' = 0 /\ PlacedInsts = 0
    BY <1>0, <2>1 DEF PlacedParams, PlacedInsts
  <2>4. DOMAIN stackslots' = DOMAIN stackslots \cup {Param(arg)}
    BY <2>1 DEF With
  <2>5. 1 .. arg = (1 .. (arg - 1)) \cup {arg}
    BY <1>0, <2>1
  <2>6. DOMAIN stackslots' =
          {Param(k) : k \in 1 .. arg} \cup {Inst(k) : k \in {j \in 1 .. 0 : ~ IsAlias(func.insts[j])}}
    BY <2>3, <2>4, <2>5 DEF SlotsInv
  <2>7. \A v \in DOMAIN stackslots' : stackslots'[v] = FrameSlots(func)[v]
    BY <2>1, <2>2 DEF With, SlotsInv
  <2>8. stackslots' = [v \in DOMAIN stackslots' |-> FrameSlots(func)[v]]
    BY <2>1, <2>7 DEF With
  <2>. QED
    BY <2>1, <2>3, <2>6, <2>8 DEF SlotsInv
<1>3. CASE PlaceInstruction
  <2>. DEFINE i == func.insts[inst]
  <2>1. /\ func' = func /\ phase = "locals" /\ phase' = "locals" /\ inst' = inst + 1
        /\ inst \in DOMAIN func.insts
        /\ PlacedParams' = Len(func.params) /\ PlacedParams = Len(func.params)
        /\ PlacedInsts' = inst /\ PlacedInsts = inst - 1
    BY <1>0, <1>3 DEF PlaceInstruction, AtInstruction, PlacedParams, PlacedInsts
  <2>2. /\ inst - 1 \in 0 .. Len(func.insts) /\ (inst - 1) + 1 = inst
        /\ 1 .. inst = (1 .. (inst - 1)) \cup {inst}
    BY <1>0, <2>1
  <2>3. VarsSize(func.insts, inst) =
          VarsSize(func.insts, inst - 1) + (IF IsAlias(i) THEN 0 ELSE ArgStackSize(i.type))
    BY <1>0, <2>1, <2>2, VarsSizeStep
  <2>4. vars_size = VarsSize(func.insts, inst - 1) /\ vars_size \in Nat
    BY <1>0, <2>1, <2>2, VarsSizeStep DEF SlotsInv
  <2>5. CASE IsAlias(i)
    <3>1. stackslots' = stackslots /\ vars_size' = vars_size
      BY <1>3, <2>5 DEF PlaceInstruction, NeedsSlot, Current
    <3>2. {j \in 1 .. inst : ~ IsAlias(func.insts[j])}
            = {j \in 1 .. (inst - 1) : ~ IsAlias(func.insts[j])}
      BY <2>2, <2>5
    <3>. QED
      BY <2>1, <2>3, <2>4, <2>5, <3>1, <3>2 DEF SlotsInv
  <2>6. CASE ~ IsAlias(i)
    <3>1. /\ vars_size' = vars_size + ArgStackSize(i.type)
          /\ stackslots' = With(stackslots, Inst(inst), -(vars_size + ArgStackSize(i.type)))
      BY <1>3, <2>6 DEF PlaceInstruction, NeedsSlot, Current, SlotFor
    <3>2. vars_size' = VarsSize(func.insts, inst)
      BY <2>3, <2>4, <2>6, <3>1
    <3>3. FrameSlots(func)[Inst(inst)] = -vars_size'
      BY <2>1, <2>6, <3>2 DEF FrameSlots, SlottedValues, Inst, InstSlot
    <3>4. {j \in 1 .. inst : ~ IsAlias(func.insts[j])}
            = {j \in 1 .. (inst - 1) : ~ IsAlias(func.insts[j])} \cup {inst}
      BY <2>2, <2>6
    <3>5. DOMAIN stackslots' = DOMAIN stackslots \cup {Inst(inst)}
      BY <3>1 DEF With
    <3>6. DOMAIN stackslots' =
            {Param(k) : k \in 1 .. Len(func.params)}
              \cup {Inst(k) : k \in {j \in 1 .. inst : ~ IsAlias(func.insts[j])}}
      BY <2>1, <3>4, <3>5 DEF SlotsInv
    <3>7. \A v \in DOMAIN stackslots' : stackslots'[v] = FrameSlots(func)[v]
      BY <3>1, <3>3 DEF With, SlotsInv
    <3>8. stackslots' = [v \in DOMAIN stackslots' |-> FrameSlots(func)[v]]
      BY <3>1, <3>7 DEF With
    <3>. QED
      BY <2>1, <3>2, <3>6, <3>8 DEF SlotsInv
  <2>. QED
    BY <2>5, <2>6
<1>4. CASE ScanArgument \/ ScanInstruction \/ FinishScan
  BY <1>1, <1>4 DEF ScanArgument, ScanInstruction, FinishScan, PlacedParams, PlacedInsts
<1>5. CASE FinishParameters
  <2>1. arg = Len(func.params) + 1 /\ phase = "params" /\ phase' = "locals" /\ func' = func
        /\ inst' = inst /\ inst = 1
    BY <1>0, <1>5 DEF FinishParameters, WalkInv, Walked
  <2>. QED
    BY <1>0, <1>1, <1>5, <2>1 DEF FinishParameters, PlacedParams, PlacedInsts
<1>6. CASE FinishLocals
  BY <1>0, <1>1, <1>6 DEF FinishLocals, AtInstruction, PlacedParams, PlacedInsts
<1>7. CASE StoreArgument \/ FinishInstruction \/ FinishFunction
  BY <1>1, <1>7 DEF StoreArgument, FinishInstruction, FinishFunction, PlacedParams, PlacedInsts
<1>8. CASE UNCHANGED vars
  BY <1>1, <1>8 DEF vars, PlacedParams, PlacedInsts
<1>. QED
  BY <1>2, <1>3, <1>4, <1>5, <1>6, <1>7, <1>8 DEF Next
--------------------------------------------------------------------------------
(* What the invariant gives each property.                                 *)
LEMMA InvTypeOK == IInv => TypeOK
<1>. SUFFICES ASSUME IInv PROVE TypeOK
  OBVIOUS
<1>1. /\ func \in Functions /\ func.insts \in Seq(InstSet) /\ func.params \in Seq(Types)
      /\ Walked \in Seq(Types) /\ inst \in 1 .. (Len(func.insts) + 1)
      /\ DOMAIN stackslots \subseteq SlottedValues(func)
      /\ PlacedInsts \in 0 .. Len(func.insts)
  BY FunctionParts, WalkedIsTypes, PlacedAreSlotted DEF IInv, WalkInv
<1>2. arg \in Nat /\ offset \in Nat
  <2>1. CASE phase \in {"locals", "done"}
    BY <2>1 DEF IInv, WalkInv
  <2>2. CASE phase \in {"scan", "params", "emit"}
    <3>1. arg \in 1 .. (Len(Walked) + 1)
      BY <2>2 DEF IInv, WalkInv
    <3>2. ArgOffset(Walked, arg) \in Nat
      BY <1>1, <3>1, ArgOffsetStep
    <3>3. offset = ArgOffset(Walked, arg) \/ offset = 8 + ArgOffset(Walked, arg)
      BY <2>2 DEF IInv, WalkInv, arg_offset_start
    <3>. QED
      BY <3>1, <3>2, <3>3
  <2>. QED
    BY <2>1, <2>2 DEF IInv, WalkInv
<1>3. vars_size \in Nat
  BY <1>1, VarsSizeStep DEF IInv, SlotsInv
<1>4. \A v \in DOMAIN stackslots : stackslots[v] \in Int
  BY <1>1, SlotRegions DEF IInv, SlotsInv
<1>5. \A k \in DOMAIN stored : stored[k] \in Nat
  <2>. SUFFICES ASSUME NEW k \in DOMAIN stored PROVE stored[k] \in Nat
    OBVIOUS
  <2>1. k \in 1 .. (Len(Walked) + 1) /\ stored[k] = ArgOffset(Walked, k)
    BY <1>1 DEF IInv, WalkInv
  <2>. QED
    BY <1>1, <2>1, ArgOffsetStep
<1>6. phase = "emit" /\ AtInstruction => DOMAIN stored \subseteq DOMAIN Passed(Current)
  <2>. SUFFICES ASSUME phase = "emit", AtInstruction
                PROVE  DOMAIN stored \subseteq DOMAIN Passed(Current)
    OBVIOUS
  <2>1. Walked = Passed(Current)
    BY DEF Walked
  <2>. QED
    BY <1>1, <2>1 DEF IInv, WalkInv
<1>. QED
  BY <1>1, <1>2, <1>3, <1>4, <1>5, <1>6 DEF IInv, WalkInv, ScanInv, TypeOK

LEMMA InvSlotsDisjoint == IInv => SlotsDisjoint
<1>. SUFFICES ASSUME IInv, NEW v \in DOMAIN stackslots
              PROVE  /\ Disjoint(stackslots[v], ArgStackSize(ValueType(func, v)), 0,
                                 FirstParameter)
                     /\ \A u \in DOMAIN stackslots \ {v} :
                          Disjoint(stackslots[v], ArgStackSize(ValueType(func, v)),
                                   stackslots[u], ArgStackSize(ValueType(func, u)))
  BY DEF SlotsDisjoint
<1>1. /\ func.insts \in Seq(InstSet) /\ func.params \in Seq(Types)
      /\ DOMAIN stackslots \subseteq SlottedValues(func)
      /\ \A u \in DOMAIN stackslots : stackslots[u] = FrameSlots(func)[u]
  BY FunctionParts, PlacedAreSlotted DEF IInv, WalkInv, SlotsInv
<1>2. /\ stackslots[v] \in Int
      /\ stackslots[v] >= 8 \/ stackslots[v] + ArgStackSize(ValueType(func, v)) <= 0
  BY <1>1, SlotRegions DEF FirstParameter
<1>3. Disjoint(stackslots[v], ArgStackSize(ValueType(func, v)), 0, FirstParameter)
  BY <1>2 DEF Disjoint, FirstParameter
<1>. QED
  BY <1>1, <1>3, SlotsDoNotOverlap

LEMMA InvLayoutComputed == IInv => LayoutComputed
<1>. SUFFICES ASSUME IInv, phase \in {"emit", "done"}
              PROVE  /\ stackslots = FrameSlots(func)
                     /\ vars_size = VarsSize(func.insts, Len(func.insts))
  BY DEF LayoutComputed
<1>1. PlacedParams = Len(func.params) /\ PlacedInsts = Len(func.insts)
  BY DEF PlacedParams, PlacedInsts
<1>2. func.insts \in Seq(InstSet) /\ func.params \in Seq(Types)
  BY FunctionParts DEF IInv, WalkInv
<1>3. DOMAIN stackslots = SlottedValues(func)
  BY <1>1, <1>2 DEF IInv, SlotsInv, SlottedValues
<1>. QED
  BY <1>1, <1>3 DEF IInv, SlotsInv, FrameSlots

(* Stores of the current call, while it is emitted. *)
LEMMA StoredOperands ==
  ASSUME IInv, phase = "emit", AtInstruction, NEW k \in DOMAIN stored
  PROVE  /\ inst \in DOMAIN func.insts
         /\ k \in DOMAIN Passed(Current)
         /\ stored[k] = ArgOffset(Passed(Current), k) /\ stored[k] \in Nat
         /\ stored[k] + ArgStackSize(Passed(Current)[k]) <= ArgsSize(Passed(Current))
         /\ ArgsSize(Passed(Current)) \in Nat
<1>1. Walked = Passed(Current) /\ Walked \in Seq(Types)
  BY WalkedIsTypes DEF Walked, IInv
<1>2. k \in DOMAIN Walked /\ stored[k] = ArgOffset(Walked, k)
  BY <1>1 DEF IInv, WalkInv
<1>3. k \in 1 .. (Len(Walked) + 1) /\ Len(Walked) + 1 \in 1 .. (Len(Walked) + 1)
      /\ k < Len(Walked) + 1
  BY <1>1, <1>2
<1>4. ArgOffset(Walked, k) + ArgStackSize(Walked[k]) <= ArgsSize(Walked)
  BY <1>1, <1>2, <1>3, ArgOffsetMonotone DEF ArgsSize
<1>. QED
  BY <1>1, <1>2, <1>3, <1>4, ArgOffsetStep DEF AtInstruction

(* The area for outgoing arguments fits the helpers and every call.        *)
LEMMA PassedFits ==
  ASSUME IInv, phase = "emit", inst \in DOMAIN func.insts
  PROVE  ArgsSize(Passed(Current)) <= frame_callees_args_size
<1>1. ArgsSize(Scanned(Current)) <= frame_callees_args_size
  <2>1. inst \in 1 .. Measured
    BY FunctionParts DEF IInv, WalkInv, Measured
  <2>. QED
    BY <2>1 DEF IInv, ScanInv, Current
<1>2. ArgsSize(<<"i32", "i32", "i32">>) = 12
  <2>. DEFINE ts == <<"i32", "i32", "i32">>
  <2>1. ts \in Seq(Types) /\ Len(ts) = 3 /\ DOMAIN ts = {1, 2, 3}
        /\ \A k \in DOMAIN ts : ArgStackSize(ts[k]) = 4
    BY DEF Types, ArgStackSize
  <2>. HIDE DEF ts
  <2>2. /\ ArgOffset(ts, 1) = 0
        /\ \A k \in {1, 2, 3} : ArgOffset(ts, k + 1) = ArgOffset(ts, k) + 4
    BY SMTT(30), <2>1, ArgOffsetStep
  <2>3. ArgOffset(ts, 2) = 4 /\ ArgOffset(ts, 3) = 8 /\ ArgOffset(ts, 4) = 12
    <3>1. ArgOffset(ts, 2) = 4
      BY <2>2
    <3>2. ArgOffset(ts, 3) = 8
      BY <2>2, <3>1
    <3>. QED
      BY <2>2, <3>1, <3>2
  <2>. QED
    BY <2>1, <2>3 DEF ArgsSize, ts
<1>. QED
  BY <1>1, <1>2 DEF Passed, IInv, ScanInv, kMinCalleeArgsSize

LEMMA InvOutgoingArgsFit == IInv => OutgoingArgsFit
<1>. DEFINE size(k) == ArgStackSize(Passed(Current)[k])
            frame_size == vars_size + frame_callees_args_size
<1>. SUFFICES ASSUME IInv, phase = "emit", AtInstruction, NEW k \in DOMAIN stored
              PROVE  /\ stored[k] + size(k) <= frame_callees_args_size
                     /\ \A v \in DOMAIN stackslots :
                          Disjoint(stored[k] - frame_size, size(k),
                                   stackslots[v], ArgStackSize(ValueType(func, v)))
  BY DEF OutgoingArgsFit
<1>1. /\ stored[k] \in Nat /\ frame_callees_args_size \in Nat /\ vars_size \in Nat
      /\ size(k) \in Nat
  BY InvTypeOK DEF TypeOK, ArgStackSize
<1>2. stored[k] + size(k) <= frame_callees_args_size
  <2>1. ArgsSize(Passed(Current)) <= frame_callees_args_size
    BY PassedFits, StoredOperands
  <2>2. /\ stored[k] + size(k) <= ArgsSize(Passed(Current))
        /\ ArgsSize(Passed(Current)) \in Nat
    BY StoredOperands
  <2>. HIDE DEF size
  <2>. QED
    BY <1>1, <2>1, <2>2
<1>3. ASSUME NEW v \in DOMAIN stackslots PROVE stackslots[v] >= -vars_size
  <2>1. /\ stackslots[v] = FrameSlots(func)[v] /\ v \in SlottedValues(func)
        /\ vars_size = VarsSize(func.insts, Len(func.insts))
    BY <1>3, InvLayoutComputed DEF LayoutComputed, FrameSlots
  <2>2. func.insts \in Seq(InstSet) /\ func.params \in Seq(Types)
    BY FunctionParts DEF IInv, WalkInv
  <2>. QED
    BY <1>1, <2>1, <2>2, SlotRegions DEF FirstParameter
<1>4. \A v \in DOMAIN stackslots : stackslots[v] \in Int
  BY InvTypeOK DEF TypeOK
<1>. HIDE DEF size
<1>. QED
  BY <1>1, <1>2, <1>3, <1>4 DEF Disjoint

LEMMA InvCallerCalleeAgree == IInv => CallerCalleeAgree
<1>. SUFFICES ASSUME IInv, phase = "emit", AtInstruction, Current.kind = "call",
                     Current.args = func.params, NEW k \in DOMAIN stored
              PROVE  stackslots[Param(k)] = FirstParameter + stored[k]
  BY DEF CallerCalleeAgree
<1>1. Passed(Current) = func.params
  BY DEF Passed, Scanned
<1>2. k \in DOMAIN func.params /\ stored[k] = ArgOffset(func.params, k)
  BY <1>1, StoredOperands
<1>3. Param(k) \in SlottedValues(func) /\ Param(k)[1] = "param" /\ Param(k)[2] = k
  BY <1>2 DEF SlottedValues, Param
<1>4. stackslots = FrameSlots(func)
  BY InvLayoutComputed DEF LayoutComputed
<1>. QED
  BY <1>2, <1>3, <1>4 DEF FrameSlots, ParamSlot
--------------------------------------------------------------------------------
LEMMA IInvInductive == (Init => IInv) /\ (IInv /\ [Next]_vars => IInv')
BY WalkInit, WalkStep, ScanInit, ScanStep, SlotsInit, SlotsStep DEF IInv

(* Every counter, size and offset of the layout stays in range, and only    *)
(* values of the function get a slot.                                       *)
THEOREM LayoutTypeCorrect == Spec => []TypeOK
BY IInvInductive, InvTypeOK, PTL DEF Spec

(* In every function, of any size, no two values share stack bytes.        *)
THEOREM SlotsAreDisjoint == Spec => []SlotsDisjoint
BY IInvInductive, InvSlotsDisjoint, PTL DEF Spec

(* In every function the stores before each call stay within the area       *)
(* reserved for them and off every slot.                                    *)
THEOREM OutgoingArgumentsFit == Spec => []OutgoingArgsFit
BY IInvInductive, InvOutgoingArgsFit, PTL DEF Spec

(* For any signature, caller and callee agree where arguments are.         *)
THEOREM CallersAndCalleesAgree == Spec => []CallerCalleeAgree
BY IInvInductive, InvCallerCalleeAgree, PTL DEF Spec

(* translate_function() computes the closed form of the frame.             *)
THEOREM LayoutIsClosedForm == Spec => []LayoutComputed
BY IInvInductive, InvLayoutComputed, PTL DEF Spec
================================================================================
