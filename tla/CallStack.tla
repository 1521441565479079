-------------------------------- MODULE CallStack --------------------------------
(***************************************************************************)
(* Generated functions calling each other on the machine's stack: the      *)
(* prolog, the stores of outgoing arguments, call, alloca, and leave and   *)
(* ret.  Where slots and arguments are is the convention of Layout.        *)
(*                                                                         *)
(* A program is a sequence of functions [params, result, insts,            *)
(* frame_callees_args_size]; function 1 is called by the host.  An         *)
(* instruction is a record [kind, type, args, ops, ...]: args are the      *)
(* types of its operands ops; a "call" has an operand callee, an "alloca"  *)
(* a size and a "br" the set succ of instructions it may continue with.    *)
(* "op" computes something in registers, "i64op" by a helper.  Operands    *)
(* are [kind |-> "value", value] or [kind |-> "const", words].             *)
(*                                                                         *)
(* callers, base and objects are history variables: the activations that   *)
(* wait for a call to return, where the frame of the innermost is, and     *)
(* what alloca has given to which frame.                                   *)
(*                                                                         *)
(* A definition Name_Variant is a faulty form of the Name it precedes; no  *)
(* specification uses it.                                                  *)
(***************************************************************************)
EXTENDS Layout, SequencesExt

CONSTANTS
  Programs,
  Data,          \* the words that instructions compute
  Addresses,     \* what the abstract specification lets alloca give
  CodeAddress,   \* of <<f, 0>>, function f, and of what follows the call <<f, k>>
  HostReturn,    \* the return address of the host's call
  HostFrame,     \* the host's %ebp
  StackTop,      \* the host's %esp behind its call
  StackLimit,    \* a bound: calls and allocas keep %esp above it
  Unknown        \* what a word that was never written is read as

(* What the verifier guarantees of a function, and what follows from the    *)
(* layout of its frame: the area for outgoing arguments fits every call     *)
(* (FrameLayout's OutgoingArgsFit is what makes it so).                     *)
ArgTypes == Types \ {"void"}

IsOperand(f, o, ty) ==
  \/ o.kind = "value" /\ o.value \in SlottedValues(f) /\ ValueType(f, o.value) = ty
  \/ o.kind = "const" /\ o.words \in Int \X Int

WellFormedInst(f, k) ==
  LET i == f.insts[k] IN
  /\ i.kind \in {"op", "i64op", "alloca", "store", "br", "call", "ret"}
  /\ i.type \in Types /\ i.args \in Seq(ArgTypes)
  /\ \A n \in DOMAIN i.args : n \in DOMAIN i.ops /\ IsOperand(f, i.ops[n], i.args[n])
  /\ i.kind \in {"store", "br", "ret"} => i.type = "void"
  /\ i.kind \notin {"br", "ret"} => k + 1 \in DOMAIN f.insts
  /\ i.kind = "br" => i.succ \subseteq DOMAIN f.insts
  /\ i.kind = "i64op" =>
       i.type = "i64" /\ \A n \in 1 .. 2 : n \in DOMAIN i.ops /\ IsOperand(f, i.ops[n], "i64")
  /\ i.kind = "alloca" => i.type = "i32" /\ i.size \in Nat
  /\ i.kind = "store" => Len(i.args) = 2 /\ i.args[1] = "i32"
  /\ i.kind = "call" =>
       /\ IsOperand(f, i.callee, "i32")
       /\ ArgsSize(i.args) <= f.frame_callees_args_size
  /\ i.kind = "ret" /\ f.result # "void" =>
       1 \in DOMAIN i.ops /\ IsOperand(f, i.ops[1], f.result)

WellFormed(f) ==
  /\ f.params \in Seq(ArgTypes) /\ f.result \in Types
  /\ f.insts \in Seq(Range(f.insts)) /\ f.insts # << >>
  /\ f.frame_callees_args_size \in Nat
  /\ f.frame_callees_args_size >= kMinCalleeArgsSize
  /\ \A k \in DOMAIN f.insts : WellFormedInst(f, k)

ASSUME ProgramsAssumption ==
  \A p \in Programs : 1 \in DOMAIN p /\ \A f \in DOMAIN p : WellFormed(p[f])

(* No two functions or calls have the same code address.                    *)
ASSUME CodeAddressAssumption ==
  /\ \A p \in Programs : \A f \in DOMAIN p :
       \A k \in 0 .. Len(p[f].insts) : <<f, k>> \in DOMAIN CodeAddress
  /\ \A c \in DOMAIN CodeAddress :
       /\ CodeAddress[c] \in Int \ {HostReturn}
       /\ \A d \in DOMAIN CodeAddress : CodeAddress[c] = CodeAddress[d] => c = d

ASSUME WordsAssumption ==
  /\ Data \subseteq Int /\ Data # {} /\ {HostReturn, HostFrame, StackTop, StackLimit} \subseteq Int
  /\ StackLimit .. StackTop \subseteq Addresses

VARIABLES
  prog,
  at,            \* "entry", "inst", "result" (a call has returned) or "done"
  fn, pc,        \* the function and the instruction that run
  arg,           \* the operand that a call stores next
  eax, edx, esp, ebp,
  mem,           \* the words of the stack, by the address of their first byte
  callers, base, objects

history == <<callers, base, objects>>
vars == <<prog, at, fn, pc, arg, eax, edx, esp, ebp, mem, history>>

Read(m, a) == IF a \in DOMAIN m THEN m[a] ELSE Unknown

(* Words that are only partly overwritten are lost. *)
Write(m, a, words) ==
  LET written == { a + 4 * (k - 1) : k \in DOMAIN words } IN
  [x \in {y \in DOMAIN m : Disjoint(y, 4, a, 4 * Len(words))} \cup written |->
     IF x \in written THEN words[(x - a) \div 4 + 1] ELSE m[x]]

WordsOf(ty, lo, hi) == IF ty = "i64" THEN <<lo, hi>> ELSE <<lo>>

Func == prog[fn]
Current == Func.insts[pc]
At(kind) == at = "inst" /\ Current.kind = kind

FrameSize_VarsOnly(f) == VarsSize(f.insts, Len(f.insts))
FrameSize(f) == VarsSize(f.insts, Len(f.insts)) + f.frame_callees_args_size

Slot(v) == ebp + FrameSlots(Func)[v]

(* move_part_to_reg(); an operand that a load yields from its slot or, for  *)
(* a constant of 64 bits, from the data segment, is the same.               *)
Part(o, p) == IF o.kind = "value" THEN Read(mem, Slot(o.value) + 4 * (p - 1)) ELSE o.words[p]

(* addr_to_reg() *)
Address(o) == IF o.kind = "value" THEN Slot(o.value) ELSE Unknown

Spill(ty, lo, hi) == Write(mem, Slot(Inst(pc)), WordsOf(ty, lo, hi))

(* The host stores the arguments where any caller would and calls. *)
Init ==
  /\ prog \in Programs
  /\ at = "entry" /\ fn = 1 /\ pc = 1 /\ arg = 1
  /\ eax = Unknown /\ edx = Unknown
  /\ esp = StackTop /\ ebp = HostFrame
  /\ \E words \in [1 .. (ArgsSize(prog[1].params) \div 4) -> Data] :
       mem = Write(<< >>, StackTop, <<HostReturn>> \o words)
  /\ callers = << >> /\ base = StackTop - 4 /\ objects = {}

NextInst == pc' = pc + 1 /\ UNCHANGED arg

PushFrame_None == mem
PushFrame_StackPointer == Write(mem, esp - 4, <<esp>>)
PushFrame == Write(mem, esp - 4, <<ebp>>)

(* pushl %ebp; movl %esp, %ebp; subl $frame_size, %esp *)
Prolog ==
  /\ at = "entry"
  /\ mem' = PushFrame
  /\ ebp' = esp - 4
  /\ esp' = esp - 4 - FrameSize(Func)
  /\ at' = "inst"
  /\ UNCHANGED <<prog, fn, pc, arg, eax, edx, history>>

(* An instruction that computes in registers and spills its result. *)
Operate ==
  /\ At("op")
  /\ eax' \in Data /\ edx' \in Data
  /\ mem' = Spill(Current.type, eax', edx')
  /\ NextInst
  /\ UNCHANGED <<prog, at, fn, esp, ebp, history>>

(* A helper is passed pointers to the result and to two operands, and       *)
(* writes through the first.                                                *)
CallHelper ==
  /\ At("i64op")
  /\ eax' \in Data /\ edx' \in Data
  /\ LET m == Write(mem, esp, <<Slot(Inst(pc)), Address(Current.ops[1]), Address(Current.ops[2])>>)
     IN mem' = Write(m, Read(m, esp), WordsOf("i64", eax', edx'))
  /\ NextInst
  /\ UNCHANGED <<prog, at, fn, esp, ebp, history>>

(* A store through a pointer that alloca gave, here or in a caller. *)
Store ==
  /\ At("store")
  /\ LET o == Current.ops[2]
         words == WordsOf(Current.args[2], Part(o, 1), Part(o, 2))
     IN /\ edx' = Part(Current.ops[1], 1)
        /\ eax' = IF Current.args[2] = "i64" THEN Address(o) ELSE words[1]
        /\ mem' = Write(mem, edx', words)
  /\ NextInst
  /\ UNCHANGED <<prog, at, fn, esp, ebp, history>>

Branch ==
  /\ At("br")
  /\ pc' \in Current.succ
  /\ arg' = 1
  /\ UNCHANGED <<prog, at, fn, eax, edx, esp, ebp, mem, history>>

OutgoingArg_Words == esp + 4 * (arg - 1)
OutgoingArg == esp + ArgOffset(Current.args, arg)

(* An operand of 64 bits is loaded through its address. *)
StoreArgument ==
  /\ At("call") /\ arg \in DOMAIN Current.args
  /\ LET ty == Current.args[arg]
         o == Current.ops[arg]
         words == WordsOf(ty, Part(o, 1), Part(o, 2))
     IN /\ mem' = Write(mem, OutgoingArg, words)
        /\ IF ty = "i64" THEN eax' = Address(o) /\ edx' = words[2]
           ELSE eax' = words[1] /\ UNCHANGED edx
  /\ arg' = arg + 1
  /\ UNCHANGED <<prog, at, fn, pc, esp, ebp, history>>

(* call *%eax *)
Call ==
  /\ At("call") /\ arg \notin DOMAIN Current.args
  /\ esp - 8 >= StackLimit
  /\ eax' = Part(Current.callee, 1)
  /\ fn' \in {f \in DOMAIN prog : CodeAddress[<<f, 0>>] = eax'}
  /\ mem' = Write(mem, esp - 4, <<CodeAddress[<<fn, pc>>]>>)
  /\ esp' = esp - 4
  /\ at' = "entry" /\ pc' = 1 /\ arg' = 1
  /\ callers' = Append(callers, [fn |-> fn, pc |-> pc, base |-> base, esp |-> esp])
  /\ base' = esp - 8
  /\ UNCHANGED <<prog, edx, ebp, objects>>

(* The result of a call is spilled; one that is void has a slot, too. *)
SpillResult ==
  /\ at = "result"
  /\ mem' = Spill(Current.type, eax, edx)
  /\ at' = "inst"
  /\ NextInst
  /\ UNCHANGED <<prog, fn, eax, edx, esp, ebp, history>>

AllocaAddress_NoOffset(sp) == sp
AllocaAddress(sp) == sp + Func.frame_callees_args_size

(* The area for outgoing arguments moves down with %esp; what was the area  *)
(* before becomes part of the object.                                       *)
Alloca ==
  /\ At("alloca")
  /\ esp - Current.size >= StackLimit
  /\ esp' = esp - Current.size
  /\ eax' = AllocaAddress(esp')
  /\ mem' = Spill("i32", eax', edx)
  /\ objects' = objects \cup {[base |-> base, addr |-> eax', size |-> Current.size]}
  /\ NextInst
  /\ UNCHANGED <<prog, at, fn, edx, ebp, callers, base>>

(* leave; ret *)
AboveReturnAddress_OneWord(frame) == frame + 4
AboveReturnAddress(frame) == frame + 8

Returned(address) ==
  IF address = HostReturn THEN at' = "done" /\ UNCHANGED <<fn, pc>>
  ELSE /\ at' = "result"
       /\ \E c \in DOMAIN CodeAddress :
            CodeAddress[c] = address /\ fn' = c[1] /\ pc' = c[2]

(* What is below %esp belongs to nobody: a signal handler may overwrite it. *)
Return ==
  /\ At("ret")
  /\ IF Func.result = "void" THEN UNCHANGED <<eax, edx>>
     ELSE /\ eax' = Part(Current.ops[1], 1)
          /\ IF Func.result = "i64" THEN edx' = Part(Current.ops[1], 2) ELSE UNCHANGED edx
  /\ esp' = AboveReturnAddress(ebp)
  /\ ebp' = Read(mem, ebp)
  /\ Returned(Read(mem, ebp + 4))
  /\ mem' = [x \in {y \in DOMAIN mem : y >= esp'} |-> mem[x]]
  /\ arg' = 1
  /\ objects' = {o \in objects : o.base # base}
  /\ IF callers = << >> THEN UNCHANGED <<callers, base>>
     ELSE callers' = Front(callers) /\ base' = Last(callers).base
  /\ UNCHANGED prog

Next ==
  \/ Prolog \/ Operate \/ CallHelper \/ Store \/ Branch
  \/ StoreArgument \/ Call \/ SpillResult \/ Alloca \/ Return

Spec == Init /\ [][Next]_vars
--------------------------------------------------------------------------------
(* Control is in a function of the program and at an instruction or one of  *)
(* its operands, and the frame pointer is where the frame is.               *)
TypeOK ==
  /\ prog \in Programs
  /\ at \in {"entry", "inst", "result", "done"}
  /\ fn \in DOMAIN prog /\ pc \in DOMAIN Func.insts
  /\ arg \in 1 .. (Len(Current.args) + 1)
  /\ {eax, edx} \cup Range(mem) \subseteq Int \cup {Unknown}
  /\ esp \in Int /\ ebp \in Int
  /\ DOMAIN mem \subseteq Int
  /\ \A c \in Range(callers) : prog[c.fn].insts[c.pc].kind = "call"

(* The activations that have a frame, the innermost last, each with where   *)
(* its frame is and where its stack ends.                                   *)
Activations ==
  IF at = "done" THEN << >>
  ELSE Append(callers, [fn |-> fn, pc |-> pc, base |-> base, esp |-> esp])

(* Where the k-th activation returns to, and the frame that ends there.     *)
Links(k) ==
  IF k = 1 THEN [esp |-> StackTop + 4, base |-> HostFrame, return |-> HostReturn]
  ELSE LET c == callers[k - 1]
       IN [esp |-> c.esp, base |-> c.base, return |-> CodeAddress[<<c.fn, c.pc>>]]

(* At every point of a program, the frames are linked: below the frame of   *)
(* each caller, ending where it made its call, are the return address of    *)
(* that call and (once the prolog has run) its frame pointer, whatever the  *)
(* callees have stored since; the first frame has those of the host.        *)
FramesLinked ==
  \A k \in DOMAIN Activations :
    LET b == Activations[k].base IN
    /\ b + 8 = Links(k).esp
    /\ Read(mem, b + 4) = Links(k).return
    /\ IF at = "entry" /\ k = Len(Activations) THEN ebp = Links(k).base /\ esp = b + 4
       ELSE Read(mem, b) = Links(k).base

(* What alloca gives to a function is its own until it returns: it does not *)
(* overlap other objects, any slot of its frame, or the area where the      *)
(* function stores outgoing arguments at that time or at its pending call.  *)
ObjectsApart ==
  /\ \A o, p \in objects : o # p => Disjoint(o.addr, o.size, p.addr, p.size)
  /\ \A a \in Range(Activations) :
       LET f == prog[a.fn] IN
       \A o \in {q \in objects : q.base = a.base} :
         /\ a.esp + f.frame_callees_args_size <= o.addr
         /\ o.addr + o.size <= a.base - VarsSize(f.insts, Len(f.insts))

(* A pointer that is passed through frames and areas for arguments still    *)
(* points where it did: a program that stores only through pointers to its  *)
(* objects reaches one that its function, or a caller, has not given back.  *)
StoresInObjects ==
  At("store") =>
    LET pointer == Part(Current.ops[1], 1) IN
    \E o \in objects :
      /\ pointer \in Int /\ o.addr <= pointer
      /\ pointer + ArgStackSize(Current.args[2]) <= o.addr + o.size

(* A return continues the innermost caller behind its call, with the stack  *)
(* pointer and the frame pointer that it had when it called.                *)
ReturnRestoresCaller ==
  [][Len(callers') < Len(callers) =>
       LET c == Last(callers) IN
       fn' = c.fn /\ pc' = c.pc /\ esp' = c.esp /\ ebp' = c.base]_vars

(* A program calls a function by a pointer to it, of the type that it has;  *)
(* the pointer may have come through frames, arguments and results.         *)
CallsReachFunctions ==
  At("call") /\ arg \notin DOMAIN Current.args =>
    \E f \in DOMAIN prog :
      /\ CodeAddress[<<f, 0>>] = Part(Current.callee, 1)
      /\ prog[f].params = Current.args /\ prog[f].result = Current.type

(* The values of an activation, as they are in its slots. *)
ValueOf(ty, lo, hi) == IF ty = "void" THEN << >> ELSE WordsOf(ty, lo, hi)

EnvOf(a) ==
  LET f == prog[a.fn]
      slots == FrameSlots(f)
      Word(v, p) == Read(mem, a.base + slots[v] + 4 * (p - 1))
  IN [v \in DOMAIN slots |-> ValueOf(ValueType(f, v), Word(v, 1), Word(v, 2))]

ResultType == IF at = "done" THEN prog[1].result ELSE Current.type

Abstract == INSTANCE Calls WITH
  Words <- Data, Undefined <- Unknown,
  stack <- [k \in DOMAIN Activations |->
              [fn |-> Activations[k].fn, pc |-> Activations[k].pc, env |-> EnvOf(Activations[k])]],
  returned <- at \in {"result", "done"},
  value <- IF at \in {"result", "done"} THEN ValueOf(ResultType, eax, edx) ELSE << >>

(* Generated code calls and returns as the program says: every activation   *)
(* gets the values that were passed to it, keeps its own while its callees  *)
(* run, and gets back what they returned.                                   *)
ImplementsCalls == Abstract!Spec
================================================================================
