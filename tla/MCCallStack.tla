------------------------------ MODULE MCCallStack ------------------------------
(***************************************************************************)
(* Programs of four functions.  The first is called by the host with an    *)
(* i64 and an i32, allocates an object, and goes through up to two         *)
(* instructions of a menu: calls with and without a result, to functions   *)
(* that store in its object and call on through pointers, more allocas,    *)
(* and branches back and forward.  One call needs more than the minimal    *)
(* area.                                                                   *)
(***************************************************************************)
EXTENDS CallStack

MCCodeAddress == [c \in (1 .. 4) \X (0 .. 5) |-> 5000 + 100 * c[1] + c[2]]

MCAddresses == StackLimit .. StackTop

ParamOp(k) == [kind |-> "value", value |-> Param(k)]
InstOp(k) == [kind |-> "value", value |-> Inst(k)]
ConstOp(lo, hi) == [kind |-> "const", words |-> <<lo, hi>>]
FunctionOp(f) == ConstOp(MCCodeAddress[<<f, 0>>], 0)

Instruction(kind, type, ops) == [kind |-> kind, type |-> type, args |-> << >>, ops |-> ops]
AllocaOf(size) == [size |-> size] @@ Instruction("alloca", "i32", << >>)
CallOf(type, callee, args, ops) ==
  [callee |-> callee, args |-> args] @@ Instruction("call", type, ops)
RetOf(o) == Instruction("ret", "void", <<o>>)
StoreOf(ty, pointer, o) ==
  [args |-> <<"i32", ty>>] @@ Instruction("store", "void", <<pointer, o>>)

Function(params, result, insts) ==
  [params |-> params, result |-> result, insts |-> insts,
   frame_callees_args_size |->
     Max({kMinCalleeArgsSize}
           \cup {ArgsSize(i.args) : i \in {j \in Range(insts) : j.kind = "call"}})]

(* A value, a function to call with it, and an object. *)
Callback == <<"i64", "i32", "i32">>

Through ==
  Function(Callback, "i64",
    << AllocaOf(8),
       CallOf("i64", ParamOp(2), Callback, <<ParamOp(1), FunctionOp(3), InstOp(1)>>),
       StoreOf("i64", ParamOp(3), ParamOp(1)),
       Instruction("i64op", "i64", <<InstOp(2), ParamOp(1)>>),
       RetOf(InstOp(4)) >>)

Leaf ==
  Function(Callback, "i64", << StoreOf("i32", ParamOp(3), ConstOp(8, 0)), RetOf(ParamOp(1)) >>)

Nothing ==
  Function(<< >>, "void", << Instruction("op", "i32", << >>), Instruction("ret", "void", << >>) >>)

Menu ==
  { Instruction("op", "i32", << >>),
    Instruction("i64op", "i64", <<ParamOp(1), ConstOp(1, 2)>>),
    AllocaOf(4),
    StoreOf("i32", InstOp(1), ParamOp(2)),
    [succ |-> {2, 3}] @@ Instruction("br", "void", << >>),
    [succ |-> {3, 4}] @@ Instruction("br", "void", << >>),
    CallOf("i64", FunctionOp(2), Callback, <<ParamOp(1), FunctionOp(2), InstOp(1)>>),
    CallOf("i64", FunctionOp(2), Callback, <<ConstOp(3, 4), FunctionOp(3), InstOp(1)>>),
    CallOf("void", FunctionOp(4), << >>, << >>) }

Bodies ==
  { b \in BoundedSeq(Menu, 2) :
      \A k \in DOMAIN b : b[k].kind = "br" => b[k].succ \subseteq 1 .. Len(b) + 2 }

MCPrograms ==
  { << Function(<<"i64", "i32">>, "i64", <<AllocaOf(8)>> \o b \o <<RetOf(ParamOp(1))>>),
       Through, Leaf, Nothing >> : b \in Bodies }
================================================================================
