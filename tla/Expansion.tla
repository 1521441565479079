------------------------------- MODULE Expansion -------------------------------
(***************************************************************************)
(* How a function is rewritten before code is generated for it: constant   *)
(* expressions become instructions (ExpandConstantExpr), getelementptr     *)
(* becomes arithmetic (ExpandGetElementPtr), and memory intrinsics become  *)
(* calls of the C library (expand_mem_intrinsics()).                       *)
(*                                                                         *)
(* A function is a sequence of blocks, a block a sequence of instructions  *)
(* [id, op, type, args, elem, from]: elem is the type that the pointer of  *)
(* a getelementptr points to, and from has the predecessor of each operand *)
(* of a phi node.  An operand is                                           *)
(*   [kind |-> "const", type, n]                                           *)
(*   [kind |-> "value", type, id]                 an instruction's result  *)
(*   [kind |-> "expr", type, op, args, elem]                               *)
(* A memory intrinsic has the operands destination, source or byte, length *)
(* and whether it is volatile.                                             *)
(*                                                                         *)
(* A definition Name_Variant is a faulty form of the Name it precedes; no  *)
(* specification uses it.                                                  *)
(***************************************************************************)
EXTENDS DataLayout

CONSTANTS
  Programs,
  WordBits,
  Samples     \* numbers for the values that are not computed here

VARIABLES
  prog,    \* the function as it was
  func,    \* the function as it is now
  phase,   \* the pass at work, "done" or "failed"
  bb, pos, \* the instruction it is at
  opnum,   \* and its operand
  fresh    \* the number for the next instruction

vars == <<prog, func, phase, bb, pos, opnum, fresh>>

NoElem == [kind |-> "none"]
Const(type, n) == [kind |-> "const", type |-> type, n |-> n]
Value(type, id) == [kind |-> "value", type |-> type, id |-> id]
Inst(id, op, type, args) ==
  [id |-> id, op |-> op, type |-> type, args |-> args, elem |-> NoElem, from |-> << >>]

Instructions(f) == UNION {Range(f[b]) : b \in DOMAIN f}
LastId(f) == Max({i.id : i \in Instructions(f)})
MemIntrinsics == {"memcpy", "memmove", "memset"}

Here == func[bb][pos]
Visiting(pass) == phase = pass /\ pos <= Len(func[bb])

(* The instructions are inserted in front of the k-th of block b.           *)
Inserted(f, b, k, insts) ==
  [f EXCEPT ![b] = SubSeq(@, 1, k - 1) \o insts \o SubSeq(@, k, Len(@))]

Init ==
  /\ prog \in Programs /\ func = prog
  /\ phase = "constexpr" /\ bb = 1 /\ pos = 1 /\ opnum = 1
  /\ fresh = LastId(prog) + 1

(* expandConstantExpr(): the instructions for an operand, its own operands' *)
(* first, numbered from n on.                                               *)
RECURSIVE ExpandedOperand(_, _), ExpandedArgs(_, _)
ExpandedArgs(args, n) ==
  IF args = << >> THEN [insts |-> << >>, vals |-> << >>]
  ELSE LET first == ExpandedOperand(Head(args), n)
           rest == ExpandedArgs(Tail(args), n + Len(first.insts))
       IN [insts |-> first.insts \o rest.insts, vals |-> <<first.val>> \o rest.vals]
ExpandedOperand(o, n) ==
  IF o.kind # "expr" THEN [insts |-> << >>, val |-> o]
  ELSE LET args == ExpandedArgs(o.args, n)
           id == n + Len(args.insts)
           inst == [Inst(id, o.op, o.type, args.vals) EXCEPT !.elem = o.elem]
       IN [insts |-> Append(args.insts, inst), val |-> Value(o.type, id)]

(* Where they go: in front of the instruction, or of the terminator of the  *)
(* block that the operand of a phi node comes from.                         *)
InsertPoint_AtPhi(inst) == <<bb, pos>>
InsertPoint(inst) ==
  IF inst.op = "phi" THEN LET b == inst.from[opnum] IN <<b, Len(func[b])>> ELSE <<bb, pos>>

ExpandOperand ==
  /\ Visiting("constexpr") /\ opnum <= Len(Here.args)
  /\ LET new == ExpandedOperand(Here.args[opnum], fresh)
         at == InsertPoint(Here)
     IN /\ func' = Inserted([func EXCEPT ![bb][pos].args[opnum] = new.val], at[1], at[2], new.insts)
        /\ pos' = IF at = <<bb, pos>> THEN pos + Len(new.insts) ELSE pos
        /\ fresh' = fresh + Len(new.insts)
  /\ opnum' = opnum + 1
  /\ UNCHANGED <<prog, phase, bb>>

NextInstruction ==
  /\ \/ Visiting("constexpr") /\ opnum > Len(Here.args)
     \/ Visiting("gep") /\ Here.op # "gep"
     \/ Visiting("mem") /\ Here.op \notin MemIntrinsics
  /\ pos' = pos + 1 /\ opnum' = 1
  /\ UNCHANGED <<prog, func, phase, bb, fresh>>

(* The type that an index leads to from a type.                             *)
Indexed(ty, index) == IF ty.kind = "struct" THEN ty.fields[index.n + 1] ELSE ty.elem

(* What an index into a pointer or an array is multiplied with.             *)
Scale_StoreSize(ty) ==
  IF ty.kind = "struct"
  THEN StructElementOffset(ty, Len(ty.fields)) + TypeAllocSize(Last(ty.fields))
  ELSE TypeAllocSize(ty)
Scale(ty) == TypeAllocSize(ty)

(* What one more index adds to the code for a getelementptr: ptr is its     *)
(* sum, and n the next number.                                              *)
AddIndex(code, index) ==
  LET ty == Indexed(code.ty, index)
      offset == IF code.ty.kind = "struct"
                THEN Const("i32", StructElementOffset(code.ty, index.n + 1))
                ELSE Value(index.type, code.n)
      mul == IF code.ty.kind = "struct" THEN << >>
             ELSE << Inst(code.n, "mul", index.type, <<index, Const("i32", Scale(ty))>>) >>
      id == code.n + Len(mul)
  IN [ty |-> ty, ptr |-> Value("i32", id), n |-> id + 1,
      insts |-> code.insts \o mul \o << Inst(id, "add", "i32", <<code.ptr, offset>>) >>]

PointerTo(ty) == [kind |-> "pointer", elem |-> ty]

(* The last instruction replaces the getelementptr in all uses: it keeps    *)
(* its number.                                                              *)
ExpandGetElementPtr ==
  /\ Visiting("gep") /\ Here.op = "gep"
  /\ LET start == [ty |-> PointerTo(Here.elem), ptr |-> Value("i32", fresh), n |-> fresh + 1,
                   insts |-> << Inst(fresh, "ptrtoint", "i32", <<Here.args[1]>>) >>]
         code == FoldLeft(AddIndex, start, Tail(Here.args))
     IN /\ func' = Inserted([func EXCEPT ![bb][pos] = Inst(Here.id, "inttoptr", "ptr", <<code.ptr>>)],
                            bb, pos, code.insts)
        /\ pos' = pos + Len(code.insts) + 1
        /\ fresh' = code.n
  /\ opnum' = 1
  /\ UNCHANGED <<prog, phase, bb>>

(* A length of i64 is truncated without a check.                            *)
SizeType == "i32"

ExpandMemIntrinsic ==
  /\ Visiting("mem") /\ Here.op \in MemIntrinsics
  /\ LET length == Here.args[3]
         casts == IF length.type = SizeType THEN << >>
                  ELSE << Inst(fresh, "trunc", "i32", <<length>>) >>
         size == IF casts = << >> THEN length ELSE Value("i32", fresh)
         callee == [kind |-> "expr", type |-> "ptr", op |-> "inttoptr", elem |-> NoElem,
                    args |-> <<Const("i32", 0)>>]
         call == Inst(Here.id, "call", "void", <<Here.args[1], Here.args[2], size, callee>>)
     IN IF Here.args[4].n = 1
        THEN phase' = "failed" /\ UNCHANGED <<func, pos, fresh>>
        ELSE /\ func' = Inserted([func EXCEPT ![bb][pos] = call], bb, pos, casts)
             /\ pos' = pos + Len(casts) + 1
             /\ fresh' = fresh + Len(casts)
             /\ UNCHANGED phase
  /\ opnum' = 1
  /\ UNCHANGED <<prog, bb>>

(* The order of the passes: the first runs on the whole function before the *)
(* others take it block by block, as it may insert into any predecessor.    *)
AfterBlock_BlockByBlock(pass, b) ==
  CASE pass = "constexpr" -> <<"gep", b>>
    [] pass = "gep" -> <<"mem", b>>
    [] pass = "mem" -> IF b < Len(func) THEN <<"constexpr", b + 1>> ELSE <<"done", b>>
AfterBlock(pass, b) ==
  CASE pass = "constexpr" -> IF b < Len(func) THEN <<"constexpr", b + 1>> ELSE <<"gep", 1>>
    [] pass = "gep" -> <<"mem", b>>
    [] pass = "mem" -> IF b < Len(func) THEN <<"gep", b + 1>> ELSE <<"done", b>>

EndBlock ==
  /\ phase \in {"constexpr", "gep", "mem"} /\ pos > Len(func[bb])
  /\ phase' = AfterBlock(phase, bb)[1] /\ bb' = AfterBlock(phase, bb)[2]
  /\ pos' = 1 /\ opnum' = 1
  /\ UNCHANGED <<prog, func, fresh>>

Next ==
  \/ ExpandOperand \/ NextInstruction \/ ExpandGetElementPtr \/ ExpandMemIntrinsic \/ EndBlock

Spec == Init /\ [][Next]_vars
--------------------------------------------------------------------------------
Terminators == {"br", "switch", "ret"}

(* Numbers are unique, and every block is phi nodes, then other             *)
(* instructions, then a terminator, at every step.                          *)
TypeOK ==
  /\ phase \in {"constexpr", "gep", "mem", "done", "failed"}
  /\ bb \in DOMAIN func /\ pos \in 1 .. (Len(func[bb]) + 1)
  /\ \A b, c \in DOMAIN func : \A j \in DOMAIN func[b], k \in DOMAIN func[c] :
       func[b][j].id = func[c][k].id => <<b, j>> = <<c, k>>
  /\ \A i \in Instructions(func) : i.id < fresh
  /\ \A b \in DOMAIN func : \A k \in DOMAIN func[b] :
       /\ func[b][k].op \in Terminators <=> k = Len(func[b])
       /\ func[b][k].op = "phi" => \A j \in 1 .. k : func[b][j].op = "phi"

Bits(type) == IF type = "i64" THEN 2 * WordBits ELSE WordBits

(* The distance from a pointer to the element that the indices name.        *)
RECURSIVE Distance(_, _, _)
Distance(ty, indices, numbers) ==
  IF indices = << >> THEN 0
  ELSE Distance(Indexed(ty, Head(indices)), Tail(indices), Tail(numbers))
         + (IF ty.kind = "struct" THEN StructElementOffset(ty, Head(indices).n + 1)
            ELSE Head(numbers) * TypeAllocSize(ty.elem))

(* What an operand is, if defs are the instructions by their numbers and    *)
(* val the numbers of the values that they do not compute.                  *)
Computed == {"gep", "ptrtoint", "inttoptr", "bitcast", "trunc", "add", "mul"}
Defs(f) ==
  LET computing == {i \in Instructions(f) : i.op \in Computed}
  IN [n \in {i.id : i \in computing} |-> CHOOSE i \in computing : i.id = n]
RECURSIVE Number(_, _, _)
Number(defs, o, val) ==
  LET Result(i) ==
        LET x == [k \in DOMAIN i.args |-> Number(defs, i.args[k], val)]
        IN CASE i.op \in {"ptrtoint", "inttoptr", "bitcast", "trunc"} -> x[1]
             [] i.op = "add" -> x[1] + x[2]
             [] i.op = "mul" -> x[1] * x[2]
             [] i.op = "gep" -> x[1] + Distance(PointerTo(i.elem), Tail(i.args), Tail(x))
      n == CASE o.kind = "const" -> o.n
             [] o.kind = "expr" -> Result(o)
             [] o.kind = "value" -> IF o.id \in DOMAIN defs THEN Result(defs[o.id]) ELSE val[o.id]
  IN n % 2 ^ Bits(o.type)

Inputs(f) ==
  LET RECURSIVE In(_)
      In(o) == CASE o.kind = "const" -> {}
                 [] o.kind = "value" -> {o.id}
                 [] o.kind = "expr" -> UNION {In(a) : a \in Range(o.args)}
  IN UNION {In(a) : a \in UNION {Range(i.args) : i \in Instructions(f)}}
       \ {i.id : i \in {j \in Instructions(f) : j.op \in Computed}}

(* All results are sums of multiples of the inputs, so that it is enough to *)
(* look at each input alone.                                                *)
Valuations(f) ==
  LET ids == Inputs(f)
  IN { [k \in ids |-> IF k = j THEN n ELSE 0] : j \in ids, n \in Samples }

(* At every step each instruction of the original function but those that   *)
(* only compute is there, in its block and in order, and its operands are   *)
(* what they were, whatever the values of the rest of the function: the     *)
(* inserted casts, products and sums, in 32 bits, arrive at the address of  *)
(* the element that a getelementptr names.  The length of an intrinsic is   *)
(* what it was if it fits a word.                                           *)
MeaningKept ==
  /\ \A b \in DOMAIN prog :
       LET Ids(block) == [k \in DOMAIN block |-> block[k].id]
           old == Ids(prog[b])
       IN SelectSeq(Ids(func[b]), LAMBDA id : id \in Range(old)) = old
  /\ LET before == Defs(prog)
         after == Defs(func)
         Now(id) == CHOOSE i \in Instructions(func) : i.id = id
     IN \A i \in {j \in Instructions(prog) : j.op # "gep"} :
          \A a \in DOMAIN i.args \ (IF i.op \in MemIntrinsics THEN {4} ELSE {}) :
            \A val \in Valuations(prog) :
              LET n == Number(before, i.args[a], val)
                  long == i.op \in MemIntrinsics /\ a = 3 /\ n >= 2 ^ WordBits
              IN ~long => Number(after, Now(i.id).args[a], val) = n

(* What verifyModule(), which translate() calls in the end, requires of     *)
(* this part of a module: a value is computed before it is used, operands   *)
(* have the types that their instruction demands, and a phi node has one    *)
(* value for each predecessor.                                              *)
ComputedBeforeUse ==
  \A b, c \in DOMAIN func : \A j \in DOMAIN func[b], k \in DOMAIN func[c] :
    LET def == func[b][j]
        use == func[c][k]
    IN \A a \in DOMAIN use.args :
         use.args[a].kind = "value" /\ use.args[a].id = def.id =>
           LET home == IF use.op = "phi" THEN use.from[a] ELSE c
           IN /\ def.id > LastId(prog) => b = home
              /\ b = home /\ use.op # "phi" => j < k
WellTyped ==
  \A i \in Instructions(func) :
    CASE i.op \in {"add", "mul"} -> i.args[1].type = i.type /\ i.args[2].type = i.type
      [] i.op = "ptrtoint" -> i.args[1].type = "ptr"
      [] i.op = "inttoptr" -> i.args[1].type \in {"i32", "i64"}
      [] i.op = "trunc" -> i.args[1].type = "i64"
      [] i.op = "gep" -> i.args[1].type = "ptr"
      [] OTHER -> TRUE
PhiEntriesAgree ==
  \A i \in Instructions(func) :
    i.op = "phi" => \A a, c \in DOMAIN i.args : i.from[a] = i.from[c] => i.args[a] = i.args[c]
Valid == ComputedBeforeUse /\ WellTyped /\ PhiEntriesAgree

(* The functions that can be expanded: all indices are words, as an index   *)
(* is multiplied with an i32 whatever its own type is, and no phi node has  *)
(* a constant expression twice for one predecessor, as each entry gets an   *)
(* instruction of its own.                                                  *)
RECURSIVE Subexpressions(_)
Subexpressions(o) ==
  IF o.kind # "expr" THEN {} ELSE {o} \cup UNION {Subexpressions(a) : a \in Range(o.args)}
Expandable(f) ==
  LET exprs == UNION {Subexpressions(a) : a \in UNION {Range(i.args) : i \in Instructions(f)}}
  IN /\ \A g \in {x \in exprs \cup Instructions(f) : x.op = "gep"} :
          \A k \in 2 .. Len(g.args) : g.args[k].type = "i32"
     /\ \A i \in {x \in Instructions(f) : x.op = "phi"} :
          \A a, c \in DOMAIN i.args :
            a # c /\ i.from[a] = i.from[c] => i.args[a].kind # "expr"

(* The rewritten function passes verifyModule() if and only if it is one of *)
(* those: for any other, translate() aborts in the end.                     *)
ModuleValid == phase = "done" => (Valid <=> Expandable(prog))

(* When all passes are done no constant expression is left but for the      *)
(* address of a library function, and no getelementptr or intrinsic,        *)
(* wherever the passes inserted them.                                       *)
FullyExpanded ==
  phase = "done" =>
    \A i \in Instructions(func) :
      /\ i.op \notin MemIntrinsics \cup {"gep"}
      /\ \A a \in DOMAIN i.args :
           i.args[a].kind = "expr" => i.op = "call" /\ i.args[a].op = "inttoptr" /\ a = 4
================================================================================
