-------------------------------- MODULE Branches --------------------------------
(***************************************************************************)
(* The code that codegen.cc emits for terminators, running on stack slots. *)
(* handle_phi_nodes() copies the phi nodes of a successor one part at a    *)
(* time through a scratch register, and it does so before the jump to that *)
(* successor is decided, so an edge that is not taken has been copied too. *)
(*                                                                         *)
(* A bitcast, trunc, ptrtoint or inttoptr emits nothing and has no slot:   *)
(* it is read from the slot of what it is an alias of, wherever control is *)
(* by then.                                                                *)
(*                                                                         *)
(* env is a history variable: what the values would be if every branch     *)
(* assigned its phi nodes at once and an alias were a value of its own. It *)
(* is never read by the code.                                              *)
(*                                                                         *)
(* A definition Name_Variant is a faulty form of the Name it precedes; no  *)
(* specification uses it, and substituting it for Name must break one of   *)
(* the properties at the end of the module.                                *)
(***************************************************************************)
EXTENDS ControlFlow

CONSTANTS
  Functions,    \* the functions that may be run
  StartWords    \* what uninitialised memory may hold

ASSUME FunctionsAssumption ==
  /\ StartWords \subseteq Words
  /\ \A f \in Functions : WellFormed(f)

VARIABLES
  fn,        \* the function that runs
  blk,       \* the basic block whose code runs
  pc,        \* where in that block's code: "body", "load", "copy", "ret", "done"
  edge,      \* the successor whose copies run or whose test comes next
  phi,       \* the index of the phi node to be copied next
  part,      \* which part of it is copied next
  regs,      \* %eax, %ecx and %edx
  slots,     \* the words of the stack slots
  env,       \* the words SSA form gives the values, aliases included
  result     \* the words returned, << >> until then

vars == <<fn, blk, pc, edge, phi, part, regs, slots, env, result>>

Registers == {"eax", "ecx", "edx"}

Init ==
  /\ fn \in Functions
  /\ blk = fn.entry
  /\ pc = "body"
  /\ edge = 1 /\ phi = 1 /\ part = 0
  /\ regs = [r \in Registers |-> 0]
  /\ env \in [Cells(fn) -> StartWords]
  /\ slots = [c \in SlotCells(fn) |-> env[c]]
  /\ result = Null

Terminator == fn.term[blk]
Dest == Succ(fn, blk)[edge]
LastEdge == edge = Len(Succ(fn, blk))

(* What move_part_to_reg() puts into a register for a part of operand o. *)
Loaded(o, p) == Part(slots, Origin(fn, o), p)

CopiesDone_SkipsLast == phi >= Len(fn.phis[Dest])
CopiesDone == phi > Len(fn.phis[Dest])

(* An i64 is moved in two parts. *)
MoreParts_LowOnly(v) == FALSE
MoreParts(v) == part = 0 /\ 4 \in Parts(fn.type[v])

(* testb $1, %al: the other bits of an i1 can contain garbage. *)
TestedBit_WholeByte(w) == w
TestedBit(w) == w % 2

(* Where the code of a terminator starts. *)
TerminatorStart_NoReturn(kind) == IF kind = "switch" THEN "load" ELSE "copy"
TerminatorStart(kind) ==
  IF kind = "ret" THEN "ret" ELSE IF kind = "switch" THEN "load" ELSE "copy"

(* A case of a switch must keep %eax, which holds the condition. *)
TmpReg_AlwaysEax == "eax"
TmpReg == IF Terminator.kind = "switch" /\ ~LastEdge THEN "edx" ELSE "eax"

(* The instructions before the terminator: each spills its own slot only,  *)
(* aliases nothing, and what they leave in the registers is not read by    *)
(* the terminator.                                                         *)
RunBody ==
  /\ pc = "body"
  /\ \E new \in Results(fn, blk, env) :
       slots' = Update(slots, new) /\ env' = Update(env, new)
  /\ pc' = TerminatorStart(Terminator.kind)
  /\ UNCHANGED <<fn, blk, edge, phi, part, regs, result>>

(* A switch loads its condition and zero-extends it, once. *)
LoadSwitchCondition ==
  /\ pc = "load"
  /\ regs' = [regs EXCEPT !["eax"] =
                LowBits(Terminator.type, Loaded(Terminator.operand, 0))]
  /\ pc' = "copy"
  /\ UNCHANGED <<fn, blk, edge, phi, part, slots, env, result>>

(* Move one part of the incoming operand to the scratch register and spill *)
(* it to the slot of the phi node.                                         *)
CopyPart ==
  /\ pc = "copy"
  /\ ~CopiesDone
  /\ LET v == fn.phis[Dest][phi]
         w == Loaded(fn.incoming[v][blk], part)
     IN /\ regs' = [regs EXCEPT ![TmpReg] = w]
        /\ slots' = [slots EXCEPT ![<<v, part>>] = w]
        /\ IF MoreParts(v)
           THEN part' = 4 /\ phi' = phi
           ELSE part' = 0 /\ phi' = phi + 1
  /\ UNCHANGED <<fn, blk, pc, edge, env, result>>

(* Control arrives at the label of the successor. *)
JumpTo(d) ==
  /\ blk' = d
  /\ env' = [c \in Cells(fn) |->
               IF c[1] \in PhiSet(fn, d)
               THEN Part(env, fn.incoming[c[1]][blk], c[2]) ELSE env[c]]
  /\ pc' = "body"
  /\ edge' = 1 /\ phi' = 1
  /\ UNCHANGED <<fn, part, slots, result>>

FallToNextEdge_SameEdge ==
  /\ phi' = 1
  /\ UNCHANGED <<fn, blk, pc, edge, part, slots, env, result>>

FallToNextEdge ==
  /\ edge' = edge + 1 /\ phi' = 1
  /\ UNCHANGED <<fn, blk, pc, part, slots, env, result>>

(* testb $1, %al; jnz *)
TestBranch ==
  /\ pc = "copy" /\ CopiesDone /\ ~LastEdge
  /\ Terminator.kind = "condbr"
  /\ LET w == Loaded(Terminator.operand, 0)
     IN /\ regs' = [regs EXCEPT !["eax"] = w]
        /\ IF TestedBit(w) # 0 THEN JumpTo(Dest) ELSE FallToNextEdge

(* cmp %eax, %ecx; je *)
TestCase ==
  /\ pc = "copy" /\ CopiesDone /\ ~LastEdge
  /\ Terminator.kind = "switch"
  /\ LET w == Terminator.cases[edge]
     IN /\ regs' = [regs EXCEPT !["ecx"] = w]
        /\ IF w = regs["eax"] THEN JumpTo(Dest) ELSE FallToNextEdge

UnconditionalJump ==
  /\ pc = "copy" /\ CopiesDone /\ LastEdge
  /\ JumpTo(Dest)
  /\ UNCHANGED regs

Return ==
  /\ pc = "ret"
  /\ LET t == Terminator
         lo == Loaded(t.operand, 0)
         hi == Loaded(t.operand, 4)
     IN IF t.type = "i64"
        THEN /\ regs' = [regs EXCEPT !["eax"] = lo, !["edx"] = hi]
             /\ result' = <<lo, hi>>
        ELSE /\ regs' = [regs EXCEPT !["eax"] = lo]
             /\ result' = <<lo>>
  /\ pc' = "done"
  /\ UNCHANGED <<fn, blk, edge, phi, part, slots, env>>

Next ==
  \/ RunBody
  \/ LoadSwitchCondition
  \/ CopyPart
  \/ TestBranch
  \/ TestCase
  \/ UnconditionalJump
  \/ Return

Spec == Init /\ [][Next]_vars

(* The processor does not stop in the middle of a block. *)
FairSpec == Spec /\ WF_vars(Next)
--------------------------------------------------------------------------------
(* Control and data stay in range: the code position, the edge and phi node*)
(* counters of translate_instruction() and handle_phi_nodes(), and the     *)
(* words of the frame.                                                     *)
TypeOK ==
  /\ fn \in Functions
  /\ blk \in Blocks(fn)
  /\ pc \in {"body", "load", "copy", "ret", "done"}
  /\ pc = "copy" => edge \in DOMAIN Succ(fn, blk)
  /\ phi \in Nat \ {0}
  /\ part \in {0, 4}
  /\ regs \in [Registers -> Words]
  /\ slots \in [SlotCells(fn) -> Words]
  /\ env \in [Cells(fn) -> Words]

(* When control is at the start of a block, every value that can still be  *)
(* read is read as the word SSA form gives it: the phi nodes were copied   *)
(* from the values before the branch, no copy made for another successor   *)
(* reached a value this one needs (handle_phi_nodes(), called for both     *)
(* successors of a conditional branch and for every case of a switch), and *)
(* none reached the slot an alias is read from.                            *)
LiveValuesKept ==
  pc = "body" =>
    \A c \in CellsOf(fn, fn.live[blk]) : Loaded(Ref(c[1]), c[2]) = env[c]

(* The code takes the branches and returns the words that the SSA form of  *)
(* the function prescribes.                                                *)
Abstract == INSTANCE SSA
              WITH at <- IF pc \in {"body", "done"} THEN pc ELSE "term"

ImplementsSSA == Abstract!Spec

(* The copies and tests of a terminator come to an end: control reaches a  *)
(* block label or the function returns.                                    *)
TerminatorsComplete == (pc # "body") ~> (pc \in {"body", "done"})
================================================================================
