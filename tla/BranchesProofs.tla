----------------------------- MODULE BranchesProofs -----------------------------
(***************************************************************************)
(* Proofs about Branches: its type invariant for all functions, and for    *)
(* the functions whose phi nodes do not interfere (PhiSafe) that live      *)
(* values are kept and that the emitted code implements SSA form.          *)
(***************************************************************************)
EXTENDS Branches, WellFoundedInduction, TLAPS

AllPhiSafe == \A f \in Functions : PhiSafe(f)

(* Where control is, the counters of the two loops are in step with it. *)
ControlOK ==
  /\ pc \in {"body", "load", "ret"} => edge = 1 /\ phi = 1 /\ part = 0
  /\ pc = "load" => Terminator.kind = "switch"
  /\ pc = "ret" => Terminator.kind = "ret"
  /\ pc = "copy" =>
       /\ Terminator.kind \in {"br", "condbr", "switch"}
       /\ phi <= Len(fn.phis[Dest]) + 1
       /\ part = 4 => ~CopiesDone /\ fn.type[fn.phis[Dest][phi]] = "i64"

TypeInv == TypeOK /\ ControlOK

(* The cells already copied for the current edge. *)
Copied ==
  {c \in SlotCells(fn) :
     \E k \in DOMAIN fn.phis[Dest] :
        /\ c[1] = fn.phis[Dest][k]
        /\ k < phi \/ (k = phi /\ c[2] < part)}

Agree(S) == \A c \in CellsOf(fn, S \cap Stored(fn)) : slots[c] = env[c]

(* Every alias among the values S has the words of what it stands for in s. *)
Follow(f, S, s) ==
  \A v \in S \cap Aliases(f) : \A p \in Parts(f.type[v]) :
     s[<<v, p>>] = Part(s, f.origin[v], p)

AliasesAgree ==
  IF pc = "body" THEN Follow(fn, fn.live[blk], env)
  ELSE Follow(fn, Available(fn, blk), env)

BlockAgrees ==
  /\ pc = "body" => Agree(fn.live[blk])
  /\ pc \in {"load", "ret"} => Agree(Available(fn, blk))

(* While an edge is being copied, what was neither copied for it nor        *)
(* overwritten for an earlier edge still has its word.                      *)
UncopiedAgree ==
  pc = "copy" =>
    \A c \in CellsOf(fn, (Available(fn, blk) \cap Stored(fn))
                           \ Clobbered(fn, blk, edge)) \ Copied :
       slots[c] = env[c]

CopiedFromBefore ==
  pc = "copy" =>
    \A c \in Copied : slots[c] = Part(env, fn.incoming[c[1]][blk], c[2])

Condition == LowBits(Terminator.type, Part(env, Terminator.operand, 0))

(* A switch keeps its condition in %eax until the last case is tested. *)
ConditionInEax ==
  pc = "copy" /\ Terminator.kind = "switch" /\ ~LastEdge => regs["eax"] = Condition

(* The edges passed over were not the ones to take. *)
EarlierEdgesNotTaken ==
  pc = "copy" =>
    /\ Terminator.kind = "switch" =>
         \A j \in 1 .. (edge - 1) : Terminator.cases[j] # Condition
    /\ Terminator.kind = "condbr" /\ edge = 2 =>
         LowBits("i1", Part(env, Terminator.operand, 0)) # 1

Kept ==
  /\ AliasesAgree
  /\ BlockAgrees
  /\ UncopiedAgree
  /\ CopiedFromBefore
  /\ ConditionInEax
  /\ EarlierEdgesNotTaken
--------------------------------------------------------------------------------
(* Every function that may run is well formed. *)
LEMMA FunctionsWellFormed == \A f \in Functions : WellFormed(f)
BY FunctionsAssumption

(* An operand of the right type is read from cells that exist, and gives a *)
(* word.                                                                   *)
LEMMA PartIsWord ==
  ASSUME NEW f \in Functions, NEW b \in Blocks(f), NEW o, NEW ty \in Types,
         WellFormedOperand(f, b, o, ty),
         NEW s \in [Cells(f) -> Words], NEW p \in Parts(ty)
  PROVE  /\ Part(s, o, p) \in Words
         /\ o.kind = "value" => <<o.value, p>> \in CellsOf(f, Available(f, b))
<1>1. p \in {0, 4}
  BY DEF Parts
<1>2. CASE o.kind = "value" /\ o.value \in Available(f, b) /\ f.type[o.value] = ty
  <2>1. <<o.value, p>> \in CellsOf(f, Available(f, b))
    BY <1>1, <1>2 DEF CellsOf
  <2>2. Available(f, b) \subseteq Values(f)
    BY FunctionsWellFormed DEF WellFormed, Available
  <2>3. <<o.value, p>> \in Cells(f)
    BY <2>1, <2>2 DEF Cells, CellsOf
  <2>. QED
    BY <1>2, <2>1, <2>3 DEF Part
<1>3. CASE o.kind = "constant" /\ o.word \in [{0, 4} -> Words]
  BY <1>1, <1>3 DEF Part
<1>. QED
  BY <1>2, <1>3 DEF WellFormedOperand

LEMMA AliasIsWellFormed ==
  ASSUME NEW f \in Functions, NEW v \in Aliases(f)
  PROVE  v \in Values(f) /\ WellFormedAlias(f, v)
BY FunctionsWellFormed DEF WellFormed

(* What an operand stands for has a slot or is a constant, can be read in   *)
(* the same block and has all the words of the operand.                     *)
LEMMA OriginWellFormed ==
  ASSUME NEW f \in Functions, NEW b \in Blocks(f), NEW o, NEW ty \in Types,
         WellFormedOperand(f, b, o, ty), NEW r, r = Origin(f, o)
  PROVE  \/ /\ r.kind = "value"
            /\ r.value \in Available(f, b) \cap Stored(f)
            /\ Parts(ty) \subseteq Parts(f.type[r.value])
         \/ /\ r.kind = "constant"
            /\ r.word \in [{0, 4} -> Words]
<1>1. Available(f, b) \subseteq Values(f)
  BY FunctionsWellFormed DEF WellFormed, Available
<1>2. CASE o.kind = "value" /\ o.value \in Aliases(f)
  <2>. DEFINE v == o.value
  <2>1. r = f.origin[v] /\ v \in Available(f, b) /\ f.type[v] = ty
    BY <1>2 DEF Origin, WellFormedOperand
  <2>2. /\ Covers(f, v, r)
        /\ r.kind = "value" => r.value \in Stored(f)
    BY <1>2, <2>1, AliasIsWellFormed DEF WellFormedAlias
  <2>3. AliasesDominated(f, b)
    BY FunctionsWellFormed DEF WellFormed
  <2>4. r.kind = "value" => r.value \in Available(f, b)
    BY <1>2, <2>1, <2>3 DEF AliasesDominated, Available
  <2>. QED
    BY <2>1, <2>2, <2>4 DEF Covers
<1>3. CASE ~(o.kind = "value" /\ o.value \in Aliases(f))
  <2>1. r = o
    BY <1>3 DEF Origin
  <2>. QED
    BY <1>1, <1>3, <2>1 DEF WellFormedOperand, Stored
<1>. QED
  BY <1>2, <1>3

(* An operand is read from a slot that exists, and gives a word. *)
LEMMA LoadedIsWord ==
  ASSUME NEW f \in Functions, NEW b \in Blocks(f), NEW o, NEW ty \in Types,
         WellFormedOperand(f, b, o, ty), NEW r, r = Origin(f, o),
         NEW s \in [SlotCells(f) -> Words], NEW p \in Parts(ty)
  PROVE  /\ Part(s, r, p) \in Words
         /\ r.kind = "value" =>
              /\ <<r.value, p>> \in CellsOf(f, Available(f, b) \cap Stored(f))
              /\ <<r.value, p>> \in SlotCells(f)
<1>1. p \in {0, 4}
  BY DEF Parts
<1>2. CASE /\ r.kind = "value"
           /\ r.value \in Available(f, b) \cap Stored(f)
           /\ Parts(ty) \subseteq Parts(f.type[r.value])
  <2>1. /\ <<r.value, p>> \in CellsOf(f, Available(f, b) \cap Stored(f))
        /\ <<r.value, p>> \in SlotCells(f)
    BY <1>1, <1>2 DEF CellsOf, SlotCells
  <2>. QED
    BY <1>2, <2>1 DEF Part
<1>3. CASE r.kind = "constant" /\ r.word \in [{0, 4} -> Words]
  BY <1>1, <1>3 DEF Part
<1>. QED
  BY <1>2, <1>3, OriginWellFormed

(* The low bits of a word are a word. *)
LEMMA LowBitsIsWord ==
  ASSUME NEW ty \in {"i1", "i8", "i32"}, NEW w \in Words
  PROVE  LowBits(ty, w) \in Words
BY WordsAssumption DEF LowBits

(* Successors are blocks, and their phi nodes have operands of their type. *)
LEMMA SuccessorWellFormed ==
  ASSUME NEW f \in Functions, NEW b \in Blocks(f), NEW e \in DOMAIN Succ(f, b)
  PROVE  /\ Succ(f, b)[e] \in Blocks(f)
         /\ WellFormedEdge(f, b, Succ(f, b)[e])
<1>1. WellFormedTerminator(f, b)
  BY FunctionsWellFormed DEF WellFormed
<1>2. Succ(f, b) \in Seq(Blocks(f))
  BY <1>1 DEF WellFormedTerminator, Succ
<1>. QED
  BY <1>2, FunctionsWellFormed DEF WellFormed

(* The phi nodes of a block are values of the function, each listed once.  *)
LEMMA PhisWellFormed ==
  ASSUME NEW f \in Functions, NEW d \in Blocks(f)
  PROVE  /\ f.phis[d] \in Seq(Stored(f))
         /\ PhiSet(f, d) = {f.phis[d][i] : i \in DOMAIN f.phis[d]}
         /\ PhiSet(f, d) \subseteq Stored(f)
         /\ PhiSet(f, d) \subseteq Values(f)
         /\ \A v \in Values(f) : f.type[v] \in Types
         /\ \A i, j \in DOMAIN f.phis[d] : f.phis[d][i] = f.phis[d][j] => i = j
<1>1. /\ f.phis[d] \in Seq(Stored(f))
      /\ \A v \in Values(f) : f.type[v] \in Types
      /\ \A i, j \in DOMAIN f.phis[d] : f.phis[d][i] = f.phis[d][j] => i = j
  BY FunctionsWellFormed DEF WellFormed
<1>2. PhiSet(f, d) = {f.phis[d][i] : i \in DOMAIN f.phis[d]}
  BY DEF PhiSet, Range
<1>. QED
  BY <1>1, <1>2 DEF Stored

(* Two sequences of steps end on a jump to a successor: its facts.         *)
LEMMA CopyInRange ==
  ASSUME TypeInv, pc = "copy"
  PROVE  /\ fn \in Functions /\ blk \in Blocks(fn)
         /\ edge \in DOMAIN Succ(fn, blk)
         /\ Dest \in Blocks(fn)
         /\ WellFormedEdge(fn, blk, Dest)
         /\ WellFormedTerminator(fn, blk)
         /\ ~CopiesDone => phi \in DOMAIN fn.phis[Dest]
<1>1. fn \in Functions /\ blk \in Blocks(fn) /\ edge \in DOMAIN Succ(fn, blk)
  BY DEF TypeInv, TypeOK
<1>2. Dest \in Blocks(fn) /\ WellFormedEdge(fn, blk, Dest)
  BY <1>1, SuccessorWellFormed DEF Dest
<1>3. ~CopiesDone => phi \in DOMAIN fn.phis[Dest]
  BY <1>1, <1>2, PhisWellFormed DEF CopiesDone, TypeInv, TypeOK
<1>4. WellFormedTerminator(fn, blk)
  BY <1>1, FunctionsWellFormed DEF WellFormed
<1>. QED
  BY <1>1, <1>2, <1>3, <1>4

(* The part that CopyPart moves: it belongs to the phi node's type, and the *)
(* operand it is read from is well formed.                                  *)
LEMMA CopyPartOperands ==
  ASSUME TypeInv, pc = "copy", ~CopiesDone,
         NEW v, v = fn.phis[Dest][phi]
  PROVE  /\ v \in Values(fn) /\ v \in PhiSet(fn, Dest)
         /\ part \in Parts(fn.type[v])
         /\ <<v, part>> \in SlotCells(fn)
         /\ WellFormedOperand(fn, blk, fn.incoming[v][blk], fn.type[v])
         /\ fn.type[v] \in Types
<1>1. /\ fn \in Functions /\ Dest \in Blocks(fn) /\ WellFormedEdge(fn, blk, Dest)
      /\ phi \in DOMAIN fn.phis[Dest]
  BY CopyInRange
<1>2. v \in PhiSet(fn, Dest) /\ v \in Stored(fn) /\ fn.type[v] \in Types
  BY <1>1, PhisWellFormed DEF Stored
<1>3. part \in Parts(fn.type[v])
  BY DEF TypeInv, TypeOK, ControlOK, Parts
<1>4. part \in {0, 4}
  BY DEF TypeInv, TypeOK
<1>5. <<v, part>> \in SlotCells(fn)
  BY <1>2, <1>3, <1>4 DEF SlotCells, CellsOf
<1>6. WellFormedOperand(fn, blk, fn.incoming[v][blk], fn.type[v])
  BY <1>1, <1>2 DEF WellFormedEdge
<1>. QED
  BY <1>2, <1>3, <1>5, <1>6 DEF Stored

LEMMA TypeInvInit == Init => TypeInv
<1>. SUFFICES ASSUME Init PROVE TypeInv
  OBVIOUS
<1>1. fn \in Functions /\ blk \in Blocks(fn)
  BY FunctionsWellFormed DEF Init, WellFormed
<1>2. slots \in [SlotCells(fn) -> Words] /\ env \in [Cells(fn) -> Words]
  BY FunctionsAssumption DEF Init, Cells, SlotCells, CellsOf, Stored
<1>3. regs \in [Registers -> Words]
  BY WordsAssumption DEF Init
<1>. QED
  BY <1>1, <1>2, <1>3 DEF Init, TypeInv, TypeOK, ControlOK

(* Assigning the phi nodes of a successor at once gives words.             *)
LEMMA ArrivalIsWords ==
  ASSUME NEW f \in Functions, NEW b \in Blocks(f), NEW d \in Blocks(f),
         WellFormedEdge(f, b, d), NEW s \in [Cells(f) -> Words]
  PROVE  [c \in Cells(f) |->
            IF c[1] \in PhiSet(f, d)
            THEN Part(s, f.incoming[c[1]][b], c[2]) ELSE s[c]] \in [Cells(f) -> Words]
<1>. SUFFICES ASSUME NEW c \in Cells(f), c[1] \in PhiSet(f, d)
              PROVE  Part(s, f.incoming[c[1]][b], c[2]) \in Words
  OBVIOUS
<1>1. c[1] \in Values(f) /\ c[2] \in Parts(f.type[c[1]])
  BY DEF Cells, CellsOf
<1>2. WellFormedOperand(f, b, f.incoming[c[1]][b], f.type[c[1]])
  BY DEF WellFormedEdge
<1>3. f.type[c[1]] \in Types
  BY <1>1, PhisWellFormed
<1>. QED
  BY <1>1, <1>2, <1>3, PartIsWord

(* Control arriving at a successor is back at the start of a block.        *)
LEMMA JumpKeepsType ==
  ASSUME TypeInv, pc = "copy", CopiesDone, JumpTo(Dest), regs' \in [Registers -> Words]
  PROVE  TypeInv'
<1>1. /\ fn \in Functions /\ blk \in Blocks(fn) /\ Dest \in Blocks(fn)
      /\ WellFormedEdge(fn, blk, Dest)
  BY CopyInRange
<1>2. fn' = fn /\ slots' = slots
  BY DEF JumpTo
<1>3. env \in [Cells(fn) -> Words] /\ slots \in [SlotCells(fn) -> Words]
  BY DEF TypeInv, TypeOK
<1>4. env' \in [Cells(fn)' -> Words]
  BY <1>1, <1>2, <1>3, ArrivalIsWords DEF JumpTo, Cells, SlotCells, CellsOf, Stored, Aliases, Values
<1>5. slots' \in [SlotCells(fn)' -> Words]
  BY <1>2, <1>3 DEF Cells, SlotCells, CellsOf, Stored, Aliases, Values
<1>6. part' = 0
  BY DEF TypeInv, TypeOK, ControlOK, JumpTo
<1>. QED
  BY <1>1, <1>2, <1>4, <1>5, <1>6 DEF JumpTo, TypeInv, TypeOK, ControlOK, Blocks
(* Falling through to the next test stays within the terminator.           *)
LEMMA FallKeepsType ==
  ASSUME TypeInv, pc = "copy", CopiesDone, ~LastEdge, FallToNextEdge,
         regs' \in [Registers -> Words]
  PROVE  TypeInv'
<1>1. /\ fn \in Functions /\ blk \in Blocks(fn) /\ edge \in DOMAIN Succ(fn, blk)
      /\ WellFormedTerminator(fn, blk)
      /\ slots \in [SlotCells(fn) -> Words] /\ env \in [Cells(fn) -> Words]
  BY CopyInRange DEF TypeInv, TypeOK
<1>2. Succ(fn, blk) \in Seq(Blocks(fn))
  BY <1>1 DEF WellFormedTerminator, Succ
<1>3. edge + 1 \in DOMAIN Succ(fn, blk)
  BY <1>1, <1>2 DEF LastEdge
<1>4. Len(fn.phis[Succ(fn, blk)[edge + 1]]) \in Nat
  BY <1>1, <1>3, SuccessorWellFormed, PhisWellFormed
<1>5. /\ edge' = edge + 1 /\ phi' = 1 /\ part' = 0 /\ pc' = "copy"
      /\ UNCHANGED <<fn, blk, slots, env>>
  BY DEF FallToNextEdge, TypeInv, TypeOK, ControlOK
<1>6. TypeOK'
  BY <1>1, <1>3, <1>5 DEF TypeOK, Succ, Blocks, Cells, SlotCells, CellsOf, Stored, Aliases, Values
<1>7. Dest' = Succ(fn, blk)[edge + 1]
  BY <1>5 DEF Dest, Succ
<1>8. ControlOK'
  BY <1>4, <1>5, <1>7 DEF TypeInv, ControlOK, Terminator
<1>. QED
  BY <1>6, <1>8 DEF TypeInv

LEMMA TypeInvStep == TypeInv /\ [Next]_vars => TypeInv'
<1>. SUFFICES ASSUME TypeInv, [Next]_vars PROVE TypeInv'
  OBVIOUS
<1>0. /\ fn \in Functions /\ blk \in Blocks(fn)
      /\ slots \in [SlotCells(fn) -> Words] /\ env \in [Cells(fn) -> Words]
      /\ regs \in [Registers -> Words]
      /\ WellFormedTerminator(fn, blk)
  BY FunctionsWellFormed DEF TypeInv, TypeOK, WellFormed
<1>1. CASE RunBody
  <2>1. PICK new \in Results(fn, blk, env) :
          slots' = Update(slots, new) /\ env' = Update(env, new)
    BY <1>1 DEF RunBody
  <2>2. slots' \in [SlotCells(fn) -> Words] /\ env' \in [Cells(fn) -> Words]
    BY <1>0, <2>1 DEF Results, Update
  <2>3. /\ pc' = TerminatorStart(Terminator.kind)
        /\ UNCHANGED <<fn, blk, edge, phi, part, regs, result>>
        /\ edge = 1 /\ phi = 1 /\ part = 0
    BY <1>1 DEF RunBody, TypeInv, ControlOK
  <2>4. /\ Terminator.kind \in {"ret", "br", "condbr", "switch"}
        /\ Terminator.kind # "ret" => 1 \in DOMAIN Succ(fn, blk)
    BY <1>0 DEF WellFormedTerminator, Succ, Terminator
  <2>5. Terminator.kind # "ret" => Len(fn.phis[Dest]) \in Nat
    BY <1>0, <2>3, <2>4, SuccessorWellFormed, PhisWellFormed DEF Dest
  <2>6. TypeOK'
    BY <1>0, <2>2, <2>3, <2>4
       DEF TypeInv, TypeOK, TerminatorStart, Blocks, Succ, Cells, SlotCells, CellsOf, Stored, Aliases, Values
  <2>7. Dest' = Dest /\ Terminator' = Terminator /\ fn' = fn
    BY <2>3 DEF Dest, Terminator, Succ
  <2>8. ControlOK'
    BY <2>3, <2>4, <2>5, <2>7 DEF ControlOK, TerminatorStart
  <2>. QED
    BY <2>6, <2>8 DEF TypeInv
<1>2. CASE LoadSwitchCondition
  <2>1. /\ Terminator.kind = "switch" /\ edge = 1 /\ phi = 1 /\ part = 0
    BY <1>2 DEF LoadSwitchCondition, TypeInv, ControlOK
  <2>2. /\ Terminator.type \in {"i8", "i32"}
        /\ WellFormedOperand(fn, blk, Terminator.operand, Terminator.type)
        /\ 1 \in DOMAIN Succ(fn, blk)
    BY <1>0, <2>1 DEF WellFormedTerminator, Terminator, Succ
  <2>3. Loaded(Terminator.operand, 0) \in Words
    BY <1>0, <2>2, LoadedIsWord DEF Loaded, Types, Parts
  <2>4. regs' \in [Registers -> Words]
    BY <1>0, <1>2, <2>2, <2>3, LowBitsIsWord DEF LoadSwitchCondition
  <2>5. Len(fn.phis[Dest]) \in Nat
    BY <1>0, <2>1, <2>2, SuccessorWellFormed, PhisWellFormed DEF Dest
  <2>. QED
    BY <1>0, <1>2, <2>1, <2>2, <2>4, <2>5
       DEF LoadSwitchCondition, TypeInv, TypeOK, ControlOK, Terminator, Dest, Succ,
           Blocks, Cells, SlotCells, CellsOf, Stored, Aliases, Values
<1>3. CASE CopyPart
  <2>. DEFINE v == fn.phis[Dest][phi]
              w == Loaded(fn.incoming[v][blk], part)
  <2>1. /\ v \in Values(fn) /\ <<v, part>> \in SlotCells(fn) /\ w \in Words
        /\ phi \in DOMAIN fn.phis[Dest]
    BY <1>0, <1>3, CopyPartOperands, CopyInRange, LoadedIsWord DEF CopyPart, Loaded
  <2>2. Len(fn.phis[Dest]) \in Nat /\ phi <= Len(fn.phis[Dest])
    BY <1>3, <2>1, CopyInRange, PhisWellFormed DEF CopyPart
  <2>3. regs' \in [Registers -> Words] /\ slots' \in [SlotCells(fn) -> Words]
    BY <1>0, <1>3, <2>1 DEF CopyPart
  <2>4. /\ pc = "copy" /\ UNCHANGED <<fn, blk, pc, edge, env>>
        /\ \/ part' = 4 /\ phi' = phi /\ fn.type[v] = "i64"
           \/ part' = 0 /\ phi' = phi + 1
    BY <1>3 DEF CopyPart, MoreParts, Parts
  <2>5. TypeOK'
    BY <1>0, <2>3, <2>4 DEF TypeInv, TypeOK, Succ, Blocks, Cells, SlotCells, CellsOf, Stored, Aliases, Values
  <2>6. Dest' = Dest /\ Terminator' = Terminator /\ fn' = fn
    BY <2>4 DEF Dest, Terminator, Succ
  <2>7. ControlOK'
    BY <2>1, <2>2, <2>4, <2>6 DEF TypeInv, TypeOK, ControlOK, CopiesDone
  <2>. QED
    BY <2>5, <2>7 DEF TypeInv
<1>4. CASE TestBranch
  <2>1. Terminator.kind = "condbr" /\ pc = "copy" /\ CopiesDone
    BY <1>4 DEF TestBranch
  <2>2. WellFormedOperand(fn, blk, Terminator.operand, "i1")
    BY <1>0, <2>1 DEF WellFormedTerminator, Terminator
  <2>3. Loaded(Terminator.operand, 0) \in Words
    BY <1>0, <2>2, LoadedIsWord DEF Loaded, Types, Parts
  <2>4. regs' \in [Registers -> Words]
    BY <1>0, <1>4, <2>3 DEF TestBranch
  <2>5. CASE JumpTo(Dest)
    BY <2>1, <2>4, <2>5, JumpKeepsType
  <2>6. CASE FallToNextEdge /\ ~LastEdge
    BY <2>1, <2>4, <2>6, FallKeepsType
  <2>. QED
    BY <1>4, <2>5, <2>6 DEF TestBranch
<1>5. CASE TestCase
  <2>1. Terminator.kind = "switch" /\ pc = "copy" /\ CopiesDone /\ ~LastEdge
    BY <1>5 DEF TestCase
  <2>2. Terminator.cases[edge] \in Words
    BY <1>0, <2>1, CopyInRange DEF WellFormedTerminator, Terminator, Succ, LastEdge
  <2>4. regs' \in [Registers -> Words]
    BY <1>0, <1>5, <2>2 DEF TestCase
  <2>5. CASE JumpTo(Dest)
    BY <2>1, <2>4, <2>5, JumpKeepsType
  <2>6. CASE FallToNextEdge /\ ~LastEdge
    BY <2>1, <2>4, <2>6, FallKeepsType
  <2>. QED
    BY <1>5, <2>5, <2>6 DEF TestCase
<1>6. CASE UnconditionalJump
  BY <1>0, <1>6, JumpKeepsType DEF UnconditionalJump
<1>7. CASE Return
  <2>1. Terminator.kind = "ret"
    BY <1>7 DEF Return, TypeInv, ControlOK
  <2>2. PICK ty \in Types : WellFormedOperand(fn, blk, Terminator.operand, ty)
                            /\ Terminator.type = ty
    BY <1>0, <2>1 DEF WellFormedTerminator, Terminator
  <2>3. Loaded(Terminator.operand, 0) \in Words
    BY <1>0, <2>2, LoadedIsWord DEF Loaded, Parts
  <2>4. Terminator.type = "i64" => Loaded(Terminator.operand, 4) \in Words
    BY <1>0, <2>2, LoadedIsWord DEF Loaded, Parts
  <2>5. regs' \in [Registers -> Words]
    BY <1>0, <1>7, <2>3, <2>4 DEF Return
  <2>. QED
    BY <1>0, <1>7, <2>5
       DEF Return, TypeInv, TypeOK, ControlOK, Blocks, Cells, SlotCells, CellsOf, Stored, Aliases, Values
<1>8. CASE UNCHANGED vars
  BY <1>8
     DEF vars, TypeInv, TypeOK, ControlOK, CopiesDone, Terminator, Dest, Succ, Blocks, Cells, SlotCells, CellsOf, Stored, Aliases, Values
<1>. QED
  BY <1>1, <1>2, <1>3, <1>4, <1>5, <1>6, <1>7, <1>8 DEF Next
(* The emitted code keeps its registers, slots and position in range, for  *)
(* all functions, words and initial memory.                                *)
THEOREM TypeCorrect == Spec => []TypeOK
<1>1. TypeInv => TypeOK
  BY DEF TypeInv
<1>. QED
  BY TypeInvInit, TypeInvStep, <1>1, PTL DEF Spec
--------------------------------------------------------------------------------
(* A set of numbers has a least element. *)
LEMMA LeastNumber ==
  ASSUME NEW T \in SUBSET Nat, T # {}
  PROVE  \E x \in T : \A y \in T : ~ (y < x)
<1>1. PICK x \in T : \A y \in T : ~ (<<y, x>> \in OpToRel(<, Nat))
  BY NatLessThanWellFounded, WFMin
<1>2. \A y \in T : <<y, x>> \in Nat \X Nat /\ (y < x => <<y, x>> \in OpToRel(<, Nat))
  BY DEF OpToRel
<1>. QED
  BY <1>1, <1>2

(* Once the instructions of a block have run, the aliases that can be read *)
(* have the words of what they stand for: those of the block because they  *)
(* have their operand's, and it its own operand's, to the end of the chain;*)
(* the others because what they stand for was not computed anew.           *)
LEMMA ResultsFollow ==
  ASSUME NEW f \in Functions, NEW b \in Blocks(f), NEW s \in [Cells(f) -> Words],
         NEW new \in Results(f, b, s), Follow(f, f.live[b], s)
  PROVE  Follow(f, Available(f, b), Update(s, new))
<1>. DEFINE t == Update(s, new)
            A == Available(f, b) \cap Aliases(f)
            Follows(v) == \A p \in Parts(f.type[v]) : t[<<v, p>>] = Part(t, f.origin[v], p)
            Failing == {v \in A : ~Follows(v)}
            D == {f.depth[v] : v \in Failing}
<1>0. /\ f.defs[b] \subseteq Values(f) /\ f.live[b] \subseteq Values(f)
      /\ AliasesDominated(f, b)
      /\ \A v \in Aliases(f) : v \in Values(f) /\ WellFormedAlias(f, v)
  BY FunctionsWellFormed DEF WellFormed
<1>1. /\ new \in [CellsOf(f, f.defs[b]) -> Words]
      /\ \A c \in CellsOf(f, f.defs[b] \cap Aliases(f)) :
            new[c] = Part(t, f.alias[c[1]], c[2])
  BY DEF Results
<1>2. \A v, p : <<v, p>> \in Cells(f) =>
        t[<<v, p>>] = IF v \in f.defs[b] THEN new[<<v, p>>] ELSE s[<<v, p>>]
  BY <1>1 DEF Update, Cells, CellsOf
<1>3. ASSUME NEW v \in A, v \notin f.defs[b] PROVE Follows(v)
  <2>. SUFFICES ASSUME NEW p \in Parts(f.type[v])
                PROVE  t[<<v, p>>] = Part(t, f.origin[v], p)
    OBVIOUS
  <2>1. v \in f.live[b] \cap Aliases(f) /\ p \in {0, 4}
    BY <1>3 DEF Available, Parts
  <2>2. s[<<v, p>>] = Part(s, f.origin[v], p)
    BY <2>1 DEF Follow
  <2>3. t[<<v, p>>] = s[<<v, p>>]
    BY <1>0, <1>2, <1>3, <2>1 DEF Cells, CellsOf
  <2>4. Part(t, f.origin[v], p) = Part(s, f.origin[v], p)
    <3>1. CASE f.origin[v].kind = "value"
      <4>1. f.origin[v].value \in Values(f) \ f.defs[b]
        BY <1>0, <2>1, <3>1 DEF AliasesDominated
      <4>2. p \in Parts(f.type[f.origin[v].value])
        BY <1>0, <2>1, <3>1 DEF WellFormedAlias, Covers
      <4>. QED
        BY <1>2, <2>1, <3>1, <4>1, <4>2 DEF Part, Cells, CellsOf
    <3>2. CASE f.origin[v].kind # "value"
      BY <3>2 DEF Part
    <3>. QED
      BY <3>1, <3>2
  <2>. QED
    BY <2>2, <2>3, <2>4
<1>4. ASSUME NEW v \in A, v \in f.defs[b],
             \A u \in A : f.depth[u] < f.depth[v] => Follows(u)
      PROVE  Follows(v)
  <2>. DEFINE o == f.alias[v]
  <2>. SUFFICES ASSUME NEW p \in Parts(f.type[v])
                PROVE  t[<<v, p>>] = Part(t, f.origin[v], p)
    OBVIOUS
  <2>1. <<v, p>> \in CellsOf(f, f.defs[b] \cap Aliases(f)) /\ <<v, p>> \in Cells(f)
    BY <1>0, <1>4 DEF Cells, CellsOf, Parts
  <2>2. t[<<v, p>>] = Part(t, o, p)
    BY <1>1, <1>2, <1>4, <2>1
  <2>3. WellFormedAlias(f, v)
    BY <1>0
  <2>4. CASE o.kind = "value" /\ o.value \in Aliases(f)
    <3>1. o.value \in A
      BY <1>0, <1>4, <2>4 DEF AliasesDominated
    <3>2. f.depth[o.value] < f.depth[v] /\ p \in Parts(f.type[o.value])
          /\ f.origin[v] = f.origin[o.value]
      BY <2>3, <2>4 DEF WellFormedAlias, Covers, Origin
    <3>. QED
      BY <1>4, <2>2, <2>4, <3>1, <3>2 DEF Part
  <2>5. CASE ~(o.kind = "value" /\ o.value \in Aliases(f))
    BY <2>2, <2>3, <2>5 DEF WellFormedAlias, Origin
  <2>. QED
    BY <2>4, <2>5
<1>5. Failing = {}
  <2>. SUFFICES ASSUME Failing # {} PROVE FALSE
    OBVIOUS
  <2>1. D \in SUBSET Nat /\ D # {}
    BY <1>0 DEF WellFormedAlias
  <2>2. PICK n \in D : \A m \in D : ~ (m < n)
    BY <2>1, LeastNumber
  <2>3. PICK v \in Failing : f.depth[v] = n
    OBVIOUS
  <2>4. \A u \in A : f.depth[u] < f.depth[v] => Follows(u)
    BY <2>2, <2>3
  <2>. QED
    BY <1>3, <1>4, <2>3, <2>4
<1>. QED
  BY <1>5 DEF Follow

(* Words that agree before a branch agree after it: what the code loads for *)
(* an operand is what SSA form reads, if the slot it is loaded from has     *)
(* kept its word.                                                           *)
LEMMA AgreeingPart ==
  ASSUME TypeInv, AliasesAgree, pc # "body",
         NEW o, NEW ty \in Types, NEW p \in Parts(ty),
         WellFormedOperand(fn, blk, o, ty), NEW r, r = Origin(fn, o),
         r.kind = "value" => slots[<<r.value, p>>] = env[<<r.value, p>>]
  PROVE  Loaded(o, p) = Part(env, o, p)
<1>1. Loaded(o, p) = Part(env, r, p)
  BY DEF Loaded, Part
<1>2. CASE o.kind = "value" /\ o.value \in Aliases(fn)
  <2>1. /\ o.value \in Available(fn, blk) \cap Aliases(fn)
        /\ p \in Parts(fn.type[o.value]) /\ r = fn.origin[o.value]
    BY <1>2 DEF WellFormedOperand, Origin
  <2>2. env[<<o.value, p>>] = Part(env, r, p)
    BY <2>1 DEF AliasesAgree, Follow
  <2>. QED
    BY <1>1, <1>2, <2>2 DEF Part
<1>3. CASE ~(o.kind = "value" /\ o.value \in Aliases(fn))
  BY <1>1, <1>3 DEF Origin
<1>. QED
  BY <1>2, <1>3

(* No phi node of an earlier edge is read or left live by this one.        *)
LEMMA EdgeNotClobbered ==
  ASSUME AllPhiSafe, TypeInv, pc = "copy", NEW v \in Clobbered(fn, blk, edge)
  PROVE  /\ \A u \in PhiSet(fn, Dest) : ~ ReadsSlot(fn, fn.incoming[u][blk], v)
         /\ \A u \in fn.live[Dest] \ PhiSet(fn, Dest) : ~ ReadsSlot(fn, Ref(u), v)
<1>1. fn \in Functions /\ blk \in Blocks(fn) /\ edge \in DOMAIN Succ(fn, blk)
  BY CopyInRange
<1>2. NoLostCopy(fn, blk, edge)
  BY <1>1 DEF AllPhiSafe, PhiSafe
<1>. QED
  BY <1>2 DEF NoLostCopy, Dest

(* The operand of the next copy has not been copied over or clobbered.     *)
LEMMA CopyReadsBefore ==
  ASSUME AllPhiSafe, TypeInv, AliasesAgree, UncopiedAgree, pc = "copy", ~CopiesDone,
         NEW v, v = fn.phis[Dest][phi]
  PROVE  Loaded(fn.incoming[v][blk], part) = Part(env, fn.incoming[v][blk], part)
<1>. DEFINE o == fn.incoming[v][blk]
            r == Origin(fn, o)
<1>1. /\ fn \in Functions /\ blk \in Blocks(fn) /\ Dest \in Blocks(fn)
      /\ edge \in DOMAIN Succ(fn, blk) /\ phi \in DOMAIN fn.phis[Dest]
      /\ v \in PhiSet(fn, Dest) /\ fn.type[v] \in Types
      /\ part \in Parts(fn.type[v]) /\ part \in {0, 4}
      /\ WellFormedOperand(fn, blk, o, fn.type[v])
  BY CopyInRange, CopyPartOperands DEF TypeInv, TypeOK
<1>2. SUFFICES ASSUME r.kind = "value"
               PROVE  slots[<<r.value, part>>] = env[<<r.value, part>>]
  BY <1>1, AgreeingPart
<1>. DEFINE c == <<r.value, part>>
<1>3. /\ c \in CellsOf(fn, Available(fn, blk) \cap Stored(fn)) /\ c \in SlotCells(fn)
  BY <1>1, <1>2, LoadedIsWord DEF TypeInv, TypeOK
<1>4. r.value \notin Clobbered(fn, blk, edge)
  BY <1>1, <1>2, EdgeNotClobbered DEF ReadsSlot, Refers
<1>5. c \notin Copied
  <2>1. NoSwap(fn, blk, Dest)
    BY <1>1 DEF AllPhiSafe, PhiSafe, Dest
  <2>2. \A k \in DOMAIN fn.phis[Dest] : k < phi => r.value # fn.phis[Dest][k]
    BY <1>1, <1>2, <2>1 DEF NoSwap, ReadsSlot, Refers
  <2>3. ~(part < part)
    BY <1>1
  <2>4. c[1] = r.value /\ c[2] = part
    OBVIOUS
  <2>. QED
    BY <2>2, <2>3, <2>4 DEF Copied
<1>. QED
  BY <1>3, <1>4, <1>5 DEF UncopiedAgree, CellsOf

LEMMA KeptInit == Init => Kept
<1>. SUFFICES ASSUME Init PROVE Kept
  OBVIOUS
<1>1. pc = "body" /\ fn.live[blk] = {}
  BY FunctionsWellFormed DEF Init, WellFormed
<1>. QED
  BY <1>1 DEF Kept, AliasesAgree, Follow, BlockAgrees, Agree, CellsOf, UncopiedAgree,
              CopiedFromBefore, ConditionInEax, EarlierEdgesNotTaken

(* At the first copy of the first edge nothing is copied yet, so agreement  *)
(* on all available cells is all that is asked.                             *)
CopyStarts ==
  /\ pc = "copy" /\ edge = 1 /\ phi = 1 /\ part = 0
  /\ AliasesAgree /\ Agree(Available(fn, blk))
  /\ Terminator.kind = "switch" => regs["eax"] = Condition

LEMMA CopyStart == TypeInv /\ CopyStarts => Kept
<1>. SUFFICES ASSUME TypeInv, CopyStarts PROVE Kept
  OBVIOUS
<1>1. DOMAIN fn.phis[Dest] \subseteq Nat \ {0}
  BY CopyInRange, PhisWellFormed DEF CopyStarts
<1>2. Copied = {}
  BY <1>1 DEF Copied, SlotCells, CellsOf, CopyStarts
<1>. QED
  BY <1>2 DEF CopyStarts, Kept, BlockAgrees, Agree, CellsOf, UncopiedAgree,
              CopiedFromBefore, ConditionInEax, EarlierEdgesNotTaken

(* Once all copies of an edge are made, its phi nodes' cells are exactly    *)
(* those copied.                                                            *)
LEMMA CopiesDoneMeansCopied ==
  ASSUME TypeInv, pc = "copy", CopiesDone
  PROVE  \A c \in SlotCells(fn) : c \in Copied <=> c[1] \in PhiSet(fn, Dest)
<1>1. fn \in Functions /\ Dest \in Blocks(fn)
  BY CopyInRange
<1>2. /\ fn.phis[Dest] \in Seq(Stored(fn)) /\ phi \in Nat
      /\ PhiSet(fn, Dest) = {fn.phis[Dest][i] : i \in DOMAIN fn.phis[Dest]}
  BY <1>1, PhisWellFormed DEF TypeInv, TypeOK
<1>3. \A k \in DOMAIN fn.phis[Dest] : k < phi
  BY <1>2 DEF CopiesDone
<1>. QED
  BY <1>2, <1>3 DEF Copied

(* On arrival at a successor its live values agree: its phi nodes by their  *)
(* copies, the others because no copy reached them.                         *)
LEMMA JumpKeeps ==
  ASSUME AllPhiSafe, TypeInv, Kept, pc = "copy", CopiesDone, JumpTo(Dest)
  PROVE  Kept'
<1>1. /\ fn \in Functions /\ blk \in Blocks(fn) /\ Dest \in Blocks(fn)
      /\ WellFormedEdge(fn, blk, Dest)
  BY CopyInRange
<1>2. fn.live[Dest] \subseteq Values(fn) /\ AliasesDominated(fn, Dest)
      /\ PhiSet(fn, Dest) \subseteq Stored(fn)
  BY <1>1, FunctionsWellFormed, PhisWellFormed DEF WellFormed
<1>3. ASSUME NEW c \in CellsOf(fn, fn.live[Dest] \cap Stored(fn)) PROVE slots[c] = env'[c]
  <2>1. c \in Cells(fn) /\ c \in SlotCells(fn)
        /\ c[1] \in fn.live[Dest] \cap Stored(fn) /\ c[2] \in Parts(fn.type[c[1]])
    BY <1>2 DEF Cells, SlotCells, CellsOf
  <2>2. CASE c[1] \in PhiSet(fn, Dest)
    BY <2>1, <2>2, CopiesDoneMeansCopied DEF JumpTo, Kept, CopiedFromBefore
  <2>3. CASE c[1] \notin PhiSet(fn, Dest)
    <3>1. c[1] \in Available(fn, blk) \cap Stored(fn)
      BY <1>1, <2>1, <2>3 DEF WellFormedEdge
    <3>2. c[1] \notin Clobbered(fn, blk, edge)
      <4>1. Origin(fn, Ref(c[1])) = Ref(c[1])
        BY <2>1 DEF Origin, Ref, Stored
      <4>. QED
        BY <2>1, <2>3, <4>1, EdgeNotClobbered DEF ReadsSlot, Refers, Ref
    <3>3. c \notin Copied
      BY <2>1, <2>3, CopiesDoneMeansCopied
    <3>4. slots[c] = env[c]
      BY <1>3, <3>1, <3>2, <3>3 DEF Kept, UncopiedAgree, CellsOf
    <3>. QED
      BY <2>1, <2>3, <3>4 DEF JumpTo
  <2>. QED
    BY <2>2, <2>3
<1>4. Follow(fn, fn.live[Dest], env')
  <2>. SUFFICES ASSUME NEW v \in fn.live[Dest] \cap Aliases(fn), NEW p \in Parts(fn.type[v])
                PROVE  env'[<<v, p>>] = Part(env', fn.origin[v], p)
    BY DEF Follow
  <2>. DEFINE r == fn.origin[v]
  <2>1. v \in Values(fn) /\ v \notin PhiSet(fn, Dest) /\ p \in {0, 4}
    BY <1>2 DEF Stored, Parts
  <2>2. env[<<v, p>>] = Part(env, r, p)
    BY <1>1, <2>1 DEF WellFormedEdge, Kept, AliasesAgree, Follow
  <2>3. env'[<<v, p>>] = env[<<v, p>>]
    BY <2>1 DEF JumpTo, Cells, CellsOf
  <2>4. Part(env', r, p) = Part(env, r, p)
    <3>1. CASE r.kind = "value"
      <4>1. r.value \in Values(fn) /\ r.value \notin PhiSet(fn, Dest)
        BY <1>2, <3>1 DEF AliasesDominated
      <4>2. p \in Parts(fn.type[r.value])
        BY <1>1, <3>1, AliasIsWellFormed DEF WellFormedAlias, Covers
      <4>. QED
        BY <2>1, <3>1, <4>1, <4>2 DEF Part, JumpTo, Cells, CellsOf
    <3>2. CASE r.kind # "value"
      BY <3>2 DEF Part
    <3>. QED
      BY <3>1, <3>2
  <2>. QED
    BY <2>2, <2>3, <2>4
<1>5. /\ pc' = "body" /\ blk' = Dest /\ fn' = fn /\ slots' = slots
  BY DEF JumpTo
<1>6. AliasesAgree'
  BY <1>4, <1>5 DEF AliasesAgree, Follow, Aliases, Parts, Part
<1>7. BlockAgrees'
  BY <1>3, <1>5 DEF BlockAgrees, Agree, CellsOf, Stored, Aliases, Values
<1>. QED
  BY <1>5, <1>6, <1>7
     DEF Kept, UncopiedAgree, CopiedFromBefore, ConditionInEax, EarlierEdgesNotTaken

(* The condition of a conditional branch is tested on its word before the   *)
(* branch, though it is read after the copies for the first successor.      *)
LEMMA ConditionReadsBefore ==
  ASSUME AllPhiSafe, TypeInv, Kept, pc = "copy", CopiesDone, ~LastEdge,
         Terminator.kind = "condbr"
  PROVE  /\ edge = 1
         /\ Loaded(Terminator.operand, 0) = Part(env, Terminator.operand, 0)
         /\ Part(env, Terminator.operand, 0) \in Words
<1>. DEFINE o == Terminator.operand
            r == Origin(fn, o)
            c == <<r.value, 0>>
<1>1. /\ fn \in Functions /\ blk \in Blocks(fn) /\ Dest \in Blocks(fn)
      /\ WellFormedOperand(fn, blk, o, "i1")
      /\ Len(Succ(fn, blk)) = 2 /\ edge \in DOMAIN Succ(fn, blk)
      /\ Succ(fn, blk) \in Seq(Blocks(fn))
      /\ env \in [Cells(fn) -> Words]
  BY CopyInRange DEF WellFormedTerminator, Terminator, Succ, TypeInv, TypeOK
<1>2. edge = 1
  BY <1>1 DEF LastEdge
<1>3. Part(env, o, 0) \in Words
  BY <1>1, PartIsWord DEF Types, Parts
<1>4. ASSUME r.kind = "value" PROVE slots[c] = env[c]
  <2>1. c \in CellsOf(fn, Available(fn, blk) \cap Stored(fn)) /\ c \in SlotCells(fn)
    BY <1>1, <1>4, LoadedIsWord DEF Types, Parts, TypeInv, TypeOK
  <2>2. r.value \notin Clobbered(fn, blk, 2)
    BY <1>1, <1>4 DEF AllPhiSafe, PhiSafe, ConditionKept, ReadsSlot, Refers, Terminator
  <2>3. r.value \notin PhiSet(fn, Dest)
    BY <1>1, <1>2, <2>1, <2>2 DEF Clobbered, Dest, CellsOf, Stored
  <2>4. c \notin Copied
    BY <2>1, <2>3, CopiesDoneMeansCopied
  <2>5. Clobbered(fn, blk, edge) = {}
    BY <1>2 DEF Clobbered
  <2>. QED
    BY <2>1, <2>4, <2>5 DEF Kept, UncopiedAgree, CellsOf
<1>5. Loaded(o, 0) = Part(env, o, 0)
  BY <1>1, <1>4, AgreeingPart DEF Kept, Types, Parts
<1>. QED
  BY <1>2, <1>3, <1>5

(* Falling through to the next test: the edge passed over was not the one   *)
(* to take, and what it copied is now clobbered.                            *)
LEMMA FallKeeps ==
  ASSUME AllPhiSafe, TypeInv, Kept, pc = "copy", CopiesDone, ~LastEdge, FallToNextEdge,
         regs'["eax"] = regs["eax"] \/ Terminator.kind = "condbr",
         Terminator.kind = "switch" => Terminator.cases[edge] # Condition,
         Terminator.kind = "condbr" => LowBits("i1", Part(env, Terminator.operand, 0)) # 1
  PROVE  Kept'
<1>1. /\ fn \in Functions /\ blk \in Blocks(fn) /\ edge \in DOMAIN Succ(fn, blk)
      /\ Dest \in Blocks(fn) /\ Succ(fn, blk) \in Seq(Blocks(fn))
      /\ Available(fn, blk) \subseteq Values(fn)
  BY CopyInRange, FunctionsWellFormed
     DEF WellFormedTerminator, Succ, WellFormed, Available
<1>2. /\ edge' = edge + 1 /\ phi' = 1 /\ part' = 0 /\ pc' = "copy"
      /\ UNCHANGED <<fn, blk, slots, env>> /\ Terminator' = Terminator
  BY DEF FallToNextEdge, TypeInv, TypeOK, ControlOK, Terminator
<1>3. edge + 1 \in DOMAIN Succ(fn, blk)
  BY <1>1 DEF LastEdge
<1>4. Copied' = {}
  <2>1. Dest' = Succ(fn, blk)[edge + 1]
    BY <1>2 DEF Dest, Succ
  <2>2. DOMAIN fn.phis[Dest'] \subseteq Nat \ {0}
    BY <1>1, <1>3, <2>1, SuccessorWellFormed, PhisWellFormed
  <2>. QED
    BY <1>2, <2>2 DEF Copied, SlotCells, CellsOf
<1>5. UncopiedAgree'
  <2>0. Clobbered(fn, blk, edge)' = Clobbered(fn, blk, edge + 1)
    BY <1>2
  <2>. SUFFICES ASSUME NEW c \in CellsOf(fn, Available(fn, blk)),
                       c[1] \notin Clobbered(fn, blk, edge + 1), c[1] \in Stored(fn)
                PROVE  slots[c] = env[c]
    BY <1>2, <2>0 DEF UncopiedAgree, CellsOf, Available, Stored, Aliases, Values
  <2>1. c \in SlotCells(fn) /\ c[1] \in Values(fn)
    BY <1>1 DEF SlotCells, CellsOf
  <2>2. c[1] \notin PhiSet(fn, Dest) /\ c[1] \notin Clobbered(fn, blk, edge)
    BY <1>1, <2>1 DEF Clobbered, Dest
  <2>3. c \notin Copied
    BY <2>1, <2>2, CopiesDoneMeansCopied
  <2>. QED
    BY <2>2, <2>3 DEF Kept, UncopiedAgree, CellsOf
<1>6. EarlierEdgesNotTaken'
  <2>1. Condition' = Condition
    BY <1>2 DEF Condition, Terminator, Part
  <2>2. Part(env, Terminator.operand, 0)' = Part(env, Terminator.operand, 0)
    BY <1>2 DEF Part, Terminator
  <2>. QED
    BY <1>1, <1>2, <2>1, <2>2 DEF Kept, EarlierEdgesNotTaken
<1>7. ConditionInEax'
  BY <1>2 DEF Kept, ConditionInEax, Condition, Terminator, Part, LowBits
<1>8. AliasesAgree'
  BY <1>2 DEF Kept, AliasesAgree, Follow, Available, Aliases, Parts, Part
<1>. QED
  BY <1>2, <1>4, <1>5, <1>6, <1>7, <1>8 DEF Kept, BlockAgrees, CopiedFromBefore

LEMMA KeptStep == AllPhiSafe /\ TypeInv /\ TypeInv' /\ Kept /\ [Next]_vars => Kept'
<1>. SUFFICES ASSUME AllPhiSafe, TypeInv, TypeInv', Kept, [Next]_vars PROVE Kept'
  OBVIOUS
<1>0. /\ fn \in Functions /\ blk \in Blocks(fn)
      /\ WellFormedTerminator(fn, blk)
      /\ Available(fn, blk) \subseteq Values(fn)
  BY FunctionsWellFormed DEF TypeInv, TypeOK, WellFormed, Available
<1>1. CASE RunBody
  <2>1. PICK new \in Results(fn, blk, env) :
          slots' = Update(slots, new) /\ env' = Update(env, new)
    BY <1>1 DEF RunBody
  <2>2. /\ pc = "body" /\ pc' = TerminatorStart(Terminator.kind)
        /\ UNCHANGED <<fn, blk, edge, phi, part, regs>>
        /\ edge = 1 /\ phi = 1 /\ part = 0
    BY <1>1 DEF RunBody, TypeInv, ControlOK
  <2>3. ASSUME NEW c \in CellsOf(fn, Available(fn, blk) \cap Stored(fn))
        PROVE  slots'[c] = env'[c]
    <3>1. c \in Cells(fn) /\ c \in SlotCells(fn)
      BY <1>0 DEF Cells, SlotCells, CellsOf
    <3>2. c \notin CellsOf(fn, fn.defs[blk]) => c \in CellsOf(fn, fn.live[blk] \cap Stored(fn))
      BY DEF CellsOf, Available
    <3>3. c \notin CellsOf(fn, fn.defs[blk]) => slots[c] = env[c]
      BY <2>2, <3>2 DEF Kept, BlockAgrees, Agree
    <3>4. slots \in [SlotCells(fn) -> Words] /\ env \in [Cells(fn) -> Words]
      BY DEF TypeInv, TypeOK
    <3>5. DOMAIN new = CellsOf(fn, fn.defs[blk])
      BY <2>1 DEF Results
    <3>6. /\ slots'[c] = IF c \in DOMAIN new THEN new[c] ELSE slots[c]
          /\ env'[c] = IF c \in DOMAIN new THEN new[c] ELSE env[c]
      BY <2>1, <3>1, <3>4 DEF Update
    <3>. QED
      BY <3>3, <3>5, <3>6
  <2>4. Agree(Available(fn, blk))'
    BY <2>2, <2>3 DEF Agree, CellsOf, Available, Stored, Aliases, Values
  <2>10. AliasesAgree'
    <3>1. Follow(fn, Available(fn, blk), env')
      BY <1>0, <2>1, <2>2, ResultsFollow DEF Kept, AliasesAgree, TypeInv, TypeOK
    <3>2. pc' # "body"
      BY <2>2 DEF TerminatorStart
    <3>. QED
      BY <2>2, <3>1, <3>2 DEF AliasesAgree, Follow, Available, Aliases, Parts, Part
  <2>5. CASE pc' = "copy"
    <3>1. Terminator'.kind # "switch"
      BY <2>2, <2>5 DEF TerminatorStart, Terminator
    <3>2. CopyStarts'
      BY <2>2, <2>4, <2>5, <2>10, <3>1 DEF CopyStarts
    <3>. QED
      BY <3>2, CopyStart, PTL
  <2>6. CASE pc' # "copy"
    BY <2>2, <2>4, <2>6, <2>10
       DEF TerminatorStart, Kept, BlockAgrees, UncopiedAgree, CopiedFromBefore,
           ConditionInEax, EarlierEdgesNotTaken
  <2>. QED
    BY <2>5, <2>6
<1>2. CASE LoadSwitchCondition
  <2>. DEFINE o == Terminator.operand
  <2>1. /\ Terminator.kind = "switch" /\ edge = 1 /\ phi = 1 /\ part = 0
        /\ AliasesAgree /\ Agree(Available(fn, blk)) /\ pc = "load" /\ pc' = "copy"
        /\ UNCHANGED <<fn, blk, edge, phi, part, slots, env>>
    BY <1>2 DEF LoadSwitchCondition, TypeInv, ControlOK, Kept, BlockAgrees
  <2>2. /\ Terminator.type \in {"i8", "i32"}
        /\ WellFormedOperand(fn, blk, o, Terminator.type)
    BY <1>0, <2>1 DEF WellFormedTerminator, Terminator
  <2>3. LET r == Origin(fn, o) IN
        r.kind = "value" => <<r.value, 0>> \in CellsOf(fn, Available(fn, blk) \cap Stored(fn))
    BY <1>0, <2>2, LoadedIsWord DEF Types, Parts, TypeInv, TypeOK
  <2>4. Loaded(o, 0) = Part(env, o, 0)
    BY <2>1, <2>2, <2>3, AgreeingPart DEF Types, Parts, Agree
  <2>5. regs'["eax"] = Condition
    BY <1>2, <2>4 DEF LoadSwitchCondition, Condition, TypeInv, TypeOK, Registers
  <2>6. Condition' = Condition /\ Agree(Available(fn, blk))' /\ AliasesAgree'
    BY <2>1 DEF Condition, Terminator, Part, Agree, CellsOf, Available, Stored, Aliases,
                Values, AliasesAgree, Follow, Parts
  <2>7. CopyStarts'
    BY <2>1, <2>5, <2>6 DEF CopyStarts
  <2>. QED
    BY <2>7, CopyStart, PTL
<1>3. CASE CopyPart
  <2>. DEFINE v == fn.phis[Dest][phi]
              w == Loaded(fn.incoming[v][blk], part)
  <2>1. /\ v \in Values(fn) /\ <<v, part>> \in SlotCells(fn) /\ v \in PhiSet(fn, Dest)
        /\ phi \in DOMAIN fn.phis[Dest] /\ Dest \in Blocks(fn)
        /\ w = Part(env, fn.incoming[v][blk], part)
    BY <1>3, CopyPartOperands, CopyInRange, CopyReadsBefore DEF CopyPart, Kept
  <2>2. /\ pc = "copy" /\ pc' = "copy"
        /\ slots' = [slots EXCEPT ![<<v, part>>] = w]
        /\ UNCHANGED <<fn, blk, edge, env>>
        /\ Dest' = Dest /\ Terminator' = Terminator
    BY <1>3 DEF CopyPart, Dest, Terminator, Succ
  <2>3. \/ part = 0 /\ part' = 4 /\ phi' = phi
        \/ part' = 0 /\ phi' = phi + 1
    BY <1>3 DEF CopyPart, MoreParts
  <2>4. slots \in [SlotCells(fn) -> Words] /\ phi \in Nat /\ part \in {0, 4}
    BY DEF TypeInv, TypeOK
  <2>5. part' = 0 => part = 4 \/ 4 \notin Parts(fn.type[v])
    BY <1>3, <2>4 DEF CopyPart, MoreParts
  <2>6. Copied' = Copied \cup {<<v, part>>}
    <3>1. Copied' = {c \in SlotCells(fn) :
                       \E k \in DOMAIN fn.phis[Dest] :
                          /\ c[1] = fn.phis[Dest][k]
                          /\ k < phi' \/ (k = phi' /\ c[2] < part')}
      BY <2>2 DEF Copied, SlotCells, CellsOf, Stored, Aliases, Values
    <3>2. ASSUME NEW c \in SlotCells(fn)
          PROVE  c \in Copied' <=> c \in Copied \/ c = <<v, part>>
      <4>1. c = <<c[1], c[2]>> /\ c[2] \in {0, 4} /\ c[2] \in Parts(fn.type[c[1]])
        BY DEF SlotCells, CellsOf
      <4>2. DOMAIN fn.phis[Dest] \subseteq Nat
        BY <1>0, <2>1, PhisWellFormed
      <4>3. CASE part = 0 /\ part' = 4 /\ phi' = phi
        BY <2>1, <2>4, <3>1, <4>1, <4>2, <4>3 DEF Copied
      <4>4. CASE part' = 0 /\ phi' = phi + 1
        BY <2>1, <2>4, <2>5, <3>1, <4>1, <4>2, <4>4 DEF Copied
      <4>. QED
        BY <2>3, <4>3, <4>4
    <3>. QED
      BY <2>1, <3>1, <3>2 DEF Copied
  <2>7. UncopiedAgree'
    <3>1. Clobbered(fn, blk, edge)' = Clobbered(fn, blk, edge)
      BY <2>2
    <3>. SUFFICES ASSUME NEW c \in CellsOf(fn, Available(fn, blk) \cap Stored(fn)),
                         c[1] \notin Clobbered(fn, blk, edge), c \notin Copied,
                         c # <<v, part>>
                  PROVE  slots'[c] = env[c]
      BY <2>2, <2>6, <3>1 DEF UncopiedAgree, CellsOf, Available, Stored, Aliases, Values
    <3>2. c \in SlotCells(fn)
      BY <1>0 DEF SlotCells, CellsOf
    <3>. QED
      BY <2>2, <2>4, <3>2 DEF Kept, UncopiedAgree, CellsOf
  <2>8. CopiedFromBefore'
    <3>. SUFFICES ASSUME NEW c \in Copied \cup {<<v, part>>}
                  PROVE  slots'[c] = Part(env, fn.incoming[c[1]][blk], c[2])
      BY <2>2, <2>6 DEF CopiedFromBefore, Part
    <3>. QED
      BY <2>1, <2>2, <2>4 DEF Kept, CopiedFromBefore, Copied
  <2>9. ConditionInEax'
    <3>1. LastEdge' = LastEdge /\ Condition' = Condition
      BY <2>2 DEF LastEdge, Succ, Condition, Part
    <3>2. Terminator.kind = "switch" /\ ~LastEdge => regs'["eax"] = regs["eax"]
      BY <1>3 DEF CopyPart, TmpReg, TypeInv, TypeOK, Registers
    <3>. QED
      BY <2>2, <3>1, <3>2 DEF Kept, ConditionInEax
  <2>10. EarlierEdgesNotTaken'
    BY <2>2 DEF Kept, EarlierEdgesNotTaken, Condition, Terminator, Part
  <2>11. AliasesAgree'
    BY <2>2 DEF Kept, AliasesAgree, Follow, Available, Aliases, Parts, Part
  <2>. QED
    BY <2>2, <2>7, <2>8, <2>9, <2>10, <2>11 DEF Kept, BlockAgrees
<1>4. CASE TestBranch
  <2>1. /\ pc = "copy" /\ CopiesDone /\ ~LastEdge /\ Terminator.kind = "condbr"
    BY <1>4 DEF TestBranch
  <2>2. CASE JumpTo(Dest)
    BY <2>1, <2>2, JumpKeeps
  <2>3. CASE FallToNextEdge /\ TestedBit(Loaded(Terminator.operand, 0)) = 0
    <3>1. LowBits("i1", Part(env, Terminator.operand, 0)) # 1
      BY <2>1, <2>3, ConditionReadsBefore, WordsAssumption DEF TestedBit, LowBits
    <3>. QED
      BY <2>1, <2>3, <3>1, FallKeeps
  <2>. QED
    BY <1>4, <2>2, <2>3 DEF TestBranch
<1>5. CASE TestCase
  <2>1. /\ pc = "copy" /\ CopiesDone /\ ~LastEdge /\ Terminator.kind = "switch"
    BY <1>5 DEF TestCase
  <2>2. CASE JumpTo(Dest)
    BY <2>1, <2>2, JumpKeeps
  <2>3. CASE FallToNextEdge /\ Terminator.cases[edge] # regs["eax"]
    <3>1. regs["eax"] = Condition
      BY <2>1 DEF Kept, ConditionInEax
    <3>2. regs'["eax"] = regs["eax"]
      BY <1>5 DEF TestCase, TypeInv, TypeOK, Registers
    <3>. QED
      BY <2>1, <2>3, <3>1, <3>2, FallKeeps
  <2>. QED
    BY <1>5, <2>2, <2>3 DEF TestCase
<1>6. CASE UnconditionalJump
  BY <1>6, JumpKeeps DEF UnconditionalJump
<1>7. CASE Return
  <2>1. AliasesAgree'
    BY <1>7 DEF Return, Kept, AliasesAgree, Follow, Available, Aliases, Parts, Part
  <2>. QED
    BY <1>7, <2>1 DEF Return, Kept, BlockAgrees, UncopiedAgree, CopiedFromBefore, ConditionInEax,
              EarlierEdgesNotTaken
<1>8. CASE UNCHANGED vars
  <2>. USE <1>8 DEF vars
  <2>1. /\ Copied' = Copied /\ Dest' = Dest /\ Terminator' = Terminator
        /\ LastEdge' = LastEdge /\ Condition' = Condition
    BY DEF Copied, Dest, Terminator, LastEdge, Condition, Part, Succ, Cells, SlotCells, CellsOf, Stored, Aliases, Values
  <2>2. BlockAgrees'
    BY DEF Kept, BlockAgrees, Agree, CellsOf, Available, Stored, Aliases, Values
  <2>3. Clobbered(fn, blk, edge)' = Clobbered(fn, blk, edge)
    OBVIOUS
  <2>4. UncopiedAgree'
    BY <2>1, <2>3 DEF Kept, UncopiedAgree, CellsOf, Available, Stored, Aliases, Values
  <2>5. CopiedFromBefore'
    BY <2>1 DEF Kept, CopiedFromBefore, Part
  <2>6. ConditionInEax' /\ EarlierEdgesNotTaken'
    BY <2>1 DEF Kept, ConditionInEax, EarlierEdgesNotTaken, Part
  <2>7. AliasesAgree'
    BY DEF Kept, AliasesAgree, Follow, Available, Aliases, Parts, Part
  <2>. QED
    BY <2>2, <2>4, <2>5, <2>6, <2>7 DEF Kept
<1>. QED
  BY <1>1, <1>2, <1>3, <1>4, <1>5, <1>6, <1>7, <1>8 DEF Next

(* For every function whose phi nodes do not interfere, whatever its size:  *)
(* at each block label the slots of the live values hold the words of SSA   *)
(* form, although the copies are sequential and made on untaken edges too.  *)
THEOREM LiveValuesAreKept == AllPhiSafe => (Spec => []LiveValuesKept)
<1>. SUFFICES ASSUME AllPhiSafe PROVE Spec => []LiveValuesKept
  OBVIOUS
<1>1. TypeInv /\ Kept => LiveValuesKept
  <2>. SUFFICES ASSUME TypeInv, Kept, pc = "body", NEW c \in CellsOf(fn, fn.live[blk])
                PROVE  Loaded(Ref(c[1]), c[2]) = env[c]
    BY DEF LiveValuesKept
  <2>. DEFINE v == c[1]
              p == c[2]
              r == Origin(fn, Ref(v))
  <2>1. /\ c = <<v, p>> /\ v \in fn.live[blk] /\ v \in Values(fn)
        /\ p \in {0, 4} /\ p \in Parts(fn.type[v])
        /\ AliasesDominated(fn, blk) /\ fn \in Functions
    BY FunctionsWellFormed DEF TypeInv, TypeOK, WellFormed, CellsOf
  <2>2. CASE v \in Aliases(fn)
    <3>1. r = fn.origin[v] /\ env[c] = Part(env, r, p)
      BY <2>1, <2>2 DEF Origin, Ref, Kept, AliasesAgree, Follow
    <3>2. WellFormedAlias(fn, v)
      BY <2>1, <2>2, AliasIsWellFormed
    <3>3. r.kind = "value" =>
            r.value \in fn.live[blk] \cap Stored(fn) /\ p \in Parts(fn.type[r.value])
      BY <2>1, <2>2, <3>1, <3>2 DEF WellFormedAlias, Covers, AliasesDominated
    <3>4. r.kind = "value" => slots[<<r.value, p>>] = env[<<r.value, p>>]
      BY <2>1, <3>3 DEF Kept, BlockAgrees, Agree, CellsOf
    <3>. QED
      BY <3>1, <3>4 DEF Loaded, Part
  <2>3. CASE v \notin Aliases(fn)
    <3>1. slots[c] = env[c]
      BY <2>1, <2>3 DEF Kept, BlockAgrees, Agree, CellsOf, Stored
    <3>2. r = Ref(v)
      BY <2>3 DEF Origin, Ref
    <3>. QED
      BY <2>1, <3>1, <3>2 DEF Loaded, Part, Ref
  <2>. QED
    BY <2>2, <2>3
<1>2. TypeInv /\ TypeInv' /\ Kept /\ [Next]_vars => Kept'
  BY KeptStep
<1>. QED
  BY TypeInvInit, TypeInvStep, KeptInit, <1>1, <1>2, PTL DEF Spec
--------------------------------------------------------------------------------
(* SSA and Branches read one description of functions.                     *)
LEMMA SharedOperators ==
  /\ \A f : Abstract!Cells(f) = Cells(f)
  /\ \A f, S : Abstract!CellsOf(f, S) = CellsOf(f, S)
  /\ \A s, o, p : Abstract!Part(s, o, p) = Part(s, o, p)
  /\ \A ty, w : Abstract!LowBits(ty, w) = LowBits(ty, w)
  /\ \A f, b : Abstract!Succ(f, b) = Succ(f, b)
  /\ \A f, b : Abstract!PhiSet(f, b) = PhiSet(f, b)
  /\ \A s, new : Abstract!Update(s, new) = Update(s, new)
  /\ \A f, b, s : Abstract!Results(f, b, s) = Results(f, b, s)
  /\ Abstract!Null = Null
<1>1. \A f, S : Abstract!CellsOf(f, S) = CellsOf(f, S)
  BY DEF Abstract!CellsOf, CellsOf, Abstract!Parts, Parts
<1>2. \A f : Abstract!Cells(f) = Cells(f)
  BY <1>1 DEF Abstract!Cells, Cells, Abstract!Values, Values
<1>3. \A s, o, p : Abstract!Part(s, o, p) = Part(s, o, p)
  BY DEF Abstract!Part, Part
<1>4. \A ty, w : Abstract!LowBits(ty, w) = LowBits(ty, w)
  BY DEF Abstract!LowBits, LowBits
<1>5. \A f, b : Abstract!Succ(f, b) = Succ(f, b)
  BY DEF Abstract!Succ, Succ
<1>6. \A f, b : Abstract!PhiSet(f, b) = PhiSet(f, b)
  BY DEF Abstract!PhiSet, PhiSet, Abstract!Range, Range
<1>7. \A s, new : Abstract!Update(s, new) = Update(s, new)
  BY DEF Abstract!Update, Update
<1>8. \A f, b, s : Abstract!Results(f, b, s) = Results(f, b, s)
  BY <1>1, <1>3, <1>7 DEF Abstract!Results, Results, Abstract!Aliases, Aliases
<1>. QED
  BY <1>1, <1>2, <1>3, <1>4, <1>5, <1>6, <1>7, <1>8 DEF Abstract!Null, Null

(* Once the copies of the edge to take are made, control arrives where SSA  *)
(* form's branch does.                                                      *)
LEMMA JumpIsBranch ==
  ASSUME TypeInv, pc = "copy", JumpTo(Dest), Abstract!Selects(blk, edge)
  PROVE  Abstract!Branch
<1>1. edge \in DOMAIN Succ(fn, blk)
  BY CopyInRange
<1>2. Terminator.kind # "ret"
  BY DEF TypeInv, ControlOK
<1>. QED
  BY <1>1, SharedOperators DEF Abstract!Branch, Abstract!AssignPhis, JumpTo, Dest

(* Every step of the emitted code is a step of SSA form or leaves it alone. *)
LEMMA StepImplementsSSA ==
  AllPhiSafe /\ TypeInv /\ Kept /\ [Next]_vars => [Abstract!Next]_(Abstract!vars)
<1>. SUFFICES ASSUME AllPhiSafe, TypeInv, Kept, [Next]_vars
              PROVE  [Abstract!Next]_(Abstract!vars)
  OBVIOUS
<1>0. /\ fn \in Functions /\ blk \in Blocks(fn)
      /\ WellFormedTerminator(fn, blk)
  BY FunctionsWellFormed DEF TypeInv, TypeOK, WellFormed
<1>1. CASE RunBody
  <2>1. pc' \in {"load", "copy", "ret"}
    BY <1>1 DEF RunBody, TerminatorStart
  <2>. QED
    BY <1>1, <2>1, SharedOperators DEF RunBody, Abstract!Next, Abstract!RunBody
<1>2. CASE LoadSwitchCondition
  BY <1>2 DEF LoadSwitchCondition, Abstract!vars
<1>3. CASE CopyPart
  BY <1>3 DEF CopyPart, Abstract!vars
<1>4. CASE TestBranch
  <2>1. /\ pc = "copy" /\ CopiesDone /\ ~LastEdge /\ Terminator.kind = "condbr"
    BY <1>4 DEF TestBranch
  <2>2. CASE JumpTo(Dest) /\ TestedBit(Loaded(Terminator.operand, 0)) # 0
    <3>1. edge = 1 /\ LowBits("i1", Part(env, Terminator.operand, 0)) = 1
      <4>1. \A w \in Nat : w % 2 # 0 => w % 2 = 1
        OBVIOUS
      <4>. QED
        BY <2>1, <2>2, <4>1, ConditionReadsBefore, WordsAssumption DEF TestedBit, LowBits
    <3>2. Abstract!Selects(blk, edge)
      BY <2>1, <3>1, SharedOperators DEF Abstract!Selects, Terminator
    <3>. QED
      BY <2>1, <2>2, <3>2, JumpIsBranch DEF Abstract!Next
  <2>3. CASE FallToNextEdge
    BY <2>1, <2>3 DEF FallToNextEdge, Abstract!vars
  <2>. QED
    BY <1>4, <2>2, <2>3 DEF TestBranch
<1>5. CASE TestCase
  <2>1. /\ pc = "copy" /\ CopiesDone /\ ~LastEdge /\ Terminator.kind = "switch"
    BY <1>5 DEF TestCase
  <2>2. CASE JumpTo(Dest) /\ Terminator.cases[edge] = regs["eax"]
    <3>1. Terminator.cases[edge] = Condition
      BY <2>1, <2>2 DEF Kept, ConditionInEax
    <3>2. \A j \in 1 .. (edge - 1) : Terminator.cases[j] # Condition
      BY <2>1 DEF Kept, EarlierEdgesNotTaken
    <3>3. Abstract!Selects(blk, edge)
      BY <2>1, <3>1, <3>2, SharedOperators DEF Abstract!Selects, Terminator, Condition
    <3>. QED
      BY <2>1, <2>2, <3>3, JumpIsBranch DEF Abstract!Next
  <2>3. CASE FallToNextEdge
    BY <2>1, <2>3 DEF FallToNextEdge, Abstract!vars
  <2>. QED
    BY <1>5, <2>2, <2>3 DEF TestCase
<1>6. CASE UnconditionalJump
  <2>1. /\ pc = "copy" /\ CopiesDone /\ LastEdge /\ JumpTo(Dest)
    BY <1>6 DEF UnconditionalJump
  <2>2. edge \in DOMAIN Succ(fn, blk)
    BY <2>1, CopyInRange
  <2>3. CASE Terminator.kind = "br"
    <3>1. Abstract!Selects(blk, edge)
      BY <1>0, <2>1, <2>3
         DEF WellFormedTerminator, Terminator, LastEdge, Succ, Abstract!Selects
    <3>. QED
      BY <2>1, <3>1, JumpIsBranch DEF Abstract!Next
  <2>4. CASE Terminator.kind = "condbr"
    <3>1. edge = 2
      BY <1>0, <2>1, <2>4 DEF WellFormedTerminator, Terminator, LastEdge, Succ
    <3>2. Abstract!Selects(blk, edge)
      BY <2>1, <2>4, <3>1, SharedOperators
         DEF Kept, EarlierEdgesNotTaken, Abstract!Selects, Terminator
    <3>. QED
      BY <2>1, <3>2, JumpIsBranch DEF Abstract!Next
  <2>5. CASE Terminator.kind = "switch"
    <3>1. edge \notin DOMAIN Terminator.cases
      BY <1>0, <2>1, <2>5 DEF WellFormedTerminator, Terminator, LastEdge, Succ
    <3>2. \A j \in 1 .. (edge - 1) : Terminator.cases[j] # Condition
      BY <2>1, <2>5 DEF Kept, EarlierEdgesNotTaken
    <3>3. Abstract!Selects(blk, edge)
      BY <2>5, <3>1, <3>2, SharedOperators DEF Abstract!Selects, Terminator, Condition
    <3>. QED
      BY <2>1, <3>3, JumpIsBranch DEF Abstract!Next
  <2>. QED
    BY <2>1, <2>3, <2>4, <2>5 DEF TypeInv, ControlOK
<1>7. CASE Return
  <2>1. pc = "ret" /\ Terminator.kind = "ret" /\ Agree(Available(fn, blk))
    BY <1>7 DEF Return, TypeInv, ControlOK, Kept, BlockAgrees
  <2>2. PICK ty \in Types : WellFormedOperand(fn, blk, Terminator.operand, ty)
                            /\ Terminator.type = ty
    BY <1>0, <2>1 DEF WellFormedTerminator, Terminator
  <2>3. ASSUME NEW p \in Parts(ty)
        PROVE  Loaded(Terminator.operand, p) = Part(env, Terminator.operand, p)
    <3>1. LET r == Origin(fn, Terminator.operand) IN
          r.kind = "value" => slots[<<r.value, p>>] = env[<<r.value, p>>]
      BY <1>0, <2>1, <2>2, LoadedIsWord DEF Agree, TypeInv, TypeOK
    <3>. QED
      BY <2>1, <2>2, <3>1, AgreeingPart DEF Kept
  <2>4. /\ Loaded(Terminator.operand, 0) = Part(env, Terminator.operand, 0)
        /\ ty = "i64" =>
             Loaded(Terminator.operand, 4) = Part(env, Terminator.operand, 4)
    BY <2>3 DEF Parts
  <2>5. Abstract!Return
    BY <1>7, <2>1, <2>2, <2>4, SharedOperators DEF Return, Abstract!Return, Terminator
  <2>. QED
    BY <2>5 DEF Abstract!Next
<1>8. CASE UNCHANGED vars
  BY <1>8 DEF vars, Abstract!vars
<1>. QED
  BY <1>1, <1>2, <1>3, <1>4, <1>5, <1>6, <1>7, <1>8 DEF Next

(* The emitted terminators implement SSA form for every set of functions    *)
(* whose phi nodes do not interfere.                                        *)
THEOREM BranchesImplementSSA == AllPhiSafe => (Spec => ImplementsSSA)
<1>. SUFFICES ASSUME AllPhiSafe PROVE Spec => ImplementsSSA
  OBVIOUS
<1>1. Init => Abstract!Init
  BY SharedOperators DEF Init, Abstract!Init
<1>2. TypeInv /\ TypeInv' /\ Kept /\ [Next]_vars => Kept'
  BY KeptStep
<1>3. TypeInv /\ Kept /\ [Next]_vars => [Abstract!Next]_(Abstract!vars)
  BY StepImplementsSSA
<1>. QED
  BY TypeInvInit, TypeInvStep, KeptInit, <1>1, <1>2, <1>3, PTL
     DEF Spec, ImplementsSSA, Abstract!Spec
================================================================================
