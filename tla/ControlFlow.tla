------------------------------ MODULE ControlFlow ------------------------------
(***************************************************************************)
(* The control-flow skeleton of an LLVM function, as codegen.cc reads it:  *)
(* basic blocks that start with phi nodes and end with one terminator.     *)
(* What the instructions in between compute is left open.                  *)
(*                                                                         *)
(* A function f is a record:                                               *)
(*   entry     its entry block                                             *)
(*   type      the type of every value                                     *)
(*   phis      per block, the sequence of its phi nodes                    *)
(*   incoming  per phi node and predecessor block, the incoming operand    *)
(*   defs      per block, the values its other instructions define (the    *)
(*             arguments of the function are defs of the entry block)      *)
(*   live      per block, the values that may still be read after its phi  *)
(*             nodes, its own phi nodes included                           *)
(*   alias     per bitcast, trunc, ptrtoint and inttoptr, its operand: the *)
(*             results of these four are aliases of it, and have no slot   *)
(*   origin    per alias, the operand at which following aliases ends      *)
(*   depth     per alias, how many steps that takes                        *)
(*   term      per block, its terminator                                   *)
(* A terminator is a record [kind, operand, succ, cases]: succ is the      *)
(* sequence of successors in the order translate_instruction() visits      *)
(* them, so the last one is taken without a test, and cases holds the case *)
(* values of a switch, one per successor but the last.                     *)
(***************************************************************************)
EXTENDS Integers, Sequences, Functions

CONSTANTS
  Words,     \* the values of a 32-bit word
  Modulus    \* per narrow type, 2^bits: the words it tells apart

Types == {"i1", "i8", "i32", "i64"}

ASSUME WordsAssumption ==
  /\ Words \subseteq Nat
  /\ 0 \in Words /\ 1 \in Words
  /\ Modulus \in [{"i1", "i8", "i32"} -> Nat \ {0}]
  /\ Modulus["i1"] = 2
  /\ \A ty \in DOMAIN Modulus : \A w \in Words : w % Modulus[ty] \in Words

Null == << >>

(***************************************************************************)
(* An i64 occupies two words of its stack slot, at offsets 0 and 4; every  *)
(* other type occupies one.                                                *)
(***************************************************************************)
Parts(ty) == IF ty = "i64" THEN {0, 4} ELSE {0}

Values(f) == DOMAIN f.type

(* No code is emitted for an alias and it gets no slot; all other values   *)
(* are stored.                                                             *)
Aliases(f) == DOMAIN f.alias
Stored(f) == Values(f) \ Aliases(f)

CellsOf(f, S) == {c \in S \X {0, 4} : c[2] \in Parts(f.type[c[1]])}

Cells(f) == CellsOf(f, Values(f))
SlotCells(f) == CellsOf(f, Stored(f))

(* An operand is a value of the function or a constant. *)
Ref(v) == [kind |-> "value", value |-> v]
Imm(lo, hi) == [kind |-> "constant", word |-> [p \in {0, 4} |-> IF p = 0 THEN lo ELSE hi]]

(* Where the loop over get_aliased_value() ends that starts at operand o.  *)
Origin(f, o) ==
  IF o.kind = "value" /\ o.value \in Aliases(f) THEN f.origin[o.value] ELSE o

Refers(o, v) == o.kind = "value" /\ o.value = v

(* Reading operand o reads the slot of value v. *)
ReadsSlot(f, o, v) == Refers(Origin(f, o), v)

(* The part of operand o at offset p, when s gives the words of the cells. *)
Part(s, o, p) == IF o.kind = "value" THEN s[<<o.value, p>>] ELSE o.word[p]

LowBits(ty, w) == w % Modulus[ty]

Blocks(f) == DOMAIN f.term
Succ(f, b) == f.term[b].succ
PhiSet(f, b) == Range(f.phis[b])
Available(f, b) == f.live[b] \cup f.defs[b]

(* The words s once those of new have taken their places. *)
Update(s, new) == [c \in DOMAIN s |-> IF c \in DOMAIN new THEN new[c] ELSE s[c]]

(* What the instructions of block b other than its phi nodes may compute   *)
(* from the words s: an alias has the words of its operand, everything     *)
(* else any words.                                                         *)
Results(f, b, s) ==
  {new \in [CellsOf(f, f.defs[b]) -> Words] :
     \A c \in CellsOf(f, f.defs[b] \cap Aliases(f)) :
        new[c] = Part(Update(s, new), f.alias[c[1]], c[2])}

(***************************************************************************)
(* What the LLVM verifier guarantees of the functions that reach codegen:  *)
(* operands have the right types, a phi node is defined only as a phi      *)
(* node, and every value that is read has been computed on every path to   *)
(* its use, which is to say that live is closed under predecessors.        *)
(***************************************************************************)
WellFormedOperand(f, b, o, ty) ==
  \/ /\ o.kind = "value"
     /\ o.value \in Available(f, b)
     /\ f.type[o.value] = ty
  \/ /\ o.kind = "constant"
     /\ o.word \in [{0, 4} -> Words]

(* Operand o can stand for alias v: it has all the words that v has. *)
Covers(f, v, o) ==
  \/ o.kind = "value" /\ o.value \in Values(f) /\ Parts(f.type[v]) \subseteq Parts(f.type[o.value])
  \/ o.kind = "constant" /\ o.word \in [{0, 4} -> Words]

(* Aliases are not circular, and origin is where following them ends. *)
WellFormedAlias(f, v) ==
  LET o == f.alias[v] IN
  /\ Covers(f, v, o) /\ Covers(f, v, f.origin[v])
  /\ f.depth[v] \in Nat
  /\ o.kind = "value" /\ o.value \in Aliases(f) => f.depth[o.value] < f.depth[v]
  /\ f.origin[v] = Origin(f, o)
  /\ f.origin[v].kind = "value" => f.origin[v].value \in Stored(f)

(* Of an alias that can be read in block b, what it stands for has been    *)
(* computed, too; and while an alias lives on from one block to the next,  *)
(* what it stands for is not computed anew: its definition dominates that  *)
(* of the alias.                                                           *)
AliasesDominated(f, b) ==
  LET In(o, S) == o.kind = "value" => o.value \in S IN
  /\ \A v \in f.defs[b] \cap Aliases(f) :
       In(f.alias[v], Available(f, b)) /\ In(f.origin[v], Available(f, b))
  /\ \A v \in f.live[b] \cap Aliases(f) :
       In(f.origin[v], f.live[b] \ (PhiSet(f, b) \cup f.defs[b]))

WellFormedEdge(f, b, d) ==
  /\ f.live[d] \ PhiSet(f, d) \subseteq Available(f, b)
  /\ \A v \in PhiSet(f, d) :
       WellFormedOperand(f, b, f.incoming[v][b], f.type[v])

WellFormedTerminator(f, b) ==
  LET t == f.term[b] IN
  /\ t.succ \in Seq(Blocks(f))
  /\ \/ /\ t.kind = "ret"
        /\ \E ty \in Types : WellFormedOperand(f, b, t.operand, ty) /\ t.type = ty
     \/ /\ t.kind = "br"
        /\ Len(t.succ) = 1
     \/ /\ t.kind = "condbr"
        /\ Len(t.succ) = 2
        /\ WellFormedOperand(f, b, t.operand, "i1")
     \/ /\ t.kind = "switch"
        /\ Len(t.succ) >= 1
        /\ t.type \in {"i8", "i32"}
        /\ WellFormedOperand(f, b, t.operand, t.type)
        /\ t.cases \in Seq(Words)
        /\ Len(t.cases) = Len(t.succ) - 1

WellFormed(f) ==
  /\ f.entry \in Blocks(f)
  /\ \A v \in Values(f) : f.type[v] \in Types
  /\ Aliases(f) \subseteq Values(f)
  /\ \A v \in Aliases(f) : WellFormedAlias(f, v)
  /\ f.live[f.entry] = {} /\ f.phis[f.entry] = << >>
  /\ \A b \in Blocks(f) :
       /\ f.defs[b] \subseteq Values(f) /\ f.live[b] \subseteq Values(f)
       /\ f.phis[b] \in Seq(Stored(f))
       /\ AliasesDominated(f, b)
       /\ \A d \in Blocks(f) : PhiSet(f, b) \cap f.defs[d] = {}
       /\ \A d \in Blocks(f) \ {b} : PhiSet(f, b) \cap PhiSet(f, d) = {}
       /\ \A i, j \in DOMAIN f.phis[b] : f.phis[b][i] = f.phis[b][j] => i = j
       /\ WellFormedTerminator(f, b)
       /\ \A k \in DOMAIN Succ(f, b) : WellFormedEdge(f, b, Succ(f, b)[k])

(***************************************************************************)
(* The functions whose phi nodes can be assigned one after another, in     *)
(* place, before the branch is decided: nothing that is read after a phi   *)
(* node's slot has been written is that phi node or an alias of it.        *)
(* Clobbered(f, b, e) are the phi nodes of the successors of b before the  *)
(* e-th.                                                                   *)
(***************************************************************************)
Clobbered(f, b, e) ==
  {v \in Values(f) : \E k \in 1 .. (e - 1) :
                        k \in DOMAIN Succ(f, b) /\ v \in PhiSet(f, Succ(f, b)[k])}

(* No phi node of block d is copied from an earlier phi node of d, nor     *)
(* from an alias of one.                                                   *)
NoSwap(f, b, d) ==
  \A i, j \in DOMAIN f.phis[d] :
     i < j => ~ ReadsSlot(f, f.incoming[f.phis[d][j]][b], f.phis[d][i])

(* Nothing that edge e reads, or leaves live, was overwritten for an edge  *)
(* that was not taken.                                                     *)
NoLostCopy(f, b, e) ==
  LET d == Succ(f, b)[e] IN
  \A v \in Clobbered(f, b, e) :
    /\ \A u \in PhiSet(f, d) : ~ ReadsSlot(f, f.incoming[u][b], v)
    /\ \A u \in f.live[d] \ PhiSet(f, d) : ~ ReadsSlot(f, Ref(u), v)

(* The condition of a conditional branch is tested after the copies for    *)
(* its first successor.                                                    *)
ConditionKept(f, b) ==
  f.term[b].kind = "condbr" =>
    \A v \in Clobbered(f, b, 2) : ~ ReadsSlot(f, f.term[b].operand, v)

PhiSafe(f) ==
  \A b \in Blocks(f) :
    /\ ConditionKept(f, b)
    /\ \A e \in DOMAIN Succ(f, b) :
         NoSwap(f, b, Succ(f, b)[e]) /\ NoLostCopy(f, b, e)
================================================================================
