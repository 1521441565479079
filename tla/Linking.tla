--------------------------------- MODULE Linking ---------------------------------
(***************************************************************************)
(* What translate() promises of the memory it fills, in closed form: where *)
(* each global, function, block and constant of a module is, from the      *)
(* sizes of what precedes it, and the words that hold an address or an     *)
(* offset.  A module is a record as described in Relocations.  The         *)
(* translation either succeeds, with this image, or fails.                 *)
(***************************************************************************)
EXTENDS Integers, Sequences

CONSTANTS AddressSpace, CodeBase, CodeEnd, DataBase, DataEnd, RuntimeTlsGet, WeakSymbols

VARIABLES
  module,
  outcome,   \* "none", "linked" or "failed"
  image      \* the linked words: a set of pairs of an address and a word

(* From the sizes of things in a row: where each begins, and the end.       *)
Offsets(sizes) ==
  LET offset[k \in 1 .. (Len(sizes) + 1)] ==
        IF k = 1 THEN 0 ELSE offset[k - 1] + sizes[k - 1]
  IN offset
Total(sizes) == Offsets(sizes)[Len(sizes) + 1]

PieceSize(p) == IF p.kind = "ref" THEN 4 ELSE p.size
PieceSizes(g) == [k \in DOMAIN g.init |-> PieceSize(g.init[k])]
GlobalSize(g) == IF g.weak THEN 0 ELSE Total(PieceSizes(g))
ItemSize(i) == IF i.kind = "op" THEN i.size ELSE 4
ItemSizes(b) == [k \in DOMAIN b |-> ItemSize(b[k])]
BlockSizes(f) == [j \in DOMAIN f.blocks |-> Total(ItemSizes(f.blocks[j]))]
IsTls(f) == f.blocks = << >> /\ f.name = "llvm.nacl.read.tp"
FunctionSize(f) ==
  IF IsTls(f) THEN 0 ELSE IF f.blocks = << >> THEN 10 ELSE 9 + Total(BlockSizes(f))
ConstantSizes(b) == [k \in DOMAIN b |-> IF b[k].kind = "const" THEN 8 ELSE 0]
BlockConstants(f) == [j \in DOMAIN f.blocks |-> Total(ConstantSizes(f.blocks[j]))]

Globals == module.globals
Functions == module.functions
Blocks(i) == Functions[i].blocks
GlobalSizes == [i \in DOMAIN Globals |-> GlobalSize(Globals[i])]
FunctionSizes == [i \in DOMAIN Functions |-> FunctionSize(Functions[i])]
FunctionConstants == [i \in DOMAIN Functions |-> Total(BlockConstants(Functions[i]))]

(* The positions: in the data segment globals, then the constants.         *)
GlobalStart(i) == DataBase + Offsets(GlobalSizes)[i]
PieceStart(i, k) == GlobalStart(i) + Offsets(PieceSizes(Globals[i]))[k]
FunctionStart(i) == CodeBase + Offsets(FunctionSizes)[i]
BlockStart(i, j) == FunctionStart(i) + 9 + Offsets(BlockSizes(Functions[i]))[j]
ItemStart(i, j, k) == BlockStart(i, j) + Offsets(ItemSizes(Blocks(i)[j]))[k]
ConstantsStart(i) == DataBase + Total(GlobalSizes) + Offsets(FunctionConstants)[i]
ConstantStart(i, j, k) ==
  ConstantsStart(i) + Offsets(BlockConstants(Functions[i]))[j]
    + Offsets(ConstantSizes(Blocks(i)[j]))[k]

SymbolAddresses ==
  { <<Globals[i].name, IF Globals[i].weak THEN 0 ELSE GlobalStart(i)>> :
      i \in DOMAIN Globals }
    \cup { <<Functions[i].name,
             IF IsTls(Functions[i]) THEN RuntimeTlsGet ELSE FunctionStart(i)>> :
             i \in DOMAIN Functions }
Symbols == { sa[1] : sa \in SymbolAddresses }
AddressOf(name) == (CHOOSE sa \in SymbolAddresses : sa[1] = name)[2]

(* The words.  A displacement is relative to the end of its own word.      *)
ItemPlaces ==
  UNION { UNION { { <<i, j, k>> : k \in DOMAIN Blocks(i)[j] } : j \in DOMAIN Blocks(i) } :
            i \in DOMAIN Functions }
PiecePlaces == UNION { { <<i, k>> : k \in DOMAIN Globals[i].init } : i \in DOMAIN Globals }
ItemOf(p) == Blocks(p[1])[p[2]][p[3]]
PieceOf(p) == Globals[p[1]].init[p[2]]

Displacement(at, target) == (target - (at + 4)) % AddressSpace
Reference(ref) == (AddressOf(ref.symbol) + ref.offset) % AddressSpace

ItemWord(p) ==
  LET at == ItemStart(p[1], p[2], p[3])
      it == ItemOf(p)
  IN <<at, CASE it.kind = "jump" -> Displacement(at, BlockStart(p[1], it.dest))
             [] it.kind = "call" -> Displacement(at, it.target)
             [] it.kind = "ref" -> Reference(it)
             [] it.kind = "const" -> ConstantStart(p[1], p[2], p[3])>>

Image ==
  { ItemWord(p) : p \in { q \in ItemPlaces : ItemOf(q).kind # "op" } }
    \cup { <<PieceStart(p[1], p[2]), Reference(PieceOf(p))>> :
             p \in { q \in PiecePlaces : PieceOf(q).kind = "ref" } }

(* The translation succeeds if the module fits, one byte to spare, and has *)
(* what it refers to.                                                      *)
Linkable ==
  /\ CodeBase + Total(FunctionSizes) < CodeEnd
  /\ DataBase + Total(GlobalSizes) + Total(FunctionConstants) < DataEnd
  /\ \A i \in DOMAIN Globals : Globals[i].weak => Globals[i].name \in WeakSymbols
  /\ \A p \in ItemPlaces : ItemOf(p).kind = "ref" => ItemOf(p).symbol \in Symbols
  /\ \A p \in PiecePlaces : PieceOf(p).kind = "ref" => PieceOf(p).symbol \in Symbols

Init == outcome = "none" /\ image = {}

Next ==
  /\ outcome = "none"
  /\ IF Linkable THEN outcome' = "linked" /\ image' = Image
     ELSE outcome' = "failed" /\ image' = {}
  /\ UNCHANGED module

Spec == Init /\ [][Next]_<<module, outcome, image>>
================================================================================
