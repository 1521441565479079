------------------------------- MODULE Relocations -------------------------------
(***************************************************************************)
(* How translate() puts a module into the code and data buffers and links  *)
(* it: globals are placed first, then functions, and the words that name   *)
(* a block or a symbol are completed by two passes at the end.             *)
(*                                                                         *)
(* A module m is a record:                                                 *)
(*   globals     a sequence of [name, weak, init]; init is a sequence of   *)
(*               pieces, [kind |-> "bytes", size] or                       *)
(*               [kind |-> "ref", symbol, offset]                          *)
(*   functions   a sequence of [name, blocks]; a block is a sequence of    *)
(*               items: "op" (size bytes), "jump" (dest, a block of the    *)
(*               same function), "ref" (symbol, offset) and "const" (the   *)
(*               address of an 8-byte constant).  No blocks: a declaration *)
(*                                                                         *)
(* mem has the words that hold addresses and offsets, by the address of    *)
(* their first byte.  jumps and refs are history variables: the block that *)
(* a jump's word is to lead to, the symbol and the offset that a           *)
(* reference's word is to hold the sum of.                                 *)
(*                                                                         *)
(* A definition Name_Variant is a faulty form of the Name it precedes; no  *)
(* specification uses it.                                                  *)
(***************************************************************************)
EXTENDS Integers, Sequences

CONSTANTS
  Modules,
  AddressSpace,          \* addresses and words are taken modulo this
  CodeBase, CodeEnd,     \* the code buffer is CodeBase .. CodeEnd - 1
  DataBase, DataEnd,     \* the data segment likewise
  RuntimeTlsGet,         \* the address of runtime_tls_get()
  WeakSymbols            \* the extern_weak symbols that are let through

ASSUME AddressAssumption ==
  /\ AddressSpace \in Nat
  /\ CodeBase \in Nat /\ CodeEnd \in Nat /\ DataBase \in Nat /\ DataEnd \in Nat
  /\ CodeBase < CodeEnd /\ CodeEnd <= AddressSpace
  /\ DataBase < DataEnd /\ DataEnd <= AddressSpace
  /\ CodeEnd <= DataBase \/ DataEnd <= CodeBase
  /\ RuntimeTlsGet \in 0 .. (AddressSpace - 1)

Words == 0 .. (AddressSpace - 1)

(* The sizes, offsets and names in the modules. *)
IsReference(r) == r.symbol \in STRING /\ r.offset \in Words
IsPiece(p) == IF p.kind = "ref" THEN IsReference(p) ELSE p.size \in Nat
IsItem(i) ==
  /\ i.kind \in {"op", "jump", "call", "ref", "const"}
  /\ i.kind = "op" => i.size \in Nat
  /\ i.kind = "jump" => i.dest \in Nat
  /\ i.kind = "call" => i.target \in Words
  /\ i.kind = "ref" => IsReference(i)

(* What the verifier guarantees of a module: an extern_weak global has no   *)
(* initialiser, and jumps stay in their function.  A name stands for the    *)
(* global or function that has it, so it is the name of one.                *)
IsSequence(s) == s \in Seq({ s[k] : k \in DOMAIN s })
IsGlobal(g) ==
  /\ g.weak \in BOOLEAN
  /\ g.weak => g.init = << >>
  /\ IsSequence(g.init)
  /\ \A k \in DOMAIN g.init : IsPiece(g.init[k])
IsFunction(f) ==
  /\ IsSequence(f.blocks)
  /\ \A j \in DOMAIN f.blocks :
       LET b == f.blocks[j] IN
       /\ IsSequence(b)
       /\ \A k \in DOMAIN b :
            IsItem(b[k]) /\ (b[k].kind = "jump" => b[k].dest \in DOMAIN f.blocks)
OneName(m) ==
  LET gs == m.globals
      fs == m.functions
  IN /\ \A i, j \in DOMAIN gs : gs[i].name = gs[j].name => i = j
     /\ \A i, j \in DOMAIN fs : fs[i].name = fs[j].name => i = j
     /\ \A i \in DOMAIN gs : \A j \in DOMAIN fs : gs[i].name # fs[j].name

ASSUME ModulesAssumption ==
  \A m \in Modules :
    /\ IsSequence(m.globals) /\ IsSequence(m.functions)
    /\ \A i \in DOMAIN m.globals : IsGlobal(m.globals[i])
    /\ \A i \in DOMAIN m.functions : IsFunction(m.functions[i])
    /\ OneName(m)

(* 32-bit addition and subtraction of words. *)
Plus(a, b) == IF a + b < AddressSpace THEN a + b ELSE a + b - AddressSpace
Minus(a, b) == IF a >= b THEN a - b ELSE a - b + AddressSpace

VARIABLES
  module,         \* the module that is translated
  phase,          \* "globals", "functions", "jumps", "refs", "done", "aborted"
  fi, bi, ii,     \* the current global or function, block, and piece or item
  code, data,     \* current_ of the two buffers
  entry,          \* function_entry
  labels, globals, jump_relocs, global_relocs,
  next,           \* the index of the relocation to be applied next
  mem,
  jumps, refs

vars == <<module, phase, fi, bi, ii, code, data, entry, labels, globals, jump_relocs,
          global_relocs, next, mem, jumps, refs>>

position == <<fi, bi, ii>>
buffers == <<code, data>>
tables == <<labels, globals, jump_relocs, global_relocs>>
history == <<jumps, refs>>

Empty == [x \in {} |-> 0]
With(f, x, y) == [z \in DOMAIN f \cup {x} |-> IF z = x THEN y ELSE f[z]]

Init ==
  /\ module \in Modules
  /\ phase = "globals"
  /\ fi = 1 /\ bi = 0 /\ ii = 0
  /\ code = CodeBase /\ data = DataBase /\ entry = CodeBase
  /\ labels = Empty /\ globals = Empty
  /\ jump_relocs = << >> /\ global_relocs = << >>
  /\ next = 1
  /\ mem = Empty /\ jumps = Empty /\ refs = Empty

(* put_alloc_space() asserts that something is left after the allocation.   *)
Fits_NotStrict(pos, size, end) == pos + size <= end + 1
Fits(pos, size, end) == pos + size < end

WordSize == 4
ConstantSize == 8
PrologSize == 9
UndefinedStubSize == 10    \* push of the message and call of runtime_unhandled()

(***************************************************************************)
(* Globals: index ii = 0 is where the address is taken.                    *)
(***************************************************************************)
AtGlobal == phase = "globals" /\ fi \in DOMAIN module.globals
Global == module.globals[fi]
PieceSize(p) == IF p.kind = "ref" THEN WordSize ELSE p.size

StartGlobal ==
  /\ AtGlobal /\ ~Global.weak /\ ii = 0
  /\ globals' = With(globals, Global.name, data)
  /\ ii' = 1
  /\ UNCHANGED <<module, phase, fi, bi, buffers, entry, labels, jump_relocs,
                 global_relocs, next, mem, history>>

(* put_global_reloc(), and the same in write_global(). *)
PutRef(pos, ref) ==
  /\ mem' = With(mem, pos, ref.offset)
  /\ refs' = With(refs, pos, [symbol |-> ref.symbol, offset |-> ref.offset])
  /\ global_relocs' =
       Append(global_relocs, [loc |-> pos, symbol |-> ref.symbol])

WritePiece ==
  /\ AtGlobal /\ ~Global.weak /\ ii \in DOMAIN Global.init
  /\ LET p == Global.init[ii]
     IN /\ Fits(data, PieceSize(p), DataEnd)
        /\ data' = data + PieceSize(p)
        /\ IF p.kind = "ref" THEN PutRef(data, p)
           ELSE UNCHANGED <<mem, refs, global_relocs>>
  /\ ii' = ii + 1
  /\ UNCHANGED <<module, phase, fi, bi, code, entry, labels, globals, jump_relocs, next, jumps>>

FinishGlobal ==
  /\ AtGlobal /\ ~Global.weak /\ ii = Len(Global.init) + 1
  /\ fi' = fi + 1 /\ ii' = 0
  /\ UNCHANGED <<module, phase, bi, buffers, entry, tables, next, mem, history>>

PlaceWeakGlobal ==
  /\ AtGlobal /\ Global.weak /\ Global.name \in WeakSymbols
  /\ globals' = With(globals, Global.name, 0)
  /\ fi' = fi + 1
  /\ UNCHANGED <<module, phase, bi, ii, buffers, entry, labels, jump_relocs,
                 global_relocs, next, mem, history>>

StartFunctions ==
  /\ phase = "globals" /\ fi \notin DOMAIN module.globals
  /\ phase' = "functions"
  /\ fi' = 1 /\ bi' = 0 /\ ii' = 0
  /\ UNCHANGED <<module, buffers, entry, tables, next, mem, history>>

(***************************************************************************)
(* Functions: block index 0 is the prolog, item index 0 the block's label. *)
(***************************************************************************)
AtFunction == phase = "functions" /\ fi \in DOMAIN module.functions
Function == module.functions[fi]
Declared == Function.blocks = << >>
AtBlock == AtFunction /\ bi \in DOMAIN Function.blocks
Block == Function.blocks[bi]
AtItem == AtBlock /\ ii \in DOMAIN Block
Item == Block[ii]
ItemSize(i) == IF i.kind = "op" THEN i.size ELSE WordSize

DeclareFunction ==
  /\ AtFunction /\ Declared
  /\ IF Function.name = "llvm.nacl.read.tp"
     THEN /\ globals' = With(globals, Function.name, RuntimeTlsGet)
          /\ UNCHANGED code
     ELSE /\ Fits(code, UndefinedStubSize, CodeEnd)
          /\ globals' = With(globals, Function.name, code)
          /\ code' = code + UndefinedStubSize
  /\ fi' = fi + 1
  /\ UNCHANGED <<module, phase, bi, ii, data, entry, labels, jump_relocs, global_relocs,
                 next, mem, history>>

StartFunction ==
  /\ AtFunction /\ ~Declared /\ bi = 0
  /\ Fits(code, PrologSize, CodeEnd)
  /\ entry' = code
  /\ code' = code + PrologSize
  /\ bi' = 1 /\ ii' = 0
  /\ UNCHANGED <<module, phase, fi, data, tables, next, mem, history>>

MakeLabel ==
  /\ AtBlock /\ ii = 0
  /\ labels' = With(labels, <<fi, bi>>, code)
  /\ ii' = 1
  /\ UNCHANGED <<module, phase, fi, bi, buffers, entry, globals, jump_relocs,
                 global_relocs, next, mem, history>>

PutOp ==
  /\ AtItem /\ Item.kind = "op"
  /\ Fits(code, Item.size, CodeEnd)
  /\ code' = code + Item.size
  /\ ii' = ii + 1
  /\ UNCHANGED <<module, phase, fi, bi, data, entry, tables, next, mem, history>>

(* direct_jump_offset32(): the relocation points behind the placeholder. *)
PutJump ==
  /\ AtItem /\ Item.kind = "jump"
  /\ Fits(code, WordSize, CodeEnd)
  /\ mem' = With(mem, code, 0)
  /\ jumps' = With(jumps, code, <<fi, Item.dest>>)
  /\ code' = code + WordSize
  /\ jump_relocs' = Append(jump_relocs, [loc |-> code', dest |-> <<fi, Item.dest>>])
  /\ ii' = ii + 1
  /\ UNCHANGED <<module, phase, fi, bi, data, entry, labels, globals, global_relocs,
                 next, refs>>

(* put_direct_call(): the target is known, so its word is final. *)
PutDirectCall ==
  /\ AtItem /\ Item.kind = "call"
  /\ Fits(code, WordSize, CodeEnd)
  /\ mem' = With(mem, code, Minus(Item.target, code + WordSize))
  /\ code' = code + WordSize
  /\ ii' = ii + 1
  /\ UNCHANGED <<module, phase, fi, bi, data, entry, tables, next, history>>

PutGlobalRef ==
  /\ AtItem /\ Item.kind = "ref"
  /\ Fits(code, WordSize, CodeEnd)
  /\ PutRef(code, Item)
  /\ code' = code + WordSize
  /\ ii' = ii + 1
  /\ UNCHANGED <<module, phase, fi, bi, data, entry, labels, globals, jump_relocs, next,
                 jumps>>

(* addr_to_reg() of a constant. *)
PutConstant ==
  /\ AtItem /\ Item.kind = "const"
  /\ Fits(data, ConstantSize, DataEnd) /\ Fits(code, WordSize, CodeEnd)
  /\ mem' = With(mem, code, data)
  /\ data' = data + ConstantSize
  /\ code' = code + WordSize
  /\ ii' = ii + 1
  /\ UNCHANGED <<module, phase, fi, bi, entry, tables, next, history>>

FinishBlock ==
  /\ AtBlock /\ ii = Len(Block) + 1
  /\ bi' = bi + 1 /\ ii' = 0
  /\ UNCHANGED <<module, phase, fi, buffers, entry, tables, next, mem, history>>

SymbolValue_EndOfCode == code
SymbolValue == entry

FinishFunction ==
  /\ AtFunction /\ ~Declared /\ bi = Len(Function.blocks) + 1
  /\ globals' = With(globals, Function.name, SymbolValue)
  /\ fi' = fi + 1 /\ bi' = 0
  /\ UNCHANGED <<module, phase, ii, buffers, entry, labels, jump_relocs, global_relocs,
                 next, mem, history>>

StartLinking ==
  /\ phase = "functions" /\ fi \notin DOMAIN module.functions
  /\ phase' = "jumps"
  /\ UNCHANGED <<module, position, buffers, entry, tables, next, mem, history>>

(***************************************************************************)
(* apply_jump_relocs() and apply_global_relocs()                           *)
(***************************************************************************)
JumpWord_AtReloc(r) == r.loc
JumpWord(r) == r.loc - WordSize

JumpOffset_FromPlaceholder(r) == Minus(labels[r.dest], r.loc - WordSize)
JumpOffset(r) == Minus(labels[r.dest], r.loc)

ApplyJump ==
  /\ phase = "jumps" /\ next \in DOMAIN jump_relocs
  /\ LET r == jump_relocs[next]
     IN /\ r.dest \in DOMAIN labels
        /\ mem' = With(mem, JumpWord(r), JumpOffset(r))
  /\ next' = next + 1
  /\ UNCHANGED <<module, phase, position, buffers, entry, tables, history>>

FinishJumps ==
  /\ phase = "jumps" /\ next \notin DOMAIN jump_relocs
  /\ phase' = "refs"
  /\ next' = 1
  /\ UNCHANGED <<module, position, buffers, entry, tables, mem, history>>

LinkedWord_Assign(r) == globals[r.symbol]
LinkedWord(r) == Plus(mem[r.loc], globals[r.symbol])

ApplyRef ==
  /\ phase = "refs" /\ next \in DOMAIN global_relocs
  /\ LET r == global_relocs[next]
     IN /\ r.symbol \in DOMAIN globals
        /\ mem' = With(mem, r.loc, LinkedWord(r))
  /\ next' = next + 1
  /\ UNCHANGED <<module, phase, position, buffers, entry, tables, history>>

LastReloc == next > Len(global_relocs)

FinishRefs ==
  /\ phase = "refs" /\ LastReloc
  /\ phase' = "done"
  /\ UNCHANGED <<module, position, buffers, entry, tables, next, mem, history>>

(***************************************************************************)
(* The assertions that stop the translation: a full buffer, an extern_weak *)
(* symbol that is not allowed, and a relocation whose symbol was never     *)
(* placed (an alias, say).                                                 *)
(***************************************************************************)
BufferFull ==
  \/ /\ AtGlobal /\ ~Global.weak /\ ii \in DOMAIN Global.init
     /\ ~Fits(data, PieceSize(Global.init[ii]), DataEnd)
  \/ /\ AtFunction /\ Declared /\ Function.name # "llvm.nacl.read.tp"
     /\ ~Fits(code, UndefinedStubSize, CodeEnd)
  \/ /\ AtFunction /\ ~Declared /\ bi = 0
     /\ ~Fits(code, PrologSize, CodeEnd)
  \/ /\ AtItem
     /\ \/ ~Fits(code, ItemSize(Item), CodeEnd)
        \/ Item.kind = "const" /\ ~Fits(data, ConstantSize, DataEnd)

DisallowedWeak == AtGlobal /\ Global.weak /\ Global.name \notin WeakSymbols

Unresolved ==
  \/ /\ phase = "jumps" /\ next \in DOMAIN jump_relocs
     /\ jump_relocs[next].dest \notin DOMAIN labels
  \/ /\ phase = "refs" /\ next \in DOMAIN global_relocs
     /\ global_relocs[next].symbol \notin DOMAIN globals

Abort ==
  /\ BufferFull \/ DisallowedWeak \/ Unresolved
  /\ phase' = "aborted"
  /\ UNCHANGED <<module, position, buffers, entry, tables, next, mem, history>>

Stopped == phase \in {"done", "aborted"} /\ UNCHANGED vars

Next ==
  \/ StartGlobal \/ WritePiece \/ FinishGlobal \/ PlaceWeakGlobal \/ StartFunctions
  \/ DeclareFunction \/ StartFunction \/ MakeLabel
  \/ PutOp \/ PutJump \/ PutDirectCall \/ PutGlobalRef
  \/ PutConstant
  \/ FinishBlock \/ FinishFunction \/ StartLinking
  \/ ApplyJump \/ FinishJumps \/ ApplyRef \/ FinishRefs
  \/ Abort \/ Stopped

Spec == Init /\ [][Next]_vars
--------------------------------------------------------------------------------
(* Control, positions and tables stay in range; above all the current      *)
(* positions stay inside their buffers, which are never extended           *)
(* (put_alloc_space() asserts it).                                         *)
TypeOK ==
  /\ phase \in {"globals", "functions", "jumps", "refs", "done", "aborted"}
  /\ fi \in Nat /\ bi \in Nat /\ ii \in Nat /\ next \in Nat \ {0}
  /\ code \in CodeBase .. (CodeEnd - 1)
  /\ data \in DataBase .. (DataEnd - 1)
  /\ entry \in CodeBase .. (CodeEnd - 1)
  /\ \A b \in DOMAIN labels : labels[b] \in CodeBase .. code
  /\ \A s \in DOMAIN globals : globals[s] \in Words
  /\ jump_relocs \in Seq([loc : Words, dest : Nat \X Nat])
  /\ global_relocs \in Seq([loc : Words, symbol : STRING])
  /\ \A a \in DOMAIN mem : a \in Words /\ mem[a] \in Words

(* Each word that is linked is a word of its own, below the current        *)
(* position of its buffer: patching one never touches another, nor code    *)
(* not yet generated.                                                      *)
SitesDisjoint ==
  /\ \A a \in DOMAIN mem :
       \/ a >= CodeBase /\ a + WordSize <= code
       \/ a >= DataBase /\ a + WordSize <= data
  /\ \A a, b \in DOMAIN mem : a # b => a + WordSize <= b \/ b + WordSize <= a

(* When translate() returns, every jump leads to the start of the block it *)
(* was generated for: apply_jump_relocs() completed it, forward or         *)
(* backward, and apply_global_relocs() left it alone.                      *)
JumpsLand ==
  phase = "done" =>
    \A a \in DOMAIN jumps :
      jumps[a] \in DOMAIN labels /\ Plus(mem[a], a + WordSize) = labels[jumps[a]]

(* When translate() returns, every reference holds its symbol's address    *)
(* plus its offset: the address was added once, whatever the order of      *)
(* definition and use (apply_global_relocs(), "*addr += value").           *)
ReferencesResolved ==
  phase = "done" =>
    \A a \in DOMAIN refs :
      /\ refs[a].symbol \in DOMAIN globals
      /\ mem[a] = Plus(refs[a].offset, globals[refs[a].symbol])

(* The words are those of the closed form, and the translation fails only  *)
(* for a module that does not fit or has an unresolved or disallowed name. *)
Linked == INSTANCE Linking WITH
            outcome <- IF phase = "done" THEN "linked"
                       ELSE IF phase = "aborted" THEN "failed" ELSE "none",
            image <- IF phase = "done" THEN { <<a, mem[a]>> : a \in DOMAIN mem } ELSE {}

ImplementsLinking == Linked!Spec
================================================================================
