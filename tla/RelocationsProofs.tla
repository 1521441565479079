---------------------------- MODULE RelocationsProofs ----------------------------
(***************************************************************************)
(* Theorems about Relocations, for every set of modules and all buffers    *)
(* that do not overlap.  The inductive invariant says how the relocation   *)
(* tables and the words in memory correspond, and which words have been    *)
(* completed when index next is reached.                                   *)
(*                                                                         *)
(* The second half proves that Relocations implements Linking: the         *)
(* positions are always those of the closed form, what lies before them    *)
(* holds what was put there, and nothing else is written (PlacesInv).      *)
(***************************************************************************)
EXTENDS Relocations, SharedLemmas, TLAPS

(* The history variables and the tables say the same of each word. *)
TablesComplete ==
  /\ DOMAIN jumps \subseteq DOMAIN mem
  /\ DOMAIN refs \subseteq DOMAIN mem
  /\ DOMAIN jumps \cap DOMAIN refs = {}
  /\ \A i \in DOMAIN jump_relocs :
       /\ JumpWord(jump_relocs[i]) \in DOMAIN jumps
       /\ jumps[JumpWord(jump_relocs[i])] = jump_relocs[i].dest
  /\ \A a \in DOMAIN jumps : \E i \in DOMAIN jump_relocs : JumpWord(jump_relocs[i]) = a
  /\ \A i \in DOMAIN global_relocs :
       /\ global_relocs[i].loc \in DOMAIN refs
       /\ refs[global_relocs[i].loc].symbol = global_relocs[i].symbol
       /\ refs[global_relocs[i].loc].offset \in Words
  /\ \A a \in DOMAIN refs : \E i \in DOMAIN global_relocs : global_relocs[i].loc = a

(* No word has two relocations. *)
RelocsDistinct ==
  /\ \A i, j \in DOMAIN jump_relocs :
       i # j => JumpWord(jump_relocs[i]) # JumpWord(jump_relocs[j])
  /\ \A i, j \in DOMAIN global_relocs : i # j => global_relocs[i].loc # global_relocs[j].loc

JumpApplied(i) == phase \in {"refs", "done"} \/ (phase = "jumps" /\ i < next)
RefApplied(i) == phase = "done" \/ (phase = "refs" /\ i < next)

JumpsApplied ==
  \A i \in DOMAIN jump_relocs :
    JumpApplied(i) =>
      /\ jump_relocs[i].dest \in DOMAIN labels
      /\ mem[JumpWord(jump_relocs[i])] = JumpOffset(jump_relocs[i])

RefsApplied ==
  \A i \in DOMAIN global_relocs :
    LET r == global_relocs[i]
    IN IF RefApplied(i)
       THEN r.symbol \in DOMAIN globals
              /\ mem[r.loc] = Plus(refs[r.loc].offset, globals[r.symbol])
       ELSE phase # "aborted" => mem[r.loc] = refs[r.loc].offset

Typed == TypeOK /\ module \in Modules

Building == phase \in {"globals", "functions"}
NothingApplied == Building => next = 1

IInv == Typed /\ NothingApplied /\ SitesDisjoint /\ TablesComplete /\ RelocsDistinct
          /\ JumpsApplied /\ RefsApplied
--------------------------------------------------------------------------------
LEMMA WordArithmetic ==
  ASSUME NEW a \in Words, NEW b \in Words
  PROVE  /\ Plus(a, b) \in Words
         /\ Minus(a, b) \in Words
         /\ Plus(Minus(a, b), b) = a
BY AddressAssumption DEF Words, Plus, Minus

LEMMA WithFacts ==
  ASSUME NEW f, NEW x, NEW y
  PROVE  /\ DOMAIN With(f, x, y) = DOMAIN f \cup {x}
         /\ With(f, x, y)[x] = y
         /\ \A z \in DOMAIN f : z # x => With(f, x, y)[z] = f[z]
BY DEF With

LEMMA EmptyDomain == DOMAIN Empty = {}
BY DEF Empty

(* What Append does to the positions of a sequence. *)
LEMMA AppendFacts ==
  ASSUME NEW S, NEW s \in Seq(S), NEW e \in S
  PROVE  /\ Append(s, e) \in Seq(S)
         /\ DOMAIN Append(s, e) = DOMAIN s \cup {Len(s) + 1}
         /\ Len(s) + 1 \notin DOMAIN s
         /\ Append(s, e)[Len(s) + 1] = e
         /\ \A i \in DOMAIN s : Append(s, e)[i] = s[i]
OBVIOUS

LEMMA ElementType ==
  ASSUME NEW S, NEW s \in Seq(S), NEW i \in DOMAIN s
  PROVE  s[i] \in S
OBVIOUS

LEMMA CurrentItem ==
  ASSUME module \in Modules
  PROVE  /\ AtItem => IsItem(Item)
         /\ AtGlobal /\ ii \in DOMAIN Global.init => IsPiece(Global.init[ii])
BY ModulesAssumption
   DEF IsGlobal, IsFunction, AtItem, AtBlock, AtFunction, Item, Block, Function, AtGlobal,
       Global

(* The words that the two positions and the sizes involve. *)
LEMMA Positions ==
  ASSUME TypeOK
  PROVE  /\ code \in Words /\ data \in Words /\ entry \in Words
         /\ \A n \in Nat : Fits(code, n, CodeEnd) =>
              /\ code + n \in CodeBase .. (CodeEnd - 1)
              /\ code + n \in Words
              /\ code <= code + n
         /\ \A n \in Nat : Fits(data, n, DataEnd) =>
              /\ data + n \in DataBase .. (DataEnd - 1)
              /\ data + n \in Words
              /\ data <= data + n
         /\ \A b \in DOMAIN labels : labels[b] \in Words
BY AddressAssumption DEF TypeOK, Words, Fits

LEMMA TypeInit == Init => Typed
<1> SUFFICES ASSUME Init PROVE Typed
  OBVIOUS
<1>1. /\ CodeBase \in CodeBase .. (CodeEnd - 1)
      /\ DataBase \in DataBase .. (DataEnd - 1)
  BY AddressAssumption
<1>2. DOMAIN labels = {} /\ DOMAIN globals = {} /\ DOMAIN mem = {}
  BY EmptyDomain DEF Init
<1>3. jump_relocs \in Seq([loc : Words, dest : Nat \X Nat])
  BY DEF Init
<1>4. global_relocs \in Seq([loc : Words, symbol : STRING])
  BY DEF Init
<1> QED
  BY <1>1, <1>2, <1>3, <1>4 DEF Init, Typed, TypeOK
(* TypeOK in parts: a step that leaves a part's variables alone keeps it. *)
TypeOfControl ==
  /\ phase \in {"globals", "functions", "jumps", "refs", "done", "aborted"}
  /\ fi \in Nat /\ bi \in Nat /\ ii \in Nat /\ next \in Nat \ {0}
TypeOfBuffers ==
  /\ code \in CodeBase .. (CodeEnd - 1)
  /\ data \in DataBase .. (DataEnd - 1)
  /\ entry \in CodeBase .. (CodeEnd - 1)
TypeOfLabels == \A b \in DOMAIN labels : labels[b] \in CodeBase .. code
TypeOfGlobals == \A s \in DOMAIN globals : globals[s] \in Words
TypeOfJumpRelocs == jump_relocs \in Seq([loc : Words, dest : Nat \X Nat])
TypeOfGlobalRelocs == global_relocs \in Seq([loc : Words, symbol : STRING])
TypeOfMem == \A a \in DOMAIN mem : a \in Words /\ mem[a] \in Words

LEMMA TypeParts ==
  TypeOK <=> /\ TypeOfControl /\ TypeOfBuffers /\ TypeOfLabels /\ TypeOfGlobals
             /\ TypeOfJumpRelocs /\ TypeOfGlobalRelocs /\ TypeOfMem
BY DEF TypeOK, TypeOfControl, TypeOfBuffers, TypeOfLabels, TypeOfGlobals,
       TypeOfJumpRelocs, TypeOfGlobalRelocs, TypeOfMem

LEMMA NextModule == [Next]_vars => module' = module
BY DEF Next, vars, position, buffers, tables, history, StartGlobal, WritePiece, FinishGlobal,
       PlaceWeakGlobal, StartFunctions, DeclareFunction, StartFunction, MakeLabel, PutOp,
       PutJump, PutDirectCall, PutGlobalRef, PutConstant, FinishBlock, FinishFunction,
       StartLinking, ApplyJump, FinishJumps, ApplyRef, FinishRefs, Abort, Stopped

LEMMA NextControl == TypeOfControl /\ [Next]_vars => TypeOfControl'
BY DEF TypeOfControl, Next, vars, position, buffers, tables, history, StartGlobal, WritePiece,
       FinishGlobal, PlaceWeakGlobal, StartFunctions, DeclareFunction, StartFunction,
       MakeLabel, PutOp, PutJump, PutDirectCall, PutGlobalRef, PutConstant, FinishBlock,
       FinishFunction, StartLinking, ApplyJump, FinishJumps, ApplyRef, FinishRefs, Abort,
       Stopped

(* The positions only move forward, and never to the end of a buffer. *)
LEMMA NextBuffers ==
  Typed /\ [Next]_vars => TypeOfBuffers' /\ code <= code' /\ data <= data'
<1> SUFFICES ASSUME Typed, [Next]_vars
             PROVE  TypeOfBuffers' /\ code <= code' /\ data <= data'
  OBVIOUS
<1> USE DEF Typed, TypeOfBuffers
<1>p. TypeOfBuffers /\ code \in Int /\ data \in Int
  BY AddressAssumption DEF TypeOK
<1>f. /\ \A n \in Nat : Fits(code, n, CodeEnd) =>
             code + n \in CodeBase .. (CodeEnd - 1) /\ code <= code + n
      /\ \A n \in Nat : Fits(data, n, DataEnd) =>
             data + n \in DataBase .. (DataEnd - 1) /\ data <= data + n
  BY Positions
<1>s. WordSize \in Nat /\ ConstantSize \in Nat /\ PrologSize \in Nat
        /\ UndefinedStubSize \in Nat
  BY DEF WordSize, ConstantSize, PrologSize, UndefinedStubSize
<1>1. CASE UNCHANGED <<code, data, entry>>
  BY <1>1, <1>p
<1>2. CASE WritePiece
  <2>1. PieceSize(Global.init[ii]) \in Nat
    BY <1>2, <1>s, CurrentItem DEF WritePiece, PieceSize, IsPiece
  <2> QED
    BY <1>2, <1>f, <1>p, <2>1 DEF WritePiece
<1>3. CASE DeclareFunction
  BY <1>3, <1>f, <1>p, <1>s DEF DeclareFunction
<1>4. CASE StartFunction
  BY <1>4, <1>f, <1>p, <1>s DEF StartFunction
<1>5. CASE PutOp
  <2>1. Item.size \in Nat
    BY <1>5, CurrentItem DEF PutOp, IsItem
  <2> QED
    BY <1>5, <1>f, <1>p, <2>1 DEF PutOp
<1>6. CASE PutJump \/ PutDirectCall \/ PutGlobalRef
  BY <1>6, <1>f, <1>p, <1>s DEF PutJump, PutDirectCall, PutGlobalRef
<1>7. CASE PutConstant
  BY <1>7, <1>f, <1>p, <1>s DEF PutConstant
<1> QED
  BY <1>1, <1>2, <1>3, <1>4, <1>5, <1>6, <1>7
     DEF Next, vars, position, buffers, tables, history, StartGlobal, FinishGlobal,
         PlaceWeakGlobal, StartFunctions, MakeLabel, FinishBlock, FinishFunction,
         StartLinking, ApplyJump, FinishJumps, ApplyRef, FinishRefs, Abort, Stopped

LEMMA NextLabels == Typed /\ [Next]_vars => TypeOfLabels'
<1> SUFFICES ASSUME Typed, [Next]_vars PROVE TypeOfLabels'
  OBVIOUS
<1>b. TypeOfBuffers' /\ code <= code'
  BY NextBuffers
<1>p. TypeOfLabels /\ TypeOfBuffers
  BY TypeParts DEF Typed
<1>c. CodeBase \in Int /\ code \in Int /\ code' \in Int /\ CodeBase <= code
  BY <1>p, <1>b, AddressAssumption DEF TypeOfBuffers
<1>1. CASE labels' = labels
  BY <1>1, <1>b, <1>c, <1>p DEF TypeOfLabels
<1>2. CASE MakeLabel
  BY <1>2, <1>b, <1>c, <1>p DEF MakeLabel, TypeOfLabels, buffers, With
<1> QED
  BY <1>1, <1>2
     DEF Next, vars, position, buffers, tables, history, StartGlobal, WritePiece,
         FinishGlobal, PlaceWeakGlobal, StartFunctions, DeclareFunction, StartFunction,
         PutOp, PutJump, PutDirectCall, PutGlobalRef, PutConstant, FinishBlock,
         FinishFunction, StartLinking, ApplyJump, FinishJumps, ApplyRef, FinishRefs, Abort,
         Stopped

LEMMA NextGlobals == Typed /\ [Next]_vars => TypeOfGlobals'
<1> SUFFICES ASSUME Typed, [Next]_vars PROVE TypeOfGlobals'
  OBVIOUS
<1>p. TypeOfGlobals
  BY TypeParts DEF Typed
<1>w. code \in Words /\ data \in Words /\ entry \in Words /\ RuntimeTlsGet \in Words
        /\ 0 \in Words
  BY Positions, AddressAssumption DEF Words, Typed
<1>1. CASE globals' = globals
  BY <1>1, <1>p DEF TypeOfGlobals
<1>2. ASSUME NEW n, NEW v \in Words, globals' = With(globals, n, v)
      PROVE  TypeOfGlobals'
  BY <1>2, <1>p DEF TypeOfGlobals, With
<1>3. CASE StartGlobal \/ PlaceWeakGlobal
  BY <1>3, <1>2, <1>w DEF StartGlobal, PlaceWeakGlobal
<1>4. CASE DeclareFunction
  BY <1>4, <1>2, <1>w DEF DeclareFunction
<1>5. CASE FinishFunction
  BY <1>5, <1>2, <1>w DEF FinishFunction, SymbolValue
<1> QED
  BY <1>1, <1>3, <1>4, <1>5
     DEF Next, vars, position, buffers, tables, history, WritePiece, FinishGlobal,
         StartFunctions, StartFunction, MakeLabel, PutOp, PutJump, PutDirectCall,
         PutGlobalRef, PutConstant, FinishBlock, StartLinking, ApplyJump, FinishJumps,
         ApplyRef, FinishRefs, Abort, Stopped
LEMMA NextJumpRelocs == Typed /\ [Next]_vars => TypeOfJumpRelocs'
<1> SUFFICES ASSUME Typed, [Next]_vars PROVE TypeOfJumpRelocs'
  OBVIOUS
<1>p. TypeOfJumpRelocs /\ TypeOfControl
  BY TypeParts DEF Typed
<1>1. CASE jump_relocs' = jump_relocs
  BY <1>1, <1>p DEF TypeOfJumpRelocs
<1>2. CASE PutJump
  <2>1. code' \in Words
    BY <1>2, Positions DEF PutJump, WordSize, Typed
  <2>2. Item.dest \in Nat
    BY <1>2, CurrentItem DEF PutJump, IsItem, Typed
  <2>3. [loc |-> code', dest |-> <<fi, Item.dest>>] \in [loc : Words, dest : Nat \X Nat]
    BY <2>1, <2>2, <1>p DEF TypeOfControl
  <2> QED
    BY <2>3, <1>2, <1>p, AppendFacts DEF PutJump, TypeOfJumpRelocs
<1> QED
  BY <1>1, <1>2
     DEF Next, vars, position, buffers, tables, history, StartGlobal, WritePiece,
         FinishGlobal, PlaceWeakGlobal, StartFunctions, DeclareFunction, StartFunction,
         MakeLabel, PutOp, PutDirectCall, PutGlobalRef, PutConstant, FinishBlock,
         FinishFunction, StartLinking, ApplyJump, FinishJumps, ApplyRef, FinishRefs, Abort,
         Stopped

LEMMA NextGlobalRelocs == Typed /\ [Next]_vars => TypeOfGlobalRelocs'
<1> SUFFICES ASSUME Typed, [Next]_vars PROVE TypeOfGlobalRelocs'
  OBVIOUS
<1>p. TypeOfGlobalRelocs
  BY TypeParts DEF Typed
<1>w. code \in Words /\ data \in Words
  BY Positions DEF Typed
<1>1. CASE global_relocs' = global_relocs
  BY <1>1, <1>p DEF TypeOfGlobalRelocs
<1>2. ASSUME NEW pos \in Words, NEW ref, IsReference(ref), PutRef(pos, ref)
      PROVE  TypeOfGlobalRelocs'
  <2>1. [loc |-> pos, symbol |-> ref.symbol] \in [loc : Words, symbol : STRING]
    BY <1>2 DEF IsReference
  <2> QED
    BY <2>1, <1>2, <1>p, AppendFacts DEF PutRef, TypeOfGlobalRelocs
<1>3. CASE WritePiece
  <2>1. CASE Global.init[ii].kind = "ref"
    BY <1>3, <2>1, <1>2, <1>w, CurrentItem DEF WritePiece, IsPiece, Typed
  <2>2. CASE Global.init[ii].kind # "ref"
    BY <1>3, <2>2, <1>1 DEF WritePiece
  <2> QED
    BY <2>1, <2>2
<1>4. CASE PutGlobalRef
  BY <1>4, <1>2, <1>w, CurrentItem DEF PutGlobalRef, IsItem, Typed
<1> QED
  BY <1>1, <1>3, <1>4
     DEF Next, vars, position, buffers, tables, history, StartGlobal, FinishGlobal,
         PlaceWeakGlobal, StartFunctions, DeclareFunction, StartFunction, MakeLabel, PutOp,
         PutJump, PutDirectCall, PutConstant, FinishBlock, FinishFunction, StartLinking,
         ApplyJump, FinishJumps, ApplyRef, FinishRefs, Abort, Stopped

(* The words that a step writes are words. *)
LEMMA NextMem == Typed /\ TablesComplete /\ [Next]_vars => TypeOfMem'
<1> SUFFICES ASSUME Typed, TablesComplete, [Next]_vars PROVE TypeOfMem'
  OBVIOUS
<1>p. TypeOfMem /\ TypeOfGlobals /\ TypeOfJumpRelocs
  BY TypeParts DEF Typed
<1>w. /\ code \in Words /\ data \in Words /\ 0 \in Words
      /\ \A b \in DOMAIN labels : labels[b] \in Words
  BY Positions, AddressAssumption DEF Words, Typed
<1>1. CASE mem' = mem
  BY <1>1, <1>p DEF TypeOfMem
<1>2. ASSUME NEW a \in Words, NEW w \in Words, mem' = With(mem, a, w)
      PROVE  TypeOfMem'
  BY <1>2, <1>p DEF TypeOfMem, With
<1>3. CASE WritePiece
  <2>1. CASE Global.init[ii].kind = "ref"
    <3>1. IsReference(Global.init[ii])
      BY <1>3, <2>1, CurrentItem DEF WritePiece, IsPiece, Typed
    <3> QED
      BY <1>3, <2>1, <3>1, <1>2, <1>w DEF WritePiece, PutRef, IsReference
  <2>2. CASE Global.init[ii].kind # "ref"
    BY <1>3, <2>2, <1>1 DEF WritePiece
  <2> QED
    BY <2>1, <2>2
<1>4. CASE PutJump
  BY <1>4, <1>2, <1>w DEF PutJump
<1>5. CASE PutDirectCall
  <2>1. Item.target \in Words /\ code + WordSize \in Words
    BY <1>5, CurrentItem, Positions DEF PutDirectCall, IsItem, Typed, WordSize
  <2>2. Minus(Item.target, code + WordSize) \in Words
    BY <2>1, WordArithmetic
  <2> QED
    BY <1>5, <1>2, <1>w, <2>2 DEF PutDirectCall
<1>6. CASE PutGlobalRef
  <2>1. IsReference(Item)
    BY <1>6, CurrentItem DEF PutGlobalRef, IsItem, Typed
  <2> QED
    BY <1>6, <2>1, <1>2, <1>w DEF PutGlobalRef, PutRef, IsReference
<1>7. CASE PutConstant
  BY <1>7, <1>2, <1>w DEF PutConstant
<1>8. CASE ApplyJump
  <2> DEFINE r == jump_relocs[next]
  <2>1. jump_relocs[next] \in [loc : Words, dest : Nat \X Nat]
    BY <1>8, <1>p, ElementType DEF ApplyJump, TypeOfJumpRelocs
  <2>5. r.loc \in Words /\ JumpWord(r) \in Words
    BY <2>1, <1>8, <1>p DEF ApplyJump, TablesComplete, TypeOfMem
  <2>2. labels[r.dest] \in Words
    BY <1>8, <1>w DEF ApplyJump
  <2>3. JumpOffset(r) \in Words
    BY <2>5, <2>2, WordArithmetic DEF JumpOffset
  <2>4. mem' = With(mem, JumpWord(r), JumpOffset(r))
    BY <1>8 DEF ApplyJump
  <2> QED
    BY <2>3, <2>4, <2>5, <1>2
<1>9. CASE ApplyRef
  <2> DEFINE r == global_relocs[next]
  <2>1. r.loc \in Words /\ mem[r.loc] \in Words
    BY <1>9, <1>p DEF ApplyRef, TablesComplete, TypeOfMem
  <2>2. globals[r.symbol] \in Words
    BY <1>9, <1>p DEF ApplyRef, TypeOfGlobals
  <2>3. LinkedWord(r) \in Words
    BY <2>1, <2>2, WordArithmetic DEF LinkedWord
  <2>4. mem' = With(mem, r.loc, LinkedWord(r))
    BY <1>9 DEF ApplyRef
  <2> QED
    BY <2>1, <2>3, <2>4, <1>2
<1> QED
  BY <1>1, <1>3, <1>4, <1>5, <1>6, <1>7, <1>8, <1>9
     DEF Next, vars, position, buffers, tables, history, StartGlobal, FinishGlobal,
         PlaceWeakGlobal, StartFunctions, DeclareFunction, StartFunction, MakeLabel, PutOp,
         FinishBlock, FinishFunction, StartLinking, FinishJumps, FinishRefs, Abort, Stopped

LEMMA TypeNext == Typed /\ TablesComplete /\ [Next]_vars => Typed'
<1>1. Typed /\ [Next]_vars => module' \in Modules
  BY NextModule DEF Typed
<1>2. Typed /\ [Next]_vars => TypeOfControl'
  BY NextControl, TypeParts DEF Typed
<1>3. Typed' <=> TypeOK' /\ module' \in Modules
  BY DEF Typed
<1>4. TypeOK' <=> /\ TypeOfControl' /\ TypeOfBuffers' /\ TypeOfLabels' /\ TypeOfGlobals'
                  /\ TypeOfJumpRelocs' /\ TypeOfGlobalRelocs' /\ TypeOfMem'
  BY TypeParts, PTL
<1> QED
  BY <1>1, <1>2, <1>3, <1>4, NextBuffers, NextLabels, NextGlobals, NextJumpRelocs,
     NextGlobalRelocs, NextMem

--------------------------------------------------------------------------------
(* A word written at a current position that moves past it is a new word. *)
NewSite(pos) ==
  \/ pos = code /\ code + WordSize <= code'
  \/ pos = data /\ data + WordSize <= data'

LEMMA SitesAfterWord ==
  ASSUME Typed, SitesDisjoint, TypeOfBuffers', code <= code', data <= data',
         NEW pos, NewSite(pos), DOMAIN mem' = DOMAIN mem \cup {pos}
  PROVE  SitesDisjoint' /\ pos \notin DOMAIN mem /\ pos \in Words
<1>1. /\ code \in CodeBase .. (CodeEnd - 1) /\ code' \in CodeBase .. (CodeEnd - 1)
      /\ data \in DataBase .. (DataEnd - 1) /\ data' \in DataBase .. (DataEnd - 1)
      /\ code \in Words /\ data \in Words
  BY Positions DEF TypeOfBuffers, Typed, TypeOK
<1>2. /\ CodeBase \in Nat /\ CodeEnd \in Nat /\ DataBase \in Nat /\ DataEnd \in Nat
      /\ CodeEnd <= DataBase \/ DataEnd <= CodeBase
  BY AddressAssumption
<1>3. \A a \in DOMAIN mem : a \in Int
  BY AddressAssumption DEF Typed, TypeOK, Words
<1>4. \A a \in DOMAIN mem : a + WordSize <= pos \/ pos + WordSize <= a
  BY <1>1, <1>2, <1>3 DEF SitesDisjoint, NewSite, WordSize
<1>5. pos \in Int /\ pos \in Words
  BY <1>1 DEF NewSite
<1>6. pos \notin DOMAIN mem
  BY <1>4, <1>5 DEF WordSize
<1>7. \A a \in DOMAIN mem' :
         \/ a >= CodeBase /\ a + WordSize <= code'
         \/ a >= DataBase /\ a + WordSize <= data'
  <2> SUFFICES ASSUME NEW a \in DOMAIN mem'
               PROVE  \/ a >= CodeBase /\ a + WordSize <= code'
                      \/ a >= DataBase /\ a + WordSize <= data'
    OBVIOUS
  <2>1. CASE a = pos
    BY <2>1, <1>1, <1>2 DEF NewSite, WordSize
  <2>2. CASE a \in DOMAIN mem
    BY <2>2, <1>1, <1>2, <1>3 DEF SitesDisjoint, WordSize
  <2> QED
    BY <2>1, <2>2
<1>8. \A a, b \in DOMAIN mem' : a # b => a + WordSize <= b \/ b + WordSize <= a
  <2> SUFFICES ASSUME NEW a \in DOMAIN mem', NEW b \in DOMAIN mem', a # b
               PROVE  a + WordSize <= b \/ b + WordSize <= a
    OBVIOUS
  <2>1. CASE a \in DOMAIN mem /\ b \in DOMAIN mem
    BY <2>1 DEF SitesDisjoint
  <2>2. CASE a = pos /\ b \in DOMAIN mem
    BY <2>2, <1>4
  <2>3. CASE b = pos /\ a \in DOMAIN mem
    BY <2>3, <1>4
  <2> QED
    BY <2>1, <2>2, <2>3
<1> QED
  BY <1>5, <1>6, <1>7, <1>8 DEF SitesDisjoint, WordSize

LEMMA SitesUnchanged ==
  ASSUME Typed, SitesDisjoint, TypeOfBuffers', code <= code', data <= data',
         DOMAIN mem' = DOMAIN mem
  PROVE  SitesDisjoint'
<1>1. /\ code \in Int /\ code' \in Int /\ data \in Int /\ data' \in Int
      /\ CodeBase \in Int /\ DataBase \in Int
  BY AddressAssumption DEF TypeOfBuffers, Typed, TypeOK
<1>2. \A a \in DOMAIN mem : a \in Int
  BY AddressAssumption DEF Typed, TypeOK, Words
<1> QED
  BY <1>1, <1>2 DEF SitesDisjoint, WordSize

(***************************************************************************)
(* What a step is to the words and the tables.                             *)
(***************************************************************************)
KeepsBuilding == Building /\ Building' /\ next' = next
KeepsWords == UNCHANGED <<mem, jumps, refs, jump_relocs, global_relocs>>

AddsWord ==
  /\ KeepsBuilding
  /\ UNCHANGED <<jumps, refs, jump_relocs, global_relocs>>
  /\ \E pos, w : NewSite(pos) /\ mem' = With(mem, pos, w)

AddsJump ==
  /\ KeepsBuilding
  /\ UNCHANGED <<refs, global_relocs>>
  /\ NewSite(code)
  /\ mem' = With(mem, code, 0)
  /\ \E d \in Nat \X Nat :
       /\ jumps' = With(jumps, code, d)
       /\ jump_relocs' = Append(jump_relocs, [loc |-> code + WordSize, dest |-> d])

AddsRef ==
  /\ KeepsBuilding
  /\ UNCHANGED <<jumps, jump_relocs>>
  /\ \E pos, ref : NewSite(pos) /\ IsReference(ref) /\ PutRef(pos, ref)

LEMMA NewSites ==
  ASSUME Typed
  PROVE  /\ code' = code + WordSize => NewSite(code)
         /\ data' = data + WordSize => NewSite(data)
BY AddressAssumption DEF Typed, TypeOK, NewSite, WordSize

LEMMA StepKinds ==
  ASSUME Typed, [Next]_vars
  PROVE  \/ KeepsBuilding /\ KeepsWords
         \/ AddsWord \/ AddsJump \/ AddsRef
         \/ StartLinking \/ ApplyJump \/ FinishJumps \/ ApplyRef \/ FinishRefs
         \/ Abort \/ UNCHANGED vars
<1> USE DEF KeepsBuilding, Building, KeepsWords, AtGlobal, AtFunction, AtBlock, AtItem,
            position, buffers, tables, history
<1>1. CASE StartGlobal \/ FinishGlobal \/ PlaceWeakGlobal \/ StartFunctions
  BY <1>1 DEF StartGlobal, FinishGlobal, PlaceWeakGlobal, StartFunctions
<1>2. CASE DeclareFunction \/ StartFunction \/ MakeLabel \/ PutOp \/ FinishBlock
             \/ FinishFunction
  BY <1>2 DEF DeclareFunction, StartFunction, MakeLabel, PutOp, FinishBlock, FinishFunction
<1>3. CASE WritePiece
  <2>1. CASE Global.init[ii].kind = "ref"
    <3>1. IsReference(Global.init[ii])
      BY <1>3, <2>1, CurrentItem DEF WritePiece, IsPiece, Typed
    <3>2. NewSite(data)
      BY <1>3, <2>1, NewSites DEF WritePiece, PieceSize
    <3>3. PutRef(data, Global.init[ii])
      BY <1>3, <2>1 DEF WritePiece
    <3>4. KeepsBuilding /\ UNCHANGED <<jumps, jump_relocs>>
      BY <1>3 DEF WritePiece
    <3> QED
      BY <3>1, <3>2, <3>3, <3>4 DEF AddsRef
  <2>2. CASE Global.init[ii].kind # "ref"
    BY <1>3, <2>2 DEF WritePiece
  <2> QED
    BY <2>1, <2>2
<1>4. CASE PutJump
  <2>1. <<fi, Item.dest>> \in Nat \X Nat
    BY <1>4, CurrentItem DEF PutJump, IsItem, Typed, TypeOK
  <2>2. NewSite(code)
    BY <1>4, NewSites DEF PutJump
  <2> QED
    BY <1>4, <2>1, <2>2 DEF PutJump, AddsJump
<1>5. CASE PutDirectCall
  <2>1. NewSite(code)
    BY <1>5, NewSites DEF PutDirectCall
  <2> QED
    BY <1>5, <2>1 DEF PutDirectCall, AddsWord
<1>6. CASE PutGlobalRef
  <2>1. IsReference(Item)
    BY <1>6, CurrentItem DEF PutGlobalRef, IsItem, Typed
  <2>2. NewSite(code)
    BY <1>6, NewSites DEF PutGlobalRef
  <2>3. PutRef(code, Item) /\ KeepsBuilding /\ UNCHANGED <<jumps, jump_relocs>>
    BY <1>6 DEF PutGlobalRef
  <2> QED
    BY <2>1, <2>2, <2>3 DEF AddsRef
<1>7. CASE PutConstant
  <2>1. NewSite(code)
    BY <1>7, NewSites DEF PutConstant
  <2> QED
    BY <1>7, <2>1 DEF PutConstant, AddsWord
<1> QED
  BY <1>1, <1>2, <1>3, <1>4, <1>5, <1>6, <1>7 DEF Next, Stopped

LEMMA LinkingStep ==
  ASSUME StartLinking \/ FinishJumps \/ FinishRefs \/ Abort \/ UNCHANGED vars
  PROVE  KeepsWords /\ UNCHANGED <<labels, globals>>
BY DEF StartLinking, FinishJumps, FinishRefs, Abort, vars, tables, history, KeepsWords

LEMMA NothingAppliedNext == Typed /\ NothingApplied /\ [Next]_vars => NothingApplied'
<1> SUFFICES ASSUME Typed, NothingApplied, [Next]_vars PROVE NothingApplied'
  OBVIOUS
<1> QED
  BY StepKinds DEF NothingApplied, Building, KeepsBuilding, AddsWord, AddsJump, AddsRef,
     StartLinking, ApplyJump, FinishJumps, ApplyRef, FinishRefs, Abort, vars

(* Completing a word writes a word that is there. *)
LEMMA ApplyDomain ==
  ASSUME TablesComplete, ApplyJump \/ ApplyRef
  PROVE  DOMAIN mem' = DOMAIN mem
<1>1. CASE ApplyJump
  <2>1. JumpWord(jump_relocs[next]) \in DOMAIN mem
    BY <1>1 DEF ApplyJump, TablesComplete
  <2> QED
    BY <2>1, <1>1 DEF ApplyJump, With
<1>2. CASE ApplyRef
  <2>1. global_relocs[next].loc \in DOMAIN mem
    BY <1>2 DEF ApplyRef, TablesComplete
  <2> QED
    BY <2>1, <1>2 DEF ApplyRef, With
<1> QED
  BY <1>1, <1>2

LEMMA SitesNext ==
  Typed /\ SitesDisjoint /\ TablesComplete /\ [Next]_vars => SitesDisjoint'
<1> SUFFICES ASSUME Typed, SitesDisjoint, TablesComplete, [Next]_vars PROVE SitesDisjoint'
  OBVIOUS
<1>b. TypeOfBuffers' /\ code <= code' /\ data <= data'
  BY NextBuffers
<1>1. CASE DOMAIN mem' = DOMAIN mem
  BY <1>1, <1>b, SitesUnchanged
<1>2. ASSUME NEW pos, NEW w, NewSite(pos), mem' = With(mem, pos, w)
      PROVE  SitesDisjoint'
  <2>1. DOMAIN mem' = DOMAIN mem \cup {pos}
    BY <1>2 DEF With
  <2> QED
    BY <2>1, <1>2, <1>b, SitesAfterWord
<1>3. CASE AddsWord \/ AddsJump \/ AddsRef
  BY <1>3, <1>2 DEF AddsWord, AddsJump, AddsRef, PutRef
<1>4. CASE ApplyJump \/ ApplyRef
  BY <1>4, <1>1, ApplyDomain
<1> QED
  BY <1>1, <1>3, <1>4, StepKinds, LinkingStep DEF KeepsWords

(* The facts that a new word brings, for the steps that add one. *)
LEMMA NewWord ==
  ASSUME Typed, SitesDisjoint, TablesComplete, [Next]_vars,
         NEW pos, NEW w, NewSite(pos), mem' = With(mem, pos, w)
  PROVE  /\ pos \notin DOMAIN mem
         /\ pos \in Words
         /\ pos \notin DOMAIN jumps /\ pos \notin DOMAIN refs
         /\ DOMAIN mem' = DOMAIN mem \cup {pos}
         /\ mem'[pos] = w
         /\ \A a \in DOMAIN mem : mem'[a] = mem[a]
<1>1. DOMAIN mem' = DOMAIN mem \cup {pos}
  BY DEF With
<1>2. pos \notin DOMAIN mem /\ pos \in Words
  BY <1>1, NextBuffers, SitesAfterWord
<1> QED
  BY <1>1, <1>2 DEF With, TablesComplete

LEMMA JumpRelocAdded ==
  ASSUME Typed, NEW d \in Nat \X Nat, code + WordSize \in Words,
         jump_relocs' = Append(jump_relocs, [loc |-> code + WordSize, dest |-> d])
  PROVE  LET n == Len(jump_relocs) + 1
         IN /\ DOMAIN jump_relocs' = DOMAIN jump_relocs \cup {n}
            /\ n \notin DOMAIN jump_relocs
            /\ jump_relocs'[n].dest = d
            /\ JumpWord(jump_relocs'[n]) = code
            /\ \A i \in DOMAIN jump_relocs : jump_relocs'[i] = jump_relocs[i]
<1> DEFINE S == [loc : Words, dest : Nat \X Nat]
<1> DEFINE e == [loc |-> code + WordSize, dest |-> d]
<1>1. jump_relocs \in Seq(S) /\ e \in S
  BY DEF Typed, TypeOK
<1>2. JumpWord(e) = code
  BY AddressAssumption DEF JumpWord, WordSize, Typed, TypeOK
<1> HIDE DEF S, e
<1>3. /\ DOMAIN Append(jump_relocs, e) = DOMAIN jump_relocs \cup {Len(jump_relocs) + 1}
      /\ Len(jump_relocs) + 1 \notin DOMAIN jump_relocs
      /\ Append(jump_relocs, e)[Len(jump_relocs) + 1] = e
      /\ \A i \in DOMAIN jump_relocs : Append(jump_relocs, e)[i] = jump_relocs[i]
  BY <1>1, AppendFacts
<1>4. jump_relocs' = Append(jump_relocs, e) /\ e.dest = d
  BY DEF e
<1> QED
  BY <1>2, <1>3, <1>4

LEMMA GlobalRelocAdded ==
  ASSUME Typed, NEW pos \in Words, NEW s \in STRING,
         global_relocs' = Append(global_relocs, [loc |-> pos, symbol |-> s])
  PROVE  LET n == Len(global_relocs) + 1
         IN /\ DOMAIN global_relocs' = DOMAIN global_relocs \cup {n}
            /\ n \notin DOMAIN global_relocs
            /\ global_relocs'[n] = [loc |-> pos, symbol |-> s]
            /\ \A i \in DOMAIN global_relocs : global_relocs'[i] = global_relocs[i]
<1> DEFINE S == [loc : Words, symbol : STRING]
<1> DEFINE e == [loc |-> pos, symbol |-> s]
<1>1. global_relocs \in Seq(S) /\ e \in S
  BY DEF Typed, TypeOK
<1> HIDE DEF S
<1>2. /\ DOMAIN Append(global_relocs, e) = DOMAIN global_relocs \cup {Len(global_relocs) + 1}
      /\ Len(global_relocs) + 1 \notin DOMAIN global_relocs
      /\ Append(global_relocs, e)[Len(global_relocs) + 1] = e
      /\ \A i \in DOMAIN global_relocs : Append(global_relocs, e)[i] = global_relocs[i]
  BY <1>1, AppendFacts
<1> QED
  BY <1>2

LEMMA JumpFits == Typed /\ [Next]_vars /\ NewSite(code) => code + WordSize \in Words
<1> SUFFICES ASSUME Typed, [Next]_vars, NewSite(code) PROVE code + WordSize \in Words
  OBVIOUS
<1>1. TypeOfBuffers'
  BY NextBuffers
<1>2. CASE code + WordSize <= code'
  BY <1>1, <1>2, AddressAssumption DEF TypeOfBuffers, Typed, TypeOK, Words, WordSize
<1>3. CASE code = data
  BY <1>3, AddressAssumption DEF Typed, TypeOK
<1> QED
  BY <1>2, <1>3 DEF NewSite

LEMMA TablesNext ==
  Typed /\ SitesDisjoint /\ TablesComplete /\ [Next]_vars => TablesComplete'
<1> SUFFICES ASSUME Typed, SitesDisjoint, TablesComplete, [Next]_vars PROVE TablesComplete'
  OBVIOUS
<1>1. ASSUME DOMAIN mem \subseteq DOMAIN mem',
             UNCHANGED <<jumps, refs, jump_relocs, global_relocs>>
      PROVE  TablesComplete'
  BY <1>1 DEF TablesComplete, JumpWord
<1>2. CASE AddsWord
  <2>1. DOMAIN mem \subseteq DOMAIN mem'
    BY <1>2 DEF AddsWord, With
  <2> QED
    BY <1>1, <1>2, <2>1 DEF AddsWord
<1>3. CASE AddsJump
  <2>1. PICK d \in Nat \X Nat :
          /\ jumps' = With(jumps, code, d)
          /\ jump_relocs' = Append(jump_relocs, [loc |-> code + WordSize, dest |-> d])
    BY <1>3 DEF AddsJump
  <2> DEFINE n == Len(jump_relocs) + 1
  <2>2. /\ code \notin DOMAIN jumps /\ code \notin DOMAIN refs
        /\ DOMAIN mem' = DOMAIN mem \cup {code}
    BY <1>3, NewWord DEF AddsJump
  <2>3. /\ DOMAIN jump_relocs' = DOMAIN jump_relocs \cup {n}
        /\ jump_relocs'[n].dest = d
        /\ JumpWord(jump_relocs'[n]) = code
        /\ \A i \in DOMAIN jump_relocs : jump_relocs'[i] = jump_relocs[i]
    BY <2>1, <1>3, JumpFits, JumpRelocAdded DEF AddsJump
  <2>4. /\ DOMAIN jumps' = DOMAIN jumps \cup {code}
        /\ jumps'[code] = d
        /\ \A a \in DOMAIN jumps : jumps'[a] = jumps[a]
    BY <2>1, <2>2 DEF With
  <2>5. refs' = refs /\ global_relocs' = global_relocs
    BY <1>3 DEF AddsJump
  <2>6. (\A i \in DOMAIN jump_relocs :
           /\ JumpWord(jump_relocs[i]) \in DOMAIN jumps
           /\ jumps[JumpWord(jump_relocs[i])] = jump_relocs[i].dest)'
    BY <2>3, <2>4 DEF TablesComplete, JumpWord
  <2>7. (\A a \in DOMAIN jumps : \E i \in DOMAIN jump_relocs : JumpWord(jump_relocs[i]) = a)'
    BY <2>3, <2>4 DEF TablesComplete, JumpWord
  <2>8. /\ DOMAIN jumps' \subseteq DOMAIN mem'
        /\ DOMAIN refs' \subseteq DOMAIN mem'
        /\ DOMAIN jumps' \cap DOMAIN refs' = {}
    BY <2>2, <2>4, <2>5 DEF TablesComplete
  <2> QED
    BY <2>5, <2>6, <2>7, <2>8 DEF TablesComplete
<1>4. CASE AddsRef
  <2>1. PICK pos, ref : NewSite(pos) /\ IsReference(ref) /\ PutRef(pos, ref)
    BY <1>4 DEF AddsRef
  <2> DEFINE n == Len(global_relocs) + 1
  <2>2. /\ pos \notin DOMAIN jumps /\ pos \notin DOMAIN refs /\ pos \in Words
        /\ DOMAIN mem' = DOMAIN mem \cup {pos}
    BY <2>1, NewWord DEF PutRef
  <2>3. /\ DOMAIN global_relocs' = DOMAIN global_relocs \cup {n}
        /\ global_relocs'[n] = [loc |-> pos, symbol |-> ref.symbol]
        /\ \A i \in DOMAIN global_relocs : global_relocs'[i] = global_relocs[i]
    BY <2>1, <2>2, GlobalRelocAdded DEF PutRef, IsReference
  <2>4. /\ DOMAIN refs' = DOMAIN refs \cup {pos}
        /\ refs'[pos] = [symbol |-> ref.symbol, offset |-> ref.offset]
        /\ \A a \in DOMAIN refs : refs'[a] = refs[a]
    BY <2>1, <2>2 DEF With, PutRef
  <2>5. jumps' = jumps /\ jump_relocs' = jump_relocs
    BY <1>4 DEF AddsRef
  <2>6. (\A i \in DOMAIN global_relocs :
           /\ global_relocs[i].loc \in DOMAIN refs
           /\ refs[global_relocs[i].loc].symbol = global_relocs[i].symbol
           /\ refs[global_relocs[i].loc].offset \in Words)'
    BY <2>1, <2>3, <2>4 DEF TablesComplete, IsReference
  <2>7. (\A a \in DOMAIN refs : \E i \in DOMAIN global_relocs : global_relocs[i].loc = a)'
    BY <2>3, <2>4 DEF TablesComplete
  <2>8. /\ DOMAIN jumps' \subseteq DOMAIN mem'
        /\ DOMAIN refs' \subseteq DOMAIN mem'
        /\ DOMAIN jumps' \cap DOMAIN refs' = {}
    BY <2>2, <2>4, <2>5 DEF TablesComplete
  <2> QED
    BY <2>5, <2>6, <2>7, <2>8 DEF TablesComplete, JumpWord
<1>5. CASE ApplyJump \/ ApplyRef
  BY <1>5, <1>1, ApplyDomain DEF ApplyJump, ApplyRef, tables, history
<1> QED
  BY <1>1, <1>2, <1>3, <1>4, <1>5, StepKinds, LinkingStep DEF KeepsWords

LEMMA DistinctNext ==
  Typed /\ SitesDisjoint /\ TablesComplete /\ RelocsDistinct /\ [Next]_vars => RelocsDistinct'
<1> SUFFICES ASSUME Typed, SitesDisjoint, TablesComplete, RelocsDistinct, [Next]_vars
             PROVE  RelocsDistinct'
  OBVIOUS
<1>1. CASE UNCHANGED <<jump_relocs, global_relocs>>
  BY <1>1 DEF RelocsDistinct, JumpWord
<1>2. CASE AddsJump
  <2>1. PICK d \in Nat \X Nat :
          jump_relocs' = Append(jump_relocs, [loc |-> code + WordSize, dest |-> d])
    BY <1>2 DEF AddsJump
  <2> DEFINE n == Len(jump_relocs) + 1
  <2>2. /\ DOMAIN jump_relocs' = DOMAIN jump_relocs \cup {n}
        /\ JumpWord(jump_relocs'[n]) = code
        /\ \A i \in DOMAIN jump_relocs : jump_relocs'[i] = jump_relocs[i]
    BY <2>1, <1>2, JumpFits, JumpRelocAdded DEF AddsJump
  <2>3. \A i \in DOMAIN jump_relocs : JumpWord(jump_relocs[i]) # code
    BY <1>2, NewWord DEF AddsJump, TablesComplete
  <2>4. global_relocs' = global_relocs
    BY <1>2 DEF AddsJump
  <2> QED
    BY <2>2, <2>3, <2>4 DEF RelocsDistinct, JumpWord
<1>3. CASE AddsRef
  <2>1. PICK pos, ref : NewSite(pos) /\ IsReference(ref) /\ PutRef(pos, ref)
    BY <1>3 DEF AddsRef
  <2> DEFINE n == Len(global_relocs) + 1
  <2>2. pos \notin DOMAIN refs /\ pos \in Words
    BY <2>1, NewWord DEF PutRef
  <2>3. /\ DOMAIN global_relocs' = DOMAIN global_relocs \cup {n}
        /\ global_relocs'[n].loc = pos
        /\ \A i \in DOMAIN global_relocs : global_relocs'[i] = global_relocs[i]
    BY <2>1, <2>2, GlobalRelocAdded DEF PutRef, IsReference
  <2>4. \A i \in DOMAIN global_relocs : global_relocs[i].loc # pos
    BY <2>2 DEF TablesComplete
  <2>5. jump_relocs' = jump_relocs
    BY <1>3 DEF AddsRef
  <2> QED
    BY <2>3, <2>4, <2>5 DEF RelocsDistinct, JumpWord
<1> QED
  BY <1>1, <1>2, <1>3, StepKinds, LinkingStep
     DEF KeepsWords, AddsWord, ApplyJump, ApplyRef, tables

--------------------------------------------------------------------------------
LEMMA Indices ==
  ASSUME Typed
  PROVE  /\ DOMAIN jump_relocs = 1 .. Len(jump_relocs) /\ Len(jump_relocs) \in Nat
         /\ DOMAIN global_relocs = 1 .. Len(global_relocs) /\ Len(global_relocs) \in Nat
         /\ next \in Nat \ {0}
BY DEF Typed, TypeOK

LEMMA JumpsAppliedNext ==
  Typed /\ NothingApplied /\ TablesComplete /\ RelocsDistinct /\ JumpsApplied
    /\ [Next]_vars => JumpsApplied'
<1> SUFFICES ASSUME Typed, NothingApplied, TablesComplete, RelocsDistinct, JumpsApplied,
                    [Next]_vars
             PROVE  JumpsApplied'
  OBVIOUS
<1>i. Typed
  OBVIOUS
<1>1. CASE Building'
  BY <1>1 DEF JumpsApplied, JumpApplied, Building
<1>2. ASSUME KeepsWords, labels' = labels,
             \A i \in DOMAIN jump_relocs : JumpApplied(i)' => JumpApplied(i)
      PROVE  JumpsApplied'
  BY <1>2 DEF JumpsApplied, KeepsWords, JumpWord, JumpOffset
<1>3. CASE StartLinking
  <2>1. \A i \in DOMAIN jump_relocs : ~JumpApplied(i)'
    BY <1>3, Indices DEF StartLinking, JumpApplied, NothingApplied, Building
  <2> QED
    BY <1>2, <1>3, <2>1, LinkingStep
<1>4. CASE ApplyJump
  <2> DEFINE r == jump_relocs[next]
  <2>1. /\ phase = "jumps" /\ phase' = "jumps" /\ next' = next + 1
        /\ next \in DOMAIN jump_relocs /\ r.dest \in DOMAIN labels
        /\ labels' = labels /\ jump_relocs' = jump_relocs
    BY <1>4 DEF ApplyJump, tables
  <2>2. /\ mem'[JumpWord(r)] = JumpOffset(r)
        /\ \A a \in DOMAIN mem : a # JumpWord(r) => mem'[a] = mem[a]
    BY <1>4 DEF ApplyJump, With
  <2>3. SUFFICES ASSUME NEW i \in DOMAIN jump_relocs, i < next + 1
                 PROVE  /\ jump_relocs[i].dest \in DOMAIN labels
                        /\ mem'[JumpWord(jump_relocs[i])] = JumpOffset(jump_relocs[i])
    BY <2>1 DEF JumpsApplied, JumpApplied, JumpOffset, JumpWord
  <2>4. CASE i = next
    BY <2>1, <2>2, <2>4
  <2>5. CASE i # next
    <3>1. JumpApplied(i)
      BY <2>1, <2>3, <2>5, Indices DEF JumpApplied
    <3>2. JumpWord(jump_relocs[i]) # JumpWord(r) /\ JumpWord(jump_relocs[i]) \in DOMAIN mem
      BY <2>1, <2>5 DEF RelocsDistinct, TablesComplete
    <3> QED
      BY <3>1, <3>2, <2>2 DEF JumpsApplied
  <2> QED
    BY <2>4, <2>5
<1>5. CASE FinishJumps
  <2>1. \A i \in DOMAIN jump_relocs : JumpApplied(i)
    BY <1>5, Indices DEF FinishJumps, JumpApplied
  <2> QED
    BY <1>2, <1>5, <2>1, LinkingStep
<1>6. CASE ApplyRef
  <2> DEFINE r == global_relocs[next]
  <2>1. /\ phase = "refs" /\ phase' = "refs" /\ r.loc \in DOMAIN refs
        /\ labels' = labels /\ jump_relocs' = jump_relocs
    BY <1>6 DEF ApplyRef, tables, TablesComplete
  <2>2. \A a \in DOMAIN mem : a # r.loc => mem'[a] = mem[a]
    BY <1>6 DEF ApplyRef, With
  <2>3. \A i \in DOMAIN jump_relocs :
          /\ JumpWord(jump_relocs[i]) # r.loc
          /\ JumpWord(jump_relocs[i]) \in DOMAIN mem
    BY <2>1 DEF TablesComplete
  <2> QED
    BY <2>1, <2>2, <2>3 DEF JumpsApplied, JumpApplied, JumpOffset, JumpWord
<1>7. CASE FinishRefs \/ Abort \/ UNCHANGED vars
  <2>1. \A i \in DOMAIN jump_relocs : JumpApplied(i)' => JumpApplied(i)
    BY <1>7 DEF FinishRefs, Abort, vars, JumpApplied
  <2> QED
    BY <1>2, <1>7, <2>1, LinkingStep
<1> QED
  BY <1>1, <1>3, <1>4, <1>5, <1>6, <1>7, StepKinds
     DEF KeepsBuilding, AddsWord, AddsJump, AddsRef

LEMMA RefsAppliedNext ==
  Typed /\ NothingApplied /\ SitesDisjoint /\ TablesComplete /\ RelocsDistinct /\ RefsApplied
    /\ [Next]_vars => RefsApplied'
<1> SUFFICES ASSUME Typed, NothingApplied, SitesDisjoint, TablesComplete, RelocsDistinct,
                    RefsApplied, [Next]_vars
             PROVE  RefsApplied'
  OBVIOUS
<1>1. ASSUME UNCHANGED <<refs, global_relocs>>, phase # "aborted",
             \A i \in DOMAIN global_relocs : ~RefApplied(i) /\ ~RefApplied(i)',
             \A i \in DOMAIN global_relocs :
               mem'[global_relocs[i].loc] = mem[global_relocs[i].loc]
      PROVE  RefsApplied'
  BY <1>1 DEF RefsApplied
<1>2. Building /\ Building' =>
        phase # "aborted"
          /\ \A i \in DOMAIN global_relocs : ~RefApplied(i) /\ ~RefApplied(i)'
  BY DEF Building, RefApplied
<1>3. CASE KeepsBuilding /\ KeepsWords
  BY <1>1, <1>2, <1>3 DEF KeepsBuilding, KeepsWords
<1>4. CASE AddsWord \/ AddsJump
  <2>1. \A a \in DOMAIN mem : mem'[a] = mem[a]
    BY <1>4, NewWord DEF AddsWord, AddsJump
  <2>2. \A i \in DOMAIN global_relocs : global_relocs[i].loc \in DOMAIN mem
    BY DEF TablesComplete
  <2> QED
    BY <1>1, <1>2, <1>4, <2>1, <2>2 DEF AddsWord, AddsJump, KeepsBuilding
<1>5. CASE AddsRef
  <2>1. PICK pos, ref : NewSite(pos) /\ IsReference(ref) /\ PutRef(pos, ref)
    BY <1>5 DEF AddsRef
  <2> DEFINE n == Len(global_relocs) + 1
  <2>2. /\ pos \notin DOMAIN mem /\ pos \notin DOMAIN refs /\ pos \in Words
        /\ mem'[pos] = ref.offset
        /\ \A a \in DOMAIN mem : mem'[a] = mem[a]
    BY <2>1, NewWord DEF PutRef
  <2>3. /\ DOMAIN global_relocs' = DOMAIN global_relocs \cup {n}
        /\ global_relocs'[n] = [loc |-> pos, symbol |-> ref.symbol]
        /\ \A i \in DOMAIN global_relocs : global_relocs'[i] = global_relocs[i]
    BY <2>1, <2>2, GlobalRelocAdded DEF PutRef, IsReference
  <2>4. /\ refs'[pos].offset = ref.offset
        /\ \A a \in DOMAIN refs : refs'[a] = refs[a]
    BY <2>1, <2>2 DEF With, PutRef
  <2>5. \A i : ~RefApplied(i) /\ ~RefApplied(i)'
    BY <1>5 DEF AddsRef, KeepsBuilding, Building, RefApplied
  <2>6. \A i \in DOMAIN global_relocs' :
          mem'[global_relocs'[i].loc] = refs'[global_relocs'[i].loc].offset
    <3> SUFFICES ASSUME NEW i \in DOMAIN global_relocs'
                 PROVE  mem'[global_relocs'[i].loc] = refs'[global_relocs'[i].loc].offset
      OBVIOUS
    <3>1. CASE i = n
      BY <3>1, <2>2, <2>3, <2>4
    <3>2. CASE i \in DOMAIN global_relocs
      <4>1. mem[global_relocs[i].loc] = refs[global_relocs[i].loc].offset
        BY <3>2, <2>5, <1>5 DEF RefsApplied, AddsRef, KeepsBuilding, Building
      <4>2. global_relocs[i].loc \in DOMAIN mem /\ global_relocs[i].loc \in DOMAIN refs
        BY <3>2 DEF TablesComplete
      <4> QED
        BY <4>1, <4>2, <3>2, <2>2, <2>3, <2>4
    <3> QED
      BY <3>1, <3>2, <2>3
  <2> QED
    BY <2>5, <2>6 DEF RefsApplied
<1>6. CASE StartLinking \/ FinishJumps
  <2>1. \A i \in DOMAIN global_relocs : ~RefApplied(i) /\ ~RefApplied(i)'
    BY <1>6, Indices DEF StartLinking, FinishJumps, RefApplied, NothingApplied, Building
  <2>2. phase # "aborted"
    BY <1>6 DEF StartLinking, FinishJumps
  <2> QED
    BY <1>1, <1>6, <2>1, <2>2, LinkingStep DEF KeepsWords
<1>7. CASE ApplyJump
  <2> DEFINE r == jump_relocs[next]
  <2>1. /\ phase = "jumps" /\ phase' = "jumps" /\ JumpWord(r) \in DOMAIN jumps
        /\ UNCHANGED <<refs, global_relocs>>
    BY <1>7 DEF ApplyJump, tables, history, TablesComplete
  <2>2. \A a \in DOMAIN mem : a # JumpWord(r) => mem'[a] = mem[a]
    BY <1>7 DEF ApplyJump, With
  <2>3. \A i \in DOMAIN global_relocs :
          global_relocs[i].loc # JumpWord(r) /\ global_relocs[i].loc \in DOMAIN mem
    BY <2>1 DEF TablesComplete
  <2> QED
    BY <1>1, <2>1, <2>2, <2>3 DEF RefApplied
<1>8. CASE ApplyRef
  <2> DEFINE r == global_relocs[next]
  <2>1. /\ phase = "refs" /\ phase' = "refs" /\ next' = next + 1
        /\ next \in DOMAIN global_relocs /\ r.symbol \in DOMAIN globals
        /\ UNCHANGED <<globals, refs, global_relocs>>
    BY <1>8 DEF ApplyRef, tables, history
  <2>2. /\ mem'[r.loc] = Plus(mem[r.loc], globals[r.symbol])
        /\ \A a \in DOMAIN mem : a # r.loc => mem'[a] = mem[a]
    BY <1>8 DEF ApplyRef, With, LinkedWord
  <2>3. mem[r.loc] = refs[r.loc].offset
    BY <2>1, Indices DEF RefsApplied, RefApplied
  <2>4. \A i \in DOMAIN global_relocs : i # next =>
          /\ mem'[global_relocs[i].loc] = mem[global_relocs[i].loc]
          /\ RefApplied(i)' <=> RefApplied(i)
    <3>1. \A i \in DOMAIN global_relocs : i # next =>
            global_relocs[i].loc # r.loc /\ global_relocs[i].loc \in DOMAIN mem
      BY <2>1 DEF RelocsDistinct, TablesComplete
    <3>2. \A i \in DOMAIN global_relocs : i # next => (i < next + 1 <=> i < next)
      BY Indices
    <3> QED
      BY <3>1, <3>2, <2>1, <2>2 DEF RefApplied
  <2>5. \A i \in DOMAIN global_relocs : i = next => RefApplied(i)'
    BY <2>1, Indices DEF RefApplied
  <2>6. \A i \in DOMAIN global_relocs :
          LET q == global_relocs[i]
          IN IF RefApplied(i)'
             THEN q.symbol \in DOMAIN globals
                    /\ mem'[q.loc] = Plus(refs[q.loc].offset, globals[q.symbol])
             ELSE mem'[q.loc] = refs[q.loc].offset
    <3> SUFFICES ASSUME NEW i \in DOMAIN global_relocs
                 PROVE  LET q == global_relocs[i]
                        IN IF RefApplied(i)'
                           THEN q.symbol \in DOMAIN globals
                                  /\ mem'[q.loc] = Plus(refs[q.loc].offset, globals[q.symbol])
                           ELSE mem'[q.loc] = refs[q.loc].offset
      OBVIOUS
    <3>1. CASE i = next
      BY <3>1, <2>1, <2>2, <2>3, <2>5
    <3>2. CASE i # next
      BY <3>2, <2>1, <2>4 DEF RefsApplied
    <3> QED
      BY <3>1, <3>2
  <2> QED
    BY <2>1, <2>6 DEF RefsApplied, RefApplied
<1>9. CASE FinishRefs
  <2>1. \A i \in DOMAIN global_relocs : RefApplied(i)
    BY <1>9, Indices DEF FinishRefs, RefApplied, LastReloc
  <2>2. phase' = "done" /\ KeepsWords /\ globals' = globals
    BY <1>9, LinkingStep DEF FinishRefs
  <2> QED
    BY <2>1, <2>2 DEF RefsApplied, RefApplied, KeepsWords
<1>10. CASE Abort
  BY <1>10 DEF Abort, RefsApplied, RefApplied
<1>11. CASE UNCHANGED vars
  BY <1>11 DEF vars, tables, history, RefsApplied, RefApplied
<1> QED
  BY <1>3, <1>4, <1>5, <1>6, <1>7, <1>8, <1>9, <1>10, <1>11, StepKinds

--------------------------------------------------------------------------------
LEMMA InvInit == Init => IInv
<1> SUFFICES ASSUME Init PROVE IInv
  OBVIOUS
<1>1. /\ DOMAIN jumps = {} /\ DOMAIN refs = {} /\ DOMAIN mem = {}
      /\ DOMAIN jump_relocs = {} /\ DOMAIN global_relocs = {}
  BY EmptyDomain DEF Init
<1>2. Typed
  BY TypeInit
<1>3. NothingApplied
  BY DEF Init, NothingApplied
<1>4. SitesDisjoint /\ TablesComplete /\ RelocsDistinct
  BY <1>1 DEF SitesDisjoint, TablesComplete, RelocsDistinct
<1>5. JumpsApplied /\ RefsApplied
  BY <1>1 DEF JumpsApplied, RefsApplied
<1> QED
  BY <1>2, <1>3, <1>4, <1>5 DEF IInv

LEMMA InvNext == IInv /\ [Next]_vars => IInv'
BY TypeNext, NothingAppliedNext, SitesNext, TablesNext, DistinctNext, JumpsAppliedNext,
   RefsAppliedNext
   DEF IInv

LEMMA Invariant == Spec => []IInv
BY InvInit, InvNext, PTL DEF Spec

(* Control, tables and positions stay in range: above all, nothing is      *)
(* allocated up to or past the end of a buffer (put_alloc_space()).        *)
THEOREM LinkingTypeCorrect == Spec => []TypeOK
<1>1. IInv => TypeOK
  BY DEF IInv, Typed
<1> QED
  BY Invariant, <1>1, PTL

(* The words that are completed later never overlap each other or what is  *)
(* still to be generated, in the code or in the data segment.              *)
THEOREM LinkedSitesDisjoint == Spec => []SitesDisjoint
<1>1. IInv => SitesDisjoint
  BY DEF IInv
<1> QED
  BY Invariant, <1>1, PTL

(* When translate() returns, every jump reaches the block it was generated *)
(* for (direct_jump_offset32() and apply_jump_relocs()).                   *)
THEOREM JumpsReachTheirBlocks == Spec => []JumpsLand
<1>1. IInv => JumpsLand
  <2> SUFFICES ASSUME IInv, phase = "done", NEW a \in DOMAIN jumps
               PROVE  /\ jumps[a] \in DOMAIN labels
                      /\ Plus(mem[a], a + WordSize) = labels[jumps[a]]
    BY DEF JumpsLand
  <2>1. PICK i \in DOMAIN jump_relocs : JumpWord(jump_relocs[i]) = a
    BY DEF IInv, TablesComplete
  <2> DEFINE r == jump_relocs[i]
  <2>2. jumps[a] = r.dest
    BY <2>1 DEF IInv, TablesComplete
  <2>3. r.dest \in DOMAIN labels /\ mem[a] = Minus(labels[r.dest], r.loc)
    BY <2>1 DEF IInv, JumpsApplied, JumpApplied, JumpOffset
  <2>4. r \in [loc : Words, dest : Nat \X Nat]
    BY ElementType DEF IInv, Typed, TypeOK
  <2>5. r.loc \in Words /\ a + WordSize = r.loc
    BY <2>1, <2>4, AddressAssumption DEF JumpWord, Words, WordSize
  <2>6. labels[r.dest] \in Words
    BY <2>3, Positions DEF IInv, Typed
  <2> QED
    BY <2>2, <2>3, <2>5, <2>6, WordArithmetic
<1> QED
  BY Invariant, <1>1, PTL

(* When translate() returns, every reference holds the address of its      *)
(* symbol plus its offset (put_global_reloc() and apply_global_relocs()).  *)
THEOREM ReferencesAreResolved == Spec => []ReferencesResolved
<1>1. IInv => ReferencesResolved
  <2> SUFFICES ASSUME IInv, phase = "done", NEW a \in DOMAIN refs
               PROVE  /\ refs[a].symbol \in DOMAIN globals
                      /\ mem[a] = Plus(refs[a].offset, globals[refs[a].symbol])
    BY DEF ReferencesResolved
  <2>1. PICK i \in DOMAIN global_relocs : global_relocs[i].loc = a
    BY DEF IInv, TablesComplete
  <2>2. refs[a].symbol = global_relocs[i].symbol
    BY <2>1 DEF IInv, TablesComplete
  <2> QED
    BY <2>1, <2>2 DEF IInv, RefsApplied, RefApplied
<1> QED
  BY Invariant, <1>1, PTL

--------------------------------------------------------------------------------
(* The positions of Linking: they begin at the bases, and each is as far    *)
(* from the one before as what lies between them is long.                   *)
Offsets(s) == Linked!Offsets(s)
Total(s) == Linked!Total(s)

LEMMA OffsetsDefined ==
  ASSUME NEW s \in Seq(Nat)
  PROVE  Offsets(s) = [k \in 1 .. (Len(s) + 1) |->
                         IF k = 1 THEN 0 ELSE Offsets(s)[k - 1] + s[k - 1]]
<1>. DEFINE Sums(t, n) == t = [k \in 1 .. (n + 1) |->
                                IF k = 1 THEN 0 ELSE t[k - 1] + s[k - 1]]
            S == { n \in Nat : \E t : Sums(t, n) }
<1>1. 0 \in S
  <2>1. Sums([k \in 1 .. (0 + 1) |-> 0], 0)
    OBVIOUS
  <2>. QED
    BY <2>1
<1>2. ASSUME NEW n \in Nat, n \in S
      PROVE  n + 1 \in S
  <2>1. PICK t : Sums(t, n)
    BY <1>2
  <2>. DEFINE u == [k \in 1 .. ((n + 1) + 1) |->
                     IF k = n + 2 THEN t[n + 1] + s[n + 1] ELSE t[k]]
  <2>2. ASSUME NEW k \in 1 .. ((n + 1) + 1)
        PROVE  u[k] = IF k = 1 THEN 0 ELSE u[k - 1] + s[k - 1]
    <3>1. CASE k = n + 2
      <4>1. u[k] = t[n + 1] + s[n + 1] /\ u[n + 1] = t[n + 1] /\ k - 1 = n + 1 /\ k # 1
        BY <3>1
      <4>. HIDE DEF u
      <4>. QED
        BY <4>1
    <3>2. CASE k # n + 2
      <4>1. k \in 1 .. (n + 1) /\ u[k] = t[k] /\ (k # 1 => u[k - 1] = t[k - 1])
        BY <3>2
      <4>. HIDE DEF u
      <4>. QED
        BY <2>1, <4>1
    <3>. QED
      BY <3>1, <3>2
  <2>3. Sums(u, n + 1)
    BY <2>2
  <2>. HIDE DEF Sums
  <2>. QED
    BY <2>3
<1>3. Len(s) \in S
  <2>1. Len(s) \in Nat
    OBVIOUS
  <2>. HIDE DEF S
  <2>2. \A n \in Nat : n \in S => n + 1 \in S
    BY <1>2
  <2>3. Nat \subseteq S
    BY <1>1, <2>2, SetInduction
  <2>. QED
    BY <2>1, <2>3
<1>. QED
  BY <1>3 DEF Offsets, Linked!Offsets

LEMMA OffsetsFacts ==
  ASSUME NEW s \in Seq(Nat)
  PROVE  /\ Offsets(s)[1] = 0 /\ Total(s) \in Nat /\ Offsets(s)[Len(s) + 1] = Total(s)
         /\ \A k \in 1 .. (Len(s) + 1) : Offsets(s)[k] \in Nat /\ Offsets(s)[k] <= Total(s)
         /\ \A k \in DOMAIN s : Offsets(s)[k + 1] = Offsets(s)[k] + s[k]
<1>. DEFINE N == Len(s)
            O == Offsets(s)
<1>1. N \in Nat /\ DOMAIN s = 1 .. N /\ \A k \in 1 .. N : s[k] \in Nat
  OBVIOUS
<1>2. O[1] = 0 /\ \A k \in 1 .. N : O[k + 1] = O[k] + s[k]
  <2>1. \A k \in 1 .. (N + 1) : O[k] = IF k = 1 THEN 0 ELSE O[k - 1] + s[k - 1]
    BY OffsetsDefined
  <2>. HIDE DEF O, N
  <2>2. O[1] = 0
    BY <1>1, <2>1
  <2>3. ASSUME NEW k \in 1 .. N PROVE O[k + 1] = O[k] + s[k]
    <3>1. k + 1 \in 1 .. (N + 1) /\ k + 1 # 1 /\ (k + 1) - 1 = k
      BY <1>1
    <3>. QED
      BY <2>1, <3>1
  <2>. QED
    BY <2>2, <2>3
<1>. HIDE DEF O, N
<1>3. \A k \in 1 .. (N + 1) : O[k] \in Nat
  <2>. DEFINE S == { n \in Nat : n <= N => O[n + 1] \in Nat }
  <2>1. 0 \in S
    BY <1>2
  <2>2. ASSUME NEW n \in Nat, n \in S PROVE n + 1 \in S
    <3>1. ASSUME n + 1 <= N PROVE O[(n + 1) + 1] \in Nat
      <4>1. n + 1 \in 1 .. N /\ O[n + 1] \in Nat
        BY <1>1, <2>2, <3>1
      <4>. QED
        BY <1>1, <1>2, <4>1
    <3>. QED
      BY <3>1
  <2>3. Nat \subseteq S
    <3>. HIDE DEF S
    <3>. QED
      BY <2>1, <2>2, SetInduction
  <2>4. ASSUME NEW k \in 1 .. (N + 1) PROVE O[k] \in Nat
    <3>1. k - 1 \in Nat /\ k - 1 <= N /\ (k - 1) + 1 = k
      BY <1>1
    <3>2. k - 1 \in S
      BY <2>3, <3>1
    <3>. QED
      BY <3>1, <3>2
  <2>. QED
    BY <2>4
<1>4. \A k \in 1 .. (N + 1) : O[k] <= O[N + 1]
  <2>. DEFINE S == { n \in Nat : n <= N => O[(N + 1) - n] <= O[N + 1] }
  <2>1. 0 \in S
    BY <1>1, <1>3
  <2>2. ASSUME NEW n \in Nat, n \in S PROVE n + 1 \in S
    <3>1. ASSUME n + 1 <= N PROVE O[(N + 1) - (n + 1)] <= O[N + 1]
      <4>. DEFINE k == (N + 1) - (n + 1)
      <4>1. k \in 1 .. N /\ k + 1 = (N + 1) - n /\ k \in 1 .. (N + 1)
            /\ k + 1 \in 1 .. (N + 1) /\ N + 1 \in 1 .. (N + 1)
        BY <1>1, <3>1
      <4>2. O[(N + 1) - n] <= O[N + 1]
        BY <1>1, <2>2, <3>1
      <4>. HIDE DEF k
      <4>3. O[k + 1] <= O[N + 1] /\ O[k + 1] = O[k] + s[k] /\ s[k] \in Nat
            /\ O[k] \in Nat /\ O[N + 1] \in Nat
        BY <1>1, <1>2, <1>3, <4>1, <4>2
      <4>4. O[k] <= O[N + 1]
        BY <4>3
      <4>. QED
        BY <4>4 DEF k
    <3>. QED
      BY <3>1
  <2>3. Nat \subseteq S
    <3>. HIDE DEF S
    <3>. QED
      BY <2>1, <2>2, SetInduction
  <2>4. ASSUME NEW k \in 1 .. (N + 1) PROVE O[k] <= O[N + 1]
    <3>1. (N + 1) - k \in Nat /\ (N + 1) - k <= N /\ (N + 1) - ((N + 1) - k) = k
      BY <1>1
    <3>2. (N + 1) - k \in S
      BY <2>3, <3>1
    <3>. QED
      BY <3>1, <3>2
  <2>. QED
    BY <2>4
<1>5. Total(s) = O[N + 1]
  BY DEF Total, Linked!Total, Offsets, O, N
<1>6. N + 1 \in 1 .. (N + 1)
  BY <1>1
<1>. QED
  BY <1>1, <1>2, <1>3, <1>4, <1>5, <1>6 DEF O, N

LEMMA SequenceFacts ==
  ASSUME NEW s, IsSequence(s)
  PROVE  DOMAIN s = 1 .. Len(s) /\ Len(s) \in Nat
BY DEF IsSequence

(* The sizes of the elements of a sequence are a sequence as long.          *)
LEMMA SizesFacts ==
  ASSUME NEW s, IsSequence(s), NEW size, DOMAIN size = DOMAIN s,
         \A k \in DOMAIN s : size[k] \in Nat, size = [k \in DOMAIN size |-> size[k]]
  PROVE  size \in Seq(Nat) /\ Len(size) = Len(s) /\ DOMAIN size = 1 .. Len(s)
<1>1. DOMAIN s = 1 .. Len(s) /\ Len(s) \in Nat
  BY SequenceFacts
<1>2. size \in [1 .. Len(s) -> Nat]
  BY <1>1
<1>. QED
  BY <1>1, <1>2

(* Offsets of the elements' beginnings, and the end of all.                 *)
Adds(size, s) ==
  /\ Offsets(size)[1] = 0 /\ Total(size) \in Nat /\ Offsets(size)[Len(s) + 1] = Total(size)
  /\ \A k \in 1 .. (Len(s) + 1) :
       Offsets(size)[k] \in Nat /\ Offsets(size)[k] <= Total(size)
  /\ \A k \in DOMAIN s :
       /\ size[k] \in Nat /\ Offsets(size)[k] \in Nat /\ Offsets(size)[k + 1] \in Nat
       /\ Offsets(size)[k + 1] = Offsets(size)[k] + size[k]
       /\ Offsets(size)[k + 1] <= Total(size)

LEMMA SizesAdd ==
  ASSUME NEW s, IsSequence(s), NEW size, DOMAIN size = DOMAIN s,
         \A k \in DOMAIN s : size[k] \in Nat, size = [k \in DOMAIN size |-> size[k]]
  PROVE  Adds(size, s)
<1>. DEFINE N == Len(s)
            O == Offsets(size)
<1>1. size \in Seq(Nat) /\ Len(size) = N /\ DOMAIN size = 1 .. N
  BY SizesFacts
<1>2. DOMAIN s = 1 .. N /\ N \in Nat
  BY SequenceFacts
<1>3. /\ O[1] = 0 /\ Total(size) \in Nat /\ O[N + 1] = Total(size)
      /\ \A k \in 1 .. (N + 1) : O[k] \in Nat /\ O[k] <= Total(size)
      /\ \A k \in 1 .. N : O[k + 1] = O[k] + size[k]
  BY <1>1, OffsetsFacts
<1>. HIDE DEF O, N
<1>4. ASSUME NEW k \in DOMAIN s
      PROVE  /\ size[k] \in Nat /\ O[k] \in Nat /\ O[k + 1] \in Nat
             /\ O[k + 1] = O[k] + size[k] /\ O[k + 1] <= Total(size)
  <2>1. k \in 1 .. N /\ k \in 1 .. (N + 1) /\ k + 1 \in 1 .. (N + 1)
    BY <1>2
  <2>. QED
    BY <1>3, <2>1
<1>. QED
  BY <1>3, <1>4 DEF Adds, O, N

LEMMA PieceSizesAdd ==
  ASSUME NEW g, IsGlobal(g)
  PROVE  Adds(Linked!PieceSizes(g), g.init) /\ Linked!GlobalSize(g) \in Nat
<1>1. \A k \in DOMAIN g.init : Linked!PieceSize(g.init[k]) \in Nat
  BY DEF IsGlobal, IsPiece, Linked!PieceSize
<1>2. Adds(Linked!PieceSizes(g), g.init)
  <2>. DEFINE size == Linked!PieceSizes(g)
  <2>1. size = [k \in DOMAIN g.init |-> Linked!PieceSize(g.init[k])]
    BY DEF Linked!PieceSizes
  <2>2. IsSequence(g.init)
    BY DEF IsGlobal
  <2>. HIDE DEF size
  <2>3. DOMAIN size = DOMAIN g.init /\ size = [k \in DOMAIN size |-> size[k]]
        /\ \A k \in DOMAIN g.init : size[k] \in Nat
    BY <1>1, <2>1
  <2>4. Adds(size, g.init)
    BY <2>2, <2>3, SizesAdd
  <2>. QED
    BY <2>4 DEF size
<1>. QED
  BY <1>2 DEF Adds, Linked!GlobalSize, Total

LEMMA ItemSizesAdd ==
  ASSUME NEW b, IsSequence(b), \A k \in DOMAIN b : IsItem(b[k])
  PROVE  Adds(Linked!ItemSizes(b), b) /\ Adds(Linked!ConstantSizes(b), b)
<1>1. Adds(Linked!ItemSizes(b), b)
  <2>. DEFINE size == Linked!ItemSizes(b)
  <2>1. size = [k \in DOMAIN b |-> Linked!ItemSize(b[k])]
    BY DEF Linked!ItemSizes
  <2>2. \A k \in DOMAIN b : Linked!ItemSize(b[k]) \in Nat
    BY DEF IsItem, Linked!ItemSize
  <2>. HIDE DEF size
  <2>3. DOMAIN size = DOMAIN b /\ size = [k \in DOMAIN size |-> size[k]]
        /\ \A k \in DOMAIN b : size[k] \in Nat
    BY <2>1, <2>2
  <2>4. Adds(size, b)
    BY <2>3, SizesAdd
  <2>. QED
    BY <2>4 DEF size
<1>2. Adds(Linked!ConstantSizes(b), b)
  <2>. DEFINE size == Linked!ConstantSizes(b)
  <2>1. size = [k \in DOMAIN b |-> IF b[k].kind = "const" THEN 8 ELSE 0]
    BY DEF Linked!ConstantSizes
  <2>. HIDE DEF size
  <2>2. DOMAIN size = DOMAIN b /\ size = [k \in DOMAIN size |-> size[k]]
        /\ \A k \in DOMAIN b : size[k] \in Nat
    BY <2>1
  <2>3. Adds(size, b)
    BY <2>2, SizesAdd
  <2>. QED
    BY <2>3 DEF size
<1>. QED
  BY <1>1, <1>2

LEMMA BlockSizesAdd ==
  ASSUME NEW f, IsFunction(f)
  PROVE  /\ Adds(Linked!BlockSizes(f), f.blocks) /\ Adds(Linked!BlockConstants(f), f.blocks)
         /\ Linked!FunctionSize(f) \in Nat
<1>1. \A j \in DOMAIN f.blocks :
        /\ Total(Linked!ItemSizes(f.blocks[j])) \in Nat
        /\ Total(Linked!ConstantSizes(f.blocks[j])) \in Nat
  <2>1. \A j \in DOMAIN f.blocks :
          IsSequence(f.blocks[j]) /\ \A k \in DOMAIN f.blocks[j] : IsItem(f.blocks[j][k])
    BY DEF IsFunction
  <2>. QED
    BY <2>1, ItemSizesAdd DEF Adds
<1>0. IsSequence(f.blocks)
  BY DEF IsFunction
<1>2. Adds(Linked!BlockSizes(f), f.blocks)
  <2>. DEFINE size == Linked!BlockSizes(f)
  <2>1. size = [j \in DOMAIN f.blocks |-> Total(Linked!ItemSizes(f.blocks[j]))]
    BY DEF Linked!BlockSizes, Total
  <2>. HIDE DEF size
  <2>2. DOMAIN size = DOMAIN f.blocks /\ size = [k \in DOMAIN size |-> size[k]]
        /\ \A k \in DOMAIN f.blocks : size[k] \in Nat
    BY <1>1, <2>1
  <2>3. Adds(size, f.blocks)
    BY <1>0, <2>2, SizesAdd
  <2>. QED
    BY <2>3 DEF size
<1>3. Adds(Linked!BlockConstants(f), f.blocks)
  <2>. DEFINE size == Linked!BlockConstants(f)
  <2>1. size = [j \in DOMAIN f.blocks |-> Total(Linked!ConstantSizes(f.blocks[j]))]
    BY DEF Linked!BlockConstants, Total
  <2>. HIDE DEF size
  <2>2. DOMAIN size = DOMAIN f.blocks /\ size = [k \in DOMAIN size |-> size[k]]
        /\ \A k \in DOMAIN f.blocks : size[k] \in Nat
    BY <1>1, <2>1
  <2>3. Adds(size, f.blocks)
    BY <1>0, <2>2, SizesAdd
  <2>. QED
    BY <2>3 DEF size
<1>. QED
  BY <1>2, <1>3 DEF Adds, Linked!FunctionSize, Total

LEMMA ModuleSizesAdd ==
  ASSUME module \in Modules
  PROVE  /\ Adds(Linked!GlobalSizes, module.globals)
         /\ Adds(Linked!FunctionSizes, module.functions)
         /\ Adds(Linked!FunctionConstants, module.functions)
<1>1. /\ IsSequence(module.globals) /\ IsSequence(module.functions)
      /\ \A i \in DOMAIN module.globals : IsGlobal(module.globals[i])
      /\ \A i \in DOMAIN module.functions : IsFunction(module.functions[i])
  BY ModulesAssumption
<1>2. Adds(Linked!GlobalSizes, module.globals)
  <2>. DEFINE size == Linked!GlobalSizes
  <2>1. size = [i \in DOMAIN module.globals |-> Linked!GlobalSize(module.globals[i])]
    BY DEF Linked!GlobalSizes, Linked!Globals
  <2>2. \A i \in DOMAIN module.globals : Linked!GlobalSize(module.globals[i]) \in Nat
    BY <1>1, PieceSizesAdd
  <2>. HIDE DEF size
  <2>3. DOMAIN size = DOMAIN module.globals /\ size = [k \in DOMAIN size |-> size[k]]
        /\ \A i \in DOMAIN module.globals : size[i] \in Nat
    BY <2>1, <2>2
  <2>4. Adds(size, module.globals)
    BY <1>1, <2>3, SizesAdd
  <2>. QED
    BY <2>4 DEF size
<1>3. Adds(Linked!FunctionSizes, module.functions)
  <2>. DEFINE size == Linked!FunctionSizes
  <2>1. size = [i \in DOMAIN module.functions |-> Linked!FunctionSize(module.functions[i])]
    BY DEF Linked!FunctionSizes, Linked!Functions
  <2>2. \A i \in DOMAIN module.functions : Linked!FunctionSize(module.functions[i]) \in Nat
    BY <1>1, BlockSizesAdd
  <2>. HIDE DEF size
  <2>3. DOMAIN size = DOMAIN module.functions /\ size = [k \in DOMAIN size |-> size[k]]
        /\ \A i \in DOMAIN module.functions : size[i] \in Nat
    BY <2>1, <2>2
  <2>4. Adds(size, module.functions)
    BY <1>1, <2>3, SizesAdd
  <2>. QED
    BY <2>4 DEF size
<1>4. Adds(Linked!FunctionConstants, module.functions)
  <2>. DEFINE size == Linked!FunctionConstants
  <2>1. size = [i \in DOMAIN module.functions |->
                  Total(Linked!BlockConstants(module.functions[i]))]
    BY DEF Linked!FunctionConstants, Linked!Functions, Total
  <2>2. \A i \in DOMAIN module.functions :
          Total(Linked!BlockConstants(module.functions[i])) \in Nat
    BY <1>1, BlockSizesAdd DEF Adds
  <2>. HIDE DEF size
  <2>3. DOMAIN size = DOMAIN module.functions /\ size = [k \in DOMAIN size |-> size[k]]
        /\ \A i \in DOMAIN module.functions : size[i] \in Nat
    BY <2>1, <2>2
  <2>4. Adds(size, module.functions)
    BY <1>1, <2>3, SizesAdd
  <2>. QED
    BY <2>4 DEF size
<1>. QED
  BY <1>2, <1>3, <1>4

DataAfterGlobals == DataBase + Total(Linked!GlobalSizes)
EndOfCode == CodeBase + Total(Linked!FunctionSizes)
EndOfData == DataBase + Total(Linked!GlobalSizes) + Total(Linked!FunctionConstants)
ConstantsAt(i, j) ==
  Linked!ConstantsStart(i) + Offsets(Linked!BlockConstants(module.functions[i]))[j]

PiecesLaidOut(i) ==
  LET g == module.globals[i] IN
  /\ Linked!PieceStart(i, 1) = Linked!GlobalStart(i)
  /\ Linked!GlobalStart(i + 1) = Linked!PieceStart(i, Len(g.init) + 1)
  /\ \A k \in DOMAIN g.init :
       /\ Linked!PieceStart(i, k) \in Int
       /\ Linked!PieceStart(i, k + 1) = Linked!PieceStart(i, k) + PieceSize(g.init[k])
       /\ Linked!PieceStart(i, k + 1) <= DataAfterGlobals

GlobalsLaidOut ==
  /\ Linked!GlobalStart(1) = DataBase
  /\ Linked!GlobalStart(Len(module.globals) + 1) = DataAfterGlobals
  /\ \A i \in DOMAIN module.globals :
       /\ Linked!GlobalStart(i) \in Int
       /\ module.globals[i].weak => Linked!GlobalStart(i + 1) = Linked!GlobalStart(i)
       /\ ~module.globals[i].weak => PiecesLaidOut(i)

LEMMA GlobalsAreLaidOut == ASSUME module \in Modules PROVE GlobalsLaidOut
<1>. DEFINE gs == module.globals
            O == Offsets(Linked!GlobalSizes)
            T == Total(Linked!GlobalSizes)
            N == Len(gs)
<1>0. DataBase \in Nat
  BY AddressAssumption
<1>1. IsSequence(gs) /\ \A i \in DOMAIN gs : IsGlobal(gs[i])
  BY ModulesAssumption
<1>2. /\ O[1] = 0 /\ T \in Nat /\ O[N + 1] = T
      /\ \A i \in DOMAIN gs : O[i] \in Nat /\ O[i + 1] \in Nat /\ O[i + 1] <= T
                              /\ O[i + 1] = O[i] + Linked!GlobalSize(gs[i])
  <2>1. Adds(Linked!GlobalSizes, gs)
    BY ModuleSizesAdd
  <2>2. \A i \in DOMAIN gs : Linked!GlobalSizes[i] = Linked!GlobalSize(gs[i])
    BY DEF Linked!GlobalSizes, Linked!Globals
  <2>. QED
    BY <2>1, <2>2 DEF Adds
<1>3. \A i : Linked!GlobalStart(i) = DataBase + O[i]
  BY DEF Linked!GlobalStart, Offsets
<1>. HIDE DEF O, T, N
<1>4. /\ Linked!GlobalStart(1) = DataBase
      /\ Linked!GlobalStart(N + 1) = DataBase + T
  BY <1>0, <1>2, <1>3
<1>5. ASSUME NEW i \in DOMAIN gs
      PROVE  /\ Linked!GlobalStart(i) \in Int
             /\ gs[i].weak => Linked!GlobalStart(i + 1) = Linked!GlobalStart(i)
             /\ ~gs[i].weak => PiecesLaidOut(i)
  <2>1. Linked!GlobalStart(i) = DataBase + O[i] /\ O[i] \in Nat /\ O[i + 1] \in Nat
        /\ Linked!GlobalStart(i + 1) = DataBase + O[i + 1] /\ O[i + 1] <= T
        /\ O[i + 1] = O[i] + Linked!GlobalSize(gs[i])
    BY <1>2, <1>3
  <2>2. CASE gs[i].weak
    <3>1. Linked!GlobalSize(gs[i]) = 0
      BY <2>2 DEF Linked!GlobalSize
    <3>. QED
      BY <1>0, <2>1, <2>2, <3>1
  <2>3. CASE ~gs[i].weak
    <3>. DEFINE g == gs[i]
                P == Offsets(Linked!PieceSizes(g))
                U == Total(Linked!PieceSizes(g))
    <3>1. Linked!GlobalSize(g) = U
      BY <2>3 DEF Linked!GlobalSize, Total
    <3>2. /\ P[1] = 0 /\ U \in Nat /\ P[Len(g.init) + 1] = U
          /\ \A k \in DOMAIN g.init :
               /\ P[k] \in Nat /\ P[k + 1] \in Nat /\ P[k + 1] <= U
               /\ PieceSize(g.init[k]) \in Nat /\ P[k + 1] = P[k] + PieceSize(g.init[k])
      <4>1. Adds(Linked!PieceSizes(g), g.init)
        BY <1>1, PieceSizesAdd
      <4>2. \A k \in DOMAIN g.init : Linked!PieceSizes(g)[k] = PieceSize(g.init[k])
        BY DEF Linked!PieceSizes, Linked!PieceSize, PieceSize, WordSize
      <4>. QED
        BY <4>1, <4>2 DEF Adds
    <3>3. \A k : Linked!PieceStart(i, k) = Linked!GlobalStart(i) + P[k]
      BY DEF Linked!PieceStart, Offsets, Linked!Globals
    <3>. HIDE DEF P, U
    <3>4. Linked!PieceStart(i, 1) = Linked!GlobalStart(i)
          /\ Linked!GlobalStart(i + 1) = Linked!PieceStart(i, Len(g.init) + 1)
      BY <1>0, <2>1, <3>1, <3>2, <3>3
    <3>5. ASSUME NEW k \in DOMAIN g.init
          PROVE  /\ Linked!PieceStart(i, k) \in Int
                 /\ Linked!PieceStart(i, k + 1) = Linked!PieceStart(i, k) + PieceSize(g.init[k])
                 /\ Linked!PieceStart(i, k + 1) <= DataBase + T
      <4>. DEFINE n == PieceSize(g.init[k])
                  x == P[k]
      <4>1. x \in Nat /\ n \in Nat /\ P[k + 1] = x + n /\ x + n <= U
            /\ Linked!PieceStart(i, k) = Linked!GlobalStart(i) + x
            /\ Linked!PieceStart(i, k + 1) = Linked!GlobalStart(i) + P[k + 1]
        BY <3>2, <3>3
      <4>2. U = Linked!GlobalSize(gs[i]) /\ U \in Nat /\ T \in Nat
        BY <1>2, <3>1, <3>2
      <4>. HIDE DEF n, x
      <4>3. Linked!PieceStart(i, k) \in Int
            /\ Linked!PieceStart(i, k + 1) = Linked!PieceStart(i, k) + n
            /\ Linked!PieceStart(i, k + 1) <= DataBase + T
        BY <1>0, <2>1, <4>1, <4>2
      <4>. QED
        BY <4>3 DEF n
    <3>. QED
      BY <1>0, <2>1, <2>3, <3>4, <3>5 DEF PiecesLaidOut, DataAfterGlobals, T
  <2>. QED
    BY <2>2, <2>3, <1>1 DEF IsGlobal
<1>. QED
  BY <1>4, <1>5 DEF GlobalsLaidOut, DataAfterGlobals, T, N

ItemsLaidOut(i, j) ==
  LET b == module.functions[i].blocks[j] IN
  /\ Linked!BlockStart(i, j) \in Int
  /\ Linked!ItemStart(i, j, 1) = Linked!BlockStart(i, j)
  /\ Linked!BlockStart(i, j + 1) = Linked!ItemStart(i, j, Len(b) + 1)
  /\ \A k \in DOMAIN b :
       /\ Linked!ItemStart(i, j, k) \in Int
       /\ Linked!ItemStart(i, j, k + 1) = Linked!ItemStart(i, j, k) + ItemSize(b[k])
       /\ Linked!ItemStart(i, j, k + 1) <= EndOfCode

FunctionLaidOut(i) ==
  LET f == module.functions[i] IN
  IF f.blocks = << >>
  THEN Linked!FunctionStart(i + 1) =
         Linked!FunctionStart(i) + IF f.name = "llvm.nacl.read.tp" THEN 0 ELSE UndefinedStubSize
  ELSE /\ Linked!BlockStart(i, 1) = Linked!FunctionStart(i) + PrologSize
       /\ Linked!BlockStart(i, 1) <= EndOfCode
       /\ Linked!FunctionStart(i + 1) = Linked!BlockStart(i, Len(f.blocks) + 1)
       /\ \A j \in DOMAIN f.blocks : ItemsLaidOut(i, j)

CodeLaidOut ==
  /\ Linked!FunctionStart(1) = CodeBase
  /\ Linked!FunctionStart(Len(module.functions) + 1) = EndOfCode
  /\ \A i \in DOMAIN module.functions :
       /\ Linked!FunctionStart(i) \in Int
       /\ Linked!FunctionStart(i + 1) <= EndOfCode
       /\ FunctionLaidOut(i)

LEMMA CodeIsLaidOut == ASSUME module \in Modules PROVE CodeLaidOut
<1>. DEFINE fs == module.functions
            O == Offsets(Linked!FunctionSizes)
            T == Total(Linked!FunctionSizes)
            N == Len(fs)
<1>0. CodeBase \in Nat
  BY AddressAssumption
<1>1. IsSequence(fs) /\ \A i \in DOMAIN fs : IsFunction(fs[i])
  BY ModulesAssumption
<1>2. /\ O[1] = 0 /\ T \in Nat /\ O[N + 1] = T
      /\ \A i \in DOMAIN fs : O[i] \in Nat /\ O[i + 1] \in Nat /\ O[i + 1] <= T
                              /\ O[i + 1] = O[i] + Linked!FunctionSize(fs[i])
  <2>1. Adds(Linked!FunctionSizes, fs)
    BY ModuleSizesAdd
  <2>2. \A i \in DOMAIN fs : Linked!FunctionSizes[i] = Linked!FunctionSize(fs[i])
    BY DEF Linked!FunctionSizes, Linked!Functions
  <2>. QED
    BY <2>1, <2>2 DEF Adds
<1>3. \A i : Linked!FunctionStart(i) = CodeBase + O[i]
  BY DEF Linked!FunctionStart, Offsets
<1>. HIDE DEF O, T, N
<1>4. /\ Linked!FunctionStart(1) = CodeBase
      /\ Linked!FunctionStart(N + 1) = CodeBase + T
  BY <1>0, <1>2, <1>3
<1>5. ASSUME NEW i \in DOMAIN fs
      PROVE  /\ Linked!FunctionStart(i) \in Int
             /\ Linked!FunctionStart(i + 1) <= CodeBase + T
             /\ FunctionLaidOut(i)
  <2>. DEFINE f == fs[i]
              start == Linked!FunctionStart(i)
  <2>1. start = CodeBase + O[i] /\ O[i] \in Nat /\ O[i + 1] \in Nat
        /\ Linked!FunctionStart(i + 1) = CodeBase + O[i + 1] /\ O[i + 1] <= T
        /\ O[i + 1] = O[i] + Linked!FunctionSize(f)
    BY <1>2, <1>3
  <2>2. start \in Int /\ Linked!FunctionStart(i + 1) <= CodeBase + T
    BY <1>0, <1>2, <2>1
  <2>3. CASE f.blocks = << >>
    <3>1. Linked!FunctionSize(f) =
            IF f.name = "llvm.nacl.read.tp" THEN 0 ELSE UndefinedStubSize
      BY <2>3 DEF Linked!FunctionSize, Linked!IsTls, UndefinedStubSize
    <3>2. Linked!FunctionStart(i + 1) = start + Linked!FunctionSize(f)
          /\ Linked!FunctionSize(f) \in Nat
      <4>1. Linked!FunctionSize(f) \in Nat
        BY <1>1, BlockSizesAdd
      <4>. QED
        BY <1>0, <2>1, <4>1
    <3>. QED
      BY <2>2, <2>3, <3>1, <3>2 DEF FunctionLaidOut
  <2>4. CASE f.blocks # << >>
    <3>. DEFINE B == Offsets(Linked!BlockSizes(f))
                U == Total(Linked!BlockSizes(f))
                blockSize(j) == Total(Linked!ItemSizes(f.blocks[j]))
    <3>1. Linked!FunctionSize(f) = 9 + U
      BY <2>4 DEF Linked!FunctionSize, Linked!IsTls, Total
    <3>2. /\ B[1] = 0 /\ U \in Nat /\ B[Len(f.blocks) + 1] = U
          /\ \A j \in DOMAIN f.blocks :
               /\ B[j] \in Nat /\ B[j + 1] \in Nat /\ B[j + 1] <= U
               /\ B[j + 1] = B[j] + blockSize(j)
      <4>1. Adds(Linked!BlockSizes(f), f.blocks)
        BY <1>1, BlockSizesAdd
      <4>2. \A j \in DOMAIN f.blocks : Linked!BlockSizes(f)[j] = blockSize(j)
        BY DEF Linked!BlockSizes, Total
      <4>. QED
        BY <4>1, <4>2 DEF Adds
    <3>3. \A j : Linked!BlockStart(i, j) = start + 9 + B[j]
      BY DEF Linked!BlockStart, Offsets, Linked!Functions
    <3>. HIDE DEF B, U
    <3>6. /\ Linked!FunctionStart(i + 1) = start + 9 + U
          /\ start + 9 + U <= CodeBase + T /\ CodeBase + T \in Int
      <4>. DEFINE o == O[i]
      <4>1. o \in Nat /\ O[i + 1] = o + (9 + U) /\ start = CodeBase + o
        BY <2>1, <3>1
      <4>2. Linked!FunctionStart(i + 1) = CodeBase + O[i + 1] /\ O[i + 1] <= T
        BY <2>1
      <4>. HIDE DEF o, start
      <4>. QED
        BY <1>0, <1>2, <3>2, <4>1, <4>2
    <3>. HIDE DEF start
    <3>4. /\ Linked!BlockStart(i, 1) = start + 9
          /\ Linked!BlockStart(i, 1) <= CodeBase + T
          /\ Linked!FunctionStart(i + 1) = Linked!BlockStart(i, Len(f.blocks) + 1)
      BY <2>2, <3>2, <3>3, <3>6
    <3>5. ASSUME NEW j \in DOMAIN f.blocks
          PROVE  ItemsLaidOut(i, j)
      <4>. DEFINE b == f.blocks[j]
                  I == Offsets(Linked!ItemSizes(b))
                  V == blockSize(j)
      <4>1. /\ I[1] = 0 /\ V \in Nat /\ I[Len(b) + 1] = V
            /\ \A k \in DOMAIN b :
                 /\ I[k] \in Nat /\ I[k + 1] \in Nat /\ I[k + 1] <= V
                 /\ ItemSize(b[k]) \in Nat /\ I[k + 1] = I[k] + ItemSize(b[k])
        <5>1. Adds(Linked!ItemSizes(b), b)
          BY <1>1, ItemSizesAdd DEF IsFunction
        <5>2. \A k \in DOMAIN b : Linked!ItemSizes(b)[k] = ItemSize(b[k])
          BY DEF Linked!ItemSizes, Linked!ItemSize, ItemSize, WordSize
        <5>. QED
          BY <5>1, <5>2 DEF Adds
      <4>2. \A k : Linked!ItemStart(i, j, k) = Linked!BlockStart(i, j) + I[k]
        BY DEF Linked!ItemStart, Offsets, Linked!Blocks, Linked!Functions
      <4>. DEFINE S == Linked!BlockStart(i, j)
      <4>. DEFINE x == B[j]
                  y == B[j + 1]
                  end == Linked!BlockStart(i, j + 1)
      <4>3. S = start + 9 + x /\ x \in Nat /\ y = x + V /\ y <= U /\ end = start + 9 + y
        BY <3>2, <3>3
      <4>7. start \in Int /\ U \in Nat /\ V \in Nat
        BY <2>2, <3>2, <4>1
      <4>. HIDE DEF I, V, S, x, y, end
      <4>8. S \in Int /\ end = S + V /\ S + V <= CodeBase + T
        BY <3>6, <4>3, <4>7
      <4>4. S \in Int /\ Linked!BlockStart(i, j + 1) = S + V /\ S + V <= CodeBase + T
        BY <4>8 DEF end
      <4>5. /\ Linked!ItemStart(i, j, 1) = S
            /\ Linked!BlockStart(i, j + 1) = Linked!ItemStart(i, j, Len(b) + 1)
        BY <4>1, <4>2, <4>4 DEF S
      <4>6. ASSUME NEW k \in DOMAIN b
            PROVE  /\ Linked!ItemStart(i, j, k) \in Int
                   /\ Linked!ItemStart(i, j, k + 1) = Linked!ItemStart(i, j, k) + ItemSize(b[k])
                   /\ Linked!ItemStart(i, j, k + 1) <= CodeBase + T
        <5>. DEFINE n == ItemSize(b[k])
                    z == I[k]
        <5>1. z \in Nat /\ n \in Nat /\ I[k + 1] = z + n /\ z + n <= V
              /\ Linked!ItemStart(i, j, k) = S + z
              /\ Linked!ItemStart(i, j, k + 1) = S + I[k + 1]
          BY <4>1, <4>2 DEF S
        <5>. HIDE DEF n, z
        <5>2. Linked!ItemStart(i, j, k) \in Int
              /\ Linked!ItemStart(i, j, k + 1) = Linked!ItemStart(i, j, k) + n
              /\ Linked!ItemStart(i, j, k + 1) <= CodeBase + T
          BY <1>0, <1>2, <4>1, <4>4, <5>1
        <5>. QED
          BY <5>2 DEF n
      <4>. QED
        BY <4>4, <4>5, <4>6 DEF ItemsLaidOut, EndOfCode, T, S
    <3>. QED
      BY <2>2, <2>4, <3>4, <3>5 DEF FunctionLaidOut, EndOfCode, T, PrologSize, start
  <2>. QED
    BY <2>2, <2>3, <2>4
<1>. QED
  BY <1>4, <1>5 DEF CodeLaidOut, EndOfCode, T, N

ConstantsOfBlockLaidOut(i, j) ==
  LET b == module.functions[i].blocks[j] IN
  /\ ConstantsAt(i, j) \in Int
  /\ Linked!ConstantStart(i, j, 1) = ConstantsAt(i, j)
  /\ ConstantsAt(i, j + 1) = Linked!ConstantStart(i, j, Len(b) + 1)
  /\ \A k \in DOMAIN b :
       /\ Linked!ConstantStart(i, j, k) \in Int
       /\ Linked!ConstantStart(i, j, k + 1) =
            Linked!ConstantStart(i, j, k) + IF b[k].kind = "const" THEN ConstantSize ELSE 0
       /\ Linked!ConstantStart(i, j, k + 1) <= EndOfData

ConstantsLaidOut ==
  /\ Linked!ConstantsStart(1) = DataAfterGlobals
  /\ Linked!ConstantsStart(Len(module.functions) + 1) = EndOfData
  /\ DataAfterGlobals <= EndOfData
  /\ \A i \in DOMAIN module.functions :
       LET f == module.functions[i] IN
       /\ Linked!ConstantsStart(i) \in Int
       /\ ConstantsAt(i, 1) = Linked!ConstantsStart(i)
       /\ Linked!ConstantsStart(i + 1) = ConstantsAt(i, Len(f.blocks) + 1)
       /\ \A j \in DOMAIN f.blocks : ConstantsOfBlockLaidOut(i, j)

LEMMA ConstantsAreLaidOut == ASSUME module \in Modules PROVE ConstantsLaidOut
<1>. DEFINE fs == module.functions
            O == Offsets(Linked!FunctionConstants)
            T == Total(Linked!FunctionConstants)
            N == Len(fs)
            base == DataBase + Total(Linked!GlobalSizes)
<1>0. base \in Nat
  <2>1. Total(Linked!GlobalSizes) \in Nat
    BY ModuleSizesAdd DEF Adds
  <2>. QED
    BY <2>1, AddressAssumption
<1>1. IsSequence(fs) /\ \A i \in DOMAIN fs : IsFunction(fs[i])
  BY ModulesAssumption
<1>2. /\ O[1] = 0 /\ T \in Nat /\ O[N + 1] = T
      /\ \A i \in DOMAIN fs :
           /\ O[i] \in Nat /\ O[i + 1] \in Nat /\ O[i + 1] <= T
           /\ O[i + 1] = O[i] + Total(Linked!BlockConstants(fs[i]))
  <2>1. Adds(Linked!FunctionConstants, fs)
    BY ModuleSizesAdd
  <2>2. \A i \in DOMAIN fs :
          Linked!FunctionConstants[i] = Total(Linked!BlockConstants(fs[i]))
    BY DEF Linked!FunctionConstants, Linked!Functions, Total
  <2>. QED
    BY <2>1, <2>2 DEF Adds
<1>3. \A i : Linked!ConstantsStart(i) = base + O[i]
  BY DEF Linked!ConstantsStart, Offsets, Total
<1>7. EndOfData = base + T /\ DataAfterGlobals = base
  BY DEF EndOfData, DataAfterGlobals
<1>. HIDE DEF O, T, N, base
<1>4. /\ Linked!ConstantsStart(1) = base
      /\ Linked!ConstantsStart(N + 1) = base + T
      /\ base <= base + T
  BY <1>0, <1>2, <1>3
<1>5. ASSUME NEW i \in DOMAIN fs
      PROVE  LET f == fs[i] IN
             /\ Linked!ConstantsStart(i) \in Int
             /\ ConstantsAt(i, 1) = Linked!ConstantsStart(i)
             /\ Linked!ConstantsStart(i + 1) = ConstantsAt(i, Len(f.blocks) + 1)
             /\ \A j \in DOMAIN f.blocks : ConstantsOfBlockLaidOut(i, j)
  <2>. DEFINE f == fs[i]
              start == Linked!ConstantsStart(i)
              B == Offsets(Linked!BlockConstants(f))
              U == Total(Linked!BlockConstants(f))
              blockSize(j) == Total(Linked!ConstantSizes(f.blocks[j]))
  <2>1. start = base + O[i] /\ O[i] \in Nat /\ O[i + 1] = O[i] + U /\ O[i + 1] <= T
        /\ Linked!ConstantsStart(i + 1) = base + O[i + 1]
    BY <1>2, <1>3
  <2>2. /\ B[1] = 0 /\ U \in Nat /\ B[Len(f.blocks) + 1] = U
        /\ \A j \in DOMAIN f.blocks :
             /\ B[j] \in Nat /\ B[j + 1] \in Nat /\ B[j + 1] <= U
             /\ B[j + 1] = B[j] + blockSize(j)
    <3>1. Adds(Linked!BlockConstants(f), f.blocks)
      BY <1>1, BlockSizesAdd
    <3>2. \A j \in DOMAIN f.blocks : Linked!BlockConstants(f)[j] = blockSize(j)
      BY DEF Linked!BlockConstants, Total
    <3>. QED
      BY <3>1, <3>2 DEF Adds
  <2>3. \A j : ConstantsAt(i, j) = start + B[j]
    BY DEF ConstantsAt
  <2>. HIDE DEF B, U, start
  <2>4. /\ start \in Int /\ ConstantsAt(i, 1) = start
        /\ Linked!ConstantsStart(i + 1) = ConstantsAt(i, Len(f.blocks) + 1)
        /\ start + U <= base + T
    <3>. DEFINE x == O[i]
                y == O[i + 1]
    <3>1. start = base + x /\ x \in Nat /\ y = x + U /\ y <= T /\ T \in Nat /\ U \in Nat
          /\ Linked!ConstantsStart(i + 1) = base + y
      BY <1>2, <2>1, <2>2
    <3>2. /\ ConstantsAt(i, 1) = start + 0
          /\ ConstantsAt(i, Len(f.blocks) + 1) = start + U
      BY <2>2, <2>3
    <3>. HIDE DEF x, y
    <3>3. start \in Int /\ base + y = start + U /\ start + U <= base + T
      BY <1>0, <3>1
    <3>. QED
      BY <3>1, <3>2, <3>3
  <2>5. ASSUME NEW j \in DOMAIN f.blocks
        PROVE  ConstantsOfBlockLaidOut(i, j)
    <3>. DEFINE b == f.blocks[j]
                I == Offsets(Linked!ConstantSizes(b))
                V == blockSize(j)
                S == ConstantsAt(i, j)
                size(k) == IF b[k].kind = "const" THEN ConstantSize ELSE 0
    <3>1. /\ I[1] = 0 /\ V \in Nat /\ I[Len(b) + 1] = V
          /\ \A k \in DOMAIN b :
               /\ I[k] \in Nat /\ I[k + 1] \in Nat /\ I[k + 1] <= V
               /\ size(k) \in Nat /\ I[k + 1] = I[k] + size(k)
      <4>1. Adds(Linked!ConstantSizes(b), b)
        BY <1>1, ItemSizesAdd DEF IsFunction
      <4>2. \A k \in DOMAIN b : Linked!ConstantSizes(b)[k] = size(k)
        BY DEF Linked!ConstantSizes, ConstantSize
      <4>. QED
        BY <4>1, <4>2 DEF Adds
    <3>2. \A k : Linked!ConstantStart(i, j, k) = S + I[k]
      BY DEF Linked!ConstantStart, ConstantsAt, Offsets, Linked!Blocks, Linked!Functions
    <3>. DEFINE x == B[j]
                y == B[j + 1]
    <3>3. /\ S = start + x /\ x \in Nat /\ y = x + V /\ y <= U
          /\ ConstantsAt(i, j + 1) = start + y
      BY <2>2, <2>3
    <3>7. /\ start \in Int /\ U \in Nat /\ V \in Nat /\ T \in Nat
          /\ start + U <= base + T
      BY <1>2, <2>2, <2>4, <3>1
    <3>. HIDE DEF I, V, S, x, y
    <3>8. S \in Int /\ start + y = S + V /\ S + V <= base + T
      BY <1>0, <3>3, <3>7
    <3>4. S \in Int /\ ConstantsAt(i, j + 1) = S + V /\ S + V <= base + T
      BY <3>3, <3>8
    <3>5. /\ Linked!ConstantStart(i, j, 1) = S
          /\ ConstantsAt(i, j + 1) = Linked!ConstantStart(i, j, Len(b) + 1)
      BY <3>1, <3>2, <3>4
    <3>6. ASSUME NEW k \in DOMAIN b
          PROVE  /\ Linked!ConstantStart(i, j, k) \in Int
                 /\ Linked!ConstantStart(i, j, k + 1) = Linked!ConstantStart(i, j, k) + size(k)
                 /\ Linked!ConstantStart(i, j, k + 1) <= base + T
      <4>. DEFINE n == size(k)
                  z == I[k]
      <4>1. z \in Nat /\ n \in Nat /\ I[k + 1] = z + n /\ z + n <= V
            /\ Linked!ConstantStart(i, j, k) = S + z
            /\ Linked!ConstantStart(i, j, k + 1) = S + I[k + 1]
        BY <3>1, <3>2
      <4>. HIDE DEF n, z
      <4>2. Linked!ConstantStart(i, j, k) \in Int
            /\ Linked!ConstantStart(i, j, k + 1) = Linked!ConstantStart(i, j, k) + n
            /\ Linked!ConstantStart(i, j, k + 1) <= base + T
        BY <1>0, <1>2, <3>1, <3>4, <4>1
      <4>. QED
        BY <4>2 DEF n
    <3>. QED
      BY <1>7, <3>4, <3>5, <3>6 DEF ConstantsOfBlockLaidOut, S
  <2>. QED
    BY <2>4, <2>5 DEF start
<1>. QED
  BY <1>4, <1>5, <1>7 DEF ConstantsLaidOut, N

--------------------------------------------------------------------------------
(* Where generation stands: the positions are those of the closed form, ...  *)
AllPlaced == phase \in {"jumps", "refs", "done"}

AtPlace ==
  /\ phase = "globals" =>
       /\ fi \in 1 .. (Len(module.globals) + 1) /\ bi = 0 /\ code = CodeBase
       /\ ii = 0 => data = Linked!GlobalStart(fi)
       /\ ii # 0 =>
            /\ fi \in DOMAIN module.globals /\ ~Global.weak
            /\ ii \in 1 .. (Len(Global.init) + 1) /\ data = Linked!PieceStart(fi, ii)
  /\ phase = "functions" =>
       /\ fi \in 1 .. (Len(module.functions) + 1)
       /\ bi = 0 =>
            ii = 0 /\ code = Linked!FunctionStart(fi) /\ data = Linked!ConstantsStart(fi)
       /\ bi # 0 =>
            /\ fi \in DOMAIN module.functions /\ ~Declared
            /\ bi \in 1 .. (Len(Function.blocks) + 1) /\ entry = Linked!FunctionStart(fi)
            /\ ii = 0 => code = Linked!BlockStart(fi, bi) /\ data = ConstantsAt(fi, bi)
            /\ ii # 0 =>
                 /\ bi \in DOMAIN Function.blocks /\ ii \in 1 .. (Len(Block) + 1)
                 /\ code = Linked!ItemStart(fi, bi, ii)
                 /\ data = Linked!ConstantStart(fi, bi, ii)
  /\ AllPlaced => code = EndOfCode /\ data = EndOfData

(* ... and what lies before them has been placed.                           *)
GlobalDone(i) ==
  \/ phase = "functions" \/ AllPlaced
  \/ phase = "globals" /\ (i < fi \/ (i = fi /\ ii # 0))
PieceDone(i, k) ==
  \/ phase = "functions" \/ AllPlaced
  \/ phase = "globals" /\ (i < fi \/ (i = fi /\ k < ii))
FunctionDone(i) == AllPlaced \/ (phase = "functions" /\ i < fi)
LabelDone(i, j) ==
  \/ AllPlaced
  \/ /\ phase = "functions"
     /\ i < fi \/ (i = fi /\ (j < bi \/ (j = bi /\ ii # 0)))
ItemDone(i, j, k) ==
  \/ AllPlaced
  \/ /\ phase = "functions"
     /\ i < fi \/ (i = fi /\ (j < bi \/ (j = bi /\ k < ii)))

GlobalPlaced(i) ==
  LET g == module.globals[i] IN
  /\ g.name \in DOMAIN globals
  /\ globals[g.name] = IF g.weak THEN 0 ELSE Linked!GlobalStart(i)
  /\ g.weak => g.name \in WeakSymbols
FunctionPlaced(i) ==
  LET f == module.functions[i] IN
  /\ f.name \in DOMAIN globals
  /\ globals[f.name] = IF Linked!IsTls(f) THEN RuntimeTlsGet ELSE Linked!FunctionStart(i)
ModuleNames ==
  { module.globals[i].name : i \in DOMAIN module.globals } \cup
    { module.functions[i].name : i \in DOMAIN module.functions }

SymbolsPlaced ==
  /\ \A i \in DOMAIN module.globals : GlobalDone(i) => GlobalPlaced(i)
  /\ \A i \in DOMAIN module.functions : FunctionDone(i) => FunctionPlaced(i)
  /\ DOMAIN globals \subseteq ModuleNames

LabelsPlaced ==
  \A i \in DOMAIN module.functions : \A j \in DOMAIN module.functions[i].blocks :
    LabelDone(i, j) =>
      <<i, j>> \in DOMAIN labels /\ labels[<<i, j>>] = Linked!BlockStart(i, j)

HoldsReference(a, r) ==
  a \in DOMAIN mem /\ a \in DOMAIN refs /\ refs[a] = [symbol |-> r.symbol, offset |-> r.offset]

HoldsItem(a, i, it, constant) ==
  /\ it.kind # "op" => a \in DOMAIN mem
  /\ it.kind = "jump" => a \in DOMAIN jumps /\ jumps[a] = <<i, it.dest>>
  /\ it.kind = "ref" => HoldsReference(a, it)
  /\ it.kind \in {"call", "const"} =>
       /\ a \notin DOMAIN jumps /\ a \notin DOMAIN refs
       /\ mem[a] = IF it.kind = "call" THEN Minus(it.target, a + WordSize) ELSE constant

ItemsPlaced ==
  \A i \in DOMAIN module.functions : \A j \in DOMAIN module.functions[i].blocks :
    \A k \in DOMAIN module.functions[i].blocks[j] :
      ItemDone(i, j, k) =>
        HoldsItem(Linked!ItemStart(i, j, k), i, module.functions[i].blocks[j][k],
                  Linked!ConstantStart(i, j, k))

PiecesPlaced ==
  \A i \in DOMAIN module.globals : \A k \in DOMAIN module.globals[i].init :
    PieceDone(i, k) /\ module.globals[i].init[k].kind = "ref" =>
      HoldsReference(Linked!PieceStart(i, k), module.globals[i].init[k])

ItemSites ==
  { a \in Int : \E i \in DOMAIN module.functions : \E j \in DOMAIN module.functions[i].blocks :
                  \E k \in DOMAIN module.functions[i].blocks[j] :
                    /\ module.functions[i].blocks[j][k].kind # "op"
                    /\ a = Linked!ItemStart(i, j, k) }
PieceSites ==
  { a \in Int : \E i \in DOMAIN module.globals : \E k \in DOMAIN module.globals[i].init :
                  module.globals[i].init[k].kind = "ref" /\ a = Linked!PieceStart(i, k) }
OnlyPlaces == \A a \in DOMAIN mem : a \in ItemSites \/ a \in PieceSites

PlacesInv ==
  /\ IInv /\ AtPlace /\ SymbolsPlaced /\ LabelsPlaced
  /\ ItemsPlaced /\ PiecesPlaced /\ OnlyPlaces

(* The closed form is that of the module, which stays.                      *)
LEMMA SameLayout ==
  ASSUME module' = module
  PROVE  /\ \A i : /\ Linked!GlobalStart(i)' = Linked!GlobalStart(i)
                   /\ Linked!FunctionStart(i)' = Linked!FunctionStart(i)
                   /\ Linked!ConstantsStart(i)' = Linked!ConstantsStart(i)
         /\ \A i, j : /\ Linked!PieceStart(i, j)' = Linked!PieceStart(i, j)
                      /\ Linked!BlockStart(i, j)' = Linked!BlockStart(i, j)
                      /\ ConstantsAt(i, j)' = ConstantsAt(i, j)
         /\ \A i, j, k : /\ Linked!ItemStart(i, j, k)' = Linked!ItemStart(i, j, k)
                         /\ Linked!ConstantStart(i, j, k)' = Linked!ConstantStart(i, j, k)
         /\ EndOfCode' = EndOfCode /\ EndOfData' = EndOfData
<1>1. /\ Linked!GlobalSizes' = Linked!GlobalSizes
      /\ Linked!FunctionSizes' = Linked!FunctionSizes
      /\ Linked!FunctionConstants' = Linked!FunctionConstants
      /\ Linked!Globals' = Linked!Globals
      /\ Linked!Functions' = Linked!Functions
  BY DEF Linked!Globals, Linked!Functions, Linked!GlobalSizes, Linked!FunctionSizes,
         Linked!FunctionConstants
<1>. QED
  BY <1>1
     DEF Linked!GlobalStart, Linked!PieceStart, Linked!FunctionStart, Linked!BlockStart,
         Linked!ItemStart, Linked!ConstantsStart, Linked!ConstantStart, ConstantsAt,
         Linked!Blocks, EndOfCode, EndOfData

LEMMA CurrentSequences ==
  ASSUME module \in Modules
  PROVE  /\ DOMAIN module.globals = 1 .. Len(module.globals) /\ Len(module.globals) \in Nat
         /\ DOMAIN module.functions = 1 .. Len(module.functions)
         /\ Len(module.functions) \in Nat
         /\ \A i \in DOMAIN module.globals :
              LET s == module.globals[i].init IN DOMAIN s = 1 .. Len(s) /\ Len(s) \in Nat
         /\ \A i \in DOMAIN module.functions :
              LET f == module.functions[i] IN
              /\ DOMAIN f.blocks = 1 .. Len(f.blocks) /\ Len(f.blocks) \in Nat
              /\ f.blocks # << >> => 1 \in DOMAIN f.blocks
              /\ \A j \in DOMAIN f.blocks :
                   DOMAIN f.blocks[j] = 1 .. Len(f.blocks[j]) /\ Len(f.blocks[j]) \in Nat
<1>1. /\ IsSequence(module.globals) /\ IsSequence(module.functions)
      /\ \A i \in DOMAIN module.globals : IsGlobal(module.globals[i])
      /\ \A i \in DOMAIN module.functions : IsFunction(module.functions[i])
  BY ModulesAssumption
<1>2. \A i \in DOMAIN module.globals :
        LET s == module.globals[i].init IN DOMAIN s = 1 .. Len(s) /\ Len(s) \in Nat
  BY <1>1, SequenceFacts DEF IsGlobal
<1>3. ASSUME NEW i \in DOMAIN module.functions
      PROVE  LET f == module.functions[i] IN
             /\ DOMAIN f.blocks = 1 .. Len(f.blocks) /\ Len(f.blocks) \in Nat
             /\ f.blocks # << >> => 1 \in DOMAIN f.blocks
             /\ \A j \in DOMAIN f.blocks :
                  DOMAIN f.blocks[j] = 1 .. Len(f.blocks[j]) /\ Len(f.blocks[j]) \in Nat
  <2>. DEFINE bs == module.functions[i].blocks
  <2>1. IsSequence(bs) /\ \A j \in DOMAIN bs : IsSequence(bs[j])
    BY <1>1 DEF IsFunction
  <2>. HIDE DEF bs
  <2>2. bs # << >> => 1 \in DOMAIN bs
    <3>1. bs \in Seq({ bs[k] : k \in DOMAIN bs })
      BY <2>1 DEF IsSequence
    <3>. QED
      BY <3>1
  <2>3. DOMAIN bs = 1 .. Len(bs) /\ Len(bs) \in Nat
        /\ \A j \in DOMAIN bs : DOMAIN bs[j] = 1 .. Len(bs[j]) /\ Len(bs[j]) \in Nat
    BY <2>1, SequenceFacts
  <2>. QED
    BY <2>2, <2>3 DEF bs
<1>. QED
  BY <1>1, <1>2, <1>3, SequenceFacts

(* What the current item adds to the positions.                             *)
LEMMA ItemStep ==
  ASSUME Typed, AtPlace, AtItem
  PROVE  /\ phase = "functions" /\ fi \in DOMAIN module.functions /\ ~Declared
         /\ bi # 0 /\ ii # 0 /\ bi \in DOMAIN Function.blocks /\ ii + 1 \in 1 .. (Len(Block) + 1)
         /\ ii + 1 # 0
         /\ code = Linked!ItemStart(fi, bi, ii) /\ data = Linked!ConstantStart(fi, bi, ii)
         /\ Linked!ItemStart(fi, bi, ii + 1) = code + ItemSize(Item)
         /\ Linked!ConstantStart(fi, bi, ii + 1) =
              data + IF Item.kind = "const" THEN ConstantSize ELSE 0
         /\ Linked!ItemStart(fi, bi, ii + 1) <= EndOfCode
         /\ Linked!ConstantStart(fi, bi, ii + 1) <= EndOfData
<1>1. /\ phase = "functions" /\ fi \in DOMAIN module.functions
      /\ bi \in DOMAIN Function.blocks /\ ii \in DOMAIN Block
  BY DEF AtItem, AtBlock, AtFunction
<1>2. /\ DOMAIN Function.blocks = 1 .. Len(Function.blocks)
      /\ DOMAIN Block = 1 .. Len(Block) /\ Len(Block) \in Nat
  BY <1>1, CurrentSequences DEF Typed, Function, Block
<1>3. bi # 0 /\ ii # 0 /\ ii \in Nat /\ bi \in Nat /\ ii + 1 \in 1 .. (Len(Block) + 1)
  BY <1>1, <1>2 DEF Typed, TypeOK
<1>4. code = Linked!ItemStart(fi, bi, ii) /\ data = Linked!ConstantStart(fi, bi, ii)
      /\ ~Declared
  BY <1>1, <1>3 DEF AtPlace
<1>5. ItemsLaidOut(fi, bi)
  BY <1>1, <1>4, CodeIsLaidOut DEF CodeLaidOut, FunctionLaidOut, Typed, Declared, Function
<1>6. ConstantsOfBlockLaidOut(fi, bi)
  BY <1>1, ConstantsAreLaidOut DEF ConstantsLaidOut, Typed, Function
<1>7. /\ Linked!ItemStart(fi, bi, ii + 1) = code + ItemSize(Item)
      /\ Linked!ItemStart(fi, bi, ii + 1) <= EndOfCode
  BY <1>1, <1>4, <1>5 DEF ItemsLaidOut, Item, Block, Function
<1>8. /\ Linked!ConstantStart(fi, bi, ii + 1) =
           data + IF Item.kind = "const" THEN ConstantSize ELSE 0
      /\ Linked!ConstantStart(fi, bi, ii + 1) <= EndOfData
  BY <1>1, <1>4, <1>6 DEF ConstantsOfBlockLaidOut, Item, Block, Function
<1>. QED
  BY <1>1, <1>3, <1>4, <1>7, <1>8

LEMMA PieceStep ==
  ASSUME Typed, AtPlace, AtGlobal, ~Global.weak
  PROVE  /\ PiecesLaidOut(fi)
         /\ ii = 0 => data = Linked!GlobalStart(fi)
         /\ ii # 0 => data = Linked!PieceStart(fi, ii)
         /\ ii \in DOMAIN Global.init =>
              /\ ii # 0 /\ ii + 1 \in 1 .. (Len(Global.init) + 1) /\ ii + 1 # 0
              /\ Linked!PieceStart(fi, ii + 1) = data + PieceSize(Global.init[ii])
              /\ Linked!PieceStart(fi, ii + 1) <= DataAfterGlobals
<1>1. phase = "globals" /\ fi \in DOMAIN module.globals
  BY DEF AtGlobal
<1>2. PiecesLaidOut(fi)
  BY <1>1, GlobalsAreLaidOut DEF GlobalsLaidOut, Global, Typed
<1>3. DOMAIN Global.init = 1 .. Len(Global.init) /\ Len(Global.init) \in Nat
  BY <1>1, CurrentSequences DEF Typed, Global
<1>4. (ii = 0 => data = Linked!GlobalStart(fi)) /\ (ii # 0 => data = Linked!PieceStart(fi, ii))
  BY <1>1 DEF AtPlace
<1>5. ASSUME ii \in DOMAIN Global.init
      PROVE  /\ ii # 0 /\ ii + 1 \in 1 .. (Len(Global.init) + 1) /\ ii + 1 # 0
             /\ Linked!PieceStart(fi, ii + 1) = data + PieceSize(Global.init[ii])
             /\ Linked!PieceStart(fi, ii + 1) <= DataAfterGlobals
  <2>1. ii # 0 /\ ii + 1 \in 1 .. (Len(Global.init) + 1) /\ ii + 1 # 0
    BY <1>3, <1>5
  <2>. QED
    BY <1>2, <1>4, <1>5, <2>1 DEF PiecesLaidOut, Global
<1>. QED
  BY <1>2, <1>4, <1>5

LEMMA AtPlaceInGlobals ==
  ASSUME Typed, AtPlace,
         StartGlobal \/ WritePiece \/ FinishGlobal \/ PlaceWeakGlobal \/ StartFunctions
  PROVE  AtPlace'
<1>. DEFINE N == Len(module.globals)
<1>1. /\ module' = module /\ module \in Modules /\ phase = "globals" /\ code' = code /\ bi = 0
      /\ code = CodeBase /\ fi \in 1 .. (N + 1) /\ DOMAIN module.globals = 1 .. N /\ N \in Nat
  <2>1. module \in Modules
    BY DEF Typed
  <2>2. phase = "globals" /\ module' = module /\ code' = code
    BY DEF AtGlobal, StartGlobal, WritePiece, FinishGlobal, PlaceWeakGlobal, StartFunctions,
           buffers
  <2>3. fi \in 1 .. (N + 1) /\ bi = 0 /\ code = CodeBase
    BY <2>2 DEF AtPlace
  <2>. QED
    BY <2>1, <2>2, <2>3, CurrentSequences
<1>2. CASE StartGlobal \/ WritePiece
  <2>1. /\ AtGlobal /\ ~Global.weak /\ fi' = fi /\ bi' = bi /\ phase' = phase
        /\ fi \in DOMAIN module.globals
    BY <1>2 DEF StartGlobal, WritePiece, AtGlobal
  <2>2. Len(Global.init) \in Nat
    BY <1>1, <2>1, CurrentSequences DEF Global
  <2>3. /\ ii' # 0 /\ ii' \in 1 .. (Len(Global.init) + 1)
        /\ data' = Linked!PieceStart(fi, ii')
    <3>1. CASE StartGlobal
      <4>1. ii = 0 /\ ii' = 1 /\ data' = data
        BY <3>1 DEF StartGlobal, buffers
      <4>2. data = Linked!GlobalStart(fi) /\ Linked!PieceStart(fi, 1) = Linked!GlobalStart(fi)
        BY <2>1, <4>1, PieceStep DEF PiecesLaidOut
      <4>. QED
        BY <2>2, <4>1, <4>2
    <3>2. CASE WritePiece
      <4>1. /\ ii \in DOMAIN Global.init /\ ii' = ii + 1
            /\ data' = data + PieceSize(Global.init[ii])
        BY <3>2 DEF WritePiece
      <4>. QED
        BY <2>1, <4>1, PieceStep
    <3>. QED
      BY <1>2, <3>1, <3>2
  <2>. QED
    BY <1>1, <2>1, <2>3, SameLayout DEF AtPlace, AllPlaced, Global
<1>3. CASE FinishGlobal \/ PlaceWeakGlobal
  <2>1. /\ AtGlobal /\ fi' = fi + 1 /\ bi' = bi /\ phase' = phase /\ data' = data
        /\ fi \in DOMAIN module.globals
    BY <1>3 DEF FinishGlobal, PlaceWeakGlobal, AtGlobal, buffers
  <2>2. ii' = 0 /\ data = Linked!GlobalStart(fi + 1)
    <3>1. CASE FinishGlobal
      <4>1. ~Global.weak /\ ii = Len(Global.init) + 1 /\ ii' = 0 /\ Len(Global.init) \in Nat
        BY <1>1, <2>1, <3>1, CurrentSequences DEF FinishGlobal, Global
      <4>2. ii # 0 /\ data = Linked!PieceStart(fi, ii) /\ PiecesLaidOut(fi)
        BY <2>1, <4>1, PieceStep
      <4>. QED
        BY <4>1, <4>2 DEF PiecesLaidOut, Global
    <3>2. CASE PlaceWeakGlobal
      <4>1. Global.weak /\ ii' = ii
        BY <3>2 DEF PlaceWeakGlobal
      <4>2. ii = 0 /\ data = Linked!GlobalStart(fi)
        BY <1>1, <4>1 DEF AtPlace
      <4>. QED
        BY <1>1, <2>1, <4>1, <4>2, GlobalsAreLaidOut DEF GlobalsLaidOut, Global
    <3>. QED
      BY <1>3, <3>1, <3>2
  <2>3. fi + 1 \in 1 .. (N + 1)
    BY <1>1, <2>1
  <2>. QED
    BY <1>1, <2>1, <2>2, <2>3, SameLayout DEF AtPlace, AllPlaced
<1>4. CASE StartFunctions
  <2>1. /\ phase' = "functions" /\ fi' = 1 /\ bi' = 0 /\ ii' = 0 /\ data' = data
        /\ fi \notin DOMAIN module.globals
    BY <1>4 DEF StartFunctions, buffers
  <2>2. fi = N + 1 /\ ii = 0
    BY <1>1, <2>1 DEF AtPlace
  <2>3. data = DataAfterGlobals
    BY <1>1, <2>2, GlobalsAreLaidOut DEF AtPlace, GlobalsLaidOut
  <2>4. 1 \in 1 .. (Len(module.functions) + 1)
    BY <1>1, CurrentSequences
  <2>5. CodeBase = Linked!FunctionStart(1) /\ DataAfterGlobals = Linked!ConstantsStart(1)
    BY <1>1, CodeIsLaidOut, ConstantsAreLaidOut DEF CodeLaidOut, ConstantsLaidOut
  <2>. QED
    BY <1>1, <2>1, <2>3, <2>4, <2>5, SameLayout DEF AtPlace, AllPlaced
<1>. QED
  BY <1>2, <1>3, <1>4

LEMMA AtPlaceInFunctions ==
  ASSUME Typed, AtPlace,
         \/ DeclareFunction \/ StartFunction \/ MakeLabel \/ FinishBlock \/ FinishFunction
         \/ StartLinking
  PROVE  AtPlace'
<1>. DEFINE N == Len(module.functions)
<1>1. /\ module' = module /\ module \in Modules /\ phase = "functions" /\ data' = data
      /\ fi \in 1 .. (N + 1) /\ DOMAIN module.functions = 1 .. N /\ N \in Nat
      /\ fi \in Nat /\ bi \in Nat
  <2>1. module \in Modules /\ fi \in Nat /\ bi \in Nat
    BY DEF Typed, TypeOK
  <2>2. phase = "functions" /\ module' = module /\ data' = data
    BY DEF AtFunction, AtBlock, DeclareFunction, StartFunction, MakeLabel, FinishBlock,
           FinishFunction, StartLinking, buffers
  <2>3. fi \in 1 .. (N + 1)
    BY <2>2 DEF AtPlace
  <2>. QED
    BY <2>1, <2>2, <2>3, CurrentSequences
<1>0. ASSUME AtFunction
      PROVE  /\ fi \in DOMAIN module.functions /\ FunctionLaidOut(fi)
             /\ DOMAIN Function.blocks = 1 .. Len(Function.blocks)
             /\ Len(Function.blocks) \in Nat
             /\ ~Declared => 1 \in DOMAIN Function.blocks
             /\ ConstantsAt(fi, 1) = Linked!ConstantsStart(fi)
             /\ Linked!ConstantsStart(fi + 1) = ConstantsAt(fi, Len(Function.blocks) + 1)
             /\ \A j \in DOMAIN Function.blocks :
                  /\ ConstantsOfBlockLaidOut(fi, j)
                  /\ Len(Function.blocks[j]) \in Nat
  BY <1>0, <1>1, CodeIsLaidOut, ConstantsAreLaidOut, CurrentSequences
     DEF AtFunction, Function, CodeLaidOut, ConstantsLaidOut, Declared
<1>2. CASE DeclareFunction
  <2>1. AtFunction /\ Declared /\ fi' = fi + 1 /\ bi' = bi /\ ii' = ii /\ phase' = phase
        /\ code' = code + IF Function.name = "llvm.nacl.read.tp" THEN 0 ELSE UndefinedStubSize
    <3>1. code \in Int
      BY AddressAssumption DEF Typed, TypeOK
    <3>. QED
      BY <1>2, <3>1 DEF DeclareFunction
  <2>2. bi = 0 /\ ii = 0 /\ code = Linked!FunctionStart(fi) /\ data = Linked!ConstantsStart(fi)
    BY <1>1, <2>1 DEF AtPlace
  <2>3. code' = Linked!FunctionStart(fi + 1)
    BY <2>1, <2>2, <1>0 DEF FunctionLaidOut, Declared, Function
  <2>4. data = Linked!ConstantsStart(fi + 1)
    <3>1. Len(Function.blocks) + 1 = 1
      BY <2>1 DEF Declared
    <3>. QED
      BY <2>1, <2>2, <3>1, <1>0
  <2>5. fi + 1 \in 1 .. (N + 1)
    BY <1>0, <1>1, <2>1
  <2>. QED
    BY <1>1, <2>1, <2>2, <2>3, <2>4, <2>5, SameLayout DEF AtPlace, AllPlaced
<1>3. CASE StartFunction
  <2>1. /\ AtFunction /\ ~Declared /\ bi = 0 /\ fi' = fi /\ bi' = 1 /\ ii' = 0
        /\ phase' = phase /\ code' = code + PrologSize /\ entry' = code
    BY <1>3 DEF StartFunction
  <2>2. code = Linked!FunctionStart(fi) /\ data = Linked!ConstantsStart(fi)
    BY <1>1, <2>1 DEF AtPlace
  <2>3. code' = Linked!BlockStart(fi, 1)
    BY <2>1, <2>2, <1>0 DEF FunctionLaidOut, Declared, Function
  <2>4. data = ConstantsAt(fi, 1) /\ 1 \in 1 .. (Len(Function.blocks) + 1)
    BY <2>1, <2>2, <1>0
  <2>5. fi \in DOMAIN module.functions
    BY <2>1, <1>0
  <2>. QED
    BY <1>1, <2>1, <2>2, <2>3, <2>4, <2>5, SameLayout
       DEF AtPlace, AllPlaced, Declared, Function
<1>4. CASE MakeLabel
  <2>1. /\ AtFunction /\ bi \in DOMAIN Function.blocks /\ fi' = fi /\ bi' = bi /\ ii = 0
        /\ ii' = 1 /\ phase' = phase /\ code' = code /\ entry' = entry
    BY <1>4 DEF MakeLabel, AtBlock, buffers
  <2>2. bi # 0
    BY <2>1, <1>0
  <2>3. /\ ~Declared /\ bi \in 1 .. (Len(Function.blocks) + 1)
        /\ entry = Linked!FunctionStart(fi)
        /\ code = Linked!BlockStart(fi, bi) /\ data = ConstantsAt(fi, bi)
    BY <1>1, <2>1, <2>2 DEF AtPlace
  <2>4. Linked!ItemStart(fi, bi, 1) = code
    BY <2>1, <2>3, <1>0 DEF FunctionLaidOut, ItemsLaidOut, Declared, Function
  <2>5. Linked!ConstantStart(fi, bi, 1) = data
    BY <2>1, <2>3, <1>0 DEF ConstantsOfBlockLaidOut
  <2>6. fi \in DOMAIN module.functions /\ 1 \in 1 .. (Len(Block) + 1)
    BY <2>1, <1>0 DEF Block
  <2>. QED
    BY <1>1, <2>1, <2>2, <2>3, <2>4, <2>5, <2>6, SameLayout
       DEF AtPlace, AllPlaced, Declared, Function, Block
<1>5. CASE FinishBlock
  <2>1. /\ AtFunction /\ bi \in DOMAIN Function.blocks /\ fi' = fi /\ bi' = bi + 1
        /\ ii = Len(Block) + 1 /\ ii' = 0 /\ phase' = phase /\ code' = code /\ entry' = entry
    BY <1>5 DEF FinishBlock, AtBlock, buffers
  <2>2. bi # 0 /\ bi + 1 # 0 /\ ii # 0 /\ bi + 1 \in 1 .. (Len(Function.blocks) + 1)
    BY <1>1, <2>1, <1>0 DEF Block
  <2>3. /\ ~Declared /\ entry = Linked!FunctionStart(fi)
        /\ code = Linked!ItemStart(fi, bi, ii) /\ data = Linked!ConstantStart(fi, bi, ii)
    BY <1>1, <2>1, <2>2 DEF AtPlace
  <2>4. Linked!BlockStart(fi, bi + 1) = code
    BY <2>1, <2>3, <1>0 DEF FunctionLaidOut, ItemsLaidOut, Declared, Function, Block
  <2>5. ConstantsAt(fi, bi + 1) = data
    BY <2>1, <2>3, <1>0 DEF ConstantsOfBlockLaidOut, Function, Block
  <2>6. fi \in DOMAIN module.functions
    BY <2>1, <1>0
  <2>. QED
    BY <1>1, <2>1, <2>2, <2>3, <2>4, <2>5, <2>6, SameLayout
       DEF AtPlace, AllPlaced, Declared, Function
<1>6. CASE FinishFunction
  <2>1. /\ AtFunction /\ ~Declared /\ bi = Len(Function.blocks) + 1 /\ fi' = fi + 1
        /\ bi' = 0 /\ ii' = ii /\ phase' = phase /\ code' = code
    BY <1>6 DEF FinishFunction, buffers
  <2>2. bi # 0 /\ bi \notin DOMAIN Function.blocks
    BY <2>1, <1>0
  <2>3. ii = 0 /\ code = Linked!BlockStart(fi, bi) /\ data = ConstantsAt(fi, bi)
    BY <1>1, <2>2 DEF AtPlace
  <2>4. code = Linked!FunctionStart(fi + 1) /\ data = Linked!ConstantsStart(fi + 1)
    BY <2>1, <2>3, <1>0 DEF FunctionLaidOut, Declared, Function
  <2>5. fi + 1 \in 1 .. (N + 1)
    BY <1>0, <1>1, <2>1
  <2>. QED
    BY <1>1, <2>1, <2>3, <2>4, <2>5, SameLayout DEF AtPlace, AllPlaced
<1>7. CASE StartLinking
  <2>1. phase' = "jumps" /\ fi \notin DOMAIN module.functions /\ code' = code
    BY <1>7 DEF StartLinking, buffers
  <2>2. fi = N + 1 /\ bi = 0
    BY <1>1, <2>1 DEF AtPlace
  <2>3. code = EndOfCode /\ data = EndOfData
    BY <1>1, <2>2, CodeIsLaidOut, ConstantsAreLaidOut
       DEF AtPlace, CodeLaidOut, ConstantsLaidOut
  <2>. QED
    BY <1>1, <2>1, <2>3, SameLayout DEF AtPlace, AllPlaced
<1>. QED
  BY <1>2, <1>3, <1>4, <1>5, <1>6, <1>7

Puts == PutOp \/ PutJump \/ PutDirectCall \/ PutGlobalRef \/ PutConstant

LEMMA PutMoves ==
  ASSUME Typed, Puts
  PROVE  /\ AtItem /\ ii' = ii + 1 /\ code' = code + ItemSize(Item)
         /\ data' = data + IF Item.kind = "const" THEN ConstantSize ELSE 0
         /\ UNCHANGED <<module, phase, fi, bi, entry, labels, globals>>
<1>1. data \in Int /\ code \in Int
  BY AddressAssumption DEF Typed, TypeOK
<1>. QED
  BY <1>1 DEF Puts, PutOp, PutJump, PutDirectCall, PutGlobalRef, PutConstant, ItemSize, tables

LEMMA AtPlaceNext ==
  ASSUME Typed, AtPlace, [Next]_vars
  PROVE  AtPlace'
<1>1. CASE Puts
  <2>1. /\ phase = "functions" /\ fi \in DOMAIN module.functions /\ ~Declared
        /\ bi # 0 /\ bi \in DOMAIN Function.blocks /\ ii + 1 \in 1 .. (Len(Block) + 1)
        /\ ii + 1 # 0
        /\ code' = Linked!ItemStart(fi, bi, ii + 1)
        /\ data' = Linked!ConstantStart(fi, bi, ii + 1)
    BY <1>1, PutMoves, ItemStep
  <2>2. /\ fi \in 1 .. (Len(module.functions) + 1) /\ entry = Linked!FunctionStart(fi)
        /\ bi \in 1 .. (Len(Function.blocks) + 1)
    BY <2>1 DEF AtPlace
  <2>3. ii' = ii + 1 /\ UNCHANGED <<module, phase, fi, bi, entry>>
    BY <1>1, PutMoves
  <2>. QED
    BY <2>1, <2>2, <2>3, SameLayout DEF AtPlace, AllPlaced, Declared, Function, Block
<1>2. CASE ApplyJump \/ FinishJumps \/ ApplyRef \/ FinishRefs
  <2>1. AllPlaced /\ AllPlaced' /\ UNCHANGED <<module, code, data>>
    BY <1>2 DEF ApplyJump, FinishJumps, ApplyRef, FinishRefs, AllPlaced, buffers
  <2>. QED
    BY <2>1, SameLayout DEF AtPlace, AllPlaced
<1>3. CASE Abort
  BY <1>3 DEF Abort, AtPlace, AllPlaced
<1>4. CASE UNCHANGED vars
  <2>1. UNCHANGED <<module, phase, fi, bi, ii, code, data, entry>>
    BY <1>4 DEF vars
  <2>. QED
    BY <2>1, SameLayout DEF AtPlace, AllPlaced, Declared, Function, Block, Global
<1>. QED
  BY <1>1, <1>2, <1>3, <1>4, AtPlaceInGlobals, AtPlaceInFunctions DEF Next, Stopped, Puts

--------------------------------------------------------------------------------
(* What a step places.                                                      *)
NothingElseDone ==
  /\ \A i \in DOMAIN module.globals :
       GlobalDone(i)' => GlobalDone(i) \/ (i = fi /\ (StartGlobal \/ PlaceWeakGlobal))
  /\ \A i \in DOMAIN module.globals : \A k \in DOMAIN module.globals[i].init :
       PieceDone(i, k)' => PieceDone(i, k) \/ (i = fi /\ k = ii /\ WritePiece)
  /\ \A i \in DOMAIN module.functions :
       FunctionDone(i)' => FunctionDone(i) \/ (i = fi /\ (DeclareFunction \/ FinishFunction))
  /\ \A i \in DOMAIN module.functions : \A j \in DOMAIN module.functions[i].blocks :
       LabelDone(i, j)' => LabelDone(i, j) \/ (i = fi /\ j = bi /\ MakeLabel)
  /\ \A i \in DOMAIN module.functions : \A j \in DOMAIN module.functions[i].blocks :
       \A k \in DOMAIN module.functions[i].blocks[j] :
         ItemDone(i, j, k)' => ItemDone(i, j, k) \/ (i = fi /\ j = bi /\ k = ii /\ Puts)

LEMMA DoneInGlobals ==
  ASSUME Typed, AtPlace,
         StartGlobal \/ WritePiece \/ FinishGlobal \/ PlaceWeakGlobal \/ StartFunctions
  PROVE  NothingElseDone
<1>. DEFINE N == Len(module.globals)
<1>1. /\ module \in Modules /\ phase = "globals" /\ fi \in Nat /\ ii \in Nat
      /\ DOMAIN module.globals = 1 .. N /\ N \in Nat
      /\ \A i \in DOMAIN module.globals : DOMAIN module.globals[i].init \subseteq Nat \ {0}
  <2>1. module \in Modules /\ fi \in Nat /\ ii \in Nat
    BY DEF Typed, TypeOK
  <2>2. phase = "globals"
    BY DEF AtGlobal, StartGlobal, WritePiece, FinishGlobal, PlaceWeakGlobal, StartFunctions
  <2>3. \A i \in DOMAIN module.globals : DOMAIN module.globals[i].init \subseteq Nat \ {0}
    BY <2>1, CurrentSequences
  <2>. QED
    BY <2>1, <2>2, <2>3, CurrentSequences
<1>. USE DEF GlobalDone, PieceDone, FunctionDone, LabelDone, ItemDone, AllPlaced
<1>2. CASE StartGlobal
  BY <1>1, <1>2 DEF StartGlobal, NothingElseDone
<1>3. CASE WritePiece
  <2>1. phase' = phase /\ fi' = fi /\ ii' = ii + 1 /\ ii \in DOMAIN Global.init
        /\ fi \in DOMAIN module.globals
    BY <1>3 DEF WritePiece, AtGlobal
  <2>2. ii # 0
    BY <1>1, <2>1 DEF Global
  <2>. QED
    BY <1>1, <1>3, <2>1, <2>2 DEF NothingElseDone
<1>4. CASE FinishGlobal
  <2>1. phase' = phase /\ fi' = fi + 1 /\ ii' = 0 /\ ii = Len(Global.init) + 1
        /\ fi \in DOMAIN module.globals
    BY <1>4 DEF FinishGlobal, AtGlobal
  <2>2. ii # 0 /\ \A k \in DOMAIN module.globals[fi].init : k < ii
    BY <1>1, <2>1, CurrentSequences DEF Global
  <2>. QED
    BY <1>1, <2>1, <2>2 DEF NothingElseDone
<1>5. CASE PlaceWeakGlobal
  <2>1. phase' = phase /\ fi' = fi + 1 /\ ii' = ii /\ Global.weak /\ fi \in DOMAIN module.globals
    BY <1>5 DEF PlaceWeakGlobal, AtGlobal
  <2>2. ii = 0
    BY <1>1, <2>1 DEF AtPlace
  <2>3. DOMAIN module.globals[fi].init = {}
    BY <1>1, <2>1, ModulesAssumption DEF IsGlobal, Global
  <2>. QED
    BY <1>1, <1>5, <2>1, <2>2, <2>3 DEF NothingElseDone
<1>6. CASE StartFunctions
  <2>1. phase' = "functions" /\ fi' = 1 /\ bi' = 0 /\ ii' = 0 /\ fi \notin DOMAIN module.globals
    BY <1>6 DEF StartFunctions
  <2>2. fi = N + 1
    BY <1>1, <2>1 DEF AtPlace
  <2>3. \A i \in DOMAIN module.globals : i < fi
    BY <1>1, <2>2
  <2>4. \A i \in DOMAIN module.functions : ~(i < 1) /\ (i = 1 =>
          \A j \in DOMAIN module.functions[i].blocks : ~(j < 0) /\ j # 0)
    BY <1>1, CurrentSequences
  <2>. QED
    BY <1>1, <2>1, <2>3, <2>4 DEF NothingElseDone
<1>. QED
  BY <1>2, <1>3, <1>4, <1>5, <1>6

LEMMA DoneInFunctions ==
  ASSUME Typed, AtPlace,
         \/ DeclareFunction \/ StartFunction \/ MakeLabel \/ FinishBlock \/ FinishFunction
         \/ StartLinking \/ Puts
  PROVE  NothingElseDone
<1>. DEFINE N == Len(module.functions)
<1>1. /\ module \in Modules /\ phase = "functions" /\ fi \in Nat /\ bi \in Nat /\ ii \in Nat
      /\ DOMAIN module.functions = 1 .. N /\ N \in Nat
  <2>1. module \in Modules /\ fi \in Nat /\ bi \in Nat /\ ii \in Nat
    BY DEF Typed, TypeOK
  <2>2. phase = "functions"
    BY DEF AtFunction, AtBlock, AtItem, DeclareFunction, StartFunction, MakeLabel, FinishBlock,
           FinishFunction, StartLinking, Puts, PutOp, PutJump, PutDirectCall, PutGlobalRef,
           PutConstant
  <2>. QED
    BY <2>1, <2>2, CurrentSequences
<1>0. \A i \in DOMAIN module.functions :
        /\ DOMAIN module.functions[i].blocks \subseteq Nat \ {0}
        /\ \A j \in DOMAIN module.functions[i].blocks :
             DOMAIN module.functions[i].blocks[j] \subseteq Nat \ {0}
  <2>1. SUFFICES ASSUME NEW i \in DOMAIN module.functions
                 PROVE  /\ DOMAIN module.functions[i].blocks \subseteq Nat \ {0}
                        /\ \A j \in DOMAIN module.functions[i].blocks :
                             DOMAIN module.functions[i].blocks[j] \subseteq Nat \ {0}
    OBVIOUS
  <2>. DEFINE bs == module.functions[i].blocks
  <2>2. /\ DOMAIN bs = 1 .. Len(bs) /\ Len(bs) \in Nat
        /\ \A j \in DOMAIN bs : DOMAIN bs[j] = 1 .. Len(bs[j]) /\ Len(bs[j]) \in Nat
    BY <1>1, CurrentSequences
  <2>. HIDE DEF bs
  <2>3. DOMAIN bs \subseteq Nat \ {0} /\ \A j \in DOMAIN bs : DOMAIN bs[j] \subseteq Nat \ {0}
    BY <2>2
  <2>. QED
    BY <2>3 DEF bs
<1>. USE DEF GlobalDone, PieceDone, FunctionDone, LabelDone, ItemDone, AllPlaced
<1>2. CASE DeclareFunction
  <2>1. phase' = phase /\ fi' = fi + 1 /\ bi' = bi /\ ii' = ii /\ Declared
        /\ fi \in DOMAIN module.functions
    BY <1>2 DEF DeclareFunction, AtFunction
  <2>2. bi = 0 /\ DOMAIN module.functions[fi].blocks = {}
    BY <1>1, <2>1 DEF AtPlace, Declared, Function
  <2>. QED
    BY <1>0, <1>1, <1>2, <2>1, <2>2 DEF NothingElseDone
<1>3. CASE StartFunction
  BY <1>0, <1>1, <1>3 DEF StartFunction, NothingElseDone
<1>4. CASE MakeLabel
  BY <1>0, <1>1, <1>4 DEF MakeLabel, NothingElseDone
<1>5. CASE FinishBlock
  <2>1. phase' = phase /\ fi' = fi /\ bi' = bi + 1 /\ ii' = 0 /\ ii = Len(Block) + 1
        /\ fi \in DOMAIN module.functions /\ bi \in DOMAIN module.functions[fi].blocks
    BY <1>5 DEF FinishBlock, AtBlock, AtFunction, Function
  <2>2. ii # 0 /\ \A k \in DOMAIN module.functions[fi].blocks[bi] : k < ii
    <3>. DEFINE b == module.functions[fi].blocks[bi]
    <3>1. DOMAIN b = 1 .. Len(b) /\ Len(b) \in Nat
      BY <1>1, <2>1, CurrentSequences
    <3>2. ii = Len(b) + 1
      BY <2>1 DEF Block, Function
    <3>. HIDE DEF b
    <3>3. ii # 0 /\ \A k \in DOMAIN b : k < ii
      BY <3>1, <3>2
    <3>. QED
      BY <3>3 DEF b
  <2>. QED
    BY <1>0, <1>1, <2>1, <2>2 DEF NothingElseDone
<1>6. CASE FinishFunction
  <2>1. phase' = phase /\ fi' = fi + 1 /\ bi' = 0 /\ ii' = ii
        /\ bi = Len(Function.blocks) + 1 /\ fi \in DOMAIN module.functions
    BY <1>6 DEF FinishFunction, AtFunction
  <2>2. \A j \in DOMAIN module.functions[fi].blocks : j < bi
    BY <1>1, <2>1, CurrentSequences DEF Function
  <2>. QED
    BY <1>0, <1>1, <1>6, <2>1, <2>2 DEF NothingElseDone
<1>7. CASE StartLinking
  <2>1. phase' = "jumps" /\ fi \notin DOMAIN module.functions
    BY <1>7 DEF StartLinking
  <2>2. fi = N + 1
    BY <1>1, <2>1 DEF AtPlace
  <2>3. \A i \in DOMAIN module.functions : i < fi
    BY <1>1, <2>2
  <2>. QED
    BY <1>1, <2>1, <2>3 DEF NothingElseDone
<1>8. CASE Puts
  <2>1. phase' = phase /\ fi' = fi /\ bi' = bi /\ ii' = ii + 1 /\ ii # 0
    BY <1>8, PutMoves, ItemStep
  <2>. QED
    BY <1>0, <1>1, <1>8, <2>1 DEF NothingElseDone
<1>. QED
  BY <1>2, <1>3, <1>4, <1>5, <1>6, <1>7, <1>8

LEMMA StepGroups ==
  ASSUME [Next]_vars
  PROVE  \/ StartGlobal \/ WritePiece \/ FinishGlobal \/ PlaceWeakGlobal \/ StartFunctions
         \/ \/ DeclareFunction \/ StartFunction \/ MakeLabel \/ FinishBlock \/ FinishFunction
            \/ StartLinking \/ Puts
         \/ ApplyJump \/ FinishJumps \/ ApplyRef \/ FinishRefs
         \/ Abort \/ UNCHANGED vars
BY DEF Next, Stopped, Puts

LEMMA DoneNext ==
  ASSUME Typed, AtPlace, [Next]_vars
  PROVE  NothingElseDone
<1>1. CASE ApplyJump \/ FinishJumps \/ ApplyRef \/ FinishRefs
  <2>1. AllPlaced
    BY <1>1 DEF ApplyJump, FinishJumps, ApplyRef, FinishRefs, AllPlaced
  <2>. QED
    BY <2>1 DEF NothingElseDone, GlobalDone, PieceDone, FunctionDone, LabelDone, ItemDone
<1>2. CASE Abort \/ UNCHANGED vars
  BY <1>2 DEF Abort, vars, position, NothingElseDone, GlobalDone, PieceDone, FunctionDone,
              LabelDone, ItemDone, AllPlaced
<1>3. CASE StartGlobal \/ WritePiece \/ FinishGlobal \/ PlaceWeakGlobal \/ StartFunctions
  BY <1>3, DoneInGlobals
<1>4. CASE \/ DeclareFunction \/ StartFunction \/ MakeLabel \/ FinishBlock \/ FinishFunction
           \/ StartLinking \/ Puts
  BY <1>4, DoneInFunctions
<1>. QED
  BY <1>1, <1>2, <1>3, <1>4, StepGroups

LEMMA SymbolsKept ==
  ASSUME module' = module, globals' = globals, SymbolsPlaced,
         \A i \in DOMAIN module.globals : GlobalDone(i)' => GlobalDone(i),
         \A i \in DOMAIN module.functions : FunctionDone(i)' => FunctionDone(i)
  PROVE  SymbolsPlaced'
<1>1. \A i : GlobalPlaced(i) => GlobalPlaced(i)'
  BY SameLayout DEF GlobalPlaced
<1>2. \A i : FunctionPlaced(i) => FunctionPlaced(i)'
  BY SameLayout DEF FunctionPlaced, Linked!IsTls
<1>3. ModuleNames' = ModuleNames
  BY DEF ModuleNames
<1>. QED
  BY <1>1, <1>2, <1>3 DEF SymbolsPlaced

LEMMA SymbolAdded ==
  ASSUME module' = module, SymbolsPlaced, NEW n \in ModuleNames, NEW v,
         globals' = With(globals, n, v),
         \A i \in DOMAIN module.globals :
           GlobalDone(i)' => GlobalPlaced(i)' \/ (GlobalDone(i) /\ module.globals[i].name # n),
         \A i \in DOMAIN module.functions :
           FunctionDone(i)' =>
             FunctionPlaced(i)' \/ (FunctionDone(i) /\ module.functions[i].name # n)
  PROVE  SymbolsPlaced'
<1>. /\ DOMAIN globals' = DOMAIN globals \cup {n}
     /\ \A s \in DOMAIN globals : s # n => globals'[s] = globals[s]
  BY DEF With
<1>1. \A i : module.globals[i].name # n /\ GlobalPlaced(i) => GlobalPlaced(i)'
  BY SameLayout DEF GlobalPlaced
<1>2. \A i : module.functions[i].name # n /\ FunctionPlaced(i) => FunctionPlaced(i)'
  BY SameLayout DEF FunctionPlaced, Linked!IsTls
<1>3. ModuleNames' = ModuleNames
  BY DEF ModuleNames
<1>. QED
  BY <1>1, <1>2, <1>3 DEF SymbolsPlaced

LEMMA SymbolsNext ==
  ASSUME Typed, AtPlace, SymbolsPlaced, [Next]_vars
  PROVE  SymbolsPlaced'
<1>1. module' = module /\ module \in Modules
  BY NextModule DEF Typed
<1>2. /\ \A i \in DOMAIN module.globals :
           GlobalDone(i)' => GlobalDone(i) \/ (i = fi /\ (StartGlobal \/ PlaceWeakGlobal))
      /\ \A i \in DOMAIN module.functions :
           FunctionDone(i)' =>
             FunctionDone(i) \/ (i = fi /\ (DeclareFunction \/ FinishFunction))
  BY DoneNext DEF NothingElseDone
<1>3. CASE /\ globals' = globals /\ ~StartGlobal /\ ~PlaceWeakGlobal
           /\ ~DeclareFunction /\ ~FinishFunction
  BY <1>1, <1>2, <1>3, SymbolsKept
<1>4. OneName(module)
  BY <1>1, ModulesAssumption
<1>5. ASSUME NEW v, globals' = With(globals, Global.name, v), fi \in DOMAIN module.globals,
             v = IF Global.weak THEN 0 ELSE Linked!GlobalStart(fi),
             Global.weak => Global.name \in WeakSymbols, ~DeclareFunction, ~FinishFunction
      PROVE  SymbolsPlaced'
  <2>1. Global.name \in ModuleNames
    BY <1>5 DEF ModuleNames, Global
  <2>2. \A i : i = fi => GlobalPlaced(i)'
    <3>1. Global.name \in DOMAIN globals' /\ globals'[Global.name] = v
      BY <1>5 DEF With
    <3>. QED
      BY <1>1, <1>5, <3>1, SameLayout DEF GlobalPlaced, Global
  <2>3. /\ \A i \in DOMAIN module.globals : i # fi => module.globals[i].name # Global.name
        /\ \A i \in DOMAIN module.functions : module.functions[i].name # Global.name
    BY <1>4, <1>5 DEF OneName, Global
  <2>4. /\ \A i \in DOMAIN module.globals :
             GlobalDone(i)' =>
               GlobalPlaced(i)' \/ (GlobalDone(i) /\ module.globals[i].name # Global.name)
        /\ \A i \in DOMAIN module.functions :
             FunctionDone(i)' => FunctionDone(i) /\ module.functions[i].name # Global.name
    BY <1>2, <1>5, <2>2, <2>3
  <2>. QED
    BY <1>1, <1>5, <2>1, <2>4, SymbolAdded
<1>6. ASSUME NEW v, globals' = With(globals, Function.name, v), fi \in DOMAIN module.functions,
             v = IF Linked!IsTls(Function) THEN RuntimeTlsGet ELSE Linked!FunctionStart(fi),
             ~StartGlobal, ~PlaceWeakGlobal
      PROVE  SymbolsPlaced'
  <2>1. Function.name \in ModuleNames
    BY <1>6 DEF ModuleNames, Function
  <2>2. \A i : i = fi => FunctionPlaced(i)'
    <3>1. Function.name \in DOMAIN globals' /\ globals'[Function.name] = v
      BY <1>6 DEF With
    <3>. QED
      BY <1>1, <1>6, <3>1, SameLayout DEF FunctionPlaced, Function, Linked!IsTls
  <2>3. /\ \A i \in DOMAIN module.functions : i # fi => module.functions[i].name # Function.name
        /\ \A i \in DOMAIN module.globals : module.globals[i].name # Function.name
    BY <1>4, <1>6 DEF OneName, Function
  <2>4. /\ \A i \in DOMAIN module.functions :
             FunctionDone(i)' =>
               FunctionPlaced(i)' \/ (FunctionDone(i) /\ module.functions[i].name # Function.name)
        /\ \A i \in DOMAIN module.globals :
             GlobalDone(i)' => GlobalDone(i) /\ module.globals[i].name # Function.name
    BY <1>2, <1>6, <2>2, <2>3
  <2>. QED
    BY <1>1, <1>6, <2>1, <2>4, SymbolAdded
<1>7. CASE StartGlobal
  <2>1. /\ phase = "globals" /\ fi \in DOMAIN module.globals /\ ~Global.weak /\ ii = 0
        /\ globals' = With(globals, Global.name, data)
    BY <1>7 DEF StartGlobal, AtGlobal
  <2>2. data = Linked!GlobalStart(fi)
    BY <2>1 DEF AtPlace
  <2>3. ~DeclareFunction /\ ~FinishFunction
    BY <2>1 DEF DeclareFunction, FinishFunction, AtFunction
  <2>. QED
    BY <1>5, <2>1, <2>2, <2>3
<1>8. CASE PlaceWeakGlobal
  <2>1. /\ phase = "globals" /\ fi \in DOMAIN module.globals /\ Global.weak
        /\ Global.name \in WeakSymbols /\ globals' = With(globals, Global.name, 0)
    BY <1>8 DEF PlaceWeakGlobal, AtGlobal
  <2>2. ~DeclareFunction /\ ~FinishFunction
    BY <2>1 DEF DeclareFunction, FinishFunction, AtFunction
  <2>. QED
    BY <1>5, <2>1, <2>2
<1>9. CASE DeclareFunction
  <2>1. /\ phase = "functions" /\ fi \in DOMAIN module.functions /\ Function.blocks = << >>
        /\ globals' = With(globals, Function.name,
                           IF Function.name = "llvm.nacl.read.tp" THEN RuntimeTlsGet ELSE code)
    BY <1>9 DEF DeclareFunction, AtFunction, Declared
  <2>2. bi = 0 /\ code = Linked!FunctionStart(fi)
    BY <2>1 DEF AtPlace, Declared
  <2>3. ~StartGlobal /\ ~PlaceWeakGlobal
    BY <2>1 DEF StartGlobal, PlaceWeakGlobal, AtGlobal
  <2>4. Linked!IsTls(Function) <=> Function.name = "llvm.nacl.read.tp"
    BY <2>1 DEF Linked!IsTls
  <2>. QED
    BY <1>6, <2>1, <2>2, <2>3, <2>4
<1>10. CASE FinishFunction
  <2>1. /\ phase = "functions" /\ fi \in DOMAIN module.functions /\ Function.blocks # << >>
        /\ bi = Len(Function.blocks) + 1
        /\ globals' = With(globals, Function.name, entry)
    BY <1>10 DEF FinishFunction, AtFunction, Declared, SymbolValue
  <2>2. bi # 0
    BY <1>1, <2>1, CurrentSequences DEF Function
  <2>3. entry = Linked!FunctionStart(fi)
    BY <2>1, <2>2 DEF AtPlace
  <2>4. ~StartGlobal /\ ~PlaceWeakGlobal
    BY <2>1 DEF StartGlobal, PlaceWeakGlobal, AtGlobal
  <2>5. ~Linked!IsTls(Function)
    BY <2>1 DEF Linked!IsTls
  <2>. QED
    BY <1>6, <2>1, <2>3, <2>4, <2>5
<1>11. \/ globals' = globals \/ StartGlobal \/ PlaceWeakGlobal \/ DeclareFunction
       \/ FinishFunction
  BY DEF Next, vars, tables, WritePiece, FinishGlobal, StartFunctions, StartFunction,
         MakeLabel, PutOp, PutJump, PutDirectCall, PutGlobalRef, PutConstant, FinishBlock,
         StartLinking, ApplyJump, FinishJumps, ApplyRef, FinishRefs, Abort, Stopped
<1>. QED
  BY <1>3, <1>7, <1>8, <1>9, <1>10, <1>11

LEMMA LabelsNext ==
  ASSUME Typed, AtPlace, LabelsPlaced, [Next]_vars
  PROVE  LabelsPlaced'
<1>1. module' = module /\ module \in Modules
  BY NextModule DEF Typed
<1>2. \A i \in DOMAIN module.functions : \A j \in DOMAIN module.functions[i].blocks :
        LabelDone(i, j)' => LabelDone(i, j) \/ (i = fi /\ j = bi /\ MakeLabel)
  BY DoneNext DEF NothingElseDone
<1>3. CASE labels' = labels /\ ~MakeLabel
  BY <1>1, <1>2, <1>3, SameLayout DEF LabelsPlaced
<1>4. CASE MakeLabel
  <2>1. /\ phase = "functions" /\ fi \in DOMAIN module.functions
        /\ bi \in DOMAIN module.functions[fi].blocks /\ ii = 0
        /\ labels' = With(labels, <<fi, bi>>, code)
    BY <1>4 DEF MakeLabel, AtBlock, AtFunction, Function
  <2>2. code = Linked!BlockStart(fi, bi)
    <3>1. bi # 0
      BY <1>1, <2>1, CurrentSequences
    <3>. QED
      BY <2>1, <3>1 DEF AtPlace
  <2>3. /\ DOMAIN labels' = DOMAIN labels \cup {<<fi, bi>>}
        /\ labels'[<<fi, bi>>] = code
        /\ \A b \in DOMAIN labels : b # <<fi, bi>> => labels'[b] = labels[b]
    BY <2>1 DEF With
  <2>. QED
    BY <1>1, <1>2, <2>2, <2>3, SameLayout DEF LabelsPlaced
<1>5. labels' = labels \/ MakeLabel
  BY DEF Next, vars, tables, StartGlobal, PlaceWeakGlobal, DeclareFunction, FinishFunction,
         WritePiece, FinishGlobal, StartFunctions, StartFunction, PutOp, PutJump, PutDirectCall,
         PutGlobalRef, PutConstant, FinishBlock, StartLinking, ApplyJump, FinishJumps, ApplyRef,
         FinishRefs, Abort, Stopped
<1>. QED
  BY <1>3, <1>4, <1>5

(* A step leaves the words that hold, and what is recorded of them.         *)
KeepsPlaces ==
  /\ \A a \in DOMAIN mem : a \in DOMAIN mem'
  /\ \A a \in DOMAIN jumps : a \in DOMAIN jumps' /\ jumps'[a] = jumps[a]
  /\ \A a \in DOMAIN refs : a \in DOMAIN refs' /\ refs'[a] = refs[a]
  /\ \A a \in DOMAIN mem : a \in DOMAIN jumps' => a \in DOMAIN jumps
  /\ \A a \in DOMAIN mem : a \in DOMAIN refs' => a \in DOMAIN refs
  /\ \A a \in DOMAIN mem : a \notin DOMAIN jumps /\ a \notin DOMAIN refs => mem'[a] = mem[a]

LEMMA PlacesKept ==
  ASSUME IInv, [Next]_vars
  PROVE  KeepsPlaces
<1>. USE DEF IInv
<1>1. CASE KeepsWords
  BY <1>1 DEF KeepsWords, KeepsPlaces
<1>2. CASE AddsWord
  <2>1. PICK pos, w : NewSite(pos) /\ mem' = With(mem, pos, w)
    BY <1>2 DEF AddsWord
  <2>2. DOMAIN mem' = DOMAIN mem \cup {pos} /\ \A a \in DOMAIN mem : mem'[a] = mem[a]
    BY <2>1, NewWord
  <2>. QED
    BY <1>2, <2>2 DEF AddsWord, KeepsPlaces
<1>3. CASE AddsJump
  <2>1. PICK d \in Nat \X Nat : jumps' = With(jumps, code, d)
    BY <1>3 DEF AddsJump
  <2>2. /\ code \notin DOMAIN mem /\ code \notin DOMAIN jumps
        /\ DOMAIN mem' = DOMAIN mem \cup {code} /\ \A a \in DOMAIN mem : mem'[a] = mem[a]
    BY <1>3, NewWord DEF AddsJump
  <2>3. /\ DOMAIN jumps' = DOMAIN jumps \cup {code}
        /\ \A a \in DOMAIN jumps : jumps'[a] = jumps[a]
    BY <2>1, <2>2 DEF With
  <2>. QED
    BY <1>3, <2>2, <2>3 DEF AddsJump, KeepsPlaces
<1>4. CASE AddsRef
  <2>1. PICK pos, ref : NewSite(pos) /\ IsReference(ref) /\ PutRef(pos, ref)
    BY <1>4 DEF AddsRef
  <2>2. /\ pos \notin DOMAIN mem /\ pos \notin DOMAIN refs
        /\ DOMAIN mem' = DOMAIN mem \cup {pos} /\ \A a \in DOMAIN mem : mem'[a] = mem[a]
    BY <2>1, NewWord DEF PutRef
  <2>3. /\ DOMAIN refs' = DOMAIN refs \cup {pos}
        /\ \A a \in DOMAIN refs : refs'[a] = refs[a]
    BY <2>1, <2>2 DEF With, PutRef
  <2>. QED
    BY <1>4, <2>2, <2>3 DEF AddsRef, KeepsPlaces
<1>5. CASE ApplyJump
  <2>1. /\ JumpWord(jump_relocs[next]) \in DOMAIN jumps /\ UNCHANGED <<jumps, refs>>
        /\ \E w : mem' = With(mem, JumpWord(jump_relocs[next]), w)
    BY <1>5 DEF ApplyJump, TablesComplete, history
  <2>. QED
    BY <2>1 DEF KeepsPlaces, With
<1>6. CASE ApplyRef
  <2>1. /\ global_relocs[next].loc \in DOMAIN refs /\ UNCHANGED <<jumps, refs>>
        /\ \E w : mem' = With(mem, global_relocs[next].loc, w)
    BY <1>6 DEF ApplyRef, TablesComplete, history
  <2>. QED
    BY <2>1 DEF KeepsPlaces, With
<1>. QED
  BY <1>1, <1>2, <1>3, <1>4, <1>5, <1>6, StepKinds, LinkingStep

LEMMA HoldingKept ==
  ASSUME KeepsPlaces, NEW a
  PROVE  /\ \A r : HoldsReference(a, r) => HoldsReference(a, r)'
         /\ \A i, it, c : HoldsItem(a, i, it, c) => HoldsItem(a, i, it, c)'
<1>1. \A r : HoldsReference(a, r) => HoldsReference(a, r)'
  BY DEF KeepsPlaces, HoldsReference
<1>2. ASSUME NEW i, NEW it, NEW c, HoldsItem(a, i, it, c)
      PROVE  HoldsItem(a, i, it, c)'
  <2>1. it.kind # "op" => a \in DOMAIN mem'
    BY <1>2 DEF KeepsPlaces, HoldsItem
  <2>2. it.kind = "jump" => a \in DOMAIN jumps' /\ jumps'[a] = <<i, it.dest>>
    BY <1>2 DEF KeepsPlaces, HoldsItem
  <2>3. it.kind = "ref" => HoldsReference(a, it)'
    BY <1>1, <1>2 DEF HoldsItem
  <2>4. it.kind \in {"call", "const"} =>
          /\ a \notin DOMAIN jumps' /\ a \notin DOMAIN refs'
          /\ mem'[a] = IF it.kind = "call" THEN Minus(it.target, a + WordSize) ELSE c
    BY <1>2 DEF KeepsPlaces, HoldsItem
  <2>. QED
    BY <2>1, <2>2, <2>3, <2>4 DEF HoldsItem
<1>. QED
  BY <1>1, <1>2

(* What is put is held.                                                     *)
LEMMA ReferencePut ==
  ASSUME NEW a, NEW r, PutRef(a, r)
  PROVE  HoldsReference(a, r)'
BY DEF PutRef, HoldsReference, With

LEMMA ItemPut ==
  ASSUME IInv, [Next]_vars, Puts, NEW a, NEW c, NEW i, NEW it,
         a = code, c = data, i = fi, it = Item
  PROVE  HoldsItem(a, i, it, c)'
<1>. USE DEF IInv
<1>1. CASE PutOp
  BY <1>1 DEF PutOp, HoldsItem
<1>2. CASE PutJump
  BY <1>2 DEF PutJump, HoldsItem, With
<1>3. CASE PutGlobalRef
  <2>1. PutRef(a, it) /\ it.kind = "ref"
    BY <1>3 DEF PutGlobalRef
  <2>2. HoldsReference(a, it)'
    BY <2>1, ReferencePut
  <2>. QED
    BY <2>1, <2>2 DEF HoldsItem, HoldsReference
<1>4. ASSUME NEW w, mem' = With(mem, code, w), UNCHANGED <<jumps, refs>>,
             code' = code + WordSize
      PROVE  /\ a \in DOMAIN mem' /\ a \notin DOMAIN jumps' /\ a \notin DOMAIN refs'
             /\ mem'[a] = w
  BY <1>4, NewSites, NewWord
<1>5. CASE PutDirectCall
  <2>1. /\ it.kind = "call" /\ UNCHANGED <<jumps, refs>> /\ code' = code + WordSize
        /\ mem' = With(mem, code, Minus(it.target, a + WordSize))
    BY <1>5 DEF PutDirectCall, history
  <2>. QED
    BY <1>4, <2>1 DEF HoldsItem
<1>6. CASE PutConstant
  <2>1. /\ it.kind = "const" /\ UNCHANGED <<jumps, refs>> /\ code' = code + WordSize
        /\ mem' = With(mem, code, c)
    BY <1>6 DEF PutConstant, history
  <2>. QED
    BY <1>4, <2>1 DEF HoldsItem
<1>. QED
  BY <1>1, <1>2, <1>3, <1>5, <1>6 DEF Puts

LEMMA ItemsNext ==
  ASSUME IInv, AtPlace, ItemsPlaced, [Next]_vars
  PROVE  ItemsPlaced'
<1>0. Typed /\ module' = module
  BY NextModule DEF IInv
<1>1. SUFFICES ASSUME NEW i \in DOMAIN module.functions,
                      NEW j \in DOMAIN module.functions[i].blocks,
                      NEW k \in DOMAIN module.functions[i].blocks[j], ItemDone(i, j, k)'
               PROVE  HoldsItem(Linked!ItemStart(i, j, k), i,
                                module.functions[i].blocks[j][k],
                                Linked!ConstantStart(i, j, k))'
  BY <1>0 DEF ItemsPlaced
<1>. DEFINE a == Linked!ItemStart(i, j, k)
            it == module.functions[i].blocks[j][k]
            c == Linked!ConstantStart(i, j, k)
<1>2. a' = a /\ it' = it /\ c' = c
  BY <1>0, SameLayout
<1>3. CASE ItemDone(i, j, k)
  <2>1. HoldsItem(a, i, it, c)
    BY <1>3 DEF ItemsPlaced
  <2>2. PICK a0, it0, c0 : a0 = a /\ it0 = it /\ c0 = c   \* values of the first state
    OBVIOUS
  <2>3. HoldsItem(a0, i, it0, c0)'
    BY <2>1, <2>2, PlacesKept, HoldingKept
  <2>. QED
    BY <1>2, <2>2, <2>3
<1>4. CASE i = fi /\ j = bi /\ k = ii /\ Puts
  <2>1. a = code /\ c = data /\ it = Item
    BY <1>0, <1>4, PutMoves, ItemStep DEF Item, Block, Function
  <2>2. PICK a0, it0, c0 : a0 = a /\ it0 = it /\ c0 = c   \* values of the first state
    OBVIOUS
  <2>3. HoldsItem(a0, i, it0, c0)'
    BY <1>4, <2>1, <2>2, ItemPut
  <2>. QED
    BY <1>2, <2>2, <2>3
<1>. QED
  BY <1>0, <1>1, <1>3, <1>4, DoneNext DEF NothingElseDone

LEMMA PiecesNext ==
  ASSUME IInv, AtPlace, PiecesPlaced, [Next]_vars
  PROVE  PiecesPlaced'
<1>0. Typed /\ module' = module
  BY NextModule DEF IInv
<1>1. SUFFICES ASSUME NEW i \in DOMAIN module.globals,
                      NEW k \in DOMAIN module.globals[i].init, PieceDone(i, k)',
                      module.globals[i].init[k].kind = "ref"
               PROVE  HoldsReference(Linked!PieceStart(i, k), module.globals[i].init[k])'
  BY <1>0 DEF PiecesPlaced
<1>. DEFINE a == Linked!PieceStart(i, k)
            p == module.globals[i].init[k]
<1>2. a' = a /\ p' = p
  BY <1>0, SameLayout
<1>3. CASE PieceDone(i, k)
  <2>1. HoldsReference(a, p)
    BY <1>1, <1>3 DEF PiecesPlaced
  <2>2. PICK a0, p0 : a0 = a /\ p0 = p
    OBVIOUS
  <2>3. HoldsReference(a0, p0)'
    BY <2>1, <2>2, PlacesKept, HoldingKept
  <2>. QED
    BY <1>2, <2>2, <2>3
<1>4. CASE i = fi /\ k = ii /\ WritePiece
  <2>1. AtGlobal /\ ~Global.weak /\ ii \in DOMAIN Global.init /\ p = Global.init[ii]
    BY <1>4 DEF WritePiece, Global
  <2>2. a = data
    BY <1>0, <1>4, <2>1, PieceStep
  <2>3. PutRef(data, p)
    BY <1>1, <1>4, <2>1 DEF WritePiece
  <2>4. PICK a0, p0 : a0 = a /\ p0 = p
    OBVIOUS
  <2>5. HoldsReference(a0, p0)'
    BY <2>2, <2>3, <2>4, ReferencePut
  <2>. QED
    BY <1>2, <2>4, <2>5
<1>. QED
  BY <1>0, <1>1, <1>3, <1>4, DoneNext DEF NothingElseDone

(* Nothing but the places is written.                                       *)
LEMMA NewWordAt ==
  ASSUME IInv, [Next]_vars, NEW a \in DOMAIN mem'
  PROVE  \/ a \in DOMAIN mem
         \/ a = code /\ Puts /\ Item.kind # "op"
         \/ a = data /\ WritePiece /\ Global.init[ii].kind = "ref"
<1>1. CASE mem' = mem
  BY <1>1
<1>2. CASE PutJump \/ PutDirectCall \/ PutGlobalRef \/ PutConstant
  BY <1>2 DEF PutJump, PutDirectCall, PutGlobalRef, PutConstant, PutRef, With, Puts
<1>3. CASE WritePiece
  BY <1>3 DEF WritePiece, PutRef, With
<1>4. CASE ApplyJump \/ ApplyRef
  BY <1>4, ApplyDomain DEF IInv
<1>. QED
  BY <1>1, <1>2, <1>3, <1>4
     DEF Next, vars, StartGlobal, FinishGlobal, PlaceWeakGlobal, StartFunctions,
         DeclareFunction, StartFunction, MakeLabel, PutOp, FinishBlock, FinishFunction,
         StartLinking, FinishJumps, FinishRefs, Abort, Stopped

LEMMA OnlyPlacesNext ==
  ASSUME IInv, AtPlace, OnlyPlaces, [Next]_vars
  PROVE  OnlyPlaces'
<1>0. Typed /\ module' = module /\ code \in Int /\ data \in Int
  BY NextModule, AddressAssumption DEF IInv, Typed, TypeOK
<1>1. ItemSites' = ItemSites /\ PieceSites' = PieceSites
  BY <1>0, SameLayout DEF ItemSites, PieceSites
<1>2. SUFFICES ASSUME NEW a \in DOMAIN mem'
               PROVE  a \in ItemSites \/ a \in PieceSites
  BY <1>1 DEF OnlyPlaces
<1>3. CASE a \in DOMAIN mem
  BY <1>3 DEF OnlyPlaces
<1>4. CASE a = code /\ Puts /\ Item.kind # "op"
  <2>1. /\ fi \in DOMAIN module.functions /\ bi \in DOMAIN module.functions[fi].blocks
        /\ ii \in DOMAIN module.functions[fi].blocks[bi]
        /\ module.functions[fi].blocks[bi][ii].kind # "op"
        /\ code = Linked!ItemStart(fi, bi, ii)
    BY <1>0, <1>4, PutMoves, ItemStep DEF AtItem, Item, Block, Function
  <2>. QED
    BY <1>0, <1>4, <2>1 DEF ItemSites
<1>5. CASE a = data /\ WritePiece /\ Global.init[ii].kind = "ref"
  <2>1. AtGlobal /\ ~Global.weak /\ ii \in DOMAIN Global.init
    BY <1>5 DEF WritePiece
  <2>2. /\ fi \in DOMAIN module.globals /\ ii \in DOMAIN module.globals[fi].init
        /\ module.globals[fi].init[ii].kind = "ref" /\ data = Linked!PieceStart(fi, ii)
    BY <1>0, <1>5, <2>1, PieceStep DEF AtGlobal, Global
  <2>. QED
    BY <1>0, <1>5, <2>2 DEF PieceSites
<1>. QED
  BY <1>3, <1>4, <1>5, NewWordAt

--------------------------------------------------------------------------------
LEMMA PlacesInit == Init => PlacesInv
<1>. SUFFICES ASSUME Init PROVE PlacesInv
  OBVIOUS
<1>1. module \in Modules /\ IInv
  BY InvInit DEF Init
<1>2. AtPlace
  <2>1. 1 \in 1 .. (Len(module.globals) + 1)
    BY <1>1, CurrentSequences
  <2>. QED
    BY <1>1, <2>1, GlobalsAreLaidOut DEF Init, AtPlace, AllPlaced, GlobalsLaidOut
<1>3. /\ \A i \in DOMAIN module.globals : ~GlobalDone(i)
      /\ \A i \in DOMAIN module.globals : \A k \in DOMAIN module.globals[i].init :
           ~PieceDone(i, k)
      /\ \A i : ~FunctionDone(i)
      /\ \A i, j : ~LabelDone(i, j)
      /\ \A i, j, k : ~ItemDone(i, j, k)
  BY <1>1, CurrentSequences
     DEF Init, GlobalDone, PieceDone, FunctionDone, LabelDone, ItemDone, AllPlaced
<1>4. DOMAIN globals = {} /\ DOMAIN mem = {}
  BY EmptyDomain DEF Init
<1>. QED
  BY <1>1, <1>2, <1>3, <1>4
     DEF PlacesInv, SymbolsPlaced, LabelsPlaced, ItemsPlaced, PiecesPlaced, OnlyPlaces

LEMMA PlacesNext == PlacesInv /\ [Next]_vars => PlacesInv'
BY InvNext, AtPlaceNext, SymbolsNext, LabelsNext, ItemsNext, PiecesNext, OnlyPlacesNext
   DEF PlacesInv, IInv

LEMMA Placement == Spec => []PlacesInv
BY PlacesInit, PlacesNext, PTL DEF Spec

--------------------------------------------------------------------------------
(* Linking takes words modulo AddressSpace, the code adds and wraps.        *)
LEMMA ModularWords ==
  ASSUME NEW a \in Words, NEW b \in Words
  PROVE  (a + b) % AddressSpace = Plus(a, b) /\ (a - b) % AddressSpace = Minus(a, b)
<1>1. AddressSpace \in Nat /\ a \in Nat /\ b \in Nat /\ a < AddressSpace /\ b < AddressSpace
  BY AddressAssumption DEF Words
<1>2. (a + b) % AddressSpace = IF a + b < AddressSpace THEN a + b ELSE a + b - AddressSpace
  BY <1>1
<1>3. (a - b) % AddressSpace = IF a >= b THEN a - b ELSE a - b + AddressSpace
  BY <1>1
<1>. QED
  BY <1>2, <1>3 DEF Plus, Minus

(* The places, without the tuples.                                          *)
LEMMA PlacesOf ==
  /\ \A p \in Linked!ItemPlaces :
       \E i \in DOMAIN module.functions : \E j \in DOMAIN module.functions[i].blocks :
         \E k \in DOMAIN module.functions[i].blocks[j] : p = <<i, j, k>>
  /\ \A i \in DOMAIN module.functions : \A j \in DOMAIN module.functions[i].blocks :
       \A k \in DOMAIN module.functions[i].blocks[j] :
         /\ <<i, j, k>> \in Linked!ItemPlaces
         /\ Linked!ItemOf(<<i, j, k>>) = module.functions[i].blocks[j][k]
  /\ \A p \in Linked!PiecePlaces :
       \E i \in DOMAIN module.globals : \E k \in DOMAIN module.globals[i].init : p = <<i, k>>
  /\ \A i \in DOMAIN module.globals : \A k \in DOMAIN module.globals[i].init :
       /\ <<i, k>> \in Linked!PiecePlaces
       /\ Linked!PieceOf(<<i, k>>) = module.globals[i].init[k]
BY DEF Linked!ItemPlaces, Linked!PiecePlaces, Linked!ItemOf, Linked!PieceOf, Linked!Blocks,
       Linked!Functions, Linked!Globals

LEMMA SymbolsComplete ==
  ASSUME PlacesInv, AllPlaced
  PROVE  /\ Linked!Symbols = DOMAIN globals
         /\ \A s \in DOMAIN globals : Linked!AddressOf(s) = globals[s] /\ globals[s] \in Words
         /\ \A i \in DOMAIN module.globals :
              module.globals[i].weak => module.globals[i].name \in WeakSymbols
<1>1. /\ \A i \in DOMAIN module.globals : GlobalPlaced(i)
      /\ \A i \in DOMAIN module.functions : FunctionPlaced(i)
      /\ DOMAIN globals \subseteq ModuleNames
  BY DEF PlacesInv, SymbolsPlaced, GlobalDone, FunctionDone
<1>2. \A sa \in Linked!SymbolAddresses : sa[1] \in DOMAIN globals /\ sa[2] = globals[sa[1]]
  BY <1>1 DEF GlobalPlaced, FunctionPlaced, Linked!SymbolAddresses, Linked!Globals,
              Linked!Functions
<1>3. ASSUME NEW s \in DOMAIN globals
      PROVE  \E sa \in Linked!SymbolAddresses : sa[1] = s
  <2>1. CASE \E i \in DOMAIN module.globals : s = module.globals[i].name
    <3>1. PICK i \in DOMAIN module.globals : s = module.globals[i].name
      BY <2>1
    <3>. DEFINE sa == <<s, IF module.globals[i].weak THEN 0 ELSE Linked!GlobalStart(i)>>
    <3>2. sa \in Linked!SymbolAddresses
      BY <3>1 DEF Linked!SymbolAddresses, Linked!Globals
    <3>3. sa[1] = s
      OBVIOUS
    <3>. QED
      BY <3>2, <3>3
  <2>2. CASE \E i \in DOMAIN module.functions : s = module.functions[i].name
    <3>1. PICK i \in DOMAIN module.functions : s = module.functions[i].name
      BY <2>2
    <3>. DEFINE sa == <<s, IF Linked!IsTls(module.functions[i]) THEN RuntimeTlsGet
                           ELSE Linked!FunctionStart(i)>>
    <3>2. sa \in Linked!SymbolAddresses
      BY <3>1 DEF Linked!SymbolAddresses, Linked!Functions
    <3>3. sa[1] = s
      OBVIOUS
    <3>. QED
      BY <3>2, <3>3
  <2>. QED
    BY <1>1, <1>3, <2>1, <2>2 DEF ModuleNames
<1>4. Linked!Symbols = DOMAIN globals
  BY <1>2, <1>3 DEF Linked!Symbols
<1>5. ASSUME NEW s \in DOMAIN globals
      PROVE  Linked!AddressOf(s) = globals[s]
  BY <1>2, <1>3 DEF Linked!AddressOf
<1>. QED
  BY <1>1, <1>4, <1>5 DEF GlobalPlaced, PlacesInv, IInv, Typed, TypeOK

(* A word ends before the last byte of its buffer.                          *)
LEMMA WordEnds ==
  ASSUME IInv, NEW a \in DOMAIN mem
  PROVE  a \in Words /\ a + WordSize \in Words
<1>1. a \in Words
  BY DEF IInv, Typed, TypeOK
<1>2. a + WordSize <= code \/ a + WordSize <= data
  BY DEF IInv, SitesDisjoint
<1>3. code \in Words /\ data \in Words
  BY Positions DEF IInv, Typed
<1>. QED
  BY <1>1, <1>2, <1>3, AddressAssumption DEF Words, WordSize

(* When both passes are over, the words are complete ...                    *)
Complete == phase = "refs" /\ LastReloc

LEMMA JumpComplete ==
  ASSUME IInv, Complete, NEW a \in DOMAIN jumps
  PROVE  jumps[a] \in DOMAIN labels /\ mem[a] = Minus(labels[jumps[a]], a + WordSize)
<1>1. PICK m \in DOMAIN jump_relocs : JumpWord(jump_relocs[m]) = a
  BY DEF IInv, TablesComplete
<1>. DEFINE r == jump_relocs[m]
<1>2. jumps[a] = r.dest
  BY <1>1 DEF IInv, TablesComplete
<1>3. r.dest \in DOMAIN labels /\ mem[a] = Minus(labels[r.dest], r.loc)
  BY <1>1 DEF IInv, JumpsApplied, JumpApplied, JumpOffset, Complete
<1>4. r \in [loc : Words, dest : Nat \X Nat]
  BY ElementType DEF IInv, Typed, TypeOK
<1>5. a + WordSize = r.loc
  BY <1>1, <1>4, AddressAssumption DEF JumpWord, Words, WordSize
<1>. QED
  BY <1>2, <1>3, <1>5

LEMMA ReferenceComplete ==
  ASSUME PlacesInv, Complete, NEW a, NEW r, HoldsReference(a, r), IsReference(r)
  PROVE  r.symbol \in Linked!Symbols /\ mem[a] = Linked!Reference(r)
<1>. USE DEF PlacesInv
<1>1. PICK m \in DOMAIN global_relocs : global_relocs[m].loc = a
  BY DEF IInv, TablesComplete, HoldsReference
<1>2. refs[a].symbol = global_relocs[m].symbol /\ refs[a].symbol = r.symbol
      /\ refs[a].offset = r.offset
  BY <1>1 DEF IInv, TablesComplete, HoldsReference
<1>3. RefApplied(m)
  BY <1>1, Indices DEF IInv, RefApplied, Complete, LastReloc
<1>4. r.symbol \in DOMAIN globals /\ mem[a] = Plus(r.offset, globals[r.symbol])
  BY <1>1, <1>2, <1>3 DEF IInv, RefsApplied
<1>5. Linked!Symbols = DOMAIN globals /\ Linked!AddressOf(r.symbol) = globals[r.symbol]
      /\ globals[r.symbol] \in Words
  BY <1>4, SymbolsComplete DEF Complete, AllPlaced
<1>6. (globals[r.symbol] + r.offset) % AddressSpace = Plus(globals[r.symbol], r.offset)
  BY <1>5, ModularWords DEF IsReference
<1>7. Plus(r.offset, globals[r.symbol]) = Plus(globals[r.symbol], r.offset)
  BY <1>5, AddressAssumption DEF Plus, IsReference, Words
<1>. QED
  BY <1>4, <1>5, <1>6, <1>7 DEF Linked!Reference

LEMMA ItemComplete ==
  ASSUME PlacesInv, Complete, NEW i \in DOMAIN module.functions,
         NEW j \in DOMAIN module.functions[i].blocks,
         NEW k \in DOMAIN module.functions[i].blocks[j]
  PROVE  LET a == Linked!ItemStart(i, j, k)
             it == module.functions[i].blocks[j][k]
         IN /\ it.kind # "op" =>
                 a \in DOMAIN mem /\ Linked!ItemWord(<<i, j, k>>) = <<a, mem[a]>>
            /\ it.kind = "ref" => it.symbol \in Linked!Symbols
<1>. DEFINE a == Linked!ItemStart(i, j, k)
            it == module.functions[i].blocks[j][k]
            c == Linked!ConstantStart(i, j, k)
<1>. USE DEF PlacesInv
<1>1. HoldsItem(a, i, it, c)
  BY DEF ItemsPlaced, ItemDone, AllPlaced, Complete
<1>2. IsItem(it) /\ (it.kind = "jump" => it.dest \in DOMAIN module.functions[i].blocks)
  BY ModulesAssumption DEF IsFunction, IInv, Typed
<1>3. Linked!ItemOf(<<i, j, k>>) = it
  BY PlacesOf
<1>4. Linked!ItemWord(<<i, j, k>>) =
        <<a, CASE it.kind = "jump" -> Linked!Displacement(a, Linked!BlockStart(i, it.dest))
               [] it.kind = "call" -> Linked!Displacement(a, it.target)
               [] it.kind = "ref" -> Linked!Reference(it)
               [] it.kind = "const" -> c>>
  BY <1>3 DEF Linked!ItemWord
<1>5. ASSUME NEW t \in Words, a \in DOMAIN mem
      PROVE  Linked!Displacement(a, t) = Minus(t, a + WordSize)
  BY <1>5, WordEnds, ModularWords DEF Linked!Displacement, WordSize
<1>. HIDE DEF a, it, c
<1>6. CASE it.kind = "jump"
  <2>1. a \in DOMAIN mem /\ a \in DOMAIN jumps /\ jumps[a] = <<i, it.dest>>
    BY <1>1, <1>6 DEF HoldsItem
  <2>2. labels[<<i, it.dest>>] = Linked!BlockStart(i, it.dest)
        /\ <<i, it.dest>> \in DOMAIN labels
    BY <1>2, <1>6 DEF LabelsPlaced, LabelDone, AllPlaced, Complete
  <2>3. labels[<<i, it.dest>>] \in Words
    BY <2>2, Positions DEF IInv, Typed
  <2>4. mem[a] = Minus(labels[<<i, it.dest>>], a + WordSize)
    BY <2>1, JumpComplete
  <2>5. Linked!Displacement(a, Linked!BlockStart(i, it.dest)) = mem[a]
    BY <1>5, <2>1, <2>2, <2>3, <2>4
  <2>. QED
    BY <1>4, <1>6, <2>1, <2>5 DEF a, it
<1>7. CASE it.kind = "call"
  <2>1. a \in DOMAIN mem /\ mem[a] = Minus(it.target, a + WordSize) /\ it.target \in Words
    BY <1>1, <1>2, <1>7 DEF HoldsItem, IsItem
  <2>2. Linked!Displacement(a, it.target) = mem[a]
    BY <1>5, <2>1
  <2>. QED
    BY <1>4, <1>7, <2>1, <2>2 DEF a, it
<1>8. CASE it.kind = "ref"
  <2>1. a \in DOMAIN mem /\ HoldsReference(a, it) /\ IsReference(it)
    BY <1>1, <1>2, <1>8 DEF HoldsItem, IsItem
  <2>2. it.symbol \in Linked!Symbols /\ mem[a] = Linked!Reference(it)
    BY <2>1, ReferenceComplete
  <2>. QED
    BY <1>4, <1>8, <2>1, <2>2 DEF a, it
<1>9. CASE it.kind = "const"
  <2>1. a \in DOMAIN mem /\ mem[a] = c
    BY <1>1, <1>9 DEF HoldsItem
  <2>. QED
    BY <1>4, <1>9, <2>1 DEF a, it
<1>10. CASE it.kind = "op"
  BY <1>10 DEF it
<1>. QED
  BY <1>2, <1>6, <1>7, <1>8, <1>9, <1>10 DEF IsItem

LEMMA PieceComplete ==
  ASSUME PlacesInv, Complete, NEW i \in DOMAIN module.globals,
         NEW k \in DOMAIN module.globals[i].init, module.globals[i].init[k].kind = "ref"
  PROVE  LET a == Linked!PieceStart(i, k)
             p == module.globals[i].init[k]
         IN a \in DOMAIN mem /\ mem[a] = Linked!Reference(p) /\ p.symbol \in Linked!Symbols
<1>1. HoldsReference(Linked!PieceStart(i, k), module.globals[i].init[k])
  BY DEF PlacesInv, PiecesPlaced, PieceDone, AllPlaced, Complete
<1>2. IsReference(module.globals[i].init[k])
  BY ModulesAssumption DEF IsGlobal, IsPiece, PlacesInv, IInv, Typed
<1>. QED
  BY <1>1, <1>2, ReferenceComplete DEF HoldsReference

LEMMA ImageComplete ==
  ASSUME PlacesInv, Complete
  PROVE  { <<a, mem[a]>> : a \in DOMAIN mem } = Linked!Image
<1>1. ASSUME NEW w \in Linked!Image
      PROVE  w \in { <<a, mem[a]>> : a \in DOMAIN mem }
  <2>1. CASE \E p \in Linked!ItemPlaces : Linked!ItemOf(p).kind # "op" /\ w = Linked!ItemWord(p)
    BY <2>1, PlacesOf, ItemComplete
  <2>2. CASE \E p \in Linked!PiecePlaces :
               /\ Linked!PieceOf(p).kind = "ref"
               /\ w = <<Linked!PieceStart(p[1], p[2]), Linked!Reference(Linked!PieceOf(p))>>
    BY <2>2, PlacesOf, PieceComplete
  <2>. QED
    BY <1>1, <2>1, <2>2 DEF Linked!Image
<1>2. ASSUME NEW a \in DOMAIN mem
      PROVE  <<a, mem[a]>> \in Linked!Image
  <2>1. CASE a \in ItemSites
    <3>1. PICK i \in DOMAIN module.functions : \E j \in DOMAIN module.functions[i].blocks :
                 \E k \in DOMAIN module.functions[i].blocks[j] :
                    /\ module.functions[i].blocks[j][k].kind # "op"
                    /\ a = Linked!ItemStart(i, j, k)
      BY <2>1 DEF ItemSites
    <3>2. PICK j \in DOMAIN module.functions[i].blocks :
                 \E k \in DOMAIN module.functions[i].blocks[j] :
                    /\ module.functions[i].blocks[j][k].kind # "op"
                    /\ a = Linked!ItemStart(i, j, k)
      BY <3>1
    <3>3. PICK k \in DOMAIN module.functions[i].blocks[j] :
                    /\ module.functions[i].blocks[j][k].kind # "op"
                    /\ a = Linked!ItemStart(i, j, k)
      BY <3>2
    <3>4. Linked!ItemWord(<<i, j, k>>) = <<a, mem[a]>>
      BY <3>3, ItemComplete
    <3>5. <<i, j, k>> \in { q \in Linked!ItemPlaces : Linked!ItemOf(q).kind # "op" }
      BY <3>3, PlacesOf
    <3>. QED
      BY <3>4, <3>5 DEF Linked!Image
  <2>2. CASE a \in PieceSites
    <3>1. PICK i \in DOMAIN module.globals : \E k \in DOMAIN module.globals[i].init :
                 module.globals[i].init[k].kind = "ref" /\ a = Linked!PieceStart(i, k)
      BY <2>2 DEF PieceSites
    <3>2. PICK k \in DOMAIN module.globals[i].init :
                 module.globals[i].init[k].kind = "ref" /\ a = Linked!PieceStart(i, k)
      BY <3>1
    <3>. DEFINE p == <<i, k>>
    <3>3. p \in { q \in Linked!PiecePlaces : Linked!PieceOf(q).kind = "ref" }
          /\ Linked!PieceOf(p) = module.globals[i].init[k]
      BY <3>2, PlacesOf
    <3>4. <<a, mem[a]>> = <<Linked!PieceStart(p[1], p[2]), Linked!Reference(Linked!PieceOf(p))>>
      BY <3>2, <3>3, PieceComplete
    <3>. HIDE DEF p
    <3>. QED
      BY <3>3, <3>4 DEF Linked!Image
  <2>. QED
    BY <2>1, <2>2 DEF PlacesInv, OnlyPlaces
<1>. QED
  BY <1>1, <1>2

(* ... and the module was linkable.                                         *)
LEMMA CompleteIsLinkable ==
  ASSUME PlacesInv, Complete
  PROVE  Linked!Linkable
<1>1. code = EndOfCode /\ data = EndOfData
  BY DEF PlacesInv, AtPlace, AllPlaced, Complete
<1>2. code < CodeEnd /\ data < DataEnd
  BY AddressAssumption DEF PlacesInv, IInv, Typed, TypeOK
<1>3. \A i \in DOMAIN module.globals :
        module.globals[i].weak => module.globals[i].name \in WeakSymbols
  BY SymbolsComplete DEF AllPlaced, Complete
<1>4. ASSUME NEW p \in Linked!ItemPlaces, Linked!ItemOf(p).kind = "ref"
      PROVE  Linked!ItemOf(p).symbol \in Linked!Symbols
  BY <1>4, PlacesOf, ItemComplete
<1>5. ASSUME NEW p \in Linked!PiecePlaces, Linked!PieceOf(p).kind = "ref"
      PROVE  Linked!PieceOf(p).symbol \in Linked!Symbols
  BY <1>5, PlacesOf, PieceComplete
<1>. QED
  BY <1>1, <1>2, <1>3, <1>4, <1>5
     DEF Linked!Linkable, EndOfCode, EndOfData, Total, Linked!Globals

(* A translation that stops early stops for what is not linkable.           *)
LEMMA FullIsNotLinkable ==
  ASSUME PlacesInv, BufferFull
  PROVE  ~Linked!Linkable
<1>1. Typed /\ AtPlace /\ module \in Modules
  BY DEF PlacesInv, IInv, Typed
<1>2. /\ EndOfCode = CodeBase + Total(Linked!FunctionSizes) /\ EndOfCode \in Int
      /\ EndOfData = DataBase + Total(Linked!GlobalSizes) + Total(Linked!FunctionConstants)
      /\ DataAfterGlobals \in Int /\ EndOfData \in Int /\ DataAfterGlobals <= EndOfData
      /\ CodeEnd \in Int /\ DataEnd \in Int /\ code \in Int /\ data \in Int
  <2>1. /\ Total(Linked!GlobalSizes) \in Nat /\ Total(Linked!FunctionSizes) \in Nat
        /\ Total(Linked!FunctionConstants) \in Nat
    BY <1>1, ModuleSizesAdd DEF Adds
  <2>. QED
    BY <1>1, <2>1, AddressAssumption
       DEF EndOfCode, EndOfData, DataAfterGlobals, Typed, TypeOK
<1>3. SUFFICES EndOfCode >= CodeEnd \/ EndOfData >= DataEnd
  BY <1>2 DEF Linked!Linkable, Total
<1>4. CASE /\ AtGlobal /\ ~Global.weak /\ ii \in DOMAIN Global.init
           /\ ~Fits(data, PieceSize(Global.init[ii]), DataEnd)
  <2>. DEFINE n == PieceSize(Global.init[ii])
              x == Linked!PieceStart(fi, ii + 1)
  <2>1. x = data + n /\ x <= DataAfterGlobals
    BY <1>1, <1>4, PieceStep
  <2>2. n \in Nat /\ ~(data + n < DataEnd)
    BY <1>1, <1>4, CurrentItem DEF Fits, PieceSize, IsPiece, WordSize
  <2>. HIDE DEF n, x
  <2>. QED
    BY <1>2, <2>1, <2>2
<1>5. CASE /\ AtFunction /\ Declared /\ Function.name # "llvm.nacl.read.tp"
           /\ ~Fits(code, UndefinedStubSize, CodeEnd)
  <2>1. fi \in DOMAIN module.functions /\ code = Linked!FunctionStart(fi)
    BY <1>1, <1>5 DEF AtFunction, AtPlace
  <2>. DEFINE x == Linked!FunctionStart(fi + 1)
  <2>2. x = code + UndefinedStubSize /\ x <= EndOfCode
    BY <1>1, <1>5, <2>1, CodeIsLaidOut DEF CodeLaidOut, FunctionLaidOut, Declared, Function
  <2>. HIDE DEF x
  <2>. QED
    BY <1>2, <1>5, <2>2 DEF Fits, UndefinedStubSize
<1>6. CASE AtFunction /\ ~Declared /\ bi = 0 /\ ~Fits(code, PrologSize, CodeEnd)
  <2>1. fi \in DOMAIN module.functions /\ code = Linked!FunctionStart(fi)
    BY <1>1, <1>6 DEF AtFunction, AtPlace
  <2>. DEFINE x == Linked!BlockStart(fi, 1)
  <2>2. x = code + PrologSize /\ x <= EndOfCode
    BY <1>1, <1>6, <2>1, CodeIsLaidOut DEF CodeLaidOut, FunctionLaidOut, Declared, Function
  <2>. HIDE DEF x
  <2>. QED
    BY <1>2, <1>6, <2>2 DEF Fits, PrologSize
<1>7. CASE /\ AtItem
           /\ \/ ~Fits(code, ItemSize(Item), CodeEnd)
              \/ Item.kind = "const" /\ ~Fits(data, ConstantSize, DataEnd)
  <2>. DEFINE n == ItemSize(Item)
              x == Linked!ItemStart(fi, bi, ii + 1)
              y == Linked!ConstantStart(fi, bi, ii + 1)
  <2>1. /\ x = code + n /\ x <= EndOfCode
        /\ Item.kind = "const" => y = data + ConstantSize
        /\ y <= EndOfData
    BY <1>1, <1>7, ItemStep
  <2>2. n \in Nat
    BY <1>1, <1>7, CurrentItem DEF ItemSize, IsItem, WordSize
  <2>3. ~(code + n < CodeEnd) \/ (Item.kind = "const" /\ ~(data + ConstantSize < DataEnd))
    BY <1>7 DEF Fits
  <2>. HIDE DEF n, x, y
  <2>. QED
    BY <1>2, <2>1, <2>2, <2>3 DEF ConstantSize
<1>. QED
  BY <1>4, <1>5, <1>6, <1>7 DEF BufferFull

RecordedItem(a, i, it) ==
  /\ a \in DOMAIN jumps /\ a \notin DOMAIN refs => it.kind = "jump" /\ jumps[a] = <<i, it.dest>>
  /\ a \in DOMAIN refs /\ a \notin DOMAIN jumps => it.kind = "ref" /\ refs[a].symbol = it.symbol

LEMMA HeldItem ==
  ASSUME NEW a, NEW i, NEW it, NEW c, HoldsItem(a, i, it, c), IsItem(it), it.kind # "op"
  PROVE  RecordedItem(a, i, it)
<1>1. it.kind \in {"jump", "call", "ref", "const"}
  BY DEF IsItem
<1>. QED
  BY <1>1 DEF HoldsItem, HoldsReference, RecordedItem

LEMMA UnresolvedIsNotLinkable ==
  ASSUME PlacesInv, Unresolved
  PROVE  ~Linked!Linkable
<1>. USE DEF PlacesInv
<1>1. AllPlaced /\ Linked!Symbols = DOMAIN globals
  BY SymbolsComplete DEF Unresolved, AllPlaced
<1>2. ASSUME NEW a \in DOMAIN mem
      PROVE  \/ \E i \in DOMAIN module.functions : \E j \in DOMAIN module.functions[i].blocks :
                  \E k \in DOMAIN module.functions[i].blocks[j] :
                    RecordedItem(a, i, module.functions[i].blocks[j][k])
             \/ \E i \in DOMAIN module.globals : \E k \in DOMAIN module.globals[i].init :
                  LET p == module.globals[i].init[k] IN
                  p.kind = "ref" /\ a \in DOMAIN refs /\ refs[a].symbol = p.symbol
  <2>1. \A i \in DOMAIN module.functions : \A j \in DOMAIN module.functions[i].blocks :
          \A k \in DOMAIN module.functions[i].blocks[j] : IsItem(module.functions[i].blocks[j][k])
    BY ModulesAssumption DEF IsFunction, IInv, Typed
  <2>2. CASE a \in ItemSites
    <3>1. \E i \in DOMAIN module.functions : \E j \in DOMAIN module.functions[i].blocks :
            \E k \in DOMAIN module.functions[i].blocks[j] :
              /\ module.functions[i].blocks[j][k].kind # "op"
              /\ HoldsItem(a, i, module.functions[i].blocks[j][k], Linked!ConstantStart(i, j, k))
      BY <1>1, <2>2 DEF ItemSites, ItemsPlaced, ItemDone
    <3>. QED
      BY <2>1, <3>1, HeldItem
  <2>3. CASE a \in PieceSites
    <3>1. \E i \in DOMAIN module.globals : \E k \in DOMAIN module.globals[i].init :
            /\ module.globals[i].init[k].kind = "ref"
            /\ HoldsReference(a, module.globals[i].init[k])
      BY <1>1, <2>3 DEF PieceSites, PiecesPlaced, PieceDone
    <3>2. \A r : HoldsReference(a, r) => a \in DOMAIN refs /\ refs[a].symbol = r.symbol
      BY DEF HoldsReference
    <3>. QED
      BY <3>1, <3>2
  <2>. QED
    BY <1>2, <2>2, <2>3 DEF OnlyPlaces
<1>3. CASE /\ phase = "jumps" /\ next \in DOMAIN jump_relocs
           /\ jump_relocs[next].dest \notin DOMAIN labels
  <2>. DEFINE a == JumpWord(jump_relocs[next])
  <2>1. /\ a \in DOMAIN jumps /\ jumps[a] \notin DOMAIN labels
        /\ a \in DOMAIN mem /\ a \notin DOMAIN refs
    BY <1>3 DEF IInv, TablesComplete
  <2>. HIDE DEF a
  <2>2. PICK i \in DOMAIN module.functions : \E j \in DOMAIN module.functions[i].blocks :
               \E k \in DOMAIN module.functions[i].blocks[j] :
                 LET it == module.functions[i].blocks[j][k] IN
                 it.kind = "jump" /\ jumps[a] = <<i, it.dest>>
    BY <1>2, <2>1 DEF RecordedItem
  <2>3. \A d \in DOMAIN module.functions[i].blocks : <<i, d>> \in DOMAIN labels
    BY <1>1 DEF LabelsPlaced, LabelDone
  <2>4. \A j \in DOMAIN module.functions[i].blocks :
          \A k \in DOMAIN module.functions[i].blocks[j] :
            LET it == module.functions[i].blocks[j][k] IN
            it.kind = "jump" => it.dest \in DOMAIN module.functions[i].blocks
    BY ModulesAssumption DEF IsFunction, IInv, Typed
  <2>. QED
    BY <2>1, <2>2, <2>3, <2>4
<1>4. CASE /\ phase = "refs" /\ next \in DOMAIN global_relocs
           /\ global_relocs[next].symbol \notin DOMAIN globals
  <2>. DEFINE a == global_relocs[next].loc
  <2>1. /\ a \in DOMAIN refs /\ refs[a].symbol \notin DOMAIN globals
        /\ a \in DOMAIN mem /\ a \notin DOMAIN jumps
    BY <1>4 DEF IInv, TablesComplete
  <2>. HIDE DEF a
  <2>2. CASE \E i \in DOMAIN module.functions : \E j \in DOMAIN module.functions[i].blocks :
               \E k \in DOMAIN module.functions[i].blocks[j] :
                 RecordedItem(a, i, module.functions[i].blocks[j][k])
    <3>2. \E i \in DOMAIN module.functions : \E j \in DOMAIN module.functions[i].blocks :
            \E k \in DOMAIN module.functions[i].blocks[j] :
              LET it == module.functions[i].blocks[j][k] IN
              it.kind = "ref" /\ refs[a].symbol = it.symbol
      BY <2>1, <2>2 DEF RecordedItem
    <3>1. \E p \in Linked!ItemPlaces :
            Linked!ItemOf(p).kind = "ref" /\ refs[a].symbol = Linked!ItemOf(p).symbol
      BY <3>2, PlacesOf
    <3>. QED
      BY <1>1, <2>1, <3>1 DEF Linked!Linkable
  <2>3. CASE \E i \in DOMAIN module.globals : \E k \in DOMAIN module.globals[i].init :
               LET p == module.globals[i].init[k] IN
               p.kind = "ref" /\ a \in DOMAIN refs /\ refs[a].symbol = p.symbol
    <3>1. \E p \in Linked!PiecePlaces :
            Linked!PieceOf(p).kind = "ref" /\ refs[a].symbol = Linked!PieceOf(p).symbol
      BY <2>3, PlacesOf
    <3>. QED
      BY <1>1, <2>1, <3>1 DEF Linked!Linkable
  <2>. QED
    BY <1>2, <2>1, <2>2, <2>3
<1>. QED
  BY <1>3, <1>4 DEF Unresolved

LEMMA AbortIsNotLinkable ==
  ASSUME PlacesInv, Abort
  PROVE  ~Linked!Linkable
<1>1. CASE DisallowedWeak
  BY <1>1 DEF DisallowedWeak, AtGlobal, Global, Linked!Linkable, Linked!Globals
<1>. QED
  BY <1>1, FullIsNotLinkable, UnresolvedIsNotLinkable DEF Abort

--------------------------------------------------------------------------------
(* The step that ends a translation is the closed form's only step.         *)
LinkedOutcome ==
  IF phase = "done" THEN "linked" ELSE IF phase = "aborted" THEN "failed" ELSE "none"
LinkedImage == IF phase = "done" THEN { <<a, mem[a]>> : a \in DOMAIN mem } ELSE {}

LEMMA LinkingRefined ==
  ASSUME PlacesInv, [Next]_vars
  PROVE  [Linked!Next]_<<module, LinkedOutcome, LinkedImage>>
<1>0. module' = module
  BY NextModule
<1>1. CASE FinishRefs
  <2>1. Complete /\ phase' = "done" /\ mem' = mem
    BY <1>1 DEF FinishRefs, Complete
  <2>2. Linked!Linkable /\ LinkedImage' = Linked!Image
    BY <2>1, CompleteIsLinkable, ImageComplete DEF LinkedImage
  <2>3. LinkedOutcome = "none" /\ LinkedOutcome' = "linked"
    BY <2>1 DEF LinkedOutcome, Complete
  <2>. QED
    BY <1>0, <2>2, <2>3 DEF Linked!Next, LinkedOutcome, LinkedImage
<1>2. CASE Abort
  <2>1. phase \notin {"done", "aborted"} /\ phase' = "aborted"
    BY <1>2 DEF Abort, BufferFull, DisallowedWeak, Unresolved, AtGlobal, AtFunction, AtItem,
                AtBlock
  <2>2. ~Linked!Linkable
    BY <1>2, AbortIsNotLinkable
  <2>3. LinkedOutcome = "none" /\ LinkedOutcome' = "failed" /\ LinkedImage' = {}
    BY <2>1 DEF LinkedOutcome, LinkedImage
  <2>. QED
    BY <1>0, <2>2, <2>3 DEF Linked!Next, LinkedOutcome, LinkedImage
<1>3. CASE UNCHANGED vars
  BY <1>3 DEF vars, LinkedOutcome, LinkedImage
<1>4. CASE phase \notin {"done", "aborted"} /\ phase' \notin {"done", "aborted"}
  BY <1>0, <1>4 DEF LinkedOutcome, LinkedImage
<1>. QED
  BY <1>1, <1>2, <1>3, <1>4
     DEF Next, StartGlobal, WritePiece, FinishGlobal, PlaceWeakGlobal, StartFunctions,
         DeclareFunction, StartFunction, MakeLabel, PutOp, PutJump, PutDirectCall,
         PutGlobalRef, PutConstant, FinishBlock, FinishFunction, StartLinking, ApplyJump,
         FinishJumps, ApplyRef, Stopped, AtGlobal, AtFunction, AtBlock, AtItem

(* Whatever the module, translate() fills memory as the closed form says,  *)
(* or stops, and it stops only for a module that does not fit its buffers, *)
(* has an extern_weak symbol that is not let through, or refers to a name  *)
(* that is not there.                                                      *)
THEOREM TranslationIsLinking == Spec => ImplementsLinking
<1>1. Init => Linked!Init
  BY DEF Init, Linked!Init
<1>2. PlacesInv /\ [Next]_vars => [Linked!Next]_<<module, LinkedOutcome, LinkedImage>>
  BY LinkingRefined
<1>. QED
  BY Placement, <1>1, <1>2, PTL DEF Spec, ImplementsLinking, Linked!Spec, LinkedOutcome,
                                    LinkedImage
================================================================================
