---------------------------- MODULE CallStackProofs ----------------------------
(***************************************************************************)
(* Theorems about CallStack, for all programs, frames and depths of calls: *)
(* the frames stay linked, objects stay apart from everything else, a      *)
(* return restores its caller, and the code implements Calls.  What a      *)
(* program must do for it is to store in its objects only                  *)
(* (StoresInObjects), and for the last to call functions by pointers of    *)
(* their types (CallsReachFunctions).                                      *)
(***************************************************************************)
EXTENDS CallStack, SharedLemmas

Word == Int \cup {Unknown}
MemOK(m) == DOMAIN m \subseteq Int /\ Range(m) \subseteq Word

(* The innermost frame is at base, and those of the callers are above it.   *)
Frames ==
  /\ base \in Int
  /\ callers \in Seq([fn : DOMAIN prog, pc : Int, base : Int, esp : Int])
  /\ \A k \in DOMAIN callers :
       /\ callers[k].pc \in DOMAIN prog[callers[k].fn].insts
       /\ callers[k].esp + FrameSize(prog[callers[k].fn]) <= callers[k].base
       /\ \A j \in 1 .. (k - 1) : callers[k].base + 8 <= callers[j].esp
       /\ base + 8 <= callers[k].esp
  /\ at \in {"inst", "result"} => ebp = base /\ esp + FrameSize(Func) <= base
  /\ at = "result" => Current.kind = "call"
  /\ arg # 1 => At("call")
  /\ at = "done" => callers = << >> /\ objects = {}

(* Each frame holds what the one above it needs (FramesLinked, without      *)
(* Activations).                                                            *)
LinkedAt(b, l) == Read(mem, b + 4) = l.return /\ Read(mem, b) = l.base
Depth == Len(callers) + 1

Linked ==
  /\ \A k \in DOMAIN callers :
       callers[k].base + 8 = Links(k).esp /\ LinkedAt(callers[k].base, Links(k))
  /\ at # "done" =>
       /\ base + 8 = Links(Depth).esp
       /\ IF at = "entry"
          THEN ebp = Links(Depth).base /\ esp = base + 4 /\ Read(mem, base + 4) = Links(Depth).return
          ELSE LinkedAt(base, Links(Depth))

(* Each object is in the frame of an activation, between its area for       *)
(* outgoing arguments and its slots.                                        *)
Within(o, f, top, b) ==
  /\ o.base = b
  /\ top + f.frame_callees_args_size <= o.addr
  /\ o.addr + o.size <= b - VarsSize(f.insts, Len(f.insts))

InCaller(o) ==
  \E k \in DOMAIN callers : Within(o, prog[callers[k].fn], callers[k].esp, callers[k].base)

Objects ==
  /\ \A o \in objects :
       /\ o.base \in Int /\ o.addr \in Int /\ o.size \in Nat
       /\ InCaller(o) \/ (at \in {"inst", "result"} /\ Within(o, Func, esp, base))
  /\ \A o, p \in objects : o # p => Disjoint(o.addr, o.size, p.addr, p.size)

IInv == TypeOK /\ Frames /\ Linked /\ Objects
--------------------------------------------------------------------------------
(* Memory.                                                                  *)
LEMMA WriteOK ==
  ASSUME NEW m, MemOK(m), NEW a \in Int, NEW n \in Nat, NEW words,
         DOMAIN words = 1 .. n, \A k \in 1 .. n : words[k] \in Word
  PROVE  MemOK(Write(m, a, words))
<1>. DEFINE written == { a + 4 * (k - 1) : k \in DOMAIN words }
            kept == {y \in DOMAIN m : Disjoint(y, 4, a, 4 * Len(words))}
            w == Write(m, a, words)
<1>1. w = [x \in kept \cup written |->
             IF x \in written THEN words[(x - a) \div 4 + 1] ELSE m[x]]
  BY DEF Write
<1>2. DOMAIN w \subseteq Int
  BY <1>1 DEF MemOK
<1>3. ASSUME NEW x \in DOMAIN w PROVE w[x] \in Word
  <2>1. CASE x \in written
    <3>1. PICK k \in 1 .. n : x = a + 4 * (k - 1)
      BY <2>1
    <3>2. (x - a) \div 4 + 1 = k
      BY <3>1
    <3>. QED
      BY <1>1, <2>1, <3>2
  <2>2. CASE x \notin written
    BY <1>1, <2>2 DEF MemOK, Range
  <2>. QED
    BY <2>1, <2>2
<1>. QED
  BY <1>2, <1>3 DEF MemOK, Range

LEMMA ReadOK == ASSUME NEW m, MemOK(m), NEW a PROVE Read(m, a) \in Word
BY DEF Read, MemOK, Range, Word

LEMMA ReadAside ==
  ASSUME NEW m, NEW a \in Int, NEW words, NEW n \in Nat, Len(words) = n, DOMAIN words = 1 .. n,
         NEW x \in Int, Disjoint(x, 4, a, 4 * n)
  PROVE  Read(Write(m, a, words), x) = Read(m, x)
<1>1. \A k \in 1 .. n : x # a + 4 * (k - 1)
  BY DEF Disjoint
<1>. QED
  BY <1>1 DEF Read, Write

LEMMA ReadBack ==
  ASSUME NEW m, NEW a \in Int, NEW words, NEW n \in Nat, DOMAIN words = 1 .. n, n # 0
  PROVE  Read(Write(m, a, words), a) = words[1]
<1>1. a = a + 4 * (1 - 1) /\ (a - a) \div 4 + 1 = 1 /\ 1 \in DOMAIN words
  OBVIOUS
<1>2. a \in { a + 4 * (k - 1) : k \in DOMAIN words }
  BY <1>1
<1>. QED
  BY <1>1, <1>2 DEF Read, Write

LEMMA OneWord ==
  ASSUME NEW m, NEW a \in Int, NEW word
  PROVE  /\ Read(Write(m, a, <<word>>), a) = word
         /\ \A x \in Int : Disjoint(x, 4, a, 4) => Read(Write(m, a, <<word>>), x) = Read(m, x)
         /\ MemOK(m) /\ word \in Word => MemOK(Write(m, a, <<word>>))
<1>1. PICK n \in {1} : Len(<<word>>) = n /\ DOMAIN <<word>> = 1 .. n /\ <<word>>[1] = word
  OBVIOUS
<1>2. n \in Nat /\ n # 0 /\ 4 * n = 4 /\ \A k \in 1 .. n : k = 1
  OBVIOUS
<1>3. Read(Write(m, a, <<word>>), a) = word
  BY <1>1, <1>2, ReadBack
<1>4. ASSUME NEW x \in Int, Disjoint(x, 4, a, 4)
      PROVE  Read(Write(m, a, <<word>>), x) = Read(m, x)
  <2>1. \A k \in DOMAIN <<word>> : k = 1
    OBVIOUS
  <2>2. x \notin { a + 4 * (k - 1) : k \in DOMAIN <<word>> }
    BY <1>4, <2>1 DEF Disjoint
  <2>3. Disjoint(x, 4, a, 4 * Len(<<word>>))
    BY <1>4
  <2>. QED
    BY <2>2, <2>3 DEF Read, Write
<1>5. ASSUME MemOK(m), word \in Word PROVE MemOK(Write(m, a, <<word>>))
  <2>1. \A k \in 1 .. n : <<word>>[k] \in Word
    BY <1>1, <1>2, <1>5
  <2>. QED
    BY <1>1, <1>2, <1>5, <2>1, WriteOK
<1>. QED
  BY <1>3, <1>4, <1>5

LEMMA WordsOfOK ==
  ASSUME NEW ty, NEW lo \in Word, NEW hi \in Word
  PROVE  /\ \E n \in 1 .. 2 :
              /\ Len(WordsOf(ty, lo, hi)) = n /\ DOMAIN WordsOf(ty, lo, hi) = 1 .. n
              /\ 4 * n = ArgStackSize(ty)
         /\ \A k \in DOMAIN WordsOf(ty, lo, hi) : WordsOf(ty, lo, hi)[k] \in Word
BY DEF WordsOf, ArgStackSize
--------------------------------------------------------------------------------
(* What is known of the functions of a program.                             *)
LEMMA ArgTypesOK == ASSUME NEW s \in Seq(ArgTypes) PROVE s \in Seq(Types)
<1>1. \A k \in 1 .. Len(s) : s[k] \in Types
  BY DEF ArgTypes
<1>. QED
  BY <1>1

LEMMA FunctionOK ==
  ASSUME prog \in Programs, NEW f \in DOMAIN prog
  PROVE  /\ WellFormed(prog[f])
         /\ VarsSize(prog[f].insts, Len(prog[f].insts)) \in Nat
         /\ prog[f].frame_callees_args_size \in Nat /\ prog[f].frame_callees_args_size >= 12
         /\ FrameSize(prog[f]) =
              VarsSize(prog[f].insts, Len(prog[f].insts)) + prog[f].frame_callees_args_size
         /\ DOMAIN prog[f].insts = 1 .. Len(prog[f].insts) /\ 1 \in DOMAIN prog[f].insts
         /\ prog[f].params \in Seq(Types) /\ prog[f].insts \in Seq(Range(prog[f].insts))
         /\ \A k \in DOMAIN prog[f].insts : prog[f].insts[k].args \in Seq(Types)
<1>1. WellFormed(prog[f])
  BY ProgramsAssumption
<1>2. /\ prog[f].insts \in Seq(Range(prog[f].insts)) /\ prog[f].insts # << >>
      /\ prog[f].frame_callees_args_size \in Nat /\ prog[f].frame_callees_args_size >= 12
  BY <1>1 DEF WellFormed, kMinCalleeArgsSize
<1>3. Len(prog[f].insts) \in 0 .. Len(prog[f].insts)
  BY <1>2
<1>4. VarsSize(prog[f].insts, Len(prog[f].insts)) \in Nat
  BY <1>2, <1>3, VarsSizeStep
<1>5. prog[f].params \in Seq(Types)
  BY <1>1, ArgTypesOK DEF WellFormed
<1>6. ASSUME NEW k \in DOMAIN prog[f].insts PROVE prog[f].insts[k].args \in Seq(Types)
  BY <1>1, ArgTypesOK DEF WellFormed, WellFormedInst
<1>. QED
  BY <1>1, <1>2, <1>4, <1>5, <1>6 DEF FrameSize

LEMMA InstOK ==
  ASSUME TypeOK
  PROVE  /\ WellFormed(Func) /\ WellFormedInst(Func, pc)
         /\ Current = Func.insts[pc] /\ Current.args \in Seq(Types)
         /\ Len(Current.args) \in Nat /\ DOMAIN Current.args = 1 .. Len(Current.args)
         /\ Inst(pc) \in SlottedValues(Func) /\ ValueType(Func, Inst(pc)) = Current.type
         /\ Func.params \in Seq(Types) /\ Func.insts \in Seq(Range(Func.insts))
         /\ \A k \in DOMAIN Func.insts : Func.insts[k].args \in Seq(Types)
<1>1. prog \in Programs /\ fn \in DOMAIN prog /\ pc \in DOMAIN Func.insts
  BY DEF TypeOK
<1>2. /\ WellFormed(Func) /\ Func.params \in Seq(Types)
      /\ Func.insts \in Seq(Range(Func.insts))
      /\ \A k \in DOMAIN Func.insts : Func.insts[k].args \in Seq(Types)
  BY <1>1, FunctionOK DEF Func
<1>3. WellFormedInst(Func, pc)
  BY <1>1, <1>2 DEF WellFormed
<1>4. ~ IsAlias(Func.insts[pc]) /\ Current.args \in Seq(Types)
  BY <1>1, <1>2, <1>3 DEF WellFormedInst, IsAlias, Current
<1>. QED
  BY <1>1, <1>2, <1>3, <1>4 DEF Current, SlottedValues, ValueType, Inst

LEMMA SlotOK ==
  ASSUME TypeOK, NEW v \in SlottedValues(Func)
  PROVE  /\ Slot(v) \in Int
         /\ v[1] # "param" =>
              /\ ebp - VarsSize(Func.insts, Len(Func.insts)) <= Slot(v)
              /\ Slot(v) + ArgStackSize(ValueType(Func, v)) <= ebp
<1>. DEFINE o == FrameSlots(Func)[v]
            s == VarsSize(Func.insts, Len(Func.insts))
            n == ArgStackSize(ValueType(Func, v))
<1>1. /\ o \in Int
      /\ v[1] # "param" => o >= -s /\ o + n <= 0
  BY InstOK, SlotRegions
<1>2. ebp \in Int /\ s \in Nat /\ n \in Nat
  BY FunctionOK DEF TypeOK, Func, ArgStackSize
<1>3. Slot(v) = ebp + o
  BY DEF Slot
<1>. HIDE DEF o, s, n
<1>. QED
  BY <1>1, <1>2, <1>3 DEF o, s, n

LEMMA OperandOK ==
  ASSUME TypeOK, NEW o, NEW ty, IsOperand(Func, o, ty)
  PROVE  Part(o, 1) \in Word /\ Part(o, 2) \in Word /\ Address(o) \in Word
<1>1. MemOK(mem)
  BY DEF TypeOK, MemOK, Word
<1>. QED
  BY <1>1, ReadOK, SlotOK DEF Part, Address, IsOperand, Word
--------------------------------------------------------------------------------
(* The words that link the frames, and what leaves them alone.              *)
LinkWords ==
  {base, base + 4} \cup {callers[k].base : k \in DOMAIN callers}
    \cup {callers[k].base + 4 : k \in DOMAIN callers}

Kept(m) == \A x \in LinkWords : Read(m, x) = Read(mem, x)

LEMMA Element ==
  ASSUME NEW S, NEW s \in Seq(S), NEW k \in DOMAIN s
  PROVE  s[k] \in S /\ k \in Nat /\ DOMAIN s = 1 .. Len(s)
OBVIOUS

LEMMA CallerOK ==
  ASSUME TypeOK, Frames, NEW k \in DOMAIN callers
  PROVE  /\ callers[k].fn \in DOMAIN prog /\ callers[k].base \in Int /\ callers[k].esp \in Int
         /\ base \in Int /\ base + 8 <= callers[k].esp
         /\ callers[k].esp + 12 <= callers[k].base
         /\ \A j \in DOMAIN callers : j < k => callers[k].base + 8 <= callers[j].esp
<1>. DEFINE R == [fn : DOMAIN prog, pc : Int, base : Int, esp : Int]
            f == prog[callers[k].fn]
<1>1. /\ base \in Int /\ base + 8 <= callers[k].esp
      /\ callers[k].esp + FrameSize(f) <= callers[k].base
      /\ \A j \in 1 .. (k - 1) : callers[k].base + 8 <= callers[j].esp
  BY DEF Frames
<1>2. callers \in Seq(R)
  BY DEF Frames
<1>3. callers[k] \in R /\ k \in Nat /\ DOMAIN callers = 1 .. Len(callers)
  <2>. HIDE DEF R
  <2>. QED
    BY <1>2, Element
<1>4. \A j \in DOMAIN callers : j < k => j \in 1 .. (k - 1)
  BY <1>3
<1>5. callers[k].fn \in DOMAIN prog /\ callers[k].base \in Int /\ callers[k].esp \in Int
  BY <1>3
<1>6. /\ f.frame_callees_args_size \in Nat /\ VarsSize(f.insts, Len(f.insts)) \in Nat
      /\ f.frame_callees_args_size >= 12
      /\ FrameSize(f) = VarsSize(f.insts, Len(f.insts)) + f.frame_callees_args_size
  BY <1>5, FunctionOK DEF TypeOK
<1>. QED
  BY SMTT(30), <1>1, <1>4, <1>5, <1>6

LEMMA CallerAbove ==
  ASSUME TypeOK, Frames, NEW k \in DOMAIN callers
  PROVE  callers[k].base # base
<1>1. /\ callers[k].base \in Int /\ callers[k].esp \in Int /\ base \in Int
      /\ base + 8 <= callers[k].esp /\ callers[k].esp + 12 <= callers[k].base
  BY CallerOK
<1>. QED
  BY <1>1

LEMMA BelowKeeps ==
  ASSUME TypeOK, Frames, NEW m, Kept(m), NEW a \in Int, NEW n \in Nat, NEW words,
         Len(words) = n, DOMAIN words = 1 .. n, a + 4 * n <= base
  PROVE  Kept(Write(m, a, words))
<1>. SUFFICES ASSUME NEW x \in LinkWords PROVE Read(Write(m, a, words), x) = Read(m, x)
  BY DEF Kept
<1>1. base \in Int
  BY DEF Frames
<1>2. x \in Int /\ x >= base
  BY <1>1, CallerOK DEF LinkWords
<1>3. Disjoint(x, 4, a, 4 * n)
  BY <1>1, <1>2 DEF Disjoint
<1>. QED
  BY <1>2, <1>3, ReadAside

(* An object of the innermost function is below all links, one of a caller  *)
(* is between the links of this caller and of the function it called.       *)
LEMMA ObjectAside ==
  ASSUME TypeOK, Frames, Objects, NEW o \in objects, NEW x \in LinkWords
  PROVE  x \in Int /\ Disjoint(x, 4, o.addr, o.size)
<1>0. base \in Int
  BY DEF Frames
<1>1. x \in Int /\ x >= base
  BY <1>0, CallerOK DEF LinkWords
<1>2. o.addr \in Int /\ o.size \in Nat
  BY DEF Objects
<1>3. CASE at \in {"inst", "result"} /\ Within(o, Func, esp, base)
  <2>1. VarsSize(Func.insts, Len(Func.insts)) \in Nat
    BY FunctionOK DEF TypeOK, Func
  <2>2. o.addr + o.size <= base - VarsSize(Func.insts, Len(Func.insts))
    BY <1>3 DEF Within
  <2>. QED
    BY <1>0, <1>1, <1>2, <2>1, <2>2 DEF Disjoint
<1>4. CASE InCaller(o)
  <2>1. PICK k \in DOMAIN callers :
               Within(o, prog[callers[k].fn], callers[k].esp, callers[k].base)
    BY <1>4 DEF InCaller
  <2>0. /\ callers[k].fn \in DOMAIN prog /\ prog \in Programs
        /\ callers[k].esp \in Int /\ callers[k].base \in Int /\ base + 8 <= callers[k].esp
    BY CallerOK DEF TypeOK
  <2>2. callers[k].esp + 12 <= o.addr /\ o.addr + o.size <= callers[k].base
    <3>. DEFINE f == prog[callers[k].fn]
    <3>1. /\ f.frame_callees_args_size \in Nat /\ VarsSize(f.insts, Len(f.insts)) \in Nat
          /\ f.frame_callees_args_size >= 12
      BY <2>0, FunctionOK
    <3>2. /\ callers[k].esp + f.frame_callees_args_size <= o.addr
          /\ o.addr + o.size <= callers[k].base - VarsSize(f.insts, Len(f.insts))
      BY <2>1 DEF Within
    <3>. HIDE DEF f
    <3>3. o.addr \in Int /\ o.size \in Nat /\ callers[k].esp \in Int /\ callers[k].base \in Int
      BY <1>2, <2>0
    <3>. QED
      BY <3>1, <3>2, <3>3
  <2>3. CASE x \in {base, base + 4}
    BY <1>0, <1>1, <1>2, <2>0, <2>2, <2>3 DEF Disjoint
  <2>4. CASE x \notin {base, base + 4}
    <3>1. PICK j \in DOMAIN callers : x \in {callers[j].base, callers[j].base + 4}
      BY <2>4 DEF LinkWords
    <3>2. callers[j].base \in Int /\ callers[j].esp \in Int
          /\ callers[j].esp + 12 <= callers[j].base
      BY CallerOK
    <3>3. j \in Int /\ k \in Int
      BY Element DEF Frames
    <3>4. \/ j = k
          \/ j < k /\ callers[k].base + 8 <= callers[j].esp
          \/ k < j /\ callers[j].base + 8 <= callers[k].esp
      BY <3>3, CallerOK
    <3>. QED
      BY <1>2, <2>0, <2>2, <3>1, <3>2, <3>4 DEF Disjoint
  <2>. QED
    BY <2>3, <2>4
<1>. QED
  BY <1>1, <1>3, <1>4 DEF Objects

LEMMA InObjectKeeps ==
  ASSUME TypeOK, Frames, Objects, NEW o \in objects, NEW a \in Int, NEW n \in Nat,
         NEW words, Len(words) = n, DOMAIN words = 1 .. n,
         o.addr <= a, a + 4 * n <= o.addr + o.size
  PROVE  Kept(Write(mem, a, words))
<1>. SUFFICES ASSUME NEW x \in LinkWords PROVE Read(Write(mem, a, words), x) = Read(mem, x)
  BY DEF Kept
<1>1. x \in Int /\ Disjoint(x, 4, o.addr, o.size)
  BY ObjectAside
<1>2. o.addr \in Int /\ o.size \in Nat
  BY DEF Objects
<1>3. Disjoint(x, 4, a, 4 * n)
  BY <1>1, <1>2 DEF Disjoint
<1>. QED
  BY <1>1, <1>3, ReadAside
--------------------------------------------------------------------------------
(* A step of an activation that stays in it and leaves the links alone      *)
(* keeps the invariant, as far as it keeps objects apart.                   *)
LEMMA StepKeeps ==
  ASSUME IInv, at \in {"inst", "result"}, at' = "inst",
         UNCHANGED <<prog, fn, ebp, callers, base>>,
         esp' \in Int, esp' <= esp, Objects',
         pc' \in DOMAIN Func.insts, arg' \in 1 .. (Len(Func.insts[pc'].args) + 1),
         arg' # 1 => Func.insts[pc'].kind = "call",
         eax' \in Word, edx' \in Word, MemOK(mem'), Kept(mem')
  PROVE  IInv'
<1>2. Func' = Func /\ Current' = Func.insts[pc']
  BY DEF Func, Current
<1>3. TypeOK'
  BY <1>2 DEF IInv, TypeOK, MemOK, Word
<1>4. Frames'
  <2>1. base \in Int /\ esp \in Int /\ ebp = base /\ esp + FrameSize(Func) <= base
    BY DEF IInv, TypeOK, Frames
  <2>2. FrameSize(Func) \in Nat
    BY FunctionOK DEF IInv, TypeOK, Func
  <2>3. esp' + FrameSize(Func) <= base
    BY <2>1, <2>2
  <2>. QED
    BY <1>2, <2>1, <2>3 DEF IInv, Frames, At, FrameSize
<1>5. Linked'
  <2>1. Links(Depth)' = Links(Depth) /\ \A k \in DOMAIN callers : Links(k)' = Links(k)
    BY DEF Links, Depth
  <2>2. \A k \in DOMAIN callers :
          callers[k].base \in LinkWords /\ callers[k].base + 4 \in LinkWords
    BY DEF LinkWords
  <2>3. base \in LinkWords /\ base + 4 \in LinkWords
    BY DEF LinkWords
  <2>4. \A k \in DOMAIN callers :
          callers'[k].base + 8 = Links(k)'.esp /\ LinkedAt(callers[k].base, Links(k))'
    BY <2>1, <2>2 DEF IInv, Linked, LinkedAt, Kept
  <2>5. base' + 8 = Links(Depth)'.esp /\ LinkedAt(base, Links(Depth))'
    BY <2>1, <2>3 DEF IInv, Linked, LinkedAt, Kept
  <2>. QED
    BY <2>4, <2>5 DEF Linked
<1>. QED
  BY <1>3, <1>4, <1>5 DEF IInv

LEMMA LocalKeeps ==
  ASSUME IInv, at \in {"inst", "result"}, at' = "inst",
         UNCHANGED <<prog, fn, esp, ebp, history>>,
         pc' \in DOMAIN Func.insts, arg' \in 1 .. (Len(Func.insts[pc'].args) + 1),
         arg' # 1 => Func.insts[pc'].kind = "call",
         eax' \in Word, edx' \in Word, MemOK(mem'), Kept(mem')
  PROVE  IInv'
<1>1. UNCHANGED <<callers, base, objects, prog, fn, esp, ebp>>
  BY DEF history
<1>2. Func' = Func
  BY <1>1 DEF Func
<1>3. Objects'
  BY <1>1, <1>2 DEF IInv, Objects, InCaller, Within
<1>4. esp' \in Int /\ esp' <= esp
  BY <1>1 DEF IInv, TypeOK
<1>. QED
  BY <1>1, <1>3, <1>4, StepKeeps

LEMMA NextInstOK ==
  ASSUME TypeOK, Frames, at \in {"inst", "result"}, Current.kind \notin {"br", "ret"},
         NextInst, at = "result" \/ Current.kind # "call"
  PROVE  /\ pc' \in DOMAIN Func.insts /\ arg' = 1
         /\ arg' \in 1 .. (Len(Func.insts[pc'].args) + 1)
<1>1. pc' = pc + 1 /\ arg' = 1
  BY DEF NextInst, Frames, At
<1>2. pc + 1 \in DOMAIN Func.insts
  BY InstOK DEF WellFormedInst, Current
<1>3. Func.insts[pc + 1].args \in Seq(Types)
  BY <1>2, InstOK
<1>. QED
  BY <1>1, <1>2, <1>3

LEMMA SpillOK ==
  ASSUME TypeOK, Frames, at \in {"inst", "result"}, NEW lo \in Word, NEW hi \in Word,
         NEW m, MemOK(m), Kept(m)
  PROVE  LET w == Write(m, Slot(Inst(pc)), WordsOf(Current.type, lo, hi))
         IN MemOK(w) /\ Kept(w)
<1>. DEFINE a == Slot(Inst(pc))
            words == WordsOf(Current.type, lo, hi)
<1>1. PICK n \in 1 .. 2 :
        /\ Len(words) = n /\ DOMAIN words = 1 .. n /\ 4 * n = ArgStackSize(Current.type)
        /\ \A k \in 1 .. n : words[k] \in Word
  BY WordsOfOK
<1>2. Inst(pc) \in SlottedValues(Func) /\ Inst(pc)[1] # "param"
      /\ ValueType(Func, Inst(pc)) = Current.type
  BY InstOK DEF Inst
<1>3. a \in Int /\ a + 4 * n <= ebp /\ ebp = base
  BY <1>1, <1>2, SlotOK DEF Frames
<1>. HIDE DEF a, words
<1>4. MemOK(Write(m, a, words))
  BY <1>1, <1>3, WriteOK
<1>5. Kept(Write(m, a, words))
  BY <1>1, <1>3, BelowKeeps
<1>. QED
  BY <1>4, <1>5 DEF a, words

LEMMA StateOK == ASSUME TypeOK PROVE MemOK(mem) /\ Kept(mem) /\ eax \in Word /\ edx \in Word
BY DEF TypeOK, MemOK, Kept, Word

LEMMA DataOK == Data \subseteq Word
BY WordsAssumption DEF Word

LEMMA OperateKeeps == IInv /\ Operate => IInv'
<1>. SUFFICES ASSUME IInv, Operate PROVE IInv'
  OBVIOUS
<1>1. TypeOK /\ Frames /\ at = "inst" /\ Current.kind = "op" /\ NextInst
  BY DEF IInv, Operate, At
<1>2. eax' \in Word /\ edx' \in Word
  BY DataOK DEF Operate
<1>3. MemOK(mem') /\ Kept(mem')
  BY <1>1, <1>2, StateOK, SpillOK DEF Operate, Spill
<1>. QED
  BY <1>1, <1>2, <1>3, NextInstOK, LocalKeeps DEF Operate

LEMMA SpillResultKeeps == IInv /\ SpillResult => IInv'
<1>. SUFFICES ASSUME IInv, SpillResult PROVE IInv'
  OBVIOUS
<1>1. TypeOK /\ Frames /\ at = "result" /\ Current.kind = "call" /\ NextInst
  BY DEF IInv, SpillResult, Frames
<1>2. MemOK(mem') /\ Kept(mem')
  BY <1>1, StateOK, SpillOK DEF SpillResult, Spill
<1>. QED
  BY <1>1, <1>2, StateOK, NextInstOK, LocalKeeps DEF SpillResult

(* The area for outgoing arguments is below all links.                      *)
LEMMA AreaOK ==
  ASSUME TypeOK, Frames, at = "inst"
  PROVE  /\ esp \in Int /\ base \in Int /\ ebp = base
         /\ esp + 12 <= base /\ esp + Func.frame_callees_args_size <= base
         /\ Func.frame_callees_args_size \in Nat
<1>1. /\ VarsSize(Func.insts, Len(Func.insts)) \in Nat /\ Func.frame_callees_args_size \in Nat
      /\ Func.frame_callees_args_size >= 12
      /\ FrameSize(Func) =
           VarsSize(Func.insts, Len(Func.insts)) + Func.frame_callees_args_size
  BY FunctionOK DEF TypeOK, Func
<1>2. /\ esp \in Int /\ base \in Int /\ ebp = base /\ esp + FrameSize(Func) <= base
  BY DEF TypeOK, Frames
<1>. QED
  BY <1>1, <1>2

LEMMA CallHelperKeeps == IInv /\ CallHelper => IInv'
<1>. SUFFICES ASSUME IInv, CallHelper PROVE IInv'
  OBVIOUS
<1>. DEFINE o(n) == Current.ops[n]
            words == <<Slot(Inst(pc)), Address(o(1)), Address(o(2))>>
            m == Write(mem, esp, words)
<1>1. TypeOK /\ Frames /\ at = "inst" /\ Current.kind = "i64op" /\ NextInst
  BY DEF IInv, CallHelper, At
<1>2. eax' \in Word /\ edx' \in Word
  BY DataOK DEF CallHelper
<1>3. IsOperand(Func, o(1), "i64") /\ IsOperand(Func, o(2), "i64") /\ Current.type = "i64"
  BY <1>1, InstOK DEF WellFormedInst
<1>4. Slot(Inst(pc)) \in Int /\ Address(o(1)) \in Word /\ Address(o(2)) \in Word
  BY <1>1, <1>3, InstOK, SlotOK, OperandOK
<1>5. PICK n \in {3} : Len(words) = n /\ DOMAIN words = 1 .. n /\ words[1] = Slot(Inst(pc))
  OBVIOUS
<1>6. \A k \in 1 .. n : words[k] \in Word
  BY <1>4 DEF Word
<1>7. mem' = Write(m, Read(m, esp), WordsOf("i64", eax', edx'))
  BY DEF CallHelper
<1>. HIDE DEF words
<1>8. MemOK(m)
  BY <1>1, <1>5, <1>6, StateOK, AreaOK, WriteOK
<1>9. Kept(m)
  <2>1. n \in Nat /\ esp + 4 * n <= base
    BY <1>1, AreaOK
  <2>. QED
    BY <1>1, <1>5, <2>1, StateOK, AreaOK, BelowKeeps
<1>10. Read(m, esp) = Slot(Inst(pc))
  <2>1. n \in Nat /\ n # 0
    OBVIOUS
  <2>. QED
    BY <1>1, <1>5, <2>1, AreaOK, ReadBack
<1>. HIDE DEF m
<1>11. MemOK(mem') /\ Kept(mem')
  BY <1>1, <1>2, <1>3, <1>7, <1>8, <1>9, <1>10, SpillOK
<1>. QED
  BY <1>1, <1>2, <1>11, NextInstOK, LocalKeeps DEF CallHelper

LEMMA BranchKeeps == IInv /\ Branch => IInv'
<1>. SUFFICES ASSUME IInv, Branch PROVE IInv'
  OBVIOUS
<1>1. TypeOK /\ Frames /\ at = "inst" /\ Current.kind = "br"
  BY DEF IInv, Branch, At
<1>2. pc' \in DOMAIN Func.insts
  BY <1>1, InstOK DEF WellFormedInst, Branch
<1>3. Func.insts[pc'].args \in Seq(Types)
  BY <1>1, <1>2, InstOK
<1>4. arg' = 1 /\ arg' \in 1 .. (Len(Func.insts[pc'].args) + 1)
  BY <1>3 DEF Branch
<1>. QED
  BY <1>1, <1>2, <1>4, StateOK, LocalKeeps DEF Branch

LEMMA StoreArgumentKeeps == IInv /\ StoreArgument => IInv'
<1>. SUFFICES ASSUME IInv, StoreArgument PROVE IInv'
  OBVIOUS
<1>. DEFINE ty == Current.args[arg]
            o == Current.ops[arg]
            words == WordsOf(ty, Part(o, 1), Part(o, 2))
            a == OutgoingArg
<1>1. TypeOK /\ Frames /\ at = "inst" /\ Current.kind = "call" /\ arg \in DOMAIN Current.args
  BY DEF IInv, StoreArgument, At
<1>2. /\ IsOperand(Func, o, ty) /\ Current.args \in Seq(Types)
      /\ ArgsSize(Current.args) <= Func.frame_callees_args_size
  BY <1>1, InstOK DEF WellFormedInst
<1>3. Part(o, 1) \in Word /\ Part(o, 2) \in Word /\ Address(o) \in Word
  BY <1>1, <1>2, OperandOK
<1>4. PICK n \in 1 .. 2 :
        /\ Len(words) = n /\ DOMAIN words = 1 .. n /\ 4 * n = ArgStackSize(ty)
        /\ \A k \in 1 .. n : words[k] \in Word
  BY <1>3, WordsOfOK
<1>5. /\ ArgOffset(Current.args, arg) \in Nat /\ ArgsSize(Current.args) \in Nat
      /\ ArgOffset(Current.args, arg) + 4 * n <= ArgsSize(Current.args)
  <2>1. arg \in 1 .. (Len(Current.args) + 1) /\ Len(Current.args) + 1 \in 1 .. (Len(Current.args) + 1)
        /\ arg < Len(Current.args) + 1
    BY <1>1, <1>2
  <2>2. ArgOffset(Current.args, arg) + ArgStackSize(ty) <= ArgOffset(Current.args, Len(Current.args) + 1)
    BY <1>1, <1>2, <2>1, ArgOffsetMonotone
  <2>. QED
    BY <1>2, <1>4, <2>1, <2>2, ArgOffsetStep DEF ArgsSize
<1>6. a \in Int /\ a + 4 * n <= base
  BY SMTT(30), <1>1, <1>2, <1>5, AreaOK DEF OutgoingArg
<1>7. mem' = Write(mem, a, words)
  BY DEF StoreArgument
<1>8. /\ pc' = pc /\ arg' = arg + 1 /\ arg' \in 1 .. (Len(Current.args) + 1)
      /\ eax' \in Word /\ edx' \in Word
  <2>1. eax' \in {Address(o), words[1]} /\ edx' \in {edx, words[2]}
        /\ (ty = "i64" \/ edx' = edx) /\ pc' = pc /\ arg' = arg + 1
    BY DEF StoreArgument
  <2>2. words[1] \in Word /\ (ty = "i64" => words[2] \in Word)
    BY <1>4 DEF ArgStackSize
  <2>3. arg \in Nat /\ Len(Current.args) \in Nat /\ arg <= Len(Current.args)
    BY <1>1, <1>2
  <2>4. edx \in Word
    BY <1>1, StateOK
  <2>5. eax' \in Word
    BY <1>3, <2>1, <2>2
  <2>6. edx' \in Word
    BY <1>3, <2>1, <2>2, <2>4
  <2>. QED
    BY <2>1, <2>3, <2>5, <2>6
<1>. HIDE DEF words, a
<1>9. MemOK(mem') /\ Kept(mem')
  BY <1>1, <1>4, <1>6, <1>7, StateOK, WriteOK, BelowKeeps
<1>10. pc \in DOMAIN Func.insts /\ Current = Func.insts[pc]
  BY <1>1 DEF TypeOK, Current
<1>. QED
  BY <1>1, <1>8, <1>9, <1>10, LocalKeeps DEF StoreArgument

LEMMA StoreKeeps == IInv /\ StoresInObjects /\ Store => IInv'
<1>. SUFFICES ASSUME IInv, StoresInObjects, Store PROVE IInv'
  OBVIOUS
<1>. DEFINE ty == Current.args[2]
            o == Current.ops[2]
            pointer == Part(Current.ops[1], 1)
            words == WordsOf(ty, Part(o, 1), Part(o, 2))
<1>1. /\ TypeOK /\ Frames /\ Objects /\ at = "inst" /\ At("store")
      /\ Current.kind = "store" /\ NextInst
  BY DEF IInv, Store, At
<1>2. IsOperand(Func, o, ty)
  BY <1>1, InstOK DEF WellFormedInst
<1>3. Part(o, 1) \in Word /\ Part(o, 2) \in Word /\ Address(o) \in Word
  BY <1>1, <1>2, OperandOK
<1>4. PICK n \in 1 .. 2 :
        /\ Len(words) = n /\ DOMAIN words = 1 .. n /\ 4 * n = ArgStackSize(ty)
        /\ \A k \in 1 .. n : words[k] \in Word
  BY <1>3, WordsOfOK
<1>5. PICK x \in objects :
        pointer \in Int /\ x.addr <= pointer /\ pointer + 4 * n <= x.addr + x.size
  BY <1>1, <1>4 DEF StoresInObjects
<1>6. /\ edx' = pointer /\ mem' = Write(mem, pointer, words)
      /\ eax' \in {Address(o), words[1]}
  BY DEF Store
<1>7. eax' \in Word /\ edx' \in Word
  BY <1>3, <1>4, <1>5, <1>6 DEF Word
<1>. HIDE DEF words, pointer
<1>8. MemOK(mem') /\ Kept(mem')
  BY <1>1, <1>4, <1>5, <1>6, StateOK, WriteOK, InObjectKeeps
<1>. QED
  BY <1>1, <1>7, <1>8, NextInstOK, LocalKeeps DEF Store

(* A new object is what was the area for outgoing arguments, or below it.   *)
LEMMA AllocaKeeps == IInv /\ Alloca => IInv'
<1>. SUFFICES ASSUME IInv, Alloca PROVE IInv'
  OBVIOUS
<1>. DEFINE size == Current.size
            area == Func.frame_callees_args_size
            vars_size == VarsSize(Func.insts, Len(Func.insts))
            new == [base |-> base, addr |-> eax', size |-> size]
<1>1. TypeOK /\ Frames /\ Objects /\ at = "inst" /\ Current.kind = "alloca" /\ NextInst
  BY DEF IInv, Alloca, At
<1>2. /\ esp' = esp - size /\ eax' = esp' + area /\ objects' = objects \cup {new}
      /\ UNCHANGED <<prog, at, fn, edx, ebp, callers, base>>
  BY DEF Alloca, AllocaAddress
<1>3. size \in Nat /\ Current.type = "i32"
  BY <1>1, InstOK DEF WellFormedInst
<1>4. area \in Nat /\ vars_size \in Nat /\ FrameSize(Func) = vars_size + area
  BY <1>1, FunctionOK DEF TypeOK, Func
<1>5. esp \in Int /\ base \in Int /\ esp + FrameSize(Func) <= base
  BY <1>1 DEF TypeOK, Frames
<1>6. esp' \in Int /\ esp' <= esp /\ eax' \in Int
  BY SMTT(30), <1>2, <1>3, <1>4, <1>5
<1>7. MemOK(mem') /\ Kept(mem') /\ eax' \in Word /\ edx' \in Word
  <2>1. eax' \in Word /\ edx \in Word
    BY <1>1, <1>6, StateOK DEF Word
  <2>. QED
    BY <1>1, <1>2, <1>3, <2>1, StateOK, SpillOK DEF Alloca, Spill
<1>8. Func' = Func /\ at' = "inst"
  BY <1>1, <1>2 DEF Func
<1>. HIDE DEF size, area, vars_size
<1>9. /\ new.base = base /\ new.addr = esp' + area /\ new.size = size
      /\ new.addr + new.size = esp + area /\ new.addr + new.size <= base - vars_size
  BY <1>2, <1>3, <1>4, <1>5
<1>10. ASSUME NEW o \in objects
       PROVE  /\ o.addr \in Int /\ o.size \in Nat /\ o.base \in Int
              /\ new.addr + new.size <= o.addr
              /\ InCaller(o) \/ Within(o, Func, esp', base)
  <2>1. o.addr \in Int /\ o.size \in Nat /\ o.base \in Int
    BY <1>1 DEF Objects
  <2>2. CASE Within(o, Func, esp, base)
    <3>1. o.base = base /\ esp + area <= o.addr /\ o.addr + o.size <= base - vars_size
      BY <2>2 DEF Within, area, vars_size
    <3>2. esp' + area <= o.addr
      BY <1>2, <1>3, <1>4, <1>5, <2>1, <3>1
    <3>. QED
      BY <1>9, <2>1, <3>1, <3>2 DEF Within, area, vars_size
  <2>3. CASE InCaller(o)
    <3>1. PICK k \in DOMAIN callers :
                 Within(o, prog[callers[k].fn], callers[k].esp, callers[k].base)
      BY <2>3 DEF InCaller
    <3>2. /\ callers[k].fn \in DOMAIN prog /\ callers[k].esp \in Int
          /\ base + 8 <= callers[k].esp
      BY <1>1, CallerOK
    <3>3. prog[callers[k].fn].frame_callees_args_size \in Nat
      BY <1>1, <3>2, FunctionOK DEF TypeOK
    <3>4. callers[k].esp + prog[callers[k].fn].frame_callees_args_size <= o.addr
      BY <3>1 DEF Within
    <3>. HIDE DEF new
    <3>. QED
      BY <1>4, <1>5, <1>9, <2>1, <2>3, <3>2, <3>3, <3>4
  <2>. QED
    BY <1>1, <2>1, <2>2, <2>3 DEF Objects
<1>11. Objects'
  <2>1. \A o \in objects : InCaller(o) => InCaller(o)'
    BY <1>2 DEF InCaller, Within
  <2>2. /\ Within(new, Func', esp', base') /\ new.base \in Int /\ new.addr \in Int
        /\ new.size \in Nat
    <3>1. /\ esp' + Func'.frame_callees_args_size <= new.addr
          /\ new.addr + new.size <= base' - VarsSize(Func'.insts, Len(Func'.insts))
      BY <1>2, <1>4, <1>6, <1>8, <1>9 DEF area, vars_size
    <3>. QED
      BY <1>2, <1>3, <1>5, <1>6, <1>9, <3>1 DEF Within
  <2>3. \A o \in objects : Disjoint(o.addr, o.size, new.addr, new.size)
                             /\ Disjoint(new.addr, new.size, o.addr, o.size)
    BY <1>10 DEF Disjoint
  <2>4. \A o, p \in objects : o # p => Disjoint(o.addr, o.size, p.addr, p.size)
    BY <1>1 DEF Objects
  <2>. HIDE DEF new
  <2>5. \A o \in objects' :
          /\ o.base \in Int /\ o.addr \in Int /\ o.size \in Nat
          /\ o # new => InCaller(o)' \/ Within(o, Func', esp', base')
    BY <1>2, <1>8, <1>10, <2>1, <2>2
  <2>6. \A o, p \in objects' : o # p => Disjoint(o.addr, o.size, p.addr, p.size)
    BY <1>2, <2>3, <2>4
  <2>. QED
    BY <1>8, <2>2, <2>5, <2>6 DEF Objects
<1>. QED
  BY <1>1, <1>2, <1>6, <1>7, <1>11, NextInstOK, StepKeeps

(* The prolog's word completes the links of its frame.                      *)
LEMMA PrologKeeps == IInv /\ Prolog => IInv'
<1>. SUFFICES ASSUME IInv, Prolog PROVE IInv'
  OBVIOUS
<1>1. /\ TypeOK /\ Frames /\ Linked /\ Objects /\ at = "entry" /\ at' = "inst" /\ arg = 1
      /\ UNCHANGED <<prog, fn, pc, arg, eax, edx, callers, base, objects>>
  BY DEF IInv, Prolog, Frames, At, history
<1>2. /\ base \in Int /\ esp = base + 4 /\ ebp \in Int /\ esp - 4 = base
      /\ ebp = Links(Depth).base /\ Read(mem, base + 4) = Links(Depth).return
  BY <1>1 DEF Frames, Linked, TypeOK
<1>3. FrameSize(Func) \in Nat
  BY <1>1, FunctionOK DEF TypeOK, Func
<1>4. ebp' = base /\ esp' \in Int /\ esp' + FrameSize(Func) <= base
  BY <1>2, <1>3 DEF Prolog
<1>5. Func' = Func /\ Current' = Current
  BY <1>1 DEF Func, Current
<1>6. mem' = Write(mem, base, <<ebp>>)
  BY <1>2 DEF Prolog, PushFrame
<1>8. MemOK(mem')
  BY <1>1, <1>2, <1>6, StateOK, OneWord DEF Word
<1>9. Read(mem', base) = ebp
  BY <1>2, <1>6, OneWord
<1>10. ASSUME NEW x \in Int, x >= base + 4 PROVE Read(mem', x) = Read(mem, x)
  <2>1. Disjoint(x, 4, base, 4)
    BY <1>2, <1>10 DEF Disjoint
  <2>. QED
    BY <1>2, <1>6, <2>1, OneWord
<1>11. TypeOK'
  BY <1>1, <1>4, <1>5, <1>8, <1>2 DEF TypeOK, MemOK, Word
<1>12. Frames'
  BY <1>1, <1>4, <1>5 DEF Frames, FrameSize, At
<1>13. Linked'
  <2>1. Links(Depth)' = Links(Depth) /\ \A k \in DOMAIN callers : Links(k)' = Links(k)
    BY <1>1 DEF Links, Depth
  <2>2. \A k \in DOMAIN callers :
          callers'[k].base + 8 = Links(k)'.esp /\ LinkedAt(callers[k].base, Links(k))'
    <3>. SUFFICES ASSUME NEW k \in DOMAIN callers
                  PROVE  /\ callers'[k].base + 8 = Links(k)'.esp
                         /\ LinkedAt(callers[k].base, Links(k))'
      OBVIOUS
    <3>1. callers[k].base \in Int /\ callers[k].base >= base + 4
      BY <1>1, <1>2, CallerOK
    <3>2. /\ Read(mem', callers[k].base) = Read(mem, callers[k].base)
          /\ Read(mem', callers[k].base + 4) = Read(mem, callers[k].base + 4)
      BY <1>2, <1>10, <3>1
    <3>. QED
      BY <1>1, <2>1, <3>2 DEF Linked, LinkedAt
  <2>3. base' + 8 = Links(Depth)'.esp
    BY <1>1, <2>1 DEF Linked
  <2>4. Read(mem', base + 4) = Links(Depth).return
    BY <1>2, <1>10
  <2>. QED
    BY <1>1, <1>2, <1>9, <2>1, <2>2, <2>3, <2>4 DEF Linked, LinkedAt
<1>14. Objects'
  BY <1>1, <1>5 DEF Objects, InCaller, Within
<1>. QED
  BY <1>11, <1>12, <1>13, <1>14 DEF IInv

(* The caller's frame and its links stay, and below them is a new link.     *)
LEMMA CallKeeps == IInv /\ Call => IInv'
<1>. SUFFICES ASSUME IInv, Call PROVE IInv'
  OBVIOUS
<1>. DEFINE c == [fn |-> fn, pc |-> pc, base |-> base, esp |-> esp]
            N == Len(callers)
            word == CodeAddress[<<fn, pc>>]
<1>1. /\ TypeOK /\ Frames /\ Linked /\ Objects /\ at = "inst" /\ Current.kind = "call"
      /\ fn \in DOMAIN prog /\ pc \in DOMAIN Func.insts
  BY DEF IInv, Call, At, TypeOK
<1>2. /\ at' = "entry" /\ pc' = 1 /\ arg' = 1 /\ fn' \in DOMAIN prog
      /\ esp' = esp - 4 /\ base' = esp - 8 /\ callers' = Append(callers, c)
      /\ eax' = Part(Current.callee, 1) /\ mem' = Write(mem, esp - 4, <<word>>)
      /\ UNCHANGED <<prog, edx, ebp, objects>>
  BY DEF Call
<1>3. /\ esp \in Int /\ base \in Int /\ ebp = base /\ esp + FrameSize(Func) <= base
      /\ esp + 12 <= base
  BY <1>1, AreaOK DEF Frames
<1>4. word \in Int
  <2>1. pc \in 0 .. Len(prog[fn].insts) /\ prog \in Programs
    BY <1>1, FunctionOK DEF Func, TypeOK
  <2>. QED
    BY <1>1, <2>1, CodeAddressAssumption
<1>5. eax' \in Word
  <2>1. IsOperand(Func, Current.callee, "i32")
    BY <1>1, InstOK DEF WellFormedInst
  <2>. QED
    BY <1>1, <1>2, <2>1, OperandOK
<1>6. PICK n \in {1} : Len(<<word>>) = n /\ DOMAIN <<word>> = 1 .. n /\ <<word>>[1] = word
  OBVIOUS
<1>7. esp - 4 \in Int /\ (esp - 4) + 4 * n <= base
  BY <1>3
<1>8. MemOK(mem')
  <2>1. \A k \in 1 .. n : <<word>>[k] \in Word
    BY <1>4 DEF Word
  <2>. HIDE DEF word
  <2>. QED
    BY <1>1, <1>2, <1>6, <1>7, <2>1, StateOK, WriteOK
<1>9. Kept(mem') /\ Read(mem', esp - 4) = word
  <2>. HIDE DEF word
  <2>1. Kept(mem')
    BY <1>1, <1>2, <1>6, <1>7, StateOK, BelowKeeps
  <2>. QED
    BY <1>2, <1>7, <2>1, OneWord
<1>. HIDE DEF word
<1>10. /\ callers \in Seq([fn : DOMAIN prog, pc : Int, base : Int, esp : Int])
       /\ N \in Nat /\ DOMAIN callers = 1 .. N /\ DOMAIN callers' = 1 .. (N + 1)
       /\ \A k \in 1 .. N : callers'[k] = callers[k]
       /\ callers'[N + 1] = c /\ Len(callers') = N + 1
  <2>1. callers \in Seq([fn : DOMAIN prog, pc : Int, base : Int, esp : Int])
    BY <1>1 DEF Frames
  <2>. QED
    BY <1>2, <2>1
<1>11. c.fn = fn /\ c.pc = pc /\ c.base = base /\ c.esp = esp
  OBVIOUS
<1>12. TypeOK'
  <2>1. 1 \in DOMAIN prog[fn'].insts /\ WellFormed(prog[fn'])
    BY <1>1, <1>2, FunctionOK DEF TypeOK
  <2>2. Func' = prog[fn'] /\ Current' = prog[fn'].insts[1]
    BY <1>2 DEF Func, Current
  <2>3. arg' \in 1 .. (Len(Current'.args) + 1)
    <3>1. Current'.args \in Seq(Types)
      BY <1>1, <1>2, <2>1, <2>2, FunctionOK DEF TypeOK
    <3>. QED
      BY <1>2, <3>1
  <2>4. \A d \in Range(callers') : prog'[d.fn].insts[d.pc].kind = "call"
    <3>. SUFFICES ASSUME NEW k \in 1 .. (N + 1)
                  PROVE  prog[callers'[k].fn].insts[callers'[k].pc].kind = "call"
      BY SMTT(30), <1>2, <1>10 DEF Range
    <3>1. CASE k = N + 1
      BY <1>1, <1>10, <1>11, <3>1 DEF Current, Func
    <3>2. CASE k # N + 1
      <4>1. k \in DOMAIN callers /\ callers'[k] = callers[k]
        BY <1>10, <3>2
      <4>. QED
        BY <1>1, <4>1 DEF TypeOK, Range
    <3>. QED
      BY <3>1, <3>2
  <2>. QED
    BY <1>1, <1>2, <1>3, <1>5, <1>8, <2>1, <2>2, <2>3, <2>4 DEF TypeOK, MemOK, Word
<1>13. Frames'
  <2>1. callers' \in Seq([fn : DOMAIN prog, pc : Int, base : Int, esp : Int])
    <3>1. c \in [fn : DOMAIN prog, pc : Int, base : Int, esp : Int]
      BY <1>1, <1>3, FunctionOK DEF TypeOK, Func
    <3>. QED
      BY <1>2, <1>10, <3>1
  <2>2. ASSUME NEW k \in 1 .. (N + 1)
        PROVE  /\ callers'[k].pc \in DOMAIN prog[callers'[k].fn].insts
               /\ callers'[k].esp + FrameSize(prog[callers'[k].fn]) <= callers'[k].base
               /\ \A j \in 1 .. (k - 1) : callers'[k].base + 8 <= callers'[j].esp
               /\ base' + 8 <= callers'[k].esp
    <3>1. CASE k = N + 1
      <4>1. \A j \in 1 .. N : base + 8 <= callers[j].esp
        BY <1>1, <1>10 DEF Frames
      <4>2. base' + 8 <= esp
        BY <1>2, <1>3
      <4>. QED
        BY SMTT(30), <1>1, <1>3, <1>10, <1>11, <3>1, <4>1, <4>2 DEF Func
    <3>2. CASE k # N + 1
      <4>1. k \in DOMAIN callers /\ callers'[k] = callers[k]
        BY <1>10, <3>2
      <4>2. \A j \in 1 .. (k - 1) : callers'[j] = callers[j]
        BY <1>10
      <4>3. /\ callers[k].pc \in DOMAIN prog[callers[k].fn].insts
            /\ callers[k].esp + FrameSize(prog[callers[k].fn]) <= callers[k].base
            /\ \A j \in 1 .. (k - 1) : callers[k].base + 8 <= callers[j].esp
        BY <1>1, <4>1 DEF Frames
      <4>4. base + 8 <= callers[k].esp /\ callers[k].esp \in Int
        BY <1>1, <4>1, CallerOK
      <4>5. base' + 8 <= callers[k].esp
        BY <1>2, <1>3, <4>4
      <4>. QED
        BY <4>1, <4>2, <4>3, <4>5
    <3>. QED
      BY <3>1, <3>2
  <2>3. base' \in Int
    BY <1>2, <1>3
  <2>. HIDE DEF c, N
  <2>. QED
    BY <1>2, <1>10, <2>1, <2>2, <2>3 DEF Frames
<1>14. Linked'
  <2>1. \A k \in 1 .. (N + 1) : Links(k)' = Links(k)
    <3>. SUFFICES ASSUME NEW k \in 1 .. (N + 1) PROVE Links(k)' = Links(k)
      OBVIOUS
    <3>1. CASE k = 1
      BY <3>1 DEF Links
    <3>2. CASE k # 1
      <4>1. k - 1 \in 1 .. N
        BY <1>10, <3>2
      <4>. QED
        BY <1>10, <3>2, <4>1 DEF Links
    <3>. QED
      BY <3>1, <3>2
  <2>2. \A k \in 1 .. (N + 1) :
          callers'[k].base + 8 = Links(k).esp /\ Read(mem', callers'[k].base + 4) = Links(k).return
            /\ Read(mem', callers'[k].base) = Links(k).base
    <3>. SUFFICES ASSUME NEW k \in 1 .. (N + 1)
                  PROVE  /\ callers'[k].base + 8 = Links(k).esp
                         /\ Read(mem', callers'[k].base + 4) = Links(k).return
                         /\ Read(mem', callers'[k].base) = Links(k).base
      OBVIOUS
    <3>1. CASE k = N + 1
      <4>1. base \in LinkWords /\ base + 4 \in LinkWords
        BY DEF LinkWords
      <4>2. /\ base + 8 = Links(N + 1).esp /\ LinkedAt(base, Links(N + 1))
        BY <1>1 DEF Linked, Depth
      <4>. QED
        BY <1>9, <1>10, <1>11, <3>1, <4>1, <4>2 DEF Kept, LinkedAt
    <3>2. CASE k # N + 1
      <4>1. k \in DOMAIN callers /\ callers'[k] = callers[k]
        BY <1>10, <3>2
      <4>2. callers[k].base \in LinkWords /\ callers[k].base + 4 \in LinkWords
        BY <4>1 DEF LinkWords
      <4>3. callers[k].base + 8 = Links(k).esp /\ LinkedAt(callers[k].base, Links(k))
        BY <1>1, <4>1 DEF Linked
      <4>. QED
        BY <1>9, <4>1, <4>2, <4>3 DEF Kept, LinkedAt
    <3>. QED
      BY <3>1, <3>2
  <2>3. Links(Depth)' = [esp |-> esp, base |-> base, return |-> word]
    <3>1. Depth' = N + 2 /\ N + 2 # 1 /\ (N + 2) - 1 = N + 1
      BY <1>10 DEF Depth
    <3>. QED
      BY <1>10, <1>11, <3>1 DEF Links, word
  <2>4. /\ base' + 8 = esp /\ esp' = base' + 4 /\ base' + 4 = esp - 4 /\ ebp' = base
    BY <1>2, <1>3
  <2>5. \A k \in DOMAIN callers' :
          callers'[k].base + 8 = Links(k)'.esp /\ LinkedAt(callers[k].base, Links(k))'
    BY <1>10, <2>1, <2>2 DEF LinkedAt
  <2>6. /\ base' + 8 = Links(Depth)'.esp /\ ebp' = Links(Depth)'.base /\ esp' = base' + 4
        /\ Read(mem', base' + 4) = Links(Depth)'.return
    BY <1>9, <2>3, <2>4
  <2>. QED
    BY <1>2, <2>5, <2>6 DEF Linked, LinkedAt
<1>15. Objects'
  <2>1. \A o \in objects : InCaller(o)'
    <3>. SUFFICES ASSUME NEW o \in objects PROVE InCaller(o)'
      OBVIOUS
    <3>1. CASE InCaller(o)
      <4>1. PICK k \in DOMAIN callers :
                   Within(o, prog[callers[k].fn], callers[k].esp, callers[k].base)
        BY <3>1 DEF InCaller
      <4>2. k \in DOMAIN callers' /\ callers'[k] = callers[k]
        BY <1>10
      <4>. QED
        BY <1>2, <4>1, <4>2 DEF InCaller, Within
    <3>2. CASE Within(o, Func, esp, base)
      <4>1. N + 1 \in DOMAIN callers'
        BY <1>10
      <4>2. Within(o, prog'[callers'[N + 1].fn], callers'[N + 1].esp, callers'[N + 1].base)
        BY <1>2, <1>10, <1>11, <3>2 DEF Func
      <4>. QED
        BY <4>1, <4>2 DEF InCaller, Within
    <3>. QED
      BY <1>1, <3>1, <3>2 DEF Objects
  <2>. QED
    BY <1>1, <1>2, <2>1 DEF Objects
<1>. QED
  BY <1>12, <1>13, <1>14, <1>15 DEF IInv

(* What a return leaves of the memory, and where it finds the way back.     *)
LEMMA ReturnOK ==
  ASSUME IInv, Return
  PROVE  /\ at = "inst" /\ base \in Int /\ esp' = base + 8 /\ arg' = 1 /\ prog' = prog
         /\ eax' \in Word /\ edx' \in Word /\ MemOK(mem')
         /\ \A x \in Int : x >= base + 8 => Read(mem', x) = Read(mem, x)
         /\ ebp' = Links(Depth).base /\ Returned(Links(Depth).return)
         /\ base + 8 = Links(Depth).esp
<1>1. TypeOK /\ Frames /\ Linked /\ at = "inst" /\ Current.kind = "ret"
  BY DEF IInv, Return, At
<1>2. base \in Int /\ ebp = base
  BY <1>1, AreaOK
<1>3. LinkedAt(base, Links(Depth)) /\ base + 8 = Links(Depth).esp
  BY <1>1 DEF Linked
<1>4. esp' = base + 8 /\ ebp' = Links(Depth).base /\ Returned(Links(Depth).return)
  BY <1>2, <1>3 DEF Return, AboveReturnAddress, LinkedAt
<1>5. eax' \in Word /\ edx' \in Word
  <2>1. CASE Func.result = "void"
    BY <1>1, <2>1, StateOK DEF Return
  <2>2. CASE Func.result # "void"
    <3>1. IsOperand(Func, Current.ops[1], Func.result)
      BY <1>1, <2>2, InstOK DEF WellFormedInst
    <3>2. /\ eax' = Part(Current.ops[1], 1) /\ edx' \in {edx, Part(Current.ops[1], 2)}
      BY <2>2 DEF Return
    <3>. QED
      BY <1>1, <3>1, <3>2, OperandOK, StateOK
  <2>. QED
    BY <2>1, <2>2
<1>6. mem' = [x \in {y \in DOMAIN mem : y >= base + 8} |-> mem[x]]
  BY <1>4 DEF Return
<1>7. MemOK(mem')
  BY <1>1, <1>6, StateOK DEF MemOK, Range
<1>8. \A x \in Int : x >= base + 8 => Read(mem', x) = Read(mem, x)
  BY <1>6 DEF Read
<1>. QED
  BY <1>1, <1>2, <1>3, <1>4, <1>5, <1>7, <1>8 DEF Return

(* The host gets back what it had.                                          *)
LEMMA LastReturnKeeps ==
  ASSUME IInv, Return, callers = << >>
  PROVE  IInv' /\ callers' = callers
<1>1. /\ at = "inst" /\ base \in Int /\ esp' = base + 8 /\ arg' = 1 /\ prog' = prog
      /\ eax' \in Word /\ edx' \in Word /\ MemOK(mem')
      /\ ebp' = Links(Depth).base /\ Returned(Links(Depth).return)
  BY ReturnOK
<1>2. TypeOK /\ Objects
  BY DEF IInv
<1>3. Links(Depth) = [esp |-> StackTop + 4, base |-> HostFrame, return |-> HostReturn]
  BY DEF Depth, Links
<1>4. at' = "done" /\ UNCHANGED <<fn, pc, callers, base>> /\ ebp' \in Int
  BY <1>1, <1>3, WordsAssumption DEF Returned, Return
<1>5. Func' = Func /\ Current' = Current
  BY <1>1, <1>4 DEF Func, Current
<1>6. objects' = {}
  <2>1. \A o \in objects : ~ InCaller(o)
    BY DEF InCaller
  <2>2. \A o \in objects : o.base = base
    BY <1>2, <2>1 DEF Objects, Within
  <2>. QED
    BY <2>2 DEF Return
<1>7. 1 \in 1 .. (Len(Current.args) + 1)
  BY <1>2, InstOK
<1>8. TypeOK'
  BY <1>1, <1>2, <1>4, <1>5, <1>7 DEF TypeOK, MemOK, Word
<1>9. Frames'
  <2>1. callers' \in Seq([fn : DOMAIN prog, pc : Int, base : Int, esp : Int])
    BY <1>4
  <2>. QED
    BY <1>1, <1>4, <1>6, <2>1 DEF Frames
<1>10. Linked' /\ Objects'
  BY <1>4, <1>6 DEF Linked, Objects
<1>. QED
  BY <1>4, <1>8, <1>9, <1>10 DEF IInv

(* A caller gets back its frame, and with it all that its links lead to.    *)
LEMMA ReturnKeeps ==
  ASSUME IInv, Return, callers # << >>
  PROVE  /\ IInv'
         /\ LET c == Last(callers) IN fn' = c.fn /\ pc' = c.pc /\ esp' = c.esp /\ ebp' = c.base
<1>. DEFINE N == Len(callers)
            c == callers[N]
            R == [fn : DOMAIN prog, pc : Int, base : Int, esp : Int]
<1>1. /\ at = "inst" /\ base \in Int /\ esp' = base + 8 /\ arg' = 1 /\ prog' = prog
      /\ eax' \in Word /\ edx' \in Word /\ MemOK(mem')
      /\ \A x \in Int : x >= base + 8 => Read(mem', x) = Read(mem, x)
      /\ ebp' = Links(Depth).base /\ Returned(Links(Depth).return)
      /\ base + 8 = Links(Depth).esp
  BY ReturnOK
<1>2. TypeOK /\ Frames /\ Linked /\ Objects
  BY DEF IInv
<1>3. callers \in Seq(R)
  BY <1>2 DEF Frames
<1>4. /\ N \in Nat \ {0} /\ DOMAIN callers = 1 .. N /\ N \in DOMAIN callers
      /\ callers' = Front(callers) /\ Last(callers) = c /\ base' = c.base
      /\ Len(callers') = N - 1 /\ DOMAIN callers' = 1 .. (N - 1)
      /\ \A k \in 1 .. (N - 1) : callers'[k] = callers[k] /\ k \in DOMAIN callers
      /\ callers' \in Seq(R)
  <2>. HIDE DEF R
  <2>1. N \in Nat \ {0} /\ DOMAIN callers = 1 .. N
    BY <1>3
  <2>2. callers' = SubSeq(callers, 1, N - 1) /\ base' = c.base /\ Last(callers) = c
    BY DEF Return, Front, Last
  <2>. QED
    BY <1>3, <2>1, <2>2 DEF Front
<1>5. Links(Depth) = [esp |-> c.esp, base |-> c.base, return |-> CodeAddress[<<c.fn, c.pc>>]]
  BY <1>4 DEF Depth, Links
<1>6. /\ c.fn \in DOMAIN prog /\ c.pc \in DOMAIN prog[c.fn].insts
      /\ c.esp \in Int /\ c.base \in Int /\ c.esp + 12 <= c.base
      /\ c.esp + FrameSize(prog[c.fn]) <= c.base
      /\ prog[c.fn].insts[c.pc].kind = "call"
  BY <1>2, <1>4, CallerOK DEF Frames, TypeOK, Range
<1>7. esp' = c.esp /\ ebp' = c.base
  BY <1>1, <1>5
<1>8. at' = "result" /\ fn' = c.fn /\ pc' = c.pc
  <2>1. <<c.fn, c.pc>> \in DOMAIN CodeAddress
    <3>1. c.pc \in 0 .. Len(prog[c.fn].insts) /\ prog \in Programs
      BY SMTT(30), <1>2, <1>6, FunctionOK DEF TypeOK
    <3>. QED
      BY <1>6, <3>1, CodeAddressAssumption
  <2>2. CodeAddress[<<c.fn, c.pc>>] # HostReturn
    BY <2>1, CodeAddressAssumption
  <2>3. at' = "result" /\ \E d \in DOMAIN CodeAddress :
          CodeAddress[d] = CodeAddress[<<c.fn, c.pc>>] /\ fn' = d[1] /\ pc' = d[2]
    BY <1>1, <1>5, <2>2 DEF Returned
  <2>4. PICK d \in DOMAIN CodeAddress :
          CodeAddress[d] = CodeAddress[<<c.fn, c.pc>>] /\ fn' = d[1] /\ pc' = d[2]
    BY <2>3
  <2>5. d = <<c.fn, c.pc>>
    BY <2>1, <2>4, CodeAddressAssumption
  <2>. QED
    BY <2>3, <2>4, <2>5
<1>9. Func' = prog[c.fn] /\ Current' = prog[c.fn].insts[c.pc] /\ prog \in Programs
  BY <1>1, <1>2, <1>8 DEF Func, Current, TypeOK
<1>. HIDE DEF c, N
<1>10. TypeOK'
  <2>1. WellFormed(prog[c.fn])
    BY <1>6, <1>9, FunctionOK
  <2>2. Current'.args \in Seq(Types)
    BY <1>6, <1>9, FunctionOK
  <2>3. 1 \in 1 .. (Len(Current'.args) + 1)
    BY <2>2
  <2>4. ASSUME NEW d \in Range(callers') PROVE prog[d.fn].insts[d.pc].kind = "call"
    <3>1. d \in Range(callers)
      BY <1>4 DEF Range
    <3>. QED
      BY <1>2, <3>1 DEF TypeOK
  <2>. QED
    BY <1>1, <1>6, <1>7, <1>8, <1>9, <2>3, <2>4 DEF TypeOK, MemOK, Word
<1>11. ASSUME NEW k \in 1 .. (N - 1)
       PROVE  /\ k \in DOMAIN callers /\ callers'[k] = callers[k]
              /\ c.base + 8 <= callers[k].esp /\ callers[k].base \in Int
              /\ callers[k].base >= base + 8
  <2>1. k \in DOMAIN callers /\ callers'[k] = callers[k] /\ k < N
    BY <1>4
  <2>2. c.base + 8 <= callers[k].esp
    BY <1>2, <1>4, <2>1, CallerOK DEF c
  <2>3. callers[k].base \in Int /\ callers[k].esp + 12 <= callers[k].base
          /\ callers[k].esp \in Int /\ base + 8 <= callers[k].esp
    BY <1>2, <2>1, CallerOK
  <2>. QED
    BY <1>1, <2>1, <2>2, <2>3
<1>12. Frames'
  <2>1. ASSUME NEW k \in 1 .. (N - 1)
        PROVE  /\ callers'[k].pc \in DOMAIN prog[callers'[k].fn].insts
               /\ callers'[k].esp + FrameSize(prog[callers'[k].fn]) <= callers'[k].base
               /\ \A j \in 1 .. (k - 1) : callers'[k].base + 8 <= callers'[j].esp
               /\ base' + 8 <= callers'[k].esp
    <3>1. \A j \in 1 .. (k - 1) : callers'[j] = callers[j]
      BY <1>4
    <3>2. /\ callers[k].pc \in DOMAIN prog[callers[k].fn].insts
          /\ callers[k].esp + FrameSize(prog[callers[k].fn]) <= callers[k].base
          /\ \A j \in 1 .. (k - 1) : callers[k].base + 8 <= callers[j].esp
      BY <1>2, <1>11 DEF Frames
    <3>. QED
      BY <1>4, <1>11, <3>1, <3>2
  <2>2. ebp' = base' /\ esp' + FrameSize(Func') <= base' /\ base' \in Int
    BY <1>4, <1>6, <1>7, <1>9
  <2>. QED
    BY <1>1, <1>4, <1>6, <1>8, <1>9, <2>1, <2>2 DEF Frames
<1>13. Linked'
  <2>1. \A k \in 1 .. N : Links(k)' = Links(k)
    <3>. SUFFICES ASSUME NEW k \in 1 .. N PROVE Links(k)' = Links(k)
      OBVIOUS
    <3>1. k # 1 => k - 1 \in 1 .. (N - 1)
      BY <1>4
    <3>. QED
      BY <1>4, <3>1 DEF Links
  <2>2. \A k \in 1 .. N : \* The links of all callers are above what is dropped.
          /\ callers[k].base + 8 = Links(k).esp
          /\ Read(mem', callers[k].base + 4) = Links(k).return
          /\ Read(mem', callers[k].base) = Links(k).base
    <3>. SUFFICES ASSUME NEW k \in 1 .. N
                  PROVE  /\ callers[k].base + 8 = Links(k).esp
                         /\ Read(mem', callers[k].base + 4) = Links(k).return
                         /\ Read(mem', callers[k].base) = Links(k).base
      OBVIOUS
    <3>1. callers[k].base + 8 = Links(k).esp /\ LinkedAt(callers[k].base, Links(k))
      BY <1>2, <1>4 DEF Linked
    <3>2. callers[k].base \in Int /\ callers[k].base >= base + 8
      <4>1. /\ callers[k].base \in Int /\ callers[k].esp \in Int
            /\ base + 8 <= callers[k].esp /\ callers[k].esp + 12 <= callers[k].base
        BY <1>2, <1>4, CallerOK
      <4>. QED
        BY <1>1, <4>1
    <3>. QED
      BY <1>1, <3>1, <3>2 DEF LinkedAt
  <2>3. PICK n \in 1 .. N : n = N /\ Depth' = n
    BY <1>4 DEF Depth
  <2>4. \A k \in DOMAIN callers' :
          callers'[k].base + 8 = Links(k)'.esp /\ LinkedAt(callers[k].base, Links(k))'
    BY <1>4, <2>1, <2>2 DEF LinkedAt
  <2>5. Links(Depth)' = Links(n) /\ base' = callers[n].base
    BY <1>4, <2>1, <2>3 DEF c, Depth
  <2>6. base' + 8 = Links(Depth)'.esp /\ LinkedAt(base, Links(Depth))'
    BY <2>2, <2>5 DEF LinkedAt
  <2>. QED
    BY <1>8, <2>4, <2>6 DEF Linked
<1>14. Objects'
  <2>1. objects' = {o \in objects : o.base # base}
    BY DEF Return
  <2>2. ASSUME NEW o \in objects' PROVE InCaller(o)' \/ Within(o, Func', esp', base')
    <3>1. InCaller(o)
      BY <1>2, <2>1 DEF Objects, Within
    <3>2. PICK k \in DOMAIN callers :
                 Within(o, prog[callers[k].fn], callers[k].esp, callers[k].base)
      BY <3>1 DEF InCaller
    <3>3. CASE k = N
      BY <1>4, <1>7, <1>9, <3>2, <3>3 DEF c
    <3>4. CASE k # N
      <4>1. k \in DOMAIN callers' /\ callers'[k] = callers[k]
        BY <1>4, <3>4
      <4>. QED
        BY <1>1, <3>2, <4>1 DEF InCaller
    <3>. QED
      BY <3>3, <3>4
  <2>. QED
    BY <1>2, <1>8, <2>1, <2>2 DEF Objects
<1>. QED
  BY <1>4, <1>7, <1>8, <1>10, <1>12, <1>13, <1>14 DEF IInv
--------------------------------------------------------------------------------
LEMMA InvInit == Init => IInv
<1>. SUFFICES ASSUME Init PROVE IInv
  OBVIOUS
<1>1. /\ prog \in Programs /\ at = "entry" /\ fn = 1 /\ pc = 1 /\ arg = 1
      /\ eax = Unknown /\ edx = Unknown /\ esp = StackTop /\ ebp = HostFrame
      /\ callers = << >> /\ base = StackTop - 4 /\ objects = {}
      /\ StackTop \in Int /\ HostFrame \in Int /\ HostReturn \in Int
  BY WordsAssumption DEF Init
<1>2. fn \in DOMAIN prog /\ WellFormed(Func) /\ pc \in DOMAIN Func.insts
  BY <1>1, ProgramsAssumption, FunctionOK DEF Func
<1>3. Current.args \in Seq(Types)
  BY <1>1, <1>2, FunctionOK DEF Func, Current
<1>4. 1 \in 1 .. (Len(Current.args) + 1)
  BY <1>3
<1>5. MemOK(mem) /\ Read(mem, base + 4) = HostReturn
  <2>. DEFINE n == ArgsSize(prog[1].params) \div 4
  <2>1. PICK args \in [1 .. n -> Data] : mem = Write(<< >>, StackTop, <<HostReturn>> \o args)
    BY DEF Init
  <2>2. n \in Nat
    <3>1. ArgsSize(prog[1].params) \in Nat
      BY <1>1, <1>2, FunctionOK, ArgOffsetStep DEF Func
    <3>. QED
      BY <3>1
  <2>. HIDE DEF n
  <2>. DEFINE words == <<HostReturn>> \o args
  <2>3. args \in Seq(Data) /\ Len(args) = n
    BY <2>2
  <2>4. /\ DOMAIN words = 1 .. (n + 1) /\ words[1] = HostReturn
        /\ \A k \in 1 .. (n + 1) : words[k] \in {HostReturn} \cup Data
    BY <2>2, <2>3
  <2>5. \A k \in 1 .. (n + 1) : words[k] \in Word
    BY <1>1, <2>4, DataOK DEF Word
  <2>. HIDE DEF words
  <2>6. MemOK(<< >>)
    BY DEF MemOK, Range
  <2>7. n + 1 \in Nat /\ n + 1 # 0 /\ mem = Write(<< >>, StackTop, words)
    BY <2>1, <2>2 DEF words
  <2>8. MemOK(mem)
    BY <1>1, <2>4, <2>5, <2>6, <2>7, WriteOK
  <2>9. Read(mem, StackTop) = HostReturn
    BY <1>1, <2>4, <2>7, ReadBack
  <2>. QED
    BY <1>1, <2>8, <2>9
<1>6. TypeOK
  BY <1>1, <1>2, <1>4, <1>5 DEF TypeOK, MemOK, Range, Word
<1>7. Frames
  <2>1. callers \in Seq([fn : DOMAIN prog, pc : Int, base : Int, esp : Int])
    BY <1>1
  <2>. QED
    BY <1>1, <2>1 DEF Frames
<1>8. Linked
  BY <1>1, <1>5 DEF Linked, Links, Depth
<1>9. Objects
  BY <1>1 DEF Objects
<1>. QED
  BY <1>6, <1>7, <1>8, <1>9 DEF IInv

LEMMA StutterKeeps == IInv /\ UNCHANGED vars => IInv'
<1>. SUFFICES ASSUME IInv, UNCHANGED vars PROVE IInv'
  OBVIOUS
<1>1. UNCHANGED <<prog, at, fn, pc, arg, eax, edx, esp, ebp, mem, callers, base, objects>>
  BY DEF vars, history
<1>2. Func' = Func /\ Current' = Current
  BY <1>1 DEF Func, Current
<1>3. TypeOK'
  BY <1>1, <1>2 DEF IInv, TypeOK
<1>4. Frames'
  BY <1>1, <1>2 DEF IInv, Frames, At
<1>5. Linked'
  BY <1>1 DEF IInv, Linked, LinkedAt, Links, Depth
<1>6. Objects'
  BY <1>1, <1>2 DEF IInv, Objects, InCaller
<1>. QED
  BY <1>3, <1>4, <1>5, <1>6 DEF IInv

LEMMA InvStep == IInv /\ StoresInObjects /\ [Next]_vars => IInv'
<1>. SUFFICES ASSUME IInv, StoresInObjects, [Next]_vars PROVE IInv'
  OBVIOUS
<1>1. CASE Return
  BY <1>1, LastReturnKeeps, ReturnKeeps
<1>. QED
  BY <1>1, PrologKeeps, OperateKeeps, CallHelperKeeps, StoreKeeps, BranchKeeps,
     StoreArgumentKeeps, CallKeeps, SpillResultKeeps, AllocaKeeps, StutterKeeps DEF Next

LEMMA Invariant == Spec /\ []StoresInObjects => []IInv
BY InvInit, InvStep, PTL DEF Spec

(* Control stays in the program, every register and word of the stack holds *)
(* a number or is unknown, and only calls wait for a return, for every      *)
(* program that stores in its objects only.                                 *)
THEOREM CallsTypeCorrect == Spec /\ []StoresInObjects => []TypeOK
<1>1. IInv => TypeOK
  BY DEF IInv
<1>. QED
  BY Invariant, <1>1, PTL

LEMMA ActivationsOK ==
  ASSUME callers \in Seq([fn : DOMAIN prog, pc : Int, base : Int, esp : Int]), at # "done"
  PROVE  /\ Len(callers) \in Nat /\ DOMAIN callers = 1 .. Len(callers)
         /\ DOMAIN Activations = 1 .. Depth /\ Len(Activations) = Depth
         /\ \A k \in DOMAIN callers : Activations[k] = callers[k]
         /\ Activations[Depth] = [fn |-> fn, pc |-> pc, base |-> base, esp |-> esp]
BY DEF Activations, Depth

(* However deep the calls, each frame ends where its caller made the call,  *)
(* and the words there lead back to this caller (prolog, call, leave, ret). *)
THEOREM FramesAreLinked == Spec /\ []StoresInObjects => []FramesLinked
<1>1. IInv => FramesLinked
  <2>. SUFFICES ASSUME IInv, NEW k \in DOMAIN Activations
                PROVE  LET b == Activations[k].base IN
                       /\ b + 8 = Links(k).esp
                       /\ Read(mem, b + 4) = Links(k).return
                       /\ IF at = "entry" /\ k = Len(Activations)
                          THEN ebp = Links(k).base /\ esp = b + 4
                          ELSE Read(mem, b) = Links(k).base
    BY DEF FramesLinked
  <2>1. at # "done"
    BY DEF Activations
  <2>2. callers \in Seq([fn : DOMAIN prog, pc : Int, base : Int, esp : Int])
    BY DEF IInv, Frames
  <2>3. CASE k = Depth
    <3>1. Activations[k].base = base /\ k = Len(Activations)
      BY <2>1, <2>2, <2>3, ActivationsOK
    <3>. QED
      BY <2>1, <2>3, <3>1 DEF IInv, Linked, LinkedAt
  <2>4. CASE k # Depth
    <3>1. k \in DOMAIN callers /\ Activations[k] = callers[k] /\ k # Len(Activations)
      BY <2>1, <2>2, <2>4, ActivationsOK DEF Depth
    <3>. QED
      BY <3>1 DEF IInv, Linked, LinkedAt
  <2>. QED
    BY <2>3, <2>4
<1>. QED
  BY Invariant, <1>1, PTL

(* What alloca gives is apart from all other objects, and from the slots    *)
(* and the area for outgoing arguments of its frame, for every program and  *)
(* also for loops that allocate again.                                      *)
THEOREM ObjectsStayApart == Spec /\ []StoresInObjects => []ObjectsApart
<1>1. IInv => ObjectsApart
  <2>. SUFFICES ASSUME IInv, NEW a \in Range(Activations), NEW o \in objects, o.base = a.base
                PROVE  /\ a.esp + prog[a.fn].frame_callees_args_size <= o.addr
                       /\ o.addr + o.size
                            <= a.base - VarsSize(prog[a.fn].insts, Len(prog[a.fn].insts))
    BY DEF ObjectsApart, IInv, Objects
  <2>1. TypeOK /\ Frames /\ Objects
    BY DEF IInv
  <2>2. at # "done"
    BY DEF Activations, Range
  <2>3. PICK k \in DOMAIN Activations : a = Activations[k]
    BY DEF Range
  <2>4. callers \in Seq([fn : DOMAIN prog, pc : Int, base : Int, esp : Int]) /\ base \in Int
    BY <2>1 DEF Frames
  <2>5. CASE k = Depth
    <3>1. a.fn = fn /\ a.esp = esp /\ a.base = base
      BY <2>2, <2>3, <2>4, <2>5, ActivationsOK
    <3>2. ~ InCaller(o)
      <4>1. \A j \in DOMAIN callers : callers[j].base # base
        BY <2>1, CallerAbove
      <4>. QED
        BY <3>1, <4>1 DEF InCaller, Within
    <3>. QED
      BY <2>1, <3>1, <3>2 DEF Objects, Within, Func
  <2>6. CASE k # Depth
    <3>1. k \in DOMAIN callers /\ a = callers[k] /\ k \in Nat
      BY <2>2, <2>3, <2>4, <2>6, ActivationsOK DEF Depth
    <3>2. callers[k].base # base
      BY <2>1, <3>1, CallerAbove
    <3>3. PICK j \in DOMAIN callers :
                 Within(o, prog[callers[j].fn], callers[j].esp, callers[j].base)
      BY <2>1, <3>1, <3>2 DEF Objects, InCaller, Within
    <3>4. callers[j].base = callers[k].base /\ j \in Nat
      BY <2>4, <3>1, <3>3, Element DEF Within
    <3>5. /\ callers[j].base \in Int /\ callers[j].esp \in Int
          /\ callers[k].esp \in Int
          /\ callers[j].esp + 12 <= callers[j].base /\ callers[k].esp + 12 <= callers[k].base
          /\ j < k => callers[k].base + 8 <= callers[j].esp
          /\ k < j => callers[j].base + 8 <= callers[k].esp
      BY <2>1, <3>1, CallerOK
    <3>6. j = k
      BY <3>1, <3>4, <3>5
    <3>. QED
      BY <3>1, <3>3, <3>6 DEF Within
  <2>. QED
    BY <2>5, <2>6
<1>. QED
  BY Invariant, <1>1, PTL

(* leave and ret take a function back to the call it was made by, with the  *)
(* stack pointer and the frame pointer of that time.                        *)
THEOREM ReturnsRestoreCallers == Spec /\ []StoresInObjects => ReturnRestoresCaller
<1>1. IInv /\ [Next]_vars =>
        [Len(callers') < Len(callers) =>
           LET c == Last(callers) IN
           fn' = c.fn /\ pc' = c.pc /\ esp' = c.esp /\ ebp' = c.base]_vars
  <2>. SUFFICES ASSUME IInv, Next, Len(callers') < Len(callers)
                PROVE  LET c == Last(callers) IN
                       fn' = c.fn /\ pc' = c.pc /\ esp' = c.esp /\ ebp' = c.base
    BY DEF vars, history
  <2>1. callers \in Seq([fn : DOMAIN prog, pc : Int, base : Int, esp : Int])
    BY DEF IInv, Frames
  <2>2. callers' # callers
    BY <2>1
  <2>3. CASE Call
    <3>1. Len(callers') = Len(callers) + 1 /\ Len(callers) \in Nat
      BY <2>1, <2>3 DEF Call
    <3>. QED
      BY <3>1
  <2>4. CASE Return
    BY <2>2, <2>4, LastReturnKeeps, ReturnKeeps
  <2>. QED
    BY <2>2, <2>3, <2>4
       DEF Next, Prolog, Operate, CallHelper, Store, Branch, StoreArgument, SpillResult, Alloca, history
<1>. QED
  BY Invariant, <1>1, PTL DEF Spec, ReturnRestoresCaller
--------------------------------------------------------------------------------
(* The values of activations.  More has to be invariant for them: what is   *)
(* below %esp has not been written since it was last given back, so that a  *)
(* new frame starts with nothing in its slots; ...                          *)
Above(m, sp) == \A x \in DOMAIN m : x >= sp

(* each caller waits for a function of the type that it called, the host    *)
(* for function 1; ...                                                      *)
CalleeOf(k) == IF k = Len(callers) THEN fn ELSE callers[k + 1].fn

CallsTyped ==
  /\ \A k \in DOMAIN callers :
       LET i == prog[callers[k].fn].insts[callers[k].pc]
           f == prog[CalleeOf(k)]
       IN f.params = i.args /\ f.result = i.type
  /\ (IF callers = << >> THEN fn ELSE callers[1].fn) = 1

(* and the arguments of a call that have been stored are still there.       *)
WordsIn(ty) == IF ty = "i64" THEN {1, 2} ELSE {1}

ArgumentsPassed ==
  At("call") =>
    \A k \in 1 .. (arg - 1) : \A p \in WordsIn(Current.args[k]) :
      Read(mem, esp + ArgOffset(Current.args, k) + 4 * (p - 1)) = Part(Current.ops[k], p)

PInv == IInv /\ Above(mem, esp) /\ CallsTyped /\ ArgumentsPassed
--------------------------------------------------------------------------------
LEMMA WriteAbove ==
  ASSUME NEW m, NEW sp \in Int, Above(m, sp), NEW a \in Int, a >= sp, NEW words, NEW n \in Nat,
         DOMAIN words = 1 .. n
  PROVE  Above(Write(m, a, words), sp)
<1>1. \A k \in 1 .. n : a + 4 * (k - 1) >= sp
  OBVIOUS
<1>. QED
  BY <1>1 DEF Above, Write

LEMMA AboveBelow ==
  ASSUME NEW m, MemOK(m), NEW sp \in Int, NEW low \in Int, low <= sp, Above(m, sp)
  PROVE  Above(m, low)
BY DEF Above, MemOK

LEMMA ReadBelow ==
  ASSUME NEW m, NEW sp \in Int, Above(m, sp), NEW x \in Int, x < sp
  PROVE  Read(m, x) = Unknown
BY DEF Above, Read

(* Where the innermost function's slots and area are.                       *)
LEMMA FrameOK ==
  ASSUME TypeOK, Frames, at \in {"inst", "result"}
  PROVE  /\ esp \in Int /\ base \in Int /\ ebp = base /\ MemOK(mem)
         /\ Func.frame_callees_args_size \in Nat /\ Func.frame_callees_args_size >= 12
         /\ VarsSize(Func.insts, Len(Func.insts)) \in Nat
         /\ esp + Func.frame_callees_args_size + VarsSize(Func.insts, Len(Func.insts)) <= base
<1>1. /\ VarsSize(Func.insts, Len(Func.insts)) \in Nat /\ Func.frame_callees_args_size \in Nat
      /\ Func.frame_callees_args_size >= 12
      /\ FrameSize(Func) =
           VarsSize(Func.insts, Len(Func.insts)) + Func.frame_callees_args_size
  BY FunctionOK DEF TypeOK, Func
<1>2. /\ esp \in Int /\ base \in Int /\ ebp = base /\ esp + FrameSize(Func) <= base
  BY DEF TypeOK, Frames
<1>. QED
  BY <1>1, <1>2, StateOK

(* A result is spilled to the slot of its instruction.                      *)
LEMMA ResultSlot ==
  ASSUME TypeOK, Frames, at \in {"inst", "result"}, NEW lo, NEW hi
  PROVE  LET s == Slot(Inst(pc))
             words == WordsOf(Current.type, lo, hi)
         IN /\ s \in Int /\ s >= esp + Func.frame_callees_args_size
            /\ s >= base - VarsSize(Func.insts, Len(Func.insts))
            /\ \E n \in 1 .. 2 : /\ Len(words) = n /\ DOMAIN words = 1 .. n
                                 /\ 4 * n = ArgStackSize(Current.type) /\ s + 4 * n <= base
<1>. DEFINE s == Slot(Inst(pc))
            words == WordsOf(Current.type, lo, hi)
            vars_size == VarsSize(Func.insts, Len(Func.insts))
            area == Func.frame_callees_args_size
<1>1. PICK n \in 1 .. 2 :
        Len(words) = n /\ DOMAIN words = 1 .. n /\ 4 * n = ArgStackSize(Current.type)
  BY DEF WordsOf, ArgStackSize
<1>2. Inst(pc) \in SlottedValues(Func) /\ Inst(pc)[1] # "param"
      /\ ValueType(Func, Inst(pc)) = Current.type
  BY InstOK DEF Inst
<1>3. s \in Int /\ ebp - vars_size <= s /\ s + ArgStackSize(Current.type) <= ebp
  BY <1>2, SlotOK
<1>4. /\ ebp = base /\ esp \in Int /\ base \in Int /\ area \in Nat /\ vars_size \in Nat
      /\ esp + area + vars_size <= base
  BY FrameOK
<1>. HIDE DEF s, words, vars_size, area
<1>5. s >= esp + area /\ s >= base - vars_size
  BY <1>3, <1>4
<1>6. s + 4 * n <= base
  BY <1>1, <1>3, <1>4
<1>. QED
  BY <1>1, <1>3, <1>5, <1>6 DEF s, words, vars_size, area

LEMMA SpillAbove ==
  ASSUME TypeOK, Frames, at \in {"inst", "result"}, NEW lo, NEW hi, NEW m, Above(m, esp)
  PROVE  Above(Write(m, Slot(Inst(pc)), WordsOf(Current.type, lo, hi)), esp)
<1>. DEFINE s == Slot(Inst(pc))
            words == WordsOf(Current.type, lo, hi)
<1>1. s \in Int /\ s >= esp + Func.frame_callees_args_size
      /\ \E n \in 1 .. 2 : DOMAIN words = 1 .. n
  BY ResultSlot
<1>2. esp \in Int /\ Func.frame_callees_args_size \in Nat
  BY FrameOK
<1>. HIDE DEF s, words
<1>3. s >= esp
  BY <1>1, <1>2
<1>. QED
  BY <1>1, <1>2, <1>3, WriteAbove DEF s, words

(* An object is above the area of the innermost function.                   *)
LEMMA ObjectAbove ==
  ASSUME TypeOK, Frames, Objects, at = "inst", NEW o \in objects
  PROVE  o.addr \in Int /\ o.size \in Nat /\ o.addr >= esp
<1>1. o.addr \in Int /\ o.size \in Nat
  BY DEF Objects
<1>2. /\ esp \in Int /\ base \in Int /\ Func.frame_callees_args_size \in Nat
      /\ esp <= base
  BY AreaOK
<1>3. CASE Within(o, Func, esp, base)
  BY <1>1, <1>2, <1>3 DEF Within
<1>4. CASE InCaller(o)
  <2>1. PICK k \in DOMAIN callers :
               Within(o, prog[callers[k].fn], callers[k].esp, callers[k].base)
    BY <1>4 DEF InCaller
  <2>2. callers[k].fn \in DOMAIN prog /\ callers[k].esp \in Int /\ base + 8 <= callers[k].esp
    BY CallerOK
  <2>3. prog[callers[k].fn].frame_callees_args_size \in Nat
    BY <2>2, FunctionOK DEF TypeOK
  <2>4. callers[k].esp + prog[callers[k].fn].frame_callees_args_size <= o.addr
    BY <2>1 DEF Within
  <2>. QED
    BY <1>1, <1>2, <2>2, <2>3, <2>4
<1>. QED
  BY <1>1, <1>3, <1>4 DEF Objects

(* The pointer of a store, as StoresInObjects has it.                       *)
LEMMA StoreInObject ==
  ASSUME TypeOK, Frames, Objects, StoresInObjects, Store
  PROVE  \E o \in objects : \E n \in 1 .. 2 :
           LET i == Current
               words == WordsOf(i.args[2], Part(i.ops[2], 1), Part(i.ops[2], 2))
           IN /\ edx' \in Int /\ o.addr <= edx' /\ edx' + 4 * n <= o.addr + o.size
              /\ Len(words) = n /\ DOMAIN words = 1 .. n /\ mem' = Write(mem, edx', words)
<1>. DEFINE ty == Current.args[2]
            words == WordsOf(ty, Part(Current.ops[2], 1), Part(Current.ops[2], 2))
<1>1. PICK n \in 1 .. 2 : Len(words) = n /\ DOMAIN words = 1 .. n /\ 4 * n = ArgStackSize(ty)
  BY DEF WordsOf, ArgStackSize
<1>2. At("store") /\ edx' = Part(Current.ops[1], 1) /\ mem' = Write(mem, edx', words)
  BY DEF Store
<1>3. PICK o \in objects : /\ edx' \in Int /\ o.addr <= edx'
                           /\ edx' + ArgStackSize(ty) <= o.addr + o.size
  BY <1>2 DEF StoresInObjects
<1>. QED
  BY <1>1, <1>2, <1>3

(* Where an outgoing argument is stored, and what is stored there.          *)
LEMMA OutgoingArgOK ==
  ASSUME TypeOK, Frames, At("call"), NEW k \in DOMAIN Current.args
  PROVE  /\ ArgOffset(Current.args, k) \in Nat
         /\ ArgOffset(Current.args, k) + ArgStackSize(Current.args[k])
              <= Func.frame_callees_args_size
         /\ IsOperand(Func, Current.ops[k], Current.args[k])
<1>1. /\ Current.args \in Seq(Types) /\ Len(Current.args) \in Nat
      /\ DOMAIN Current.args = 1 .. Len(Current.args)
      /\ ArgsSize(Current.args) <= Func.frame_callees_args_size
      /\ IsOperand(Func, Current.ops[k], Current.args[k])
  BY InstOK DEF WellFormedInst, At
<1>2. k \in 1 .. (Len(Current.args) + 1) /\ Len(Current.args) + 1 \in 1 .. (Len(Current.args) + 1)
      /\ k < Len(Current.args) + 1
  BY <1>1
<1>3. ArgOffset(Current.args, k) + ArgStackSize(Current.args[k]) <= ArgsSize(Current.args)
  BY <1>1, <1>2, ArgOffsetMonotone DEF ArgsSize
<1>4. ArgOffset(Current.args, k) \in Nat /\ ArgsSize(Current.args) \in Nat
  BY <1>1, <1>2, ArgOffsetStep
<1>5. Func.frame_callees_args_size \in Nat
  BY FrameOK DEF At
<1>6. ArgStackSize(Current.args[k]) \in Nat
  BY DEF ArgStackSize
<1>. QED
  BY <1>1, <1>3, <1>4, <1>5, <1>6

(* The values that a function of frame b has in memory m.                   *)
Values(m, f, b) ==
  [v \in SlottedValues(f) |->
     LET WordAt(p) == Read(m, b + FrameSlots(f)[v] + 4 * (p - 1))
     IN ValueOf(ValueType(f, v), WordAt(1), WordAt(2))]

LEMMA EnvOfIs == \A a : EnvOf(a) = Values(mem, prog[a.fn], a.base)
BY DEF EnvOf, Values, FrameSlots

LEMMA SameValues ==
  ASSUME NEW m, NEW l, NEW f, NEW b,
         \A v \in SlottedValues(f) : \A p \in WordsIn(ValueType(f, v)) :
           LET x == b + FrameSlots(f)[v] + 4 * (p - 1) IN Read(l, x) = Read(m, x)
  PROVE  Values(l, f, b) = Values(m, f, b)
<1>. DEFINE WordAt(n, v, p) == Read(n, b + FrameSlots(f)[v] + 4 * (p - 1))
<1>1. ASSUME NEW v \in SlottedValues(f)
      PROVE  /\ WordAt(l, v, 1) = WordAt(m, v, 1)
             /\ ValueType(f, v) = "i64" => WordAt(l, v, 2) = WordAt(m, v, 2)
  BY DEF WordsIn
<1>. HIDE DEF WordAt
<1>2. ASSUME NEW v \in SlottedValues(f)
      PROVE  ValueOf(ValueType(f, v), WordAt(l, v, 1), WordAt(l, v, 2))
               = ValueOf(ValueType(f, v), WordAt(m, v, 1), WordAt(m, v, 2))
  BY <1>1 DEF ValueOf, WordsOf
<1>. QED
  BY <1>2 DEF Values, WordAt

(* The slots of a frame are in two regions; a write apart from both changes *)
(* none of its values.                                                      *)
LEMMA SlotWord ==
  ASSUME NEW f, f.params \in Seq(Types), f.insts \in Seq(Range(f.insts)), NEW b \in Int,
         NEW v \in SlottedValues(f), NEW p \in WordsIn(ValueType(f, v))
  PROVE  LET x == b + FrameSlots(f)[v] + 4 * (p - 1) IN
         /\ x \in Int /\ p \in 1 .. 2
         /\ \/ b - VarsSize(f.insts, Len(f.insts)) <= x /\ x + 4 <= b
            \/ b + 8 <= x /\ x + 4 <= b + 8 + ArgsSize(f.params)
<1>. DEFINE s == FrameSlots(f)[v]
            n == ArgStackSize(ValueType(f, v))
            d == 4 * (p - 1)
            vars_size == VarsSize(f.insts, Len(f.insts))
            args_size == ArgsSize(f.params)
<1>1. d \in 0 .. 4 /\ d + 4 <= n /\ p \in 1 .. 2
  BY DEF WordsIn, ArgStackSize
<1>2. /\ s \in Int
      /\ v[1] # "param" => s >= -vars_size /\ s + n <= 0
  BY SlotRegions
<1>3. ASSUME v[1] = "param" PROVE s >= 8 /\ s + n <= 8 + args_size
  <2>1. PICK k \in DOMAIN f.params : v = Param(k)
    BY <1>3 DEF SlottedValues, Param, Inst
  <2>2. s = 8 + ArgOffset(f.params, k) /\ n = ArgStackSize(f.params[k])
    BY <2>1 DEF FrameSlots, ParamSlot, ValueType, Param, FirstParameter
  <2>3. k \in 1 .. (Len(f.params) + 1) /\ Len(f.params) + 1 \in 1 .. (Len(f.params) + 1)
        /\ k < Len(f.params) + 1
    OBVIOUS
  <2>4. /\ ArgOffset(f.params, k) \in Nat
        /\ ArgOffset(f.params, k) + ArgStackSize(f.params[k]) <= args_size
    BY <2>3, ArgOffsetStep, ArgOffsetMonotone DEF ArgsSize
  <2>5. args_size \in Nat /\ n \in Nat
    BY ArgOffsetStep DEF ArgStackSize
  <2>. HIDE DEF s, n, args_size
  <2>. QED
    BY <2>2, <2>4, <2>5
<1>4. vars_size \in Nat /\ args_size \in Nat /\ n \in Nat
  <2>1. Len(f.insts) \in 0 .. Len(f.insts)
    OBVIOUS
  <2>. QED
    BY <2>1, VarsSizeStep, ArgOffsetStep DEF ArgStackSize
<1>. HIDE DEF s, n, d, vars_size, args_size
<1>5. \/ b - vars_size <= b + s + d /\ b + s + d + 4 <= b
      \/ b + 8 <= b + s + d /\ b + s + d + 4 <= b + 8 + args_size
  BY <1>1, <1>2, <1>3, <1>4
<1>. QED
  BY <1>1, <1>2, <1>5 DEF s, d, vars_size, args_size

Apart(f, b, a, n) == \* n words from a on
  LET low == b - VarsSize(f.insts, Len(f.insts))
      high == b + 8 + ArgsSize(f.params)
  IN /\ a + 4 * n <= low \/ b <= a
     /\ a + 4 * n <= b + 8 \/ high <= a

LEMMA ApartKeeps ==
  ASSUME NEW f, f.params \in Seq(Types), f.insts \in Seq(Range(f.insts)), NEW b \in Int,
         NEW a \in Int, NEW n \in Nat, NEW words, Len(words) = n, DOMAIN words = 1 .. n,
         Apart(f, b, a, n), NEW m
  PROVE  Values(Write(m, a, words), f, b) = Values(m, f, b)
<1>. SUFFICES ASSUME NEW v \in SlottedValues(f), NEW p \in WordsIn(ValueType(f, v))
              PROVE  LET x == b + FrameSlots(f)[v] + 4 * (p - 1)
                     IN Read(Write(m, a, words), x) = Read(m, x)
  BY SameValues
<1>. DEFINE x == b + FrameSlots(f)[v] + 4 * (p - 1)
            low == b - VarsSize(f.insts, Len(f.insts))
            high == b + 8 + ArgsSize(f.params)
<1>1. x \in Int /\ ((low <= x /\ x + 4 <= b) \/ (b + 8 <= x /\ x + 4 <= high))
  BY SlotWord
<1>2. low \in Int /\ high \in Int
  <2>1. Len(f.insts) \in 0 .. Len(f.insts)
    OBVIOUS
  <2>2. VarsSize(f.insts, Len(f.insts)) \in Nat /\ ArgsSize(f.params) \in Nat
    BY <2>1, VarsSizeStep, ArgOffsetStep
  <2>. QED
    BY <2>2
<1>3. (a + 4 * n <= low \/ b <= a) /\ (a + 4 * n <= b + 8 \/ high <= a)
  BY DEF Apart
<1>. HIDE DEF x, low, high
<1>4. Disjoint(x, 4, a, 4 * n)
  <2>1. 4 * n \in Nat
    OBVIOUS
  <2>. QED
    BY <1>1, <1>2, <1>3, <2>1 DEF Disjoint
<1>5. Read(Write(m, a, words), x) = Read(m, x)
  BY <1>1, <1>4, ReadAside
<1>. QED
  BY <1>5 DEF x
--------------------------------------------------------------------------------
(* The frames of callers are above the return address of the innermost.     *)
LEMMA CallerRegions ==
  ASSUME IInv, NEW k \in DOMAIN callers
  PROVE  LET c == callers[k]
             f == prog[c.fn]
             vars_size == VarsSize(f.insts, Len(f.insts))
         IN /\ c.fn \in DOMAIN prog /\ c.base \in Int /\ c.esp \in Int /\ base \in Int
            /\ f.params \in Seq(Types) /\ f.insts \in Seq(Range(f.insts))
            /\ vars_size \in Nat /\ f.frame_callees_args_size \in Nat
            /\ base + 8 <= c.esp /\ c.esp + f.frame_callees_args_size + vars_size <= c.base
            /\ ArgsSize(f.params) \in Nat
<1>. DEFINE c == callers[k]
            f == prog[c.fn]
            vars_size == VarsSize(f.insts, Len(f.insts))
<1>1. /\ c.fn \in DOMAIN prog /\ c.base \in Int /\ c.esp \in Int /\ base \in Int
      /\ base + 8 <= c.esp /\ c.esp + FrameSize(f) <= c.base
  BY CallerOK DEF IInv, Frames
<1>2. /\ vars_size \in Nat /\ f.frame_callees_args_size \in Nat
      /\ FrameSize(f) = vars_size + f.frame_callees_args_size
      /\ f.params \in Seq(Types) /\ f.insts \in Seq(Range(f.insts))
  BY <1>1, FunctionOK DEF IInv, TypeOK
<1>3. ArgsSize(f.params) \in Nat
  BY <1>2, ArgOffsetStep
<1>. HIDE DEF c, f, vars_size
<1>4. c.esp + f.frame_callees_args_size + vars_size <= c.base
  BY <1>1, <1>2
<1>. QED
  BY <1>1, <1>2, <1>3, <1>4 DEF c, f, vars_size

CallersKeep(m) ==
  \A k \in DOMAIN callers :
    Values(m, prog[callers[k].fn], callers[k].base)
      = Values(mem, prog[callers[k].fn], callers[k].base)

(* A write below the parameters of the innermost function keeps the values  *)
(* of the callers, ...                                                      *)
LEMMA BelowKeepsCallers ==
  ASSUME IInv, NEW m, CallersKeep(m), NEW a \in Int, NEW n \in Nat, NEW words,
         Len(words) = n, DOMAIN words = 1 .. n, a + 4 * n <= base + 8
  PROVE  CallersKeep(Write(m, a, words))
<1>. SUFFICES ASSUME NEW k \in DOMAIN callers
              PROVE  Values(Write(m, a, words), prog[callers[k].fn], callers[k].base)
                       = Values(m, prog[callers[k].fn], callers[k].base)
  BY DEF CallersKeep
<1>. DEFINE c == callers[k]
            f == prog[c.fn]
            vars_size == VarsSize(f.insts, Len(f.insts))
<1>1. /\ c.fn \in DOMAIN prog /\ c.base \in Int /\ c.esp \in Int /\ base \in Int
      /\ f.params \in Seq(Types) /\ f.insts \in Seq(Range(f.insts))
      /\ vars_size \in Nat /\ f.frame_callees_args_size \in Nat
      /\ base + 8 <= c.esp /\ c.esp + f.frame_callees_args_size + vars_size <= c.base
  BY CallerRegions
<1>. HIDE DEF c, f
<1>0. a + 4 * n <= base + 8
  OBVIOUS
<1>2. a + 4 * n <= c.base - vars_size /\ a + 4 * n <= c.base + 8
  <2>. DEFINE b == c.base
              sp == c.esp
              area == f.frame_callees_args_size
              end == a + 4 * n
  <2>1. b \in Int /\ sp \in Int /\ vars_size \in Nat /\ area \in Nat /\ base \in Int
        /\ base + 8 <= sp /\ sp + area + vars_size <= b /\ end <= base + 8 /\ end \in Int
    BY <1>1
  <2>. HIDE DEF vars_size, b, sp, area, end
  <2>2. end <= b - vars_size /\ end <= b + 8
    BY <2>1
  <2>. QED
    BY <2>2 DEF b, end
<1>3. Apart(f, c.base, a, n)
  BY <1>2 DEF Apart
<1>4. Values(Write(m, a, words), f, c.base) = Values(m, f, c.base)
  <2>. DEFINE b == c.base
  <2>. HIDE DEF b, vars_size
  <2>1. f.params \in Seq(Types) /\ f.insts \in Seq(Range(f.insts)) /\ b \in Int
    BY <1>1 DEF b
  <2>2. Apart(f, b, a, n)
    BY <1>3 DEF b
  <2>3. Values(Write(m, a, words), f, b) = Values(m, f, b)
    BY <2>1, <2>2, ApartKeeps
  <2>. QED
    BY <2>3 DEF b
<1>. QED
  BY <1>4 DEF c, f

(* and one between its stack's end and its slots keeps its own.             *)
LEMMA AreaKeepsValues ==
  ASSUME IInv, at \in {"inst", "result"}, NEW m, NEW a \in Int, NEW n \in Nat, NEW words,
         Len(words) = n, DOMAIN words = 1 .. n,
         a + 4 * n <= base - VarsSize(Func.insts, Len(Func.insts))
  PROVE  Values(Write(m, a, words), Func, base) = Values(m, Func, base)
<1>. DEFINE vars_size == VarsSize(Func.insts, Len(Func.insts))
<1>1. base \in Int /\ vars_size \in Nat
  BY FrameOK DEF IInv
<1>2. Func.params \in Seq(Types) /\ Func.insts \in Seq(Range(Func.insts))
  BY InstOK DEF IInv
<1>. HIDE DEF vars_size
<1>3. a + 4 * n <= base - vars_size /\ a + 4 * n <= base + 8
  <2>1. 4 * n \in Nat /\ a + 4 * n <= base - vars_size
    BY DEF vars_size
  <2>. QED
    BY <1>1, <2>1
<1>4. Apart(Func, base, a, n)
  BY <1>3 DEF Apart, vars_size
<1>. QED
  BY <1>1, <1>2, <1>4, ApartKeeps
--------------------------------------------------------------------------------
(* A callee's parameters are in the area of its caller.                     *)
LEMMA ParamsFit ==
  ASSUME IInv, CallsTyped, at \in {"inst", "result"}, NEW k \in DOMAIN callers
  PROVE  LET f == prog[CalleeOf(k)]
             b == IF k = Len(callers) THEN base ELSE callers[k + 1].base
         IN /\ b + 8 = callers[k].esp /\ f.params \in Seq(Types)
            /\ b + 8 + ArgsSize(f.params)
                 <= callers[k].esp + prog[callers[k].fn].frame_callees_args_size
<1>. DEFINE N == Len(callers)
            b == IF k = N THEN base ELSE callers[k + 1].base
            c == callers[k]
            i == prog[c.fn].insts[c.pc]
            area == prog[c.fn].frame_callees_args_size
<1>1. N \in Nat /\ DOMAIN callers = 1 .. N /\ k \in 1 .. N
  BY DEF IInv, Frames
<1>2. /\ c.fn \in DOMAIN prog /\ c.esp \in Int /\ c.pc \in DOMAIN prog[c.fn].insts
      /\ i.kind = "call"
  BY CallerOK DEF IInv, Frames, TypeOK, Range
<1>3. WellFormedInst(prog[c.fn], c.pc)
  BY <1>2, FunctionOK DEF IInv, TypeOK, WellFormed
<1>4. i.args \in Seq(Types) /\ ArgsSize(i.args) <= area /\ area \in Nat
  BY <1>2, <1>3, FunctionOK DEF WellFormedInst, IInv, TypeOK
<1>5. prog[CalleeOf(k)].params = i.args
  BY DEF CallsTyped
<1>6. b + 8 = c.esp
  <2>1. CASE k = N
    <3>1. Depth = N + 1 /\ Depth # 1 /\ Depth - 1 = k
      BY <1>1, <2>1 DEF Depth
    <3>2. base + 8 = Links(Depth).esp
      BY DEF IInv, Linked
    <3>. QED
      BY <2>1, <3>1, <3>2 DEF Links
  <2>2. CASE k # N
    <3>1. k + 1 \in DOMAIN callers /\ k + 1 # 1 /\ (k + 1) - 1 = k
      BY <1>1, <2>2
    <3>2. callers[k + 1].base + 8 = Links(k + 1).esp
      BY <3>1 DEF IInv, Linked
    <3>. QED
      BY <2>2, <3>1, <3>2 DEF Links
  <2>. QED
    BY <2>1, <2>2
<1>7. ArgsSize(i.args) \in Nat
  BY <1>4, ArgOffsetStep
<1>. HIDE DEF b, c, i, area
<1>8. b + 8 + ArgsSize(i.args) <= c.esp + area
  BY <1>2, <1>4, <1>6, <1>7
<1>. QED
  BY <1>4, <1>5, <1>6, <1>8 DEF b, c, i, area

(* The frame of a caller, for a write in an object of a caller.             *)
LEMMA ObjectOfCaller ==
  ASSUME IInv, NEW o \in objects, NEW k \in DOMAIN callers,
         Within(o, prog[callers[k].fn], callers[k].esp, callers[k].base)
  PROVE  LET f == prog[callers[k].fn] IN
         /\ o.addr \in Int /\ o.size \in Nat
         /\ callers[k].esp + f.frame_callees_args_size <= o.addr
         /\ o.addr + o.size + VarsSize(f.insts, Len(f.insts)) <= callers[k].base
<1>. DEFINE f == prog[callers[k].fn]
            vars_size == VarsSize(f.insts, Len(f.insts))
<1>1. o.addr \in Int /\ o.size \in Nat
  BY DEF IInv, Objects
<1>2. vars_size \in Nat /\ callers[k].base \in Int
  BY CallerRegions
<1>3. /\ callers[k].esp + f.frame_callees_args_size <= o.addr
      /\ o.addr + o.size <= callers[k].base - vars_size
  BY DEF Within
<1>. HIDE DEF vars_size
<1>4. o.addr + o.size + vars_size <= callers[k].base
  BY <1>1, <1>2, <1>3
<1>. QED
  BY <1>1, <1>3, <1>4 DEF vars_size

(* A store in an object of a caller keeps the values of the innermost       *)
(* function, ...                                                            *)
LEMMA CallerObjectKeepsOwn ==
  ASSUME IInv, CallsTyped, at = "inst", NEW o \in objects, InCaller(o),
         NEW a \in Int, NEW n \in Nat, o.addr <= a
  PROVE  Apart(Func, base, a, n)
<1>. DEFINE N == Len(callers)
            vars_size == VarsSize(Func.insts, Len(Func.insts))
            args_size == ArgsSize(Func.params)
<1>1. PICK k \in DOMAIN callers :
             Within(o, prog[callers[k].fn], callers[k].esp, callers[k].base)
  BY DEF InCaller
<1>2. N \in Nat /\ DOMAIN callers = 1 .. N /\ N \in DOMAIN callers
  BY DEF IInv, Frames
<1>3. /\ base + 8 = callers[N].esp
      /\ base + 8 + args_size
           <= callers[N].esp + prog[callers[N].fn].frame_callees_args_size
  BY <1>2, ParamsFit DEF CalleeOf, Func
<1>4. \A j \in {k, N} :
        /\ callers[j].base \in Int /\ callers[j].esp \in Int /\ base \in Int
        /\ prog[callers[j].fn].frame_callees_args_size \in Nat
        /\ base + 8 <= callers[j].esp
        /\ callers[j].esp + prog[callers[j].fn].frame_callees_args_size <= callers[j].base
  <2>. SUFFICES ASSUME NEW j \in {k, N}
                PROVE  /\ callers[j].base \in Int /\ callers[j].esp \in Int /\ base \in Int
                       /\ prog[callers[j].fn].frame_callees_args_size \in Nat
                       /\ base + 8 <= callers[j].esp
                       /\ callers[j].esp + prog[callers[j].fn].frame_callees_args_size
                            <= callers[j].base
    OBVIOUS
  <2>. DEFINE s == VarsSize(prog[callers[j].fn].insts, Len(prog[callers[j].fn].insts))
  <2>1. /\ callers[j].base \in Int /\ callers[j].esp \in Int /\ base \in Int
        /\ prog[callers[j].fn].frame_callees_args_size \in Nat /\ s \in Nat
        /\ base + 8 <= callers[j].esp
        /\ callers[j].esp + prog[callers[j].fn].frame_callees_args_size + s
             <= callers[j].base
    BY <1>2, CallerRegions
  <2>. HIDE DEF s
  <2>. QED
    BY <2>1
<1>5. o.addr \in Int /\ callers[k].esp + prog[callers[k].fn].frame_callees_args_size <= o.addr
  BY <1>1, ObjectOfCaller
<1>6. base + 8 + args_size <= o.addr
  <2>1. CASE k = N
    <3>1. args_size \in Nat
      BY InstOK, ArgOffsetStep DEF IInv
    <3>. HIDE DEF args_size, N
    <3>. QED
      BY <1>3, <1>4, <1>5, <2>1, <3>1
  <2>2. CASE k # N
    <3>1. callers[N].base + 8 <= callers[k].esp
      <4>1. N \in DOMAIN callers /\ k < N /\ TypeOK /\ Frames
        BY <1>2, <2>2 DEF IInv
      <4>. HIDE DEF N
      <4>. QED
        BY <4>1, CallerOK
    <3>2. args_size \in Nat
      BY InstOK, ArgOffsetStep DEF IInv
    <3>. HIDE DEF args_size, N
    <3>. QED
      BY <1>3, <1>4, <1>5, <3>1, <3>2
  <2>. QED
    BY <2>1, <2>2
<1>7. args_size \in Nat /\ vars_size \in Nat
  BY InstOK, FrameOK, ArgOffsetStep DEF IInv
<1>. HIDE DEF args_size, vars_size, N
<1>8. base + 8 + args_size <= a /\ base <= a
  <2>1. base \in Int
    BY <1>4
  <2>. QED
    BY <1>5, <1>6, <1>7, <2>1
<1>. QED
  BY <1>8 DEF Apart, args_size, vars_size

(* and those of every caller.                                               *)
LEMMA CallerObjectKeepsCallers ==
  ASSUME IInv, CallsTyped, at = "inst", NEW o \in objects, InCaller(o),
         NEW a \in Int, NEW n \in Nat, o.addr <= a, a + 4 * n <= o.addr + o.size,
         NEW j \in DOMAIN callers
  PROVE  Apart(prog[callers[j].fn], callers[j].base, a, n)
<1>. DEFINE N == Len(callers)
            vars_size(i) == VarsSize(prog[callers[i].fn].insts, Len(prog[callers[i].fn].insts))
            area(i) == prog[callers[i].fn].frame_callees_args_size
            args_size == ArgsSize(prog[callers[j].fn].params)
<1>1. PICK k \in DOMAIN callers :
             Within(o, prog[callers[k].fn], callers[k].esp, callers[k].base)
  BY DEF InCaller
<1>2. N \in Nat /\ DOMAIN callers = 1 .. N /\ j \in 1 .. N /\ k \in 1 .. N
  <2>. DEFINE R == [fn : DOMAIN prog, pc : Int, base : Int, esp : Int]
  <2>1. callers \in Seq(R)
    BY DEF IInv, Frames
  <2>. HIDE DEF R
  <2>2. N \in Nat /\ DOMAIN callers = 1 .. N
    BY <2>1
  <2>. QED
    BY <1>1, <2>2
<1>3. \A i \in DOMAIN callers :
        /\ callers[i].base \in Int /\ callers[i].esp \in Int
        /\ vars_size(i) \in Nat /\ area(i) \in Nat
        /\ callers[i].esp + area(i) + vars_size(i) <= callers[i].base
        /\ \A l \in DOMAIN callers : l < i => callers[i].base + 8 <= callers[l].esp
  <2>1. \A i \in DOMAIN callers :
          /\ callers[i].base \in Int /\ callers[i].esp \in Int
          /\ vars_size(i) \in Nat /\ area(i) \in Nat
          /\ callers[i].esp + area(i) + vars_size(i) <= callers[i].base
    BY CallerRegions
  <2>2. \A i \in DOMAIN callers : \A l \in DOMAIN callers :
          l < i => callers[i].base + 8 <= callers[l].esp
    <3>1. TypeOK /\ Frames
      BY DEF IInv
    <3>. QED
      BY <3>1, CallerOK
  <2>. HIDE DEF vars_size, area
  <2>. QED
    BY <2>1, <2>2
<1>4. o.addr \in Int /\ o.size \in Nat /\ callers[k].esp + area(k) <= o.addr
      /\ o.addr + o.size + vars_size(k) <= callers[k].base
  BY <1>1, ObjectOfCaller
<1>5. args_size \in Nat
  BY CallerRegions
<1>6. CASE j <= k
  <2>1. a + 4 * n <= callers[j].base - vars_size(j) /\ a + 4 * n <= callers[j].base + 8
    <3>. HIDE DEF vars_size, area, N
    <3>1. j = k \/ callers[k].base + 8 <= callers[j].esp
      <4>1. j = k \/ j < k
        BY <1>2, <1>6
      <4>. QED
        BY <1>3, <4>1
    <3>. QED
      BY <1>1, <1>3, <1>4, <3>1
  <2>. QED
    BY <2>1 DEF Apart
<1>7. CASE k < j
  <2>1. callers[j].base + 8 <= callers[k].esp
    BY <1>3, <1>7
  <2>2. PICK l \in DOMAIN callers : l = j - 1 /\ k <= l
    BY <1>2, <1>7
  <2>3. callers[j].base + 8 + args_size <= callers[l].esp + area(l)
    <3>1. CalleeOf(l) = callers[j].fn /\ l # Len(callers) /\ l + 1 = j
      BY <1>2, <2>2 DEF CalleeOf
    <3>. QED
      BY <3>1, ParamsFit
  <2>4. callers[j].base + 8 + args_size <= o.addr
    <3>. HIDE DEF vars_size, area, N, args_size
    <3>1. l = k \/ callers[l].base + 8 <= callers[k].esp
      <4>1. l = k \/ k < l
        BY <1>2, <2>2
      <4>. QED
        BY <1>3, <4>1
    <3>. QED
      BY <1>1, <1>3, <1>4, <1>5, <2>2, <2>3, <3>1
  <2>5. callers[j].base <= a /\ callers[j].base + 8 + args_size <= a
    <3>. HIDE DEF vars_size, area, N, args_size
    <3>. QED
      BY <1>3, <1>4, <1>5, <2>4
  <2>. QED
    BY <2>5 DEF Apart
<1>. QED
  BY <1>2, <1>6, <1>7

LEMMA StoreKeepsValues ==
  ASSUME IInv, CallsTyped, StoresInObjects, Store
  PROVE  /\ CallersKeep(mem') /\ Values(mem', Func, base) = Values(mem, Func, base)
         /\ Above(mem, esp) => Above(mem', esp)
<1>0. at = "inst" /\ TypeOK /\ Frames /\ Objects
  BY DEF Store, At, IInv
<1>1. PICK o \in objects, n \in 1 .. 2 :
        LET i == Current
            words == WordsOf(i.args[2], Part(i.ops[2], 1), Part(i.ops[2], 2))
        IN /\ edx' \in Int /\ o.addr <= edx' /\ edx' + 4 * n <= o.addr + o.size
           /\ Len(words) = n /\ DOMAIN words = 1 .. n /\ mem' = Write(mem, edx', words)
  BY <1>0, StoreInObject
<1>. DEFINE a == edx'
            words == WordsOf(Current.args[2], Part(Current.ops[2], 1), Part(Current.ops[2], 2))
<1>2. /\ a \in Int /\ o.addr <= a /\ a + 4 * n <= o.addr + o.size /\ n \in Nat
      /\ Len(words) = n /\ DOMAIN words = 1 .. n /\ mem' = Write(mem, a, words)
  BY <1>1
<1>. HIDE DEF a, words
<1>3. /\ o.addr \in Int /\ o.size \in Nat /\ o.addr >= esp /\ esp \in Int /\ base \in Int
  BY <1>0, ObjectAbove, AreaOK
<1>4. ASSUME Above(mem, esp) PROVE Above(mem', esp)
  <2>1. a >= esp
    BY <1>2, <1>3
  <2>. QED
    BY <1>2, <1>3, <1>4, <2>1, WriteAbove
<1>5. CASE InCaller(o)
  <2>2. Apart(Func, base, a, n)
    BY <1>0, <1>2, <1>5, CallerObjectKeepsOwn
  <2>3. Func.params \in Seq(Types) /\ Func.insts \in Seq(Range(Func.insts))
    BY <1>0, InstOK
  <2>4. Values(mem', Func, base) = Values(mem, Func, base)
    <3>. DEFINE f == Func
                b == base
    <3>1. Apart(f, b, a, n)
      BY <2>2
    <3>2. f.params \in Seq(Types) /\ f.insts \in Seq(Range(f.insts)) /\ b \in Int
      BY <1>3, <2>3
    <3>. HIDE DEF f, b
    <3>3. Values(mem', f, b) = Values(mem, f, b)
      BY <1>2, <3>1, <3>2, ApartKeeps
    <3>. QED
      BY <3>3 DEF f, b
  <2>5. ASSUME NEW k \in DOMAIN callers
        PROVE  Values(mem', prog[callers[k].fn], callers[k].base)
                 = Values(mem, prog[callers[k].fn], callers[k].base)
    <3>. DEFINE f == prog[callers[k].fn]
                b == callers[k].base
    <3>1. Apart(f, b, a, n)
      BY <1>0, <1>2, <1>5, CallerObjectKeepsCallers
    <3>2. f.params \in Seq(Types) /\ f.insts \in Seq(Range(f.insts)) /\ b \in Int
      BY CallerRegions
    <3>. HIDE DEF f, b
    <3>3. Values(mem', f, b) = Values(mem, f, b)
      BY <1>2, <3>1, <3>2, ApartKeeps
    <3>. QED
      BY <3>3 DEF f, b
  <2>. QED
    BY <1>4, <2>4, <2>5 DEF CallersKeep
<1>6. CASE Within(o, Func, esp, base)
  <2>. DEFINE vars_size == VarsSize(Func.insts, Len(Func.insts))
  <2>1. o.addr + o.size <= base - vars_size
    BY <1>6 DEF Within
  <2>2. vars_size \in Nat
    BY <1>0, FrameOK
  <2>3. a + 4 * n <= base - vars_size /\ a + 4 * n <= base + 8
    <3>. HIDE DEF vars_size
    <3>1. 4 * n \in Nat
      BY <1>2
    <3>. QED
      BY <1>2, <1>3, <2>1, <2>2, <3>1
  <2>4. Values(mem', Func, base) = Values(mem, Func, base)
    BY <1>0, <1>2, <2>3, AreaKeepsValues
  <2>5. CallersKeep(mem)
    BY DEF CallersKeep
  <2>6. CallersKeep(mem')
    BY <1>2, <2>3, <2>5, BelowKeepsCallers
  <2>. QED
    BY <1>4, <2>4, <2>6
<1>. QED
  BY <1>0, <1>5, <1>6 DEF Objects
--------------------------------------------------------------------------------
(* What is spilled is the instruction's value, and nothing else changes.    *)
LEMMA SpillValue ==
  ASSUME IInv, at \in {"inst", "result"}, NEW m, NEW lo, NEW hi
  PROVE  LET w == Write(m, Slot(Inst(pc)), WordsOf(Current.type, lo, hi))
         IN /\ Values(w, Func, base)
                 = [Values(m, Func, base) EXCEPT ![Inst(pc)] = ValueOf(Current.type, lo, hi)]
            /\ CallersKeep(m) => CallersKeep(w)
<1>. DEFINE s == Slot(Inst(pc))
            words == WordsOf(Current.type, lo, hi)
            w == Write(m, s, words)
            place(v) == base + FrameSlots(Func)[v]
            WordAt(l, v, p) == Read(l, place(v) + 4 * (p - 1))
<1>1. TypeOK /\ Frames
  BY DEF IInv
<1>2. PICK n \in 1 .. 2 : /\ Len(words) = n /\ DOMAIN words = 1 .. n
                          /\ 4 * n = ArgStackSize(Current.type) /\ s + 4 * n <= base
  BY <1>1, ResultSlot
<1>3. /\ Inst(pc) \in SlottedValues(Func) /\ ValueType(Func, Inst(pc)) = Current.type
      /\ Func.params \in Seq(Types) /\ Func.insts \in Seq(Range(Func.insts))
  BY <1>1, InstOK
<1>4. s \in Int /\ base \in Int /\ s = place(Inst(pc)) /\ n \in Nat
  BY <1>1, <1>2, ResultSlot, FrameOK DEF Slot
<1>5. ASSUME NEW v \in SlottedValues(Func), v # Inst(pc), NEW p \in WordsIn(ValueType(Func, v))
      PROVE  WordAt(w, v, p) = WordAt(m, v, p)
  <2>1. Disjoint(FrameSlots(Func)[v], ArgStackSize(ValueType(Func, v)),
                 FrameSlots(Func)[Inst(pc)], ArgStackSize(ValueType(Func, Inst(pc))))
    BY <1>3, <1>5, SlotsDoNotOverlap
  <2>2. FrameSlots(Func)[v] \in Int /\ FrameSlots(Func)[Inst(pc)] \in Int
    BY <1>3, SlotRegions
  <2>. DEFINE x == place(v) + 4 * (p - 1)
              d == 4 * (p - 1)
              size == ArgStackSize(ValueType(Func, v))
  <2>3. d \in 0 .. 4 /\ d + 4 <= size /\ size \in Nat
    BY DEF WordsIn, ArgStackSize
  <2>. DEFINE sv == FrameSlots(Func)[v]
              si == FrameSlots(Func)[Inst(pc)]
  <2>4. x = base + sv + d /\ s = base + si /\ Disjoint(sv, size, si, 4 * n)
    BY <1>2, <1>3, <1>4, <2>1
  <2>5. x \in Int /\ Disjoint(x, 4, s, 4 * n)
    <3>. HIDE DEF x, d, size, sv, si, s
    <3>1. 4 * n \in Nat
      BY <1>4
    <3>. QED
      BY <1>4, <2>2, <2>3, <2>4, <3>1 DEF Disjoint, sv, si
  <2>. HIDE DEF x, s, words
  <2>6. Read(w, x) = Read(m, x)
    BY <1>2, <1>4, <2>5, ReadAside
  <2>. QED
    BY <2>6 DEF x
<1>6. /\ WordAt(w, Inst(pc), 1) = lo
      /\ Current.type = "i64" => WordAt(w, Inst(pc), 2) = hi
  <2>1. words[1] = lo /\ (Current.type = "i64" => n = 2 /\ words[2] = hi)
    BY <1>2 DEF WordsOf, ArgStackSize
  <2>2. place(Inst(pc)) + 4 * (1 - 1) = s /\ place(Inst(pc)) + 4 * (2 - 1) = s + 4
    <3>. HIDE DEF s, place
    <3>. QED
      BY <1>4
  <2>. HIDE DEF s, words, place
  <2>3. Read(w, s) = words[1]
    BY <1>2, <1>4, ReadBack
  <2>4. ASSUME n = 2 PROVE Read(w, s + 4) = words[2]
    <3>1. s + 4 = s + 4 * (2 - 1) /\ ((s + 4) - s) \div 4 + 1 = 2 /\ 2 \in DOMAIN words
      BY <1>2, <1>4, <2>4
    <3>2. s + 4 \in { s + 4 * (k - 1) : k \in DOMAIN words }
      BY <3>1
    <3>. QED
      BY <3>1, <3>2 DEF Read, Write
  <2>. QED
    BY <2>1, <2>2, <2>3, <2>4
<1>7. CallersKeep(m) => CallersKeep(w)
  <2>1. s + 4 * n <= base + 8
    BY <1>2, <1>4
  <2>. HIDE DEF s, words
  <2>. QED
    BY <1>2, <1>4, <2>1, BelowKeepsCallers
<1>. HIDE DEF w
<1>8. ASSUME NEW v \in SlottedValues(Func)
      PROVE  ValueOf(ValueType(Func, v), WordAt(w, v, 1), WordAt(w, v, 2))
               = IF v = Inst(pc) THEN ValueOf(Current.type, lo, hi)
                 ELSE ValueOf(ValueType(Func, v), WordAt(m, v, 1), WordAt(m, v, 2))
  <2>. HIDE DEF WordAt
  <2>1. CASE v = Inst(pc)
    BY <1>3, <1>6, <2>1 DEF ValueOf, WordsOf
  <2>2. CASE v # Inst(pc)
    <3>1. /\ WordAt(w, v, 1) = WordAt(m, v, 1)
          /\ ValueType(Func, v) = "i64" => WordAt(w, v, 2) = WordAt(m, v, 2)
      BY <1>5, <2>2 DEF WordsIn
    <3>. QED
      BY <2>2, <3>1 DEF ValueOf, WordsOf
  <2>. QED
    BY <2>1, <2>2
<1>9. Values(w, Func, base)
        = [Values(m, Func, base) EXCEPT ![Inst(pc)] = ValueOf(Current.type, lo, hi)]
  BY <1>3, <1>8 DEF Values
<1>. QED
  BY <1>7, <1>9 DEF w

(* An operand's words are those of the value that it names.                 *)
LEMMA OperandValue ==
  ASSUME IInv, at = "inst", NEW o, NEW ty \in ArgTypes, IsOperand(Func, o, ty)
  PROVE  ValueOf(ty, Part(o, 1), Part(o, 2))
           = IF o.kind = "value" THEN Values(mem, Func, base)[o.value]
             ELSE ValueOf(ty, o.words[1], o.words[2])
<1>1. ebp = base
  BY FrameOK DEF IInv
<1>2. CASE o.kind = "value"
  <2>1. o.value \in SlottedValues(Func) /\ ValueType(Func, o.value) = ty
    BY <1>2 DEF IsOperand
  <2>2. \A p : Part(o, p) = Read(mem, base + FrameSlots(Func)[o.value] + 4 * (p - 1))
    BY <1>1, <1>2 DEF Part, Slot
  <2>. QED
    BY <1>2, <2>1, <2>2 DEF Values
<1>3. CASE o.kind # "value"
  BY <1>3 DEF Part
<1>. QED
  BY <1>2, <1>3

LEMMA OperandKept ==
  ASSUME IInv, at = "inst", NEW o, NEW ty, IsOperand(Func, o, ty), NEW p \in WordsIn(ty),
         NEW a \in Int, NEW n \in Nat, NEW words, Len(words) = n, DOMAIN words = 1 .. n,
         a + 4 * n <= base - VarsSize(Func.insts, Len(Func.insts)),
         o.kind = "value"
  PROVE  Read(Write(mem, a, words), Slot(o.value) + 4 * (p - 1)) = Part(o, p)
<1>. DEFINE x == Slot(o.value) + 4 * (p - 1)
            vars_size == VarsSize(Func.insts, Len(Func.insts))
<1>1. o.value \in SlottedValues(Func) /\ ValueType(Func, o.value) = ty
  BY DEF IsOperand
<1>2. /\ base \in Int /\ ebp = base /\ vars_size \in Nat
      /\ Func.params \in Seq(Types) /\ Func.insts \in Seq(Range(Func.insts))
  BY FrameOK, InstOK DEF IInv
<1>3. x \in Int /\ x >= base - vars_size
  <2>. DEFINE y == base + FrameSlots(Func)[o.value] + 4 * (p - 1)
  <2>1. y \in Int /\ (base - vars_size <= y \/ base + 8 <= y)
    BY <1>1, <1>2, SlotWord
  <2>2. x = y
    BY <1>2 DEF Slot
  <2>. HIDE DEF x, y, vars_size
  <2>. QED
    BY <1>2, <2>1, <2>2
<1>4. Part(o, p) = Read(mem, x)
  BY DEF Part
<1>. HIDE DEF x, vars_size
<1>5. Disjoint(x, 4, a, 4 * n)
  <2>1. 4 * n \in Nat /\ a + 4 * n <= base - vars_size
    BY DEF vars_size
  <2>. QED
    BY <1>2, <1>3, <2>1 DEF Disjoint
<1>6. Read(Write(mem, a, words), x) = Read(mem, x)
  BY <1>3, <1>5, ReadAside
<1>. QED
  BY <1>4, <1>6 DEF x
--------------------------------------------------------------------------------
LEMMA NothingPassed == arg' = 1 => ArgumentsPassed'
BY DEF ArgumentsPassed

LEMMA TypedKept == CallsTyped /\ UNCHANGED <<prog, fn, callers>> => CallsTyped'
BY DEF CallsTyped, CalleeOf

(* What a step within an activation does to the values, and that the words  *)
(* below %esp stay unwritten.                                               *)
LEMMA PrologEffect ==
  ASSUME PInv, Prolog
  PROVE  /\ Above(mem', esp') /\ CallersKeep(mem')
         /\ Values(mem', Func, base) = Values(mem, Func, base)
<1>1. /\ TypeOK /\ Frames /\ IInv /\ Above(mem, esp) /\ at = "entry"
  BY DEF PInv, IInv, Prolog
<1>2. base \in Int /\ esp = base + 4 /\ ebp \in Int
  BY <1>1 DEF IInv, Linked, Frames, TypeOK
<1>3. esp - 4 = base /\ mem' = Write(mem, base, <<ebp>>) /\ esp' = base - FrameSize(Func)
  BY <1>2 DEF Prolog, PushFrame
<1>4. FrameSize(Func) \in Nat
  BY <1>1, FunctionOK DEF TypeOK, Func
<1>5. /\ Len(<<ebp>>) = 1 /\ DOMAIN <<ebp>> = 1 .. 1 /\ 1 \in Nat
  OBVIOUS
<1>6. Above(mem', esp')
  <2>1. esp' \in Int /\ esp' <= esp /\ base >= esp' /\ esp \in Int
    BY <1>2, <1>3, <1>4
  <2>2. Above(mem, esp')
    BY <1>1, <2>1, StateOK, AboveBelow
  <2>. QED
    BY <1>2, <1>3, <1>5, <2>1, <2>2, WriteAbove
<1>7. CallersKeep(mem')
  <2>1. CallersKeep(mem) /\ base + 4 * 1 <= base + 8
    BY <1>2 DEF CallersKeep
  <2>. QED
    BY <1>1, <1>2, <1>3, <1>5, <2>1, BelowKeepsCallers
<1>8. Values(mem', Func, base) = Values(mem, Func, base)
  <2>1. Func.params \in Seq(Types) /\ Func.insts \in Seq(Range(Func.insts))
    BY <1>1, InstOK
  <2>2. ASSUME NEW v \in SlottedValues(Func), NEW p \in WordsIn(ValueType(Func, v))
        PROVE  LET x == base + FrameSlots(Func)[v] + 4 * (p - 1)
               IN Read(mem', x) = Read(mem, x)
    <3>. DEFINE x == base + FrameSlots(Func)[v] + 4 * (p - 1)
    <3>1. x \in Int /\ (x + 4 <= base \/ base + 8 <= x)
      BY <1>2, <2>1, SlotWord
    <3>. HIDE DEF x
    <3>2. Disjoint(x, 4, base, 4)
      BY <1>2, <3>1 DEF Disjoint
    <3>3. Read(mem', x) = Read(mem, x)
      BY <1>2, <1>3, <3>1, <3>2, OneWord
    <3>. QED
      BY <3>3 DEF x
  <2>. QED
    BY <2>2, SameValues
<1>. QED
  BY <1>6, <1>7, <1>8

LEMMA SpillEffect ==
  ASSUME PInv, at \in {"inst", "result"}, UNCHANGED base,
         NEW m, MemOK(m), NEW sp \in Int, sp <= esp, Above(m, esp), CallersKeep(m),
         Values(m, Func, base) = Values(mem, Func, base), NEW lo, NEW hi
  PROVE  LET w == Write(m, Slot(Inst(pc)), WordsOf(Current.type, lo, hi))
         IN /\ (MemOK(w) => Above(w, sp)) /\ CallersKeep(w)
            /\ Values(w, Func, base)
                 = [Values(mem, Func, base) EXCEPT ![Inst(pc)] = ValueOf(Current.type, lo, hi)]
<1>. DEFINE w == Write(m, Slot(Inst(pc)), WordsOf(Current.type, lo, hi))
<1>1. IInv /\ TypeOK /\ Frames /\ esp \in Int
  BY FrameOK DEF PInv, IInv
<1>2. Above(w, esp)
  BY <1>1, SpillAbove
<1>3. /\ Values(w, Func, base)
           = [Values(m, Func, base) EXCEPT ![Inst(pc)] = ValueOf(Current.type, lo, hi)]
      /\ CallersKeep(w)
  BY <1>1, SpillValue
<1>. HIDE DEF w
<1>4. MemOK(w) => Above(w, sp)
  BY <1>1, <1>2, AboveBelow
<1>. QED
  BY <1>3, <1>4 DEF w

LEMMA Unwritten ==
  ASSUME PInv
  PROVE  /\ IInv /\ TypeOK /\ Frames /\ MemOK(mem) /\ Above(mem, esp) /\ CallersKeep(mem)
         /\ esp \in Int /\ esp <= esp
<1>1. IInv /\ TypeOK /\ Frames /\ Above(mem, esp) /\ CallersKeep(mem)
  BY DEF PInv, IInv, CallersKeep
<1>2. esp \in Int
  BY <1>1 DEF TypeOK
<1>. QED
  BY <1>1, <1>2, StateOK

(* A step that spills ends with the value of its instruction changed.       *)
Computes(val) ==
  /\ CallersKeep(mem')
  /\ Values(mem', Func, base) = [Values(mem, Func, base) EXCEPT ![Inst(pc)] = val]

LEMMA OperateEffect ==
  ASSUME PInv, Operate
  PROVE  /\ MemOK(mem') => Above(mem', esp')
         /\ Computes(ValueOf(Current.type, eax', edx'))
<1>1. at = "inst" /\ UNCHANGED <<esp, base>>
  BY DEF Operate, At, history
<1>2. mem' = Write(mem, Slot(Inst(pc)), WordsOf(Current.type, eax', edx'))
  BY DEF Operate, Spill
<1>. QED
  BY <1>1, <1>2, Unwritten, SpillEffect DEF Computes

LEMMA SpillResultEffect ==
  ASSUME PInv, SpillResult
  PROVE  /\ MemOK(mem') => Above(mem', esp')
         /\ Computes(ValueOf(Current.type, eax, edx))
<1>1. at = "result" /\ UNCHANGED <<esp, base>>
  BY DEF SpillResult, history
<1>2. mem' = Write(mem, Slot(Inst(pc)), WordsOf(Current.type, eax, edx))
  BY DEF SpillResult, Spill
<1>. QED
  BY <1>1, <1>2, Unwritten, SpillEffect DEF Computes

LEMMA AllocaEffect ==
  ASSUME PInv, Alloca
  PROVE  /\ MemOK(mem') => Above(mem', esp')
         /\ Computes(ValueOf(Current.type, eax', edx))
<1>1. /\ at = "inst" /\ UNCHANGED base /\ esp' = esp - Current.size
      /\ Current.type = "i32" /\ Current.size \in Nat
  BY Unwritten, InstOK DEF Alloca, At, WellFormedInst
<1>2. mem' = Write(mem, Slot(Inst(pc)), WordsOf(Current.type, eax', edx))
  BY <1>1 DEF Alloca, Spill
<1>3. esp' \in Int /\ esp' <= esp
  BY <1>1, Unwritten
<1>. QED
  BY <1>1, <1>2, <1>3, Unwritten, SpillEffect DEF Computes

LEMMA CallHelperEffect ==
  ASSUME PInv, CallHelper
  PROVE  /\ MemOK(mem') => Above(mem', esp')
         /\ Computes(ValueOf(Current.type, eax', edx'))
<1>. DEFINE words == <<Slot(Inst(pc)), Address(Current.ops[1]), Address(Current.ops[2])>>
            m == Write(mem, esp, words)
            vars_size == VarsSize(Func.insts, Len(Func.insts))
<1>1. at = "inst" /\ UNCHANGED <<esp, base>> /\ Current.kind = "i64op"
  BY DEF CallHelper, At, history
<1>2. /\ esp \in Int /\ base \in Int /\ vars_size \in Nat
      /\ esp + 4 * 3 <= base - vars_size /\ esp + 4 * 3 <= base + 8 /\ esp >= esp
  <2>. HIDE DEF vars_size
  <2>1. /\ esp \in Int /\ base \in Int /\ vars_size \in Nat
        /\ Func.frame_callees_args_size \in Nat /\ Func.frame_callees_args_size >= 12
        /\ esp + Func.frame_callees_args_size + vars_size <= base
    BY <1>1, Unwritten, FrameOK DEF vars_size
  <2>. QED
    BY <2>1
<1>3. /\ Len(words) = 3 /\ DOMAIN words = 1 .. 3 /\ words[1] = Slot(Inst(pc)) /\ 3 \in Nat
  OBVIOUS
<1>4. Current.type = "i64" /\ \A k \in 1 .. 3 : words[k] \in Word
  <2>1. /\ IsOperand(Func, Current.ops[1], "i64") /\ IsOperand(Func, Current.ops[2], "i64")
        /\ Current.type = "i64"
    BY <1>1, Unwritten, InstOK DEF WellFormedInst
  <2>2. Slot(Inst(pc)) \in Int
    BY Unwritten, InstOK, SlotOK
  <2>3. Address(Current.ops[1]) \in Word /\ Address(Current.ops[2]) \in Word
    BY <2>1, Unwritten, OperandOK
  <2>4. \A k \in 1 .. 3 : k = 1 \/ k = 2 \/ k = 3
    OBVIOUS
  <2>. QED
    BY <2>1, <2>2, <2>3, <2>4 DEF Word
<1>. HIDE DEF words
<1>5. Above(m, esp) /\ MemOK(m) /\ Read(m, esp) = Slot(Inst(pc))
  <2>1. Above(m, esp)
    BY <1>2, <1>3, Unwritten, WriteAbove
  <2>2. MemOK(m)
    BY <1>2, <1>3, <1>4, Unwritten, WriteOK
  <2>3. Read(m, esp) = words[1]
    <3>1. 3 # 0
      OBVIOUS
    <3>. QED
      BY <1>2, <1>3, <3>1, ReadBack
  <2>. QED
    BY <1>3, <2>1, <2>2, <2>3
<1>6. CallersKeep(m)
  BY <1>2, <1>3, Unwritten, BelowKeepsCallers
<1>7. Values(m, Func, base) = Values(mem, Func, base)
  BY <1>1, <1>2, <1>3, Unwritten, AreaKeepsValues
<1>8. mem' = Write(m, Slot(Inst(pc)), WordsOf(Current.type, eax', edx'))
  BY <1>4, <1>5 DEF CallHelper, words
<1>. HIDE DEF m
<1>. QED
  BY <1>1, <1>5, <1>6, <1>7, <1>8, Unwritten, SpillEffect DEF Computes

LEMMA ReadWords ==
  ASSUME NEW m, NEW a \in Int, NEW words, NEW n \in Nat, DOMAIN words = 1 .. n, NEW p \in 1 .. n
  PROVE  Read(Write(m, a, words), a + 4 * (p - 1)) = words[p]
<1>. DEFINE x == a + 4 * (p - 1)
<1>1. (x - a) \div 4 + 1 = p
  OBVIOUS
<1>2. x \in { a + 4 * (k - 1) : k \in DOMAIN words }
  OBVIOUS
<1>. QED
  BY <1>1, <1>2 DEF Read, Write

LEMMA PartKept ==
  ASSUME IInv, at = "inst", NEW o, NEW ty, IsOperand(Func, o, ty), NEW p \in WordsIn(ty),
         UNCHANGED <<ebp, fn, prog>>,
         NEW a \in Int, NEW n \in Nat, NEW words, Len(words) = n, DOMAIN words = 1 .. n,
         a + 4 * n <= base - VarsSize(Func.insts, Len(Func.insts)), mem' = Write(mem, a, words)
  PROVE  Part(o, p)' = Part(o, p)
<1>1. Slot(o.value)' = Slot(o.value)
  BY DEF Slot, Func
<1>2. CASE o.kind = "value"
  <2>1. Read(mem', Slot(o.value) + 4 * (p - 1)) = Part(o, p)
    BY <1>2, OperandKept
  <2>. QED
    BY <1>1, <1>2, <2>1 DEF Part
<1>3. CASE o.kind # "value"
  BY <1>3 DEF Part
<1>. QED
  BY <1>2, <1>3

LEMMA StoreArgumentEffect ==
  ASSUME PInv, StoreArgument
  PROVE  /\ Above(mem', esp') /\ CallersKeep(mem')
         /\ Values(mem', Func, base) = Values(mem, Func, base)
         /\ ArgumentsPassed'
<1>. DEFINE ty == Current.args[arg]
            o == Current.ops[arg]
            words == WordsOf(ty, Part(o, 1), Part(o, 2))
            a == OutgoingArg
            vars_size == VarsSize(Func.insts, Len(Func.insts))
            area == Func.frame_callees_args_size
<1>1. /\ IInv /\ TypeOK /\ Frames /\ Above(mem, esp) /\ CallersKeep(mem) /\ at = "inst"
      /\ At("call") /\ arg \in DOMAIN Current.args /\ mem' = Write(mem, a, words)
      /\ UNCHANGED <<prog, at, fn, pc, esp, ebp>> /\ arg' = arg + 1 /\ ArgumentsPassed
  BY Unwritten DEF StoreArgument, At, PInv
<1>2. PICK n \in 1 .. 2 : /\ Len(words) = n /\ DOMAIN words = 1 .. n /\ 4 * n = ArgStackSize(ty)
                          /\ \A p \in WordsIn(ty) : p \in 1 .. n /\ words[p] = Part(o, p)
  BY DEF WordsOf, ArgStackSize, WordsIn
<1>3. /\ ArgOffset(Current.args, arg) \in Nat
      /\ ArgOffset(Current.args, arg) + 4 * n <= area
      /\ IsOperand(Func, o, ty)
  BY <1>1, <1>2, OutgoingArgOK
<1>4. /\ esp \in Int /\ base \in Int /\ area \in Nat /\ vars_size \in Nat
      /\ esp + area + vars_size <= base /\ ebp = base
  BY <1>1, FrameOK
<1>5. /\ a = esp + ArgOffset(Current.args, arg) /\ a \in Int /\ a >= esp
      /\ a + 4 * n <= base - vars_size /\ a + 4 * n <= base + 8 /\ n \in Nat
  <2>1. a = esp + ArgOffset(Current.args, arg) /\ n \in Nat
    BY <1>2 DEF OutgoingArg
  <2>. HIDE DEF a, area, vars_size
  <2>. QED
    BY <1>3, <1>4, <2>1
<1>. HIDE DEF words, a
<1>6. Above(mem', esp') /\ CallersKeep(mem')
  BY <1>1, <1>2, <1>4, <1>5, WriteAbove, BelowKeepsCallers
<1>7. Values(mem', Func, base) = Values(mem, Func, base)
  BY <1>1, <1>2, <1>5, AreaKeepsValues
<1>8. ArgumentsPassed'
  <2>1. Current' = Current /\ Func' = Func
    BY <1>1 DEF Current, Func
  <2>2. arg \in 1 .. Len(Current.args) /\ Len(Current.args) \in Nat /\ Current.args \in Seq(Types)
    BY <1>1, InstOK
  <2>3. ASSUME NEW k \in 1 .. arg, NEW p \in WordsIn(Current.args[k])
        PROVE  Read(mem', esp + ArgOffset(Current.args, k) + 4 * (p - 1)) = Part(Current.ops[k], p)'
    <3>1. k \in DOMAIN Current.args
      BY <1>1, <2>2, InstOK
    <3>2. /\ IsOperand(Func, Current.ops[k], Current.args[k])
          /\ ArgOffset(Current.args, k) \in Nat
      BY <1>1, <3>1, OutgoingArgOK
    <3>3. Part(Current.ops[k], p)' = Part(Current.ops[k], p)
      <4>1. PICK q, t : q = Current.ops[k] /\ t = Current.args[k]
        OBVIOUS
      <4>2. IsOperand(Func, q, t) /\ p \in WordsIn(t)
        BY <3>2, <4>1
      <4>3. Part(q, p)' = Part(q, p)
        BY <1>1, <1>2, <1>5, <4>2, PartKept
      <4>4. Part(Current.ops[k], p)' = Part(q, p)'
        BY <2>1, <4>1 DEF Part, Slot
      <4>. QED
        BY <4>1, <4>3, <4>4
    <3>4. CASE k = arg
      <4>1. Read(mem', a + 4 * (p - 1)) = words[p] /\ words[p] = Part(o, p)
        BY <1>1, <1>2, <1>5, <3>4, ReadWords
      <4>. QED
        BY <1>5, <3>3, <3>4, <4>1
    <3>5. CASE k # arg
      <4>. DEFINE s == ArgOffset(Current.args, k)
                  d == 4 * (p - 1)
                  x == esp + s + d
                  size == ArgStackSize(Current.args[k])
      <4>1. k \in 1 .. (arg - 1)
        BY <2>2, <3>5
      <4>2. Read(mem, x) = Part(Current.ops[k], p)
        BY <1>1, <4>1 DEF ArgumentsPassed
      <4>3. d \in 0 .. 4 /\ d + 4 <= size /\ size \in Nat
        BY DEF WordsIn, ArgStackSize
      <4>4. s + size <= ArgOffset(Current.args, arg)
        <5>1. k \in 1 .. (Len(Current.args) + 1) /\ arg \in 1 .. (Len(Current.args) + 1) /\ k < arg
          BY <2>2, <4>1
        <5>. QED
          BY <2>2, <5>1, ArgOffsetMonotone
      <4>5. s \in Nat
        BY <3>2
      <4>. HIDE DEF s, d, size
      <4>6. x \in Int /\ x + 4 <= a
        <5>. DEFINE m == ArgOffset(Current.args, arg)
        <5>1. a = esp + m /\ m \in Nat /\ esp \in Int /\ s + size <= m
          BY <1>3, <1>4, <1>5, <4>4
        <5>. HIDE DEF m
        <5>2. d \in Nat /\ d + 4 <= size /\ size \in Nat
          BY <4>3
        <5>. QED
          BY <4>5, <5>1, <5>2
      <4>. HIDE DEF x
      <4>7. Disjoint(x, 4, a, 4 * n)
        BY <4>6 DEF Disjoint
      <4>8. Read(mem', x) = Read(mem, x)
        BY <1>1, <1>2, <1>5, <4>6, <4>7, ReadAside
      <4>. QED
        BY <3>3, <4>2, <4>8 DEF x, s, d
    <3>. QED
      BY <3>4, <3>5
  <2>4. 1 .. (arg' - 1) = 1 .. arg
    BY <1>1, <2>2
  <2>. QED
    BY <1>1, <2>1, <2>3, <2>4 DEF ArgumentsPassed
<1>. QED
  BY <1>6, <1>7, <1>8
--------------------------------------------------------------------------------
(* The function that is called is the only one at the address.              *)
LEMMA CalledFunction ==
  ASSUME PInv, CallsReachFunctions, Call
  PROVE  /\ fn' \in DOMAIN prog /\ CodeAddress[<<fn', 0>>] = Part(Current.callee, 1)
         /\ prog[fn'].params = Current.args /\ prog[fn'].result = Current.type
         /\ \A f \in DOMAIN prog : CodeAddress[<<f, 0>>] = Part(Current.callee, 1) => f = fn'
<1>1. /\ fn' \in DOMAIN prog /\ CodeAddress[<<fn', 0>>] = Part(Current.callee, 1)
      /\ At("call") /\ arg \notin DOMAIN Current.args
  BY DEF Call
<1>2. prog \in Programs
  BY DEF PInv, IInv, TypeOK
<1>3. ASSUME NEW f \in DOMAIN prog PROVE <<f, 0>> \in DOMAIN CodeAddress
  <2>1. 0 \in 0 .. Len(prog[f].insts)
    <3>1. 1 \in 1 .. Len(prog[f].insts)
      BY <1>2, FunctionOK
    <3>. QED
      BY <3>1
  <2>. QED
    BY <1>2, <2>1, CodeAddressAssumption
<1>4. ASSUME NEW f \in DOMAIN prog, CodeAddress[<<f, 0>>] = Part(Current.callee, 1)
      PROVE  f = fn'
  <2>1. <<f, 0>> = <<fn', 0>>
    BY <1>1, <1>3, <1>4, CodeAddressAssumption
  <2>. QED
    BY <2>1
<1>5. PICK f \in DOMAIN prog : /\ CodeAddress[<<f, 0>>] = Part(Current.callee, 1)
                               /\ prog[f].params = Current.args /\ prog[f].result = Current.type
  BY <1>1 DEF CallsReachFunctions
<1>. QED
  BY <1>1, <1>4, <1>5

(* The slots of the called function: its parameters are what was passed,    *)
(* and the rest is not written yet.                                         *)
LEMMA EnteredValue ==
  ASSUME PInv, CallsReachFunctions, Call, NEW v \in SlottedValues(prog[fn'])
  PROVE  Values(mem', prog[fn'], base')[v] =
           IF v[1] = "param"
           THEN ValueOf(Current.args[v[2]], Part(Current.ops[v[2]], 1), Part(Current.ops[v[2]], 2))
           ELSE ValueOf(ValueType(prog[fn'], v), Unknown, Unknown)
<1>. DEFINE f == prog[fn']
            word == CodeAddress[<<fn, pc>>]
            SlotWords(p) == Read(mem', base' + FrameSlots(f)[v] + 4 * (p - 1))
<1>1. /\ at = "inst" /\ TypeOK /\ Frames /\ IInv /\ Above(mem, esp) /\ ArgumentsPassed
      /\ At("call") /\ arg \notin DOMAIN Current.args
      /\ mem' = Write(mem, esp - 4, <<word>>) /\ base' = esp - 8
  BY DEF PInv, IInv, Call, At
<1>2. /\ f.params = Current.args /\ fn' \in DOMAIN prog /\ esp \in Int /\ prog \in Programs
      /\ f.params \in Seq(Types) /\ f.insts \in Seq(Range(f.insts))
  BY <1>1, CalledFunction, FunctionOK DEF TypeOK
<1>. HIDE DEF word, f
<1>3. Values(mem', f, base')[v] = ValueOf(ValueType(f, v), SlotWords(1), SlotWords(2))
  BY DEF Values, f
<1>4. CASE v[1] = "param"
  <2>1. PICK k \in DOMAIN f.params : v = Param(k)
    BY <1>4 DEF SlottedValues, Param, Inst, f
  <2>2. v[2] = k /\ ValueType(f, v) = Current.args[k]
        /\ FrameSlots(f)[v] = 8 + ArgOffset(Current.args, k)
    BY <1>2, <2>1 DEF ValueType, Param, FrameSlots, ParamSlot, FirstParameter, f
  <2>3. ASSUME NEW p \in WordsIn(Current.args[k]) PROVE SlotWords(p) = Part(Current.ops[k], p)
    <3>. DEFINE s == ArgOffset(Current.args, k)
                d == 4 * (p - 1)
                x == esp + s + d
    <3>1. k \in DOMAIN Current.args /\ k \in 1 .. (arg - 1)
      <4>1. /\ arg \in 1 .. (Len(Current.args) + 1) /\ Len(Current.args) \in Nat
            /\ DOMAIN Current.args = 1 .. Len(Current.args) /\ k \in DOMAIN Current.args
        BY <1>1, <1>2, InstOK DEF TypeOK
      <4>. QED
        BY <1>1, <4>1
    <3>2. Read(mem, x) = Part(Current.ops[k], p)
      BY <1>1, <3>1 DEF ArgumentsPassed
    <3>3. s \in Nat /\ d \in 0 .. 4
      BY <1>1, <3>1, OutgoingArgOK DEF WordsIn
    <3>. HIDE DEF s, d
    <3>4. x \in Int /\ Disjoint(x, 4, esp - 4, 4) /\ esp - 4 \in Int
      BY <1>2, <3>3 DEF Disjoint
    <3>5. base' + FrameSlots(f)[v] + d = x
      <4>1. FrameSlots(f)[v] = 8 + s
        BY <2>2 DEF s
      <4>. QED
        BY <1>1, <1>2, <3>3, <4>1
    <3>. HIDE DEF x
    <3>6. Read(mem', x) = Read(mem, x)
      BY <1>1, <3>4, OneWord
    <3>. QED
      BY <3>2, <3>5, <3>6 DEF d
  <2>. HIDE DEF SlotWords
  <2>4. SlotWords(1) = Part(Current.ops[k], 1)
        /\ (Current.args[k] = "i64" => SlotWords(2) = Part(Current.ops[k], 2))
    BY <2>3 DEF WordsIn
  <2>. QED
    BY <1>3, <1>4, <2>2, <2>4 DEF ValueOf, WordsOf, f
<1>5. CASE v[1] # "param"
  <2>1. ASSUME NEW p \in WordsIn(ValueType(f, v)) PROVE SlotWords(p) = Unknown
    <3>. DEFINE o == FrameSlots(f)[v]
                d == 4 * (p - 1)
                size == ArgStackSize(ValueType(f, v))
                x == base' + o + d
    <3>1. o \in Int /\ o + size <= 0
      <4>1. v \in SlottedValues(f) /\ VarsSize(f.insts, Len(f.insts)) \in Nat
        BY <1>2, FunctionOK DEF f
      <4>. QED
        BY <1>2, <1>5, <4>1, SlotRegions
    <3>2. d \in 0 .. 4 /\ d + 4 <= size /\ size \in Nat
      BY DEF WordsIn, ArgStackSize
    <3>. HIDE DEF o, d, size
    <3>3. x \in Int /\ Disjoint(x, 4, esp - 4, 4) /\ esp - 4 \in Int /\ x < esp
      BY <1>1, <1>2, <3>1, <3>2 DEF Disjoint
    <3>. HIDE DEF x
    <3>4. Read(mem', x) = Read(mem, x)
      BY <1>1, <3>3, OneWord
    <3>5. Read(mem, x) = Unknown
      BY <1>1, <1>2, <3>3, ReadBelow
    <3>. QED
      BY <3>4, <3>5 DEF x, o, d
  <2>. HIDE DEF SlotWords
  <2>2. SlotWords(1) = Unknown /\ (ValueType(f, v) = "i64" => SlotWords(2) = Unknown)
    BY <2>1 DEF WordsIn
  <2>. QED
    BY <1>3, <1>5, <2>2 DEF ValueOf, WordsOf, f
<1>. QED
  BY <1>4, <1>5

LEMMA CallEffect ==
  ASSUME PInv, CallsReachFunctions, Call
  PROVE  /\ Above(mem', esp') /\ CallersKeep(mem')
         /\ Values(mem', Func, base) = Values(mem, Func, base)
         /\ CallsTyped'
<1>. DEFINE word == CodeAddress[<<fn, pc>>]
            words == <<word>>
            a == esp - 4
            vars_size == VarsSize(Func.insts, Len(Func.insts))
            c == [fn |-> fn, pc |-> pc, base |-> base, esp |-> esp]
            N == Len(callers)
<1>1. /\ at = "inst" /\ TypeOK /\ Frames /\ IInv /\ Above(mem, esp) /\ CallersKeep(mem)
      /\ MemOK(mem) /\ esp \in Int /\ mem' = Write(mem, a, words) /\ esp' = a /\ CallsTyped
      /\ callers' = Append(callers, c) /\ prog' = prog
  BY Unwritten DEF PInv, Call, At
<1>2. /\ a \in Int /\ a <= esp /\ a >= a /\ base \in Int
      /\ a + 4 * 1 <= base - vars_size /\ a + 4 * 1 <= base + 8
  <2>1. /\ base \in Int /\ vars_size \in Nat /\ Func.frame_callees_args_size \in Nat
        /\ esp + Func.frame_callees_args_size + vars_size <= base
    BY <1>1, FrameOK
  <2>. HIDE DEF vars_size
  <2>. QED
    BY <1>1, <2>1
<1>3. Len(words) = 1 /\ DOMAIN words = 1 .. 1 /\ 1 \in Nat
  OBVIOUS
<1>. HIDE DEF words, a
<1>4. Above(mem', esp')
  <2>1. Above(mem, a)
    BY <1>1, <1>2, AboveBelow
  <2>. QED
    BY <1>1, <1>2, <1>3, <2>1, WriteAbove
<1>5. CallersKeep(mem')
  BY <1>1, <1>2, <1>3, BelowKeepsCallers
<1>6. Values(mem', Func, base) = Values(mem, Func, base)
  BY <1>1, <1>2, <1>3, AreaKeepsValues
<1>7. CallsTyped'
  <2>1. /\ N \in Nat /\ DOMAIN callers = 1 .. N /\ DOMAIN callers' = 1 .. (N + 1)
        /\ Len(callers') = N + 1 /\ callers'[N + 1] = c
        /\ \A k \in 1 .. N : callers'[k] = callers[k]
    BY <1>1 DEF Frames
  <2>2. c.fn = fn /\ c.pc = pc
    OBVIOUS
  <2>3. /\ prog[fn'].params = Current.args /\ prog[fn'].result = Current.type
        /\ Current = prog[fn].insts[pc]
    BY CalledFunction DEF Current, Func
  <2>. HIDE DEF c, N
  <2>4. ASSUME NEW k \in 1 .. (N + 1)
        PROVE  LET i == prog[callers'[k].fn].insts[callers'[k].pc]
                   f == prog[CalleeOf(k)']
               IN f.params = i.args /\ f.result = i.type
    <3>1. CASE k = N + 1
      <4>1. CalleeOf(k)' = fn'
        BY <2>1, <3>1 DEF CalleeOf
      <4>. QED
        BY <2>1, <2>2, <2>3, <3>1, <4>1
    <3>2. CASE k # N + 1
      <4>1. k \in DOMAIN callers /\ callers'[k] = callers[k] /\ k + 1 \in 1 .. (N + 1)
        BY <2>1, <3>2
      <4>2. CalleeOf(k)' = callers'[k + 1].fn
        BY <2>1, <3>2 DEF CalleeOf
      <4>3. CalleeOf(k)' = CalleeOf(k)
        <5>1. CASE k = N
          BY <2>1, <2>2, <4>2, <5>1 DEF CalleeOf, N
        <5>2. CASE k # N
          <6>1. k + 1 \in 1 .. N
            BY <2>1, <4>1, <5>2
          <6>. QED
            BY <2>1, <4>2, <5>2, <6>1 DEF CalleeOf, N
        <5>. QED
          BY <5>1, <5>2
      <4>. QED
        BY <1>1, <4>1, <4>3 DEF CallsTyped
    <3>. QED
      BY <3>1, <3>2
  <2>5. callers' # << >> /\ callers'[1].fn = 1
    <3>1. callers' # << >>
      BY <2>1
    <3>2. CASE callers = << >>
      <4>1. N + 1 = 1
        BY <3>2 DEF N
      <4>. QED
        BY <1>1, <2>1, <2>2, <3>1, <3>2, <4>1 DEF CallsTyped
    <3>3. CASE callers # << >>
      <4>1. 1 \in 1 .. N
        BY <1>1, <2>1, <3>3 DEF N, Frames
      <4>. QED
        BY <1>1, <2>1, <3>1, <3>3, <4>1 DEF CallsTyped
    <3>. QED
      BY <3>2, <3>3
  <2>. QED
    BY <1>1, <2>1, <2>4, <2>5 DEF CallsTyped
<1>. QED
  BY <1>4, <1>5, <1>6, <1>7

(* A return drops what is below the callers' frames, and only that.         *)
LEMMA ReturnEffect ==
  ASSUME PInv, Return
  PROVE  Above(mem', esp') /\ CallersKeep(mem') /\ CallsTyped'
<1>1. /\ IInv /\ TypeOK /\ Frames /\ CallsTyped
      /\ mem' = [x \in {y \in DOMAIN mem : y >= esp'} |-> mem[x]]
  BY DEF PInv, IInv, Return
<1>2. base \in Int /\ \A x \in Int : x >= base + 8 => Read(mem', x) = Read(mem, x)
  BY <1>1, ReturnOK
<1>3. Above(mem', esp')
  BY <1>1 DEF Above
<1>4. CallersKeep(mem')
  <2>. SUFFICES ASSUME NEW k \in DOMAIN callers
                PROVE  Values(mem', prog[callers[k].fn], callers[k].base)
                         = Values(mem, prog[callers[k].fn], callers[k].base)
    BY DEF CallersKeep
  <2>. DEFINE c == callers[k]
              f == prog[c.fn]
              vars_size == VarsSize(f.insts, Len(f.insts))
              b == c.base
  <2>1. /\ b \in Int /\ c.esp \in Int
        /\ f.params \in Seq(Types) /\ f.insts \in Seq(Range(f.insts))
        /\ vars_size \in Nat /\ f.frame_callees_args_size \in Nat
        /\ base + 8 <= c.esp /\ c.esp + f.frame_callees_args_size + vars_size <= b
    BY <1>1, CallerRegions
  <2>2. base + 8 <= b - vars_size
    <3>. HIDE DEF b, c, f, vars_size
    <3>. QED
      BY <1>2, <2>1
  <2>3. ASSUME NEW v \in SlottedValues(f), NEW p \in WordsIn(ValueType(f, v))
        PROVE  LET x == b + FrameSlots(f)[v] + 4 * (p - 1) IN Read(mem', x) = Read(mem, x)
    <3>. DEFINE x == b + FrameSlots(f)[v] + 4 * (p - 1)
    <3>. HIDE DEF b, c, f
    <3>1. x \in Int /\ (b - vars_size <= x \/ b + 8 <= x)
      BY <2>1, SlotWord
    <3>. HIDE DEF x, vars_size
    <3>2. x >= base + 8
      BY <1>2, <2>1, <2>2, <3>1
    <3>. QED
      BY <1>2, <3>1, <3>2 DEF x
  <2>. HIDE DEF b, f
  <2>4. Values(mem', f, b) = Values(mem, f, b)
    BY <2>3, SameValues
  <2>. QED
    BY <2>4 DEF b, f
<1>5. CASE callers = << >>
  <2>1. UNCHANGED <<callers, fn, prog>>
    <3>1. Links(Depth) = [esp |-> StackTop + 4, base |-> HostFrame, return |-> HostReturn]
      BY <1>5 DEF Depth, Links
    <3>2. Returned(HostReturn)
      BY <1>1, <3>1, ReturnOK
    <3>. QED
      BY <1>5, <3>2 DEF Returned, Return
  <2>2. CallsTyped'
    BY <1>1, <2>1, TypedKept
  <2>. QED
    BY <1>3, <1>4, <2>2
<1>6. CASE callers # << >>
  <2>. DEFINE N == Len(callers)
              R == [fn : DOMAIN prog, pc : Int, base : Int, esp : Int]
  <2>0. callers \in Seq(R)
    BY <1>1 DEF Frames
  <2>1. /\ N \in Nat \ {0} /\ DOMAIN callers = 1 .. N
        /\ Last(callers) = callers[N] /\ callers' = SubSeq(callers, 1, N - 1)
    <3>. HIDE DEF R
    <3>. QED
      BY <1>6, <2>0 DEF Return, Front, Last
  <2>2. /\ Len(callers') = N - 1 /\ DOMAIN callers' = 1 .. (N - 1)
        /\ \A k \in 1 .. (N - 1) : callers'[k] = callers[k] /\ k \in DOMAIN callers
    <3>. HIDE DEF R
    <3>. QED
      BY <2>0, <2>1
  <2>3. fn' = callers[N].fn /\ prog' = prog
    BY <1>1, <1>6, <2>1, ReturnKeeps DEF Return
  <2>. HIDE DEF N
  <2>4. ASSUME NEW k \in 1 .. (N - 1) PROVE CalleeOf(k)' = CalleeOf(k)
    <3>0. k # N /\ N \in Nat /\ k \in Nat
      BY <2>1
    <3>1. CalleeOf(k) = callers[k + 1].fn
      BY <3>0 DEF CalleeOf, N
    <3>2. CASE k = N - 1
      <4>1. CalleeOf(k)' = fn' /\ k + 1 = N
        BY <2>2, <3>0, <3>2 DEF CalleeOf
      <4>. QED
        BY <2>3, <3>1, <4>1
    <3>3. CASE k # N - 1
      <4>1. k + 1 \in 1 .. (N - 1)
        BY <3>0, <3>3
      <4>2. CalleeOf(k)' = callers'[k + 1].fn
        BY <2>2, <3>3 DEF CalleeOf
      <4>. QED
        BY <2>2, <3>1, <4>1, <4>2
    <3>. QED
      BY <3>2, <3>3
  <2>5. (IF callers' = << >> THEN fn' ELSE callers'[1].fn) = 1
    <3>1. callers[1].fn = 1
      BY <1>1, <1>6 DEF CallsTyped
    <3>2. CASE callers' = << >>
      <4>1. Len(callers') = 0
        BY <3>2
      <4>2. N = 1
        BY <2>1, <2>2, <4>1
      <4>. QED
        BY <2>3, <3>1, <3>2, <4>2
    <3>3. CASE callers' # << >>
      <4>1. 1 \in 1 .. (N - 1)
        BY <1>1, <2>1, <2>2, <3>3 DEF Frames
      <4>. QED
        BY <2>2, <3>1, <3>3, <4>1
    <3>. QED
      BY <3>2, <3>3
  <2>6. CallsTyped'
    BY <1>1, <2>2, <2>3, <2>4, <2>5 DEF CallsTyped
  <2>. QED
    BY <1>3, <1>4, <2>6
<1>. QED
  BY <1>5, <1>6

LEMMA PInvInit == Init => PInv
<1>. SUFFICES ASSUME Init PROVE PInv
  OBVIOUS
<1>1. IInv
  BY InvInit
<1>2. /\ at = "entry" /\ fn = 1 /\ arg = 1 /\ esp = StackTop /\ callers = << >>
      /\ StackTop \in Int /\ prog \in Programs
  BY WordsAssumption DEF Init
<1>3. Above(mem, esp)
  <2>. DEFINE n == ArgsSize(prog[1].params) \div 4
  <2>1. PICK args \in [1 .. n -> Data] : mem = Write(<< >>, StackTop, <<HostReturn>> \o args)
    BY DEF Init
  <2>2. n \in Nat
    <3>1. ArgsSize(prog[1].params) \in Nat
      BY <1>1, <1>2, InstOK, ArgOffsetStep DEF IInv, Func
    <3>. QED
      BY <3>1
  <2>. HIDE DEF n
  <2>. DEFINE words == <<HostReturn>> \o args
  <2>3. DOMAIN words = 1 .. (n + 1) /\ n + 1 \in Nat
    BY <2>1, <2>2
  <2>. HIDE DEF words
  <2>4. Above(<< >>, StackTop)
    BY DEF Above
  <2>5. StackTop >= StackTop /\ mem = Write(<< >>, StackTop, words)
    BY <1>2, <2>1 DEF words
  <2>. QED
    BY <1>2, <2>3, <2>4, <2>5, WriteAbove
<1>4. CallsTyped /\ ArgumentsPassed
  BY <1>2 DEF CallsTyped, ArgumentsPassed, At
<1>. QED
  BY <1>1, <1>3, <1>4 DEF PInv

LEMMA PInvStep == PInv /\ StoresInObjects /\ CallsReachFunctions /\ [Next]_vars => PInv'
<1>. SUFFICES ASSUME PInv, StoresInObjects, CallsReachFunctions, [Next]_vars PROVE PInv'
  OBVIOUS
<1>1. /\ IInv /\ TypeOK /\ Frames /\ MemOK(mem) /\ Above(mem, esp)
      /\ CallsTyped /\ ArgumentsPassed
  BY Unwritten DEF PInv
<1>2. IInv' /\ MemOK(mem')
  <2>1. IInv'
    BY <1>1, InvStep
  <2>. QED
    BY <2>1 DEF IInv, TypeOK, MemOK, Word
<1>3. arg = 1 \/ At("call")
  BY <1>1 DEF Frames
<1>4. CASE Prolog
  <2>1. arg' = 1 /\ UNCHANGED <<prog, fn, callers>>
    BY <1>3, <1>4 DEF Prolog, At, history
  <2>. QED
    BY <1>1, <1>2, <1>4, <2>1, PrologEffect, TypedKept, NothingPassed DEF PInv
<1>5. CASE Operate \/ CallHelper \/ Alloca \/ SpillResult \/ Store
  <2>1. arg' = 1 /\ UNCHANGED <<prog, fn, callers>>
    BY <1>3, <1>5 DEF Operate, CallHelper, Alloca, SpillResult, Store, NextInst, At, history
  <2>2. Above(mem', esp')
    <3>1. CASE Store
      <4>1. UNCHANGED esp
        BY <3>1 DEF Store
      <4>. QED
        BY <1>1, <3>1, <4>1, StoreKeepsValues
    <3>2. CASE ~ Store
      BY <1>2, <1>5, <3>2, OperateEffect, CallHelperEffect, AllocaEffect, SpillResultEffect
    <3>. QED
      BY <3>1, <3>2
  <2>. QED
    BY <1>1, <1>2, <2>1, <2>2, TypedKept, NothingPassed DEF PInv
<1>6. CASE Branch
  <2>1. arg' = 1 /\ UNCHANGED <<prog, fn, callers, mem, esp>>
    BY <1>6 DEF Branch, history
  <2>. QED
    BY <1>1, <1>2, <2>1, TypedKept, NothingPassed DEF PInv
<1>7. CASE StoreArgument
  <2>1. UNCHANGED <<prog, fn, callers>>
    BY <1>7 DEF StoreArgument, history
  <2>. QED
    BY <1>1, <1>2, <1>7, <2>1, StoreArgumentEffect, TypedKept DEF PInv
<1>8. CASE Call
  <2>1. arg' = 1
    BY <1>8 DEF Call
  <2>. QED
    BY <1>2, <1>8, <2>1, CallEffect, NothingPassed DEF PInv
<1>9. CASE Return
  <2>1. arg' = 1
    BY <1>9 DEF Return
  <2>. QED
    BY <1>2, <1>9, <2>1, ReturnEffect, NothingPassed DEF PInv
<1>10. CASE UNCHANGED vars
  <2>1. UNCHANGED <<prog, at, fn, pc, arg, esp, ebp, mem, callers>>
    BY <1>10 DEF vars, history
  <2>2. Current' = Current /\ Func' = Func
    BY <2>1 DEF Current, Func
  <2>3. ArgumentsPassed'
    BY <1>1, <2>1, <2>2 DEF ArgumentsPassed, At, Part, Slot
  <2>. QED
    BY <1>1, <1>2, <2>1, <2>3, TypedKept DEF PInv
<1>. QED
  BY <1>4, <1>5, <1>6, <1>7, <1>8, <1>9, <1>10 DEF Next
--------------------------------------------------------------------------------
(* The state of the abstract specification.                                 *)
Stack ==
  [k \in DOMAIN Activations |->
     [fn |-> Activations[k].fn, pc |-> Activations[k].pc, env |-> EnvOf(Activations[k])]]

HasReturned == at \in {"result", "done"}
ReturnValue == IF HasReturned THEN ValueOf(ResultType, eax, edx) ELSE << >>

Frame(m, f, k, b) == [fn |-> f, pc |-> k, env |-> Values(m, prog[f], b)]

Waiting ==
  [k \in DOMAIN callers |-> Frame(mem, callers[k].fn, callers[k].pc, callers[k].base)]

Running == Frame(mem, fn, pc, base)

LEMMA FunctionIsSeq ==
  ASSUME NEW n \in Nat, NEW f, f = [k \in 1 .. n |-> f[k]]
  PROVE  f \in Seq(Range(f)) /\ Len(f) = n
<1>1. f \in [1 .. n -> Range(f)]
  BY DEF Range
<1>. HIDE DEF Range
<1>. QED
  BY <1>1

LEMMA LastFront ==
  ASSUME NEW S, NEW s \in Seq(S), NEW x
  PROVE  /\ Last(Append(s, x)) = x /\ Front(Append(s, x)) = s /\ Append(s, x) # << >>
         /\ Append(s, x) = [k \in 1 .. (Len(s) + 1) |-> IF k = Len(s) + 1 THEN x ELSE s[k]]
<1>. DEFINE T == S \cup {x}
            t == Append(s, x)
<1>1. s \in Seq(T) /\ x \in T
  OBVIOUS
<1>2. t \in Seq(T) /\ Len(t) = Len(s) + 1 /\ t[Len(s) + 1] = x
  BY <1>1
<1>3. SubSeq(t, 1, Len(s)) = s
  BY <1>1
<1>4. t = [k \in 1 .. (Len(s) + 1) |-> IF k = Len(s) + 1 THEN x ELSE s[k]]
  <2>1. t \in [1 .. (Len(s) + 1) -> T]
    <3>1. t \in [1 .. Len(t) -> T]
      <4>. HIDE DEF t, T
      <4>. QED
        BY <1>2
    <3>. QED
      BY <1>2, <3>1
  <2>2. \A k \in 1 .. (Len(s) + 1) : t[k] = IF k = Len(s) + 1 THEN x ELSE s[k]
    BY <1>1
  <2>. HIDE DEF t, T
  <2>. QED
    BY <2>1, <2>2
<1>. HIDE DEF t
<1>5. t # << >>
  BY <1>2
<1>. QED
  BY <1>2, <1>3, <1>4, <1>5 DEF Last, Front, t

LEMMA WaitingIsSeq ==
  ASSUME IInv
  PROVE  Waiting \in Seq(Range(Waiting)) /\ Len(Waiting) = Len(callers)
<1>1. callers \in Seq([fn : DOMAIN prog, pc : Int, base : Int, esp : Int])
  BY DEF IInv, Frames
<1>2. Len(callers) \in Nat /\ DOMAIN callers = 1 .. Len(callers)
  BY <1>1
<1>3. Waiting = [k \in 1 .. Len(callers) |-> Waiting[k]]
  BY <1>2 DEF Waiting
<1>. QED
  BY <1>2, <1>3, FunctionIsSeq

LEMMA StackIs == IInv /\ at # "done" => Stack = Append(Waiting, Running)
<1>. SUFFICES ASSUME IInv, at # "done" PROVE Stack = Append(Waiting, Running)
  OBVIOUS
<1>1. callers \in Seq([fn : DOMAIN prog, pc : Int, base : Int, esp : Int])
  BY DEF IInv, Frames
<1>2. /\ Len(callers) \in Nat /\ DOMAIN callers = 1 .. Len(callers)
      /\ DOMAIN Activations = 1 .. Depth /\ Depth = Len(callers) + 1
      /\ \A k \in DOMAIN callers : Activations[k] = callers[k]
      /\ Activations[Depth] = [fn |-> fn, pc |-> pc, base |-> base, esp |-> esp]
  BY <1>1, ActivationsOK DEF Depth
<1>3. ASSUME NEW k \in DOMAIN callers PROVE Stack[k] = Waiting[k]
  <2>1. k \in DOMAIN Activations
    BY <1>2
  <2>. QED
    BY <1>2, <2>1, EnvOfIs DEF Stack, Waiting, Frame
<1>4. Stack[Depth] = Running
  <2>1. Depth \in DOMAIN Activations
    BY <1>2
  <2>. QED
    BY <1>2, <2>1, EnvOfIs DEF Stack, Running, Frame
<1>5. /\ DOMAIN Stack = 1 .. (Len(callers) + 1) /\ DOMAIN Waiting = 1 .. Len(callers)
      /\ Stack = [k \in DOMAIN Stack |-> Stack[k]]
      /\ Waiting = [k \in DOMAIN Waiting |-> Waiting[k]]
  BY <1>2 DEF Stack, Waiting
<1>. HIDE DEF Stack, Waiting, Running, Depth
<1>6. Len(Waiting) = Len(callers) /\ Waiting \in Seq(Range(Waiting))
  BY WaitingIsSeq
<1>7. Append(Waiting, Running)
        = [k \in 1 .. (Len(Waiting) + 1) |-> IF k = Len(Waiting) + 1 THEN Running ELSE Waiting[k]]
  BY <1>6, LastFront
<1>. QED
  BY <1>2, <1>3, <1>4, <1>5, <1>6, <1>7

LEMMA StackTopIs ==
  ASSUME IInv, at # "done"
  PROVE  Last(Stack) = Running /\ Front(Stack) = Waiting /\ Stack # << >>
<1>1. Stack = Append(Waiting, Running)
  BY StackIs
<1>. QED
  BY <1>1, WaitingIsSeq, LastFront

LEMMA AbstractNames ==
  /\ Abstract!Top = Last(Stack)
  /\ \A a : Abstract!Func(a) = prog[a.fn] /\ Abstract!Current(a) = prog[a.fn].insts[a.pc]
  /\ \A k : Abstract!Result(k) = Inst(k)
  /\ \A ty, lo, hi : Abstract!WordsOf(ty, lo, hi) = ValueOf(ty, lo, hi)
<1>1. Abstract!Top = Last(Stack)
  BY DEF Abstract!Top, Stack, Abstract!Last, Last
<1>2. \A a : Abstract!Func(a) = prog[a.fn] /\ Abstract!Current(a) = prog[a.fn].insts[a.pc]
  BY DEF Abstract!Func, Abstract!Current
<1>3. \A k : Abstract!Result(k) = Inst(k)
  BY DEF Abstract!Result, Inst
<1>4. \A ty, lo, hi : Abstract!WordsOf(ty, lo, hi) = ValueOf(ty, lo, hi)
  BY DEF Abstract!WordsOf, ValueOf, WordsOf
<1>. QED
  BY <1>1, <1>2, <1>3, <1>4

LEMMA WaitingKept ==
  ASSUME CallersKeep(mem'), UNCHANGED <<prog, callers>>
  PROVE  Waiting' = Waiting
BY DEF CallersKeep, Waiting, Frame

(* A step within an activation changes its instruction and its values.      *)
LEMMA StepInActivation ==
  ASSUME IInv, IInv', at # "done", at' # "done", CallersKeep(mem'),
         UNCHANGED <<prog, fn, callers, base>>
  PROVE  Stack' = Append(Front(Stack), [fn |-> fn, pc |-> pc', env |-> Values(mem', Func, base)])
<1>1. Stack' = Append(Waiting', Running')
  <2>1. (IInv /\ at # "done" => Stack = Append(Waiting, Running))'
    BY StackIs, PTL
  <2>. QED
    BY <2>1
<1>2. Waiting' = Waiting /\ Front(Stack) = Waiting
  BY WaitingKept, StackTopIs
<1>3. Running' = [fn |-> fn, pc |-> pc', env |-> Values(mem', Func, base)]
  BY DEF Running, Frame, Func
<1>. QED
  BY <1>1, <1>2, <1>3

LEMMA ComputedIs ==
  ASSUME IInv, IInv', at # "done", at' # "done",
         UNCHANGED <<prog, fn, callers, base>>, pc' = pc + 1, NEW val, Computes(val)
  PROVE  Stack' = Append(Front(Stack), Abstract!Computed(Running, val))
<1>1. Stack' = Append(Front(Stack), [fn |-> fn, pc |-> pc', env |-> Values(mem', Func, base)])
  BY StepInActivation DEF Computes
<1>2. Running = [fn |-> fn, pc |-> pc, env |-> Values(mem, Func, base)]
  BY DEF Running, Frame, Func
<1>3. Abstract!Computed(Running, val)
        = [Running EXCEPT !.pc = @ + 1, !.env[Abstract!Result(Running.pc)] = val]
  BY DEF Abstract!Computed
<1>4. Abstract!Result(pc) = Inst(pc)
  BY AbstractNames
<1>5. Abstract!Computed(Running, val)
        = [fn |-> fn, pc |-> pc', env |-> [Values(mem, Func, base) EXCEPT ![Inst(pc)] = val]]
  <2>. HIDE DEF Running
  <2>. QED
    BY <1>2, <1>3, <1>4
<1>6. Values(mem', Func, base) = [Values(mem, Func, base) EXCEPT ![Inst(pc)] = val]
  BY DEF Computes
<1>. QED
  BY <1>1, <1>5, <1>6

LEMMA TopIs ==
  ASSUME IInv, at # "done"
  PROVE  /\ Abstract!Top = Running /\ Abstract!Current(Running) = Current
         /\ Abstract!Func(Running) = Func /\ Stack # << >> /\ Running.fn = fn /\ Running.pc = pc
<1>1. Abstract!Top = Running /\ Stack # << >>
  BY StackTopIs, AbstractNames
<1>2. Running.fn = fn /\ Running.pc = pc
  BY DEF Running, Frame
<1>. QED
  BY <1>1, <1>2, AbstractNames DEF Current, Func

LEMMA RunningIs ==
  ASSUME IInv, at \notin {"result", "done"}, NEW kinds, Current.kind \in kinds
  PROVE  Abstract!Running(kinds)
<1>1. Abstract!Running(kinds) <=>
        Stack # << >> /\ ~ HasReturned /\ Abstract!Current(Abstract!Top).kind \in kinds
  BY DEF Abstract!Running, Stack, HasReturned
<1>. QED
  BY <1>1, TopIs DEF HasReturned

(* What computes a value of its instruction is a Compute step.              *)
LEMMA ComputeStep ==
  ASSUME IInv, IInv', at = "inst", at' = "inst",
         Current.kind \in {"op", "i64op", "alloca", "store"},
         UNCHANGED <<prog, fn, callers, base>>, pc' = pc + 1,
         NEW val \in Abstract!Results(Current), Computes(val)
  PROVE  Abstract!Compute
<1>1. Abstract!Running({"op", "i64op", "alloca", "store"})
  BY RunningIs
<1>2. Stack' = Append(Front(Stack), Abstract!Computed(Running, val))
  BY ComputedIs
<1>3. Abstract!Top = Running /\ Abstract!Current(Running) = Current
  BY TopIs
<1>4. UNCHANGED <<HasReturned, ReturnValue>>
  BY DEF HasReturned, ReturnValue
<1>5. Abstract!Front(Stack) = Front(Stack)
  BY DEF Abstract!Front, Front
<1>6. Stack' \in { Append(Abstract!Front(Stack), Abstract!Computed(Abstract!Top, w)) :
                     w \in Abstract!Results(Abstract!Current(Abstract!Top)) }
  BY <1>2, <1>3, <1>5
<1>. QED
  BY <1>1, <1>4, <1>6 DEF Abstract!Compute, Stack, HasReturned, ReturnValue
--------------------------------------------------------------------------------
LEMMA OperandIs ==
  ASSUME IInv, at = "inst", NEW o, NEW ty \in ArgTypes, IsOperand(Func, o, ty)
  PROVE  Abstract!Value(Running, o, ty) = ValueOf(ty, Part(o, 1), Part(o, 2))
<1>1. ValueOf(ty, Part(o, 1), Part(o, 2))
        = IF o.kind = "value" THEN Values(mem, Func, base)[o.value]
          ELSE ValueOf(ty, o.words[1], o.words[2])
  BY OperandValue
<1>2. Running.env = Values(mem, Func, base)
  BY DEF Running, Frame, Func
<1>. QED
  BY <1>1, <1>2, AbstractNames DEF Abstract!Value

(* The kinds of instructions and what each may compute.                     *)
LEMMA ResultsOK ==
  /\ Current.kind # "alloca" =>
       \A lo, hi \in Data : ValueOf(Current.type, lo, hi) \in Abstract!Results(Current)
  /\ Current.kind = "alloca" => \A x \in Addresses : <<x>> \in Abstract!Results(Current)
<1>1. ASSUME Current.kind # "alloca", NEW lo \in Data, NEW hi \in Data
      PROVE  ValueOf(Current.type, lo, hi) \in Abstract!Results(Current)
  <2>1. Abstract!Results(Current)
          = { Abstract!WordsOf(Current.type, w[1], w[2]) : w \in Data \X Data }
    BY <1>1 DEF Abstract!Results
  <2>2. <<lo, hi>> \in Data \X Data /\ <<lo, hi>>[1] = lo /\ <<lo, hi>>[2] = hi
    OBVIOUS
  <2>3. Abstract!WordsOf(Current.type, lo, hi) \in Abstract!Results(Current)
    BY <2>1, <2>2
  <2>. QED
    BY <2>3, AbstractNames
<1>. QED
  BY <1>1 DEF Abstract!Results

LEMMA OperateIsCompute == PInv /\ IInv' /\ Operate => Abstract!Compute
<1>. SUFFICES ASSUME PInv, IInv', Operate PROVE Abstract!Compute
  OBVIOUS
<1>1. /\ at = "inst" /\ at' = "inst" /\ Current.kind = "op" /\ pc' = pc + 1
      /\ UNCHANGED <<prog, fn, callers, base>> /\ eax' \in Data /\ edx' \in Data
  BY DEF Operate, At, NextInst, history
<1>2. PICK val : val = ValueOf(Current.type, eax', edx')
  OBVIOUS
<1>3. Computes(val)
  BY <1>2, OperateEffect
<1>4. val \in Abstract!Results(Current)
  BY <1>1, <1>2, ResultsOK
<1>. QED
  BY <1>1, <1>3, <1>4, Unwritten, ComputeStep

LEMMA CallHelperIsCompute == PInv /\ IInv' /\ CallHelper => Abstract!Compute
<1>. SUFFICES ASSUME PInv, IInv', CallHelper PROVE Abstract!Compute
  OBVIOUS
<1>1. /\ at = "inst" /\ at' = "inst" /\ Current.kind = "i64op" /\ pc' = pc + 1
      /\ UNCHANGED <<prog, fn, callers, base>> /\ eax' \in Data /\ edx' \in Data
  BY DEF CallHelper, At, NextInst, history
<1>2. PICK val : val = ValueOf(Current.type, eax', edx')
  OBVIOUS
<1>3. Computes(val)
  BY <1>2, CallHelperEffect
<1>4. val \in Abstract!Results(Current)
  BY <1>1, <1>2, ResultsOK
<1>. QED
  BY <1>1, <1>3, <1>4, Unwritten, ComputeStep

LEMMA StoreIsCompute == PInv /\ IInv' /\ StoresInObjects /\ Store => Abstract!Compute
<1>. SUFFICES ASSUME PInv, IInv', StoresInObjects, Store PROVE Abstract!Compute
  OBVIOUS
<1>1. /\ at = "inst" /\ at' = "inst" /\ Current.kind = "store" /\ pc' = pc + 1
      /\ UNCHANGED <<prog, fn, callers, base>>
  BY DEF Store, At, NextInst, history
<1>2. Current.type = "void" /\ Inst(pc) \in SlottedValues(Func)
        /\ ValueType(Func, Inst(pc)) = Current.type
  BY <1>1, Unwritten, InstOK DEF WellFormedInst
<1>3. CallersKeep(mem') /\ Values(mem', Func, base) = Values(mem, Func, base)
  BY StoreKeepsValues DEF PInv
<1>4. Computes(<< >>)
  <2>1. Values(mem, Func, base)[Inst(pc)] = << >>
    BY <1>2 DEF Values, ValueOf
  <2>2. Values(mem, Func, base) = [Values(mem, Func, base) EXCEPT ![Inst(pc)] = << >>]
    BY <1>2, <2>1 DEF Values
  <2>. QED
    BY <1>3, <2>2 DEF Computes
<1>5. << >> \in Abstract!Results(Current)
  <2>1. PICK d : d \in Data
    BY WordsAssumption
  <2>2. ValueOf(Current.type, d, d) = << >>
    BY <1>2 DEF ValueOf
  <2>. QED
    BY <1>1, <2>1, <2>2, ResultsOK
<1>. QED
  BY <1>1, <1>4, <1>5, Unwritten, ComputeStep

(* An object is below the host's frame.                                     *)
LEMMA BelowStackTop ==
  ASSUME IInv, at = "inst"
  PROVE  base <= StackTop - 4
<1>1. Len(callers) \in Nat /\ DOMAIN callers = 1 .. Len(callers) /\ StackTop \in Int /\ base \in Int
  BY WordsAssumption DEF IInv, Frames
<1>2. CASE callers = << >>
  <2>1. Links(Depth).esp = StackTop + 4
    BY <1>2 DEF Depth, Links
  <2>2. base + 8 = Links(Depth).esp
    BY DEF IInv, Linked
  <2>. QED
    BY <1>1, <2>1, <2>2
<1>3. CASE callers # << >>
  <2>1. 1 \in DOMAIN callers
    BY <1>1, <1>3 DEF IInv, Frames
  <2>2. callers[1].base + 8 = Links(1).esp /\ Links(1).esp = StackTop + 4
    BY <2>1 DEF IInv, Linked, Links
  <2>3. /\ callers[1].base \in Int /\ callers[1].esp \in Int
        /\ base + 8 <= callers[1].esp /\ callers[1].esp + 12 <= callers[1].base
    BY <2>1, CallerOK DEF IInv
  <2>. QED
    BY <1>1, <2>2, <2>3
<1>. QED
  BY <1>2, <1>3

LEMMA AllocaIsCompute == PInv /\ IInv' /\ Alloca => Abstract!Compute
<1>. SUFFICES ASSUME PInv, IInv', Alloca PROVE Abstract!Compute
  OBVIOUS
<1>1. /\ at = "inst" /\ at' = "inst" /\ Current.kind = "alloca" /\ pc' = pc + 1
      /\ UNCHANGED <<prog, fn, callers, base>>
      /\ esp - Current.size >= StackLimit /\ esp' = esp - Current.size
      /\ eax' = esp' + Func.frame_callees_args_size
  BY DEF Alloca, At, NextInst, AllocaAddress
<1>2. Current.type = "i32" /\ Current.size \in Nat
  BY <1>1, Unwritten, InstOK DEF WellFormedInst
<1>3. PICK val : val = ValueOf(Current.type, eax', edx)
  OBVIOUS
<1>4. Computes(val)
  BY <1>3, AllocaEffect
<1>5. val = <<eax'>>
  BY <1>2, <1>3 DEF ValueOf, WordsOf
<1>6. eax' \in StackLimit .. StackTop
  <2>. DEFINE vars_size == VarsSize(Func.insts, Len(Func.insts))
              area == Func.frame_callees_args_size
  <2>1. /\ esp \in Int /\ base \in Int /\ area \in Nat /\ vars_size \in Nat
        /\ esp + area + vars_size <= base
    BY <1>1, Unwritten, FrameOK
  <2>2. base <= StackTop - 4 /\ StackTop \in Int /\ StackLimit \in Int
    BY <1>1, Unwritten, BelowStackTop, WordsAssumption
  <2>3. eax' = esp' + area
    BY <1>1
  <2>. HIDE DEF area, vars_size
  <2>. QED
    BY <1>1, <1>2, <2>1, <2>2, <2>3
<1>7. val \in Abstract!Results(Current)
  BY <1>1, <1>5, <1>6, ResultsOK, WordsAssumption
<1>. QED
  BY <1>1, <1>4, <1>7, Unwritten, ComputeStep

LEMMA BranchIsBranch == PInv /\ IInv' /\ Branch => Abstract!Branch
<1>. SUFFICES ASSUME PInv, IInv', Branch PROVE Abstract!Branch
  OBVIOUS
<1>1. /\ at = "inst" /\ at' = "inst" /\ Current.kind = "br" /\ pc' \in Current.succ
      /\ UNCHANGED <<prog, fn, callers, base, mem>>
  BY DEF Branch, At, history
<1>2. CallersKeep(mem')
  BY <1>1 DEF CallersKeep
<1>3. Stack' = Append(Front(Stack), [fn |-> fn, pc |-> pc', env |-> Values(mem', Func, base)])
  BY <1>1, <1>2, Unwritten, StepInActivation
<1>4. [fn |-> fn, pc |-> pc', env |-> Values(mem', Func, base)] = [Running EXCEPT !.pc = pc']
  BY <1>1 DEF Running, Frame, Func
<1>5. Abstract!Running({"br"})
  BY <1>1, Unwritten, RunningIs
<1>6. Abstract!Top = Running /\ Abstract!Current(Running) = Current
  BY <1>1, Unwritten, TopIs
<1>7. UNCHANGED <<HasReturned, ReturnValue>>
  BY <1>1 DEF HasReturned, ReturnValue
<1>8. PICK k \in Current.succ : k = pc'
  BY <1>1
<1>9. Abstract!Replace([Abstract!Top EXCEPT !.pc = k])
  <2>1. Stack' = Append(Front(Stack), [Abstract!Top EXCEPT !.pc = k])
    BY <1>3, <1>4, <1>6, <1>8
  <2>. QED
    BY <2>1 DEF Abstract!Replace, Abstract!Front, Front, Stack
<1>. QED
  BY <1>1, <1>5, <1>6, <1>7, <1>8, <1>9 DEF Abstract!Branch, HasReturned, ReturnValue

(* The prolog and the stores of arguments are not seen.                     *)
LEMMA Unseen ==
  PInv /\ IInv' /\ (Prolog \/ StoreArgument) =>
    UNCHANGED <<prog, Stack, HasReturned, ReturnValue>>
<1>. SUFFICES ASSUME PInv, IInv', Prolog \/ StoreArgument
              PROVE  UNCHANGED <<prog, Stack, HasReturned, ReturnValue>>
  OBVIOUS
<1>1. /\ at \in {"entry", "inst"} /\ at' \in {"entry", "inst"}
      /\ UNCHANGED <<prog, fn, pc, callers, base>>
  BY DEF Prolog, StoreArgument, At, history
<1>2. CallersKeep(mem') /\ Values(mem', Func, base) = Values(mem, Func, base)
  BY PrologEffect, StoreArgumentEffect
<1>3. Stack' = Append(Front(Stack), [fn |-> fn, pc |-> pc', env |-> Values(mem', Func, base)])
  BY <1>1, <1>2, Unwritten, StepInActivation
<1>4. [fn |-> fn, pc |-> pc', env |-> Values(mem', Func, base)] = Running
  BY <1>1, <1>2 DEF Running, Frame, Func
<1>5. Stack = Append(Front(Stack), Running)
  BY <1>1, Unwritten, StackIs, StackTopIs
<1>. QED
  BY <1>1, <1>3, <1>4, <1>5 DEF HasReturned, ReturnValue

LEMMA SpillResultIsResume == PInv /\ IInv' /\ SpillResult => Abstract!Resume
<1>. SUFFICES ASSUME PInv, IInv', SpillResult PROVE Abstract!Resume
  OBVIOUS
<1>1. /\ at = "result" /\ at' = "inst" /\ pc' = pc + 1
      /\ UNCHANGED <<prog, fn, callers, base>>
  BY DEF SpillResult, NextInst, history
<1>2. PICK val : val = ValueOf(Current.type, eax, edx)
  OBVIOUS
<1>3. Computes(val)
  BY <1>2, SpillResultEffect
<1>4. Stack' = Append(Front(Stack), Abstract!Computed(Running, val))
  BY <1>1, <1>3, Unwritten, ComputedIs
<1>5. Abstract!Top = Running /\ Stack # << >>
  BY <1>1, Unwritten, TopIs
<1>6. ReturnValue = val /\ HasReturned /\ ~ HasReturned' /\ ReturnValue' = << >>
  BY <1>1, <1>2 DEF ReturnValue, HasReturned, ResultType
<1>8. Abstract!Replace(Abstract!Computed(Abstract!Top, ReturnValue))
  <2>1. Stack' = Append(Front(Stack), Abstract!Computed(Abstract!Top, ReturnValue))
    BY <1>4, <1>5, <1>6
  <2>. QED
    BY <2>1 DEF Abstract!Replace, Abstract!Front, Front, Stack
<1>. QED
  BY <1>1, <1>5, <1>6, <1>8 DEF Abstract!Resume, HasReturned, ReturnValue, Stack
--------------------------------------------------------------------------------
LEMMA AbstractValues ==
  ASSUME prog \in Programs, NEW f \in DOMAIN prog
  PROVE  Abstract!Values(prog[f]) = SlottedValues(prog[f])
<1>1. \A k \in DOMAIN prog[f].insts : ~ IsAlias(prog[f].insts[k])
  BY FunctionOK DEF WellFormed, WellFormedInst, IsAlias
<1>2. Abstract!Values(prog[f])
        = {Param(k) : k \in DOMAIN prog[f].params} \cup {Inst(k) : k \in DOMAIN prog[f].insts}
  BY DEF Abstract!Values, Abstract!Result, Param, Inst
<1>. QED
  BY <1>1, <1>2 DEF SlottedValues

LEMMA CallIsCall == PInv /\ CallsReachFunctions /\ IInv' /\ Call => Abstract!Call
<1>. SUFFICES ASSUME PInv, CallsReachFunctions, IInv', Call PROVE Abstract!Call
  OBVIOUS
<1>. DEFINE c == [fn |-> fn, pc |-> pc, base |-> base, esp |-> esp]
            N == Len(callers)
<1>1. /\ at = "inst" /\ at' = "entry" /\ Current.kind = "call" /\ pc' = 1 /\ UNCHANGED prog
      /\ callers' = Append(callers, c) /\ IInv /\ TypeOK /\ At("call") /\ prog \in Programs
  BY Unwritten DEF Call, At, TypeOK
<1>2. /\ fn' \in DOMAIN prog /\ CodeAddress[<<fn', 0>>] = Part(Current.callee, 1)
      /\ prog[fn'].params = Current.args /\ prog[fn'].result = Current.type
      /\ \A f \in DOMAIN prog : CodeAddress[<<f, 0>>] = Part(Current.callee, 1) => f = fn'
  BY CalledFunction
<1>3. /\ N \in Nat /\ DOMAIN callers = 1 .. N /\ DOMAIN callers' = 1 .. (N + 1)
      /\ callers'[N + 1] = c /\ \A k \in 1 .. N : callers'[k] = callers[k]
  BY <1>1 DEF IInv, Frames
<1>4. c.fn = fn /\ c.pc = pc /\ c.base = base
  OBVIOUS
<1>5. CallersKeep(mem') /\ Values(mem', Func, base) = Values(mem, Func, base)
  BY CallEffect
<1>6. Waiting' = Stack
  <2>. HIDE DEF c, N
  <2>1. Stack = Append(Waiting, Running)
    BY <1>1, StackIs
  <2>2. Waiting' = [k \in 1 .. (N + 1) |-> IF k = N + 1 THEN Running ELSE Waiting[k]]
    <3>1. Waiting' = [k \in 1 .. (N + 1) |->
                        Frame(mem', callers'[k].fn, callers'[k].pc, callers'[k].base)]
      BY <1>1, <1>3 DEF Waiting, Frame
    <3>2. ASSUME NEW k \in 1 .. (N + 1)
          PROVE  Frame(mem', callers'[k].fn, callers'[k].pc, callers'[k].base)
                   = IF k = N + 1 THEN Running ELSE Waiting[k]
      <4>1. CASE k = N + 1
        BY <1>3, <1>4, <1>5, <4>1 DEF Frame, Running, Func
      <4>2. CASE k # N + 1
        <5>1. k \in DOMAIN callers /\ callers'[k] = callers[k]
          BY <1>3, <4>2
        <5>. QED
          BY <1>5, <4>2, <5>1 DEF Frame, Waiting, CallersKeep
      <4>. QED
        BY <4>1, <4>2
    <3>. QED
      BY <3>1, <3>2
  <2>3. Append(Waiting, Running)
          = [k \in 1 .. (N + 1) |-> IF k = N + 1 THEN Running ELSE Waiting[k]]
    BY <1>1, WaitingIsSeq, LastFront DEF N
  <2>. QED
    BY <2>1, <2>2, <2>3
<1>7. Stack' = Append(Stack, Running')
  <2>1. (IInv /\ at # "done" => Stack = Append(Waiting, Running))'
    BY StackIs, PTL
  <2>. QED
    BY <1>1, <1>6, <2>1
<1>8. Abstract!Top = Running /\ Abstract!Current(Running) = Current
  BY <1>1, TopIs
<1>9. \A k \in DOMAIN Current.args :
        Abstract!Value(Running, Current.ops[k], Current.args[k])
          = ValueOf(Current.args[k], Part(Current.ops[k], 1), Part(Current.ops[k], 2))
  <2>. SUFFICES ASSUME NEW k \in DOMAIN Current.args
                PROVE  Abstract!Value(Running, Current.ops[k], Current.args[k])
                         = ValueOf(Current.args[k], Part(Current.ops[k], 1), Part(Current.ops[k], 2))
    OBVIOUS
  <2>1. Current.args \in Seq(ArgTypes) /\ IsOperand(Func, Current.ops[k], Current.args[k])
    BY <1>1, InstOK DEF WellFormedInst
  <2>2. Current.args[k] \in ArgTypes
    BY <2>1
  <2>. QED
    BY <1>1, <2>1, <2>2, OperandIs
<1>10. Abstract!Callee(Running) = fn'
  <2>1. IsOperand(Func, Current.callee, "i32") /\ "i32" \in ArgTypes
    BY <1>1, InstOK DEF WellFormedInst, ArgTypes, Types
  <2>2. Abstract!Value(Running, Current.callee, "i32") = << Part(Current.callee, 1) >>
    <3>1. Abstract!Value(Running, Current.callee, "i32")
            = ValueOf("i32", Part(Current.callee, 1), Part(Current.callee, 2))
      BY <1>1, <2>1, OperandIs
    <3>. QED
      BY <3>1 DEF ValueOf, WordsOf
  <2>3. Abstract!Callee(Running)
          = CHOOSE f \in DOMAIN prog : << CodeAddress[<<f, 0>>] >> = << Part(Current.callee, 1) >>
    BY <1>8, <2>2 DEF Abstract!Callee
  <2>4. \A f \in DOMAIN prog :
          << CodeAddress[<<f, 0>>] >> = << Part(Current.callee, 1) >> <=> f = fn'
    BY <1>2
  <2>. QED
    BY <1>2, <2>3, <2>4
<1>. DEFINE args == [k \in DOMAIN Current.args |->
                       Abstract!Value(Running, Current.ops[k], Current.args[k])]
<1>11. Running' = Abstract!Activation(Abstract!Callee(Running), args)
  <2>1. PICK f \in DOMAIN prog : f = fn'
    BY <1>2
  <2>2. Abstract!Activation(f, args)
          = [fn |-> f, pc |-> 1,
             env |-> [v \in Abstract!Values(prog[f]) |->
                        IF v[1] = "param" THEN args[v[2]]
                        ELSE Abstract!WordsOf(prog[f].insts[v[2]].type, Unknown, Unknown)]]
    BY DEF Abstract!Activation
  <2>3. Running' = [fn |-> f, pc |-> 1, env |-> Values(mem', prog[f], base')]
    BY <1>1, <2>1 DEF Running, Frame
  <2>4. ASSUME NEW v \in SlottedValues(prog[f])
        PROVE  Values(mem', prog[f], base')[v]
                 = IF v[1] = "param" THEN args[v[2]]
                   ELSE Abstract!WordsOf(prog[f].insts[v[2]].type, Unknown, Unknown)
    <3>1. Values(mem', prog[f], base')[v] =
            IF v[1] = "param"
            THEN ValueOf(Current.args[v[2]], Part(Current.ops[v[2]], 1), Part(Current.ops[v[2]], 2))
            ELSE ValueOf(ValueType(prog[f], v), Unknown, Unknown)
      BY <2>1, EnteredValue
    <3>2. CASE v[1] = "param"
      <4>1. v[2] \in DOMAIN Current.args
        BY <1>2, <2>1, <3>2 DEF SlottedValues, Param, Inst
      <4>. QED
        BY <1>9, <3>1, <3>2, <4>1
    <3>3. CASE v[1] # "param"
      BY <3>1, <3>3, AbstractNames DEF ValueType
    <3>. QED
      BY <3>2, <3>3
  <2>5. Values(mem', prog[f], base')
          = [v \in Abstract!Values(prog[f]) |->
               IF v[1] = "param" THEN args[v[2]]
               ELSE Abstract!WordsOf(prog[f].insts[v[2]].type, Unknown, Unknown)]
    <3>1. Values(mem', prog[f], base')
            = [v \in SlottedValues(prog[f]) |-> Values(mem', prog[f], base')[v]]
      BY DEF Values
    <3>2. Abstract!Values(prog[f]) = SlottedValues(prog[f])
      BY <1>1, AbstractValues
    <3>. HIDE DEF args
    <3>. QED
      BY <2>4, <3>1, <3>2
  <2>. QED
    BY <1>10, <2>1, <2>2, <2>3, <2>5
<1>12. Abstract!Running({"call"})
  BY <1>1, RunningIs
<1>13. UNCHANGED <<HasReturned, ReturnValue>>
  BY <1>1 DEF HasReturned, ReturnValue
<1>14. Stack' = Append(Stack, Abstract!Activation(Abstract!Callee(Abstract!Top), args))
  BY <1>7, <1>8, <1>11
<1>. QED
  BY <1>1, <1>8, <1>12, <1>13, <1>14 DEF Abstract!Call, Stack, HasReturned, ReturnValue

LEMMA ReturnIsReturn == PInv /\ IInv' /\ Return => Abstract!Return
<1>. SUFFICES ASSUME PInv, IInv', Return PROVE Abstract!Return
  OBVIOUS
<1>. DEFINE N == Len(callers)
<1>1. /\ at = "inst" /\ Current.kind = "ret" /\ UNCHANGED prog /\ IInv /\ TypeOK /\ Frames
      /\ CallsTyped
  BY Unwritten DEF Return, At, PInv
<1>2. CallersKeep(mem')
  BY ReturnEffect
<1>3. /\ callers \in Seq([fn : DOMAIN prog, pc : Int, base : Int, esp : Int])
      /\ N \in Nat /\ DOMAIN callers = 1 .. N
  BY <1>1 DEF Frames
<1>4. HasReturned' /\ Stack' = Waiting /\ ResultType' = Func.result
  <2>1. CASE callers = << >>
    <3>1. Returned(HostReturn)
      <4>1. Links(Depth).return = HostReturn
        BY <2>1 DEF Depth, Links
      <4>. QED
        BY <1>1, <4>1, ReturnOK
    <3>2. at' = "done" /\ fn = 1
      BY <1>1, <2>1, <3>1 DEF Returned, CallsTyped
    <3>3. Stack' = << >> /\ Waiting = << >>
      BY <2>1, <3>2 DEF Stack, Activations, Waiting
    <3>. QED
      BY <1>1, <3>2, <3>3 DEF HasReturned, ResultType, Func
  <2>2. CASE callers # << >>
    <3>0. N \in Nat \ {0}
      BY <1>3, <2>2
    <3>1. PICK n \in Nat \ {0} : n = N
      <4>. HIDE DEF N
      <4>. QED
        BY <3>0
    <3>2. /\ Last(callers) = callers[n] /\ callers' = SubSeq(callers, 1, n - 1)
          /\ base' = callers[n].base /\ n \in DOMAIN callers
      BY <1>3, <2>2, <3>1 DEF Return, Front, Last
    <3>3. /\ DOMAIN callers' = 1 .. (n - 1)
          /\ \A k \in 1 .. (n - 1) : callers'[k] = callers[k] /\ k \in DOMAIN callers
      BY <1>3, <3>1, <3>2
    <3>4. fn' = callers[n].fn /\ pc' = callers[n].pc /\ at' = "result"
      <4>1. fn' = callers[n].fn /\ pc' = callers[n].pc
        BY <1>1, <2>2, <3>2, ReturnKeeps
      <4>2. at' = "result"
        <5>1. Returned(Links(Depth).return)
          BY <1>1, ReturnOK
        <5>2. Links(Depth).return # HostReturn
          <6>1. /\ Depth - 1 = n /\ Depth # 1
                /\ Links(Depth).return = CodeAddress[<<callers[n].fn, callers[n].pc>>]
            BY <3>1 DEF Depth, Links
          <6>2. callers[n].fn \in DOMAIN prog /\ callers[n].pc \in DOMAIN prog[callers[n].fn].insts
            BY <1>1, <3>2, CallerOK DEF Frames
          <6>3. callers[n].pc \in 0 .. Len(prog[callers[n].fn].insts) /\ prog \in Programs
            BY SMTT(30), <1>1, <6>2, FunctionOK DEF TypeOK
          <6>4. <<callers[n].fn, callers[n].pc>> \in DOMAIN CodeAddress
            BY <6>2, <6>3, CodeAddressAssumption
          <6>. QED
            BY <6>1, <6>4, CodeAddressAssumption
        <5>. QED
          BY <5>1, <5>2 DEF Returned
      <4>. QED
        BY <4>1, <4>2
    <3>5. Stack' = Append(Waiting', Running')
      <4>1. (IInv /\ at # "done" => Stack = Append(Waiting, Running))'
        BY StackIs, PTL
      <4>. QED
        BY <3>4, <4>1
    <3>6. /\ Waiting' \in Seq(Range(Waiting')) /\ Len(Waiting') = n - 1
      <4>1. (IInv => Waiting \in Seq(Range(Waiting)) /\ Len(Waiting) = Len(callers))'
        BY WaitingIsSeq, PTL
      <4>2. Len(callers') = n - 1
        BY <1>3, <3>1, <3>2
      <4>. QED
        BY <4>1, <4>2
    <3>7. Append(Waiting', Running')
            = [k \in 1 .. n |-> IF k = n THEN Running' ELSE Waiting'[k]]
      <4>1. (n - 1) + 1 = n
        BY <3>1
      <4>. QED
        BY <3>6, <4>1, LastFront
    <3>8. ASSUME NEW k \in 1 .. n
          PROVE  Waiting[k] = IF k = n THEN Running' ELSE Waiting'[k]
      <4>1. CASE k = n
        BY <1>1, <1>2, <3>2, <3>4, <4>1 DEF Waiting, Running, Frame, CallersKeep
      <4>2. CASE k # n
        <5>1. k \in 1 .. (n - 1)
          BY <3>1, <4>2
        <5>2. callers'[k] = callers[k] /\ k \in DOMAIN callers /\ k \in DOMAIN callers'
          BY <3>3, <5>1
        <5>. QED
          BY <1>1, <1>2, <4>2, <5>2 DEF Waiting, Frame, CallersKeep
      <4>. QED
        BY <4>1, <4>2
    <3>9. Waiting = [k \in 1 .. n |-> Waiting[k]]
      BY <1>3, <3>1 DEF Waiting
    <3>10. Stack' = Waiting
      BY <3>5, <3>7, <3>8, <3>9
    <3>11. ResultType' = Func.result
      <4>1. CalleeOf(n) = fn
        BY <3>1 DEF CalleeOf
      <4>2. prog[fn].result = prog[callers[n].fn].insts[callers[n].pc].type
        BY <1>1, <3>2, <4>1 DEF CallsTyped
      <4>. QED
        BY <1>1, <3>4, <4>2 DEF ResultType, Current, Func
    <3>. QED
      BY <3>4, <3>10, <3>11 DEF HasReturned
  <2>. QED
    BY <2>1, <2>2
<1>5. ReturnValue' = IF Func.result = "void" THEN << >>
                     ELSE Abstract!Value(Running, Current.ops[1], Func.result)
  <2>1. ReturnValue' = ValueOf(Func.result, eax', edx')
    BY <1>4 DEF ReturnValue
  <2>2. CASE Func.result = "void"
    BY <2>1, <2>2 DEF ValueOf
  <2>3. CASE Func.result # "void"
    <3>1. /\ eax' = Part(Current.ops[1], 1)
          /\ Func.result = "i64" => edx' = Part(Current.ops[1], 2)
      BY <2>3 DEF Return
    <3>2. IsOperand(Func, Current.ops[1], Func.result) /\ Func.result \in ArgTypes
      BY <1>1, <2>3, InstOK DEF WellFormedInst, WellFormed, ArgTypes
    <3>3. Abstract!Value(Running, Current.ops[1], Func.result)
            = ValueOf(Func.result, Part(Current.ops[1], 1), Part(Current.ops[1], 2))
      BY <1>1, <3>2, OperandIs
    <3>. QED
      BY <2>1, <2>3, <3>1, <3>3 DEF ValueOf, WordsOf
  <2>. QED
    BY <2>2, <2>3
<1>6. /\ Abstract!Top = Running /\ Abstract!Current(Running) = Current
      /\ Abstract!Func(Running) = Func /\ Front(Stack) = Waiting /\ Abstract!Running({"ret"})
  BY <1>1, TopIs, StackTopIs, RunningIs
<1>7. Stack' = Front(Stack)
  BY <1>4, <1>6
<1>8. ReturnValue' = IF Abstract!Func(Abstract!Top).result = "void" THEN << >>
                     ELSE Abstract!Value(Abstract!Top, Abstract!Current(Abstract!Top).ops[1],
                                         Abstract!Func(Abstract!Top).result)
  BY <1>5, <1>6
<1>. QED
  BY <1>1, <1>4, <1>6, <1>7, <1>8
     DEF Abstract!Return, Abstract!Front, Front, Stack, HasReturned, ReturnValue
--------------------------------------------------------------------------------
(* The host's arguments are the values of the first activation.             *)
LEMMA HostArguments ==
  ASSUME Init
  PROVE  \E args \in [DOMAIN prog[1].params -> Data \X Data] :
           \A v \in SlottedValues(prog[1]) :
             Values(mem, prog[1], base)[v] =
               IF v[1] = "param"
               THEN ValueOf(prog[1].params[v[2]], args[v[2]][1], args[v[2]][2])
               ELSE ValueOf(ValueType(prog[1], v), Unknown, Unknown)
<1>. DEFINE f == prog[1]
            n == ArgsSize(f.params) \div 4
<1>1. /\ PInv /\ IInv /\ fn = 1 /\ base = StackTop - 4 /\ StackTop \in Int /\ prog \in Programs
      /\ esp = StackTop /\ Above(mem, esp)
  BY PInvInit, WordsAssumption DEF Init, PInv, IInv
<1>2. f.params \in Seq(Types) /\ f.insts \in Seq(Range(f.insts)) /\ fn \in DOMAIN prog
  BY <1>1, ProgramsAssumption, FunctionOK
<1>3. PICK data \in [1 .. n -> Data] : mem = Write(<< >>, StackTop, <<HostReturn>> \o data)
  BY DEF Init
<1>4. n \in Nat /\ ArgsSize(f.params) \in Nat
  <2>1. ArgsSize(f.params) \in Nat
    BY <1>2, ArgOffsetStep
  <2>. QED
    BY <2>1
<1>5. \A k \in DOMAIN f.params :
        \E i \in Nat : /\ ArgOffset(f.params, k) = 4 * i /\ i + 1 \in 1 .. n
                       /\ f.params[k] = "i64" => i + 2 \in 1 .. n
  <2>. SUFFICES ASSUME NEW k \in DOMAIN f.params
                PROVE  \E i \in Nat : /\ ArgOffset(f.params, k) = 4 * i /\ i + 1 \in 1 .. n
                                      /\ f.params[k] = "i64" => i + 2 \in 1 .. n
    OBVIOUS
  <2>1. /\ k \in 1 .. (Len(f.params) + 1) /\ Len(f.params) + 1 \in 1 .. (Len(f.params) + 1)
        /\ k < Len(f.params) + 1 /\ k \in Nat \ {0}
    BY <1>2
  <2>2. ArgOffset(f.params, k) + ArgStackSize(f.params[k]) <= ArgsSize(f.params)
    BY <1>2, <2>1, ArgOffsetMonotone DEF ArgsSize
  <2>3. PICK i \in Nat : ArgOffset(f.params, k) = 4 * i
    <3>. DEFINE S == {j \in 1 .. (k - 1) : f.params[j] = "i64"}
    <3>1. IsFiniteSet(1 .. (k - 1))
      BY <2>1, FS_Interval
    <3>2. S \subseteq 1 .. (k - 1)
      OBVIOUS
    <3>3. Cardinality(S) \in Nat
      BY <3>1, <3>2, FS_Subset, FS_CardinalityType
    <3>4. ArgOffset(f.params, k) = 4 * (k - 1) + 4 * Cardinality(S)
      BY DEF ArgOffset
    <3>. HIDE DEF S
    <3>5. (k - 1) + Cardinality(S) \in Nat
            /\ ArgOffset(f.params, k) = 4 * ((k - 1) + Cardinality(S))
      BY <2>1, <3>3, <3>4
    <3>. QED
      BY <3>5
  <2>4. ArgStackSize(f.params[k]) \in {4, 8} /\ (f.params[k] = "i64" => ArgStackSize(f.params[k]) = 8)
    BY DEF ArgStackSize
  <2>. DEFINE size == ArgsSize(f.params)
              s == ArgStackSize(f.params[k])
  <2>5. 4 * i + s <= size /\ s \in {4, 8} /\ size \in Nat
    BY <1>4, <2>2, <2>3, <2>4
  <2>6. i + 1 \in 1 .. (size \div 4) /\ (s = 8 => i + 2 \in 1 .. (size \div 4))
    <3>. HIDE DEF size, s
    <3>. QED
      BY <2>5
  <2>. QED
    BY <2>3, <2>4, <2>6
<1>6. PICK index \in [DOMAIN f.params -> Nat] :
        \A k \in DOMAIN f.params :
          /\ ArgOffset(f.params, k) = 4 * index[k] /\ index[k] + 1 \in 1 .. n
          /\ f.params[k] = "i64" => index[k] + 2 \in 1 .. n
  <2>. DEFINE Q(k, i) == /\ ArgOffset(f.params, k) = 4 * i /\ i + 1 \in 1 .. n
                         /\ f.params[k] = "i64" => i + 2 \in 1 .. n
              g == [k \in DOMAIN f.params |-> CHOOSE i \in Nat : Q(k, i)]
  <2>1. \A k \in DOMAIN f.params : g[k] \in Nat /\ Q(k, g[k])
    BY <1>5
  <2>. QED
    BY <2>1
<1>. DEFINE words == <<HostReturn>> \o data
<1>7. /\ DOMAIN words = 1 .. (n + 1) /\ n + 1 \in Nat
      /\ \A i \in 1 .. n : words[i + 1] = data[i] /\ data[i] \in Data
  <2>1. data \in Seq(Data) /\ Len(data) = n
    BY <1>3, <1>4
  <2>. HIDE DEF n
  <2>. QED
    BY <1>3, <1>4, <2>1
<1>. HIDE DEF n, f, words
<1>8. \A i \in 1 .. n : Read(mem, StackTop + 4 * i) = data[i]
  <2>. SUFFICES ASSUME NEW i \in 1 .. n PROVE Read(mem, StackTop + 4 * i) = data[i]
    OBVIOUS
  <2>1. PICK m \in Nat : m = n + 1
    BY <1>7
  <2>2. i + 1 \in 1 .. m /\ DOMAIN words = 1 .. m
    BY <1>4, <1>7, <2>1
  <2>3. Read(Write(<< >>, StackTop, words), StackTop + 4 * ((i + 1) - 1)) = words[i + 1]
    BY <1>1, <2>2, ReadWords
  <2>4. (i + 1) - 1 = i
    BY <1>4
  <2>. QED
    BY <1>3, <1>7, <2>3, <2>4 DEF words
<1>. DEFINE args == [k \in DOMAIN f.params |->
                       << data[index[k] + 1],
                          IF f.params[k] = "i64" THEN data[index[k] + 2] ELSE data[index[k] + 1] >>]
<1>9. args \in [DOMAIN f.params -> Data \X Data]
  <2>. SUFFICES ASSUME NEW k \in DOMAIN f.params
                PROVE  << data[index[k] + 1],
                          IF f.params[k] = "i64" THEN data[index[k] + 2] ELSE data[index[k] + 1] >>
                         \in Data \X Data
    OBVIOUS
  <2>. QED
    BY <1>6, <1>7
<1>10. ASSUME NEW v \in SlottedValues(f)
       PROVE  Values(mem, f, base)[v] =
                IF v[1] = "param"
                THEN ValueOf(f.params[v[2]], args[v[2]][1], args[v[2]][2])
                ELSE ValueOf(ValueType(f, v), Unknown, Unknown)
  <2>. DEFINE SlotWords(p) == Read(mem, base + FrameSlots(f)[v] + 4 * (p - 1))
  <2>1. Values(mem, f, base)[v] = ValueOf(ValueType(f, v), SlotWords(1), SlotWords(2))
    BY DEF Values
  <2>2. CASE v[1] = "param"
    <3>1. PICK k \in DOMAIN f.params : v = Param(k)
      BY <2>2 DEF SlottedValues, Param, Inst
    <3>2. v[2] = k /\ ValueType(f, v) = f.params[k]
          /\ FrameSlots(f)[v] = 8 + 4 * index[k]
      BY <1>6, <3>1 DEF ValueType, Param, FrameSlots, ParamSlot, FirstParameter
    <3>3. index[k] \in Nat /\ index[k] + 1 \in 1 .. n /\ (f.params[k] = "i64" => index[k] + 2 \in 1 .. n)
      BY <1>6
    <3>4. /\ base + FrameSlots(f)[v] + 4 * (1 - 1) = StackTop + 4 * (index[k] + 1)
          /\ base + FrameSlots(f)[v] + 4 * (2 - 1) = StackTop + 4 * (index[k] + 2)
      <4>0. PICK i \in Nat : i = index[k]
        BY <3>3
      <4>1. PICK s : s = FrameSlots(f)[v]
        OBVIOUS
      <4>2. s = 8 + 4 * i
        BY <3>2, <4>0, <4>1
      <4>3. /\ base + s + 4 * (1 - 1) = StackTop + 4 * (i + 1)
            /\ base + s + 4 * (2 - 1) = StackTop + 4 * (i + 2)
        BY <1>1, <4>2
      <4>. QED
        BY <4>0, <4>1, <4>3
    <3>5. SlotWords(1) = data[index[k] + 1] /\ (f.params[k] = "i64" => SlotWords(2) = data[index[k] + 2])
      BY <1>8, <3>3, <3>4
    <3>. HIDE DEF SlotWords
    <3>6. /\ args[v[2]][1] = data[index[k] + 1]
          /\ f.params[k] = "i64" => args[v[2]][2] = data[index[k] + 2]
      BY <3>2
    <3>. QED
      BY <2>1, <2>2, <3>2, <3>5, <3>6 DEF ValueOf, WordsOf
  <2>3. CASE v[1] # "param"
    <3>1. ASSUME NEW p \in WordsIn(ValueType(f, v)) PROVE SlotWords(p) = Unknown
      <4>. DEFINE o == FrameSlots(f)[v]
                  d == 4 * (p - 1)
                  size == ArgStackSize(ValueType(f, v))
                  x == base + o + d
      <4>1. o \in Int /\ o + size <= 0
        BY <1>2, <2>3, SlotRegions
      <4>2. d \in 0 .. 4 /\ d + 4 <= size /\ size \in Nat
        BY DEF WordsIn, ArgStackSize
      <4>. HIDE DEF o, d, size
      <4>3. x \in Int /\ x < esp /\ esp \in Int
        BY <1>1, <4>1, <4>2
      <4>. HIDE DEF x
      <4>4. Read(mem, x) = Unknown
        BY <1>1, <4>3, ReadBelow
      <4>. QED
        BY <4>4 DEF x, o, d
    <3>. HIDE DEF SlotWords
    <3>2. SlotWords(1) = Unknown /\ (ValueType(f, v) = "i64" => SlotWords(2) = Unknown)
      BY <3>1 DEF WordsIn
    <3>. QED
      BY <2>1, <2>3, <3>2 DEF ValueOf, WordsOf
  <2>. QED
    BY <2>2, <2>3
<1>. QED
  BY <1>9, <1>10 DEF f

LEMMA InitIsInit == Init => Abstract!Init
<1>. SUFFICES ASSUME Init PROVE Abstract!Init
  OBVIOUS
<1>1. /\ IInv /\ at = "entry" /\ fn = 1 /\ pc = 1 /\ callers = << >> /\ prog \in Programs
      /\ 1 \in DOMAIN prog
  BY InvInit, ProgramsAssumption DEF Init
<1>2. PICK args \in [DOMAIN prog[1].params -> Data \X Data] :
           \A v \in SlottedValues(prog[1]) :
             Values(mem, prog[1], base)[v] =
               IF v[1] = "param"
               THEN ValueOf(prog[1].params[v[2]], args[v[2]][1], args[v[2]][2])
               ELSE ValueOf(ValueType(prog[1], v), Unknown, Unknown)
  BY HostArguments
<1>. DEFINE words == [k \in DOMAIN args |->
                        Abstract!WordsOf(prog[1].params[k], args[k][1], args[k][2])]
<1>3. Stack = << Running >>
  <2>1. Stack = Append(Waiting, Running)
    BY <1>1, StackIs
  <2>2. Waiting = << >>
    BY <1>1 DEF Waiting
  <2>. QED
    BY <2>1, <2>2
<1>4. Running = Abstract!Activation(1, words)
  <2>1. Abstract!Activation(1, words)
          = [fn |-> 1, pc |-> 1,
             env |-> [v \in Abstract!Values(prog[1]) |->
                        IF v[1] = "param" THEN words[v[2]]
                        ELSE Abstract!WordsOf(prog[1].insts[v[2]].type, Unknown, Unknown)]]
    BY DEF Abstract!Activation
  <2>2. ASSUME NEW v \in SlottedValues(prog[1])
        PROVE  Values(mem, prog[1], base)[v]
                 = IF v[1] = "param" THEN words[v[2]]
                   ELSE Abstract!WordsOf(prog[1].insts[v[2]].type, Unknown, Unknown)
    <3>1. CASE v[1] = "param"
      <4>1. v[2] \in DOMAIN args
        BY <3>1 DEF SlottedValues, Param, Inst
      <4>. QED
        BY <1>2, <3>1, <4>1, AbstractNames
    <3>2. CASE v[1] # "param"
      BY <1>2, <3>2, AbstractNames DEF ValueType
    <3>. QED
      BY <3>1, <3>2
  <2>3. Values(mem, prog[1], base)
          = [v \in Abstract!Values(prog[1]) |->
               IF v[1] = "param" THEN words[v[2]]
               ELSE Abstract!WordsOf(prog[1].insts[v[2]].type, Unknown, Unknown)]
    <3>1. Values(mem, prog[1], base)
            = [v \in SlottedValues(prog[1]) |-> Values(mem, prog[1], base)[v]]
      BY DEF Values
    <3>2. Abstract!Values(prog[1]) = SlottedValues(prog[1])
      BY <1>1, AbstractValues
    <3>. HIDE DEF words
    <3>. QED
      BY <2>2, <3>1, <3>2
  <2>. QED
    BY <1>1, <2>1, <2>3 DEF Running, Frame
<1>5. ~ HasReturned /\ ReturnValue = << >>
  BY <1>1 DEF HasReturned, ReturnValue
<1>6. Stack = << Abstract!Activation(1, words) >>
  BY <1>3, <1>4
<1>7. \E a \in [DOMAIN prog[1].params -> Data \X Data] :
        Stack = << Abstract!Activation(1, [k \in DOMAIN a |->
                     Abstract!WordsOf(prog[1].params[k], a[k][1], a[k][2])]) >>
  BY <1>6
<1>8. HasReturned = FALSE
  BY <1>5 DEF HasReturned
<1>. QED
  BY <1>5, <1>7, <1>8 DEF Abstract!Init, Stack, HasReturned, ReturnValue

LEMMA StepIsStep ==
  PInv /\ PInv' /\ StoresInObjects /\ CallsReachFunctions /\ [Next]_vars =>
    [Abstract!Next]_<<prog, Stack, HasReturned, ReturnValue>>
<1>. SUFFICES ASSUME PInv, PInv', StoresInObjects, CallsReachFunctions, [Next]_vars
              PROVE  Abstract!Next \/ UNCHANGED <<prog, Stack, HasReturned, ReturnValue>>
  OBVIOUS
<1>1. IInv'
  BY DEF PInv
<1>2. CASE UNCHANGED vars
  <2>1. UNCHANGED <<prog, at, fn, pc, eax, edx, esp, mem, callers, base>>
    BY <1>2 DEF vars, history
  <2>2. UNCHANGED Activations /\ UNCHANGED ResultType
    BY <2>1 DEF Activations, ResultType, Current, Func
  <2>3. \A a : EnvOf(a)' = EnvOf(a)
    BY <2>1 DEF EnvOf
  <2>4. UNCHANGED <<Stack, HasReturned, ReturnValue>>
    BY <2>1, <2>2, <2>3 DEF Stack, HasReturned, ReturnValue
  <2>. QED
    BY <2>1, <2>4
<1>3. CASE Operate \/ CallHelper \/ Store \/ Alloca
  <2>1. Abstract!Compute
    BY <1>1, <1>3, OperateIsCompute, CallHelperIsCompute, StoreIsCompute, AllocaIsCompute
  <2>. QED
    BY <2>1 DEF Abstract!Next
<1>4. CASE Branch
  BY <1>1, <1>4, BranchIsBranch DEF Abstract!Next
<1>5. CASE Call
  BY <1>1, <1>5, CallIsCall DEF Abstract!Next
<1>6. CASE Return
  BY <1>1, <1>6, ReturnIsReturn DEF Abstract!Next
<1>7. CASE SpillResult
  BY <1>1, <1>7, SpillResultIsResume DEF Abstract!Next
<1>8. CASE Prolog \/ StoreArgument
  BY <1>1, <1>8, Unseen
<1>. QED
  BY <1>2, <1>3, <1>4, <1>5, <1>6, <1>7, <1>8 DEF Next

LEMMA ValuesInvariant == Spec /\ []StoresInObjects /\ []CallsReachFunctions => []PInv
BY PInvInit, PInvStep, PTL DEF Spec

(* Generated code implements calls as the program has them: for all         *)
(* programs, depths of calls and values, every activation gets the values   *)
(* that are passed to it, keeps its own while its callees run, whatever     *)
(* they store, and gets back what they return.  A program has to store in   *)
(* its objects and to call functions by pointers of their types.            *)
THEOREM CallsAreImplemented ==
  Spec /\ []StoresInObjects /\ []CallsReachFunctions => ImplementsCalls
<1>1. PInv /\ PInv' /\ StoresInObjects /\ CallsReachFunctions /\ [Next]_vars =>
        [Abstract!Next]_<<prog, Stack, HasReturned, ReturnValue>>
  BY StepIsStep
<1>. QED
  BY <1>1, InitIsInit, ValuesInvariant, PTL
     DEF Spec, ImplementsCalls, Abstract!Spec, Stack, HasReturned, ReturnValue
================================================================================
