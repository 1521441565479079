----------------------------- MODULE VarArgsProofs -----------------------------
(***************************************************************************)
(* Theorems about VarArgs, for all programs, lists of arguments and depths *)
(* of calls: a va_list points into the buffer of a call that is pending,   *)
(* at an argument that is still there, and the expansion does what         *)
(* variadic calls mean, so that va_arg reads what the call was given.      *)
(***************************************************************************)
EXTENDS VarArgs, SharedLemmas, SequenceTheorems

(* How many of the first n arguments have a type.                           *)
Indices(types, ty) == {j \in DOMAIN types : types[j] = ty}
Count(types, ty, n) == Cardinality(Indices(types, ty) \cap 1 .. n)

LEMMA OffsetByCounts ==
  ASSUME NEW types \in Seq(ArgTypes), NEW k \in 1 .. (Len(types) + 1)
  PROVE  PackedOffset(types, k) =
           Count(types, "i8", k - 1) + 4 * Count(types, "i32", k - 1)
             + 8 * Count(types, "i64", k - 1)
<1>1. \A ty : {j \in 1 .. (k - 1) : types[j] = ty} = Indices(types, ty) \cap 1 .. (k - 1)
  BY DEF Indices
<1>. QED
  BY <1>1 DEF PackedOffset, Count

(* The arguments of a call lie one behind the other.                        *)
LEMMA PackedStep ==
  ASSUME NEW types \in Seq(ArgTypes)
  PROVE  /\ PackedOffset(types, 1) = 0
         /\ \A k \in 1 .. (Len(types) + 1) : PackedOffset(types, k) \in Nat
         /\ \A k \in DOMAIN types :
              PackedOffset(types, k + 1) = PackedOffset(types, k) + AllocSize[types[k]]
<1>. DEFINE C8(n) == Count(types, "i8", n)
            C32(n) == Count(types, "i32", n)
            C64(n) == Count(types, "i64", n)
<1>1. \A k \in 1 .. (Len(types) + 1) :
        PackedOffset(types, k) = C8(k - 1) + 4 * C32(k - 1) + 8 * C64(k - 1)
  BY OffsetByCounts
<1>2. \A n \in Nat :
        /\ C8(n) \in Nat /\ C32(n) \in Nat /\ C64(n) \in Nat
        /\ C8(n + 1) = C8(n) + (IF n + 1 \in Indices(types, "i8") THEN 1 ELSE 0)
        /\ C32(n + 1) = C32(n) + (IF n + 1 \in Indices(types, "i32") THEN 1 ELSE 0)
        /\ C64(n + 1) = C64(n) + (IF n + 1 \in Indices(types, "i64") THEN 1 ELSE 0)
  BY CountStep DEF Count
<1>3. C8(0) = 0 /\ C32(0) = 0 /\ C64(0) = 0
  BY CountZero DEF Count
<1>. HIDE DEF C8, C32, C64
<1>4. PackedOffset(types, 1) = 0
  BY <1>1, <1>3
<1>5. ASSUME NEW k \in 1 .. (Len(types) + 1) PROVE PackedOffset(types, k) \in Nat
  <2>1. k - 1 \in Nat
    OBVIOUS
  <2>2. C8(k - 1) \in Nat /\ C32(k - 1) \in Nat /\ C64(k - 1) \in Nat
    BY <1>2, <2>1
  <2>3. PackedOffset(types, k) = C8(k - 1) + 4 * C32(k - 1) + 8 * C64(k - 1)
    BY <1>1
  <2>. QED
    BY <2>2, <2>3
<1>6. ASSUME NEW k \in DOMAIN types
      PROVE  PackedOffset(types, k + 1) = PackedOffset(types, k) + AllocSize[types[k]]
  <2>1. k - 1 \in Nat /\ (k - 1) + 1 = k /\ k + 1 \in 1 .. (Len(types) + 1)
        /\ (k + 1) - 1 = k /\ k \in 1 .. (Len(types) + 1) /\ types[k] \in ArgTypes
    OBVIOUS
  <2>2. /\ C8(k) = C8(k - 1) + (IF types[k] = "i8" THEN 1 ELSE 0)
        /\ C32(k) = C32(k - 1) + (IF types[k] = "i32" THEN 1 ELSE 0)
        /\ C64(k) = C64(k - 1) + (IF types[k] = "i64" THEN 1 ELSE 0)
        /\ C8(k - 1) \in Nat /\ C32(k - 1) \in Nat /\ C64(k - 1) \in Nat
    BY <1>2, <2>1 DEF Indices
  <2>3. /\ PackedOffset(types, k + 1) = C8(k) + 4 * C32(k) + 8 * C64(k)
        /\ PackedOffset(types, k) = C8(k - 1) + 4 * C32(k - 1) + 8 * C64(k - 1)
    BY <1>1, <2>1
  <2>4. CASE types[k] = "i8"
    BY <2>2, <2>3, <2>4 DEF AllocSize
  <2>5. CASE types[k] = "i32"
    BY <2>2, <2>3, <2>5 DEF AllocSize
  <2>6. CASE types[k] = "i64"
    BY <2>2, <2>3, <2>6 DEF AllocSize
  <2>. QED
    BY <2>1, <2>4, <2>5, <2>6 DEF ArgTypes
<1>. QED
  BY <1>4, <1>5, <1>6

(* An argument ends before every later one starts.                          *)
LEMMA PackedMonotone ==
  ASSUME NEW types \in Seq(ArgTypes), NEW j \in DOMAIN types,
         NEW k \in 1 .. (Len(types) + 1), j < k
  PROVE  PackedOffset(types, j) + AllocSize[types[j]] <= PackedOffset(types, k)
<1>1. j \in Nat /\ k - 1 \in Nat /\ j <= k - 1 /\ j + 1 \in 1 .. (Len(types) + 1)
      /\ (j + 1) - 1 = j
  OBVIOUS
<1>2. ASSUME NEW ty
      PROVE  /\ Count(types, ty, j) <= Count(types, ty, k - 1)
             /\ Count(types, ty, j) \in Nat /\ Count(types, ty, k - 1) \in Nat
  BY <1>1, CountMonotone, CountStep DEF Count
<1>. DEFINE a8 == Count(types, "i8", j)
            a32 == Count(types, "i32", j)
            a64 == Count(types, "i64", j)
            b8 == Count(types, "i8", k - 1)
            b32 == Count(types, "i32", k - 1)
            b64 == Count(types, "i64", k - 1)
<1>3. PackedOffset(types, j + 1) = a8 + 4 * a32 + 8 * a64
  BY <1>1, OffsetByCounts
<1>4. PackedOffset(types, k) = b8 + 4 * b32 + 8 * b64
  BY OffsetByCounts
<1>5. /\ a8 <= b8 /\ a32 <= b32 /\ a64 <= b64
      /\ a8 \in Nat /\ a32 \in Nat /\ a64 \in Nat
      /\ b8 \in Nat /\ b32 \in Nat /\ b64 \in Nat
  BY <1>2
<1>. HIDE DEF a8, a32, a64, b8, b32, b64
<1>6. PackedOffset(types, j + 1) <= PackedOffset(types, k)
  BY <1>3, <1>4, <1>5
<1>. QED
  BY <1>6, PackedStep

(* Each argument starts at a place of its own.                              *)
LEMMA PackedInjective ==
  ASSUME NEW types \in Seq(ArgTypes),
         NEW j \in 1 .. (Len(types) + 1), NEW k \in 1 .. (Len(types) + 1),
         PackedOffset(types, j) = PackedOffset(types, k)
  PROVE  j = k
<1>1. ASSUME NEW i \in 1 .. (Len(types) + 1), NEW l \in 1 .. (Len(types) + 1), i < l
      PROVE  PackedOffset(types, i) # PackedOffset(types, l)
  <2>1. i \in DOMAIN types /\ types[i] \in ArgTypes
    BY <1>1
  <2>2. /\ PackedOffset(types, i) + AllocSize[types[i]] <= PackedOffset(types, l)
        /\ PackedOffset(types, i) \in Nat /\ PackedOffset(types, l) \in Nat
    BY <1>1, <2>1, PackedMonotone, PackedStep
  <2>3. AllocSize[types[i]] \in Nat \ {0}
    BY <2>1 DEF ArgTypes, AllocSize
  <2>. QED
    BY <2>2, <2>3
<1>. QED
  BY <1>1
--------------------------------------------------------------------------------
(* The inductive invariant, in terms of a program, a stack and a memory.    *)
InstOf(r, s, j) == r[s[j].fn].insts[s[j].pc]
RestOf(r, s, j) == InstOf(r, s, j).rest

(* A pointer to, or behind, an argument of the call that an activation      *)
(* below the d-th waits for.                                                *)
PointsBelow(r, s, d, v) ==
  \E b \in 1 .. (d - 1) : \E k \in 1 .. (Len(RestOf(r, s, b)) + 1) :
    RestOf(r, s, b) # << >> /\ v = <<Buffer(b, s[b].pc), PackedOffset(RestOf(r, s, b), k)>>

Frame(r) ==
  [fn : DOMAIN r, pc : Nat, arg : Nat,
   varargs : Pointers \cup {Unknown}, list : Pointers \cup {Unknown}]

(* All activations but the last wait at a call whose arguments are stored.  *)
Control(r, s) ==
  /\ r \in Programs /\ s \in Seq(Frame(r))
  /\ \A j \in DOMAIN s :
       /\ s[j].pc \in DOMAIN r[s[j].fn].insts
       /\ s[j].arg \in 1 .. (IF InstOf(r, s, j).kind = "call" THEN Len(RestOf(r, s, j)) + 1 ELSE 1)
       /\ j < Len(s) => InstOf(r, s, j).kind = "call" /\ s[j].arg = Len(RestOf(r, s, j)) + 1

(* What an activation was passed: the buffer of its call, if there is one,  *)
(* and a va_list of an activation below it.                                 *)
Parameters(r, s) ==
  \A j \in DOMAIN s :
    /\ s[j].varargs = IF j = 1 \/ RestOf(r, s, j - 1) = << >> THEN Unknown
                      ELSE <<Buffer(j - 1, s[j - 1].pc), 0>>
    /\ \/ s[j].list = Unknown
       \/ \E d \in 1 .. (j - 1), k \in Nat \ {0} : s[j].list = <<VaList(d, k), 0>>

ArgumentIn(m, q, ty) == q \in DOMAIN m /\ m[q].size = AllocSize[ty] /\ m[q].val \in Data

(* The arguments of a call are in its buffer as far as they are stored.     *)
Arguments(r, s, m) ==
  \A j \in DOMAIN s : InstOf(r, s, j).kind = "call" =>
    \A k \in DOMAIN RestOf(r, s, j) : k < s[j].arg =>
      ArgumentIn(m, <<Buffer(j, s[j].pc), PackedOffset(RestOf(r, s, j), k)>>, RestOf(r, s, j)[k])

EntryOK(r, s, p, e) ==
  \/ \E d \in DOMAIN s, n \in Nat, o \in Nat : p = <<Buffer(d, n), o>> /\ e.size \in {1, 4, 8}
  \/ \E d \in DOMAIN s, k \in Nat \ {0} :
       /\ p = <<VaList(d, k), 0>> /\ e.size = 4
       /\ e.val = Unknown \/ PointsBelow(r, s, d, e.val)

Memory(r, s, m) == \A p \in DOMAIN m : EntryOK(r, s, p, m[p])

IInv ==
  /\ Control(prog, stack) /\ Parameters(prog, stack)
  /\ Arguments(prog, stack, mem) /\ Memory(prog, stack, mem)
--------------------------------------------------------------------------------
(* A write leaves alone what it does not touch.                             *)
LEMMA WriteOK ==
  ASSUME NEW p, NEW n, NEW v
  PROVE  /\ p \in DOMAIN Write(p, n, v) /\ Write(p, n, v)[p] = [size |-> n, val |-> v]
         /\ \A q \in DOMAIN Write(p, n, v) \ {p} : q \in DOMAIN mem /\ Write(p, n, v)[q] = mem[q]
         /\ \A q \in DOMAIN mem :
              q # p /\ (q[1] = p[1] => q[2] + mem[q].size <= p[2] \/ p[2] + n <= q[2]) =>
                q \in DOMAIN Write(p, n, v) /\ Write(p, n, v)[q] = mem[q]
BY DEF Write

(* Pointers are apart if their objects are, and none of them is Unknown.    *)
LEMMA PointersApart ==
  ASSUME NEW d \in Nat, NEW n \in Nat, NEW o \in Nat
  PROVE  /\ <<Buffer(d, n), o>> \in Pointers /\ <<VaList(d, n), o>> \in Pointers
         /\ <<Buffer(d, n), o>> # Unknown /\ <<VaList(d, n), o>> # Unknown
BY UnknownAssumption DEF Pointers, Objects, Buffer, VaList

LEMMA StackOK ==
  ASSUME NEW r, NEW s, Control(r, s)
  PROVE  /\ Len(s) \in Nat /\ DOMAIN s = 1 .. Len(s)
         /\ \A j \in DOMAIN s :
              /\ s[j] \in Frame(r) /\ s[j].fn \in DOMAIN r /\ s[j].pc \in Nat
              /\ s[j].pc \in DOMAIN r[s[j].fn].insts
              /\ WellFormedInst(r, r[s[j].fn].insts, s[j].pc)
              /\ InstOf(r, s, j).kind = "call" =>
                   /\ RestOf(r, s, j) \in Seq(ArgTypes) /\ Len(RestOf(r, s, j)) \in Nat
                   /\ DOMAIN RestOf(r, s, j) = 1 .. Len(RestOf(r, s, j))
                   /\ s[j].arg \in 1 .. (Len(RestOf(r, s, j)) + 1)
<1>1. r \in Programs /\ s \in Seq(Frame(r))
  BY DEF Control
<1>2. Len(s) \in Nat /\ DOMAIN s = 1 .. Len(s) /\ \A j \in DOMAIN s : s[j] \in Frame(r)
  BY <1>1
<1>3. ASSUME NEW j \in DOMAIN s
      PROVE  /\ s[j].fn \in DOMAIN r /\ s[j].pc \in Nat
             /\ s[j].pc \in DOMAIN r[s[j].fn].insts
             /\ WellFormedInst(r, r[s[j].fn].insts, s[j].pc)
  <2>1. s[j].fn \in DOMAIN r /\ s[j].pc \in Nat
    BY <1>2 DEF Frame
  <2>2. s[j].pc \in DOMAIN r[s[j].fn].insts
    BY DEF Control
  <2>. QED
    BY <1>1, <2>1, <2>2, ProgramsAssumption
<1>4. ASSUME NEW j \in DOMAIN s, InstOf(r, s, j).kind = "call"
      PROVE  /\ RestOf(r, s, j) \in Seq(ArgTypes) /\ Len(RestOf(r, s, j)) \in Nat
             /\ DOMAIN RestOf(r, s, j) = 1 .. Len(RestOf(r, s, j))
             /\ s[j].arg \in 1 .. (Len(RestOf(r, s, j)) + 1)
  <2>1. RestOf(r, s, j) \in Seq(ArgTypes)
    BY <1>3, <1>4 DEF WellFormedInst, InstOf, RestOf
  <2>2. s[j].arg \in 1 .. (Len(RestOf(r, s, j)) + 1)
    BY <1>4 DEF Control
  <2>. QED
    BY <2>1, <2>2
<1>. QED
  BY <1>2, <1>3, <1>4

(* Pointers depend only on the activations below, which a step of the last  *)
(* one, a call and a return leave alone.                                    *)
LEMMA PointsBelowKept ==
  ASSUME NEW r, NEW s, NEW t, NEW d \in Nat, NEW c \in Nat, d <= c,
         \A b \in 1 .. (d - 1) : s[b] = t[b], NEW v, PointsBelow(r, s, d, v)
  PROVE  PointsBelow(r, t, c, v)
<1>1. PICK b \in 1 .. (d - 1) : \E k \in 1 .. (Len(RestOf(r, s, b)) + 1) :
        RestOf(r, s, b) # << >> /\ v = <<Buffer(b, s[b].pc), PackedOffset(RestOf(r, s, b), k)>>
  BY DEF PointsBelow
<1>2. b \in 1 .. (c - 1) /\ s[b] = t[b] /\ RestOf(r, s, b) = RestOf(r, t, b)
  BY DEF RestOf, InstOf
<1>. QED
  BY <1>1, <1>2 DEF PointsBelow

LEMMA EntryKept ==
  ASSUME NEW r, NEW s, NEW t, NEW n \in Nat, DOMAIN s \subseteq Nat \ {0}, 1 .. n \subseteq DOMAIN t,
         \A b \in 1 .. (n - 1) : s[b] = t[b], NEW p, p[1][1] <= n, NEW e, EntryOK(r, s, p, e)
  PROVE  EntryOK(r, t, p, e)
<1>1. CASE \E d \in DOMAIN s, i \in Nat, o \in Nat : p = <<Buffer(d, i), o>> /\ e.size \in {1, 4, 8}
  <2>1. PICK d \in DOMAIN s, i \in Nat, o \in Nat : p = <<Buffer(d, i), o>> /\ e.size \in {1, 4, 8}
    BY <1>1
  <2>2. d \in 1 .. n
    BY <2>1 DEF Buffer
  <2>. QED
    BY <2>1, <2>2 DEF EntryOK
<1>2. CASE \E d \in DOMAIN s, k \in Nat \ {0} :
             /\ p = <<VaList(d, k), 0>> /\ e.size = 4
             /\ e.val = Unknown \/ PointsBelow(r, s, d, e.val)
  <2>1. PICK d \in DOMAIN s, k \in Nat \ {0} :
             /\ p = <<VaList(d, k), 0>> /\ e.size = 4
             /\ e.val = Unknown \/ PointsBelow(r, s, d, e.val)
    BY <1>2
  <2>2. d \in 1 .. n
    BY <2>1 DEF VaList
  <2>3. e.val = Unknown \/ PointsBelow(r, t, d, e.val)
    BY <2>1, <2>2, PointsBelowKept
  <2>. QED
    BY <2>1, <2>2, <2>3 DEF EntryOK
<1>. QED
  BY <1>1, <1>2 DEF EntryOK

LEMMA EntryDepth ==
  ASSUME NEW r, NEW s, NEW p, NEW e, EntryOK(r, s, p, e)
  PROVE  p[1][1] \in DOMAIN s
BY DEF EntryOK, Buffer, VaList

(* An argument is where its call's buffer is.                               *)
LEMMA TopOK ==
  ASSUME Control(prog, stack), stack # << >>
  PROVE  /\ Len(stack) \in Nat \ {0} /\ Len(stack) \in DOMAIN stack
         /\ Top = stack[Len(stack)]
         /\ Current = InstOf(prog, stack, Len(stack))
         /\ Current.rest = RestOf(prog, stack, Len(stack))
<1>1. stack \in Seq(Frame(prog))
  BY DEF Control
<1>2. Len(stack) \in Nat \ {0} /\ Len(stack) \in DOMAIN stack
  BY <1>1
<1>. QED
  BY <1>2 DEF Top, Last, Current, InstOf, RestOf
--------------------------------------------------------------------------------
(* A step that leaves all activations but the last alone, and of that one   *)
(* its function and what it was passed.                                     *)
Stays ==
  /\ prog' = prog /\ stack # << >> /\ stack' \in Seq(Frame(prog)) /\ Len(stack') = Len(stack)
  /\ \A j \in 1 .. (Len(stack) - 1) : stack'[j] = stack[j]
  /\ stack'[Len(stack)].fn = Top.fn /\ stack'[Len(stack)].varargs = Top.varargs
  /\ stack'[Len(stack)].list = Top.list

LEMMA FrontOK ==
  ASSUME NEW S, NEW s \in Seq(S), s # << >>
  PROVE  /\ Front(s) \in Seq(S) /\ Len(Front(s)) = Len(s) - 1
         /\ \A j \in 1 .. (Len(s) - 1) : Front(s)[j] = s[j]
<1>1. Len(s) \in Nat \ {0} /\ DOMAIN s = 1 .. Len(s) /\ \A j \in 1 .. Len(s) : s[j] \in S
  OBVIOUS
<1>2. Front(s) = [j \in 1 .. (Len(s) - 1) |-> s[j]]
  BY <1>1 DEF Front
<1>. QED
  BY <1>1, <1>2

LEMMA ReplaceStays ==
  ASSUME Control(prog, stack), stack # << >>, prog' = prog, NEW a \in Frame(prog), Replace(a),
         a.fn = Top.fn, a.varargs = Top.varargs, a.list = Top.list
  PROVE  Stays /\ stack'[Len(stack)] = a
<1>. DEFINE n == Len(stack)
<1>1. stack \in Seq(Frame(prog)) /\ n \in Nat \ {0}
  BY TopOK DEF Control
<1>2. /\ Front(stack) \in Seq(Frame(prog)) /\ Len(Front(stack)) = n - 1
      /\ \A j \in 1 .. (n - 1) : Front(stack)[j] = stack[j]
  BY <1>1, FrontOK
<1>3. stack' = Append(Front(stack), a)
  BY DEF Replace
<1>4. /\ stack' \in Seq(Frame(prog)) /\ Len(stack') = n /\ stack'[n] = a
      /\ \A j \in 1 .. (n - 1) : stack'[j] = stack[j]
  BY <1>1, <1>2, <1>3
<1>. QED
  BY <1>4 DEF Stays

(* What such a step keeps of the invariant.                                 *)
LEMMA StaysKeeps ==
  ASSUME IInv, Stays
  PROVE  /\ Parameters(prog, stack')
         /\ \A p, e : EntryOK(prog, stack, p, e) => EntryOK(prog, stack', p, e)
         /\ DOMAIN stack' = 1 .. Len(stack)
<1>. DEFINE n == Len(stack)
<1>1. n \in Nat \ {0} /\ DOMAIN stack = 1 .. n
  BY StackOK, TopOK DEF IInv, Stays
<1>2. DOMAIN stack' = 1 .. n /\ Len(stack') = n /\ \A j \in 1 .. (n - 1) : stack'[j] = stack[j]
  BY <1>1 DEF Stays
<1>3. ASSUME NEW j \in DOMAIN stack'
      PROVE  /\ stack'[j].varargs = stack[j].varargs /\ stack'[j].list = stack[j].list
             /\ j # 1 => RestOf(prog, stack', j - 1) = RestOf(prog, stack, j - 1)
                          /\ stack'[j - 1] = stack[j - 1]
  <2>1. CASE j = n
    <3>1. j # 1 => j - 1 \in 1 .. (n - 1)
      BY <1>1, <2>1
    <3>. QED
      BY <1>1, <1>2, <2>1, <3>1, TopOK DEF Stays, IInv, RestOf, InstOf
  <2>2. CASE j # n
    <3>1. j \in 1 .. (n - 1) /\ (j # 1 => j - 1 \in 1 .. (n - 1))
      BY <1>1, <1>2, <2>2
    <3>. QED
      BY <1>2, <3>1 DEF RestOf, InstOf
  <2>. QED
    BY <2>1, <2>2
<1>4. Parameters(prog, stack')
  <2>. SUFFICES ASSUME NEW j \in DOMAIN stack'
                PROVE  /\ stack'[j].varargs =
                            IF j = 1 \/ RestOf(prog, stack', j - 1) = << >> THEN Unknown
                            ELSE <<Buffer(j - 1, stack'[j - 1].pc), 0>>
                       /\ \/ stack'[j].list = Unknown
                          \/ \E d \in 1 .. (j - 1), k \in Nat \ {0} :
                               stack'[j].list = <<VaList(d, k), 0>>
    BY DEF Parameters
  <2>1. j \in DOMAIN stack
    BY <1>1, <1>2
  <2>2. /\ stack[j].varargs =
             IF j = 1 \/ RestOf(prog, stack, j - 1) = << >> THEN Unknown
             ELSE <<Buffer(j - 1, stack[j - 1].pc), 0>>
        /\ \/ stack[j].list = Unknown
           \/ \E d \in 1 .. (j - 1), k \in Nat \ {0} : stack[j].list = <<VaList(d, k), 0>>
    BY <2>1 DEF IInv, Parameters
  <2>. QED
    BY <1>3, <2>2
<1>5. ASSUME NEW p, NEW e, EntryOK(prog, stack, p, e) PROVE EntryOK(prog, stack', p, e)
  <2>1. p[1][1] \in 1 .. n
    BY <1>1, <1>5, EntryDepth
  <2>2. p[1][1] <= n /\ DOMAIN stack \subseteq Nat \ {0} /\ 1 .. n \subseteq DOMAIN stack'
        /\ \A b \in 1 .. (n - 1) : stack[b] = stack'[b]
    BY <1>1, <1>2, <2>1
  <2>. QED
    BY <1>1, <1>5, <2>2, EntryKept
<1>. QED
  BY <1>2, <1>4, <1>5

(* An instruction other than a call goes on to one of its function.         *)
LEMMA ContinueOK ==
  ASSUME IInv, stack # << >>, Current.kind # "call", prog' = prog,
         NEW k \in DOMAIN prog[Top.fn].insts, Continue(k)
  PROVE  /\ Stays /\ Control(prog, stack')
         /\ stack'[Len(stack)] = [Top EXCEPT !.pc = k] /\ stack'[Len(stack)].arg = 1
<1>. DEFINE n == Len(stack)
            a == [Top EXCEPT !.pc = k]
<1>1. Control(prog, stack) /\ prog \in Programs /\ n \in Nat \ {0} /\ n \in DOMAIN stack
      /\ Top = stack[n] /\ Top \in Frame(prog) /\ InstOf(prog, stack, n).kind # "call"
  BY StackOK, TopOK DEF IInv, Control
<1>2. k \in Nat
  BY <1>1, ProgramsAssumption DEF Frame
<1>3. /\ a \in Frame(prog) /\ a.fn = Top.fn /\ a.varargs = Top.varargs /\ a.list = Top.list
      /\ a.pc = k /\ a.arg = Top.arg
  BY <1>1, <1>2 DEF Frame
<1>4. a.arg = 1
  <2>1. stack[n].arg \in 1 .. 1
    BY <1>1 DEF Control
  <2>. QED
    BY <1>1, <1>3, <2>1
<1>5. Stays /\ stack'[n] = a
  BY <1>1, <1>3, ReplaceStays DEF Continue
<1>6. /\ DOMAIN stack' = 1 .. n /\ Len(stack') = n /\ DOMAIN stack = 1 .. n
      /\ \A j \in 1 .. (n - 1) : stack'[j] = stack[j]
  BY <1>1, <1>5, StackOK, StaysKeeps DEF Stays
<1>7. ASSUME NEW j \in DOMAIN stack'
      PROVE  /\ stack'[j].pc \in DOMAIN prog[stack'[j].fn].insts
             /\ stack'[j].arg \in
                  1 .. (IF InstOf(prog, stack', j).kind = "call"
                        THEN Len(RestOf(prog, stack', j)) + 1 ELSE 1)
             /\ j < Len(stack') => /\ InstOf(prog, stack', j).kind = "call"
                                   /\ stack'[j].arg = Len(RestOf(prog, stack', j)) + 1
  <2>1. CASE j = n
    <3>1. Top.fn \in DOMAIN prog
      BY <1>1 DEF Frame
    <3>2. WellFormedInst(prog, prog[Top.fn].insts, k)
      BY <1>1, <3>1, ProgramsAssumption
    <3>3. InstOf(prog, stack', j) = prog[Top.fn].insts[k]
      BY <1>3, <1>5, <2>1 DEF InstOf
    <3>4. InstOf(prog, stack', j).kind = "call" => Len(RestOf(prog, stack', j)) \in Nat
      BY <3>2, <3>3 DEF WellFormedInst, RestOf
    <3>5. stack'[j] = a /\ Len(stack') = j /\ j \in Nat
      BY <1>1, <1>5, <1>6, <2>1
    <3>6. stack'[j].pc = k /\ stack'[j].fn = Top.fn /\ stack'[j].arg = 1 /\ ~ (j < Len(stack'))
      BY <1>3, <1>4, <3>5
    <3>. QED
      BY <3>4, <3>6
  <2>2. CASE j # n
    <3>1. j \in 1 .. (n - 1) /\ j < n /\ j \in DOMAIN stack /\ stack'[j] = stack[j]
      BY <1>1, <1>6, <2>2
    <3>2. /\ InstOf(prog, stack', j) = InstOf(prog, stack, j)
          /\ RestOf(prog, stack', j) = RestOf(prog, stack, j)
      BY <3>1 DEF InstOf, RestOf
    <3>. QED
      BY <1>1, <1>6, <3>1, <3>2 DEF Control
  <2>. QED
    BY <2>1, <2>2
<1>8. Control(prog, stack')
  BY <1>1, <1>5, <1>7 DEF Control, Stays
<1>. QED
  BY <1>4, <1>5, <1>8

(* The arguments of pending calls are there as long as buffers are.         *)
LEMMA ArgumentsKept ==
  ASSUME IInv, Stays, Control(prog, stack'), stack'[Len(stack)].arg = 1,
         NEW m, \A q \in DOMAIN mem : q[1][2] = "buffer" => q \in DOMAIN m /\ m[q] = mem[q]
  PROVE  Arguments(prog, stack', m)
<1>. DEFINE n == Len(stack)
            at(s, j, k) == <<Buffer(j, s[j].pc), PackedOffset(RestOf(prog, s, j), k)>>
<1>1. /\ n \in Nat /\ DOMAIN stack = 1 .. n /\ DOMAIN stack' = 1 .. n
      /\ \A j \in 1 .. (n - 1) : stack'[j] = stack[j]
  BY StackOK, StaysKeeps DEF IInv, Stays
<1>. SUFFICES ASSUME NEW j \in DOMAIN stack', InstOf(prog, stack', j).kind = "call",
                     NEW k \in DOMAIN RestOf(prog, stack', j), k < stack'[j].arg
              PROVE  ArgumentIn(m, at(stack', j, k), RestOf(prog, stack', j)[k])
  BY DEF Arguments
<1>2. j # n
  <2>1. DOMAIN RestOf(prog, stack', j) = 1 .. Len(RestOf(prog, stack', j))
        /\ Len(RestOf(prog, stack', j)) \in Nat
    BY StackOK
  <2>. QED
    BY <2>1
<1>3. j \in DOMAIN stack /\ stack'[j] = stack[j] /\ j \in Nat
  BY <1>1, <1>2
<1>4. /\ InstOf(prog, stack', j) = InstOf(prog, stack, j)
      /\ RestOf(prog, stack', j) = RestOf(prog, stack, j)
  BY <1>3 DEF InstOf, RestOf
<1>5. ArgumentIn(mem, at(stack, j, k), RestOf(prog, stack, j)[k])
  BY <1>3, <1>4 DEF IInv, Arguments
<1>6. at(stack', j, k) = at(stack, j, k) /\ at(stack, j, k)[1][2] = "buffer"
  BY <1>3, <1>4 DEF Buffer
<1>. QED
  BY <1>4, <1>5, <1>6 DEF ArgumentIn

(* A pointer is stored in a va_list of an activation above the one it       *)
(* points into.                                                             *)
ListWritten ==
  \E d \in 1 .. Len(stack), k \in Nat \ {0} : \E v :
    /\ mem' = Write(<<VaList(d, k), 0>>, 4, v)
    /\ v = Unknown \/ PointsBelow(prog, stack, d, v)

LEMMA ListWrittenOK ==
  ASSUME IInv, Stays, Control(prog, stack'), stack'[Len(stack)].arg = 1, ListWritten
  PROVE  IInv'
<1>d. PICK d \in 1 .. Len(stack), k \in Nat \ {0} :
        \E v : /\ mem' = Write(<<VaList(d, k), 0>>, 4, v)
               /\ v = Unknown \/ PointsBelow(prog, stack, d, v)
  BY DEF ListWritten
<1>1. PICK v :
        /\ mem' = Write(<<VaList(d, k), 0>>, 4, v)
        /\ v = Unknown \/ PointsBelow(prog, stack, d, v)
  BY <1>d
<1>. DEFINE p == <<VaList(d, k), 0>>
<1>2. p[1][2] = "va_list"
  BY DEF VaList
<1>3. DOMAIN stack = 1 .. Len(stack)
  BY StackOK DEF IInv
<1>4. EntryOK(prog, stack, p, [size |-> 4, val |-> v])
  BY <1>1, <1>3 DEF EntryOK
<1>. HIDE DEF p
<1>5. /\ mem'[p] = [size |-> 4, val |-> v]
      /\ \A q \in DOMAIN mem' \ {p} : q \in DOMAIN mem /\ mem'[q] = mem[q]
      /\ \A q \in DOMAIN mem : q[1] # p[1] => q \in DOMAIN mem' /\ mem'[q] = mem[q]
  <2>1. mem' = Write(p, 4, v)
    BY <1>1 DEF p
  <2>. QED
    BY <2>1, WriteOK
<1>6. Memory(prog, stack', mem')
  <2>. SUFFICES ASSUME NEW q \in DOMAIN mem' PROVE EntryOK(prog, stack', q, mem'[q])
    BY DEF Memory
  <2>1. EntryOK(prog, stack, q, mem'[q])
    <3>1. CASE q = p
      BY <1>4, <1>5, <3>1
    <3>2. CASE q # p
      BY <1>5, <3>2 DEF IInv, Memory
    <3>. QED
      BY <3>1, <3>2
  <2>. QED
    BY <2>1, StaysKeeps
<1>7. \A q \in DOMAIN mem : q[1][2] = "buffer" => q \in DOMAIN mem' /\ mem'[q] = mem[q]
  BY <1>2, <1>5
<1>8. Arguments(prog, stack', mem')
  BY <1>7, ArgumentsKept
<1>9. Parameters(prog, stack')
  BY StaysKeeps
<1>. QED
  BY <1>6, <1>8, <1>9 DEF IInv, Stays

(* What a va_list holds, and which va_lists an instruction can name.        *)
LEMMA ListOfOK ==
  ASSUME IInv, stack # << >>, NEW k \in Nat, ListOf(k) \in DOMAIN mem \/ k # 0
  PROVE  \E d \in 1 .. Len(stack), i \in Nat \ {0} :
           /\ ListOf(k) = <<VaList(d, i), 0>>
           /\ ListOf(k) \in DOMAIN mem =>
                LET v == mem[ListOf(k)].val
                IN v = Unknown \/ PointsBelow(prog, stack, d, v)
<1>. DEFINE n == Len(stack)
            p == ListOf(k)
<1>1. n \in Nat \ {0} /\ n \in DOMAIN stack /\ DOMAIN stack = 1 .. n /\ Top = stack[n]
  BY StackOK, TopOK DEF IInv
<1>2. p # Unknown
  <2>1. CASE p \in DOMAIN mem
    <3>1. EntryOK(prog, stack, p, mem[p])
      BY <2>1 DEF IInv, Memory
    <3>2. PICK d \in Nat, i \in Nat, o \in Nat :
            p = <<Buffer(d, i), o>> \/ p = <<VaList(d, i), o>>
      BY <1>1, <3>1 DEF EntryOK
    <3>3. <<Buffer(d, i), o>> # Unknown /\ <<VaList(d, i), o>> # Unknown
      BY UnknownAssumption DEF Pointers, Objects, Buffer, VaList
    <3>. QED
      BY <3>2, <3>3
  <2>2. CASE k # 0
    <3>1. p = <<VaList(n, k), 0>>
      BY <2>2 DEF ListOf
    <3>2. <<VaList(n, k), 0>> # Unknown
      BY <1>1, PointersApart
    <3>. QED
      BY <3>1, <3>2
  <2>. QED
    BY <2>1, <2>2
<1>3. PICK d \in 1 .. n, i \in Nat \ {0} : p = <<VaList(d, i), 0>>
  <2>1. CASE k = 0
    <3>1. \E d \in 1 .. (n - 1), i \in Nat \ {0} : stack[n].list = <<VaList(d, i), 0>>
      BY <1>1, <1>2, <2>1 DEF ListOf, IInv, Parameters
    <3>. QED
      BY <1>1, <2>1, <3>1 DEF ListOf
  <2>2. CASE k # 0
    BY <1>1, <2>2 DEF ListOf
  <2>. QED
    BY <2>1, <2>2
<1>4. p \in DOMAIN mem =>
        LET v == mem[p].val IN v = Unknown \/ PointsBelow(prog, stack, d, v)
  <2>. SUFFICES ASSUME p \in DOMAIN mem
                PROVE  mem[p].val = Unknown \/ PointsBelow(prog, stack, d, mem[p].val)
    OBVIOUS
  <2>1. EntryOK(prog, stack, p, mem[p])
    BY DEF IInv, Memory
  <2>. QED
    BY <1>3, <2>1 DEF EntryOK, VaList, Buffer
<1>. QED
  BY <1>3, <1>4
--------------------------------------------------------------------------------
LEMMA InitOK == Init => IInv
<1>. SUFFICES ASSUME Init PROVE IInv
  OBVIOUS
<1>. DEFINE a == [fn |-> 1, pc |-> 1, arg |-> 1, varargs |-> Unknown, list |-> Unknown]
<1>1. prog \in Programs /\ stack = <<a>> /\ mem = << >>
  BY DEF Init
<1>2. /\ 1 \in DOMAIN prog /\ 1 \in DOMAIN prog[1].insts
      /\ WellFormedInst(prog, prog[1].insts, 1)
  BY <1>1, ProgramsAssumption
<1>3. a \in Frame(prog)
  BY <1>2 DEF Frame
<1>4. stack \in Seq(Frame(prog)) /\ Len(stack) = 1 /\ DOMAIN stack = {1} /\ stack[1] = a
  BY <1>1, <1>3
<1>5. InstOf(prog, stack, 1) = prog[1].insts[1]
  BY <1>4 DEF InstOf
<1>6. InstOf(prog, stack, 1).kind = "call" => RestOf(prog, stack, 1) \in Seq(ArgTypes)
  BY <1>2, <1>5 DEF WellFormedInst, RestOf
<1>7. Control(prog, stack)
  <2>1. 1 \in 1 .. (IF InstOf(prog, stack, 1).kind = "call"
                     THEN Len(RestOf(prog, stack, 1)) + 1 ELSE 1)
    BY <1>6
  <2>. QED
    BY <1>1, <1>2, <1>4, <2>1 DEF Control
<1>8. Parameters(prog, stack)
  BY <1>4 DEF Parameters
<1>9. Arguments(prog, stack, mem)
  <2>. SUFFICES ASSUME InstOf(prog, stack, 1).kind = "call",
                       NEW k \in DOMAIN RestOf(prog, stack, 1), k < 1
                PROVE  FALSE
    BY <1>4 DEF Arguments
  <2>. QED
    BY <1>6
<1>10. Memory(prog, stack, mem)
  BY <1>1 DEF Memory
<1>. QED
  BY <1>7, <1>8, <1>9, <1>10 DEF IInv

LEMMA StoreArgumentOK == ASSUME IInv, StoreArgument PROVE IInv'
<1>. DEFINE n == Len(stack)
            types == RestOf(prog, stack, n)
            k == stack[n].arg
            b == Buffer(n, stack[n].pc)
            p == <<b, PackedOffset(types, k)>>
            a == [stack[n] EXCEPT !.arg = @ + 1]
<1>1. /\ n \in Nat \ {0} /\ n \in DOMAIN stack /\ DOMAIN stack = 1 .. n /\ Top = stack[n]
      /\ Current = InstOf(prog, stack, n) /\ Current.rest = types
      /\ InstOf(prog, stack, n).kind = "call" /\ stack # << >>
      /\ stack[n] \in Frame(prog) /\ stack[n].pc \in Nat
      /\ types \in Seq(ArgTypes) /\ DOMAIN types = 1 .. Len(types) /\ Len(types) \in Nat
      /\ k \in DOMAIN types /\ k \in Nat
  <2>1. stack # << >> /\ Control(prog, stack)
    BY DEF StoreArgument, At, IInv
  <2>2. /\ n \in Nat \ {0} /\ n \in DOMAIN stack /\ DOMAIN stack = 1 .. n /\ Top = stack[n]
        /\ Current = InstOf(prog, stack, n) /\ Current.rest = types
    BY <2>1, StackOK, TopOK
  <2>3. InstOf(prog, stack, n).kind = "call" /\ k \in DOMAIN types
    BY <2>2 DEF StoreArgument, At
  <2>. QED
    BY <2>1, <2>2, <2>3, StackOK
<1>2. PICK v \in Data : mem' = Write(p, AllocSize[types[k]], v)
  BY <1>1 DEF StoreArgument
<1>3. /\ a \in Frame(prog) /\ a.fn = stack[n].fn /\ a.varargs = stack[n].varargs
      /\ a.list = stack[n].list /\ a.pc = stack[n].pc /\ a.arg = k + 1
  BY <1>1 DEF Frame
<1>4. Stays /\ stack'[n] = a /\ prog' = prog
  BY <1>1, <1>3, ReplaceStays DEF StoreArgument, IInv
<1>5. /\ DOMAIN stack' = 1 .. n /\ Len(stack') = n
      /\ \A j \in 1 .. (n - 1) : stack'[j] = stack[j]
  BY <1>4, StaysKeeps DEF Stays
<1>6. /\ p[1] = b /\ p[2] = PackedOffset(types, k)
      /\ PackedOffset(types, k) \in Nat /\ AllocSize[types[k]] \in {1, 4, 8}
  BY <1>1, PackedStep DEF ArgTypes, AllocSize
<1>7. /\ InstOf(prog, stack', n) = InstOf(prog, stack, n) /\ RestOf(prog, stack', n) = types
      /\ \A j \in 1 .. (n - 1) : /\ InstOf(prog, stack', j) = InstOf(prog, stack, j)
                                 /\ RestOf(prog, stack', j) = RestOf(prog, stack, j)
  BY <1>3, <1>4, <1>5 DEF InstOf, RestOf
<1>8. EntryOK(prog, stack, p, [size |-> AllocSize[types[k]], val |-> v])
  BY <1>1, <1>6 DEF EntryOK
<1>. HIDE DEF p, b, a, k
<1>9. /\ p \in DOMAIN mem' /\ mem'[p] = [size |-> AllocSize[types[k]], val |-> v]
      /\ \A q \in DOMAIN mem' \ {p} : q \in DOMAIN mem /\ mem'[q] = mem[q]
      /\ \A q \in DOMAIN mem :
           q # p /\ (q[1] = b => q[2] + mem[q].size <= PackedOffset(types, k)) =>
             q \in DOMAIN mem' /\ mem'[q] = mem[q]
  BY <1>2, <1>6, WriteOK
<1>10. Memory(prog, stack', mem')
  <2>. SUFFICES ASSUME NEW q \in DOMAIN mem' PROVE EntryOK(prog, stack', q, mem'[q])
    BY DEF Memory
  <2>1. EntryOK(prog, stack, q, mem'[q])
    BY <1>8, <1>9 DEF IInv, Memory
  <2>. QED
    BY <1>4, <2>1, StaysKeeps
<1>11. Arguments(prog, stack', mem')
  <2>. SUFFICES ASSUME NEW j \in DOMAIN stack', InstOf(prog, stack', j).kind = "call",
                       NEW i \in DOMAIN RestOf(prog, stack', j), i < stack'[j].arg
                PROVE  ArgumentIn(mem', <<Buffer(j, stack'[j].pc),
                                          PackedOffset(RestOf(prog, stack', j), i)>>,
                                  RestOf(prog, stack', j)[i])
    BY DEF Arguments
  <2>1. CASE j = n
    <3>. DEFINE q == <<b, PackedOffset(types, i)>>
    <3>1. i \in DOMAIN types /\ i \in Nat /\ i <= k
      BY <1>1, <1>3, <1>4, <1>7, <2>1
    <3>2. CASE i = k
      BY <1>3, <1>4, <1>7, <1>9, <2>1, <3>2 DEF ArgumentIn, p, b
    <3>3. CASE i # k
      <4>1. i < k /\ k \in 1 .. (Len(types) + 1)
        BY <1>1, <3>1, <3>3
      <4>2. ArgumentIn(mem, q, types[i])
        BY <1>1, <3>1, <4>1 DEF IInv, Arguments, k, b
      <4>3. q[1] = b /\ q[2] + AllocSize[types[i]] <= PackedOffset(types, k)
        BY <1>1, <3>1, <4>1, PackedMonotone
      <4>4. q # p
        <5>1. PackedOffset(types, i) # PackedOffset(types, k)
          BY <1>1, <3>1, <3>3, <4>1, PackedInjective
        <5>. QED
          BY <5>1 DEF p
      <4>5. ArgumentIn(mem', q, types[i])
        BY <1>9, <4>2, <4>3, <4>4 DEF ArgumentIn
      <4>. QED
        BY <1>3, <1>4, <1>7, <2>1, <4>5 DEF b
    <3>. QED
      BY <3>2, <3>3
  <2>2. CASE j # n
    <3>. DEFINE q == <<Buffer(j, stack[j].pc), PackedOffset(RestOf(prog, stack, j), i)>>
    <3>1. j \in 1 .. (n - 1) /\ j \in DOMAIN stack
      BY <1>1, <1>5, <2>2
    <3>2. ArgumentIn(mem, q, RestOf(prog, stack, j)[i])
      BY <1>5, <1>7, <3>1 DEF IInv, Arguments
    <3>3. q[1] # b
      BY <2>2 DEF Buffer, b
    <3>4. ArgumentIn(mem', q, RestOf(prog, stack, j)[i])
      BY <1>6, <1>9, <3>2, <3>3 DEF ArgumentIn
    <3>. QED
      BY <1>5, <1>7, <3>1, <3>4
  <2>. QED
    BY <2>1, <2>2
<1>12. Control(prog, stack')
  <2>1. ASSUME NEW j \in DOMAIN stack'
        PROVE  /\ stack'[j].pc \in DOMAIN prog[stack'[j].fn].insts
               /\ stack'[j].arg \in
                    1 .. (IF InstOf(prog, stack', j).kind = "call"
                          THEN Len(RestOf(prog, stack', j)) + 1 ELSE 1)
               /\ j < Len(stack') => /\ InstOf(prog, stack', j).kind = "call"
                                     /\ stack'[j].arg = Len(RestOf(prog, stack', j)) + 1
    <3>1. CASE j = n
      <4>1. stack'[j].pc = stack[n].pc /\ stack'[j].fn = stack[n].fn
        BY <1>3, <1>4, <3>1
      <4>2. stack'[j].arg = k + 1
        BY <1>3, <1>4, <3>1
      <4>3. stack[n].pc \in DOMAIN prog[stack[n].fn].insts
        BY <1>1 DEF IInv, Control
      <4>4. k + 1 \in 1 .. (Len(types) + 1) /\ ~ (j < Len(stack'))
        BY <1>1, <1>5, <3>1
      <4>5. InstOf(prog, stack', j).kind = "call" /\ RestOf(prog, stack', j) = types
        BY <1>1, <1>7, <3>1
      <4>. QED
        BY <4>1, <4>2, <4>3, <4>4, <4>5
    <3>2. CASE j # n
      <4>1. j \in 1 .. (n - 1) /\ j \in DOMAIN stack /\ j < n
        BY <1>1, <1>5, <3>2
      <4>2. /\ stack[j].pc \in DOMAIN prog[stack[j].fn].insts
            /\ stack[j].arg \in 1 .. (IF InstOf(prog, stack, j).kind = "call"
                                    THEN Len(RestOf(prog, stack, j)) + 1 ELSE 1)
            /\ InstOf(prog, stack, j).kind = "call"
            /\ stack[j].arg = Len(RestOf(prog, stack, j)) + 1
        BY <4>1 DEF IInv, Control
      <4>3. /\ stack'[j] = stack[j] /\ InstOf(prog, stack', j) = InstOf(prog, stack, j)
            /\ RestOf(prog, stack', j) = RestOf(prog, stack, j)
        BY <1>5, <1>7, <4>1
      <4>. QED
        BY <4>2, <4>3
    <3>. QED
      BY <3>1, <3>2
  <2>. QED
    BY <1>4, <2>1 DEF Control, Stays, IInv
<1>. QED
  BY <1>4, <1>10, <1>11, <1>12, StaysKeeps DEF IInv

(* What holds of the last activation and its instruction.                   *)
LEMMA CurrentOK ==
  ASSUME IInv, stack # << >>
  PROVE  /\ Len(stack) \in Nat \ {0} /\ DOMAIN stack = 1 .. Len(stack)
         /\ Top = stack[Len(stack)] /\ Top \in Frame(prog)
         /\ Top.fn \in DOMAIN prog /\ Top.pc \in DOMAIN prog[Top.fn].insts
         /\ WellFormedInst(prog, prog[Top.fn].insts, Top.pc)
         /\ Current = prog[Top.fn].insts[Top.pc]
         /\ Current.kind \notin {"br", "ret"} => Top.pc + 1 \in DOMAIN prog[Top.fn].insts
<1>1. /\ Len(stack) \in Nat \ {0} /\ DOMAIN stack = 1 .. Len(stack)
      /\ Top = stack[Len(stack)] /\ Len(stack) \in DOMAIN stack
  BY StackOK, TopOK DEF IInv
<1>2. /\ Top \in Frame(prog) /\ Top.fn \in DOMAIN prog /\ Top.pc \in DOMAIN prog[Top.fn].insts
      /\ WellFormedInst(prog, prog[Top.fn].insts, Top.pc)
  BY <1>1, StackOK DEF IInv
<1>3. Current = prog[Top.fn].insts[Top.pc]
  BY DEF Current
<1>. QED
  BY <1>1, <1>2, <1>3 DEF WellFormedInst

LEMMA CurrentLists ==
  ASSUME IInv, stack # << >>
  PROVE  /\ Current.kind = "va_start" => Current.list \in Nat \ {0}
         /\ Current.kind = "va_copy" => Current.list \in Nat \ {0} /\ Current.from \in Nat
         /\ Current.kind = "va_arg" => Current.list \in Nat
<1>1. WellFormedInst(prog, prog[Top.fn].insts, Top.pc) /\ Current = prog[Top.fn].insts[Top.pc]
  BY CurrentOK
<1>. QED
  BY <1>1 DEF WellFormedInst

LEMMA NextInstruction ==
  ASSUME IInv, stack # << >>, Current.kind \notin {"call", "br", "ret"}, prog' = prog,
         Continue(Top.pc + 1)
  PROVE  /\ Stays /\ Control(prog, stack')
         /\ stack'[Len(stack)] = [Top EXCEPT !.pc = @ + 1] /\ stack'[Len(stack)].arg = 1
BY ContinueOK, CurrentOK

(* A function is passed a pointer to the first argument of its call.        *)
LEMMA VarargsPoint ==
  ASSUME NEW r, NEW s, Control(r, s), Parameters(r, s), NEW d \in DOMAIN s
  PROVE  s[d].varargs = Unknown \/ PointsBelow(r, s, d, s[d].varargs)
<1>. SUFFICES ASSUME s[d].varargs # Unknown PROVE PointsBelow(r, s, d, s[d].varargs)
  OBVIOUS
<1>. DEFINE b == d - 1
            types == RestOf(r, s, b)
<1>1. d # 1 /\ types # << >> /\ s[d].varargs = <<Buffer(b, s[b].pc), 0>>
  BY DEF Parameters
<1>2. b \in DOMAIN s /\ b < Len(s) /\ b \in 1 .. (d - 1)
  BY <1>1, StackOK
<1>3. InstOf(r, s, b).kind = "call"
  BY <1>2 DEF Control
<1>4. types \in Seq(ArgTypes) /\ Len(types) \in Nat
  BY <1>2, <1>3, StackOK
<1>5. PackedOffset(types, 1) = 0 /\ 1 \in 1 .. (Len(types) + 1)
  BY <1>4, PackedStep
<1>. QED
  BY <1>1, <1>2, <1>5 DEF PointsBelow

LEMMA VaStartOK == ASSUME IInv, VaStart PROVE IInv'
<1>. DEFINE n == Len(stack)
            k == Current.list
<1>1. stack # << >> /\ Current.kind = "va_start" /\ prog' = prog /\ Continue(Top.pc + 1)
  BY DEF VaStart, At
<1>2. n \in Nat \ {0} /\ n \in DOMAIN stack /\ Top = stack[n] /\ k \in Nat \ {0}
  BY <1>1, CurrentOK, CurrentLists
<1>3. mem' = Write(<<VaList(n, k), 0>>, 4, Top.varargs)
  BY <1>2 DEF VaStart, ListOf, PointerSize
<1>4. Top.varargs = Unknown \/ PointsBelow(prog, stack, n, Top.varargs)
  BY <1>2, VarargsPoint DEF IInv
<1>5. ListWritten
  <2>. DEFINE v == Top.varargs
  <2>1. n \in 1 .. Len(stack) /\ k \in Nat \ {0} /\ mem' = Write(<<VaList(n, k), 0>>, 4, v)
        /\ (v = Unknown \/ PointsBelow(prog, stack, n, v))
    BY <1>2, <1>3, <1>4
  <2>. HIDE DEF v, n, k
  <2>. QED
    BY <2>1 DEF ListWritten
<1>. QED
  BY <1>1, <1>5, NextInstruction, ListWrittenOK

LEMMA VaCopyOK == ASSUME IInv, VaCopy PROVE IInv'
<1>. DEFINE n == Len(stack)
            k == Current.list
            from == ListOf(Current.from)
<1>1. /\ stack # << >> /\ Current.kind = "va_copy" /\ prog' = prog /\ Continue(Top.pc + 1)
      /\ from \in DOMAIN mem
  BY DEF VaCopy, At
<1>2. /\ n \in Nat \ {0} /\ n \in DOMAIN stack /\ k \in Nat \ {0} /\ Current.from \in Nat
      /\ DOMAIN stack = 1 .. n
  BY <1>1, CurrentOK, CurrentLists
<1>3. mem' = Write(<<VaList(n, k), 0>>, 4, mem[from].val)
  BY <1>1, <1>2 DEF VaCopy, ListOf, PointerSize, CopiedPointer, Read
<1>4. mem[from].val = Unknown \/ PointsBelow(prog, stack, n, mem[from].val)
  <2>1. PICK d \in 1 .. n :
          mem[from].val = Unknown \/ PointsBelow(prog, stack, d, mem[from].val)
    BY <1>1, <1>2, ListOfOK
  <2>2. d \in Nat /\ n \in Nat /\ d <= n
    BY <1>2
  <2>. QED
    BY <2>1, <2>2, PointsBelowKept
<1>5. ListWritten
  BY <1>2, <1>3, <1>4 DEF ListWritten
<1>. QED
  BY <1>1, <1>5, NextInstruction, ListWrittenOK

(* The argument that a va_list points at, and the one behind it.            *)
LEMMA NextArgument ==
  ASSUME IInv, NEW d \in 1 .. Len(stack), NEW v, PointsBelow(prog, stack, d, v)
  PROVE  \E b \in 1 .. (d - 1) : LET types == RestOf(prog, stack, b) IN
           /\ b \in DOMAIN stack /\ b < Len(stack) /\ InstOf(prog, stack, b).kind = "call"
           /\ types # << >> /\ types \in Seq(ArgTypes) /\ Len(types) \in Nat
           /\ PackedTypes(v[1]) = types
           /\ \E k \in 1 .. (Len(types) + 1) :
                /\ v = <<Buffer(b, stack[b].pc), PackedOffset(types, k)>>
                /\ StartingAt(v) = {k}
<1>0. PICK b \in 1 .. (d - 1) : \E k \in 1 .. (Len(RestOf(prog, stack, b)) + 1) :
        /\ RestOf(prog, stack, b) # << >>
        /\ v = <<Buffer(b, stack[b].pc), PackedOffset(RestOf(prog, stack, b), k)>>
  BY DEF PointsBelow
<1>1. PICK k \in 1 .. (Len(RestOf(prog, stack, b)) + 1) :
        /\ RestOf(prog, stack, b) # << >>
        /\ v = <<Buffer(b, stack[b].pc), PackedOffset(RestOf(prog, stack, b), k)>>
  BY <1>0
<1>. DEFINE types == RestOf(prog, stack, b)
<1>2. Len(stack) \in Nat /\ DOMAIN stack = 1 .. Len(stack)
  BY StackOK DEF IInv
<1>3. b \in DOMAIN stack /\ b < Len(stack)
  BY <1>2
<1>4. InstOf(prog, stack, b).kind = "call"
  BY <1>3 DEF IInv, Control
<1>5. types \in Seq(ArgTypes) /\ Len(types) \in Nat
  BY <1>3, <1>4, StackOK DEF IInv
<1>6. PackedTypes(v[1]) = types
  BY <1>1 DEF PackedTypes, Buffer, RestOf, InstOf
<1>7. StartingAt(v) = {k}
  <2>1. v[2] = PackedOffset(types, k) /\ k \in 1 .. (Len(types) + 1)
    BY <1>1
  <2>2. \A i \in 1 .. (Len(types) + 1) : PackedOffset(types, i) = PackedOffset(types, k) => i = k
    BY <1>5, <2>1, PackedInjective
  <2>. QED
    BY <1>6, <2>1, <2>2 DEF StartingAt
<1>. QED
  BY <1>1, <1>3, <1>4, <1>5, <1>6, <1>7

LEMMA VaArgOK == ASSUME IInv, VaArg PROVE IInv'
<1>. DEFINE n == Len(stack)
            list == ListOf(Current.list)
            v == mem[list].val
            ty == Current.type
<1>1. /\ stack # << >> /\ Current.kind = "va_arg" /\ prog' = prog /\ Continue(Top.pc + 1)
      /\ Passed(list, ty) /\ mem' = Write(list, PointerSize, Plus(Read(list), AllocSize[ty]))
  BY DEF VaArg, At
<1>2. n \in Nat \ {0} /\ DOMAIN stack = 1 .. n /\ Current.list \in Nat
  BY <1>1, CurrentOK, CurrentLists
<1>3. list \in DOMAIN mem /\ v # Unknown /\ Read(list) = v
  BY <1>1 DEF Passed, Read
<1>4. PICK d \in 1 .. n, i \in Nat \ {0} :
        list = <<VaList(d, i), 0>> /\ PointsBelow(prog, stack, d, v)
  BY <1>1, <1>2, <1>3, ListOfOK
<1>5. PICK b \in 1 .. (d - 1) : LET types == RestOf(prog, stack, b) IN
        /\ types # << >> /\ types \in Seq(ArgTypes) /\ Len(types) \in Nat
        /\ PackedTypes(v[1]) = types
        /\ \E k \in 1 .. (Len(types) + 1) :
             v = <<Buffer(b, stack[b].pc), PackedOffset(types, k)>> /\ StartingAt(v) = {k}
  BY ZenonT(30), <1>4, NextArgument
<1>. DEFINE types == RestOf(prog, stack, b)
<1>50. PICK k \in 1 .. (Len(types) + 1) :
        v = <<Buffer(b, stack[b].pc), PackedOffset(types, k)>> /\ StartingAt(v) = {k}
  BY <1>5
<1>6. k \in DOMAIN types /\ types[k] = ty
  BY <1>1, <1>5, <1>50 DEF Passed
<1>7. PackedOffset(types, k + 1) = PackedOffset(types, k) + AllocSize[ty]
      /\ k + 1 \in 1 .. (Len(types) + 1)
  BY <1>5, <1>6, PackedStep
<1>8. Plus(Read(list), AllocSize[ty]) = <<Buffer(b, stack[b].pc), PackedOffset(types, k + 1)>>
  BY <1>3, <1>50, <1>7 DEF Plus
<1>9. PointsBelow(prog, stack, d, Plus(Read(list), AllocSize[ty]))
  BY <1>5, <1>7, <1>8 DEF PointsBelow
<1>10. ListWritten
  BY <1>1, <1>4, <1>9 DEF ListWritten, PointerSize
<1>. QED
  BY <1>1, <1>10, NextInstruction, ListWrittenOK

LEMMA OtherOK == ASSUME IInv, Other PROVE IInv'
<1>1. stack # << >> /\ prog' = prog /\ mem' = mem /\ Current.kind # "call"
  BY DEF Other, At
<1>2. \E k \in DOMAIN prog[Top.fn].insts : Continue(k)
  <2>1. CASE At("va_end") /\ Continue(Top.pc + 1)
    BY <1>1, <2>1, CurrentOK DEF At
  <2>2. CASE At("br") /\ \E k \in Current.succ : Continue(k)
    BY <1>1, <2>2, CurrentOK DEF At, WellFormedInst
  <2>. QED
    BY <2>1, <2>2 DEF Other
<1>3. Stays /\ Control(prog, stack') /\ stack'[Len(stack)].arg = 1
  BY <1>1, <1>2, ContinueOK
<1>4. Arguments(prog, stack', mem)
  BY <1>3, ArgumentsKept
<1>5. Memory(prog, stack', mem)
  BY <1>3, StaysKeeps DEF IInv, Memory
<1>. QED
  BY <1>1, <1>3, <1>4, <1>5, StaysKeeps DEF IInv

LEMMA CallOK == ASSUME IInv, Call PROVE IInv'
<1>. DEFINE n == Len(stack)
            k == Current.list
            c == [fn |-> Current.fn, pc |-> 1, arg |-> 1,
                  varargs |-> PassedBuffer, list |-> ListOf(Current.list)]
<1>1. /\ stack # << >> /\ Current.kind = "call" /\ Top.arg \notin DOMAIN Current.rest
      /\ stack' = Append(stack, c) /\ prog' = prog /\ mem' = mem
  BY DEF Call, At
<1>2. /\ n \in Nat \ {0} /\ DOMAIN stack = 1 .. n /\ n \in DOMAIN stack
      /\ Top = stack[n] /\ Top \in Frame(prog) /\ Top.pc \in Nat
      /\ Current = InstOf(prog, stack, n) /\ Current.rest = RestOf(prog, stack, n)
      /\ Current.fn \in DOMAIN prog /\ k \in Nat /\ stack \in Seq(Frame(prog))
  <2>1. n \in Nat \ {0} /\ DOMAIN stack = 1 .. n /\ n \in DOMAIN stack
        /\ Top = stack[n] /\ Top \in Frame(prog)
    BY <1>1, CurrentOK
  <2>2. Current.fn \in DOMAIN prog /\ k \in Nat
    BY <1>1, CurrentOK DEF WellFormedInst
  <2>3. Current = InstOf(prog, stack, n) /\ Current.rest = RestOf(prog, stack, n)
    BY <1>1, TopOK DEF IInv
  <2>. QED
    BY <2>1, <2>2, <2>3 DEF IInv, Control, Frame
<1>3. stack[n].arg = Len(RestOf(prog, stack, n)) + 1
  <2>1. /\ stack[n].arg \in 1 .. (Len(RestOf(prog, stack, n)) + 1)
        /\ DOMAIN RestOf(prog, stack, n) = 1 .. Len(RestOf(prog, stack, n))
        /\ Len(RestOf(prog, stack, n)) \in Nat
    BY <1>1, <1>2, StackOK DEF IInv
  <2>. QED
    BY <1>1, <1>2, <2>1
<1>4. /\ c.varargs = IF RestOf(prog, stack, n) = << >> THEN Unknown
                     ELSE <<Buffer(n, stack[n].pc), 0>>
      /\ c.varargs \in Pointers \cup {Unknown}
  <2>1. PassedBuffer = IF RestOf(prog, stack, n) = << >> THEN Unknown
                       ELSE <<Buffer(n, stack[n].pc), 0>>
    BY <1>2 DEF PassedBuffer
  <2>2. <<Buffer(n, stack[n].pc), 0>> \in Pointers
    BY <1>2, PointersApart
  <2>. QED
    BY <2>1, <2>2
<1>5. /\ \/ c.list = Unknown
         \/ \E d \in 1 .. n, i \in Nat \ {0} : c.list = <<VaList(d, i), 0>>
      /\ c.list \in Pointers \cup {Unknown}
  <2>1. CASE k = 0
    <3>1. c.list = stack[n].list
      BY <1>2, <2>1 DEF ListOf
    <3>2. \/ stack[n].list = Unknown
          \/ \E d \in 1 .. (n - 1), i \in Nat \ {0} : stack[n].list = <<VaList(d, i), 0>>
      BY <1>2 DEF IInv, Parameters
    <3>3. stack[n].list \in Pointers \cup {Unknown}
      BY <1>2 DEF Frame
    <3>4. \A d \in 1 .. (n - 1) : d \in 1 .. n
      BY <1>2
    <3>. QED
      BY <3>1, <3>2, <3>3, <3>4
  <2>2. CASE k # 0
    <3>1. c.list = <<VaList(n, k), 0>> /\ n \in 1 .. n
      BY <1>2, <2>2 DEF ListOf
    <3>2. <<VaList(n, k), 0>> \in Pointers
      BY <1>2, PointersApart
    <3>. QED
      BY <1>2, <2>2, <3>1, <3>2
  <2>. QED
    BY <2>1, <2>2
<1>6. c \in Frame(prog) /\ c.fn \in DOMAIN prog /\ c.pc = 1 /\ c.arg = 1
  BY <1>2, <1>4, <1>5 DEF Frame
<1>. HIDE DEF c
<1>7. /\ stack' \in Seq(Frame(prog)) /\ Len(stack') = n + 1 /\ DOMAIN stack' = 1 .. (n + 1)
      /\ \A j \in 1 .. n : stack'[j] = stack[j]
      /\ stack'[n + 1] = c
  BY <1>1, <1>2, <1>6
<1>8. \A j \in 1 .. n : /\ InstOf(prog, stack', j) = InstOf(prog, stack, j)
                        /\ RestOf(prog, stack', j) = RestOf(prog, stack, j)
  BY <1>7 DEF InstOf, RestOf
<1>9. /\ c.pc \in DOMAIN prog[c.fn].insts
      /\ InstOf(prog, stack', n + 1).kind = "call" =>
           /\ RestOf(prog, stack', n + 1) \in Seq(ArgTypes)
           /\ Len(RestOf(prog, stack', n + 1)) \in Nat
           /\ DOMAIN RestOf(prog, stack', n + 1) = 1 .. Len(RestOf(prog, stack', n + 1))
  <2>1. c.pc \in DOMAIN prog[c.fn].insts /\ WellFormedInst(prog, prog[c.fn].insts, c.pc)
    BY <1>6, ProgramsAssumption DEF IInv, Control
  <2>2. InstOf(prog, stack', n + 1) = prog[c.fn].insts[c.pc]
    BY <1>7 DEF InstOf
  <2>3. InstOf(prog, stack', n + 1).kind = "call" => RestOf(prog, stack', n + 1) \in Seq(ArgTypes)
    BY <2>1, <2>2 DEF WellFormedInst, RestOf
  <2>. QED
    BY <2>1, <2>3
<1>10. Control(prog, stack')
  <2>1. ASSUME NEW j \in DOMAIN stack'
        PROVE  /\ stack'[j].pc \in DOMAIN prog[stack'[j].fn].insts
               /\ stack'[j].arg \in
                    1 .. (IF InstOf(prog, stack', j).kind = "call"
                          THEN Len(RestOf(prog, stack', j)) + 1 ELSE 1)
               /\ j < Len(stack') => /\ InstOf(prog, stack', j).kind = "call"
                                     /\ stack'[j].arg = Len(RestOf(prog, stack', j)) + 1
    <3>1. CASE j = n + 1
      <4>1. stack'[j] = c /\ ~ (j < Len(stack'))
        BY <1>2, <1>7, <3>1
      <4>2. 1 \in 1 .. (IF InstOf(prog, stack', j).kind = "call"
                         THEN Len(RestOf(prog, stack', j)) + 1 ELSE 1)
        BY <1>9, <3>1
      <4>. QED
        BY <1>6, <1>9, <4>1, <4>2
    <3>2. CASE j # n + 1
      <4>1. j \in 1 .. n /\ j \in DOMAIN stack
        BY <1>2, <1>7, <3>2
      <4>2. /\ stack[j].pc \in DOMAIN prog[stack[j].fn].insts
            /\ stack[j].arg \in 1 .. (IF InstOf(prog, stack, j).kind = "call"
                                    THEN Len(RestOf(prog, stack, j)) + 1 ELSE 1)
            /\ j < n => /\ InstOf(prog, stack, j).kind = "call"
                        /\ stack[j].arg = Len(RestOf(prog, stack, j)) + 1
        BY <4>1 DEF IInv, Control
      <4>3. j = n => /\ InstOf(prog, stack, j).kind = "call"
                     /\ stack[j].arg = Len(RestOf(prog, stack, j)) + 1
        BY <1>1, <1>2, <1>3
      <4>4. j < n \/ j = n
        BY <1>2, <4>1
      <4>5. /\ stack'[j] = stack[j] /\ InstOf(prog, stack', j) = InstOf(prog, stack, j)
            /\ RestOf(prog, stack', j) = RestOf(prog, stack, j)
        BY <1>7, <1>8, <4>1
      <4>. QED
        BY <4>2, <4>3, <4>4, <4>5
    <3>. QED
      BY <3>1, <3>2
  <2>. QED
    BY <1>7, <2>1 DEF Control, IInv
<1>11. Parameters(prog, stack')
  <2>. SUFFICES ASSUME NEW j \in DOMAIN stack'
                PROVE  /\ stack'[j].varargs =
                            IF j = 1 \/ RestOf(prog, stack', j - 1) = << >> THEN Unknown
                            ELSE <<Buffer(j - 1, stack'[j - 1].pc), 0>>
                       /\ \/ stack'[j].list = Unknown
                          \/ \E d \in 1 .. (j - 1), i \in Nat \ {0} :
                               stack'[j].list = <<VaList(d, i), 0>>
    BY DEF Parameters
  <2>1. CASE j = n + 1
    <3>1. /\ stack'[j] = c /\ j # 1 /\ j - 1 = n /\ stack'[n] = stack[n]
          /\ RestOf(prog, stack', n) = RestOf(prog, stack, n)
      BY <1>2, <1>7, <1>8, <2>1
    <3>. QED
      BY <1>4, <1>5, <3>1
  <2>2. CASE j # n + 1
    <3>1. j \in DOMAIN stack /\ j \in 1 .. n
      BY <1>2, <1>7, <2>2
    <3>2. /\ stack[j].varargs = IF j = 1 \/ RestOf(prog, stack, j - 1) = << >> THEN Unknown
                                ELSE <<Buffer(j - 1, stack[j - 1].pc), 0>>
          /\ \/ stack[j].list = Unknown
             \/ \E d \in 1 .. (j - 1), i \in Nat \ {0} : stack[j].list = <<VaList(d, i), 0>>
      BY <3>1 DEF IInv, Parameters
    <3>3. j # 1 => /\ stack'[j - 1] = stack[j - 1]
                   /\ RestOf(prog, stack', j - 1) = RestOf(prog, stack, j - 1)
      <4>1. j # 1 => j - 1 \in 1 .. n
        BY <1>2, <3>1
      <4>. QED
        BY <1>7, <1>8, <4>1
    <3>4. stack'[j] = stack[j]
      BY <1>7, <3>1
    <3>. QED
      BY <3>2, <3>3, <3>4
  <2>. QED
    BY <2>1, <2>2
<1>12. Arguments(prog, stack', mem)
  <2>. SUFFICES ASSUME NEW j \in DOMAIN stack', InstOf(prog, stack', j).kind = "call",
                       NEW i \in DOMAIN RestOf(prog, stack', j), i < stack'[j].arg
                PROVE  ArgumentIn(mem, <<Buffer(j, stack'[j].pc),
                                         PackedOffset(RestOf(prog, stack', j), i)>>,
                                  RestOf(prog, stack', j)[i])
    BY DEF Arguments
  <2>1. j # n + 1
    BY <1>6, <1>7, <1>9
  <2>2. j \in 1 .. n /\ j \in DOMAIN stack
    BY <1>2, <1>7, <2>1
  <2>3. /\ stack'[j] = stack[j] /\ InstOf(prog, stack', j) = InstOf(prog, stack, j)
        /\ RestOf(prog, stack', j) = RestOf(prog, stack, j)
    BY <1>7, <1>8, <2>2
  <2>. QED
    BY <2>2, <2>3 DEF IInv, Arguments
<1>13. Memory(prog, stack', mem)
  <2>. SUFFICES ASSUME NEW p \in DOMAIN mem PROVE EntryOK(prog, stack', p, mem[p])
    BY DEF Memory
  <2>1. EntryOK(prog, stack, p, mem[p])
    BY DEF IInv, Memory
  <2>2. p[1][1] <= n /\ DOMAIN stack \subseteq Nat \ {0} /\ 1 .. n \subseteq DOMAIN stack'
        /\ \A b \in 1 .. (n - 1) : stack[b] = stack'[b]
    BY <1>2, <1>7, <2>1, EntryDepth
  <2>. QED
    BY <1>2, <2>1, <2>2, EntryKept
<1>. QED
  BY <1>1, <1>10, <1>11, <1>12, <1>13 DEF IInv

(* A return leaves the activations below, of which the last goes on.        *)
LEMMA ReturnStack ==
  ASSUME IInv, Return, Len(stack) # 1
  PROVE  LET m == Len(stack) - 1 IN
         /\ m \in Nat \ {0} /\ m \in DOMAIN stack
         /\ stack' \in Seq(Frame(prog)) /\ Len(stack') = m /\ DOMAIN stack' = 1 .. m
         /\ \A j \in 1 .. (m - 1) : stack'[j] = stack[j]
         /\ stack'[m] = [stack[m] EXCEPT !.pc = @ + 1, !.arg = 1]
         /\ stack[m].pc + 1 \in DOMAIN prog[stack[m].fn].insts
         /\ stack[m] \in Frame(prog) /\ InstOf(prog, stack, m).kind = "call"
<1>. DEFINE n == Len(stack)
            m == n - 1
            a == [stack[m] EXCEPT !.pc = @ + 1, !.arg = 1]
<1>1. stack # << >> /\ stack \in Seq(Frame(prog)) /\ n \in Nat \ {0} /\ DOMAIN stack = 1 .. n
  BY CurrentOK DEF Return, At, IInv, Control
<1>2. m \in Nat \ {0} /\ m \in DOMAIN stack /\ m < n
  BY <1>1
<1>3. /\ Front(stack) \in Seq(Frame(prog)) /\ Len(Front(stack)) = m
      /\ \A j \in 1 .. m : Front(stack)[j] = stack[j]
  BY <1>1, FrontOK
<1>4. Front(stack) # << >> /\ Last(Front(stack)) = stack[m]
  BY <1>2, <1>3 DEF Last
<1>5. /\ Front(Front(stack)) \in Seq(Frame(prog)) /\ Len(Front(Front(stack))) = m - 1
      /\ \A j \in 1 .. (m - 1) : Front(Front(stack))[j] = Front(stack)[j]
  BY <1>3, <1>4, FrontOK
<1>6. stack' = Append(Front(Front(stack)), a)
  BY <1>4 DEF Return, Resumed
<1>7. InstOf(prog, stack, m).kind = "call" /\ stack[m] \in Frame(prog)
  BY <1>1, <1>2 DEF IInv, Control
<1>8. stack[m].pc + 1 \in DOMAIN prog[stack[m].fn].insts
  <2>1. WellFormedInst(prog, prog[stack[m].fn].insts, stack[m].pc)
    BY <1>2, StackOK DEF IInv
  <2>. QED
    BY <1>7, <2>1 DEF WellFormedInst, InstOf
<1>9. a \in Frame(prog)
  <2>1. stack[m].pc + 1 \in Nat
    BY <1>7 DEF Frame
  <2>. QED
    BY <1>7, <2>1 DEF Frame
<1>. HIDE DEF a
<1>10. /\ stack' \in Seq(Frame(prog)) /\ Len(stack') = m /\ DOMAIN stack' = 1 .. m
       /\ \A j \in 1 .. (m - 1) : stack'[j] = Front(Front(stack))[j]
       /\ stack'[m] = a
  BY <1>2, <1>5, <1>6, <1>9
<1>11. \A j \in 1 .. (m - 1) : stack'[j] = stack[j]
  BY <1>2, <1>3, <1>5, <1>10
<1>. QED
  BY <1>2, <1>7, <1>8, <1>10, <1>11 DEF a

LEMMA ReturnOK == ASSUME IInv, Return PROVE IInv'
<1>. DEFINE n == Len(stack)
            m == n - 1
<1>1. /\ stack # << >> /\ n \in Nat \ {0} /\ DOMAIN stack = 1 .. n /\ prog' = prog
      /\ mem' = [p \in {q \in DOMAIN mem : q[1][1] < n} |-> mem[p]]
  BY CurrentOK DEF Return, At
<1>2. \A p \in DOMAIN mem : EntryOK(prog, stack, p, mem[p]) /\ p[1][1] \in 1 .. n
  BY <1>1, EntryDepth DEF IInv, Memory
<1>3. CASE n = 1
  <2>1. stack' = << >>
    <3>1. stack \in Seq(Frame(prog))
      BY DEF IInv, Control
    <3>2. Len(Front(stack)) = 0 /\ Front(stack) \in Seq(Frame(prog))
      BY <1>1, <1>3, <3>1, FrontOK
    <3>. QED
      BY <3>2 DEF Return
  <2>2. DOMAIN mem' = {}
    BY <1>1, <1>2, <1>3
  <2>3. Control(prog, stack')
    BY <2>1 DEF IInv, Control
  <2>4. Parameters(prog, stack') /\ Arguments(prog, stack', mem')
    BY <2>1 DEF Parameters, Arguments
  <2>5. Memory(prog, stack', mem')
    BY <2>2 DEF Memory
  <2>. QED
    BY <1>1, <2>3, <2>4, <2>5 DEF IInv
<1>4. CASE n # 1
  <2>1. /\ m \in Nat \ {0} /\ m \in DOMAIN stack /\ stack[m] \in Frame(prog)
        /\ stack' \in Seq(Frame(prog)) /\ Len(stack') = m /\ DOMAIN stack' = 1 .. m
        /\ \A j \in 1 .. (m - 1) : stack'[j] = stack[j]
        /\ stack'[m] = [stack[m] EXCEPT !.pc = @ + 1, !.arg = 1]
        /\ stack[m].pc + 1 \in DOMAIN prog[stack[m].fn].insts
    BY <1>4, ReturnStack
  <2>2. /\ stack'[m].fn = stack[m].fn /\ stack'[m].pc = stack[m].pc + 1 /\ stack'[m].arg = 1
        /\ stack'[m].varargs = stack[m].varargs /\ stack'[m].list = stack[m].list
    BY <2>1 DEF Frame
  <2>3. \A j \in 1 .. (m - 1) : /\ InstOf(prog, stack', j) = InstOf(prog, stack, j)
                               /\ RestOf(prog, stack', j) = RestOf(prog, stack, j)
    BY <2>1 DEF InstOf, RestOf
  <2>4. InstOf(prog, stack', m).kind = "call" =>
          /\ Len(RestOf(prog, stack', m)) \in Nat
          /\ DOMAIN RestOf(prog, stack', m) = 1 .. Len(RestOf(prog, stack', m))
    <3>1. prog \in Programs /\ stack[m].fn \in DOMAIN prog
      BY <2>1 DEF IInv, Control, Frame
    <3>2. WellFormedInst(prog, prog[stack[m].fn].insts, stack[m].pc + 1)
      BY <2>1, <3>1, ProgramsAssumption
    <3>3. InstOf(prog, stack', m) = prog[stack[m].fn].insts[stack[m].pc + 1]
      BY <2>2 DEF InstOf
    <3>4. InstOf(prog, stack', m).kind = "call" => RestOf(prog, stack', m) \in Seq(ArgTypes)
      BY <3>2, <3>3 DEF WellFormedInst, RestOf
    <3>. QED
      BY <3>4
  <2>5. Control(prog, stack')
    <3>1. ASSUME NEW j \in DOMAIN stack'
          PROVE  /\ stack'[j].pc \in DOMAIN prog[stack'[j].fn].insts
                 /\ stack'[j].arg \in
                      1 .. (IF InstOf(prog, stack', j).kind = "call"
                            THEN Len(RestOf(prog, stack', j)) + 1 ELSE 1)
                 /\ j < Len(stack') => /\ InstOf(prog, stack', j).kind = "call"
                                       /\ stack'[j].arg = Len(RestOf(prog, stack', j)) + 1
      <4>1. CASE j = m
        <5>1. 1 \in 1 .. (IF InstOf(prog, stack', j).kind = "call"
                           THEN Len(RestOf(prog, stack', j)) + 1 ELSE 1)
          BY <2>4, <4>1
        <5>2. ~ (j < Len(stack'))
          BY <2>1, <4>1
        <5>. QED
          BY <2>1, <2>2, <4>1, <5>1, <5>2
      <4>2. CASE j # m
        <5>1. j \in 1 .. (m - 1) /\ j \in DOMAIN stack /\ j < n
          BY <1>1, <2>1, <4>2
        <5>2. /\ stack[j].pc \in DOMAIN prog[stack[j].fn].insts
              /\ stack[j].arg \in 1 .. (IF InstOf(prog, stack, j).kind = "call"
                                      THEN Len(RestOf(prog, stack, j)) + 1 ELSE 1)
              /\ InstOf(prog, stack, j).kind = "call"
              /\ stack[j].arg = Len(RestOf(prog, stack, j)) + 1
          BY <5>1 DEF IInv, Control
        <5>3. /\ stack'[j] = stack[j] /\ InstOf(prog, stack', j) = InstOf(prog, stack, j)
              /\ RestOf(prog, stack', j) = RestOf(prog, stack, j)
          BY <2>1, <2>3, <5>1
        <5>. QED
          BY <5>2, <5>3
      <4>. QED
        BY <4>1, <4>2
    <3>. QED
      BY <2>1, <3>1 DEF IInv, Control
  <2>6. Parameters(prog, stack')
    <3>. SUFFICES ASSUME NEW j \in DOMAIN stack'
                  PROVE  /\ stack'[j].varargs =
                              IF j = 1 \/ RestOf(prog, stack', j - 1) = << >> THEN Unknown
                              ELSE <<Buffer(j - 1, stack'[j - 1].pc), 0>>
                         /\ \/ stack'[j].list = Unknown
                            \/ \E d \in 1 .. (j - 1), i \in Nat \ {0} :
                                 stack'[j].list = <<VaList(d, i), 0>>
      BY DEF Parameters
    <3>1. j \in DOMAIN stack /\ j \in 1 .. m
      BY <1>1, <2>1
    <3>2. /\ stack[j].varargs = IF j = 1 \/ RestOf(prog, stack, j - 1) = << >> THEN Unknown
                                ELSE <<Buffer(j - 1, stack[j - 1].pc), 0>>
          /\ \/ stack[j].list = Unknown
             \/ \E d \in 1 .. (j - 1), i \in Nat \ {0} : stack[j].list = <<VaList(d, i), 0>>
      BY <3>1 DEF IInv, Parameters
    <3>3. j # 1 => /\ stack'[j - 1] = stack[j - 1]
                   /\ RestOf(prog, stack', j - 1) = RestOf(prog, stack, j - 1)
      <4>1. j # 1 => j - 1 \in 1 .. (m - 1)
        BY <2>1, <3>1
      <4>. QED
        BY <2>1, <2>3, <4>1
    <3>4. stack'[j].varargs = stack[j].varargs /\ stack'[j].list = stack[j].list
      <4>1. j = m \/ j \in 1 .. (m - 1)
        BY <2>1, <3>1
      <4>. QED
        BY <2>1, <2>2, <4>1
    <3>. QED
      BY <3>2, <3>3, <3>4
  <2>7. Arguments(prog, stack', mem')
    <3>. SUFFICES ASSUME NEW j \in DOMAIN stack', InstOf(prog, stack', j).kind = "call",
                         NEW i \in DOMAIN RestOf(prog, stack', j), i < stack'[j].arg
                  PROVE  ArgumentIn(mem', <<Buffer(j, stack'[j].pc),
                                            PackedOffset(RestOf(prog, stack', j), i)>>,
                                    RestOf(prog, stack', j)[i])
      BY DEF Arguments
    <3>1. j # m
      BY <2>2, <2>4
    <3>2. j \in 1 .. (m - 1) /\ j \in DOMAIN stack /\ j < n
      BY <1>1, <2>1, <3>1
    <3>3. /\ stack'[j] = stack[j] /\ InstOf(prog, stack', j) = InstOf(prog, stack, j)
          /\ RestOf(prog, stack', j) = RestOf(prog, stack, j)
      BY <2>1, <2>3, <3>2
    <3>. DEFINE q == <<Buffer(j, stack[j].pc), PackedOffset(RestOf(prog, stack, j), i)>>
    <3>4. ArgumentIn(mem, q, RestOf(prog, stack, j)[i])
      BY <3>2, <3>3 DEF IInv, Arguments
    <3>5. q[1][1] < n
      BY <3>2 DEF Buffer
    <3>6. ArgumentIn(mem', q, RestOf(prog, stack, j)[i])
      BY <1>1, <3>4, <3>5 DEF ArgumentIn
    <3>. QED
      BY <3>3, <3>6
  <2>8. Memory(prog, stack', mem')
    <3>. SUFFICES ASSUME NEW p \in DOMAIN mem' PROVE EntryOK(prog, stack', p, mem'[p])
      BY DEF Memory
    <3>1. p \in DOMAIN mem /\ mem'[p] = mem[p] /\ p[1][1] < n
      BY <1>1
    <3>2. EntryOK(prog, stack, p, mem[p]) /\ p[1][1] \in 1 .. n
      BY <1>2, <3>1
    <3>3. p[1][1] <= m /\ DOMAIN stack \subseteq Nat \ {0} /\ 1 .. m \subseteq DOMAIN stack'
          /\ \A b \in 1 .. (m - 1) : stack[b] = stack'[b]
      BY <1>1, <2>1, <3>1, <3>2
    <3>. QED
      BY <2>1, <3>1, <3>2, <3>3, EntryKept
  <2>. QED
    BY <1>1, <2>5, <2>6, <2>7, <2>8 DEF IInv
<1>. QED
  BY <1>3, <1>4

LEMMA Invariant == Spec => []IInv
<1>1. IInv /\ [Next]_vars => IInv'
  <2>. SUFFICES ASSUME IInv, [Next]_vars PROVE IInv'
    OBVIOUS
  <2>1. CASE UNCHANGED vars
    BY <2>1 DEF vars, IInv
  <2>. QED
    BY <2>1, StoreArgumentOK, CallOK, VaStartOK, VaCopyOK, VaArgOK, OtherOK, ReturnOK DEF Next
<1>. QED
  BY <1>1, InitOK, PTL DEF Spec
--------------------------------------------------------------------------------
(* Control is at an instruction of the program, and what is in memory       *)
(* belongs to activations that have not returned.                           *)
THEOREM VarArgsTypeCorrect == Spec => []TypeOK
<1>1. IInv => TypeOK
  <2>. SUFFICES ASSUME IInv PROVE TypeOK
    OBVIOUS
  <2>1. \A a \in Range(stack) :
          /\ a.fn \in DOMAIN prog /\ a.pc \in DOMAIN prog[a.fn].insts
          /\ LET i == prog[a.fn].insts[a.pc]
             IN a.arg \in 1 .. (IF i.kind = "call" THEN Len(i.rest) + 1 ELSE 1)
    <3>. SUFFICES ASSUME NEW j \in DOMAIN stack
                  PROVE  /\ stack[j].fn \in DOMAIN prog
                         /\ stack[j].pc \in DOMAIN prog[stack[j].fn].insts
                         /\ stack[j].arg \in 1 .. (IF InstOf(prog, stack, j).kind = "call"
                                                 THEN Len(RestOf(prog, stack, j)) + 1 ELSE 1)
      BY DEF Range, InstOf, RestOf
    <3>. QED
      BY StackOK DEF IInv, Control
  <2>2. \A p \in DOMAIN mem :
          /\ p[1][1] \in DOMAIN stack /\ p[1][2] \in {"buffer", "va_list"}
          /\ p[2] \in Nat /\ mem[p].size \in {1, 4, 8}
    BY DEF IInv, Memory, EntryOK, Buffer, VaList
  <2>. QED
    BY <2>1, <2>2 DEF TypeOK
<1>. QED
  BY <1>1, Invariant, PTL

(* Whatever lists of arguments there are, and however deep the calls: a     *)
(* va_list that was started points at, or behind, an argument of a call     *)
(* that is pending, and all arguments of that call are in its buffer.       *)
THEOREM ListsPointAtArguments == Spec => []ListsAtArguments
<1>1. IInv => ListsAtArguments
  <2>. SUFFICES ASSUME IInv, NEW l \in DOMAIN mem, l[1][2] = "va_list", mem[l].val # Unknown
                PROVE  LET p == mem[l].val
                           b == p[1]
                       IN /\ b[2] = "buffer"
                          /\ b[1] < Len(stack) /\ stack[b[1]].pc = b[3]
                          /\ StartingAt(p) # {}
                          /\ \A k \in DOMAIN PackedTypes(b) :
                               LET q == <<b, PackedOffset(PackedTypes(b), k)>>
                               IN q \in DOMAIN mem /\ mem[q].size = AllocSize[PackedTypes(b)[k]]
    BY DEF ListsAtArguments
  <2>. DEFINE p == mem[l].val
  <2>1. EntryOK(prog, stack, l, mem[l])
    BY DEF IInv, Memory
  <2>2. PICK d \in DOMAIN stack : PointsBelow(prog, stack, d, p)
    BY <2>1 DEF EntryOK, Buffer
  <2>3. d \in 1 .. Len(stack)
    BY StackOK DEF IInv
  <2>4. PICK b \in 1 .. (d - 1) : LET types == RestOf(prog, stack, b) IN
          /\ b \in DOMAIN stack /\ b < Len(stack) /\ InstOf(prog, stack, b).kind = "call"
          /\ types # << >> /\ types \in Seq(ArgTypes) /\ Len(types) \in Nat
          /\ PackedTypes(p[1]) = types
          /\ \E k \in 1 .. (Len(types) + 1) :
               /\ p = <<Buffer(b, stack[b].pc), PackedOffset(types, k)>>
               /\ StartingAt(p) = {k}
    BY <2>2, <2>3, NextArgument
  <2>. DEFINE types == RestOf(prog, stack, b)
  <2>5. /\ p[1] = Buffer(b, stack[b].pc) /\ StartingAt(p) # {}
        /\ p[1][1] = b /\ p[1][2] = "buffer" /\ p[1][3] = stack[b].pc
    <3>1. PICK k \in 1 .. (Len(types) + 1) :
            p = <<Buffer(b, stack[b].pc), PackedOffset(types, k)>> /\ StartingAt(p) = {k}
      BY <2>4
    <3>2. p[1] = Buffer(b, stack[b].pc) /\ StartingAt(p) # {}
      BY <3>1
    <3>. QED
      BY <3>2 DEF Buffer
  <2>6. ASSUME NEW k \in DOMAIN types
        PROVE  LET q == <<p[1], PackedOffset(types, k)>>
               IN q \in DOMAIN mem /\ mem[q].size = AllocSize[types[k]]
    <3>1. stack[b].arg = Len(types) + 1
      BY <2>4 DEF IInv, Control
    <3>2. k < stack[b].arg
      BY <2>4, <3>1
    <3>3. ArgumentIn(mem, <<Buffer(b, stack[b].pc), PackedOffset(types, k)>>, types[k])
      BY <2>4, <3>2 DEF IInv, Arguments
    <3>. QED
      BY <2>5, <3>3 DEF ArgumentIn
  <2>. QED
    BY <2>4, <2>5, <2>6
<1>. QED
  BY <1>1, Invariant, PTL
--------------------------------------------------------------------------------
(* The refinement mapping, in terms of a program, a stack and a memory.     *)
Val(m, p) == IF p \in DOMAIN m THEN m[p].val ELSE Unknown

TypesAt(r, s, b) == r[s[b[1]].fn].insts[b[3]].rest

StartsAt(r, s, p) ==
  {k \in 1 .. (Len(TypesAt(r, s, p[1])) + 1) : PackedOffset(TypesAt(r, s, p[1]), k) = p[2]}

Args(r, s, m, v) ==
  IF v = Unknown THEN << >>
  ELSE LET types == TypesAt(r, s, v[1])
           first == CHOOSE k \in StartsAt(r, s, v) : TRUE
       IN [k \in 1 .. (Len(types) + 1 - first) |->
             [type |-> types[k + first - 1],
              val |-> Val(m, <<v[1], PackedOffset(types, k + first - 1)>>)]]

StackBar(r, s, m) ==
  [d \in DOMAIN s |->
     [fn |-> s[d].fn, pc |-> s[d].pc,
      rest |-> Args(r, s, m, s[d].varargs), list |-> ListId(s[d].list)]]

ListsBar(r, s, m) ==
  [l \in {ListId(p) : p \in {q \in DOMAIN m : q[1][2] = "va_list"}} |->
     Args(r, s, m, m[<<VaList(l[1], l[2]), 0>>].val)]

LEMMA Bars ==
  /\ AbstractStack = StackBar(prog, stack, mem) /\ AbstractLists = ListsBar(prog, stack, mem)
  /\ AbstractStack' = StackBar(prog', stack', mem')
  /\ AbstractLists' = ListsBar(prog', stack', mem')
BY DEF AbstractStack, AbstractLists, StackBar, ListsBar, StartedLists, ArgumentsFrom, Args,
       PackedTypes, TypesAt, StartingAt, StartsAt, Read, Val, ListId

(* What a pointer to the k-th argument in a buffer stands for.              *)
ArgumentAt(m, b, types, i) ==
  [type |-> types[i], val |-> Val(m, <<b, PackedOffset(types, i)>>)]

ArgList(m, b, types, k) ==
  [j \in 1 .. (Len(types) + 1 - k) |-> ArgumentAt(m, b, types, j + k - 1)]

LEMMA ArgsAt ==
  ASSUME NEW r, NEW s, NEW m, NEW b \in Nat, NEW i \in Nat, s[b].pc = i,
         NEW types \in Seq(ArgTypes), RestOf(r, s, b) = types, NEW k \in 1 .. (Len(types) + 1)
  PROVE  Args(r, s, m, <<Buffer(b, i), PackedOffset(types, k)>>)
           = ArgList(m, Buffer(b, i), types, k)
<1>. DEFINE v == <<Buffer(b, i), PackedOffset(types, k)>>
<1>1. v # Unknown
  <2>1. PackedOffset(types, k) \in Nat
    BY PackedStep
  <2>. QED
    BY <2>1, PointersApart
<1>2. v[1] = Buffer(b, i) /\ v[2] = PackedOffset(types, k)
  OBVIOUS
<1>3. TypesAt(r, s, v[1]) = types
  BY <1>2 DEF TypesAt, Buffer, RestOf, InstOf
<1>4. StartsAt(r, s, v) = {k}
  <2>1. \A j \in 1 .. (Len(types) + 1) : PackedOffset(types, j) = PackedOffset(types, k) => j = k
    BY PackedInjective
  <2>. QED
    BY <1>2, <1>3, <2>1 DEF StartsAt
<1>5. (CHOOSE j \in StartsAt(r, s, v) : TRUE) = k
  BY <1>4
<1>. HIDE DEF v
<1>6. Args(r, s, m, v) = ArgList(m, v[1], types, k)
  BY <1>1, <1>3, <1>5 DEF Args, ArgList, ArgumentAt
<1>. QED
  BY <1>2, <1>6 DEF v

(* The activations below the n-th and their buffers are the same.           *)
Agree(s, m, t, w, n) ==
  /\ \A b \in 1 .. (n - 1) : t[b] = s[b]
  /\ \A q \in DOMAIN m : q[1][2] = "buffer" /\ q[1][1] < n => q \in DOMAIN w /\ w[q] = m[q]

(* A list of arguments stays the same as long as the activations and the    *)
(* buffers below it do.                                                     *)
LEMMA ArgsSame ==
  ASSUME NEW r, NEW s, NEW m, NEW t, NEW w, Control(r, s), Arguments(r, s, m),
         NEW d \in 1 .. Len(s), Agree(s, m, t, w, d),
         NEW v, v = Unknown \/ PointsBelow(r, s, d, v)
  PROVE  Args(r, t, w, v) = Args(r, s, m, v)
<1>1. CASE v = Unknown
  BY <1>1 DEF Args
<1>2. CASE PointsBelow(r, s, d, v)
  <2>1. PICK b \in 1 .. (d - 1) : \E k \in 1 .. (Len(RestOf(r, s, b)) + 1) :
          v = <<Buffer(b, s[b].pc), PackedOffset(RestOf(r, s, b), k)>>
    BY <1>2 DEF PointsBelow
  <2>. DEFINE types == RestOf(r, s, b)
              at(i) == <<Buffer(b, s[b].pc), PackedOffset(types, i)>>
  <2>2. PICK k \in 1 .. (Len(types) + 1) : v = at(k)
    BY <2>1
  <2>3. /\ Len(s) \in Nat /\ b \in Nat /\ b \in DOMAIN s /\ b < Len(s) /\ b < d
        /\ t[b] = s[b] /\ RestOf(r, t, b) = types
    <3>1. Len(s) \in Nat /\ DOMAIN s = 1 .. Len(s)
      BY StackOK
    <3>2. b \in Nat /\ b \in DOMAIN s /\ b < Len(s) /\ b < d
      BY <3>1
    <3>3. t[b] = s[b]
      BY DEF Agree
    <3>. QED
      BY <3>1, <3>2, <3>3 DEF RestOf, InstOf
  <2>4. /\ InstOf(r, s, b).kind = "call" /\ s[b].arg = Len(types) + 1
        /\ types \in Seq(ArgTypes) /\ DOMAIN types = 1 .. Len(types) /\ Len(types) \in Nat
        /\ s[b].pc \in Nat
    BY <2>3, StackOK DEF Control
  <2>5. ASSUME NEW i \in DOMAIN types PROVE Val(w, at(i)) = Val(m, at(i))
    <3>1. i < s[b].arg
      BY <2>4
    <3>2. at(i) \in DOMAIN m
      BY <2>3, <2>4, <3>1 DEF Arguments, ArgumentIn
    <3>3. at(i)[1][2] = "buffer" /\ at(i)[1][1] < d
      BY <2>3 DEF Buffer
    <3>. QED
      BY <3>2, <3>3 DEF Val, Agree
  <2>6. /\ Args(r, s, m, v) = ArgList(m, Buffer(b, s[b].pc), types, k)
        /\ Args(r, t, w, v) = ArgList(w, Buffer(b, s[b].pc), types, k)
    BY <2>2, <2>3, <2>4, ArgsAt
  <2>7. \A i \in 1 .. (Len(types) + 1 - k) : i + k - 1 \in DOMAIN types
    BY <2>2, <2>4
  <2>. QED
    BY <2>5, <2>6, <2>7 DEF ArgList, ArgumentAt
<1>. QED
  BY <1>1, <1>2

LEMMA ArgsAgree ==
  ASSUME NEW r, NEW s, NEW m, NEW t, NEW w, Control(r, s), Arguments(r, s, m), Memory(r, s, m),
         NEW n \in Nat, Agree(s, m, t, w, n), NEW d \in 1 .. Len(s), d <= n,
         NEW v, v = Unknown \/ PointsBelow(r, s, d, v)
  PROVE  Args(r, t, w, v) = Args(r, s, m, v)
<1>1. Len(s) \in Nat /\ DOMAIN s = 1 .. Len(s)
  BY StackOK
<1>2. \A b \in 1 .. (d - 1) : t[b] = s[b]
  BY <1>1 DEF Agree
<1>3. ASSUME NEW q \in DOMAIN m, q[1][2] = "buffer", q[1][1] < d
      PROVE  q \in DOMAIN w /\ w[q] = m[q]
  <2>1. q[1][1] \in 1 .. Len(s)
    BY <1>1, EntryDepth DEF Memory
  <2>2. q[1][1] < n
    BY <1>1, <1>3, <2>1
  <2>. QED
    BY <1>3, <2>2 DEF Agree
<1>4. Agree(s, m, t, w, d)
  BY <1>2, <1>3 DEF Agree
<1>. QED
  BY <1>4, ArgsSame

(* The va_lists of the abstract specification are those in memory.          *)
LEMMA ListsShape ==
  ASSUME NEW r, NEW s, NEW m, Control(r, s), Memory(r, s, m)
  PROVE  /\ ListsBar(r, s, m) =
              [l \in DOMAIN ListsBar(r, s, m) |-> ListsBar(r, s, m)[l]]
         /\ \A l \in DOMAIN ListsBar(r, s, m) :
              \E d \in DOMAIN s, i \in Nat \ {0} :
                /\ l = <<d, i>> /\ <<VaList(d, i), 0>> \in DOMAIN m
                /\ LET v == m[<<VaList(d, i), 0>>].val
                   IN v = Unknown \/ PointsBelow(r, s, d, v)
         /\ \A d \in Nat, i \in Nat : <<VaList(d, i), 0>> \in DOMAIN m =>
              /\ <<d, i>> \in DOMAIN ListsBar(r, s, m)
              /\ ListsBar(r, s, m)[<<d, i>>] = Args(r, s, m, m[<<VaList(d, i), 0>>].val)
<1>. DEFINE started == {q \in DOMAIN m : q[1][2] = "va_list"}
<1>1. DOMAIN ListsBar(r, s, m) = {ListId(p) : p \in started}
  BY DEF ListsBar
<1>2. ASSUME NEW d \in Nat, NEW i \in Nat PROVE ListId(<<VaList(d, i), 0>>) = <<d, i>>
  <2>1. <<VaList(d, i), 0>> # Unknown
    BY PointersApart
  <2>. QED
    BY <2>1 DEF ListId, VaList
<1>3. ASSUME NEW p \in started
      PROVE  \E d \in DOMAIN s, i \in Nat \ {0} :
               /\ p = <<VaList(d, i), 0>>
               /\ m[p].val = Unknown \/ PointsBelow(r, s, d, m[p].val)
  <2>1. EntryOK(r, s, p, m[p]) /\ p[1][2] = "va_list"
    BY DEF Memory
  <2>2. ~ \E d \in DOMAIN s, n \in Nat, o \in Nat : p = <<Buffer(d, n), o>>
    BY <2>1 DEF Buffer
  <2>. QED
    BY <2>1, <2>2 DEF EntryOK
<1>4. DOMAIN s \subseteq Nat
  BY StackOK
<1>5. ASSUME NEW l \in DOMAIN ListsBar(r, s, m)
      PROVE  \E d \in DOMAIN s, i \in Nat \ {0} :
               /\ l = <<d, i>> /\ <<VaList(d, i), 0>> \in DOMAIN m
               /\ LET v == m[<<VaList(d, i), 0>>].val
                  IN v = Unknown \/ PointsBelow(r, s, d, v)
  <2>1. PICK p \in started : l = ListId(p)
    BY <1>1
  <2>2. PICK d \in DOMAIN s, i \in Nat \ {0} :
          /\ p = <<VaList(d, i), 0>>
          /\ m[p].val = Unknown \/ PointsBelow(r, s, d, m[p].val)
    BY <1>3
  <2>3. l = <<d, i>>
    BY <1>2, <1>4, <2>1, <2>2
  <2>. QED
    BY <2>2, <2>3
<1>6. ASSUME NEW d \in Nat, NEW i \in Nat, <<VaList(d, i), 0>> \in DOMAIN m
      PROVE  /\ <<d, i>> \in DOMAIN ListsBar(r, s, m)
             /\ ListsBar(r, s, m)[<<d, i>>] = Args(r, s, m, m[<<VaList(d, i), 0>>].val)
  <2>1. <<VaList(d, i), 0>> \in started
    BY <1>6 DEF VaList
  <2>2. <<d, i>> \in DOMAIN ListsBar(r, s, m)
    BY <1>1, <1>2, <2>1
  <2>3. <<d, i>>[1] = d /\ <<d, i>>[2] = i
    OBVIOUS
  <2>. QED
    BY <1>1, <2>2, <2>3 DEF ListsBar
<1>7. ListsBar(r, s, m) = [l \in DOMAIN ListsBar(r, s, m) |-> ListsBar(r, s, m)[l]]
  BY DEF ListsBar
<1>. QED
  BY <1>5, <1>6, <1>7

LEMMA ListNumbers ==
  ASSUME NEW r, NEW s, NEW m, Control(r, s), Memory(r, s, m), NEW l \in DOMAIN ListsBar(r, s, m)
  PROVE  \E d \in DOMAIN s, i \in Nat \ {0} : l = <<d, i>>
<1>1. PICK d \in DOMAIN s, i \in Nat \ {0} : l = <<d, i>> /\ <<VaList(d, i), 0>> \in DOMAIN m
  BY ListsShape
<1>. QED
  BY <1>1

(* A va_list that is not written stands for the same arguments.             *)
LEMMA ListKept ==
  ASSUME NEW r, NEW s, NEW m, NEW t, NEW w, Control(r, s), Arguments(r, s, m), Memory(r, s, m),
         Control(r, t), Memory(r, t, w), NEW n \in Nat, Agree(s, m, t, w, n),
         NEW d \in DOMAIN s, d <= n, NEW i \in Nat \ {0},
         <<VaList(d, i), 0>> \in DOMAIN m, <<VaList(d, i), 0>> \in DOMAIN w,
         w[<<VaList(d, i), 0>>] = m[<<VaList(d, i), 0>>]
  PROVE  /\ <<d, i>> \in DOMAIN ListsBar(r, s, m) /\ <<d, i>> \in DOMAIN ListsBar(r, t, w)
         /\ ListsBar(r, t, w)[<<d, i>>] = ListsBar(r, s, m)[<<d, i>>]
<1>. DEFINE p == <<VaList(d, i), 0>>
<1>1. d \in Nat /\ d \in 1 .. Len(s)
  BY StackOK
<1>2. /\ <<d, i>> \in DOMAIN ListsBar(r, s, m) /\ <<d, i>> \in DOMAIN ListsBar(r, t, w)
      /\ ListsBar(r, s, m)[<<d, i>>] = Args(r, s, m, m[p].val)
      /\ ListsBar(r, t, w)[<<d, i>>] = Args(r, t, w, m[p].val)
  BY <1>1, ListsShape
<1>3. m[p].val = Unknown \/ PointsBelow(r, s, d, m[p].val)
  <2>1. EntryOK(r, s, p, m[p])
    BY DEF Memory
  <2>. QED
    BY <2>1 DEF EntryOK, VaList, Buffer
<1>. DEFINE v == m[p].val
<1>4. v = Unknown \/ PointsBelow(r, s, d, v)
  BY <1>3
<1>. HIDE DEF v
<1>5. Args(r, t, w, v) = Args(r, s, m, v)
  <2>1. CASE v = Unknown
    BY <2>1 DEF Args
  <2>2. CASE PointsBelow(r, s, d, v)
    BY <1>1, <2>2, ArgsAgree
  <2>. QED
    BY <1>4, <2>1, <2>2
<1>. QED
  BY <1>2, <1>5 DEF v

(* Sequences that differ in the last element, or by one more.               *)
HasLength(f, n) == f = [i \in 1 .. n |-> f[i]]

LEMMA SequenceOf ==
  ASSUME NEW n \in Nat, NEW f, HasLength(f, n), NEW S, \A i \in 1 .. n : f[i] \in S
  PROVE  f \in Seq(S) /\ Len(f) = n
BY DEF HasLength

LEMMA LastReplaced ==
  ASSUME NEW n \in Nat \ {0}, NEW f, NEW g,
         HasLength(f, n), HasLength(g, n),
         \A i \in 1 .. (n - 1) : g[i] = f[i]
  PROVE  g = Append(Front(f), g[n])
<1>. DEFINE S == {f[i] : i \in 1 .. n} \cup {g[i] : i \in 1 .. n}
<1>0. \A i \in 1 .. n : f[i] \in S /\ g[i] \in S
  OBVIOUS
<1>. HIDE DEF S
<1>1. f \in Seq(S) /\ Len(f) = n /\ g \in Seq(S) /\ Len(g) = n /\ g[n] \in S
  BY <1>0, SequenceOf
<1>2. f # << >>
  BY <1>1
<1>3. /\ Front(f) \in Seq(S) /\ Len(Front(f)) = n - 1
      /\ \A i \in 1 .. (n - 1) : Front(f)[i] = f[i]
  BY <1>1, <1>2, FrontOK
<1>. DEFINE e == g[n]
            h == Front(f)
<1>4. e \in S /\ h \in Seq(S) /\ Len(h) = n - 1 /\ \A i \in 1 .. (n - 1) : h[i] = f[i]
  BY <1>1, <1>3
<1>. HIDE DEF e, h
<1>5. /\ Append(h, e) \in Seq(S) /\ Len(Append(h, e)) = n
      /\ \A i \in 1 .. (n - 1) : Append(h, e)[i] = h[i]
      /\ Append(h, e)[n] = e
  BY <1>4, AppendProperties
<1>6. \A i \in 1 .. Len(g) : g[i] = Append(h, e)[i]
  <2>. SUFFICES ASSUME NEW i \in 1 .. Len(g) PROVE g[i] = Append(h, e)[i]
    OBVIOUS
  <2>1. CASE i = n
    BY <1>5, <2>1 DEF e
  <2>2. CASE i # n
    <3>1. i \in 1 .. (n - 1)
      BY <1>1, <2>2
    <3>. QED
      BY <1>4, <1>5, <3>1
  <2>. QED
    BY <2>1, <2>2
<1>7. g = Append(h, e)
  BY <1>1, <1>5, <1>6, SeqEqual
<1>. QED
  BY <1>7 DEF h, e

LEMMA OneAppended ==
  ASSUME NEW n \in Nat, NEW f, NEW g,
         HasLength(f, n), HasLength(g, n + 1),
         \A i \in 1 .. n : g[i] = f[i]
  PROVE  g = Append(f, g[n + 1])
<1>. DEFINE S == {f[i] : i \in 1 .. n} \cup {g[i] : i \in 1 .. (n + 1)}
<1>0. (\A i \in 1 .. n : f[i] \in S) /\ (\A i \in 1 .. (n + 1) : g[i] \in S)
  OBVIOUS
<1>. HIDE DEF S
<1>1. f \in Seq(S) /\ Len(f) = n /\ g \in Seq(S) /\ Len(g) = n + 1 /\ g[n + 1] \in S
  BY <1>0, SequenceOf
<1>2. /\ Append(f, g[n + 1]) \in Seq(S) /\ Len(Append(f, g[n + 1])) = n + 1
      /\ \A i \in 1 .. n : Append(f, g[n + 1])[i] = f[i]
      /\ Append(f, g[n + 1])[n + 1] = g[n + 1]
  BY <1>1, AppendProperties
<1>3. \A i \in 1 .. Len(g) : g[i] = Append(f, g[n + 1])[i]
  BY <1>1, <1>2
<1>. QED
  BY <1>1, <1>2, <1>3, SeqEqual
--------------------------------------------------------------------------------
(* The activations of the abstract specification.                           *)
LEMMA StackShape ==
  ASSUME NEW r, NEW s, NEW m, Control(r, s)
  PROVE  /\ HasLength(StackBar(r, s, m), Len(s))
         /\ \A d \in 1 .. Len(s) :
              StackBar(r, s, m)[d] =
                [fn |-> s[d].fn, pc |-> s[d].pc,
                 rest |-> Args(r, s, m, s[d].varargs), list |-> ListId(s[d].list)]
BY StackOK DEF StackBar, HasLength

LEMMA RestKept ==
  ASSUME NEW r, NEW s, NEW m, NEW t, NEW w, Control(r, s), Parameters(r, s),
         Arguments(r, s, m), Memory(r, s, m), NEW n \in Nat, Agree(s, m, t, w, n),
         NEW d \in 1 .. Len(s), d <= n, t[d].varargs = s[d].varargs
  PROVE  Args(r, t, w, t[d].varargs) = Args(r, s, m, s[d].varargs)
<1>. DEFINE v == s[d].varargs
<1>1. d \in DOMAIN s
  BY StackOK
<1>2. v = Unknown \/ PointsBelow(r, s, d, v)
  BY <1>1, VarargsPoint
<1>. HIDE DEF v
<1>3. Args(r, t, w, v) = Args(r, s, m, v)
  <2>1. CASE v = Unknown
    BY <2>1 DEF Args
  <2>2. CASE PointsBelow(r, s, d, v)
    BY <2>2, ArgsAgree
  <2>. QED
    BY <1>2, <2>1, <2>2
<1>. QED
  BY <1>3 DEF v

(* What the abstract specification's definitions are of this state.         *)
LEMMA AbstractTop ==
  ASSUME IInv, stack # << >>
  PROVE  LET n == Len(stack) IN
         /\ HasLength(AbstractStack, n)
         /\ \A d \in 1 .. n :
              AbstractStack[d] =
                [fn |-> stack[d].fn, pc |-> stack[d].pc,
                 rest |-> Args(prog, stack, mem, stack[d].varargs),
                 list |-> ListId(stack[d].list)]
         /\ Len(AbstractStack) = n /\ AbstractStack # << >>
         /\ Abstract!Top = AbstractStack[n] /\ Abstract!Current = Current
         /\ Abstract!Top.pc = Top.pc
         /\ Abstract!Top.rest = Args(prog, stack, mem, Top.varargs)
         /\ \A kind : Abstract!At(kind) <=> Current.kind = kind
         /\ \A k \in Nat : Abstract!ListOf(k) = ListId(ListOf(k))
<1>. DEFINE n == Len(stack)
            A == AbstractStack
<1>1. /\ n \in Nat \ {0} /\ DOMAIN stack = 1 .. n /\ Top = stack[n]
      /\ Top.pc \in DOMAIN prog[Top.fn].insts /\ Current = prog[Top.fn].insts[Top.pc]
  BY CurrentOK
<1>2. A = StackBar(prog, stack, mem)
  BY Bars
<1>3. /\ HasLength(A, n)
      /\ \A d \in 1 .. n :
           A[d] = [fn |-> stack[d].fn, pc |-> stack[d].pc,
                   rest |-> Args(prog, stack, mem, stack[d].varargs),
                   list |-> ListId(stack[d].list)]
  BY <1>2, StackShape DEF IInv
<1>4. Len(A) = n
  <2>. DEFINE S == {A[d] : d \in 1 .. n}
  <2>1. \A d \in 1 .. n : A[d] \in S
    OBVIOUS
  <2>. HIDE DEF S, A
  <2>. QED
    BY <1>1, <1>3, <2>1, SequenceOf
<1>5. A # << >> /\ n \in 1 .. n
  BY <1>1, <1>4
<1>6. Abstract!Top = A[n]
  BY <1>4 DEF Abstract!Top, Abstract!Last
<1>7. /\ A[n].fn = Top.fn /\ A[n].pc = Top.pc /\ A[n].list = ListId(Top.list)
      /\ A[n].rest = Args(prog, stack, mem, Top.varargs)
  <2>1. A[n] = [fn |-> Top.fn, pc |-> Top.pc,
                rest |-> Args(prog, stack, mem, Top.varargs), list |-> ListId(Top.list)]
    BY <1>1, <1>3, <1>5
  <2>. QED
    BY <2>1
<1>8. Abstract!Current = Current
  BY <1>1, <1>6, <1>7 DEF Abstract!Current
<1>9. \A kind : Abstract!At(kind) <=> Current.kind = kind
  BY <1>1, <1>5, <1>6, <1>7, <1>8 DEF Abstract!At
<1>10. ASSUME NEW k \in Nat PROVE Abstract!ListOf(k) = ListId(ListOf(k))
  <2>1. CASE k = 0
    BY <1>6, <1>7, <2>1 DEF Abstract!ListOf, ListOf
  <2>2. CASE k # 0
    <3>1. <<VaList(n, k), 0>> # Unknown
      BY <1>1, PointersApart
    <3>2. ListId(<<VaList(n, k), 0>>) = <<n, k>>
      BY <3>1 DEF ListId, VaList
    <3>. QED
      BY <1>4, <2>2, <3>2 DEF Abstract!ListOf, ListOf
  <2>. QED
    BY <2>1, <2>2
<1>. QED
  BY <1>3, <1>4, <1>5, <1>6, <1>7, <1>8, <1>9, <1>10

(* All fields of an activation but pc stay.                                 *)
LEMMA Record ==
  ASSUME NEW f, NEW i, NEW x, NEW l, NEW k
  PROVE  [[fn |-> f, pc |-> i, rest |-> x, list |-> l] EXCEPT !.pc = k] =
           [fn |-> f, pc |-> k, rest |-> x, list |-> l]
OBVIOUS

(* An activation that keeps its function and what it was passed.            *)
LEMMA ElementBar ==
  ASSUME IInv, IInv', prog' = prog, NEW c \in Nat, Agree(stack, mem, stack', mem', c),
         NEW d \in 1 .. Len(stack), d \in 1 .. Len(stack'), d <= c,
         stack'[d].fn = stack[d].fn, stack'[d].varargs = stack[d].varargs,
         stack'[d].list = stack[d].list
  PROVE  /\ AbstractStack'[d] = [AbstractStack[d] EXCEPT !.pc = stack'[d].pc]
         /\ stack'[d].pc = stack[d].pc => AbstractStack'[d] = AbstractStack[d]
<1>. DEFINE at == Args(prog, stack, mem, stack[d].varargs)
            on == Args(prog, stack', mem', stack'[d].varargs)
            A == AbstractStack
<1>1. A[d] = [fn |-> stack[d].fn, pc |-> stack[d].pc, rest |-> at, list |-> ListId(stack[d].list)]
  BY StackShape, Bars DEF IInv
<1>2. A'[d] = [fn |-> stack'[d].fn, pc |-> stack'[d].pc, rest |-> on,
               list |-> ListId(stack'[d].list)]
  <2>1. Control(prog, stack') /\ A' = StackBar(prog, stack', mem')
    BY Bars DEF IInv
  <2>. QED
    BY <2>1, StackShape
<1>3. on = at
  BY RestKept DEF IInv
<1>. HIDE DEF at, on, A
<1>4. A'[d] = [A[d] EXCEPT !.pc = stack'[d].pc]
  BY <1>1, <1>2, <1>3, Record
<1>5. stack'[d].pc = stack[d].pc => A'[d] = A[d]
  BY <1>1, <1>2, <1>3
<1>. QED
  BY <1>4, <1>5 DEF A

(* The last activation goes on.                                             *)
LEMMA StaysBar ==
  ASSUME IInv, IInv', Stays, Agree(stack, mem, stack', mem', Len(stack))
  PROVE  LET n == Len(stack) IN
         /\ n \in Nat \ {0}
         /\ HasLength(AbstractStack, n) /\ HasLength(AbstractStack', n)
         /\ \A d \in 1 .. (n - 1) : AbstractStack'[d] = AbstractStack[d]
         /\ AbstractStack'[n] = [AbstractStack[n] EXCEPT !.pc = stack'[n].pc]
         /\ stack'[n].pc = stack[n].pc => AbstractStack'[n] = AbstractStack[n]
<1>. DEFINE n == Len(stack)
<1>1. /\ n \in Nat \ {0} /\ DOMAIN stack = 1 .. n /\ Top = stack[n]
      /\ prog' = prog /\ Len(stack') = n
  BY CurrentOK DEF Stays
<1>2. HasLength(AbstractStack, n) /\ HasLength(AbstractStack', n)
  <2>1. /\ Control(prog, stack) /\ Control(prog, stack')
        /\ AbstractStack = StackBar(prog, stack, mem) /\ AbstractStack' = StackBar(prog, stack', mem')
    BY <1>1, Bars DEF IInv
  <2>. QED
    BY <1>1, <2>1, StackShape
<1>3. ASSUME NEW d \in 1 .. (n - 1) PROVE AbstractStack'[d] = AbstractStack[d]
  <2>1. d \in 1 .. n /\ d <= n /\ stack'[d] = stack[d]
    BY <1>1 DEF Stays
  <2>. QED
    BY <1>1, <2>1, ElementBar
<1>4. /\ AbstractStack'[n] = [AbstractStack[n] EXCEPT !.pc = stack'[n].pc]
      /\ stack'[n].pc = stack[n].pc => AbstractStack'[n] = AbstractStack[n]
  <2>1. /\ n \in 1 .. n /\ n <= n /\ stack'[n].fn = stack[n].fn
        /\ stack'[n].varargs = stack[n].varargs /\ stack'[n].list = stack[n].list
    BY <1>1 DEF Stays
  <2>. QED
    BY <1>1, <2>1, ElementBar
<1>. QED
  BY <1>1, <1>2, <1>3, <1>4

LEMMA ContinueBar ==
  ASSUME IInv, IInv', Stays, Agree(stack, mem, stack', mem', Len(stack)),
         NEW k, stack'[Len(stack)] = [Top EXCEPT !.pc = k]
  PROVE  Abstract!Continue(k)
<1>. DEFINE n == Len(stack)
            f == AbstractStack
            g == AbstractStack'
<1>1. /\ n \in Nat \ {0} /\ HasLength(f, n) /\ HasLength(g, n)
      /\ \A d \in 1 .. (n - 1) : g[d] = f[d]
      /\ g[n] = [f[n] EXCEPT !.pc = stack'[n].pc]
  BY StaysBar
<1>2. Top \in Frame(prog) /\ Abstract!Top = f[n]
  BY CurrentOK, AbstractTop DEF Stays
<1>3. stack'[n].pc = k
  BY <1>2 DEF Frame
<1>. HIDE DEF f, g, n
<1>4. g = Append(Front(f), g[n])
  BY <1>1, LastReplaced
<1>5. Front(f) = Abstract!Front(f)
  BY DEF Front, Abstract!Front
<1>. QED
  BY <1>1, <1>2, <1>3, <1>4, <1>5 DEF Abstract!Continue, f, g

(* A pointer is stored in a va_list: the list is another from then on.      *)
LEMMA ListWrittenBar ==
  ASSUME IInv, IInv', Stays, NEW d \in 1 .. Len(stack), NEW k \in Nat \ {0}, NEW v,
         mem' = Write(<<VaList(d, k), 0>>, 4, v),
         v = Unknown \/ PointsBelow(prog, stack, d, v)
  PROVE  /\ Agree(stack, mem, stack', mem', Len(stack))
         /\ AbstractLists' = Abstract!With(AbstractLists, <<d, k>>, Args(prog, stack, mem, v))
<1>. DEFINE n == Len(stack)
            p == <<VaList(d, k), 0>>
            L == ListsBar(prog, stack, mem)
            M == ListsBar(prog, stack', mem')
<1>1. n \in Nat /\ DOMAIN stack = 1 .. n /\ prog' = prog /\ DOMAIN stack' = 1 .. n
  BY StackOK, StaysKeeps DEF Stays, IInv
<1>2. p[1] = VaList(d, k) /\ VaList(d, k)[2] = "va_list" /\ d \in Nat
  BY <1>1 DEF VaList
<1>3. /\ p \in DOMAIN mem' /\ mem'[p].val = v
      /\ \A q \in DOMAIN mem' \ {p} : q \in DOMAIN mem /\ mem'[q] = mem[q]
      /\ \A q \in DOMAIN mem : q[1] # p[1] => q \in DOMAIN mem' /\ mem'[q] = mem[q]
  <2>. HIDE DEF p
  <2>1. mem' = Write(p, 4, v)
    BY DEF p
  <2>. DEFINE w == Write(p, 4, v)
  <2>2. /\ p \in DOMAIN w /\ w[p] = [size |-> 4, val |-> v]
        /\ \A q \in DOMAIN w \ {p} : q \in DOMAIN mem /\ w[q] = mem[q]
        /\ \A q \in DOMAIN mem :
             q # p /\ (q[1] = p[1] => q[2] + mem[q].size <= p[2] \/ p[2] + 4 <= q[2]) =>
               q \in DOMAIN w /\ w[q] = mem[q]
    BY WriteOK
  <2>3. mem' = w
    BY <2>1
  <2>. HIDE DEF w
  <2>4. [size |-> 4, val |-> v].val = v
    OBVIOUS
  <2>5. \A q \in DOMAIN mem : q[1] # p[1] => q # p
    OBVIOUS
  <2>. QED
    BY <2>2, <2>3, <2>4, <2>5
<1>4. Agree(stack, mem, stack', mem', n)
  BY <1>1, <1>2, <1>3 DEF Agree, Stays
<1>5. /\ Control(prog, stack) /\ Arguments(prog, stack, mem) /\ Memory(prog, stack, mem)
      /\ Control(prog, stack') /\ Memory(prog, stack', mem')
  BY <1>1 DEF IInv
<1>6. M[<<d, k>>] = Args(prog, stack, mem, v) /\ <<d, k>> \in DOMAIN M
  <2>1. M[<<d, k>>] = Args(prog, stack', mem', v) /\ <<d, k>> \in DOMAIN M
    BY <1>2, <1>3, <1>5, ListsShape
  <2>2. Args(prog, stack', mem', v) = Args(prog, stack, mem, v)
    <3>1. CASE v = Unknown
      BY <3>1 DEF Args
    <3>2. CASE PointsBelow(prog, stack, d, v)
      BY <1>1, <1>4, <1>5, <3>2, ArgsAgree
    <3>. QED
      BY <3>1, <3>2
  <2>. QED
    BY <2>1, <2>2
<1>7. ASSUME NEW i \in DOMAIN stack, NEW j \in Nat \ {0}, <<i, j>> # <<d, k>>,
             <<VaList(i, j), 0>> \in DOMAIN mem \/ <<VaList(i, j), 0>> \in DOMAIN mem'
      PROVE  /\ <<i, j>> \in DOMAIN L /\ <<i, j>> \in DOMAIN M /\ M[<<i, j>>] = L[<<i, j>>]
  <2>. DEFINE q == <<VaList(i, j), 0>>
  <2>1. q[1] # p[1] /\ q # p
    BY <1>7 DEF VaList
  <2>2. q \in DOMAIN mem /\ q \in DOMAIN mem' /\ mem'[q] = mem[q]
    BY <1>3, <1>7, <2>1
  <2>3. i <= n
    BY <1>1
  <2>. QED
    BY <1>1, <1>4, <1>5, <2>2, <2>3, ListKept
<1>8. DOMAIN M = DOMAIN L \cup {<<d, k>>}
  <2>1. ASSUME NEW l \in DOMAIN M PROVE l \in DOMAIN L \cup {<<d, k>>}
    <3>1. PICK i \in DOMAIN stack', j \in Nat \ {0} :
            l = <<i, j>> /\ <<VaList(i, j), 0>> \in DOMAIN mem'
      BY <1>5, ListsShape
    <3>. QED
      BY <1>1, <1>7, <3>1
  <2>2. ASSUME NEW l \in DOMAIN L PROVE l \in DOMAIN M
    <3>1. PICK i \in DOMAIN stack, j \in Nat \ {0} :
            l = <<i, j>> /\ <<VaList(i, j), 0>> \in DOMAIN mem
      BY <1>5, ListsShape
    <3>. QED
      BY <1>6, <1>7, <3>1
  <2>. QED
    BY <1>6, <2>1, <2>2
<1>9. ASSUME NEW l \in DOMAIN M, l # <<d, k>> PROVE M[l] = L[l]
  <2>1. PICK i \in DOMAIN stack', j \in Nat \ {0} :
          l = <<i, j>> /\ <<VaList(i, j), 0>> \in DOMAIN mem'
    BY <1>5, ListsShape
  <2>. QED
    BY <1>1, <1>7, <1>9, <2>1
<1>10. M = [l \in DOMAIN M |-> M[l]]
  BY SMTT(30), <1>5, ListsShape
<1>11. L = AbstractLists /\ M = AbstractLists'
  BY <1>1, Bars
<1>. HIDE DEF L, M
<1>. QED
  BY <1>4, <1>6, <1>8, <1>9, <1>10, <1>11 DEF Abstract!With

(* The number of a va_list.                                                 *)
LEMMA ListIdOf ==
  ASSUME NEW d \in Nat, NEW k \in Nat
  PROVE  ListId(<<VaList(d, k), 0>>) = <<d, k>>
<1>1. <<VaList(d, k), 0>> # Unknown
  BY PointersApart
<1>. QED
  BY <1>1 DEF ListId, VaList

(* Each action is the action of its name, as the arguments see it.          *)
LEMMA VaStartBar == ASSUME IInv, VaStart PROVE Abstract!VaStart
<1>. DEFINE n == Len(stack)
            k == Current.list
<1>1. /\ stack # << >> /\ Current.kind = "va_start" /\ prog' = prog /\ got' = got
      /\ Continue(Top.pc + 1)
  BY DEF VaStart, At
<1>2. n \in Nat \ {0} /\ n \in DOMAIN stack /\ Top = stack[n] /\ k \in Nat \ {0}
  BY <1>1, CurrentOK, CurrentLists
<1>3. ListOf(k) = <<VaList(n, k), 0>>
  BY <1>2 DEF ListOf
<1>4. Stays /\ stack'[n] = [Top EXCEPT !.pc = Top.pc + 1] /\ IInv'
  BY <1>1, NextInstruction, VaStartOK
<1>. DEFINE v == Top.varargs
<1>5. mem' = Write(<<VaList(n, k), 0>>, 4, v)
  BY <1>3 DEF VaStart, PointerSize
<1>6. (v = Unknown \/ PointsBelow(prog, stack, n, v)) /\ n \in 1 .. Len(stack)
  BY <1>2, VarargsPoint DEF IInv
<1>. HIDE DEF v, n, k
<1>7. /\ Agree(stack, mem, stack', mem', Len(stack))
      /\ AbstractLists' = Abstract!With(AbstractLists, <<n, k>>, Args(prog, stack, mem, v))
  BY <1>2, <1>4, <1>5, <1>6, ListWrittenBar
<1>8. Abstract!Continue(Top.pc + 1)
  BY <1>4, <1>7, ContinueBar DEF n
<1>9. /\ Abstract!At("va_start") /\ Abstract!Current.list = k /\ Abstract!Top.pc = Top.pc
      /\ Abstract!Top.rest = Args(prog, stack, mem, v) /\ Abstract!ListOf(k) = <<n, k>>
  BY <1>1, <1>2, <1>3, AbstractTop, ListIdOf DEF v, k
<1>. QED
  BY <1>1, <1>7, <1>8, <1>9 DEF Abstract!VaStart

LEMMA VaCopyBar == ASSUME IInv, VaCopy PROVE Abstract!VaCopy
<1>. DEFINE n == Len(stack)
            k == Current.list
            from == ListOf(Current.from)
            v == mem[from].val
<1>1. /\ stack # << >> /\ Current.kind = "va_copy" /\ prog' = prog /\ got' = got
      /\ Continue(Top.pc + 1) /\ from \in DOMAIN mem
  BY DEF VaCopy, At
<1>2. /\ n \in Nat \ {0} /\ n \in DOMAIN stack /\ k \in Nat \ {0} /\ Current.from \in Nat
      /\ DOMAIN stack = 1 .. n
  BY <1>1, CurrentOK, CurrentLists
<1>3. ListOf(k) = <<VaList(n, k), 0>>
  BY <1>2 DEF ListOf
<1>4. Stays /\ stack'[n] = [Top EXCEPT !.pc = Top.pc + 1] /\ IInv'
  BY <1>1, NextInstruction, VaCopyOK
<1>5. mem' = Write(<<VaList(n, k), 0>>, 4, v)
  BY <1>1, <1>3 DEF VaCopy, PointerSize, CopiedPointer, Read
<1>6. PICK d \in 1 .. n, i \in Nat \ {0} :
        from = <<VaList(d, i), 0>> /\ (v = Unknown \/ PointsBelow(prog, stack, d, v))
  BY <1>1, <1>2, ListOfOK
<1>7. (v = Unknown \/ PointsBelow(prog, stack, n, v)) /\ n \in 1 .. Len(stack)
  <2>1. d \in Nat /\ n \in Nat /\ d <= n
    BY <1>2
  <2>. QED
    BY <1>2, <1>6, <2>1, PointsBelowKept
<1>8. /\ <<d, i>> \in DOMAIN AbstractLists
      /\ AbstractLists[<<d, i>>] = Args(prog, stack, mem, v)
  <2>1. d \in Nat /\ i \in Nat /\ <<VaList(d, i), 0>> \in DOMAIN mem
    BY <1>1, <1>6
  <2>. QED
    BY <1>6, <2>1, ListsShape, Bars DEF IInv
<1>. HIDE DEF v, n, k
<1>9. /\ Agree(stack, mem, stack', mem', Len(stack))
      /\ AbstractLists' = Abstract!With(AbstractLists, <<n, k>>, Args(prog, stack, mem, v))
  BY <1>2, <1>4, <1>5, <1>7, ListWrittenBar
<1>10. Abstract!Continue(Top.pc + 1)
  BY <1>4, <1>9, ContinueBar DEF n
<1>11. /\ Abstract!At("va_copy") /\ Abstract!Current = Current /\ Abstract!Top.pc = Top.pc
       /\ Abstract!ListOf(k) = <<n, k>> /\ Abstract!ListOf(Current.from) = <<d, i>>
  <2>1. d \in Nat /\ i \in Nat
    BY <1>2, <1>6
  <2>. QED
    BY <1>1, <1>2, <1>3, <1>6, <2>1, AbstractTop, ListIdOf DEF k
<1>. QED
  BY <1>1, <1>8, <1>9, <1>10, <1>11 DEF Abstract!VaCopy, k

(* The first argument of a list, and those behind it.                       *)
LEMMA ArgListShape ==
  ASSUME NEW m, NEW b, NEW types, NEW k, NEW n, n = Len(types) + 1 - k
  PROVE  /\ HasLength(ArgList(m, b, types, k), n)
         /\ \A j \in 1 .. n : ArgList(m, b, types, k)[j] = ArgumentAt(m, b, types, j + k - 1)
BY DEF ArgList, HasLength

LEMMA ArgListStep ==
  ASSUME NEW m, NEW b, NEW types \in Seq(ArgTypes), NEW k \in DOMAIN types
  PROVE  LET args == ArgList(m, b, types, k) IN
         /\ args # << >>
         /\ Head(args) = ArgumentAt(m, b, types, k)
         /\ Tail(args) = ArgList(m, b, types, k + 1)
<1>. DEFINE n == Len(types) + 1 - k
            args == ArgList(m, b, types, k)
            tail == ArgList(m, b, types, k + 1)
            S == {ArgumentAt(m, b, types, i) : i \in Nat}
<1>1. n \in Nat \ {0} /\ n - 1 \in Nat /\ k \in Nat /\ n - 1 = Len(types) + 1 - (k + 1)
  OBVIOUS
<1>2. /\ HasLength(args, n) /\ HasLength(tail, n - 1)
      /\ \A j \in 1 .. n : args[j] = ArgumentAt(m, b, types, j + k - 1)
      /\ \A j \in 1 .. (n - 1) : tail[j] = ArgumentAt(m, b, types, j + (k + 1) - 1)
  BY SMTT(30), <1>1, ArgListShape
<1>. HIDE DEF args, tail, n
<1>3. \A i \in Nat : ArgumentAt(m, b, types, i) \in S
  OBVIOUS
<1>. HIDE DEF S
<1>4. (\A j \in 1 .. n : args[j] \in S) /\ (\A j \in 1 .. (n - 1) : tail[j] \in S)
  <2>1. \A j \in 1 .. n : j + k - 1 \in Nat /\ j + (k + 1) - 1 \in Nat
    BY <1>1
  <2>2. \A j \in 1 .. (n - 1) : j \in 1 .. n
    BY <1>1
  <2>. QED
    BY <1>2, <1>3, <2>1, <2>2
<1>5. args[1] = ArgumentAt(m, b, types, k)
  <2>1. 1 \in 1 .. n /\ 1 + k - 1 = k
    BY <1>1
  <2>. QED
    BY <1>2, <2>1
<1>6. \A j \in 1 .. (n - 1) : tail[j] = args[j + 1]
  <2>. SUFFICES ASSUME NEW j \in 1 .. (n - 1) PROVE tail[j] = args[j + 1]
    OBVIOUS
  <2>1. j + 1 \in 1 .. n /\ (j + 1) + k - 1 = j + (k + 1) - 1
    BY <1>1
  <2>. QED
    BY <1>2, <2>1
<1>7. args \in Seq(S) /\ Len(args) = n /\ tail \in Seq(S) /\ Len(tail) = n - 1
  BY <1>1, <1>2, <1>4, SequenceOf
<1>8. args # << >>
  BY <1>1, <1>7
<1>9. Head(args) = args[1]
  BY <1>7, <1>8
<1>10. /\ Tail(args) \in Seq(S) /\ Len(Tail(args)) = n - 1
       /\ \A j \in 1 .. Len(Tail(args)) : Tail(args)[j] = args[j + 1]
  BY <1>7, <1>8, HeadTailProperties
<1>11. Tail(args) = tail
  <2>1. \A j \in 1 .. Len(tail) : Tail(args)[j] = tail[j]
    BY <1>6, <1>7, <1>10
  <2>. QED
    BY <1>7, <1>10, <2>1, SeqEqual
<1>. QED
  BY <1>5, <1>8, <1>9, <1>11 DEF args, tail

LEMMA VaArgBar == ASSUME IInv, VaArg PROVE Abstract!VaArg
<1>. DEFINE n == Len(stack)
            list == ListOf(Current.list)
            v == mem[list].val
            ty == Current.type
<1>1. /\ stack # << >> /\ Current.kind = "va_arg" /\ prog' = prog /\ Continue(Top.pc + 1)
      /\ Passed(list, ty) /\ got' = <<Read(Read(list))>>
      /\ mem' = Write(list, 4, Plus(Read(list), AllocSize[ty]))
  BY DEF VaArg, At, PointerSize
<1>2. n \in Nat \ {0} /\ DOMAIN stack = 1 .. n /\ Current.list \in Nat
  BY <1>1, CurrentOK, CurrentLists
<1>3. list \in DOMAIN mem /\ v # Unknown /\ Read(list) = v
  BY <1>1 DEF Passed, Read
<1>4. PICK d \in 1 .. n, i \in Nat \ {0} :
        list = <<VaList(d, i), 0>> /\ PointsBelow(prog, stack, d, v)
  BY <1>1, <1>2, <1>3, ListOfOK
<1>5. PICK b \in 1 .. (d - 1) : LET types == RestOf(prog, stack, b) IN
        /\ b \in DOMAIN stack
        /\ types # << >> /\ types \in Seq(ArgTypes) /\ Len(types) \in Nat
        /\ PackedTypes(v[1]) = types
        /\ \E k \in 1 .. (Len(types) + 1) :
             v = <<Buffer(b, stack[b].pc), PackedOffset(types, k)>> /\ StartingAt(v) = {k}
  BY ZenonT(30), <1>4, NextArgument
<1>. DEFINE types == RestOf(prog, stack, b)
            buffer == Buffer(b, stack[b].pc)
<1>6. PICK k \in 1 .. (Len(types) + 1) :
        v = <<buffer, PackedOffset(types, k)>> /\ StartingAt(v) = {k}
  BY <1>5
<1>7. k \in DOMAIN types /\ types[k] = ty
  BY <1>1, <1>5, <1>6 DEF Passed
<1>8. /\ PackedOffset(types, k + 1) = PackedOffset(types, k) + AllocSize[ty]
      /\ k + 1 \in 1 .. (Len(types) + 1)
  BY <1>5, <1>7, PackedStep
<1>. DEFINE w == <<buffer, PackedOffset(types, k + 1)>>
<1>9. Plus(Read(list), AllocSize[ty]) = w
  BY <1>3, <1>6, <1>8 DEF Plus
<1>10. PointsBelow(prog, stack, d, w)
  BY <1>5, <1>8 DEF PointsBelow
<1>11. Stays /\ stack'[n] = [Top EXCEPT !.pc = Top.pc + 1] /\ IInv'
  BY <1>1, NextInstruction, VaArgOK
<1>12. /\ Args(prog, stack, mem, v) = ArgList(mem, buffer, types, k)
       /\ Args(prog, stack, mem, w) = ArgList(mem, buffer, types, k + 1)
  <2>1. b \in Nat /\ stack[b].pc \in Nat
    BY <1>5, StackOK DEF IInv
  <2>. QED
    BY <1>5, <1>6, <1>8, <2>1, ArgsAt
<1>. DEFINE args == ArgList(mem, buffer, types, k)
<1>13. /\ args # << >> /\ Head(args).type = ty
       /\ Head(args).val = Read(Read(list)) /\ Tail(args) = Args(prog, stack, mem, w)
  <2>1. /\ args # << >> /\ Head(args) = ArgumentAt(mem, buffer, types, k)
        /\ Tail(args) = ArgList(mem, buffer, types, k + 1)
    BY <1>5, <1>7, ArgListStep
  <2>2. Read(v) = Val(mem, <<buffer, PackedOffset(types, k)>>)
    BY <1>6 DEF Read, Val
  <2>3. /\ ArgumentAt(mem, buffer, types, k).type = types[k]
        /\ ArgumentAt(mem, buffer, types, k).val = Val(mem, <<buffer, PackedOffset(types, k)>>)
    BY DEF ArgumentAt
  <2>. HIDE DEF args, w, types, buffer
  <2>. QED
    BY <1>3, <1>7, <1>12, <2>1, <2>2, <2>3 DEF args
<1>14. /\ <<d, i>> \in DOMAIN AbstractLists
       /\ AbstractLists[<<d, i>>] = args
  <2>1. d \in Nat /\ i \in Nat /\ <<VaList(d, i), 0>> \in DOMAIN mem
    BY <1>3, <1>4
  <2>. QED
    BY <1>4, <1>12, <2>1, ListsShape, Bars DEF IInv
<1>. HIDE DEF w, args
<1>15. /\ Agree(stack, mem, stack', mem', Len(stack))
       /\ AbstractLists' = Abstract!With(AbstractLists, <<d, i>>, Args(prog, stack, mem, w))
  BY <1>1, <1>4, <1>9, <1>10, <1>11, ListWrittenBar
<1>16. Abstract!Continue(Top.pc + 1)
  BY <1>11, <1>15, ContinueBar
<1>17. /\ Abstract!At("va_arg") /\ Abstract!Current = Current /\ Abstract!Top.pc = Top.pc
       /\ Abstract!ListOf(Current.list) = <<d, i>>
  <2>1. d \in Nat /\ i \in Nat
    BY <1>2, <1>4
  <2>. QED
    BY <1>1, <1>2, <1>4, <2>1, AbstractTop, ListIdOf
<1>. QED
  BY <1>1, <1>13, <1>14, <1>15, <1>16, <1>17 DEF Abstract!VaArg

(* The va_lists of activations that go on, if none of those is written.     *)
LEMMA ListsKeptBar ==
  ASSUME IInv, IInv', prog' = prog, NEW c \in Nat, Agree(stack, mem, stack', mem', c),
         \A d \in Nat, i \in Nat \ {0} : LET p == <<VaList(d, i), 0>> IN
           /\ p \in DOMAIN mem' <=> p \in DOMAIN mem /\ d <= c
           /\ p \in DOMAIN mem' => mem'[p] = mem[p]
  PROVE  AbstractLists' =
           [l \in {x \in DOMAIN AbstractLists : x[1] <= c} |-> AbstractLists[l]]
<1>. DEFINE L == ListsBar(prog, stack, mem)
            M == ListsBar(prog, stack', mem')
<1>1. /\ Control(prog, stack) /\ Arguments(prog, stack, mem) /\ Memory(prog, stack, mem)
      /\ Control(prog, stack') /\ Memory(prog, stack', mem')
      /\ DOMAIN stack \subseteq Nat /\ DOMAIN stack' \subseteq Nat
  <2>1. /\ Control(prog, stack) /\ Arguments(prog, stack, mem) /\ Memory(prog, stack, mem)
        /\ Control(prog, stack') /\ Memory(prog, stack', mem')
    BY DEF IInv
  <2>. QED
    BY <2>1, StackOK
<1>2. ASSUME NEW d \in Nat, NEW i \in Nat \ {0}, <<VaList(d, i), 0>> \in DOMAIN mem'
      PROVE  <<d, i>> \in DOMAIN L /\ d <= c /\ M[<<d, i>>] = L[<<d, i>>]
  <2>1. /\ <<VaList(d, i), 0>> \in DOMAIN mem /\ d <= c
        /\ mem'[<<VaList(d, i), 0>>] = mem[<<VaList(d, i), 0>>]
    BY <1>2
  <2>2. <<d, i>> \in DOMAIN L
    BY <1>1, <2>1, ListsShape
  <2>3. \A l \in DOMAIN L : \E e \in DOMAIN stack, j \in Nat \ {0} : l = <<e, j>>
    BY <1>1, ListNumbers
  <2>4. d \in DOMAIN stack
    BY <2>2, <2>3
  <2>. QED
    BY <1>1, <1>2, <2>1, <2>2, <2>4, ListKept
<1>3. ASSUME NEW l \in DOMAIN M PROVE l \in DOMAIN L /\ l[1] <= c /\ M[l] = L[l]
  <2>1. PICK d \in DOMAIN stack', i \in Nat \ {0} :
          l = <<d, i>> /\ <<VaList(d, i), 0>> \in DOMAIN mem'
    BY <1>1, ListsShape
  <2>. QED
    BY <1>1, <1>2, <2>1
<1>4. ASSUME NEW l \in DOMAIN L, l[1] <= c PROVE l \in DOMAIN M
  <2>1. PICK d \in DOMAIN stack, i \in Nat \ {0} :
          l = <<d, i>> /\ <<VaList(d, i), 0>> \in DOMAIN mem
    BY <1>1, ListsShape
  <2>2. d \in Nat /\ d <= c
    BY <1>1, <1>4, <2>1
  <2>. QED
    BY <1>1, <2>1, <2>2, ListsShape
<1>5. M = [l \in DOMAIN M |-> M[l]]
  BY <1>1, ListsShape
<1>6. L = AbstractLists /\ M = AbstractLists'
  BY Bars
<1>. HIDE DEF L, M
<1>. QED
  BY <1>3, <1>4, <1>5, <1>6

(* All of them, if no activation returns.                                   *)
LEMMA SameLists ==
  ASSUME IInv, IInv', prog' = prog, stack # << >>,
         Agree(stack, mem, stack', mem', Len(stack)),
         \A d \in Nat, i \in Nat \ {0} : LET p == <<VaList(d, i), 0>> IN
           /\ p \in DOMAIN mem' <=> p \in DOMAIN mem
           /\ p \in DOMAIN mem' => mem'[p] = mem[p]
  PROVE  AbstractLists' = AbstractLists
<1>. DEFINE n == Len(stack)
            L == AbstractLists
<1>1. n \in Nat /\ DOMAIN stack = 1 .. n
  BY CurrentOK
<1>2. /\ L = [l \in DOMAIN L |-> L[l]]
      /\ \A l \in DOMAIN L : l[1] <= n
  <2>1. L = [l \in DOMAIN L |-> L[l]]
    BY DEF AbstractLists
  <2>2. L = ListsBar(prog, stack, mem)
    BY Bars
  <2>. HIDE DEF L
  <2>3. \A l \in DOMAIN L : \E d \in DOMAIN stack, i \in Nat \ {0} : l = <<d, i>>
    BY <2>2, ListNumbers DEF IInv
  <2>. QED
    BY <1>1, <2>1, <2>3
<1>3. \A d \in Nat, i \in Nat \ {0} : <<VaList(d, i), 0>> \in DOMAIN mem => d <= n
  <2>. SUFFICES ASSUME NEW d \in Nat, NEW i \in Nat \ {0}, <<VaList(d, i), 0>> \in DOMAIN mem
                PROVE  d <= n
    OBVIOUS
  <2>1. <<d, i>> \in DOMAIN L
    BY ListsShape, Bars DEF IInv
  <2>2. <<d, i>>[1] = d
    OBVIOUS
  <2>. QED
    BY <1>2, <2>1, <2>2
<1>4. L' = [l \in {x \in DOMAIN L : x[1] <= n} |-> L[l]]
  BY <1>1, <1>3, ListsKeptBar
<1>. HIDE DEF L, n
<1>. QED
  BY <1>2, <1>4 DEF L

LEMMA OtherBar == ASSUME IInv, Other PROVE Abstract!Other
<1>1. /\ stack # << >> /\ prog' = prog /\ mem' = mem /\ got' = got
      /\ Current.kind # "call" /\ IInv'
  BY OtherOK DEF Other, At
<1>2. \E k \in DOMAIN prog[Top.fn].insts :
        /\ Continue(k)
        /\ \/ Current.kind = "va_end" /\ k = Top.pc + 1
           \/ Current.kind = "br" /\ k \in Current.succ
  <2>1. CASE At("va_end") /\ Continue(Top.pc + 1)
    BY <1>1, <2>1, CurrentOK DEF At
  <2>2. CASE At("br") /\ \E k \in Current.succ : Continue(k)
    BY <1>1, <2>2, CurrentOK DEF At, WellFormedInst
  <2>. QED
    BY <2>1, <2>2 DEF Other
<1>3. PICK k \in DOMAIN prog[Top.fn].insts :
        /\ Continue(k)
        /\ \/ Current.kind = "va_end" /\ k = Top.pc + 1
           \/ Current.kind = "br" /\ k \in Current.succ
  BY <1>2
<1>4. Stays /\ stack'[Len(stack)] = [Top EXCEPT !.pc = k]
  BY <1>1, <1>3, ContinueOK
<1>5. Agree(stack, mem, stack', mem', Len(stack))
  BY <1>1, <1>4 DEF Stays, Agree
<1>6. AbstractLists' = AbstractLists
  BY <1>1, <1>5, SameLists
<1>7. Abstract!Continue(k)
  BY <1>1, <1>4, <1>5, ContinueBar
<1>8. /\ Abstract!Current = Current /\ Abstract!Top.pc = Top.pc
      /\ \A kind : Abstract!At(kind) <=> Current.kind = kind
  BY <1>1, AbstractTop
<1>. QED
  BY <1>1, <1>3, <1>6, <1>7, <1>8 DEF Abstract!Other

(* A write leaves other objects alone.                                      *)
LEMMA WriteElsewhere ==
  ASSUME NEW p, NEW n, NEW v, NEW q, q[1] # p[1]
  PROVE  /\ q \in DOMAIN Write(p, n, v) <=> q \in DOMAIN mem
         /\ q \in DOMAIN Write(p, n, v) => Write(p, n, v)[q] = mem[q]
BY DEF Write

(* To store an argument has no meaning of its own.                          *)
LEMMA StoreArgumentBar ==
  ASSUME IInv, StoreArgument
  PROVE  UNCHANGED <<prog, AbstractStack, AbstractLists, got>>
<1>. DEFINE n == Len(stack)
            p == <<Buffer(n, Top.pc), PackedOffset(Current.rest, Top.arg)>>
            a == [Top EXCEPT !.arg = @ + 1]
<1>1. /\ stack # << >> /\ prog' = prog /\ got' = got /\ Replace(a) /\ IInv'
  BY StoreArgumentOK DEF StoreArgument, At
<1>2. /\ n \in Nat \ {0} /\ DOMAIN stack = 1 .. n /\ Top = stack[n] /\ Top \in Frame(prog)
  BY <1>1, CurrentOK
<1>3. \A q \in Pointers : q[1][2] = "va_list" \/ q[1][1] < n =>
        /\ q \in DOMAIN mem' <=> q \in DOMAIN mem
        /\ q \in DOMAIN mem' => mem'[q] = mem[q]
  <2>. DEFINE size == AllocSize[Current.rest[Top.arg]]
  <2>1. PICK v \in Data : mem' = Write(p, size, v)
    BY DEF StoreArgument
  <2>2. \A q \in Pointers : q[1][2] = "va_list" \/ q[1][1] < n => q[1] # p[1] /\ q # p
    BY <1>2 DEF Buffer
  <2>3. \A q : q[1] # p[1] =>
          /\ q \in DOMAIN Write(p, size, v) <=> q \in DOMAIN mem
          /\ q \in DOMAIN Write(p, size, v) => Write(p, size, v)[q] = mem[q]
    BY WriteElsewhere
  <2>. HIDE DEF size, p
  <2>. QED
    BY <2>1, <2>2, <2>3
<1>4. Stays /\ stack'[n] = a
  <2>1. a \in Frame(prog) /\ a.fn = Top.fn /\ a.varargs = Top.varargs /\ a.list = Top.list
    BY <1>2 DEF Frame
  <2>. HIDE DEF a
  <2>. QED
    BY <1>1, <2>1, ReplaceStays DEF IInv
<1>5. Agree(stack, mem, stack', mem', n)
  <2>1. \A b \in 1 .. (n - 1) : stack'[b] = stack[b]
    BY <1>4 DEF Stays
  <2>2. ASSUME NEW q \in DOMAIN mem PROVE q \in Pointers
    <3>1. EntryOK(prog, stack, q, mem[q])
      BY DEF IInv, Memory
    <3>2. PICK d \in Nat, i \in Nat, o \in Nat :
            q = <<Buffer(d, i), o>> \/ q = <<VaList(d, i), o>>
      BY <1>2, <3>1 DEF EntryOK
    <3>. QED
      BY <3>2, PointersApart
  <2>. QED
    BY <1>3, <2>1, <2>2 DEF Agree
<1>6. AbstractLists' = AbstractLists
  <2>1. \A d \in Nat, i \in Nat : LET q == <<VaList(d, i), 0>> IN
          q \in Pointers /\ q[1][2] = "va_list"
    BY PointersApart DEF VaList
  <2>. QED
    BY <1>1, <1>3, <1>5, <2>1, SameLists
<1>7. AbstractStack' = AbstractStack
  <2>. DEFINE f == AbstractStack
              g == AbstractStack'
  <2>1. stack'[n].pc = stack[n].pc
    BY <1>2, <1>4 DEF Frame
  <2>2. /\ HasLength(f, n) /\ HasLength(g, n)
        /\ \A d \in 1 .. (n - 1) : g[d] = f[d]
        /\ g[n] = f[n]
    BY <1>1, <1>4, <1>5, <2>1, StaysBar
  <2>3. n \in Nat \ {0}
    BY <1>2
  <2>. HIDE DEF f, g, n
  <2>4. \A d \in 1 .. n : d = n \/ d \in 1 .. (n - 1)
    BY <2>3
  <2>5. \A d \in 1 .. n : g[d] = f[d]
    BY <2>2, <2>4
  <2>6. g = f
    BY <2>2, <2>5 DEF HasLength
  <2>. QED
    BY <2>6 DEF f, g
<1>. QED
  BY <1>1, <1>6, <1>7

LEMMA CallBar == ASSUME IInv, Call PROVE Abstract!Call
<1>. DEFINE n == Len(stack)
            types == RestOf(prog, stack, n)
            buffer == Buffer(n, stack[n].pc)
            c == [fn |-> Current.fn, pc |-> 1, arg |-> 1,
                  varargs |-> PassedBuffer, list |-> ListOf(Current.list)]
            f == AbstractStack
            g == AbstractStack'
<1>1. /\ stack # << >> /\ Current.kind = "call" /\ Top.arg \notin DOMAIN Current.rest
      /\ stack' = Append(stack, c) /\ prog' = prog /\ mem' = mem /\ got' = got /\ IInv'
  BY CallOK DEF Call, At
<1>2. /\ n \in Nat \ {0} /\ DOMAIN stack = 1 .. n /\ n \in DOMAIN stack /\ Top = stack[n]
      /\ Current = InstOf(prog, stack, n) /\ Current.rest = types
      /\ stack \in Seq(Frame(prog)) /\ Current.list \in Nat
  <2>1. stack # << >> /\ Control(prog, stack)
    BY <1>1 DEF IInv
  <2>2. Current.list \in Nat
    BY <1>1, CurrentOK DEF WellFormedInst
  <2>3. stack \in Seq(Frame(prog))
    BY <2>1 DEF Control
  <2>. QED
    BY <2>1, <2>2, <2>3, StackOK, TopOK
<1>3. /\ types \in Seq(ArgTypes) /\ DOMAIN types = 1 .. Len(types) /\ Len(types) \in Nat
      /\ stack[n].pc \in Nat /\ stack[n].arg = Len(types) + 1
  <2>1. /\ types \in Seq(ArgTypes) /\ DOMAIN types = 1 .. Len(types) /\ Len(types) \in Nat
        /\ stack[n].pc \in Nat /\ stack[n].arg \in 1 .. (Len(types) + 1)
    BY <1>1, <1>2, StackOK DEF IInv
  <2>. QED
    BY <1>1, <1>2, <2>1
<1>4. /\ Len(stack') = n + 1 /\ stack'[n + 1] = c /\ \A d \in 1 .. n : stack'[d] = stack[d]
  <2>. DEFINE S == Frame(prog) \cup {c}
  <2>1. stack \in Seq(S) /\ c \in S
    BY <1>2
  <2>. HIDE DEF S, c
  <2>. QED
    BY <1>1, <1>2, <2>1, AppendProperties
<1>5. Agree(stack, mem, stack', mem', n)
  BY <1>1, <1>2, <1>4 DEF Agree
<1>6. AbstractLists' = AbstractLists
  BY <1>1, <1>5, SameLists
<1>7. HasLength(f, n) /\ HasLength(g, n + 1)
  <2>1. /\ Control(prog, stack) /\ Control(prog, stack')
        /\ f = StackBar(prog, stack, mem) /\ g = StackBar(prog, stack', mem')
    BY <1>1, Bars DEF IInv
  <2>. QED
    BY <1>4, <2>1, StackShape
<1>8. ASSUME NEW d \in 1 .. n PROVE g[d] = f[d]
  <2>1. d \in 1 .. Len(stack') /\ d <= n /\ stack'[d] = stack[d]
    BY <1>2, <1>4
  <2>. QED
    BY <1>1, <1>2, <1>5, <2>1, ElementBar
<1>9. g = Append(f, g[n + 1])
  <2>1. n \in Nat
    BY <1>2
  <2>. HIDE DEF f, g, n
  <2>. QED
    BY <1>7, <1>8, <2>1, OneAppended
<1>10. g[n + 1] = [fn |-> Current.fn, pc |-> 1, rest |-> Args(prog, stack', mem', PassedBuffer),
                   list |-> ListId(ListOf(Current.list))]
  <2>1. Control(prog, stack') /\ g = StackBar(prog, stack', mem') /\ n + 1 \in 1 .. Len(stack')
    BY <1>1, <1>2, <1>4, Bars DEF IInv
  <2>2. g[n + 1] =
          [fn |-> stack'[n + 1].fn, pc |-> stack'[n + 1].pc,
           rest |-> Args(prog, stack', mem', stack'[n + 1].varargs),
           list |-> ListId(stack'[n + 1].list)]
    BY <2>1, StackShape
  <2>3. c.fn = Current.fn /\ c.pc = 1 /\ c.varargs = PassedBuffer /\ c.list = ListOf(Current.list)
    OBVIOUS
  <2>. HIDE DEF c, g, n
  <2>. QED
    BY <1>4, <2>2, <2>3
<1>11. Args(prog, stack', mem', PassedBuffer) = ArgList(mem, buffer, types, 1)
  <2>1. CASE types = << >>
    <3>1. Args(prog, stack', mem', PassedBuffer) = << >>
      BY <1>2, <2>1 DEF Args, PassedBuffer
    <3>2. ArgList(mem, buffer, types, 1) = << >>
      BY <2>1 DEF ArgList
    <3>. QED
      BY <3>1, <3>2
  <2>2. CASE types # << >>
    <3>1. PackedOffset(types, 1) = 0 /\ 1 \in 1 .. (Len(types) + 1)
      BY <1>3, PackedStep
    <3>2. PassedBuffer = <<buffer, PackedOffset(types, 1)>>
      BY <1>2, <2>2, <3>1 DEF PassedBuffer
    <3>3. stack'[n].pc = stack[n].pc /\ n \in Nat /\ RestOf(prog, stack', n) = types
      BY <1>2, <1>4 DEF RestOf, InstOf
    <3>. HIDE DEF n, types
    <3>4. Args(prog, stack', mem, <<Buffer(n, stack[n].pc), PackedOffset(types, 1)>>)
            = ArgList(mem, Buffer(n, stack[n].pc), types, 1)
      BY <1>3, <3>1, <3>3, ArgsAt
    <3>. QED
      BY <1>1, <3>2, <3>4
  <2>. QED
    BY <2>1, <2>2
<1>. DEFINE val(k) == Val(mem, <<buffer, PackedOffset(types, k)>>)
            vals == [k \in DOMAIN types |-> val(k)]
            rest == [k \in DOMAIN vals |-> [type |-> types[k], val |-> vals[k]]]
<1>12. vals \in [DOMAIN types -> Data]
  <2>. SUFFICES ASSUME NEW k \in DOMAIN types PROVE val(k) \in Data
    OBVIOUS
  <2>1. ArgumentIn(mem, <<buffer, PackedOffset(types, k)>>, types[k])
    <3>1. k < stack[n].arg /\ InstOf(prog, stack, n).kind = "call"
      BY <1>1, <1>2, <1>3
    <3>. QED
      BY <1>2, <3>1 DEF IInv, Arguments
  <2>. QED
    BY <2>1 DEF ArgumentIn, Val
<1>13. ArgList(mem, buffer, types, 1) = rest
  <2>. HIDE DEF buffer, types
  <2>1. Len(types) + 1 - 1 = Len(types) /\ \A j \in 1 .. Len(types) : j + 1 - 1 = j
    BY <1>3
  <2>. QED
    BY <1>3, <2>1 DEF ArgList, ArgumentAt
<1>14. /\ Abstract!At("call") /\ Abstract!Current = Current
       /\ Abstract!ListOf(Current.list) = ListId(ListOf(Current.list))
  BY <1>1, <1>2, AbstractTop
<1>. DEFINE e == [fn |-> Current.fn, pc |-> 1, rest |-> rest, list |-> Abstract!ListOf(Current.list)]
<1>15. g = Append(f, e)
  BY <1>9, <1>10, <1>11, <1>13, <1>14
<1>. HIDE DEF f, g, val, types
<1>. QED
  BY <1>1, <1>2, <1>6, <1>12, <1>14, <1>15 DEF Abstract!Call, f, g

LEMMA FrontShape ==
  ASSUME NEW n \in Nat \ {0}, NEW f, HasLength(f, n)
  PROVE  /\ HasLength(Front(f), n - 1) /\ Len(Front(f)) = n - 1 /\ Len(f) = n
         /\ \A i \in 1 .. (n - 1) : Front(f)[i] = f[i]
<1>. DEFINE S == {f[i] : i \in 1 .. n}
<1>1. \A i \in 1 .. n : f[i] \in S
  OBVIOUS
<1>. HIDE DEF S
<1>2. f \in Seq(S) /\ Len(f) = n
  BY <1>1, SequenceOf
<1>3. f # << >>
  BY <1>2
<1>. DEFINE h == Front(f)
<1>4. /\ h \in Seq(S) /\ Len(h) = n - 1
      /\ \A i \in 1 .. (n - 1) : h[i] = f[i]
  BY <1>2, <1>3, FrontOK
<1>. HIDE DEF h
<1>5. HasLength(h, n - 1)
  BY <1>4 DEF HasLength
<1>. QED
  BY <1>2, <1>4, <1>5 DEF h

(* Of the lists those of the activations that go on are left.               *)
LEMMA ReturnLists ==
  ASSUME IInv, Return
  PROVE  /\ Len(stack) \in Nat \ {0} /\ Len(AbstractStack) = Len(stack)
         /\ Agree(stack, mem, stack', mem', Len(stack) - 1)
         /\ AbstractLists' =
              [l \in {x \in DOMAIN AbstractLists : x[1] < Len(stack)} |-> AbstractLists[l]]
<1>. DEFINE n == Len(stack)
            c == n - 1
            L == AbstractLists
<1>1. /\ stack # << >> /\ n \in Nat \ {0} /\ DOMAIN stack = 1 .. n /\ prog' = prog /\ IInv'
      /\ mem' = [p \in {q \in DOMAIN mem : q[1][1] < n} |-> mem[p]]
  BY CurrentOK, ReturnOK DEF Return, At
<1>2. c \in Nat /\ \A d \in Nat : d < n <=> d <= c
  BY <1>1
<1>3. \A b \in 1 .. (c - 1) : stack'[b] = stack[b]
  <2>1. CASE n = 1
    BY <2>1
  <2>2. CASE n # 1
    <3>1. \A j \in 1 .. (n - 1 - 1) : stack'[j] = stack[j]
      BY <2>2, ReturnStack
    <3>. QED
      BY <3>1
  <2>. QED
    BY <2>1, <2>2
<1>4. Agree(stack, mem, stack', mem', c)
  <2>1. \A q \in DOMAIN mem : q[1][1] \in Nat
    BY <1>1, EntryDepth DEF IInv, Memory
  <2>2. \A q \in DOMAIN mem : q[1][1] < c => q[1][1] < n
    BY SMTT(30), <1>1, <1>2, <2>1
  <2>. QED
    BY <1>1, <1>3, <2>2 DEF Agree
<1>5. \A d \in Nat, i \in Nat \ {0} : LET p == <<VaList(d, i), 0>> IN
        /\ p \in DOMAIN mem' <=> p \in DOMAIN mem /\ d <= c
        /\ p \in DOMAIN mem' => mem'[p] = mem[p]
  <2>. SUFFICES ASSUME NEW d \in Nat, NEW i \in Nat \ {0}
                PROVE  LET p == <<VaList(d, i), 0>> IN
                       /\ p \in DOMAIN mem' <=> p \in DOMAIN mem /\ d <= c
                       /\ p \in DOMAIN mem' => mem'[p] = mem[p]
    OBVIOUS
  <2>. DEFINE p == <<VaList(d, i), 0>>
  <2>1. p[1][1] = d
    BY DEF VaList
  <2>. HIDE DEF p
  <2>2. /\ p \in DOMAIN mem' <=> p \in DOMAIN mem /\ d < n
        /\ p \in DOMAIN mem' => mem'[p] = mem[p]
    BY <1>1, <2>1
  <2>3. d < n <=> d <= c
    BY <1>2
  <2>. QED
    BY <2>2, <2>3 DEF p
<1>. HIDE DEF c
<1>6. L' = [l \in {x \in DOMAIN L : x[1] <= c} |-> L[l]]
  BY <1>1, <1>2, <1>4, <1>5, ListsKeptBar
<1>7. \A x \in DOMAIN L : x[1] <= c <=> x[1] < n
  <2>1. L = ListsBar(prog, stack, mem)
    BY Bars
  <2>. HIDE DEF L
  <2>2. \A x \in DOMAIN L : \E d \in DOMAIN stack, i \in Nat \ {0} : x = <<d, i>>
    BY <2>1, ListNumbers DEF IInv
  <2>3. \A x \in DOMAIN L : x[1] \in Nat
    BY <1>1, <2>2
  <2>. QED
    BY <1>2, <2>3
<1>8. L' = [l \in {x \in DOMAIN L : x[1] < n} |-> L[l]]
  <2>1. {x \in DOMAIN L : x[1] <= c} = {x \in DOMAIN L : x[1] < n}
    BY <1>7
  <2>. HIDE DEF L, n
  <2>. QED
    BY <1>6, <2>1 DEF L
<1>9. Len(AbstractStack) = n
  BY <1>1, AbstractTop
<1>. QED
  BY <1>1, <1>4, <1>8, <1>9 DEF c

LEMMA ReturnBar == ASSUME IInv, Return PROVE Abstract!Return
<1>. DEFINE n == Len(stack)
            m == n - 1
            f == AbstractStack
            g == AbstractStack'
<1>1. /\ stack # << >> /\ Current.kind = "ret" /\ prog' = prog /\ got' = got /\ IInv'
  BY ReturnOK DEF Return, At
<1>2. /\ n \in Nat \ {0} /\ Len(f) = n /\ Agree(stack, mem, stack', mem', m)
      /\ AbstractLists' =
           [l \in {x \in DOMAIN AbstractLists : x[1] < Len(f)} |-> AbstractLists[l]]
  BY ReturnLists
<1>3. HasLength(f, n) /\ Abstract!At("ret")
  BY <1>1, AbstractTop
<1>4. /\ HasLength(Front(f), m) /\ Len(Front(f)) = m
      /\ \A i \in 1 .. m : Front(f)[i] = f[i]
  <2>. HIDE DEF f, n
  <2>. QED
    BY <1>2, <1>3, FrontShape
<1>. DEFINE h == Front(f)
            after == IF h = << >> THEN << >>
                     ELSE Append(Front(h), [Last(h) EXCEPT !.pc = @ + 1])
<1>5. g = after
  <2>1. CASE n = 1
    <3>1. stack' = << >>
      <4>1. stack \in Seq(Frame(prog))
        BY DEF IInv, Control
      <4>2. Len(Front(stack)) = 0 /\ Front(stack) \in Seq(Frame(prog))
        BY <1>1, <2>1, <4>1, FrontOK
      <4>. QED
        BY <4>2 DEF Return
    <3>2. g = << >>
      BY <3>1 DEF AbstractStack
    <3>3. h = << >>
      <4>. HIDE DEF h
      <4>. QED
        BY <1>4, <2>1 DEF HasLength, h
    <3>. QED
      BY <3>2, <3>3
  <2>2. CASE n # 1
    <3>1. /\ m \in Nat \ {0} /\ m \in DOMAIN stack /\ Len(stack') = m
          /\ \A j \in 1 .. (m - 1) : stack'[j] = stack[j]
          /\ stack'[m] = [stack[m] EXCEPT !.pc = @ + 1, !.arg = 1]
          /\ stack[m] \in Frame(prog)
      BY <2>2, ReturnStack
    <3>2. /\ stack'[m].pc = stack[m].pc + 1 /\ stack'[m].fn = stack[m].fn
          /\ stack'[m].varargs = stack[m].varargs /\ stack'[m].list = stack[m].list
      BY <3>1 DEF Frame
    <3>3. HasLength(g, m)
      <4>1. Control(prog, stack') /\ g = StackBar(prog, stack', mem')
        BY <1>1, Bars DEF IInv
      <4>. QED
        BY <3>1, <4>1, StackShape
    <3>4. ASSUME NEW d \in 1 .. (m - 1) PROVE g[d] = h[d]
      <4>1. /\ d \in 1 .. n /\ d \in 1 .. Len(stack') /\ d <= m /\ d \in 1 .. m
            /\ stack'[d] = stack[d] /\ m \in Nat
        BY <1>2, <3>1
      <4>2. g[d] = f[d]
        BY <1>1, <1>2, <4>1, ElementBar
      <4>. QED
        BY <1>4, <4>1, <4>2
    <3>5. g[m] = [h[m] EXCEPT !.pc = @ + 1]
      <4>1. /\ m \in 1 .. n /\ m \in 1 .. Len(stack') /\ m <= m /\ m \in 1 .. m /\ m \in Nat
        BY <1>2, <3>1
      <4>2. g[m] = [f[m] EXCEPT !.pc = stack'[m].pc]
        BY <1>1, <1>2, <3>2, <4>1, ElementBar
      <4>3. f[m].pc = stack[m].pc
        <5>1. f[m] = [fn |-> stack[m].fn, pc |-> stack[m].pc,
                      rest |-> Args(prog, stack, mem, stack[m].varargs),
                      list |-> ListId(stack[m].list)]
          BY <1>1, <4>1, AbstractTop
        <5>. QED
          BY <5>1
      <4>4. h[m] = f[m]
        BY <1>4, <4>1
      <4>. HIDE DEF f, g, h, m
      <4>. QED
        BY <3>2, <4>2, <4>3, <4>4
    <3>. HIDE DEF f, g, h, m
    <3>6. g = Append(Front(h), g[m])
      BY <1>4, <3>1, <3>3, <3>4, LastReplaced DEF h
    <3>7. h # << >> /\ Last(h) = h[m]
      BY <1>4, <3>1 DEF h, Last
    <3>. QED
      BY <3>5, <3>6, <3>7
  <2>. QED
    BY <2>1, <2>2
<1>6. /\ h = Abstract!Front(f) /\ Front(h) = Abstract!Front(h) /\ Last(h) = Abstract!Last(h)
  BY DEF Front, Last, Abstract!Front, Abstract!Last
<1>. HIDE DEF f, g, h
<1>. QED
  BY <1>1, <1>2, <1>3, <1>5, <1>6 DEF Abstract!Return, f, g

LEMMA InitBar == ASSUME Init PROVE Abstract!Init
<1>1. /\ stack = << [fn |-> 1, pc |-> 1, arg |-> 1, varargs |-> Unknown, list |-> Unknown] >>
      /\ mem = << >> /\ got = << >>
  BY DEF Init
<1>2. AbstractStack = << [fn |-> 1, pc |-> 1, rest |-> << >>, list |-> << >>] >>
  <2>1. DOMAIN stack = {1} /\ stack[1].fn = 1 /\ stack[1].pc = 1 /\ stack[1].varargs = Unknown
        /\ stack[1].list = Unknown
    BY <1>1
  <2>2. ArgumentsFrom(Unknown) = << >> /\ ListId(Unknown) = << >>
    BY DEF ArgumentsFrom, ListId
  <2>3. AbstractStack = [d \in {1} |-> [fn |-> 1, pc |-> 1, rest |-> << >>, list |-> << >>]]
    BY <2>1, <2>2 DEF AbstractStack
  <2>. QED
    BY <2>3
<1>3. AbstractLists = << >>
  <2>1. StartedLists = {}
    BY <1>1 DEF StartedLists
  <2>2. DOMAIN AbstractLists = {}
    BY <2>1 DEF AbstractLists
  <2>. QED
    BY <2>2 DEF AbstractLists
<1>. QED
  BY <1>1, <1>2, <1>3 DEF Abstract!Init

LEMMA StepBar ==
  ASSUME IInv, [Next]_vars
  PROVE  [Abstract!Next]_<<prog, AbstractStack, AbstractLists, got>>
<1>1. CASE Next
  BY <1>1, StoreArgumentBar, CallBar, VaStartBar, VaCopyBar, VaArgBar, OtherBar, ReturnBar
     DEF Next, Abstract!Next
<1>2. CASE UNCHANGED vars
  <2>1. /\ AbstractStack' = AbstractStack /\ AbstractLists' = AbstractLists
    BY <1>2, Bars DEF vars
  <2>. QED
    BY <1>2, <2>1 DEF vars
<1>. QED
  BY <1>1, <1>2

(* What the expansion makes of variadic calls does what variadic calls      *)
(* mean: with the buffers read as lists of arguments, and the pointers into *)
(* them as lists that are left, every step is one of VariadicCalls or none. *)
THEOREM VarArgsImplementCalls == Spec => ImplementsVarArgs
<1>1. Init => Abstract!Init
  BY InitBar
<1>2. IInv /\ [Next]_vars => [Abstract!Next]_<<prog, AbstractStack, AbstractLists, got>>
  BY StepBar
<1>. QED
  BY <1>1, <1>2, Invariant, PTL DEF Spec, ImplementsVarArgs, Abstract!Spec
================================================================================
