----------------------------- MODULE SharedLemmas -----------------------------
(***************************************************************************)
(* Lemmas that several proofs rest on.  About numbers: how many elements   *)
(* of a set are among the first n, by which Layout and VarArgs sum up the  *)
(* sizes of arguments and instructions; induction, for a statement given   *)
(* as the set of numbers it holds for; and functions defined by recursion. *)
(* About the closed form of a frame, for arguments and instructions of any *)
(* number: offsets grow by the size of what they pass over, and no two     *)
(* slots overlap.                                                          *)
(***************************************************************************)
EXTENDS Layout, FiniteSetTheorems, WellFoundedInduction, TLAPS

(* One more number adds at most one element.                               *)
LEMMA CountStep ==
  ASSUME NEW S, NEW n \in Nat
  PROVE  /\ IsFiniteSet(S \cap 1 .. n)
         /\ Cardinality(S \cap 1 .. n) \in Nat
         /\ Cardinality(S \cap 1 .. (n + 1)) =
              Cardinality(S \cap 1 .. n) + (IF n + 1 \in S THEN 1 ELSE 0)
<1>. DEFINE A == S \cap 1 .. n
            B == S \cap 1 .. (n + 1)
<1>1. IsFiniteSet(1 .. n)
  BY FS_Interval
<1>2. IsFiniteSet(A)
  BY <1>1, FS_Subset
<1>3. Cardinality(A) \in Nat
  BY <1>2, FS_CardinalityType
<1>4. CASE n + 1 \in S
  <2>1. B = A \cup {n + 1} /\ n + 1 \notin A
    BY <1>4
  <2>. QED
    BY <1>2, <1>3, <1>4, <2>1, FS_AddElement
<1>5. CASE n + 1 \notin S
  <2>1. B = A
    BY <1>5
  <2>. QED
    BY <1>2, <1>3, <1>5, <2>1
<1>. QED
  BY <1>2, <1>3, <1>4, <1>5

LEMMA CountMonotone ==
  ASSUME NEW S, NEW m \in Nat, NEW n \in Nat, m <= n
  PROVE  Cardinality(S \cap 1 .. m) <= Cardinality(S \cap 1 .. n)
<1>1. S \cap 1 .. m \subseteq S \cap 1 .. n
  OBVIOUS
<1>2. IsFiniteSet(S \cap 1 .. n)
  BY CountStep
<1>. QED
  BY <1>1, <1>2, FS_Subset

LEMMA CountZero == ASSUME NEW S PROVE Cardinality(S \cap 1 .. 0) = 0
<1>1. S \cap 1 .. 0 = {}
  OBVIOUS
<1>. QED
  BY <1>1, FS_EmptySet

(* A set of numbers that has 0 and every successor of its elements has all. *)
LEMMA LeastNumber ==
  ASSUME NEW T \in SUBSET Nat, T # {}
  PROVE  \E x \in T : \A y \in T : x <= y
<1>1. PICK x \in T : \A y \in T : ~ (<<y, x>> \in OpToRel(<, Nat))
  BY NatLessThanWellFounded, WFMin
<1>2. \A y \in T : <<y, x>> \in Nat \X Nat /\ (y < x => <<y, x>> \in OpToRel(<, Nat))
  BY DEF OpToRel
<1>3. \A y \in T : ~ (y < x)
  BY <1>1, <1>2
<1>4. x \in Nat /\ \A y \in T : y \in Nat
  OBVIOUS
<1>. QED
  BY <1>3, <1>4

LEMMA SetInduction ==
  ASSUME NEW S, 0 \in S, \A n \in Nat : n \in S => n + 1 \in S
  PROVE  Nat \subseteq S
<1>. SUFFICES ASSUME Nat \ S # {} PROVE FALSE
  OBVIOUS
<1>1. PICK x \in Nat \ S : \A y \in Nat \ S : x <= y
  BY LeastNumber
<1>. QED
  BY <1>1

(* A function on D may be defined by recursion over a measure d: by a step  *)
(* G that looks only at what has a smaller one.                             *)
IsStep(G, D, d, V) ==
  /\ d \in [D -> Nat] /\ V # {} /\ G \in [D \X [D -> V] -> V]
  /\ \A x \in D : \A f, h \in [D -> V] :
       (\A y \in D : d[y] < d[x] => f[y] = h[y]) => G[<<x, f>>] = G[<<x, h>>]
Solves(f, G, D, V) == f \in [D -> V] /\ \A x \in D : f[x] = G[<<x, f>>]

LEMMA RecursionDefined ==
  ASSUME NEW G, NEW D, NEW d, NEW V, IsStep(G, D, d, V)
  PROVE  \E f : Solves(f, G, D, V)
<1>. USE DEF IsStep
<1>. DEFINE Fits(f, n) == f \in [D -> V] /\ \A x \in D : d[x] < n => f[x] = G[<<x, f>>]
            S == { n \in Nat : \E f : Fits(f, n) }
<1>1. \A x \in D : d[x] \in Nat
  OBVIOUS
<1>2. 0 \in S
  <2>0. PICK v : v \in V
    OBVIOUS
  <2>1. Fits([x \in D |-> v], 0)
    BY <1>1, <2>0
  <2>. QED
    BY <2>1
<1>3. ASSUME NEW n \in Nat, n \in S
      PROVE  n + 1 \in S
  <2>1. PICK f : Fits(f, n)
    BY <1>3
  <2>. DEFINE h == [x \in D |-> IF d[x] < n THEN f[x] ELSE G[<<x, f>>]]
  <2>2. h \in [D -> V]
    BY <2>1
  <2>3. ASSUME NEW x \in D, d[x] < n + 1
        PROVE  h[x] = G[<<x, h>>]
    <3>1. \A y \in D : d[y] < d[x] => f[y] = h[y]
      BY <1>1, <2>3
    <3>2. G[<<x, f>>] = G[<<x, h>>]
      BY <2>1, <2>2, <3>1
    <3>3. h[x] = G[<<x, f>>]
      BY <2>1
    <3>. QED
      BY <3>2, <3>3
  <2>4. Fits(h, n + 1)
    BY <2>2, <2>3
  <2>. HIDE DEF h, Fits
  <2>. QED
    BY <2>4
<1>4. \A n \in Nat : \E f : Fits(f, n)
  <2>. HIDE DEF Fits
  <2>1. \A n \in Nat : n \in S => n + 1 \in S
    BY <1>3
  <2>2. Nat \subseteq S
    <3>. HIDE DEF S
    <3>. QED
      BY <1>2, <2>1, SetInduction
  <2>. QED
    BY <2>2
<1>5. ASSUME NEW n \in Nat, NEW m \in Nat, NEW f, NEW h, Fits(f, n), Fits(h, m)
      PROVE  \A x \in D : d[x] < n /\ d[x] < m => f[x] = h[x]
  <2>. DEFINE U == { k \in Nat : \A x \in D : d[x] < k /\ d[x] < n /\ d[x] < m => f[x] = h[x] }
  <2>1. 0 \in U
    BY <1>1
  <2>2. ASSUME NEW k \in Nat, k \in U
        PROVE  k + 1 \in U
    <3>1. ASSUME NEW x \in D, d[x] < k + 1, d[x] < n, d[x] < m
          PROVE  f[x] = h[x]
      <4>1. \A y \in D : d[y] < d[x] => d[y] < k /\ d[y] < n /\ d[y] < m
        BY <1>1, <3>1
      <4>2. \A y \in D : d[y] < d[x] => f[y] = h[y]
        BY <2>2, <4>1
      <4>3. f \in [D -> V] /\ h \in [D -> V] /\ f[x] = G[<<x, f>>] /\ h[x] = G[<<x, h>>]
        BY <1>5, <3>1
      <4>. QED
        BY <4>2, <4>3
    <3>. QED
      BY <3>1
  <2>3. \A k \in Nat : k \in U => k + 1 \in U
    BY <2>2
  <2>4. Nat \subseteq U
    <3>. HIDE DEF U
    <3>. QED
      BY <2>1, <2>3, SetInduction
  <2>5. \A x \in D : d[x] \in Nat /\ d[x] + 1 \in U /\ d[x] < d[x] + 1
    BY <1>1, <2>4
  <2>. QED
    BY <2>5
<1>. DEFINE F == [n \in Nat |-> CHOOSE f : Fits(f, n)]
            f == [x \in D |-> F[d[x] + 1][x]]
<1>6. \A n \in Nat : Fits(F[n], n)
  <2>. HIDE DEF Fits
  <2>. QED
    BY <1>4
<1>. HIDE DEF F
<1>7. f \in [D -> V]
  BY <1>1, <1>6
<1>8. ASSUME NEW x \in D
      PROVE  f[x] = G[<<x, f>>]
  <2>. DEFINE n == d[x] + 1
  <2>1. n \in Nat /\ d[x] < n
    BY <1>1
  <2>2. F[n] \in [D -> V] /\ F[n][x] = G[<<x, F[n]>>]
    BY <1>6, <2>1
  <2>3. ASSUME NEW y \in D, d[y] < d[x]
        PROVE  f[y] = F[n][y]
    <3>1. d[y] + 1 \in Nat /\ d[y] < d[y] + 1 /\ d[y] < n
      BY <1>1, <2>3
    <3>2. Fits(F[d[y] + 1], d[y] + 1) /\ Fits(F[n], n)
      BY <1>6, <2>1, <3>1
    <3>. HIDE DEF Fits, n
    <3>3. F[d[y] + 1][y] = F[n][y]
      BY <1>5, <2>1, <3>1, <3>2
    <3>. QED
      BY <3>3
  <2>4. G[<<x, f>>] = G[<<x, F[n]>>]
    <3>. HIDE DEF f, n
    <3>. QED
      BY <1>7, <2>2, <2>3
  <2>. QED
    BY <2>2, <2>4
<1>9. Solves(f, G, D, V)
  BY <1>7, <1>8 DEF Solves
<1>. QED
  BY <1>9

--------------------------------------------------------------------------------
(* Each argument starts where the one before it ends.                      *)
LEMMA ArgOffsetStep ==
  ASSUME NEW types \in Seq(Types)
  PROVE  /\ ArgOffset(types, 1) = 0
         /\ \A k \in 1 .. (Len(types) + 1) : ArgOffset(types, k) \in Nat
         /\ \A k \in DOMAIN types :
              ArgOffset(types, k + 1) = ArgOffset(types, k) + ArgStackSize(types[k])
         /\ ArgsSize(types) \in Nat
<1>. DEFINE S == {j \in DOMAIN types : types[j] = "i64"}
            C(n) == Cardinality(S \cap 1 .. n)
<1>1. ASSUME NEW k \in 1 .. (Len(types) + 1)
      PROVE  ArgOffset(types, k) = 4 * (k - 1) + 4 * C(k - 1)
  <2>1. {j \in 1 .. (k - 1) : types[j] = "i64"} = S \cap 1 .. (k - 1)
    OBVIOUS
  <2>. QED
    BY <2>1 DEF ArgOffset
<1>2. \A n \in Nat : C(n) \in Nat /\ C(n + 1) = C(n) + (IF n + 1 \in S THEN 1 ELSE 0)
  BY CountStep
<1>3. C(0) = 0
  BY CountZero
<1>. HIDE DEF C
<1>4. ArgOffset(types, 1) = 0
  BY <1>1, <1>3
<1>5. ASSUME NEW k \in 1 .. (Len(types) + 1) PROVE ArgOffset(types, k) \in Nat
  <2>1. k - 1 \in Nat
    OBVIOUS
  <2>2. C(k - 1) \in Nat
    BY <1>2, <2>1
  <2>. QED
    BY <1>1, <2>1, <2>2
<1>6. ASSUME NEW k \in DOMAIN types
      PROVE  ArgOffset(types, k + 1) = ArgOffset(types, k) + ArgStackSize(types[k])
  <2>1. k - 1 \in Nat /\ (k - 1) + 1 = k /\ k + 1 \in 1 .. (Len(types) + 1)
        /\ (k + 1) - 1 = k /\ k \in 1 .. (Len(types) + 1)
    OBVIOUS
  <2>2. C(k) = C(k - 1) + (IF types[k] = "i64" THEN 1 ELSE 0) /\ C(k - 1) \in Nat
    BY <1>2, <2>1
  <2>3. /\ ArgOffset(types, k + 1) = 4 * k + 4 * C(k)
        /\ ArgOffset(types, k) = 4 * (k - 1) + 4 * C(k - 1)
    BY <1>1, <2>1
  <2>. HIDE DEF S
  <2>. QED
    BY <2>2, <2>3 DEF ArgStackSize
<1>. QED
  BY <1>4, <1>5, <1>6 DEF ArgsSize

(* An argument ends before every later one starts.                         *)
LEMMA ArgOffsetMonotone ==
  ASSUME NEW types \in Seq(Types), NEW j \in DOMAIN types,
         NEW k \in 1 .. (Len(types) + 1), j < k
  PROVE  ArgOffset(types, j) + ArgStackSize(types[j]) <= ArgOffset(types, k)
<1>. DEFINE S == {i \in DOMAIN types : types[i] = "i64"}
            C(n) == Cardinality(S \cap 1 .. n)
<1>1. ASSUME NEW i \in 1 .. (Len(types) + 1)
      PROVE  ArgOffset(types, i) = 4 * (i - 1) + 4 * C(i - 1)
  <2>1. {l \in 1 .. (i - 1) : types[l] = "i64"} = S \cap 1 .. (i - 1)
    OBVIOUS
  <2>. QED
    BY <2>1 DEF ArgOffset
<1>2. j \in Nat /\ k - 1 \in Nat /\ j <= k - 1 /\ j + 1 \in 1 .. (Len(types) + 1)
  OBVIOUS
<1>3. C(j) <= C(k - 1) /\ C(j) \in Nat /\ C(k - 1) \in Nat
  BY <1>2, CountMonotone, CountStep
<1>4. ArgOffset(types, j + 1) = 4 * j + 4 * C(j)
  BY <1>1, <1>2
<1>5. ArgOffset(types, k) = 4 * (k - 1) + 4 * C(k - 1)
  BY <1>1
<1>. HIDE DEF C, S
<1>6. ArgOffset(types, j + 1) <= ArgOffset(types, k)
  <2>1. j \in Int /\ k \in Int /\ j <= k - 1
    BY <1>2
  <2>2. 4 * j + 4 * C(j) <= 4 * (k - 1) + 4 * C(k - 1)
    BY SMTT(30), <1>3, <2>1
  <2>. QED
    BY <1>4, <1>5, <2>2
<1>. QED
  BY <1>6, ArgOffsetStep
--------------------------------------------------------------------------------
(* Each slot of an instruction takes its size off the frame.               *)
LEMMA VarsSizeStep ==
  ASSUME NEW Instrs, NEW insts \in Seq(Instrs), NEW k \in 0 .. Len(insts)
  PROVE  /\ VarsSize(insts, 0) = 0
         /\ VarsSize(insts, k) \in Nat
         /\ k + 1 \in DOMAIN insts =>
              VarsSize(insts, k + 1) =
                VarsSize(insts, k)
                  + (IF IsAlias(insts[k + 1]) THEN 0 ELSE ArgStackSize(insts[k + 1].type))
<1>. DEFINE S == {j \in DOMAIN insts : ~ IsAlias(insts[j])}
            W == {j \in DOMAIN insts : ~ IsAlias(insts[j]) /\ insts[j].type = "i64"}
            C(n) == Cardinality(S \cap 1 .. n)
            D(n) == Cardinality(W \cap 1 .. n)
<1>1. ASSUME NEW n \in 0 .. Len(insts)
      PROVE  VarsSize(insts, n) = 4 * C(n) + 4 * D(n)
  <2>1. /\ {j \in 1 .. n : ~ IsAlias(insts[j])} = S \cap 1 .. n
        /\ {j \in 1 .. n : ~ IsAlias(insts[j]) /\ insts[j].type = "i64"} = W \cap 1 .. n
    OBVIOUS
  <2>. QED
    BY <2>1 DEF VarsSize
<1>2. \A n \in Nat :
        /\ C(n) \in Nat /\ C(n + 1) = C(n) + (IF n + 1 \in S THEN 1 ELSE 0)
        /\ D(n) \in Nat /\ D(n + 1) = D(n) + (IF n + 1 \in W THEN 1 ELSE 0)
  BY CountStep
<1>3. C(0) = 0 /\ D(0) = 0
  BY CountZero
<1>. HIDE DEF C, D
<1>4. k \in Nat /\ 0 \in 0 .. Len(insts)
  OBVIOUS
<1>5. C(k) \in Nat /\ D(k) \in Nat
  BY <1>2, <1>4
<1>6. VarsSize(insts, 0) = 0 /\ VarsSize(insts, k) = 4 * C(k) + 4 * D(k)
  BY <1>1, <1>3, <1>4
<1>7. ASSUME k + 1 \in DOMAIN insts
      PROVE  VarsSize(insts, k + 1) =
               VarsSize(insts, k)
                 + (IF IsAlias(insts[k + 1]) THEN 0 ELSE ArgStackSize(insts[k + 1].type))
  <2>1. VarsSize(insts, k + 1) = 4 * C(k + 1) + 4 * D(k + 1)
    BY <1>1, <1>7
  <2>2. /\ C(k + 1) = C(k) + (IF IsAlias(insts[k + 1]) THEN 0 ELSE 1)
        /\ D(k + 1) = D(k) + (IF IsAlias(insts[k + 1]) THEN 0
                              ELSE IF insts[k + 1].type = "i64" THEN 1 ELSE 0)
    BY <1>2, <1>4, <1>7
  <2>. HIDE DEF S, W
  <2>. QED
    BY <1>5, <1>6, <2>1, <2>2 DEF ArgStackSize
<1>. QED
  BY <1>5, <1>6, <1>7

(* A slot lies below all earlier ones and above the bottom of the area.    *)
LEMMA VarsSizeMonotone ==
  ASSUME NEW Instrs, NEW insts \in Seq(Instrs), NEW j \in 0 .. Len(insts), NEW k \in 0 .. Len(insts),
         j <= k
  PROVE  VarsSize(insts, j) <= VarsSize(insts, k)
<1>. DEFINE S == {i \in DOMAIN insts : ~ IsAlias(insts[i])}
            W == {i \in DOMAIN insts : ~ IsAlias(insts[i]) /\ insts[i].type = "i64"}
            C(n) == Cardinality(S \cap 1 .. n)
            D(n) == Cardinality(W \cap 1 .. n)
<1>1. ASSUME NEW n \in 0 .. Len(insts)
      PROVE  VarsSize(insts, n) = 4 * C(n) + 4 * D(n)
  <2>1. /\ {i \in 1 .. n : ~ IsAlias(insts[i])} = S \cap 1 .. n
        /\ {i \in 1 .. n : ~ IsAlias(insts[i]) /\ insts[i].type = "i64"} = W \cap 1 .. n
    OBVIOUS
  <2>. QED
    BY <2>1 DEF VarsSize
<1>2. j \in Nat /\ k \in Nat
  OBVIOUS
<1>3. C(j) <= C(k) /\ C(j) \in Nat /\ C(k) \in Nat
  BY <1>2, CountMonotone, CountStep
<1>4. D(j) <= D(k) /\ D(j) \in Nat /\ D(k) \in Nat
  BY <1>2, CountMonotone, CountStep
<1>5. VarsSize(insts, j) = 4 * C(j) + 4 * D(j) /\ VarsSize(insts, k) = 4 * C(k) + 4 * D(k)
  BY <1>1
<1>. HIDE DEF C, D
<1>. QED
  BY <1>3, <1>4, <1>5

(* Slots of parameters lie above the return address, those of instructions  *)
(* below the frame pointer and above the outgoing arguments.                *)
LEMMA SlotRegions ==
  ASSUME NEW f, NEW Instrs, f.params \in Seq(Types), f.insts \in Seq(Instrs),
         NEW v \in SlottedValues(f)
  PROVE  /\ FrameSlots(f)[v] \in Int
         /\ v[1] = "param" => FrameSlots(f)[v] >= FirstParameter
         /\ v[1] # "param" =>
              /\ FrameSlots(f)[v] >= -VarsSize(f.insts, Len(f.insts))
              /\ FrameSlots(f)[v] + ArgStackSize(ValueType(f, v)) <= 0
<1>1. CASE v \in {Param(k) : k \in DOMAIN f.params}
  <2>1. PICK k \in DOMAIN f.params : v = Param(k)
    BY <1>1
  <2>2. v[1] = "param" /\ v[2] = k
    BY <2>1 DEF Param
  <2>3. FrameSlots(f)[v] = FirstParameter + ArgOffset(f.params, k)
    BY <2>2 DEF FrameSlots, ParamSlot
  <2>4. ArgOffset(f.params, k) \in Nat
    BY ArgOffsetStep
  <2>. QED
    BY <2>2, <2>3, <2>4 DEF FirstParameter
<1>2. CASE v \in {Inst(k) : k \in {j \in DOMAIN f.insts : ~ IsAlias(f.insts[j])}}
  <2>1. PICK k \in DOMAIN f.insts : v = Inst(k) /\ ~ IsAlias(f.insts[k])
    BY <1>2
  <2>2. v[1] = "inst" /\ v[2] = k
    BY <2>1 DEF Inst
  <2>3. FrameSlots(f)[v] = -VarsSize(f.insts, k) /\ ValueType(f, v) = f.insts[k].type
    BY <2>2 DEF FrameSlots, InstSlot, ValueType
  <2>4. /\ k - 1 \in 0 .. Len(f.insts) /\ k \in 0 .. Len(f.insts)
        /\ Len(f.insts) \in 0 .. Len(f.insts) /\ (k - 1) + 1 = k /\ k <= Len(f.insts)
    OBVIOUS
  <2>5. VarsSize(f.insts, k) = VarsSize(f.insts, k - 1) + ArgStackSize(f.insts[k].type)
    BY <2>1, <2>4, VarsSizeStep
  <2>6. VarsSize(f.insts, k - 1) \in Nat /\ VarsSize(f.insts, k) \in Nat
        /\ VarsSize(f.insts, Len(f.insts)) \in Nat
    BY <2>4, VarsSizeStep
  <2>7. VarsSize(f.insts, k) <= VarsSize(f.insts, Len(f.insts))
    BY <2>4, VarsSizeMonotone
  <2>. QED
    BY SMTT(30), <2>2, <2>3, <2>5, <2>6, <2>7 DEF ArgStackSize
<1>. QED
  BY <1>1, <1>2 DEF SlottedValues

(* No two slots of a frame overlap.                                        *)
LEMMA SlotsDoNotOverlap ==
  ASSUME NEW f, NEW Instrs, f.params \in Seq(Types), f.insts \in Seq(Instrs),
         NEW u \in SlottedValues(f), NEW v \in SlottedValues(f), u # v
  PROVE  Disjoint(FrameSlots(f)[u], ArgStackSize(ValueType(f, u)),
                  FrameSlots(f)[v], ArgStackSize(ValueType(f, v)))
<1>. DEFINE P == {Param(k) : k \in DOMAIN f.params}
            I == {Inst(k) : k \in {j \in DOMAIN f.insts : ~ IsAlias(f.insts[j])}}
<1>1. ASSUME NEW x \in P, NEW y \in P, x[2] < y[2]
      PROVE  FrameSlots(f)[x] + ArgStackSize(ValueType(f, x)) <= FrameSlots(f)[y]
  <2>1. /\ x[1] = "param" /\ x[2] \in DOMAIN f.params /\ x \in SlottedValues(f)
        /\ y[1] = "param" /\ y[2] \in DOMAIN f.params /\ y \in SlottedValues(f)
    BY DEF Param, SlottedValues
  <2>2. /\ FrameSlots(f)[x] = FirstParameter + ArgOffset(f.params, x[2])
        /\ FrameSlots(f)[y] = FirstParameter + ArgOffset(f.params, y[2])
        /\ ValueType(f, x) = f.params[x[2]]
    BY <2>1 DEF FrameSlots, ParamSlot, ValueType
  <2>3. ArgOffset(f.params, x[2]) + ArgStackSize(f.params[x[2]]) <= ArgOffset(f.params, y[2])
    BY <1>1, <2>1, ArgOffsetMonotone
  <2>4. ArgOffset(f.params, x[2]) \in Nat /\ ArgOffset(f.params, y[2]) \in Nat
    <3>1. x[2] \in 1 .. (Len(f.params) + 1) /\ y[2] \in 1 .. (Len(f.params) + 1)
      BY <2>1
    <3>. QED
      BY <3>1, ArgOffsetStep
  <2>. QED
    BY <2>2, <2>3, <2>4 DEF FirstParameter, ArgStackSize
<1>2. ASSUME NEW x \in I, NEW y \in I, x[2] < y[2]
      PROVE  FrameSlots(f)[y] + ArgStackSize(ValueType(f, y)) <= FrameSlots(f)[x]
  <2>1. /\ x[1] = "inst" /\ x[2] \in DOMAIN f.insts /\ x \in SlottedValues(f)
        /\ y[1] = "inst" /\ y[2] \in DOMAIN f.insts /\ y \in SlottedValues(f)
        /\ ~ IsAlias(f.insts[y[2]])
    BY DEF Inst, SlottedValues
  <2>2. /\ FrameSlots(f)[x] = -VarsSize(f.insts, x[2])
        /\ FrameSlots(f)[y] = -VarsSize(f.insts, y[2])
        /\ ValueType(f, y) = f.insts[y[2]].type
    BY <2>1 DEF FrameSlots, InstSlot, ValueType
  <2>3. /\ y[2] - 1 \in 0 .. Len(f.insts) /\ (y[2] - 1) + 1 = y[2]
        /\ x[2] \in 0 .. Len(f.insts) /\ x[2] <= y[2] - 1
    BY SMTT(30), <1>2, <2>1
  <2>4. VarsSize(f.insts, y[2]) = VarsSize(f.insts, y[2] - 1) + ArgStackSize(f.insts[y[2]].type)
    BY <2>1, <2>3, VarsSizeStep
  <2>5. VarsSize(f.insts, x[2]) <= VarsSize(f.insts, y[2] - 1)
    BY <2>3, VarsSizeMonotone
  <2>6. VarsSize(f.insts, x[2]) \in Nat /\ VarsSize(f.insts, y[2] - 1) \in Nat
    BY <2>3, VarsSizeStep
  <2>. QED
    BY <2>2, <2>4, <2>5, <2>6 DEF ArgStackSize
<1>3. CASE u \in P /\ v \in P
  <2>1. /\ u = <<"param", u[2]>> /\ v = <<"param", v[2]>> /\ u[2] \in Nat /\ v[2] \in Nat
    BY <1>3 DEF Param
  <2>2. u[2] < v[2] \/ v[2] < u[2]
    BY <2>1
  <2>. QED
    BY <1>1, <1>3, <2>2 DEF Disjoint
<1>4. CASE u \in I /\ v \in I
  <2>1. /\ u = <<"inst", u[2]>> /\ v = <<"inst", v[2]>> /\ u[2] \in Nat /\ v[2] \in Nat
    BY <1>4 DEF Inst
  <2>2. u[2] < v[2] \/ v[2] < u[2]
    BY <2>1
  <2>. QED
    BY <1>2, <1>4, <2>2 DEF Disjoint
<1>5. CASE (u \in P /\ v \in I) \/ (u \in I /\ v \in P)
  <2>1. \/ u[1] = "param" /\ v[1] # "param"
        \/ u[1] # "param" /\ v[1] = "param"
    BY <1>5 DEF Param, Inst
  <2>2. ASSUME NEW x \in SlottedValues(f)
        PROVE  /\ FrameSlots(f)[x] \in Int
               /\ x[1] = "param" => FrameSlots(f)[x] >= FirstParameter
               /\ x[1] # "param" => FrameSlots(f)[x] + ArgStackSize(ValueType(f, x)) <= 0
    BY SlotRegions
  <2>. QED
    BY <2>1, <2>2 DEF Disjoint, FirstParameter, ArgStackSize
<1>. QED
  BY <1>3, <1>4, <1>5 DEF SlottedValues
================================================================================
