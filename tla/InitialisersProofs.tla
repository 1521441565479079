--------------------------- MODULE InitialisersProofs ---------------------------
(***************************************************************************)
(* Theorems about Initialisers, for constants of any size and depth.       *)
(***************************************************************************)
EXTENDS Initialisers, SharedLemmas

(* Arithmetic: the quotient and the remainder are what they are known by.   *)
LEMMA DivisionUnique ==
  ASSUME NEW p \in Nat \ {0}, NEW q \in Int, NEW r \in 0 .. (p - 1)
  PROVE  (p * q + r) \div p = q /\ (p * q + r) % p = r
  OBVIOUS

LEMMA Division ==
  ASSUME NEW x \in Int, NEW p \in Nat \ {0}
  PROVE  /\ x \div p \in Int /\ x % p \in 0 .. (p - 1)
         /\ x = p * (x \div p) + (x % p)
         /\ x >= 0 => x \div p >= 0
  OBVIOUS
LEMMA RemainderShift ==
  ASSUME NEW p \in Nat \ {0}, NEW q \in Int, NEW x \in Int
  PROVE  (p * q + x) \div p = q + (x \div p) /\ (p * q + x) % p = x % p
<1>. DEFINE a == x \div p
            r == x % p
<1>1. a \in Int /\ r \in 0 .. (p - 1) /\ x = p * a + r
  BY Division
<1>. HIDE DEF a, r
<1>2. p * q + x = p * (q + a) + r
  BY <1>1
<1>3. (p * (q + a) + r) \div p = q + a /\ (p * (q + a) + r) % p = r
  BY <1>1, DivisionUnique
<1>. QED
  BY <1>2, <1>3 DEF a, r

(* A remainder modulo a multiple of p has the same remainder modulo p.      *)
LEMMA RemainderOfRemainder ==
  ASSUME NEW p \in Nat \ {0}, NEW m \in Nat \ {0}, NEW x \in Int
  PROVE  (x % (p * m)) % p = x % p
<1>. DEFINE w == p * m
            q == x \div w
            r == x % w
<1>1. w \in Nat \ {0}
  OBVIOUS
<1>2. q \in Int /\ r \in Int /\ x = w * q + r
  <2>. HIDE DEF w
  <2>. QED
    BY <1>1, Division
<1>. HIDE DEF q, r
<1>3. x = p * (m * q) + r /\ m * q \in Int
  BY <1>2
<1>4. (p * (m * q) + r) % p = r % p
  BY <1>2, <1>3, RemainderShift
<1>. QED
  BY <1>3, <1>4 DEF r

(* Reducing what is added does not change the remainder of the sum.         *)
LEMMA RemainderOfSum ==
  ASSUME NEW p \in Nat \ {0}, NEW x \in Int, NEW y \in Int
  PROVE  ((x % p) + y) % p = (x + y) % p
<1>. DEFINE q == x \div p
            r == x % p
<1>1. q \in Int /\ r \in Int /\ x = p * q + r
  BY Division
<1>. HIDE DEF q, r
<1>2. x + y = p * q + (r + y) /\ r + y \in Int
  BY <1>1
<1>3. (p * q + (r + y)) % p = (r + y) % p
  BY <1>1, <1>2, RemainderShift
<1>. QED
  BY <1>2, <1>3 DEF r

--------------------------------------------------------------------------------
(* The numbers that n bytes hold.                                           *)
LEMMA ValuesDefined ==
  Values = [n \in Nat |-> IF n = 0 THEN 1 ELSE ByteValues * Values[n - 1]]
<1>. DEFINE d == [n \in Nat |-> n]
            G == [p \in Nat \X [Nat -> Nat] |->
                    IF p[1] = 0 THEN 1 ELSE ByteValues * p[2][p[1] - 1]]
<1>1. d \in [Nat -> Nat] /\ \A n \in Nat : d[n] = n
  OBVIOUS
<1>2. ASSUME NEW n \in Nat, NEW f \in [Nat -> Nat]
      PROVE  G[<<n, f>>] = IF n = 0 THEN 1 ELSE ByteValues * f[n - 1]
  OBVIOUS
<1>3. G \in [Nat \X [Nat -> Nat] -> Nat]
  <2>1. ASSUME NEW n \in Nat, NEW f \in [Nat -> Nat]
        PROVE  (IF n = 0 THEN 1 ELSE ByteValues * f[n - 1]) \in Nat
    BY ByteAssumption
  <2>2. \A p \in Nat \X [Nat -> Nat] :
          (IF p[1] = 0 THEN 1 ELSE ByteValues * p[2][p[1] - 1]) \in Nat
    BY <2>1
  <2>. QED
    BY <2>2
<1>. HIDE DEF d, G
<1>4. \A n \in Nat : \A f, h \in [Nat -> Nat] :
        (\A m \in Nat : d[m] < d[n] => f[m] = h[m]) => G[<<n, f>>] = G[<<n, h>>]
  <2>1. ASSUME NEW n \in Nat, NEW f \in [Nat -> Nat], NEW h \in [Nat -> Nat],
               \A m \in Nat : d[m] < d[n] => f[m] = h[m]
        PROVE  G[<<n, f>>] = G[<<n, h>>]
    <3>1. n # 0 => n - 1 \in Nat /\ d[n - 1] < d[n]
      BY <1>1
    <3>2. n # 0 => f[n - 1] = h[n - 1]
      BY <2>1, <3>1
    <3>. QED
      BY <1>2, <3>2
  <2>. QED
    BY <2>1
<1>5. IsStep(G, Nat, d, Nat)
  BY <1>1, <1>3, <1>4 DEF IsStep
<1>6. PICK f : Solves(f, G, Nat, Nat)
  BY <1>5, RecursionDefined
<1>7. f \in [Nat -> Nat] /\ \A n \in Nat : f[n] = G[<<n, f>>]
  BY <1>6 DEF Solves
<1>8. f = [n \in Nat |-> IF n = 0 THEN 1 ELSE ByteValues * f[n - 1]]
  BY <1>2, <1>7
<1>. QED
  BY <1>8 DEF Values

LEMMA ValuesFacts ==
  /\ \A n \in Nat : Values[n] \in Nat \ {0}
  /\ Values[0] = 1 /\ \A n \in Nat : Values[n + 1] = Values[n] * ByteValues
<1>1. Values[0] = 1
  BY ValuesDefined
<1>2. \A n \in Nat : Values[n + 1] = ByteValues * Values[n]
  <2>1. ASSUME NEW n \in Nat PROVE Values[n + 1] = ByteValues * Values[n]
    <3>1. n + 1 \in Nat /\ n + 1 # 0 /\ (n + 1) - 1 = n
      OBVIOUS
    <3>2. Values[n + 1] = IF n + 1 = 0 THEN 1 ELSE ByteValues * Values[(n + 1) - 1]
      BY <3>1, ValuesDefined
    <3>. QED
      BY <3>1, <3>2
  <2>. QED
    BY <2>1
<1>. DEFINE S == { n \in Nat : Values[n] \in Nat \ {0} }
<1>3. 0 \in S
  BY <1>1
<1>4. \A n \in Nat : n \in S => n + 1 \in S
  <2>1. ASSUME NEW n \in Nat, n \in S PROVE Values[n + 1] \in Nat \ {0}
    BY <1>2, <2>1, ByteAssumption
  <2>. QED
    BY <2>1
<1>5. Nat \subseteq S
  <2>. HIDE DEF S
  <2>. QED
    BY <1>3, <1>4, SetInduction
<1>6. \A n \in Nat : ByteValues * Values[n] = Values[n] * ByteValues
  BY <1>5, ByteAssumption
<1>. QED
  BY <1>1, <1>2, <1>5, <1>6

LEMMA ValuesOfSum ==
  ASSUME NEW m \in Nat, NEW n \in Nat
  PROVE  Values[m + n] = Values[m] * Values[n]
<1>. DEFINE S == { k \in Nat : Values[m + k] = Values[m] * Values[k] }
<1>1. 0 \in S
  <2>1. m + 0 = m /\ Values[m] \in Nat /\ Values[0] = 1
    BY ValuesFacts
  <2>. QED
    BY <2>1
<1>2. ASSUME NEW k \in Nat, k \in S PROVE k + 1 \in S
  <2>1. m + k \in Nat /\ m + (k + 1) = (m + k) + 1
    OBVIOUS
  <2>2. /\ Values[m + (k + 1)] = Values[m + k] * ByteValues
        /\ Values[k + 1] = Values[k] * ByteValues
        /\ Values[m] \in Nat /\ Values[k] \in Nat
    BY <2>1, ValuesFacts
  <2>3. \A a, b, c \in Nat : (a * b) * c = a * (b * c)
    OBVIOUS
  <2>4. Values[m + (k + 1)] = Values[m] * Values[k + 1]
    BY <1>2, <2>2, <2>3, ByteAssumption
  <2>. QED
    BY <2>4
<1>3. Nat \subseteq S
  <2>1. \A k \in Nat : k \in S => k + 1 \in S
    BY <1>2
  <2>. HIDE DEF S
  <2>. QED
    BY <1>1, <2>1, SetInduction
<1>. QED
  BY <1>3

(* Bytes of a number are bytes, and reducing it to n bytes does not change  *)
(* any of them.                                                             *)
LEMMA BytesFacts ==
  ASSUME NEW v \in Int, NEW n \in Nat
  PROVE  /\ Bytes(v, n) \in [1 .. n -> 0 .. (ByteValues - 1)]
         /\ Bytes(v % Values[n], n) = Bytes(v, n)
<1>1. ASSUME NEW k \in 1 .. n
      PROVE  /\ (v \div Values[k - 1]) % ByteValues \in 0 .. (ByteValues - 1)
             /\ ((v % Values[n]) \div Values[k - 1]) % ByteValues = (v \div Values[k - 1]) % ByteValues
  <2>. DEFINE p == Values[k - 1]
              m == Values[n - k]
              b == ByteValues
              w == Values[n]
              q == v \div w
              r == v % w
  <2>1. k - 1 \in Nat /\ n - k \in Nat /\ (k - 1) + 1 = k /\ k \in Nat /\ k + (n - k) = n
    OBVIOUS
  <2>2. p \in Nat \ {0} /\ m \in Nat \ {0} /\ b \in Nat \ {0} /\ w \in Nat \ {0}
    BY <2>1, ValuesFacts, ByteAssumption
  <2>3. w = (p * b) * m
    BY <2>1, ValuesFacts, ValuesOfSum
  <2>4. q \in Int /\ r \in Int /\ v = w * q + r
    <3>. HIDE DEF w
    <3>. QED
      BY <2>2, Division
  <2>5. v = p * (b * (m * q)) + r /\ b * (m * q) \in Int /\ m * q \in Int
    <3>. HIDE DEF p, m, b, w, q, r
    <3>1. m * q \in Int
      BY <2>2, <2>4
    <3>2. b * (m * q) \in Int
      BY <2>2, <3>1
    <3>3. ((p * b) * m) * q = p * (b * (m * q))
      BY <2>2, <2>4
    <3>. QED
      BY <2>3, <2>4, <3>1, <3>2, <3>3
  <2>. HIDE DEF p, m, b, w, q, r
  <2>. DEFINE t == b * (m * q)
              s == m * q
              a == r \div p
              z == v \div p
  <2>6. z = t + a /\ a \in Int /\ z \in Int /\ t = b * s /\ s \in Int
    <3>1. a \in Int /\ z \in Int
      BY <2>2, <2>4, Division
    <3>2. v = p * t + r /\ t \in Int /\ t = b * s /\ s \in Int
      BY <2>5
    <3>. HIDE DEF t, s
    <3>3. (p * t + r) \div p = t + (r \div p)
      BY <2>2, <2>4, <3>2, RemainderShift
    <3>. QED
      BY <3>1, <3>2, <3>3
  <2>7. z % b = a % b
    <3>. HIDE DEF t, s, a, z
    <3>1. (b * s + a) % b = a % b
      BY <2>2, <2>6, RemainderShift
    <3>. QED
      BY <2>6, <3>1
  <2>8. z % b \in 0 .. (b - 1)
    <3>. HIDE DEF t, s, a, z
    <3>. QED
      BY <2>2, <2>6, Division
  <2>. QED
    BY <2>7, <2>8 DEF p, b, r, w
<1>. QED
  BY <1>1 DEF Bytes

--------------------------------------------------------------------------------
(* Recursion and induction over constants.                                  *)
DefinesByParts(G, V) ==
  /\ V # {} /\ G \in [Constants \X [Constants -> V] -> V]
  /\ \A c \in Constants : \A f, h \in [Constants -> V] :
       (\A p \in Parts(c) : f[p] = h[p]) => G[<<c, f>>] = G[<<c, h>>]

LEMMA PartsAreSmaller ==
  ASSUME NEW c \in Constants
  PROVE  Depth(c) \in Nat /\ \A p \in Parts(c) : p \in Constants /\ Depth(p) < Depth(c)
  BY ConstantsAssumption DEF WellFormed

LEMMA ConstantRecursion ==
  ASSUME NEW G, NEW V, DefinesByParts(G, V)
  PROVE  \E f \in [Constants -> V] : \A c \in Constants : f[c] = G[<<c, f>>]
<1>. DEFINE d == [c \in Constants |-> Depth(c)]
<1>1. d \in [Constants -> Nat] /\ \A c \in Constants : d[c] = Depth(c)
  BY PartsAreSmaller
<1>. HIDE DEF d
<1>2. ASSUME NEW c \in Constants, NEW f \in [Constants -> V], NEW h \in [Constants -> V],
             \A y \in Constants : d[y] < d[c] => f[y] = h[y]
      PROVE  G[<<c, f>>] = G[<<c, h>>]
  <2>1. \A p \in Parts(c) : f[p] = h[p]
    BY <1>1, <1>2, PartsAreSmaller
  <2>. QED
    BY <2>1 DEF DefinesByParts
<1>3. IsStep(G, Constants, d, V)
  BY <1>1, <1>2 DEF IsStep, DefinesByParts
<1>4. PICK f : Solves(f, G, Constants, V)
  BY <1>3, RecursionDefined
<1>. QED
  BY <1>4 DEF Solves

LEMMA ConstantInduction ==
  ASSUME NEW S, \A c \in Constants : (\A p \in Parts(c) : p \in S) => c \in S
  PROVE  \A c \in Constants : c \in S
<1>. DEFINE T == { n \in Nat : \A c \in Constants : Depth(c) < n => c \in S }
<1>1. 0 \in T
  BY PartsAreSmaller
<1>2. ASSUME NEW n \in Nat, n \in T PROVE n + 1 \in T
  <2>1. ASSUME NEW c \in Constants, Depth(c) < n + 1
        PROVE  c \in S
    <3>1. \A p \in Parts(c) : p \in S
      BY <1>2, <2>1, PartsAreSmaller
    <3>. QED
      BY <3>1
  <2>. QED
    BY <2>1
<1>3. Nat \subseteq T
  <2>1. \A n \in Nat : n \in T => n + 1 \in T
    BY <1>2
  <2>. HIDE DEF T
  <2>. QED
    BY <1>1, <2>1, SetInduction
<1>4. ASSUME NEW c \in Constants PROVE c \in S
  <2>1. Depth(c) \in Nat /\ Depth(c) + 1 \in T /\ Depth(c) < Depth(c) + 1
    BY <1>3, PartsAreSmaller
  <2>. QED
    BY <2>1
<1>. QED
  BY <1>4

--------------------------------------------------------------------------------
(* What expand_constant() returns.                                          *)
Names == { c.name : c \in Constants } \cup {NoGlobal}
Expansions == [global : Names, offset : 0 .. (Range64 - 1), unhandled : BOOLEAN]

ExpandStep(c, f) ==
  CASE c.kind = "global" -> Expanded(c.name, 0)
    [] c.kind = "int" \/ (c.kind = "fp" /\ c.type.name = "double") -> Expanded(NoGlobal, c.val)
    [] c.kind \in {"null", "zero"} -> Expanded(NoGlobal, 0)
    [] c.kind = "gep" -> [f[c.base] EXCEPT !.offset = (@ + c.offset) % Range64]
    [] c.kind = "cast" -> f[c.base]
    [] OTHER -> Unhandled

LEMMA RangeFacts ==
  Range32 \in Nat \ {0} /\ Range64 \in Nat \ {0} /\ Range64 = Range32 * Range32
<1>1. 4 \in Nat /\ 8 \in Nat /\ 8 = 4 + 4
  OBVIOUS
<1>2. Values[4] \in Nat \ {0} /\ Values[8] \in Nat \ {0} /\ Values[4 + 4] = Values[4] * Values[4]
  BY ValuesFacts, ValuesOfSum
<1>. QED
  BY <1>1, <1>2 DEF Range32, Range64

LEMMA ExpandedInRange ==
  ASSUME NEW g \in Names, NEW n \in Int
  PROVE  Expanded(g, n) \in Expansions /\ Unhandled \in Expansions
<1>1. n % Range64 \in 0 .. (Range64 - 1) /\ 0 \in 0 .. (Range64 - 1)
  BY RangeFacts, Division
<1>. QED
  BY <1>1 DEF Expanded, Unhandled, Expansions, Names

LEMMA ExpandStepTyped ==
  ASSUME NEW c \in Constants, NEW f \in [Constants -> Expansions]
  PROVE  ExpandStep(c, f) \in Expansions
<1>1. CASE c.kind = "global"
  BY <1>1, ExpandedInRange DEF ExpandStep, Names
<1>2. CASE c.kind = "int" \/ (c.kind = "fp" /\ c.type.name = "double")
  <2>1. WellFormed(c) /\ NoGlobal \in Names
    BY ConstantsAssumption DEF Names
  <2>2. c.val \in Int
    BY <1>2, <2>1 DEF WellFormed
  <2>. QED
    BY <1>2, <2>1, <2>2, ExpandedInRange DEF ExpandStep
<1>3. CASE c.kind \in {"null", "zero"}
  BY <1>3, ExpandedInRange DEF ExpandStep, Names
<1>4. CASE c.kind = "gep"
  <2>1. c.base \in Constants /\ c.offset \in Int
    BY <1>4, ConstantsAssumption DEF WellFormed, Parts
  <2>. DEFINE b == f[c.base]
  <2>2. b \in Expansions
    BY <2>1
  <2>. HIDE DEF b
  <2>. DEFINE n == b.offset + c.offset
  <2>3. n \in Int
    BY <2>1, <2>2, RangeFacts DEF Expansions
  <2>. HIDE DEF n
  <2>4. n % Range64 \in 0 .. (Range64 - 1)
    BY <2>3, RangeFacts, Division
  <2>5. [b EXCEPT !.offset = n % Range64] \in Expansions
    BY <2>2, <2>4 DEF Expansions
  <2>. QED
    BY <1>4, <2>5 DEF ExpandStep, b, n
<1>5. CASE c.kind = "cast"
  <2>1. c.base \in Constants
    BY <1>5, ConstantsAssumption DEF WellFormed, Parts
  <2>. QED
    BY <1>5, <2>1 DEF ExpandStep
<1>6. CASE c.kind \notin {"global", "int", "null", "zero", "gep", "cast"} /\ ~(c.kind = "fp" /\ c.type.name = "double")
  <2>1. ExpandStep(c, f) = Unhandled
    BY <1>6 DEF ExpandStep
  <2>. QED
    BY <2>1, ExpandedInRange DEF Names
<1>. QED
  BY <1>1, <1>2, <1>3, <1>4, <1>5, <1>6

LEMMA ExpandDefined ==
  /\ ExpandConstant \in [Constants -> Expansions]
  /\ \A c \in Constants : ExpandConstant[c] = ExpandStep(c, ExpandConstant)
<1>. DEFINE G == [p \in Constants \X [Constants -> Expansions] |-> ExpandStep(p[1], p[2])]
<1>1. \A c \in Constants : \A f \in [Constants -> Expansions] : G[<<c, f>>] = ExpandStep(c, f)
  OBVIOUS
<1>2. G \in [Constants \X [Constants -> Expansions] -> Expansions]
  BY ExpandStepTyped
<1>. HIDE DEF G
<1>3. ASSUME NEW c \in Constants, NEW f, NEW h, \A p \in Parts(c) : f[p] = h[p]
      PROVE  ExpandStep(c, f) = ExpandStep(c, h)
  <2>1. c.kind \in {"gep", "cast"} => f[c.base] = h[c.base]
    BY <1>3 DEF Parts
  <2>. QED
    BY <2>1 DEF ExpandStep
<1>4. Expansions # {}
  BY ExpandedInRange DEF Names
<1>5. DefinesByParts(G, Expansions)
  BY <1>1, <1>2, <1>3, <1>4 DEF DefinesByParts
<1>6. PICK f \in [Constants -> Expansions] : \A c \in Constants : f[c] = G[<<c, f>>]
  BY <1>5, ConstantRecursion
<1>7. f = [c \in Constants |->
        CASE c.kind = "global" -> Expanded(c.name, 0)
          [] c.kind = "int" \/ (c.kind = "fp" /\ c.type.name = "double") -> Expanded(NoGlobal, c.val)
          [] c.kind \in {"null", "zero"} -> Expanded(NoGlobal, 0)
          [] c.kind = "gep" ->
               LET base == f[c.base]
               IN [base EXCEPT !.offset = (@ + c.offset) % Range64]
          [] c.kind = "cast" -> f[c.base]
          [] OTHER -> Unhandled]
  BY <1>1, <1>6 DEF ExpandStep
<1>8. ExpandConstant = [c \in Constants |->
        CASE c.kind = "global" -> Expanded(c.name, 0)
          [] c.kind = "int" \/ (c.kind = "fp" /\ c.type.name = "double") -> Expanded(NoGlobal, c.val)
          [] c.kind \in {"null", "zero"} -> Expanded(NoGlobal, 0)
          [] c.kind = "gep" ->
               LET base == ExpandConstant[c.base]
               IN [base EXCEPT !.offset = (@ + c.offset) % Range64]
          [] c.kind = "cast" -> ExpandConstant[c.base]
          [] OTHER -> Unhandled]
  BY <1>7 DEF ExpandConstant
<1>9. \A c \in Constants : ExpandConstant[c] = ExpandStep(c, ExpandConstant)
  BY <1>8 DEF ExpandStep
<1>10. \A c \in Constants : ExpandConstant[c] = f[c]
  <2>. DEFINE S == { c \in Constants : ExpandConstant[c] = f[c] }
  <2>1. ASSUME NEW c \in Constants, \A p \in Parts(c) : p \in S
        PROVE  c \in S
    <3>1. ExpandStep(c, ExpandConstant) = ExpandStep(c, f)
      BY <1>3, <2>1
    <3>. QED
      BY <1>1, <1>6, <1>9, <3>1
  <2>. HIDE DEF S
  <2>2. \A c \in Constants : c \in S
    BY <2>1, ConstantInduction
  <2>. QED
    BY <2>2 DEF S
<1>11. ExpandConstant = [c \in Constants |-> f[c]]
  BY <1>8, <1>10
<1>. QED
  BY <1>6, <1>9, <1>11

--------------------------------------------------------------------------------
(* What a scalar means.                                                     *)
Meanings == [bottom : Constants, displacement : 0 .. (Range64 - 1), number : Nat, fits : BOOLEAN]

CastFits(c) == ExpandConstant[c.base].offset < Values[AllocSize(c.base.type)]
MeaningStep(c, f) ==
  CASE c.kind = "gep" ->
         [f[c.base] EXCEPT !.displacement = (@ + c.offset) % Range64,
                           !.number = Reduced(@ + c.offset, c.type)]
    [] c.kind = "cast" ->
         [f[c.base] EXCEPT !.number = Reduced(@, c.type), !.fits = @ /\ CastFits(c)]
    [] OTHER ->
         [bottom |-> c, displacement |-> 0, fits |-> TRUE,
          number |-> Reduced(IF c.kind \in {"int", "fp"} THEN c.val ELSE 0, c.type)]

LEMMA SizesAreNumbers ==
  ASSUME NEW c \in Constants
  PROVE  AllocSize(c.type) \in 0 .. (Range64 - 1) /\ AllocSize(c.type) \in Nat
  BY LayoutAssumption, RangeFacts DEF LaidOut

LEMMA ReducedInRange ==
  ASSUME NEW c \in Constants, NEW n \in Int
  PROVE  Reduced(n, c.type) \in 0 .. (Values[AllocSize(c.type)] - 1) /\ Reduced(n, c.type) \in Nat
<1>. DEFINE p == Values[AllocSize(c.type)]
<1>1. p \in Nat \ {0}
  BY SizesAreNumbers, ValuesFacts
<1>. HIDE DEF p
<1>2. n % p \in 0 .. (p - 1) /\ n % p \in Nat
  BY <1>1, Division
<1>. QED
  BY <1>2 DEF Reduced, p

LEMMA MeaningStepTyped ==
  ASSUME NEW c \in Constants, NEW f \in [Constants -> Meanings]
  PROVE  MeaningStep(c, f) \in Meanings
<1>1. WellFormed(c)
  BY ConstantsAssumption
<1>2. CASE c.kind \in {"gep", "cast"}
  <2>1. c.base \in Constants
    BY <1>1, <1>2 DEF WellFormed, Parts
  <2>. DEFINE b == f[c.base]
  <2>2. b \in Meanings
    BY <2>1
  <2>. HIDE DEF b
  <2>3. b.number \in Int /\ b.displacement \in Int /\ b.fits \in BOOLEAN
    BY <2>2, RangeFacts DEF Meanings
  <2>4. CASE c.kind = "gep"
    <3>. DEFINE d == (b.displacement + c.offset) % Range64
                n == Reduced(b.number + c.offset, c.type)
    <3>1. c.offset \in Int
      BY <1>1, <2>4 DEF WellFormed
    <3>2. n \in Nat
      <4>1. b.number + c.offset \in Int
        BY <2>3, <3>1
      <4>. QED
        BY <4>1, ReducedInRange
    <3>3. d \in 0 .. (Range64 - 1)
      <4>. DEFINE s == b.displacement + c.offset
      <4>1. s \in Int
        BY <2>3, <3>1
      <4>. HIDE DEF s
      <4>2. s % Range64 \in 0 .. (Range64 - 1)
        BY <4>1, RangeFacts, Division
      <4>. QED
        BY <4>2 DEF s
    <3>4. MeaningStep(c, f) = [b EXCEPT !.displacement = d, !.number = n]
      BY <2>4 DEF MeaningStep, b
    <3>. HIDE DEF d, n
    <3>. QED
      BY <2>2, <3>2, <3>3, <3>4 DEF Meanings
  <2>5. CASE c.kind = "cast"
    <3>. DEFINE n == Reduced(b.number, c.type)
                t == b.fits /\ CastFits(c)
    <3>1. n \in Nat
      BY <2>3, ReducedInRange
    <3>2. t \in BOOLEAN
      OBVIOUS
    <3>3. MeaningStep(c, f) = [b EXCEPT !.number = n, !.fits = t]
      BY <2>5 DEF MeaningStep, b
    <3>. HIDE DEF n, t
    <3>. QED
      BY <2>2, <3>1, <3>2, <3>3 DEF Meanings
  <2>. QED
    BY <1>2, <2>4, <2>5
<1>3. CASE c.kind \notin {"gep", "cast"}
  <2>. DEFINE v == IF c.kind \in {"int", "fp"} THEN c.val ELSE 0
              n == Reduced(v, c.type)
  <2>1. v \in Int
    BY <1>1 DEF WellFormed
  <2>2. n \in Nat
    <3>. HIDE DEF v
    <3>. QED
      BY <2>1, ReducedInRange
  <2>3. MeaningStep(c, f) = [bottom |-> c, displacement |-> 0, fits |-> TRUE, number |-> n]
    BY <1>3 DEF MeaningStep
  <2>4. 0 \in 0 .. (Range64 - 1)
    BY RangeFacts
  <2>. HIDE DEF n
  <2>. QED
    BY <2>2, <2>3, <2>4 DEF Meanings
<1>. QED
  BY <1>2, <1>3

LEMMA MeaningDefined ==
  /\ Meaning \in [Constants -> Meanings]
  /\ \A c \in Constants : Meaning[c] = MeaningStep(c, Meaning)
<1>. DEFINE G == [p \in Constants \X [Constants -> Meanings] |-> MeaningStep(p[1], p[2])]
<1>1. \A c \in Constants : \A f \in [Constants -> Meanings] : G[<<c, f>>] = MeaningStep(c, f)
  OBVIOUS
<1>2. G \in [Constants \X [Constants -> Meanings] -> Meanings]
  BY MeaningStepTyped
<1>. HIDE DEF G
<1>3. ASSUME NEW c \in Constants, NEW f, NEW h, \A p \in Parts(c) : f[p] = h[p]
      PROVE  MeaningStep(c, f) = MeaningStep(c, h)
  <2>1. c.kind \in {"gep", "cast"} => f[c.base] = h[c.base]
    BY <1>3 DEF Parts
  <2>. QED
    BY <2>1 DEF MeaningStep
<1>4. CASE Constants = {}
  <2>1. Meaning = [c \in Constants |-> Meaning[c]]
    BY <1>4 DEF Meaning
  <2>. QED
    BY <1>4, <2>1
<1>5. CASE Constants # {}
  <2>1. Meanings # {}
    <3>1. PICK c \in Constants : TRUE
      BY <1>5
    <3>2. 0 \in 0 .. (Range64 - 1)
      BY RangeFacts
    <3>3. [bottom |-> c, displacement |-> 0, number |-> 0, fits |-> TRUE] \in Meanings
      BY <3>2 DEF Meanings
    <3>. QED
      BY <3>3
  <2>2. DefinesByParts(G, Meanings)
    BY <1>1, <1>2, <1>3, <2>1 DEF DefinesByParts
  <2>3. PICK f \in [Constants -> Meanings] : \A c \in Constants : f[c] = G[<<c, f>>]
    BY <2>2, ConstantRecursion
  <2>4. f = [c \in Constants |->
        CASE c.kind = "gep" ->
               LET base == f[c.base]
               IN [base EXCEPT !.displacement = (@ + c.offset) % Range64,
                               !.number = Reduced(@ + c.offset, c.type)]
          [] c.kind = "cast" ->
               LET base == f[c.base]
               IN [base EXCEPT !.number = Reduced(@, c.type),
                               !.fits = @ /\ ExpandConstant[c.base].offset < Values[AllocSize(c.base.type)]]
          [] OTHER ->
               [bottom |-> c, displacement |-> 0, fits |-> TRUE,
                number |-> Reduced(IF c.kind \in {"int", "fp"} THEN c.val ELSE 0, c.type)]]
    <3>1. DOMAIN f = Constants /\ f = [c \in Constants |-> f[c]]
      BY <2>3
    <3>2. \A c \in Constants : f[c] = MeaningStep(c, f)
      BY <1>1, <2>3
    <3>3. f = [c \in Constants |-> MeaningStep(c, f)]
      BY <3>1, <3>2
    <3>. QED
      BY <3>3 DEF MeaningStep, CastFits
  <2>5. Meaning = [c \in Constants |->
        CASE c.kind = "gep" ->
               LET base == Meaning[c.base]
               IN [base EXCEPT !.displacement = (@ + c.offset) % Range64,
                               !.number = Reduced(@ + c.offset, c.type)]
          [] c.kind = "cast" ->
               LET base == Meaning[c.base]
               IN [base EXCEPT !.number = Reduced(@, c.type),
                               !.fits = @ /\ ExpandConstant[c.base].offset < Values[AllocSize(c.base.type)]]
          [] OTHER ->
               [bottom |-> c, displacement |-> 0, fits |-> TRUE,
                number |-> Reduced(IF c.kind \in {"int", "fp"} THEN c.val ELSE 0, c.type)]]
    BY <2>4 DEF Meaning
  <2>6. \A c \in Constants : Meaning[c] = MeaningStep(c, Meaning)
    BY <2>5 DEF MeaningStep, CastFits
  <2>7. \A c \in Constants : Meaning[c] = f[c]
    <3>. DEFINE S == { c \in Constants : Meaning[c] = f[c] }
    <3>1. ASSUME NEW c \in Constants, \A p \in Parts(c) : p \in S
          PROVE  c \in S
      <4>1. MeaningStep(c, Meaning) = MeaningStep(c, f)
        BY <1>3, <3>1
      <4>. QED
        BY <1>1, <2>3, <2>6, <4>1
    <3>. HIDE DEF S
    <3>2. \A c \in Constants : c \in S
      BY <3>1, ConstantInduction
    <3>. QED
      BY <3>2 DEF S
  <2>8. Meaning = [c \in Constants |-> f[c]]
    BY <2>5, <2>7
  <2>. QED
    BY <2>3, <2>6, <2>8
<1>. QED
  BY <1>4, <1>5

(* expand_constant() finds the bottom of a scalar, the displacement from it *)
(* if that is a global, and the number if all casts fit.                    *)
Agrees(c) ==
  LET e == ExpandConstant[c]
      m == Meaning[c]
  IN /\ m.bottom.kind \in (ScalarKinds \ {"gep", "cast"}) \cup {"zero"}
     /\ e.unhandled <=> \/ m.bottom.kind = "other"
                        \/ m.bottom.kind = "fp" /\ m.bottom.type.name # "double"
     /\ e.global = IF m.bottom.kind = "global" THEN m.bottom.name ELSE NoGlobal
     /\ m.bottom.kind = "global" => m.bottom.name # NoGlobal /\ e.offset = m.displacement
     /\ ~e.unhandled /\ m.fits => m.number = Reduced(e.offset, c.type)

LEMMA ValuesDivide ==
  ASSUME NEW n \in Nat, n <= 8, NEW x \in Int
  PROVE  (x % Range64) % Values[n] = x % Values[n]
<1>1. 8 - n \in Nat /\ n + (8 - n) = 8
  OBVIOUS
<1>2. Values[8] = Values[n] * Values[8 - n] /\ Values[n] \in Nat \ {0} /\ Values[8 - n] \in Nat \ {0}
  BY <1>1, ValuesFacts, ValuesOfSum
<1>. DEFINE p == Values[n]
            m == Values[8 - n]
<1>. HIDE DEF p, m
<1>3. (x % (p * m)) % p = x % p
  BY <1>2, RemainderOfRemainder DEF p, m
<1>. QED
  BY <1>2, <1>3 DEF p, m, Range64

LEMMA ExpansionAgrees ==
  \A c \in Constants : c.kind \in ScalarKinds \cup {"zero"} => Agrees(c)
<1>. DEFINE S == { c \in Constants : c.kind \in ScalarKinds \cup {"zero"} => Agrees(c) }
<1>1. ASSUME NEW c \in Constants, \A p \in Parts(c) : p \in S,
             c.kind \in ScalarKinds \cup {"zero"}
      PROVE  Agrees(c)
  <2>. DEFINE e == ExpandConstant[c]
              m == Meaning[c]
  <2>1. WellFormed(c)
    BY ConstantsAssumption
  <2>2. e = ExpandStep(c, ExpandConstant) /\ m = MeaningStep(c, Meaning) /\ e \in Expansions /\ m \in Meanings
    BY ExpandDefined, MeaningDefined
  <2>3. CASE c.kind \in {"gep", "cast"}
    <3>. DEFINE b == c.base
                eb == ExpandConstant[b]
                mb == Meaning[b]
    <3>1. b \in Constants /\ b \in S /\ b.kind \in ScalarKinds \cup {"zero"}
      BY <1>1, <2>1, <2>3 DEF WellFormed, Parts
    <3>2. Agrees(b) /\ eb \in Expansions /\ mb \in Meanings
      BY <3>1, ExpandDefined, MeaningDefined
    <3>3. eb.offset \in Int /\ eb.offset >= 0 /\ mb.number \in Int /\ mb.displacement \in Int
      BY <3>2, RangeFacts DEF Expansions, Meanings
    <3>4. CASE c.kind = "gep"
      <4>1. e = [eb EXCEPT !.offset = (@ + c.offset) % Range64]
        BY <2>2, <3>4 DEF ExpandStep
      <4>2. m = [mb EXCEPT !.displacement = (@ + c.offset) % Range64,
                           !.number = Reduced(@ + c.offset, c.type)]
        BY <2>2, <3>4 DEF MeaningStep
      <4>3. /\ e.global = eb.global /\ e.unhandled = eb.unhandled
            /\ e.offset = (eb.offset + c.offset) % Range64
        BY <3>2, <4>1 DEF Expansions
      <4>4. /\ m.bottom = mb.bottom /\ m.fits = mb.fits
            /\ m.displacement = (mb.displacement + c.offset) % Range64
            /\ m.number = Reduced(mb.number + c.offset, c.type)
        BY <3>2, <4>2 DEF Meanings
      <4>5. c.offset \in Int /\ AllocSize(c.type) = 4 /\ AllocSize(b.type) = 4
        BY <2>1, <3>4 DEF WellFormed
      <4>6. ASSUME ~eb.unhandled, mb.fits
            PROVE  m.number = Reduced(e.offset, c.type)
        <5>. DEFINE p == Values[4]
                    x == eb.offset
                    y == c.offset
        <5>1. mb.number = x % p
          BY <3>2, <4>5, <4>6 DEF Agrees, Reduced
        <5>2. x \in Int /\ y \in Int /\ p \in Nat \ {0} /\ 4 \in Nat /\ 4 <= 8
          BY <3>3, <4>5, ValuesFacts
        <5>3. m.number = (mb.number + y) % p /\ e.offset = (x + y) % Range64
          BY <4>3, <4>4, <4>5 DEF Reduced
        <5>4. Reduced(e.offset, c.type) = e.offset % p
          BY <4>5 DEF Reduced
        <5>. HIDE DEF x, y
        <5>5. x + y \in Int
          BY <5>2
        <5>6. ((x + y) % Range64) % p = (x + y) % p
          BY <5>2, <5>5, ValuesDivide
        <5>. HIDE DEF p
        <5>7. ((x % p) + y) % p = (x + y) % p
          BY <5>2, RemainderOfSum
        <5>. QED
          BY <5>1, <5>3, <5>4, <5>6, <5>7 DEF p
      <4>7. mb.bottom.kind = "global" => e.offset = m.displacement
        BY <3>2, <4>3, <4>4 DEF Agrees
      <4>. HIDE DEF e, m, eb, mb, b
      <4>8. Agrees(b) => Agrees(c)
        BY <4>3, <4>4, <4>6, <4>7 DEF Agrees, e, m, eb, mb
      <4>. QED
        BY <3>2, <4>8
    <3>5. CASE c.kind = "cast"
      <4>1. e = eb
        BY <2>2, <3>5 DEF ExpandStep
      <4>2. m = [mb EXCEPT !.number = Reduced(@, c.type), !.fits = @ /\ CastFits(c)]
        BY <2>2, <3>5 DEF MeaningStep
      <4>3. /\ m.bottom = mb.bottom /\ m.displacement = mb.displacement
            /\ m.number = Reduced(mb.number, c.type)
            /\ m.fits = (mb.fits /\ CastFits(c))
        BY <3>2, <4>2 DEF Meanings
      <4>4. ASSUME ~eb.unhandled, mb.fits, CastFits(c)
            PROVE  m.number = Reduced(e.offset, c.type)
        <5>. DEFINE p == Values[AllocSize(b.type)]
                    x == eb.offset
        <5>1. p \in Nat \ {0} /\ x \in Int /\ 0 <= x /\ x < p
          BY <3>1, <3>3, <4>4, SizesAreNumbers, ValuesFacts DEF CastFits
        <5>2. mb.number = x % p
          BY <3>2, <4>4 DEF Agrees, Reduced
        <5>. HIDE DEF p, x
        <5>3. x % p = x
          <6>1. x \in 0 .. (p - 1) /\ p * 0 + x = x
            BY <5>1
          <6>2. (p * 0 + x) % p = x
            BY <5>1, <6>1, DivisionUnique
          <6>. QED
            BY <6>1, <6>2
        <5>. QED
          BY <4>1, <4>3, <5>2, <5>3 DEF x
      <4>. HIDE DEF e, m, eb, mb, b
      <4>5. Agrees(b) => Agrees(c)
        BY <4>1, <4>3, <4>4 DEF Agrees, e, m, eb, mb
      <4>. QED
        BY <3>2, <4>5
    <3>. QED
      BY <2>3, <3>4, <3>5
  <2>4. CASE c.kind \notin {"gep", "cast"}
    <3>1. m = [bottom |-> c, displacement |-> 0, fits |-> TRUE,
               number |-> Reduced(IF c.kind \in {"int", "fp"} THEN c.val ELSE 0, c.type)]
      BY <2>2, <2>4 DEF MeaningStep
    <3>2. 0 % Range64 = 0
      BY RangeFacts, DivisionUnique
    <3>3. CASE c.kind = "global"
      <4>1. e = Expanded(c.name, 0) /\ c.name # NoGlobal
        BY <2>1, <2>2, <3>3 DEF ExpandStep, WellFormed
      <4>. QED
        BY <3>1, <3>2, <3>3, <4>1 DEF Agrees, Expanded, ScalarKinds
    <3>4. CASE c.kind = "int" \/ (c.kind = "fp" /\ c.type.name = "double")
      <4>1. e = Expanded(NoGlobal, c.val) /\ c.val \in Int
        BY <2>1, <2>2, <3>4 DEF ExpandStep, WellFormed
      <4>2. AllocSize(c.type) \in Nat /\ AllocSize(c.type) <= 8
        BY <2>1, <3>4, SizesAreNumbers DEF WellFormed, ScalarKinds
      <4>3. Reduced(c.val % Range64, c.type) = Reduced(c.val, c.type)
        BY <4>1, <4>2, ValuesDivide DEF Reduced
      <4>. QED
        BY <3>1, <3>4, <4>1, <4>3 DEF Agrees, Expanded, ScalarKinds
    <3>5. CASE c.kind \in {"null", "zero"}
      <4>1. e = Expanded(NoGlobal, 0)
        BY <2>2, <3>5 DEF ExpandStep
      <4>. QED
        BY <3>1, <3>2, <3>5, <4>1 DEF Agrees, Expanded, ScalarKinds
    <3>6. CASE c.kind = "other" \/ (c.kind = "fp" /\ c.type.name # "double")
      <4>1. e = Unhandled
        BY <2>2, <3>6 DEF ExpandStep
      <4>. QED
        BY <3>1, <3>6, <4>1 DEF Agrees, Unhandled, ScalarKinds
    <3>. QED
      BY <1>1, <2>4, <3>3, <3>4, <3>5, <3>6 DEF ScalarKinds
  <2>. QED
    BY <2>3, <2>4
<1>2. ASSUME NEW c \in Constants, \A p \in Parts(c) : p \in S
      PROVE  c \in S
  BY <1>1, <1>2
<1>. HIDE DEF S
<1>3. \A c \in Constants : c \in S
  BY <1>2, ConstantInduction
<1>. QED
  BY <1>3 DEF S

(* The scalars of a constant are constants without parts of their own.      *)
LeavesStep(c, f) ==
  IF c.kind \in {"array", "struct"} THEN UNION { f[p] : p \in Parts(c) } ELSE {c}

LEMMA LeavesDefined ==
  /\ Leaves \in [Constants -> SUBSET Constants]
  /\ \A c \in Constants : Leaves[c] = LeavesStep(c, Leaves)
<1>. DEFINE V == SUBSET Constants
            G == [p \in Constants \X [Constants -> V] |-> LeavesStep(p[1], p[2])]
<1>1. \A c \in Constants : \A f \in [Constants -> V] : G[<<c, f>>] = LeavesStep(c, f)
  OBVIOUS
<1>2. G \in [Constants \X [Constants -> V] -> V]
  <2>1. ASSUME NEW c \in Constants, NEW f \in [Constants -> V]
        PROVE  LeavesStep(c, f) \in V
    BY PartsAreSmaller DEF LeavesStep
  <2>. QED
    BY <2>1
<1>. HIDE DEF G
<1>3. ASSUME NEW c \in Constants, NEW f, NEW h, \A p \in Parts(c) : f[p] = h[p]
      PROVE  LeavesStep(c, f) = LeavesStep(c, h)
  BY <1>3 DEF LeavesStep
<1>4. DefinesByParts(G, V)
  <2>1. V # {}
    OBVIOUS
  <2>. QED
    BY <1>1, <1>2, <1>3, <2>1 DEF DefinesByParts
<1>5. PICK f \in [Constants -> V] : \A c \in Constants : f[c] = G[<<c, f>>]
  BY <1>4, ConstantRecursion
<1>6. f = [c \in Constants |->
             IF c.kind \in {"array", "struct"} THEN UNION { f[p] : p \in Parts(c) } ELSE {c}]
  BY <1>1, <1>5 DEF LeavesStep
<1>7. Leaves = [c \in Constants |->
             IF c.kind \in {"array", "struct"} THEN UNION { Leaves[p] : p \in Parts(c) } ELSE {c}]
  BY <1>6 DEF Leaves
<1>8. \A c \in Constants : Leaves[c] = LeavesStep(c, Leaves)
  BY <1>7 DEF LeavesStep
<1>9. \A c \in Constants : Leaves[c] = f[c]
  <2>. DEFINE S == { c \in Constants : Leaves[c] = f[c] }
  <2>1. ASSUME NEW c \in Constants, \A p \in Parts(c) : p \in S
        PROVE  c \in S
    <3>1. LeavesStep(c, Leaves) = LeavesStep(c, f)
      BY <1>3, <2>1
    <3>. QED
      BY <1>1, <1>5, <1>8, <3>1
  <2>. HIDE DEF S
  <2>2. \A c \in Constants : c \in S
    BY <2>1, ConstantInduction
  <2>. QED
    BY <2>2 DEF S
<1>10. Leaves = [c \in Constants |-> f[c]]
  BY <1>7, <1>9
<1>. QED
  BY <1>5, <1>8, <1>10

--------------------------------------------------------------------------------
(* The bytes of an object.                                                  *)
LEMMA Position ==
  ASSUME NEW k \in Nat, NEW n \in Nat, NEW len \in Nat, k < len * n
  PROVE  n # 0 /\ k \div n \in 0 .. (len - 1) /\ k % n \in 0 .. (n - 1)
<1>1. n # 0
  OBVIOUS
<1>. DEFINE q == k \div n
            r == k % n
<1>2. q \in Int /\ r \in 0 .. (n - 1) /\ k = n * q + r /\ q >= 0
  <2>1. k \in Int /\ n \in Nat \ {0} /\ k >= 0
    BY <1>1
  <2>. QED
    BY <2>1, Division
<1>. HIDE DEF q, r
<1>3. q < len
  <2>1. SUFFICES ASSUME q >= len PROVE FALSE
    BY <1>2
  <2>2. n * q >= n * len
    BY <1>2, <2>1
  <2>3. n * len = len * n
    OBVIOUS
  <2>. QED
    BY <1>2, <2>2, <2>3
<1>. QED
  BY <1>1, <1>2, <1>3 DEF q, r

FieldAt(c, k) == CHOOSE j \in DOMAIN c.parts : Holds(c.type, j, k)
ElementAt(c, k) == c.parts[(k \div AllocSize(c.type.elem)) + 1]
OffsetInElement(c, k) == k % AllocSize(c.type.elem)
DataByte(c, k) ==
  LET n == AllocSize(c.type.elem) IN Byte(Bytes(c.vals[(k \div n) + 1], n)[(k % n) + 1], NoGlobal)
OffsetInField(c, k) == k - ElementOffset(c.type, FieldAt(c, k))
ByteStep(c, f, k) ==
  CASE c.kind = "array" -> f[ElementAt(c, k)][OffsetInElement(c, k)]
    [] c.kind = "data" /\ k < RawSize(c) -> DataByte(c, k)
    [] c.kind = "struct" /\ (\E i \in DOMAIN c.parts : Holds(c.type, i, k)) ->
         f[c.parts[FieldAt(c, k)]][OffsetInField(c, k)]
    [] c.kind \in ScalarKinds -> ScalarByte(c, k)
    [] OTHER -> Byte(0, NoGlobal)

(* What the data layout says of the parts of a constant.                    *)
LEMMA ArrayFacts ==
  ASSUME NEW c \in Constants, c.kind = "array"
  PROVE  /\ c.parts \in Seq(Constants) /\ Parts(c) = { c.parts[i] : i \in DOMAIN c.parts }
         /\ \A i \in DOMAIN c.parts : c.parts[i].type = c.type.elem
         /\ AllocSize(c.type.elem) \in Nat
         /\ AllocSize(c.type) = Len(c.parts) * AllocSize(c.type.elem)
<1>1. /\ c.parts \in Seq(Constants) /\ AllocSize(c.type.elem) \in Nat
      /\ AllocSize(c.type) = Len(c.parts) * AllocSize(c.type.elem)
      /\ \A p \in Parts(c) : p.type = c.type.elem
  <2>1. WellFormed(c)
    BY ConstantsAssumption
  <2>. QED
    BY <2>1 DEF WellFormed
<1>2. Parts(c) = { c.parts[i] : i \in DOMAIN c.parts }
  BY DEF Parts, Range
<1>3. \A i \in DOMAIN c.parts : c.parts[i] \in Constants /\ c.parts[i].type = c.type.elem
  BY <1>1, <1>2
<1>. QED
  BY <1>1, <1>2, <1>3

LEMMA StructFacts ==
  ASSUME NEW c \in Constants, c.kind = "struct"
  PROVE  /\ c.parts \in Seq(Constants) /\ c.parts # << >>
         /\ Parts(c) = { c.parts[i] : i \in DOMAIN c.parts }
         /\ DOMAIN c.type.fields = DOMAIN c.parts /\ Len(c.type.fields) = Len(c.parts)
         /\ \A i \in DOMAIN c.parts :
              /\ c.parts[i] \in Constants /\ c.type.fields[i] = c.parts[i].type
              /\ AllocSize(c.type.fields[i]) \in Nat /\ ElementOffset(c.type, i) \in Nat
              /\ ElementOffset(c.type, i) + AllocSize(c.type.fields[i]) <= AllocSize(c.type)
              /\ \A j \in DOMAIN c.parts : i < j =>
                   ElementOffset(c.type, i) + AllocSize(c.type.fields[i]) <= ElementOffset(c.type, j)
         /\ ElementOffset(c.type, 1) = 0
<1>1. /\ c.parts \in Seq(Constants) /\ c.parts # << >> /\ c.type.kind = "struct"
      /\ c.type.fields = [i \in DOMAIN c.parts |-> c.parts[i].type]
  <2>1. WellFormed(c)
    BY ConstantsAssumption
  <2>. QED
    BY <2>1 DEF WellFormed
<1>2. Parts(c) = { c.parts[i] : i \in DOMAIN c.parts }
  BY DEF Parts, Range
<1>3. LaidOut(c.type)
  BY LayoutAssumption
<1>. DEFINE t == c.type.fields
<1>4. DOMAIN t = DOMAIN c.parts /\ \A i \in DOMAIN c.parts : t[i] = c.parts[i].type
  BY <1>1
<1>5. Len(t) = Len(c.parts)
  <2>1. Len(c.parts) \in Nat /\ DOMAIN t = 1 .. Len(c.parts)
    BY <1>1, <1>4
  <2>2. t \in Seq({ c.parts[i].type : i \in DOMAIN c.parts })
    BY <1>1
  <2>. QED
    BY <2>1, <2>2
<1>6. \A i \in DOMAIN c.parts : c.parts[i] \in Constants
  BY <1>1
<1>7. \A i \in DOMAIN c.parts : AllocSize(t[i]) \in Nat
  BY <1>4, <1>6, SizesAreNumbers
<1>. HIDE DEF t
<1>8. \A i \in DOMAIN c.parts :
         /\ ElementOffset(c.type, i) \in Nat
         /\ ElementOffset(c.type, i) + AllocSize(t[i]) <= AllocSize(c.type)
         /\ \A j \in DOMAIN c.parts :
              i < j => ElementOffset(c.type, i) + AllocSize(t[i]) <= ElementOffset(c.type, j)
  BY <1>1, <1>3, <1>4 DEF LaidOut, t
<1>9. ElementOffset(c.type, 1) = 0
  BY <1>1, <1>3 DEF LaidOut
<1>. QED
  BY <1>1, <1>2, <1>4, <1>5, <1>6, <1>7, <1>8, <1>9 DEF t

LEMMA DataFacts ==
  ASSUME NEW c \in Constants, c.kind = "data"
  PROVE  /\ c.vals \in Seq(Nat) /\ AllocSize(c.type.elem) \in Nat
         /\ RawSize(c) = Len(c.vals) * AllocSize(c.type.elem)
         /\ RawSize(c) \in Nat /\ RawSize(c) <= AllocSize(c.type)
<1>1. /\ c.vals \in Seq(Nat) /\ AllocSize(c.type.elem) \in Nat /\ AllocSize(c.type) >= RawSize(c)
  BY ConstantsAssumption DEF WellFormed
<1>2. RawSize(c) \in Nat
  <2>1. Len(c.vals) \in Nat
    BY <1>1
  <2>2. \A x, y \in Nat : x * y \in Nat
    OBVIOUS
  <2>. QED
    BY <1>1, <2>1, <2>2 DEF RawSize
<1>3. AllocSize(c.type) \in Nat
  BY SizesAreNumbers
<1>. QED
  BY <1>1, <1>2, <1>3 DEF RawSize

(* What ByteStep looks up of the parts of a constant is within them.        *)
LEMMA ArrayPosition ==
  ASSUME NEW c \in Constants, c.kind = "array", NEW k \in Nat, k < AllocSize(c.type)
  PROVE  LET p == ElementAt(c, k)
         IN /\ p \in Parts(c) /\ p \in Constants
            /\ OffsetInElement(c, k) \in 0 .. (AllocSize(p.type) - 1)
<1>. DEFINE n == AllocSize(c.type.elem)
            len == Len(c.parts)
<1>1. /\ c.parts \in Seq(Constants) /\ Parts(c) = { c.parts[i] : i \in DOMAIN c.parts }
      /\ \A i \in DOMAIN c.parts : c.parts[i].type = c.type.elem
      /\ n \in Nat /\ AllocSize(c.type) = len * n
  BY ArrayFacts
<1>2. len \in Nat /\ DOMAIN c.parts = 1 .. len /\ \A i \in DOMAIN c.parts : c.parts[i] \in Constants
  BY <1>1
<1>3. k < len * n
  BY <1>1
<1>. HIDE DEF n, len
<1>4. k \div n \in 0 .. (len - 1) /\ k % n \in 0 .. (n - 1)
  BY <1>1, <1>2, <1>3, Position
<1>5. (k \div n) + 1 \in DOMAIN c.parts
  BY <1>2, <1>4
<1>. QED
  BY <1>1, <1>2, <1>4, <1>5 DEF n, ElementAt, OffsetInElement

LEMMA DataPosition ==
  ASSUME NEW c \in Constants, c.kind = "data", NEW k \in Nat, k < RawSize(c)
  PROVE  LET n == AllocSize(c.type.elem)
         IN n \in Nat /\ (k \div n) + 1 \in DOMAIN c.vals /\ (k % n) + 1 \in 1 .. n
<1>. DEFINE n == AllocSize(c.type.elem)
            len == Len(c.vals)
<1>1. c.vals \in Seq(Nat) /\ n \in Nat /\ RawSize(c) = len * n
  BY DataFacts
<1>2. len \in Nat /\ DOMAIN c.vals = 1 .. len /\ k < len * n
  BY <1>1
<1>. HIDE DEF n, len
<1>3. k \div n \in 0 .. (len - 1) /\ k % n \in 0 .. (n - 1)
  BY <1>1, <1>2, Position
<1>. QED
  BY <1>1, <1>2, <1>3 DEF n

LEMMA FieldPosition ==
  ASSUME NEW c \in Constants, c.kind = "struct", NEW k \in Nat,
         \E i \in DOMAIN c.parts : Holds(c.type, i, k)
  PROVE  LET i == FieldAt(c, k)
         IN /\ i \in DOMAIN c.parts /\ c.parts[i] \in Parts(c) /\ c.parts[i] \in Constants
            /\ OffsetInField(c, k) \in 0 .. (AllocSize(c.parts[i].type) - 1)
<1>. DEFINE i == FieldAt(c, k)
<1>1. i \in DOMAIN c.parts /\ Holds(c.type, i, k)
  BY DEF FieldAt
<1>. HIDE DEF i
<1>2. /\ c.parts[i] \in Parts(c) /\ c.parts[i] \in Constants /\ c.type.fields[i] = c.parts[i].type
      /\ AllocSize(c.type.fields[i]) \in Nat /\ ElementOffset(c.type, i) \in Nat
  BY <1>1, StructFacts
<1>3. k - ElementOffset(c.type, i) \in 0 .. (AllocSize(c.type.fields[i]) - 1)
  BY <1>1, <1>2 DEF Holds
<1>. QED
  BY <1>1, <1>2, <1>3 DEF i, OffsetInField

LEMMA ByteStepByParts ==
  ASSUME NEW c \in Constants, NEW f, NEW h, NEW k \in Nat, k < AllocSize(c.type),
         \A p \in Parts(c) : \A j \in 0 .. (AllocSize(p.type) - 1) : f[p][j] = h[p][j]
  PROVE  ByteStep(c, f, k) = ByteStep(c, h, k)
<1>1. CASE c.kind = "array"
  <2>. DEFINE p == ElementAt(c, k)
              j == OffsetInElement(c, k)
  <2>1. p \in Parts(c) /\ j \in 0 .. (AllocSize(p.type) - 1)
    BY <1>1, ArrayPosition
  <2>2. ByteStep(c, f, k) = f[p][j] /\ ByteStep(c, h, k) = h[p][j]
    BY <1>1 DEF ByteStep, ScalarKinds
  <2>. HIDE DEF p, j
  <2>. QED
    BY <2>1, <2>2
<1>2. CASE c.kind = "struct" /\ \E i \in DOMAIN c.parts : Holds(c.type, i, k)
  <2>. DEFINE p == c.parts[FieldAt(c, k)]
              j == OffsetInField(c, k)
  <2>1. p \in Parts(c) /\ j \in 0 .. (AllocSize(p.type) - 1)
    BY <1>2, FieldPosition
  <2>2. ByteStep(c, f, k) = f[p][j] /\ ByteStep(c, h, k) = h[p][j]
    BY <1>2 DEF ByteStep, ScalarKinds
  <2>. HIDE DEF p, j
  <2>. QED
    BY <2>1, <2>2
<1>3. CASE ~(c.kind = "array" \/ (c.kind = "struct" /\ \E i \in DOMAIN c.parts : Holds(c.type, i, k)))
  BY <1>3 DEF ByteStep, ScalarKinds
<1>. QED
  BY <1>1, <1>2, <1>3

Contained == [byte : Int, global : Names]

LEMMA NumberBytes ==
  ASSUME NEW v \in Nat, NEW n \in Nat, NEW k \in 1 .. n
  PROVE  Bytes(v, n)[k] \in Int
<1>1. Bytes(v, n) \in [1 .. n -> 0 .. (ByteValues - 1)]
  BY BytesFacts
<1>. QED
  BY <1>1, ByteAssumption

LEMMA ByteStepTyped ==
  ASSUME NEW c \in Constants, NEW f \in [Constants -> [Nat -> Contained]],
         NEW k \in Nat, k < AllocSize(c.type)
  PROVE  ByteStep(c, f, k) \in Contained
<1>1. CASE c.kind = "array"
  <2>. DEFINE p == ElementAt(c, k)
              j == OffsetInElement(c, k)
  <2>1. p \in Constants /\ j \in 0 .. (AllocSize(p.type) - 1) /\ AllocSize(p.type) \in Nat
    BY <1>1, ArrayPosition, SizesAreNumbers
  <2>2. ByteStep(c, f, k) = f[p][j]
    BY <1>1 DEF ByteStep, ScalarKinds
  <2>. HIDE DEF p, j
  <2>. QED
    BY <2>1, <2>2
<1>2. CASE c.kind = "struct" /\ \E i \in DOMAIN c.parts : Holds(c.type, i, k)
  <2>. DEFINE p == c.parts[FieldAt(c, k)]
              j == OffsetInField(c, k)
  <2>1. p \in Constants /\ j \in 0 .. (AllocSize(p.type) - 1) /\ AllocSize(p.type) \in Nat
    BY <1>2, FieldPosition, SizesAreNumbers
  <2>2. ByteStep(c, f, k) = f[p][j]
    BY <1>2 DEF ByteStep, ScalarKinds
  <2>. HIDE DEF p, j
  <2>. QED
    BY <2>1, <2>2
<1>3. CASE c.kind = "data" /\ k < RawSize(c)
  <2>. DEFINE n == AllocSize(c.type.elem)
              v == c.vals[(k \div n) + 1]
              j == (k % n) + 1
  <2>1. n \in Nat /\ v \in Nat /\ j \in 1 .. n
    BY <1>3, DataPosition, DataFacts
  <2>2. ByteStep(c, f, k) = Byte(Bytes(v, n)[j], NoGlobal)
    BY <1>3 DEF ByteStep, ScalarKinds, DataByte
  <2>. HIDE DEF n, v, j
  <2>3. Bytes(v, n)[j] \in Int
    BY <2>1, NumberBytes
  <2>. QED
    BY <2>2, <2>3 DEF Contained, Byte, Names
<1>4. CASE c.kind \in ScalarKinds
  <2>. DEFINE m == Meaning[c]
              n == AllocSize(c.type)
              v == m.number
              g == IF m.bottom.kind = "global" THEN m.bottom.name ELSE NoGlobal
  <2>1. v \in Nat /\ m.bottom \in Constants /\ n \in Nat /\ k + 1 \in 1 .. n
    BY MeaningDefined, SizesAreNumbers DEF Meanings
  <2>2. g \in Names
    BY <2>1 DEF Names
  <2>3. ByteStep(c, f, k) = Byte(Bytes(v, n)[k + 1], g)
    BY <1>4 DEF ByteStep, ScalarByte, ScalarKinds
  <2>. HIDE DEF v, n, g
  <2>4. Bytes(v, n)[k + 1] \in Int
    BY <2>1, NumberBytes
  <2>. QED
    BY <2>2, <2>3, <2>4 DEF Contained, Byte
<1>5. CASE /\ c.kind \notin ScalarKinds \cup {"array"} /\ ~(c.kind = "data" /\ k < RawSize(c))
           /\ ~(c.kind = "struct" /\ \E i \in DOMAIN c.parts : Holds(c.type, i, k))
  <2>1. ByteStep(c, f, k) = Byte(0, NoGlobal)
    BY <1>5 DEF ByteStep, ScalarKinds
  <2>. QED
    BY <2>1 DEF Contained, Byte, Names
<1>. QED
  BY <1>1, <1>2, <1>3, <1>4, <1>5

LEMMA ByteOfDefined ==
  ASSUME NEW c \in Constants, NEW k \in 0 .. (AllocSize(c.type) - 1)
  PROVE  ByteOf[c][k] = ByteStep(c, ByteOf, k)
<1>. DEFINE V == [Nat -> Contained]
            Step(x, f) == [j \in Nat |-> IF j < AllocSize(x.type) THEN ByteStep(x, f, j) ELSE Byte(0, NoGlobal)]
            G == [p \in Constants \X [Constants -> V] |-> Step(p[1], p[2])]
            Last(x) == AllocSize(x.type) - 1
<1>1. \A x \in Constants : \A f \in [Constants -> V] : G[<<x, f>>] = Step(x, f)
  OBVIOUS
<1>2. Byte(0, NoGlobal) \in Contained
  BY DEF Byte, Contained, Names
<1>3. ASSUME NEW x \in Constants, NEW f \in [Constants -> V]
      PROVE  Step(x, f) \in V
  BY <1>2, ByteStepTyped
<1>4. ASSUME NEW x \in Constants, NEW f, NEW h, \A p \in Parts(x) : f[p] = h[p]
      PROVE  Step(x, f) = Step(x, h)
  <2>1. ASSUME NEW j \in Nat, j < AllocSize(x.type)
        PROVE  ByteStep(x, f, j) = ByteStep(x, h, j)
    BY <1>4, <2>1, ByteStepByParts
  <2>. QED
    BY <2>1
<1>. HIDE DEF Step
<1>5. G \in [Constants \X [Constants -> V] -> V]
  BY <1>3
<1>. HIDE DEF G
<1>6. DefinesByParts(G, V)
  <2>1. V # {}
    <3>1. [j \in Nat |-> Byte(0, NoGlobal)] \in V
      BY <1>2
    <3>. QED
      BY <3>1
  <2>. HIDE DEF V
  <2>. QED
    BY <1>1, <1>4, <1>5, <2>1 DEF DefinesByParts
<1>7. PICK f \in [Constants -> V] : \A x \in Constants : f[x] = G[<<x, f>>]
  BY <1>6, ConstantRecursion
<1>8. ASSUME NEW x \in Constants, NEW j \in 0 .. Last(x)
      PROVE  f[x][j] = ByteStep(x, f, j)
  <2>1. f[x] = Step(x, f) /\ AllocSize(x.type) \in Nat
    BY <1>1, <1>7, SizesAreNumbers
  <2>2. j \in Nat /\ j < AllocSize(x.type)
    BY <2>1
  <2>. QED
    BY <2>1, <2>2 DEF Step
<1>. DEFINE h == [x \in Constants |-> [j \in 0 .. Last(x) |-> f[x][j]]]
<1>9. ASSUME NEW x \in Constants, NEW j \in 0 .. Last(x)
      PROVE  h[x][j] = ByteStep(x, h, j)
  <2>1. j \in Nat /\ j < AllocSize(x.type)
    BY SizesAreNumbers
  <2>2. \A p \in Parts(x) : \A i \in 0 .. (AllocSize(p.type) - 1) : f[p][i] = h[p][i]
    BY PartsAreSmaller
  <2>3. ByteStep(x, f, j) = ByteStep(x, h, j)
    BY <2>1, <2>2, ByteStepByParts
  <2>. QED
    BY <1>8, <2>3
<1>10. h = [x \in Constants |-> [j \in 0 .. Last(x) |-> h[x][j]]]
  OBVIOUS
<1>. HIDE DEF h
<1>11. h = [x \in Constants |-> [j \in 0 .. Last(x) |-> ByteStep(x, h, j)]]
  BY <1>9, <1>10
<1>12. ByteOf = [x \in Constants |-> [j \in 0 .. Last(x) |-> ByteStep(x, ByteOf, j)]]
  BY <1>11 DEF ByteOf, ByteStep, FieldAt, ElementAt, OffsetInElement, OffsetInField, DataByte
<1>13. ByteOf[c] = [j \in 0 .. Last(c) |-> ByteStep(c, ByteOf, j)]
  <2>. HIDE DEF Last
  <2>. QED
    BY <1>12
<1>. QED
  BY <1>13

(* Where the bytes of the parts are, and what is between them.              *)
LEMMA ElementBytes ==
  ASSUME NEW c \in Constants, c.kind = "array", NEW i \in DOMAIN c.parts,
         NEW j \in 0 .. (AllocSize(c.parts[i].type) - 1)
  PROVE  /\ (i - 1) * AllocSize(c.type.elem) + j \in 0 .. (AllocSize(c.type) - 1)
         /\ ByteOf[c][(i - 1) * AllocSize(c.type.elem) + j] = ByteOf[c.parts[i]][j]
<1>. DEFINE n == AllocSize(c.type.elem)
            len == Len(c.parts)
            k == n * (i - 1) + j
<1>1. /\ c.parts \in Seq(Constants) /\ c.parts[i].type = c.type.elem
      /\ n \in Nat /\ AllocSize(c.type) = len * n
  BY ArrayFacts
<1>2. len \in Nat /\ i \in 1 .. len
  BY <1>1
<1>3. j \in 0 .. (n - 1) /\ n \in Nat \ {0} /\ i - 1 \in Nat /\ i - 1 <= len - 1 /\ j \in Int /\ i \in Int
  BY <1>1, <1>2
<1>. HIDE DEF n, len
<1>4. (i - 1) * n + j = k /\ k \in Nat
  BY <1>3
<1>5. k < len * n
  <2>1. n * (i - 1) <= n * (len - 1)
    BY <1>2, <1>3
  <2>2. n * (len - 1) + n = len * n
    BY <1>2, <1>3
  <2>. QED
    BY <1>2, <1>3, <2>1, <2>2
<1>6. k \div n = i - 1 /\ k % n = j
  <2>. DEFINE q == i - 1
  <2>1. q \in Int /\ k = n * q + j
    BY <1>3
  <2>. HIDE DEF q, k
  <2>2. (n * q + j) \div n = q /\ (n * q + j) % n = j
    BY <1>3, <2>1, DivisionUnique
  <2>. QED
    BY <2>1, <2>2 DEF q
<1>7. len * n \in Nat /\ k \in 0 .. (len * n - 1)
  BY <1>1, <1>2, <1>4, <1>5
<1>. HIDE DEF k
<1>8. ByteOf[c][k] = ByteStep(c, ByteOf, k)
  BY <1>1, <1>7, ByteOfDefined
<1>9. ElementAt(c, k) = c.parts[i] /\ OffsetInElement(c, k) = j
  <2>1. (k \div n) + 1 = i
    BY <1>3, <1>6
  <2>. QED
    BY <1>6, <2>1 DEF ElementAt, OffsetInElement, n
<1>10. ByteStep(c, ByteOf, k) = ByteOf[c.parts[i]][j]
  BY <1>9 DEF ByteStep, ScalarKinds
<1>11. ByteOf[c][k] = ByteOf[c.parts[i]][j] /\ k \in 0 .. (AllocSize(c.type) - 1)
  BY <1>1, <1>7, <1>8, <1>10
<1>. QED
  BY <1>4, <1>11 DEF n

LEMMA FieldBytes ==
  ASSUME NEW c \in Constants, c.kind = "struct", NEW i \in DOMAIN c.parts,
         NEW j \in 0 .. (AllocSize(c.parts[i].type) - 1)
  PROVE  ByteOf[c][ElementOffset(c.type, i) + j] = ByteOf[c.parts[i]][j]
<1>. DEFINE O(x) == ElementOffset(c.type, x)
            Z(x) == AllocSize(c.type.fields[x])
            size == AllocSize(c.type)
            k == O(i) + j
<1>1. \A x \in DOMAIN c.parts :
        /\ c.type.fields[x] = c.parts[x].type /\ O(x) \in Nat /\ Z(x) \in Nat /\ O(x) + Z(x) <= size
        /\ \A y \in DOMAIN c.parts : x < y => O(x) + Z(x) <= O(y)
  BY StructFacts
<1>2. DOMAIN c.parts \subseteq Int
  BY StructFacts
<1>3. \A x \in DOMAIN c.parts : Holds(c.type, x, k) <=> O(x) <= k /\ k < O(x) + Z(x)
  BY DEF Holds
<1>4. size \in Nat
  BY SizesAreNumbers
<1>5. j \in 0 .. (Z(i) - 1)
  BY <1>1
<1>. HIDE DEF O, Z, size
<1>6. k \in Nat /\ k \in 0 .. (size - 1) /\ O(i) <= k /\ k < O(i) + Z(i)
  BY <1>1, <1>4, <1>5
<1>7. \A x \in DOMAIN c.parts : O(x) <= k /\ k < O(x) + Z(x) => x = i
  BY <1>1, <1>2, <1>6
<1>. HIDE DEF k
<1>8. FieldAt(c, k) = i /\ \E x \in DOMAIN c.parts : Holds(c.type, x, k)
  BY <1>3, <1>6, <1>7 DEF FieldAt
<1>9. ByteOf[c][k] = ByteStep(c, ByteOf, k)
  BY <1>6, ByteOfDefined DEF size
<1>10. OffsetInField(c, k) = j
  BY <1>1, <1>5, <1>8 DEF OffsetInField, O, k
<1>11. ByteStep(c, ByteOf, k) = ByteOf[c.parts[i]][j]
  BY <1>8, <1>10 DEF ByteStep, ScalarKinds
<1>. QED
  BY <1>9, <1>11 DEF k, O

LEMMA GapBytes ==
  ASSUME NEW c \in Constants, c.kind = "struct", NEW i \in DOMAIN c.parts, NEW k \in Nat,
         ElementOffset(c.type, i) + AllocSize(c.type.fields[i]) <= k, k < NextOffset(c.type, i)
  PROVE  ByteOf[c][k] = Byte(0, NoGlobal)
<1>. DEFINE O(x) == ElementOffset(c.type, x)
            Z(x) == AllocSize(c.type.fields[x])
            size == AllocSize(c.type)
            n == Len(c.parts)
<1>1. \A x \in DOMAIN c.parts :
        /\ O(x) \in Nat /\ Z(x) \in Nat /\ O(x) + Z(x) <= size
        /\ \A y \in DOMAIN c.parts : x < y => O(x) + Z(x) <= O(y)
  BY StructFacts
<1>2. DOMAIN c.parts = 1 .. n /\ n \in Nat /\ Len(c.type.fields) = n
  BY StructFacts
<1>3. \A x \in DOMAIN c.parts : Holds(c.type, x, k) <=> O(x) <= k /\ k < O(x) + Z(x)
  BY DEF Holds
<1>4. size \in Nat
  BY SizesAreNumbers
<1>5. O(i) + Z(i) <= k
  OBVIOUS
<1>6. IF i = n THEN k < size ELSE k < O(i + 1)
  BY <1>2 DEF NextOffset
<1>. HIDE DEF O, Z, size, n
<1>7. k < size
  <2>1. CASE i = n
    BY <1>6, <2>1
  <2>2. CASE i # n
    <3>1. i + 1 \in DOMAIN c.parts
      BY <1>2, <2>2
    <3>. QED
      BY <1>1, <1>4, <1>6, <2>2, <3>1
  <2>. QED
    BY <2>1, <2>2
<1>8. ASSUME NEW x \in DOMAIN c.parts, O(x) <= k, k < O(x) + Z(x)
      PROVE  FALSE
  <2>1. x \in Int /\ i \in Int
    BY <1>2
  <2>2. ~(x <= i)
    <3>1. CASE x = i
      BY <1>1, <1>5, <1>8, <3>1
    <3>2. CASE x < i
      BY <1>1, <1>5, <1>8, <3>2
    <3>. QED
      BY <2>1, <3>1, <3>2
  <2>3. i # n /\ i + 1 \in DOMAIN c.parts /\ (x = i + 1 \/ i + 1 < x)
    BY <1>2, <2>1, <2>2
  <2>4. O(i + 1) <= O(x)
    BY <1>1, <2>3
  <2>. QED
    BY <1>1, <1>6, <1>8, <2>3, <2>4
<1>9. ~ \E x \in DOMAIN c.parts : Holds(c.type, x, k)
  BY <1>3, <1>8
<1>10. ByteOf[c][k] = ByteStep(c, ByteOf, k)
  <2>1. k \in 0 .. (size - 1)
    BY <1>4, <1>7
  <2>. QED
    BY <2>1, ByteOfDefined DEF size
<1>11. ByteStep(c, ByteOf, k) = Byte(0, NoGlobal)
  BY <1>9 DEF ByteStep, ScalarKinds
<1>. QED
  BY <1>10, <1>11

(* The padding is what is between the end of a field and the next offset.   *)
LEMMA PaddingFacts ==
  ASSUME NEW c \in Constants, c.kind = "struct", NEW i \in DOMAIN c.parts
  PROVE  LET off == ElementOffset(c.type, i)
             n == AllocSize(c.type.fields[i])
         IN /\ Padding(c.type, i) \in Nat
            /\ NextOffset(c.type, i) = off + n + Padding(c.type, i)
            /\ NextOffset(c.type, i) = IF i = Len(c.parts) THEN AllocSize(c.type)
                                       ELSE ElementOffset(c.type, i + 1)
<1>. DEFINE O(x) == ElementOffset(c.type, x)
            Z(x) == AllocSize(c.type.fields[x])
            size == AllocSize(c.type)
            n == Len(c.parts)
            w == NextOffset(c.type, i)
<1>1. \A x \in DOMAIN c.parts :
        /\ O(x) \in Nat /\ Z(x) \in Nat /\ O(x) + Z(x) <= size
        /\ \A y \in DOMAIN c.parts : x < y => O(x) + Z(x) <= O(y)
  BY StructFacts
<1>2. DOMAIN c.parts = 1 .. n /\ n \in Nat /\ Len(c.type.fields) = n /\ O(1) = 0
  BY StructFacts
<1>3. size \in 0 .. (Range64 - 1)
  BY SizesAreNumbers
<1>4. w = IF i = n THEN size ELSE O(i + 1)
  BY <1>2 DEF NextOffset
<1>5. PrevOffset(c.type, i) = O(i)
  <2>1. CASE i = 1
    BY <1>2, <2>1 DEF PrevOffset
  <2>2. CASE i # 1
    <3>1. i - 1 # n /\ (i - 1) + 1 = i
      BY <1>2
    <3>2. PrevOffset(c.type, i) = ElementOffset(c.type, (i - 1) + 1)
      BY <1>2, <2>2, <3>1 DEF PrevOffset, NextOffset
    <3>. QED
      BY <3>1, <3>2
  <2>. QED
    BY <2>1, <2>2
<1>6. Padding(c.type, i) = (w - O(i) - Z(i)) % Range64
  BY <1>5 DEF Padding
<1>. HIDE DEF O, Z, size, n, w
<1>7. w \in Int /\ O(i) + Z(i) <= w /\ w <= size /\ O(i) \in Nat /\ Z(i) \in Nat /\ size \in Nat
  <2>1. CASE i = n
    BY <1>1, <1>2, <1>3, <1>4, <2>1, RangeFacts
  <2>2. CASE i # n
    <3>1. i + 1 \in DOMAIN c.parts /\ i < i + 1
      BY <1>2, <2>2
    <3>. QED
      BY <1>1, <1>3, <1>4, <2>2, <3>1, RangeFacts
  <2>. QED
    BY <2>1, <2>2
<1>. DEFINE d == w - O(i) - Z(i)
<1>8. d \in 0 .. (Range64 - 1) /\ d \in Nat
  BY <1>3, <1>7, RangeFacts
<1>9. w = O(i) + Z(i) + d
  BY <1>7
<1>10. d % Range64 = d
  <2>. HIDE DEF d
  <2>1. Range64 * 0 + d = d /\ Range64 \in Nat \ {0} /\ 0 \in Int
    BY <1>8, RangeFacts
  <2>2. (Range64 * 0 + d) % Range64 = d
    BY <1>8, <2>1, DivisionUnique
  <2>. QED
    BY <2>1, <2>2
<1>11. Padding(c.type, i) = d
  BY <1>6, <1>10
<1>. HIDE DEF d
<1>. QED
  BY <1>4, <1>8, <1>9, <1>11 DEF w, O, Z, n, size

(* The bytes of what is written at once.                                    *)
RawData(c) ==
  LET n == AllocSize(c.type.elem)
  IN [k \in 1 .. RawSize(c) |-> Bytes(c.vals[((k - 1) \div n) + 1], n)[((k - 1) % n) + 1]]

LEMMA DataBytes ==
  ASSUME NEW c \in Constants, c.kind = "data"
  PROVE  /\ RawData(c) \in Seq(0 .. (ByteValues - 1)) /\ Len(RawData(c)) = RawSize(c)
         /\ \A k \in 0 .. (RawSize(c) - 1) :
              ByteOf[c][k] = Byte(RawData(c)[k + 1], NoGlobal)
<1>. DEFINE n == AllocSize(c.type.elem)
            size == RawSize(c)
            B(k) == Bytes(c.vals[(k \div n) + 1], n)[(k % n) + 1]
<1>1. RawData(c) = [k \in 1 .. size |-> B(k - 1)] /\ size \in Nat /\ size <= AllocSize(c.type)
  BY DataFacts DEF RawData
<1>2. ASSUME NEW k \in 0 .. (size - 1)
      PROVE  B(k) \in 0 .. (ByteValues - 1) /\ ByteOf[c][k] = Byte(B(k), NoGlobal)
  <2>. DEFINE v == c.vals[(k \div n) + 1]
              j == (k % n) + 1
  <2>0. k \in Nat /\ k < size /\ k \in 0 .. (AllocSize(c.type) - 1)
    BY <1>1, SizesAreNumbers
  <2>1. n \in Nat /\ v \in Int /\ j \in 1 .. n
    BY <2>0, DataPosition, DataFacts
  <2>2. ByteOf[c][k] = ByteStep(c, ByteOf, k)
    BY <2>0, ByteOfDefined
  <2>3. ByteStep(c, ByteOf, k) = DataByte(c, k)
    BY <2>0 DEF ByteStep, ScalarKinds
  <2>4. DataByte(c, k) = Byte(B(k), NoGlobal) /\ B(k) = Bytes(v, n)[j]
    BY DEF DataByte
  <2>. HIDE DEF n, v, j, B
  <2>5. Bytes(v, n)[j] \in 0 .. (ByteValues - 1)
    BY <2>1, BytesFacts
  <2>. QED
    BY <2>2, <2>3, <2>4, <2>5
<1>. HIDE DEF B, size
<1>3. \A k \in 1 .. size : k - 1 \in 0 .. (size - 1)
  BY <1>1
<1>4. RawData(c) \in Seq(0 .. (ByteValues - 1)) /\ Len(RawData(c)) = size
  BY <1>1, <1>2, <1>3
<1>5. ASSUME NEW k \in 0 .. (size - 1)
      PROVE  ByteOf[c][k] = Byte(RawData(c)[k + 1], NoGlobal)
  <2>1. k + 1 \in 1 .. size /\ (k + 1) - 1 = k
    BY <1>1
  <2>2. RawData(c)[k + 1] = B(k)
    BY <1>1, <2>1
  <2>. QED
    BY <1>2, <2>2
<1>. QED
  BY <1>4, <1>5 DEF size

--------------------------------------------------------------------------------
(* The plan: each task but the last writes what belongs to the place of the *)
(* initialiser that is reached when the tasks before it are done.           *)
Tasks ==
  [task : {"write"}, const : Constants] \cup [task : {"pad"}, size : Nat]
    \cup [task : {"check"}, end : Nat]
TaskSize(t) == IF t.task = "write" THEN AllocSize(t.const.type) ELSE t.size
Placed(t, c, offset) ==
  \/ /\ t.task = "write" /\ Leaves[t.const] \subseteq Leaves[c]
     /\ \A j \in 0 .. (AllocSize(t.const.type) - 1) : ByteOf[c][offset + j] = ByteOf[t.const][j]
  \/ /\ t.task = "pad"
     /\ \A j \in 0 .. (t.size - 1) : ByteOf[c][offset + j] = Byte(0, NoGlobal)
Plan(tasks, at, c, from) ==
  /\ Len(tasks) > 0
  /\ at \in [1 .. Len(tasks) -> Nat] /\ at[1] = from /\ at[Len(tasks)] = AllocSize(c.type)
  /\ tasks[Len(tasks)].task = "check"
  /\ \A k \in 1 .. (Len(tasks) - 1) :
       Placed(tasks[k], c, at[k]) /\ at[k + 1] = at[k] + TaskSize(tasks[k])
Remains(tasks, l) ==
  \E k \in DOMAIN tasks : tasks[k].task = "write" /\ l \in Leaves[tasks[k].const]

Current == Len(globals)
Target == prog[Current].init
Complete(g) == g < Current \/ agenda = << >>
Prescribed(c) == AllSized(c) /\ \A l \in Leaves[c] : Meaning[l].fits

(* Which globals were started.                                              *)
Started ==
  /\ prog \in Programs /\ globals \in Seq(Nat) /\ agenda \in Seq(Tasks)
  /\ \A g \in DOMAIN globals :
       g \in DOMAIN prog /\ prog[g].kind \in {"defined", "linker_weak"} /\ ~prog[g].threadLocal
(* The place the plan has come to is the end of the segment, unless data    *)
(* was written that is shorter than its type: then it is beyond it.         *)
Length == Len(data) - globals[Current]
Reached(from) ==
  \/ from = Length /\ \A l \in Leaves[Target] : Sized(l) \/ Remains(agenda, l)
  \/ from > Length /\ ~AllSized(Target)
OnPlan ==
  agenda # << >> =>
    /\ Current > 0 /\ prog[Current].kind = "defined"
    /\ agenda[Len(agenda)].end = globals[Current] + AllocSize(Target.type)
    /\ \E at, from : Plan(agenda, at, Target, from) /\ Reached(from)
    /\ \A l \in Leaves[Target] : Supported(l) \/ Remains(agenda, l)
(* The bytes written so far of the object at from are those of c.           *)
ContentsIn(d, rs, p) ==
  Byte(d[p + 1],
       IF \E r \in rs : p \in r.position .. (r.position + 3)
       THEN (CHOOSE r \in rs : p \in r.position .. (r.position + 3)).global
       ELSE NoGlobal)
Shows(d, rs, c, from) ==
  Prescribed(c) =>
    \A k \in 0 .. (AllocSize(c.type) - 1) :
      from + k < Len(d) => ContentsIn(d, rs, from + k) = ByteOf[c][k]
ImageSoFar ==
  \A g \in DOMAIN globals : prog[g].kind = "defined" =>
    /\ globals[g] <= Len(data)
    /\ Complete(g) => globals[g] + AllocSize(prog[g].init.type) <= Len(data)
    /\ Shows(data, relocs, prog[g].init, globals[g])
GoodSoFar ==
  \A g \in DOMAIN globals : Complete(g) =>
    Good(prog[g]) /\ (prog[g].kind = "defined" => AllSized(prog[g].init))
StoppedShort == outcome = "size" => ~AllSized(prog[next - 1].init)
IInv ==
  TypeOK /\ StoppedShort /\ StopsAtUnsupported /\ Started /\ OnPlan /\ ImageSoFar /\ GoodSoFar
--------------------------------------------------------------------------------
(* What the steps do to the plan.                                           *)
LEMMA TaskFacts ==
  ASSUME NEW t \in Tasks
  PROVE  /\ t.task \in {"write", "pad", "check"}
         /\ t.task = "write" => t.const \in Constants /\ TaskSize(t) = AllocSize(t.const.type)
         /\ t.task = "pad" => t.size \in Nat /\ TaskSize(t) = t.size
         /\ t.task = "check" => t.end \in Nat
         /\ t.task # "check" => TaskSize(t) \in Nat
<1>1. CASE t \in [task : {"write"}, const : Constants]
  BY <1>1, SizesAreNumbers DEF TaskSize
<1>2. CASE t \in [task : {"pad"}, size : Nat]
  BY <1>2 DEF TaskSize
<1>3. CASE t \in [task : {"check"}, end : Nat]
  BY <1>3
<1>. QED
  BY <1>1, <1>2, <1>3 DEF Tasks

LEMMA PlanBegins ==
  ASSUME NEW tasks \in Seq(Tasks), NEW at, NEW c, NEW from, Plan(tasks, at, c, from)
  PROVE  /\ tasks # << >> /\ Head(tasks) = tasks[1] /\ Head(tasks) \in Tasks
         /\ Head(tasks).task = "check" => Len(tasks) = 1 /\ from = AllocSize(c.type)
         /\ Head(tasks).task # "check" => Len(tasks) > 1 /\ Placed(Head(tasks), c, from)
         /\ from \in Nat
<1>1. Len(tasks) \in Nat /\ Len(tasks) > 0 /\ tasks # << >> /\ Head(tasks) = tasks[1] /\ tasks[1] \in Tasks
  BY DEF Plan
<1>2. from \in Nat
  BY <1>1 DEF Plan
<1>3. CASE Len(tasks) = 1
  <2>1. tasks[1].task = "check" /\ from = AllocSize(c.type)
    BY <1>3 DEF Plan
  <2>. QED
    BY <1>1, <1>2, <1>3, <2>1
<1>4. CASE Len(tasks) > 1
  <2>1. 1 \in 1 .. (Len(tasks) - 1)
    BY <1>1, <1>4
  <2>2. Placed(tasks[1], c, from)
    BY <2>1 DEF Plan
  <2>3. tasks[1].task # "check"
    BY <2>2 DEF Placed
  <2>. QED
    BY <1>1, <1>2, <1>4, <2>2, <2>3
<1>5. Len(tasks) = 1 \/ Len(tasks) > 1
  <2>1. Len(tasks) \in Nat /\ Len(tasks) > 0
    BY <1>1
  <2>2. \A n \in Nat : n > 0 => n = 1 \/ n > 1
    OBVIOUS
  <2>. QED
    BY <2>1, <2>2, Zenon
<1>. QED
  BY <1>3, <1>4, <1>5

(* A task that is done is taken off the plan.                               *)
LEMMA PlanAdvances ==
  ASSUME NEW tasks \in Seq(Tasks), NEW at, NEW c, NEW from, Plan(tasks, at, c, from),
         Head(tasks).task # "check"
  PROVE  /\ \E a : Plan(Tail(tasks), a, c, from + TaskSize(Head(tasks)))
         /\ Tail(tasks) \in Seq(Tasks) /\ Tail(tasks) # << >>
         /\ Tail(tasks)[Len(Tail(tasks))] = tasks[Len(tasks)]
<1>. DEFINE n == Len(tasks)
            rest == Tail(tasks)
            a == [k \in 1 .. (n - 1) |-> at[k + 1]]
<1>1. n \in Nat /\ n > 1 /\ tasks[1] = Head(tasks)
  BY PlanBegins
<1>2. /\ at \in [1 .. n -> Nat] /\ at[1] = from /\ at[n] = AllocSize(c.type)
      /\ tasks[n].task = "check"
      /\ \A k \in 1 .. (n - 1) : Placed(tasks[k], c, at[k]) /\ at[k + 1] = at[k] + TaskSize(tasks[k])
  BY DEF Plan
<1>3. rest \in Seq(Tasks) /\ Len(rest) = n - 1 /\ \A k \in 1 .. (n - 1) : rest[k] = tasks[k + 1]
  BY <1>1
<1>. HIDE DEF n, rest
<1>4. a \in [1 .. (n - 1) -> Nat] /\ a[1] = from + TaskSize(Head(tasks)) /\ a[n - 1] = AllocSize(c.type)
  <2>1. 1 \in 1 .. (n - 1) /\ n - 1 \in 1 .. (n - 1) /\ (n - 1) + 1 = n /\ 1 + 1 \in 1 .. n
    BY <1>1
  <2>2. \A k \in 1 .. (n - 1) : k + 1 \in 1 .. n
    BY <1>1
  <2>. QED
    BY <1>1, <1>2, <2>1, <2>2
<1>5. rest[n - 1] = tasks[n]
  <2>1. n - 1 \in 1 .. (n - 1) /\ (n - 1) + 1 = n
    BY <1>1
  <2>. QED
    BY <1>3, <2>1
<1>6. ASSUME NEW k \in 1 .. (n - 2)
      PROVE  Placed(rest[k], c, a[k]) /\ a[k + 1] = a[k] + TaskSize(rest[k])
  <2>1. k \in 1 .. (n - 1) /\ k + 1 \in 1 .. (n - 1)
    BY <1>1
  <2>2. rest[k] = tasks[k + 1] /\ a[k] = at[k + 1] /\ a[k + 1] = at[(k + 1) + 1]
    BY <1>3, <2>1
  <2>. QED
    BY <1>2, <2>1, <2>2
<1>7. Plan(rest, a, c, from + TaskSize(Head(tasks)))
  <2>1. (n - 1) - 1 = n - 2 /\ n - 1 > 0
    BY <1>1
  <2>. HIDE DEF a
  <2>. QED
    BY <1>2, <1>3, <1>4, <1>5, <1>6, <2>1 DEF Plan
<1>8. rest # << >> /\ rest[Len(rest)] = tasks[n]
  BY <1>1, <1>3, <1>5
<1>. HIDE DEF a
<1>. QED
  BY <1>3, <1>7, <1>8 DEF rest, n

(* A constant is replaced by the tasks for its parts, if these are placed   *)
(* one behind the other in it.                                              *)
Split(tasks, offset, d) ==
  /\ tasks \in Seq(Tasks) /\ offset \in [1 .. (Len(tasks) + 1) -> Nat]
  /\ offset[1] = 0 /\ offset[Len(tasks) + 1] = AllocSize(d.type)
  /\ \A k \in 1 .. Len(tasks) :
       /\ tasks[k].task # "check" /\ Placed(tasks[k], d, offset[k])
       /\ offset[k + 1] = offset[k] + TaskSize(tasks[k]) /\ offset[k + 1] <= AllocSize(d.type)

LEMMA PlacedInside ==
  ASSUME NEW t \in Tasks, t.task # "check", NEW c, NEW d \in Constants, NEW from \in Nat, NEW offset \in Nat,
         Placed([task |-> "write", const |-> d], c, from), Placed(t, d, offset),
         offset + TaskSize(t) <= AllocSize(d.type)
  PROVE  Placed(t, c, from + offset)
<1>. DEFINE size == AllocSize(d.type)
            n == TaskSize(t)
<1>1. size \in Nat /\ n \in Nat
  BY SizesAreNumbers, TaskFacts
<1>2. /\ Leaves[d] \subseteq Leaves[c]
      /\ \A j \in 0 .. (size - 1) : ByteOf[c][from + j] = ByteOf[d][j]
  BY DEF Placed
<1>3. \A j \in 0 .. (n - 1) : ByteOf[c][(from + offset) + j] = ByteOf[d][offset + j]
  <2>1. ASSUME NEW j \in 0 .. (n - 1)
        PROVE  ByteOf[c][(from + offset) + j] = ByteOf[d][offset + j]
    <3>. HIDE DEF n, size
    <3>1. offset + j \in 0 .. (size - 1) /\ (from + offset) + j = from + (offset + j)
      BY <1>1 DEF n, size
    <3>. QED
      BY <1>2, <3>1
  <2>. QED
    BY <2>1
<1>4. CASE t.task = "write"
  <2>1. n = AllocSize(t.const.type)
    BY <1>4, TaskFacts
  <2>2. Leaves[t.const] \subseteq Leaves[d] /\ \A j \in 0 .. (n - 1) : ByteOf[d][offset + j] = ByteOf[t.const][j]
    BY <1>4, <2>1 DEF Placed
  <2>3. Leaves[t.const] \subseteq Leaves[c] /\ \A j \in 0 .. (n - 1) : ByteOf[c][(from + offset) + j] = ByteOf[t.const][j]
    BY <1>2, <1>3, <2>2
  <2>. QED
    BY <1>4, <2>1, <2>3 DEF Placed
<1>5. CASE t.task = "pad"
  <2>1. n = t.size
    BY <1>5, TaskFacts
  <2>2. \A j \in 0 .. (n - 1) : ByteOf[d][offset + j] = Byte(0, NoGlobal)
    BY <1>5, <2>1 DEF Placed
  <2>3. \A j \in 0 .. (n - 1) : ByteOf[c][(from + offset) + j] = Byte(0, NoGlobal)
    BY <1>3, <2>2
  <2>. QED
    BY <1>5, <2>1, <2>3 DEF Placed
<1>. QED
  BY <1>4, <1>5, TaskFacts

LEMMA Concatenation ==
  ASSUME NEW S, NEW s \in Seq(S), NEW t \in Seq(S)
  PROVE  /\ s \o t \in Seq(S) /\ Len(s \o t) = Len(s) + Len(t)
         /\ \A k \in 1 .. Len(s) : (s \o t)[k] = s[k]
         /\ \A k \in (Len(s) + 1) .. (Len(s) + Len(t)) :
              (s \o t)[k] = t[k - Len(s)] /\ k - Len(s) \in 1 .. Len(t)
  OBVIOUS

LEMMA PlanDescends ==
  ASSUME NEW tasks \in Seq(Tasks), NEW at, NEW c, NEW from, Plan(tasks, at, c, from),
         Head(tasks).task = "write", NEW new, NEW offset, Split(new, offset, Head(tasks).const)
  PROVE  /\ \E a : Plan(new \o Tail(tasks), a, c, from)
         /\ new \o Tail(tasks) \in Seq(Tasks) /\ new \o Tail(tasks) # << >>
         /\ (new \o Tail(tasks))[Len(new \o Tail(tasks))] = tasks[Len(tasks)]
<1>. DEFINE n == Len(tasks)
            m == Len(new)
            d == Head(tasks).const
            rest == Tail(tasks)
            all == new \o rest
            a == [k \in 1 .. (m + n - 1) |-> IF k <= m THEN from + offset[k] ELSE at[k - m + 1]]
<1>1. n \in Nat /\ n > 1 /\ tasks[1] = Head(tasks) /\ from \in Nat /\ tasks[1] \in Tasks
      /\ Placed(tasks[1], c, from)
  BY PlanBegins
<1>2. /\ at \in [1 .. n -> Nat] /\ at[1] = from /\ at[n] = AllocSize(c.type)
      /\ tasks[n].task = "check"
      /\ \A k \in 1 .. (n - 1) : Placed(tasks[k], c, at[k]) /\ at[k + 1] = at[k] + TaskSize(tasks[k])
  BY DEF Plan
<1>3. rest \in Seq(Tasks) /\ Len(rest) = n - 1 /\ \A k \in 1 .. (n - 1) : rest[k] = tasks[k + 1]
  BY <1>1
<1>4. /\ new \in Seq(Tasks) /\ m \in Nat /\ offset \in [1 .. (m + 1) -> Nat]
      /\ offset[1] = 0 /\ offset[m + 1] = AllocSize(d.type)
      /\ \A k \in 1 .. m :
           /\ new[k].task # "check" /\ Placed(new[k], d, offset[k])
           /\ offset[k + 1] = offset[k] + TaskSize(new[k]) /\ offset[k + 1] <= AllocSize(d.type)
  BY DEF Split
<1>5. d \in Constants /\ TaskSize(tasks[1]) = AllocSize(d.type)
  BY <1>1, TaskFacts
<1>6. /\ all \in Seq(Tasks) /\ Len(all) = m + n - 1
      /\ \A k \in 1 .. m : all[k] = new[k]
      /\ \A k \in (m + 1) .. (m + n - 1) : all[k] = tasks[k - m + 1]
  <2>. HIDE DEF rest, m, n
  <2>1. new \in Seq(Tasks) /\ rest \in Seq(Tasks) /\ Len(new) = m
    BY <1>3, <1>4 DEF m
  <2>2. /\ all \in Seq(Tasks) /\ Len(all) = m + Len(rest)
        /\ \A k \in 1 .. m : all[k] = new[k]
        /\ \A k \in (m + 1) .. (m + Len(rest)) : all[k] = rest[k - m] /\ k - m \in 1 .. Len(rest)
    BY <2>1, Concatenation
  <2>. QED
    BY <1>1, <1>3, <1>4, <2>1, <2>2
<1>. HIDE DEF n, m, d, rest, all
<1>7. a \in [1 .. (m + n - 1) -> Nat]
  <2>1. ASSUME NEW k \in 1 .. (m + n - 1)
        PROVE  (IF k <= m THEN from + offset[k] ELSE at[k - m + 1]) \in Nat
    <3>1. CASE k <= m
      <4>1. k \in 1 .. (m + 1)
        BY <1>4, <3>1
      <4>2. offset[k] \in Nat
        BY <1>4, <4>1
      <4>. QED
        BY <1>1, <3>1, <4>2
    <3>2. CASE ~(k <= m)
      <4>1. k - m + 1 \in 1 .. n
        BY <1>1, <1>4, <3>2
      <4>. QED
        BY <1>2, <3>2, <4>1
    <3>. QED
      BY <3>1, <3>2
  <2>. QED
    BY <2>1
<1>8. a[m + 1] = from + AllocSize(d.type)
  <2>1. m + 1 \in 1 .. (m + n - 1) /\ ~(m + 1 <= m) /\ (m + 1) - m + 1 = 2
    BY <1>1, <1>4
  <2>2. 1 \in 1 .. (n - 1) /\ 1 + 1 = 2
    BY <1>1
  <2>3. at[2] = at[1] + TaskSize(tasks[1])
    BY <1>2, <2>2
  <2>. QED
    BY <1>2, <1>5, <2>1, <2>3
<1>9. a[1] = from
  <2>1. CASE m = 0
    <3>1. AllocSize(d.type) = 0
      BY <1>4, <2>1
    <3>. QED
      BY <1>1, <1>8, <2>1, <3>1
  <2>2. CASE m # 0
    <3>1. 1 \in 1 .. (m + n - 1) /\ 1 <= m
      BY <1>1, <1>4, <2>2
    <3>. QED
      BY <1>1, <1>4, <3>1
  <2>. QED
    BY <2>1, <2>2
<1>10. a[m + n - 1] = AllocSize(c.type) /\ all[m + n - 1] = tasks[n]
  <2>1. n \in Nat /\ n > 1 /\ m \in Nat
    BY <1>1, <1>4
  <2>2. m + n - 1 \in 1 .. (m + n - 1) /\ ~(m + n - 1 <= m) /\ (m + n - 1) - m + 1 = n
        /\ m + n - 1 \in (m + 1) .. (m + n - 1)
    BY <2>1
  <2>3. a[m + n - 1] = at[n]
    BY <2>2
  <2>. QED
    BY <1>2, <1>6, <2>2, <2>3
<1>11. ASSUME NEW k \in 1 .. (m + n - 2)
       PROVE  Placed(all[k], c, a[k]) /\ a[k + 1] = a[k] + TaskSize(all[k])
  <2>1. CASE k <= m
    <3>1. k \in 1 .. m /\ k \in 1 .. (m + n - 1) /\ k + 1 \in 1 .. (m + n - 1)
      BY <1>1, <1>4, <2>1
    <3>2. all[k] = new[k] /\ new[k] \in Tasks /\ offset[k] \in Nat /\ offset[k + 1] \in Nat
      <4>1. k \in 1 .. Len(new)
        BY <3>1 DEF m
      <4>2. new[k] \in Tasks
        BY <1>4, <4>1
      <4>3. k \in 1 .. (m + 1) /\ k + 1 \in 1 .. (m + 1)
        BY <1>4, <3>1
      <4>. QED
        BY <1>4, <1>6, <3>1, <4>2, <4>3
    <3>3. a[k] = from + offset[k]
      BY <2>1, <3>1
    <3>4. a[k + 1] = from + offset[k + 1]
      <4>1. CASE k = m
        BY <1>4, <1>8, <4>1
      <4>2. CASE k # m
        <5>1. k + 1 <= m
          BY <1>4, <3>1, <4>2
        <5>. QED
          BY <3>1, <5>1
      <4>. QED
        BY <4>1, <4>2
    <3>5. Placed([task |-> "write", const |-> d], c, from)
      <4>. DEFINE w == [task |-> "write", const |-> d]
      <4>1. Placed(Head(tasks), c, from) /\ Head(tasks).task = "write" /\ Head(tasks).const = d
        BY <1>1 DEF d
      <4>2. w.task = "write" /\ w.const = d
        OBVIOUS
      <4>. HIDE DEF w
      <4>3. Placed(w, c, from)
        BY <4>1, <4>2 DEF Placed
      <4>. QED
        BY <4>3 DEF w
    <3>6. /\ new[k].task # "check" /\ Placed(new[k], d, offset[k])
          /\ offset[k + 1] = offset[k] + TaskSize(new[k]) /\ offset[k] + TaskSize(new[k]) <= AllocSize(d.type)
      BY <1>4, <3>1
    <3>. HIDE DEF a
    <3>7. Placed(new[k], c, from + offset[k])
      BY <1>1, <1>5, <3>2, <3>5, <3>6, PlacedInside
    <3>8. TaskSize(new[k]) \in Nat
      BY <3>2, <3>6, TaskFacts
    <3>. QED
      BY <1>1, <3>2, <3>3, <3>4, <3>6, <3>7, <3>8
  <2>2. CASE k > m
    <3>. DEFINE i == k - m + 1
    <3>1. /\ k \in 1 .. (m + n - 1) /\ k + 1 \in 1 .. (m + n - 1) /\ ~(k <= m) /\ ~(k + 1 <= m)
          /\ k \in (m + 1) .. (m + n - 1) /\ i \in 1 .. (n - 1) /\ (k + 1) - m + 1 = i + 1
      BY <1>1, <1>4, <2>2
    <3>2. all[k] = tasks[i] /\ a[k] = at[i] /\ a[k + 1] = at[i + 1]
      BY <1>6, <3>1
    <3>. HIDE DEF i, a
    <3>. QED
      BY <1>2, <3>1, <3>2
  <2>. QED
    BY <1>4, <2>1, <2>2
<1>. HIDE DEF a
<1>12. Plan(all, a, c, from)
  <2>1. (m + n - 1) - 1 = m + n - 2 /\ m + n - 1 > 0
    BY <1>1, <1>4
  <2>. QED
    BY <1>2, <1>6, <1>7, <1>9, <1>10, <1>11, <2>1 DEF Plan
<1>13. all # << >> /\ all[Len(all)] = tasks[n]
  BY <1>1, <1>4, <1>6, <1>10
<1>. QED
  BY <1>6, <1>12, <1>13 DEF all, rest, n

ArrayTasks(c) == [k \in DOMAIN c.parts |-> [task |-> "write", const |-> c.parts[k]]]
StructTasks(c) ==
  [k \in 1 .. 2 * Len(c.parts) |-> FieldTasks(c, (k + 1) \div 2)[2 - (k % 2)]]

LEMMA ArraySplits ==
  ASSUME NEW c \in Constants, c.kind = "array"
  PROVE  /\ \E offset : Split(ArrayTasks(c), offset, c)
         /\ \A l \in Leaves[c] : Remains(ArrayTasks(c), l)
<1>. DEFINE n == AllocSize(c.type.elem)
            m == Len(c.parts)
            size == AllocSize(c.type)
            tasks == ArrayTasks(c)
            offset == [k \in 1 .. (m + 1) |-> (k - 1) * n]
<1>1. /\ c.parts \in Seq(Constants) /\ Parts(c) = { c.parts[i] : i \in DOMAIN c.parts }
      /\ \A i \in DOMAIN c.parts : c.parts[i].type = c.type.elem
      /\ n \in Nat /\ size = m * n
  BY ArrayFacts
<1>2. m \in Nat /\ DOMAIN c.parts = 1 .. m /\ \A i \in 1 .. m : c.parts[i] \in Constants
  BY <1>1
<1>3. /\ tasks \in Seq(Tasks) /\ Len(tasks) = m
      /\ \A k \in 1 .. m : tasks[k] = [task |-> "write", const |-> c.parts[k]]
  <2>. HIDE DEF m
  <2>1. tasks = [k \in 1 .. m |-> [task |-> "write", const |-> c.parts[k]]]
    BY <1>2 DEF ArrayTasks
  <2>2. \A k \in 1 .. m : [task |-> "write", const |-> c.parts[k]] \in Tasks
    BY <1>2 DEF Tasks
  <2>. HIDE DEF tasks
  <2>. QED
    BY <1>2, <2>1, <2>2
<1>4. ASSUME NEW k \in 1 .. m
      PROVE  Placed(tasks[k], c, (k - 1) * n) /\ TaskSize(tasks[k]) = n /\ tasks[k].task # "check"
  <2>. DEFINE p == c.parts[k]
  <2>1. p \in Constants /\ AllocSize(p.type) = n /\ p \in Parts(c) /\ k \in DOMAIN c.parts
    BY <1>1, <1>2
  <2>2. tasks[k].task = "write" /\ tasks[k].const = p
    <3>. HIDE DEF tasks, m
    <3>. QED
      BY <1>3
  <2>3. Leaves[p] \subseteq Leaves[c]
    BY <2>1, LeavesDefined DEF LeavesStep
  <2>4. \A j \in 0 .. (AllocSize(p.type) - 1) : ByteOf[c][(k - 1) * n + j] = ByteOf[p][j]
    BY <2>1, ElementBytes
  <2>. HIDE DEF p, tasks, n
  <2>. QED
    BY <2>1, <2>2, <2>3, <2>4 DEF Placed, TaskSize
<1>. HIDE DEF m, n, size, tasks
<1>5. offset \in [1 .. (m + 1) -> Nat] /\ offset[1] = 0 /\ offset[m + 1] = size
  <2>1. \A k \in 1 .. (m + 1) : (k - 1) * n \in Nat
    BY <1>1, <1>2
  <2>2. 1 \in 1 .. (m + 1) /\ m + 1 \in 1 .. (m + 1) /\ (1 - 1) * n = 0 /\ ((m + 1) - 1) * n = m * n
    BY <1>1, <1>2
  <2>. QED
    BY <1>1, <2>1, <2>2
<1>6. ASSUME NEW k \in 1 .. m
      PROVE  offset[k] = (k - 1) * n /\ offset[k + 1] = offset[k] + n /\ offset[k + 1] <= size
  <2>1. k \in 1 .. (m + 1) /\ k + 1 \in 1 .. (m + 1) /\ k \in Nat /\ k <= m
    BY <1>2
  <2>2. offset[k] = (k - 1) * n /\ offset[k + 1] = ((k + 1) - 1) * n
    BY <2>1
  <2>3. ((k + 1) - 1) * n = (k - 1) * n + n
    BY <1>1, <2>1
  <2>4. ((k + 1) - 1) * n <= m * n
    <3>1. k * n <= m * n
      BY <1>1, <1>2, <2>1
    <3>2. (k + 1) - 1 = k
      BY <2>1
    <3>. QED
      BY <3>1, <3>2
  <2>. QED
    BY <1>1, <2>2, <2>3, <2>4
<1>. HIDE DEF offset
<1>7. Split(tasks, offset, c)
  <2>1. offset[Len(tasks) + 1] = AllocSize(c.type) /\ offset \in [1 .. (Len(tasks) + 1) -> Nat]
    BY <1>3, <1>5 DEF size
  <2>2. \A k \in 1 .. Len(tasks) :
          /\ tasks[k].task # "check" /\ Placed(tasks[k], c, offset[k])
          /\ offset[k + 1] = offset[k] + TaskSize(tasks[k]) /\ offset[k + 1] <= AllocSize(c.type)
    BY <1>3, <1>4, <1>6 DEF size
  <2>. QED
    BY <1>3, <1>5, <2>1, <2>2 DEF Split
<1>8. ASSUME NEW l \in Leaves[c]
      PROVE  Remains(tasks, l)
  <2>1. Leaves[c] = UNION { Leaves[p] : p \in Parts(c) }
    BY LeavesDefined DEF LeavesStep
  <2>2. PICK i \in DOMAIN c.parts : l \in Leaves[c.parts[i]]
    BY <1>1, <2>1
  <2>3. i \in 1 .. m /\ i \in DOMAIN tasks
    BY <1>2, <1>3
  <2>. QED
    BY <1>3, <2>2, <2>3 DEF Remains
<1>. QED
  BY <1>7, <1>8 DEF tasks

LEMMA Halves ==
  ASSUME NEW m \in Nat, NEW k \in 1 .. (2 * m)
  PROVE  LET i == (k + 1) \div 2
         IN /\ i \in 1 .. m /\ k % 2 \in {0, 1}
            /\ k % 2 = 1 => k = 2 * i - 1 /\ ((k + 1) + 1) \div 2 = i /\ (k + 1) % 2 = 0
            /\ k % 2 = 0 => k = 2 * i /\ ((k + 1) + 1) \div 2 = i + 1 /\ (k + 1) % 2 = 1
  OBVIOUS

LEMMA StructTask ==
  ASSUME NEW c \in Constants, c.kind = "struct", NEW i \in DOMAIN c.parts
  PROVE  /\ FieldTasks(c, i)[1] = [task |-> "write", const |-> c.parts[i]]
         /\ FieldTasks(c, i)[2] = [task |-> "pad", size |-> Padding(c.type, i)]
         /\ FieldTasks(c, i)[1] \in Tasks /\ FieldTasks(c, i)[2] \in Tasks
         /\ Placed(FieldTasks(c, i)[1], c, ElementOffset(c.type, i))
         /\ TaskSize(FieldTasks(c, i)[1]) = AllocSize(c.type.fields[i])
         /\ Placed(FieldTasks(c, i)[2], c, ElementOffset(c.type, i) + AllocSize(c.type.fields[i]))
         /\ TaskSize(FieldTasks(c, i)[2]) = Padding(c.type, i)
<1>. DEFINE p == c.parts[i]
            o == ElementOffset(c.type, i)
            z == AllocSize(c.type.fields[i])
            w == FieldTasks(c, i)[1]
            g == FieldTasks(c, i)[2]
            d == Padding(c.type, i)
<1>1. w = [task |-> "write", const |-> p] /\ g = [task |-> "pad", size |-> d]
  BY DEF FieldTasks, Field, Gap
<1>2. p \in Constants /\ p \in Parts(c) /\ c.type.fields[i] = p.type /\ o \in Nat /\ z \in Nat
  BY StructFacts
<1>3. d \in Nat /\ NextOffset(c.type, i) = o + z + d
  BY PaddingFacts
<1>4. w.task = "write" /\ w.const = p /\ g.task = "pad" /\ g.size = d
  BY <1>1
<1>5. w \in Tasks /\ g \in Tasks
  BY <1>1, <1>2, <1>3 DEF Tasks
<1>6. Leaves[p] \subseteq Leaves[c]
  BY <1>2, LeavesDefined DEF LeavesStep
<1>7. \A j \in 0 .. (AllocSize(p.type) - 1) : ByteOf[c][o + j] = ByteOf[p][j]
  BY FieldBytes
<1>8. ASSUME NEW j \in 0 .. (d - 1)
      PROVE  ByteOf[c][(o + z) + j] = Byte(0, NoGlobal)
  <2>. DEFINE k == (o + z) + j
  <2>1. k \in Nat /\ o + z <= k /\ k < NextOffset(c.type, i)
    <3>. HIDE DEF o, z, d
    <3>. QED
      BY <1>2, <1>3
  <2>. HIDE DEF k
  <2>2. ByteOf[c][k] = Byte(0, NoGlobal)
    BY <2>1, GapBytes
  <2>. QED
    BY <2>2 DEF k
<1>. HIDE DEF p, o, z, w, g, d
<1>9. Placed(w, c, o) /\ TaskSize(w) = z
  BY <1>2, <1>4, <1>6, <1>7 DEF Placed, TaskSize, z
<1>10. Placed(g, c, o + z) /\ TaskSize(g) = d
  BY <1>4, <1>8 DEF Placed, TaskSize
<1>. QED
  BY <1>1, <1>5, <1>9, <1>10 DEF p, o, z, w, g, d

LEMMA StructSplits ==
  ASSUME NEW c \in Constants, c.kind = "struct"
  PROVE  /\ \E offset : Split(StructTasks(c), offset, c)
         /\ \A l \in Leaves[c] : Remains(StructTasks(c), l)
<1>. DEFINE m == Len(c.parts)
            size == AllocSize(c.type)
            O(i) == ElementOffset(c.type, i)
            Z(i) == AllocSize(c.type.fields[i])
            P(i) == Padding(c.type, i)
            W(i) == FieldTasks(c, i)[1]
            G(i) == FieldTasks(c, i)[2]
            Half(k) == (k + 1) \div 2
            tasks == StructTasks(c)
            At(k) == IF k = 2 * m + 1 THEN size
                     ELSE IF k % 2 = 1 THEN O(Half(k)) ELSE O(Half(k)) + Z(Half(k))
            offset == [k \in 1 .. (2 * m + 1) |-> At(k)]
<1>1. m \in Nat /\ m > 0 /\ DOMAIN c.parts = 1 .. m /\ O(1) = 0 /\ size \in Nat
  BY StructFacts, SizesAreNumbers
<1>2. \A i \in 1 .. m : O(i) \in Nat /\ Z(i) \in Nat /\ O(i) + Z(i) <= size
  BY <1>1, StructFacts
<1>3. \A i \in 1 .. m : P(i) \in Nat /\ (IF i = m THEN size ELSE O(i + 1)) = O(i) + Z(i) + P(i)
  BY <1>1, PaddingFacts
<1>4. \A i \in 1 .. m :
        /\ W(i) = [task |-> "write", const |-> c.parts[i]] /\ W(i) \in Tasks
        /\ Placed(W(i), c, O(i)) /\ TaskSize(W(i)) = Z(i)
        /\ G(i) = [task |-> "pad", size |-> P(i)] /\ G(i) \in Tasks
        /\ Placed(G(i), c, O(i) + Z(i)) /\ TaskSize(G(i)) = P(i)
  BY <1>1, StructTask
<1>5. tasks = [k \in 1 .. 2 * m |-> FieldTasks(c, Half(k))[2 - (k % 2)]]
  BY DEF StructTasks
<1>6. ASSUME NEW k \in 1 .. 2 * m
      PROVE  /\ Half(k) \in 1 .. m /\ k % 2 \in {0, 1}
             /\ k % 2 = 1 => k = 2 * Half(k) - 1 /\ Half(k + 1) = Half(k) /\ (k + 1) % 2 = 0
                             /\ FieldTasks(c, Half(k))[2 - (k % 2)] = W(Half(k))
             /\ k % 2 = 0 => k = 2 * Half(k) /\ Half(k + 1) = Half(k) + 1 /\ (k + 1) % 2 = 1
                             /\ FieldTasks(c, Half(k))[2 - (k % 2)] = G(Half(k))
  <2>1. /\ Half(k) \in 1 .. m /\ k % 2 \in {0, 1}
        /\ k % 2 = 1 => k = 2 * Half(k) - 1 /\ Half(k + 1) = Half(k) /\ (k + 1) % 2 = 0
        /\ k % 2 = 0 => k = 2 * Half(k) /\ Half(k + 1) = Half(k) + 1 /\ (k + 1) % 2 = 1
    <3>. HIDE DEF m
    <3>. QED
      BY <1>1, Halves
  <2>2. k % 2 = 1 => 2 - (k % 2) = 1
    OBVIOUS
  <2>3. k % 2 = 0 => 2 - (k % 2) = 2
    OBVIOUS
  <2>. HIDE DEF Half
  <2>. QED
    BY <2>1, <2>2, <2>3
<1>. HIDE DEF m, size, O, Z, P, W, G, Half, tasks
<1>7. \A k \in 1 .. 2 * m :
        /\ k % 2 = 1 => tasks[k] = W(Half(k))
        /\ k % 2 = 0 => tasks[k] = G(Half(k))
        /\ tasks[k] \in Tasks
  BY <1>4, <1>5, <1>6
<1>8. tasks \in Seq(Tasks) /\ Len(tasks) = 2 * m
  <2>1. 2 * m \in Nat /\ DOMAIN tasks = 1 .. 2 * m
    BY <1>1, <1>5
  <2>2. tasks = [k \in 1 .. 2 * m |-> tasks[k]]
    BY <1>5
  <2>. QED
    BY <1>7, <2>1, <2>2
<1>9. ASSUME NEW k \in 1 .. 2 * m
      PROVE  /\ Placed(tasks[k], c, At(k)) /\ tasks[k].task # "check"
             /\ At(k) \in Nat /\ At(k + 1) = At(k) + TaskSize(tasks[k]) /\ At(k + 1) <= size
  <2>. DEFINE i == Half(k)
  <2>1. i \in 1 .. m /\ k \in Int
    BY <1>6
  <2>2. CASE k % 2 = 1
    <3>1. k = 2 * i - 1 /\ Half(k + 1) = i /\ (k + 1) % 2 = 0 /\ tasks[k] = W(i)
      BY <1>6, <1>7, <2>2
    <3>. HIDE DEF i
    <3>2. At(k) = O(i) /\ At(k + 1) = O(i) + Z(i)
      <4>1. k # 2 * m + 1 /\ k + 1 # 2 * m + 1 /\ Half(k) = i
        BY <1>1, <2>1, <2>2, <3>1 DEF i
      <4>. QED
        BY <2>2, <3>1, <4>1
    <3>. HIDE DEF At
    <3>. QED
      BY <1>2, <1>4, <2>1, <3>1, <3>2
  <2>3. CASE k % 2 = 0
    <3>1. k = 2 * i /\ Half(k + 1) = i + 1 /\ (k + 1) % 2 = 1 /\ tasks[k] = G(i)
      BY <1>6, <1>7, <2>3
    <3>. HIDE DEF i
    <3>2. At(k) = O(i) + Z(i)
      <4>1. k # 2 * m + 1 /\ Half(k) = i /\ ~(k % 2 = 1)
        BY <1>1, <2>1, <2>3, <3>1 DEF i
      <4>. QED
        BY <4>1
    <3>3. At(k + 1) = (IF i = m THEN size ELSE O(i + 1)) /\ At(k + 1) <= size
      <4>1. CASE i = m
        BY <1>1, <3>1, <4>1
      <4>2. CASE i # m
        <5>1. i + 1 \in 1 .. m /\ k + 1 # 2 * m + 1
          BY <1>1, <2>1, <3>1, <4>2
        <5>2. At(k + 1) = O(i + 1)
          BY <3>1, <5>1
        <5>. HIDE DEF At
        <5>. QED
          BY <1>1, <1>2, <4>2, <5>1, <5>2
      <4>. QED
        BY <4>1, <4>2
    <3>. HIDE DEF At
    <3>. QED
      BY <1>2, <1>3, <1>4, <2>1, <3>1, <3>2, <3>3
  <2>. QED
    BY <1>6, <2>2, <2>3
<1>10. At(1) = 0 /\ At(2 * m + 1) = size
  <2>1. 1 # 2 * m + 1 /\ 1 \in 1 .. 2 * m /\ 1 % 2 = 1
    BY <1>1
  <2>2. Half(1) = 1
    BY DEF Half
  <2>. QED
    BY <1>1, <2>1, <2>2
<1>11. offset \in [1 .. (2 * m + 1) -> Nat]
  <2>. HIDE DEF At
  <2>1. \A k \in 1 .. (2 * m + 1) : k \in 1 .. 2 * m \/ k = 2 * m + 1
    BY <1>1
  <2>. QED
    BY <1>1, <1>9, <1>10, <2>1
<1>12. /\ \A k \in 1 .. 2 * m : offset[k] = At(k) /\ offset[k + 1] = At(k + 1)
       /\ offset[1] = At(1) /\ offset[2 * m + 1] = At(2 * m + 1)
  <2>. HIDE DEF At
  <2>1. /\ \A k \in 1 .. 2 * m : k \in 1 .. (2 * m + 1) /\ k + 1 \in 1 .. (2 * m + 1)
        /\ 1 \in 1 .. (2 * m + 1) /\ 2 * m + 1 \in 1 .. (2 * m + 1)
    BY <1>1
  <2>. QED
    BY <2>1
<1>. HIDE DEF At, offset
<1>13. Split(tasks, offset, c)
  BY <1>8, <1>9, <1>10, <1>11, <1>12 DEF Split, size
<1>14. ASSUME NEW l \in Leaves[c]
       PROVE  Remains(tasks, l)
  <2>1. Leaves[c] = UNION { Leaves[p] : p \in Parts(c) } /\ Parts(c) = { c.parts[i] : i \in DOMAIN c.parts }
    BY LeavesDefined, StructFacts DEF LeavesStep
  <2>2. PICK i \in 1 .. m : l \in Leaves[c.parts[i]]
    BY <1>1, <2>1
  <2>. DEFINE k == 2 * i - 1
  <2>3. k \in 1 .. 2 * m /\ k % 2 = 1 /\ Half(k) = i
    BY <1>1 DEF Half
  <2>. HIDE DEF k
  <2>4. tasks[k] = [task |-> "write", const |-> c.parts[i]] /\ k \in DOMAIN tasks
    BY <1>4, <1>5, <1>7, <2>3
  <2>. QED
    BY <2>2, <2>4 DEF Remains
<1>. QED
  BY <1>13, <1>14 DEF tasks

(* The scalars that remain when the first task is done, or is replaced.     *)
LEMMA RemainsAfter ==
  ASSUME NEW tasks \in Seq(Tasks), tasks # << >>, NEW new \in Seq(Tasks), NEW l, Remains(tasks, l)
  PROVE  \/ Head(tasks).task = "write" /\ l \in Leaves[Head(tasks).const]
         \/ Remains(Tail(tasks), l) /\ Remains(new \o Tail(tasks), l)
<1>. DEFINE n == Len(tasks)
            m == Len(new)
            rest == Tail(tasks)
            all == new \o rest
<1>1. n \in Nat /\ n > 0 /\ DOMAIN tasks = 1 .. n /\ tasks[1] = Head(tasks) /\ m \in Nat
  OBVIOUS
<1>2. /\ rest \in Seq(Tasks) /\ Len(rest) = n - 1 /\ DOMAIN rest = 1 .. (n - 1)
      /\ \A k \in 1 .. (n - 1) : rest[k] = tasks[k + 1]
  BY <1>1
<1>3. /\ all \in Seq(Tasks) /\ Len(all) = m + (n - 1)
      /\ \A k \in (m + 1) .. (m + (n - 1)) : all[k] = rest[k - m]
  <2>. HIDE DEF rest
  <2>1. /\ all \in Seq(Tasks) /\ Len(all) = Len(new) + Len(rest)
        /\ \A k \in (Len(new) + 1) .. (Len(new) + Len(rest)) : all[k] = rest[k - Len(new)]
    BY <1>2, Concatenation
  <2>. QED
    BY <1>2, <2>1
<1>. HIDE DEF rest, all, n, m
<1>4. DOMAIN all = 1 .. (m + (n - 1))
  BY <1>3
<1>5. PICK k \in 1 .. n : tasks[k].task = "write" /\ l \in Leaves[tasks[k].const]
  BY <1>1 DEF Remains
<1>6. CASE k = 1
  BY <1>1, <1>5, <1>6
<1>7. CASE k # 1
  <2>1. k - 1 \in 1 .. (n - 1) /\ (k - 1) + 1 = k
    BY <1>1, <1>5, <1>7
  <2>2. rest[k - 1] = tasks[k]
    BY <1>2, <2>1
  <2>3. (k - 1) + m \in (m + 1) .. (m + (n - 1)) /\ ((k - 1) + m) - m = k - 1
        /\ (k - 1) + m \in 1 .. (m + (n - 1))
    BY <1>1, <2>1
  <2>4. all[(k - 1) + m] = tasks[k]
    BY <1>3, <2>2, <2>3
  <2>5. Remains(rest, l)
    BY <1>2, <1>5, <2>1, <2>2 DEF Remains
  <2>6. Remains(all, l)
    <3>. DEFINE j == (k - 1) + m
    <3>1. j \in DOMAIN all /\ all[j] = tasks[k]
      BY <1>4, <2>3, <2>4
    <3>. HIDE DEF j
    <3>. QED
      BY <1>5, <3>1 DEF Remains
  <2>. QED
    BY <2>5, <2>6 DEF rest, all
<1>. QED
  BY <1>6, <1>7

LEMMA RemainsNew ==
  ASSUME NEW new \in Seq(Tasks), NEW rest \in Seq(Tasks), NEW l, Remains(new, l)
  PROVE  Remains(new \o rest, l)
<1>1. PICK k \in DOMAIN new : new[k].task = "write" /\ l \in Leaves[new[k].const]
  BY DEF Remains
<1>2. k \in 1 .. Len(new) /\ Len(new \o rest) = Len(new) + Len(rest) /\ (new \o rest)[k] = new[k]
      /\ new \o rest \in Seq(Tasks)
  BY <1>1, Concatenation
<1>3. k \in DOMAIN (new \o rest)
  BY <1>2
<1>. QED
  BY <1>1, <1>2, <1>3 DEF Remains

--------------------------------------------------------------------------------
(* The bytes of a zero and of a scalar, and what a scalar is stopped for.   *)
LEMMA ZeroBytes ==
  ASSUME NEW c \in Constants, c.kind = "zero", NEW k \in 0 .. (AllocSize(c.type) - 1)
  PROVE  ByteOf[c][k] = Byte(0, NoGlobal)
<1>1. ByteOf[c][k] = ByteStep(c, ByteOf, k)
  BY ByteOfDefined
<1>. QED
  BY <1>1 DEF ByteStep, ScalarKinds

LEMMA NotScalarIsSupported ==
  ASSUME NEW c \in Constants, c.kind \in {"zero", "data"}
  PROVE  /\ Supported(c) /\ Leaves[c] = {c}
         /\ AllSized(c) <=> Sized(c)
<1>1. Meaning[c].bottom = c
  <2>1. Meaning[c] = MeaningStep(c, Meaning)
    BY MeaningDefined
  <2>2. MeaningStep(c, Meaning) =
          [bottom |-> c, displacement |-> 0, fits |-> TRUE,
           number |-> Reduced(IF c.kind \in {"int", "fp"} THEN c.val ELSE 0, c.type)]
    BY DEF MeaningStep
  <2>. QED
    BY <2>1, <2>2
<1>2. Leaves[c] = {c}
  BY LeavesDefined DEF LeavesStep
<1>. QED
  BY <1>1, <1>2 DEF Supported, AllSized

LEMMA ScalarIsLeaf ==
  ASSUME NEW c \in Constants, c.kind \in ScalarKinds
  PROVE  Leaves[c] = {c} /\ AllSized(c)
<1>1. Leaves[c] = {c}
  BY LeavesDefined DEF LeavesStep, ScalarKinds
<1>. QED
  BY <1>1 DEF AllSized, Sized, ScalarKinds

LEMMA SmallOffset ==
  ASSUME NEW x \in 0 .. (Range64 - 1)
  PROVE  x % Range32 = x <=> x < Range32
<1>. DEFINE p == Range32
<1>1. p \in Nat \ {0} /\ x \in Int /\ 0 <= x
  BY RangeFacts
<1>. HIDE DEF p
<1>2. x % p \in 0 .. (p - 1)
  BY <1>1, Division
<1>3. ASSUME x < p PROVE x % p = x
  <2>1. x \in 0 .. (p - 1) /\ p * 0 + x = x
    BY <1>1, <1>3
  <2>2. (p * 0 + x) % p = x
    BY <1>1, <2>1, DivisionUnique
  <2>. QED
    BY <2>1, <2>2
<1>. QED
  BY <1>1, <1>2, <1>3 DEF p

LEMMA StopsAtScalar ==
  ASSUME NEW c \in Constants, c.kind \in ScalarKinds
  PROVE  LET e == ExpandConstant[c]
         IN ~e.unhandled /\ Representable(e, c.type) <=> Supported(c)
<1>. DEFINE e == ExpandConstant[c]
            m == Meaning[c]
<1>1. Agrees(c)
  BY ExpansionAgrees
<1>2. e \in Expansions /\ m \in Meanings
  BY ExpandDefined, MeaningDefined
<1>3. e.offset \in 0 .. (Range64 - 1) /\ m.displacement \in 0 .. (Range64 - 1)
  BY <1>2 DEF Expansions, Meanings
<1>4. e.offset % Range32 = e.offset <=> e.offset < Range32
  BY <1>3, SmallOffset
<1>5. /\ e.unhandled <=> \/ m.bottom.kind = "other"
                         \/ m.bottom.kind = "fp" /\ m.bottom.type.name # "double"
      /\ e.global = IF m.bottom.kind = "global" THEN m.bottom.name ELSE NoGlobal
      /\ m.bottom.kind = "global" => m.bottom.name # NoGlobal /\ e.offset = m.displacement
  BY <1>1 DEF Agrees
<1>6. Supported(c) <=>
        /\ m.bottom.kind # "other"
        /\ m.bottom.kind = "fp" => m.bottom.type.name = "double"
        /\ m.bottom.kind = "global" => AllocSize(c.type) = 4 /\ m.displacement < Range32
  BY DEF Supported
<1>7. Representable(e, c.type) <=>
        e.global = NoGlobal \/ (AllocSize(c.type) = 4 /\ e.offset % Range32 = e.offset)
  BY DEF Representable
<1>. SUFFICES ~e.unhandled /\ Representable(e, c.type) <=> Supported(c)
  OBVIOUS
<1>. HIDE DEF e, m
<1>8. CASE m.bottom.kind = "global"
  BY <1>4, <1>5, <1>6, <1>7, <1>8
<1>9. CASE m.bottom.kind # "global"
  BY <1>5, <1>6, <1>7, <1>9
<1>. QED
  BY <1>8, <1>9

LEMMA ScalarBytes ==
  ASSUME NEW c \in Constants, c.kind \in ScalarKinds, Meaning[c].fits, ~ExpandConstant[c].unhandled,
         NEW k \in 0 .. (AllocSize(c.type) - 1)
  PROVE  ByteOf[c][k] =
           Byte(Bytes(ExpandConstant[c].offset, AllocSize(c.type))[k + 1], ExpandConstant[c].global)
<1>. DEFINE e == ExpandConstant[c]
            m == Meaning[c]
            n == AllocSize(c.type)
<1>1. ByteOf[c][k] = ScalarByte(c, k)
  <2>1. ByteOf[c][k] = ByteStep(c, ByteOf, k)
    BY ByteOfDefined
  <2>. QED
    BY <2>1 DEF ByteStep, ScalarKinds
<1>2. ScalarByte(c, k) = Byte(Bytes(m.number, n)[k + 1], IF m.bottom.kind = "global" THEN m.bottom.name ELSE NoGlobal)
  BY DEF ScalarByte
<1>3. e \in Expansions /\ n \in Nat
  BY ExpandDefined, SizesAreNumbers
<1>4. e.offset \in Int
  BY <1>3, RangeFacts DEF Expansions
<1>5. m.number = e.offset % Values[n] /\ e.global = IF m.bottom.kind = "global" THEN m.bottom.name ELSE NoGlobal
  BY ExpansionAgrees DEF Agrees, Reduced
<1>. HIDE DEF e, m, n
<1>6. Bytes(m.number, n) = Bytes(e.offset, n)
  BY <1>3, <1>4, <1>5, BytesFacts
<1>. QED
  BY <1>1, <1>2, <1>5, <1>6 DEF e, n

--------------------------------------------------------------------------------
(* What a step that appends bytes, with the address of g to be added to     *)
(* them, does to the image.                                                 *)
Wrote(bytes, g) ==
  /\ bytes \in Seq(0 .. (ByteValues - 1)) /\ data' = data \o bytes
  /\ g # NoGlobal => Len(bytes) = 4
  /\ relocs' = IF g = NoGlobal THEN relocs
               ELSE relocs \cup {[position |-> Len(data), global |-> g]}
Covers(r, p) == p \in r.position .. (r.position + 3)

LEMMA DataGrows ==
  ASSUME TypeOK, NEW bytes, NEW g, Wrote(bytes, g)
  PROVE  /\ data' \in Seq(0 .. (ByteValues - 1)) /\ Len(data') = Len(data) + Len(bytes)
         /\ Len(data) \in Nat /\ Len(bytes) \in Nat
         /\ \A p \in 0 .. (Len(data) - 1) : data'[p + 1] = data[p + 1]
         /\ \A p \in Len(data) .. (Len(data) + Len(bytes) - 1) : data'[p + 1] = bytes[p - Len(data) + 1]
<1>1. data \in Seq(0 .. (ByteValues - 1)) /\ bytes \in Seq(0 .. (ByteValues - 1)) /\ data' = data \o bytes
  BY DEF TypeOK, Wrote
<1>2. /\ data' \in Seq(0 .. (ByteValues - 1)) /\ Len(data') = Len(data) + Len(bytes)
      /\ \A k \in 1 .. Len(data) : data'[k] = data[k]
      /\ \A k \in (Len(data) + 1) .. (Len(data) + Len(bytes)) : data'[k] = bytes[k - Len(data)]
  BY <1>1, Concatenation
<1>3. Len(data) \in Nat /\ Len(bytes) \in Nat
  BY <1>1
<1>. DEFINE n == Len(data)
            m == Len(bytes)
<1>. HIDE DEF n, m
<1>4. ASSUME NEW p \in n .. (n + m - 1) PROVE data'[p + 1] = bytes[p - n + 1]
  <2>1. p + 1 \in (n + 1) .. (n + m) /\ (p + 1) - n = p - n + 1
    BY <1>3 DEF n, m
  <2>. QED
    BY <1>2, <2>1 DEF n, m
<1>5. ASSUME NEW p \in 0 .. (n - 1) PROVE data'[p + 1] = data[p + 1]
  <2>1. p + 1 \in 1 .. n
    BY <1>3 DEF n
  <2>. QED
    BY <1>2, <2>1 DEF n
<1>. QED
  BY <1>2, <1>3, <1>4, <1>5 DEF n, m

LEMMA RelocsStayApart ==
  ASSUME TypeOK, NEW bytes, NEW g, Wrote(bytes, g)
  PROVE  \A r \in relocs' :
           /\ r.position \in 0 .. (Len(data') - 4)
           /\ \A s \in relocs' : s # r => s.position + 4 <= r.position \/ r.position + 4 <= s.position
<1>. DEFINE n == Len(data)
            x == [position |-> Len(data), global |-> g]
<1>1. n \in Nat /\ Len(bytes) \in Nat /\ Len(data') = n + Len(bytes)
  BY DataGrows
<1>2. \A r \in relocs :
        /\ r.position \in 0 .. (n - 4)
        /\ \A s \in relocs : s # r => s.position + 4 <= r.position \/ r.position + 4 <= s.position
  BY DEF TypeOK
<1>3. CASE g = NoGlobal
  <2>1. relocs' = relocs
    BY <1>3 DEF Wrote
  <2>. HIDE DEF n
  <2>. QED
    BY <1>1, <1>2, <2>1
<1>4. CASE g # NoGlobal
  <2>1. relocs' = relocs \cup {x} /\ Len(bytes) = 4 /\ x.position = n
    BY <1>4 DEF Wrote
  <2>. HIDE DEF n, x
  <2>. QED
    BY <1>1, <1>2, <2>1
<1>. QED
  BY <1>3, <1>4

LEMMA ContentsAre ==
  ASSUME NEW S, NEW p \in Nat, NEW r \in S, Covers(r, p), \A s \in S : Covers(s, p) => s = r
  PROVE  (CHOOSE s \in S : p \in s.position .. (s.position + 3)).global = r.global
         /\ \E s \in S : p \in s.position .. (s.position + 3)
  BY DEF Covers

Apart(rs) ==
  \A r \in rs :
    /\ r.position \in Nat
    /\ \A s \in rs : s # r => s.position + 4 <= r.position \/ r.position + 4 <= s.position

LEMMA ContentsOf ==
  ASSUME NEW d, NEW rs, Apart(rs), NEW p \in Nat
  PROVE  /\ \A r \in rs : Covers(r, p) => ContentsIn(d, rs, p) = Byte(d[p + 1], r.global)
         /\ (\A r \in rs : ~Covers(r, p)) => ContentsIn(d, rs, p) = Byte(d[p + 1], NoGlobal)
<1>1. ASSUME NEW r \in rs, Covers(r, p)
      PROVE  ContentsIn(d, rs, p) = Byte(d[p + 1], r.global)
  <2>1. ASSUME NEW s \in rs, Covers(s, p) PROVE s = r
    BY <1>1, <2>1 DEF Apart, Covers
  <2>2. (CHOOSE s \in rs : p \in s.position .. (s.position + 3)).global = r.global
        /\ \E s \in rs : p \in s.position .. (s.position + 3)
    BY <1>1, <2>1, ContentsAre
  <2>. QED
    BY <2>2 DEF ContentsIn
<1>2. ASSUME \A r \in rs : ~Covers(r, p)
      PROVE  ContentsIn(d, rs, p) = Byte(d[p + 1], NoGlobal)
  BY <1>2 DEF ContentsIn, Covers
<1>. QED
  BY <1>1, <1>2

(* What was written stays, and the new bytes are as written.                *)
LEMMA ImageGrows ==
  ASSUME TypeOK, NEW bytes, NEW g, Wrote(bytes, g)
  PROVE  /\ \A p \in 0 .. (Len(data) - 1) :
              ContentsIn(data', relocs', p) = ContentsIn(data, relocs, p)
         /\ \A p \in Len(data) .. (Len(data) + Len(bytes) - 1) :
              ContentsIn(data', relocs', p) = Byte(bytes[p - Len(data) + 1], g)
<1>. DEFINE n == Len(data)
            m == Len(bytes)
            x == [position |-> Len(data), global |-> g]
<1>1. /\ n \in Nat /\ m \in Nat
      /\ \A p \in 0 .. (n - 1) : data'[p + 1] = data[p + 1]
      /\ \A p \in n .. (n + m - 1) : data'[p + 1] = bytes[p - n + 1]
  BY DataGrows
<1>2. Apart(relocs) /\ \A r \in relocs : r.position \in Nat /\ r.position + 4 <= n
  BY DEF TypeOK, Apart
<1>3. Apart(relocs')
  BY RelocsStayApart, DataGrows DEF Apart
<1>4. x.position = n /\ x.global = g
  OBVIOUS
<1>5. /\ g = NoGlobal => relocs' = relocs
      /\ g # NoGlobal => relocs' = relocs \cup {x} /\ m = 4
  BY DEF Wrote
<1>. HIDE DEF n, m, x
<1>6. ASSUME NEW p \in 0 .. (n - 1)
      PROVE  ContentsIn(data', relocs', p) = ContentsIn(data, relocs, p)
  <2>1. p \in Nat /\ data'[p + 1] = data[p + 1] /\ ~Covers(x, p)
    BY <1>1, <1>4 DEF Covers
  <2>2. CASE \E r \in relocs : Covers(r, p)
    <3>1. PICK r \in relocs : Covers(r, p)
      BY <2>2
    <3>2. r \in relocs'
      BY <1>5
    <3>3. ContentsIn(data, relocs, p) = Byte(data[p + 1], r.global)
      BY <1>2, <2>1, <3>1, ContentsOf
    <3>4. ContentsIn(data', relocs', p) = Byte(data'[p + 1], r.global)
      BY <1>3, <2>1, <3>1, <3>2, ContentsOf
    <3>. QED
      BY <2>1, <3>3, <3>4
  <2>3. CASE \A r \in relocs : ~Covers(r, p)
    <3>1. \A r \in relocs' : ~Covers(r, p)
      BY <1>5, <2>1, <2>3
    <3>2. ContentsIn(data, relocs, p) = Byte(data[p + 1], NoGlobal)
      BY <1>2, <2>1, <2>3, ContentsOf
    <3>3. ContentsIn(data', relocs', p) = Byte(data'[p + 1], NoGlobal)
      BY <1>3, <2>1, <3>1, ContentsOf
    <3>. QED
      BY <2>1, <3>2, <3>3
  <2>. QED
    BY <2>2, <2>3
<1>7. ASSUME NEW p \in n .. (n + m - 1)
      PROVE  ContentsIn(data', relocs', p) = Byte(bytes[p - n + 1], g)
  <2>1. p \in Nat /\ data'[p + 1] = bytes[p - n + 1]
    BY <1>1
  <2>2. \A r \in relocs : ~Covers(r, p)
    BY <1>1, <1>2 DEF Covers
  <2>3. CASE g = NoGlobal
    <3>1. \A r \in relocs' : ~Covers(r, p)
      BY <1>5, <2>2, <2>3
    <3>2. ContentsIn(data', relocs', p) = Byte(data'[p + 1], NoGlobal)
      BY <1>3, <2>1, <3>1, ContentsOf
    <3>. QED
      BY <2>1, <2>3, <3>2
  <2>4. CASE g # NoGlobal
    <3>1. x \in relocs' /\ Covers(x, p)
      BY <1>1, <1>4, <1>5, <2>4 DEF Covers
    <3>2. ContentsIn(data', relocs', p) = Byte(data'[p + 1], x.global)
      BY <1>3, <2>1, <3>1, ContentsOf
    <3>. QED
      BY <1>4, <2>1, <3>2
  <2>. QED
    BY <2>3, <2>4
<1>. QED
  BY <1>6, <1>7 DEF n, m


--------------------------------------------------------------------------------
(* The invariant, step by step.                                             *)
LEMMA StartedFacts ==
  ASSUME Started
  PROVE  /\ Current \in Nat /\ DOMAIN globals = 1 .. Current
         /\ \A g \in 1 .. Current : globals[g] \in Nat /\ g \in DOMAIN prog
         /\ \A g \in 1 .. Current : prog[g].kind = "defined" =>
              prog[g].init \in Constants /\ AllocSize(prog[g].init.type) \in Nat
<1>1. Current \in Nat /\ DOMAIN globals = 1 .. Current /\ \A g \in 1 .. Current : globals[g] \in Nat
  BY DEF Started, Current
<1>2. \A g \in 1 .. Current : g \in DOMAIN prog
  BY <1>1 DEF Started
<1>3. ASSUME NEW g \in 1 .. Current, prog[g].kind = "defined"
      PROVE  prog[g].init \in Constants /\ AllocSize(prog[g].init.type) \in Nat
  <2>1. prog[g].init \in Constants
    BY <1>2, <1>3, ProgramsAssumption DEF Started
  <2>. QED
    BY <2>1, SizesAreNumbers
<1>. QED
  BY <1>1, <1>2, <1>3

(* A task that writes bytes: as many as it should, or fewer because it is   *)
(* data shorter than its type.                                              *)
Fills(bytes, t) ==
  \/ Len(bytes) = TaskSize(t) /\ (t.task = "write" => AllSized(t.const))
  \/ Len(bytes) < TaskSize(t) /\ t.task = "write" /\ ~AllSized(t.const)

LEMMA PutKeeps ==
  ASSUME IInv, outcome = "running", agenda # << >>, Head(agenda).task # "check",
         NEW bytes, NEW g, Wrote(bytes, g), Fills(bytes, Head(agenda)),
         agenda' = Tail(agenda), UNCHANGED <<prog, next, globals, outcome>>,
         \A c \in Constants, offset \in Nat :
           Prescribed(c) /\ Placed(Head(agenda), c, offset) =>
             \A j \in 0 .. (Len(bytes) - 1) : ByteOf[c][offset + j] = Byte(bytes[j + 1], g),
         Head(agenda).task = "write" => \A l \in Leaves[Head(agenda).const] : Supported(l)
  PROVE  IInv'
<1>. DEFINE n == Len(data)
            m == Len(bytes)
            h == Head(agenda)
            start == globals[Current]
<1>1. /\ TypeOK /\ StoppedShort /\ StopsAtUnsupported /\ Started /\ OnPlan /\ ImageSoFar /\ GoodSoFar
  BY DEF IInv
<1>2. /\ Current \in Nat /\ DOMAIN globals = 1 .. Current
      /\ \A x \in 1 .. Current : globals[x] \in Nat /\ x \in DOMAIN prog
      /\ \A x \in 1 .. Current : prog[x].kind = "defined" =>
           prog[x].init \in Constants /\ AllocSize(prog[x].init.type) \in Nat
  BY <1>1, StartedFacts
<1>3. /\ Current > 0 /\ prog[Current].kind = "defined"
      /\ agenda[Len(agenda)].end = start + AllocSize(Target.type)
      /\ \E at, from : Plan(agenda, at, Target, from) /\ Reached(from)
      /\ \A l \in Leaves[Target] : Supported(l) \/ Remains(agenda, l)
  BY <1>1 DEF OnPlan
<1>4. Current \in 1 .. Current /\ Target \in Constants /\ start \in Nat
  BY <1>2, <1>3 DEF Target
<1>5. agenda \in Seq(Tasks)
  BY <1>1 DEF Started
<1>6. PICK at, from : Plan(agenda, at, Target, from) /\ Reached(from)
  BY <1>3
<1>7. from \in Nat /\ Placed(h, Target, from) /\ h \in Tasks /\ TaskSize(h) \in Nat
  <2>1. from \in Nat /\ Placed(h, Target, from) /\ h \in Tasks
    BY <1>5, <1>6, PlanBegins
  <2>. QED
    BY <2>1, TaskFacts
<1>8. PICK z \in Nat : z = TaskSize(h)
  BY <1>7
<1>9. /\ \E a : Plan(Tail(agenda), a, Target, from + z)
      /\ Tail(agenda) \in Seq(Tasks) /\ Tail(agenda) # << >>
      /\ Tail(agenda)[Len(Tail(agenda))] = agenda[Len(agenda)]
  BY <1>5, <1>6, <1>8, PlanAdvances
<1>10. /\ data' \in Seq(0 .. (ByteValues - 1)) /\ Len(data') = n + m /\ n \in Nat /\ m \in Nat
  BY <1>1, DataGrows
<1>11. prog' = prog /\ next' = next /\ globals' = globals /\ outcome' = outcome
  OBVIOUS
<1>12. Current' = Current /\ Target' = Target
  BY <1>11 DEF Current, Target
<1>13. TypeOK'
  <2>1. \A r \in relocs' :
          /\ r.position \in 0 .. (Len(data') - 4)
          /\ \A s \in relocs' : s # r => s.position + 4 <= r.position \/ r.position + 4 <= s.position
    BY <1>1, RelocsStayApart
  <2>. QED
    BY <1>1, <1>10, <1>11, <2>1 DEF TypeOK
<1>14. StoppedShort' /\ StopsAtUnsupported'
  BY <1>1, <1>11 DEF StoppedShort, StopsAtUnsupported
<1>15. Started'
  BY <1>1, <1>9, <1>11 DEF Started
<1>16. OnPlan'
  <2>1. Reached(from + z)'
    <3>1. Length = n - start /\ Length' = (n + m) - start
      BY <1>10, <1>11, <1>12 DEF Length
    <3>2. h.task = "write" => Leaves[h.const] \subseteq Leaves[Target]
      BY <1>7 DEF Placed
    <3>3. ASSUME NEW l, Remains(agenda, l), h.task = "write" => AllSized(h.const), ~Sized(l)
          PROVE  Remains(agenda', l)
      <4>1. ~(h.task = "write" /\ l \in Leaves[h.const])
        BY <3>3 DEF AllSized
      <4>2. << >> \in Seq(Tasks)
        OBVIOUS
      <4>. QED
        BY <1>5, <3>3, <4>1, <4>2, RemainsAfter
    <3>4. \/ m = z /\ (h.task = "write" => AllSized(h.const))
          \/ m < z /\ h.task = "write" /\ ~AllSized(h.const)
      BY <1>8 DEF Fills
    <3>5. \/ from = n - start /\ \A l \in Leaves[Target] : Sized(l) \/ Remains(agenda, l)
          \/ from > n - start /\ ~AllSized(Target)
      BY <1>6, <3>1 DEF Reached
    <3>. HIDE DEF n, m, start, h
    <3>6. CASE from > n - start /\ ~AllSized(Target)
      <4>1. from + z > Length'
        BY <1>4, <1>7, <1>10, <3>1, <3>4, <3>6 DEF start
      <4>. QED
        BY <1>12, <3>6, <4>1 DEF Reached, AllSized
    <3>7. CASE m < z /\ h.task = "write" /\ ~AllSized(h.const)
      <4>1. from + z > Length'
        BY <1>4, <1>7, <1>10, <3>1, <3>5, <3>7 DEF start
      <4>2. ~AllSized(Target)
        BY <3>2, <3>7 DEF AllSized
      <4>. QED
        BY <1>12, <4>1, <4>2 DEF Reached, AllSized
    <3>8. CASE /\ from = n - start /\ \A l \in Leaves[Target] : Sized(l) \/ Remains(agenda, l)
               /\ m = z /\ (h.task = "write" => AllSized(h.const))
      <4>1. from + z = Length'
        BY <1>4, <1>7, <1>10, <3>1, <3>8 DEF start
      <4>2. \A l \in Leaves[Target] : Sized(l) \/ Remains(agenda', l)
        BY <3>3, <3>8
      <4>. QED
        BY <1>12, <4>1, <4>2 DEF Reached, Remains
    <3>. QED
      BY <3>4, <3>5, <3>6, <3>7, <3>8
  <2>2. agenda'[Len(agenda')].end = start + AllocSize(Target.type)
    BY <1>3, <1>9
  <2>3. ASSUME NEW l \in Leaves[Target], ~Supported(l) PROVE Remains(agenda', l)
    <3>1. Remains(agenda, l) /\ ~(h.task = "write" /\ l \in Leaves[h.const])
      BY <1>3, <2>3
    <3>2. << >> \in Seq(Tasks)
      OBVIOUS
    <3>. QED
      BY <1>5, <3>1, <3>2, RemainsAfter
  <2>4. \A l \in Leaves[Target] : Supported(l) \/ Remains(agenda', l)
    BY <2>3
  <2>5. globals'[Current'] = start /\ prog'[Current'] = prog[Current]
    BY <1>11, <1>12
  <2>. HIDE DEF start
  <2>. QED
    BY <1>3, <1>7, <1>9, <1>8, <1>12, <2>1, <2>2, <2>4, <2>5 DEF OnPlan
<1>17. \A x : Complete(x)' => x < Current
  BY <1>9, <1>12 DEF Complete
<1>18. GoodSoFar'
  <2>1. ASSUME NEW x \in DOMAIN globals, x < Current
        PROVE  Good(prog[x]) /\ (prog[x].kind = "defined" => AllSized(prog[x].init))
    BY <1>1, <2>1 DEF GoodSoFar, Complete
  <2>. QED
    BY <1>11, <1>17, <2>1 DEF GoodSoFar
<1>19. ASSUME NEW x \in DOMAIN globals, prog[x].kind = "defined"
       PROVE  /\ globals[x] <= Len(data')
              /\ x < Current => globals[x] + AllocSize(prog[x].init.type) <= Len(data')
              /\ Shows(data', relocs', prog[x].init, globals[x])
  <2>. DEFINE init == prog[x].init
              size == AllocSize(init.type)
              a == globals[x]
  <2>1. a <= n /\ (x < Current => a + size <= n) /\ Shows(data, relocs, init, a)
    BY <1>1, <1>19 DEF ImageSoFar, Complete
  <2>2. a \in Nat /\ init \in Constants /\ size \in Nat /\ x \in 1 .. Current
    BY <1>2, <1>19
  <2>3. ASSUME Prescribed(init), NEW k \in 0 .. (size - 1), a + k < Len(data')
        PROVE  ContentsIn(data', relocs', a + k) = ByteOf[init][k]
    <3>. DEFINE p == a + k
    <3>1. p \in Nat /\ p < n + m
      BY <1>10, <2>2, <2>3
    <3>2. CASE p < n
      <4>1. ContentsIn(data, relocs, p) = ByteOf[init][k]
        BY <2>1, <2>3, <3>2 DEF Shows
      <4>2. p \in 0 .. (n - 1)
        BY <1>10, <3>1, <3>2
      <4>. HIDE DEF p
      <4>3. ContentsIn(data', relocs', p) = ContentsIn(data, relocs, p)
        BY <1>1, <4>2, ImageGrows
      <4>. QED
        BY <4>1, <4>3 DEF p
    <3>3. CASE p >= n
      <4>1. x = Current
        BY <1>2, <1>10, <2>1, <2>2, <3>3
      <4>2. init = Target /\ a = start
        BY <4>1 DEF Target
      <4>. DEFINE j == p - n
      <4>3. j \in 0 .. (m - 1) /\ k = (n - start) + j /\ p \in n .. (n + m - 1)
        <5>1. k \in Int /\ p = start + k /\ start \in Int /\ n \in Int /\ m \in Int
              /\ n <= p /\ p < n + m
          BY <1>4, <1>10, <2>2, <3>1, <3>3, <4>2
        <5>. HIDE DEF start, n, m, p
        <5>. QED
          BY <5>1
      <4>4. ByteOf[Target][(n - start) + j] = Byte(bytes[j + 1], g)
        <5>. DEFINE o == n - start
        <5>1. o \in Nat /\ Placed(h, Target, o) /\ Prescribed(Target)
          <6>1. Prescribed(Target)
            BY <2>3, <4>2
          <6>2. from = o
            BY <1>6, <6>1 DEF Reached, Length, Prescribed
          <6>. QED
            BY <1>7, <6>1, <6>2
        <5>. HIDE DEF j, o
        <5>2. \A i \in 0 .. (m - 1) : ByteOf[Target][o + i] = Byte(bytes[i + 1], g)
          BY <1>4, <5>1
        <5>. QED
          BY <4>3, <5>2 DEF o
      <4>5. ContentsIn(data', relocs', p) = Byte(bytes[p - n + 1], g)
        <5>. HIDE DEF p
        <5>. QED
          BY <1>1, <4>3, ImageGrows
      <4>. QED
        BY <4>2, <4>3, <4>4, <4>5
    <3>. QED
      BY <1>10, <3>1, <3>2, <3>3
  <2>. QED
    BY <1>10, <2>1, <2>2, <2>3 DEF Shows
<1>20. ImageSoFar'
  BY <1>11, <1>17, <1>19 DEF ImageSoFar
<1>. QED
  BY <1>13, <1>14, <1>15, <1>16, <1>18, <1>20 DEF IInv

(* A constant is replaced by its parts.                                     *)
LEMMA DescendKeeps ==
  ASSUME IInv, outcome = "running", agenda # << >>, Head(agenda).task = "write",
         NEW new, \E offset : Split(new, offset, Head(agenda).const),
         \A l \in Leaves[Head(agenda).const] : Remains(new, l),
         agenda' = new \o Tail(agenda),
         UNCHANGED <<prog, next, data, relocs, globals, outcome>>
  PROVE  IInv'
<1>. DEFINE h == Head(agenda)
            start == globals[Current]
<1>1. /\ TypeOK /\ StoppedShort /\ StopsAtUnsupported /\ Started /\ OnPlan /\ ImageSoFar /\ GoodSoFar
  BY DEF IInv
<1>2. /\ Current > 0 /\ prog[Current].kind = "defined"
      /\ agenda[Len(agenda)].end = start + AllocSize(Target.type)
      /\ \E at, from : Plan(agenda, at, Target, from) /\ Reached(from)
      /\ \A l \in Leaves[Target] : Supported(l) \/ Remains(agenda, l)
  BY <1>1 DEF OnPlan
<1>3. agenda \in Seq(Tasks)
  BY <1>1 DEF Started
<1>4. PICK at, from : Plan(agenda, at, Target, from) /\ Reached(from)
  BY <1>2
<1>5. PICK offset : Split(new, offset, h.const)
  OBVIOUS
<1>6. /\ \E a : Plan(agenda', a, Target, from)
      /\ agenda' \in Seq(Tasks) /\ agenda' # << >>
      /\ agenda'[Len(agenda')] = agenda[Len(agenda)]
  BY <1>3, <1>4, <1>5, PlanDescends
<1>7. new \in Seq(Tasks) /\ Tail(agenda) \in Seq(Tasks)
  BY <1>3, <1>5 DEF Split
<1>8. /\ \A l \in Leaves[Target] : Supported(l) \/ Remains(agenda', l)
      /\ \A l \in Leaves[Target] : Remains(agenda, l) => Remains(agenda', l)
  <2>1. ASSUME NEW l, Remains(agenda, l) PROVE Remains(agenda', l)
    <3>1. CASE l \in Leaves[h.const]
      BY <1>7, <3>1, RemainsNew
    <3>2. CASE l \notin Leaves[h.const]
      BY <1>3, <1>7, <2>1, <3>2, RemainsAfter
    <3>. QED
      BY <3>1, <3>2
  <2>. QED
    BY <1>2, <2>1
<1>9. /\ prog' = prog /\ next' = next /\ globals' = globals /\ outcome' = outcome
      /\ data' = data /\ relocs' = relocs /\ Current' = Current /\ Target' = Target
  BY DEF Current, Target
<1>10. TypeOK' /\ StoppedShort' /\ StopsAtUnsupported'
  BY <1>1, <1>9 DEF TypeOK, StoppedShort, StopsAtUnsupported
<1>11. Started'
  BY <1>1, <1>6, <1>9 DEF Started
<1>12. OnPlan'
  <2>1. /\ Length' = Length /\ prog'[Current'] = prog[Current]
        /\ agenda'[Len(agenda')].end = start + AllocSize(Target.type) /\ globals'[Current'] = start
    BY <1>2, <1>6, <1>9 DEF Length
  <2>2. Reached(from)'
    BY <1>4, <1>8, <1>9, <2>1 DEF Reached, AllSized
  <2>. HIDE DEF start
  <2>. QED
    BY <1>2, <1>6, <1>8, <1>9, <2>1, <2>2 DEF OnPlan
<1>13. \A x : Complete(x)' <=> Complete(x)
  BY <1>6, <1>9 DEF Complete
<1>14. ImageSoFar' /\ GoodSoFar'
  BY <1>1, <1>9, <1>13 DEF ImageSoFar, GoodSoFar
<1>. QED
  BY <1>10, <1>11, <1>12, <1>14 DEF IInv

(* translate() stops.                                                       *)
LEMMA StopKeeps ==
  ASSUME IInv, NEW o, outcome' = o, o \in {"done", "global", "constant", "size"},
         UNCHANGED <<prog, next, agenda, data, relocs, globals>>,
         o = "global" => ~Good(prog[next]),
         o = "constant" => ~Good(prog[next - 1]),
         o = "size" => ~AllSized(prog[next - 1].init),
         o = "done" => \A g \in DOMAIN prog : Good(prog[g])
  PROVE  IInv'
<1>1. /\ TypeOK /\ StoppedShort /\ StopsAtUnsupported /\ Started /\ OnPlan /\ ImageSoFar /\ GoodSoFar
  BY DEF IInv
<1>2. /\ prog' = prog /\ next' = next /\ globals' = globals /\ agenda' = agenda
      /\ data' = data /\ relocs' = relocs
  OBVIOUS
<1>3. /\ Current' = Current /\ Target' = Target
  BY <1>2 DEF Current, Target
<1>4. TypeOK' /\ StoppedShort' /\ StopsAtUnsupported'
  BY <1>1, <1>2 DEF TypeOK, StoppedShort, StopsAtUnsupported
<1>5. Started' /\ OnPlan'
  BY <1>1, <1>2, <1>3 DEF Started, OnPlan, Reached, Length
<1>6. \A x : Complete(x)' <=> Complete(x)
  BY <1>2, <1>3 DEF Complete
<1>7. ImageSoFar' /\ GoodSoFar'
  BY <1>1, <1>2, <1>6 DEF ImageSoFar, GoodSoFar
<1>. QED
  BY <1>4, <1>5, <1>7 DEF IInv

LEMMA Appended ==
  ASSUME NEW S, NEW s \in Seq(S), NEW x \in S
  PROVE  /\ Append(s, x) \in Seq(S) /\ Len(Append(s, x)) = Len(s) + 1 /\ Len(s) \in Nat
         /\ DOMAIN Append(s, x) = 1 .. (Len(s) + 1) /\ DOMAIN s = 1 .. Len(s)
         /\ \A i \in 1 .. Len(s) : Append(s, x)[i] = s[i]
         /\ Append(s, x)[Len(s) + 1] = x
  OBVIOUS

(* A global is started: its address is given, and unless it is zero because *)
(* the global is a weak one of the linker, what is to be written is planned.*)
LEMMA StartKeeps ==
  ASSUME IInv, agenda = << >>, next <= Len(prog), ~prog[next].threadLocal,
         NEW address \in Nat, NEW plan, Define(address), next' = next + 1, agenda' = plan,
         UNCHANGED <<prog, data, relocs, outcome>>, outcome = "running",
         \/ /\ prog[next].kind = "linker_weak" /\ plan = << >>
         \/ /\ prog[next].kind = "defined" /\ address = Len(data)
            /\ plan = << [task |-> "write", const |-> prog[next].init],
                         [task |-> "check", end |-> Len(data) + AllocSize(prog[next].init.type)] >>
  PROVE  IInv'
<1>. DEFINE g == next
            init == prog[g].init
            size == AllocSize(init.type)
            n == Len(data)
<1>1. /\ TypeOK /\ StoppedShort /\ StopsAtUnsupported /\ Started /\ ImageSoFar /\ GoodSoFar
  BY DEF IInv
<1>2. /\ Current \in Nat /\ DOMAIN globals = 1 .. Current
      /\ \A x \in 1 .. Current : globals[x] \in Nat /\ x \in DOMAIN prog
  BY <1>1, StartedFacts
<1>3. g = Current + 1 /\ n \in Nat
  BY <1>1 DEF TypeOK, Current
<1>4. g \in DOMAIN prog
  BY <1>1, <1>2, <1>3, ProgramsAssumption DEF Started
<1>5. prog[g].kind = "defined" => init \in Constants /\ size \in Nat
  BY <1>1, <1>4, ProgramsAssumption, SizesAreNumbers DEF Started
<1>6. /\ globals' \in Seq(Nat) /\ Current' = g /\ DOMAIN globals' = 1 .. g
      /\ \A x \in 1 .. Current : globals'[x] = globals[x]
      /\ globals'[g] = address
  <2>1. globals \in Seq(Nat) /\ globals' = Append(globals, address)
    BY <1>1 DEF Started, Define
  <2>. QED
    BY <1>3, <2>1, Appended DEF Current
<1>7. /\ prog' = prog /\ next' = next + 1 /\ outcome' = outcome /\ data' = data /\ relocs' = relocs
      /\ agenda' = plan
  OBVIOUS
<1>8. Len(globals') = g
  BY <1>6 DEF Current
<1>9. TypeOK' /\ StoppedShort'
  BY <1>1, <1>7, <1>8 DEF TypeOK, StoppedShort
<1>10. StopsAtUnsupported'
  BY <1>7 DEF StopsAtUnsupported
<1>11. Target' = init
  BY <1>6, <1>7 DEF Target
<1>12. CASE prog[g].kind = "linker_weak" /\ plan = << >>
  <2>1. Started'
    BY <1>1, <1>2, <1>3, <1>4, <1>6, <1>7, <1>12 DEF Started
  <2>2. OnPlan'
    BY <1>7, <1>12 DEF OnPlan
  <2>3. Good(prog[g]) /\ prog[g].kind # "defined"
    BY <1>12 DEF Good
  <2>4. ImageSoFar'
    <3>1. ASSUME NEW x \in 1 .. g, prog[x].kind = "defined"
          PROVE  /\ globals'[x] <= n
                 /\ globals'[x] + AllocSize(prog[x].init.type) <= n
                 /\ Shows(data, relocs, prog[x].init, globals'[x])
      <4>1. x \in 1 .. Current
        BY <1>2, <1>3, <1>12, <3>1
      <4>. QED
        BY <1>1, <1>2, <1>6, <3>1, <4>1 DEF ImageSoFar, Complete
    <3>. QED
      BY <1>6, <1>7, <3>1 DEF ImageSoFar
  <2>5. GoodSoFar'
    BY <1>1, <1>2, <1>3, <1>6, <1>7, <2>3 DEF GoodSoFar, Complete
  <2>. QED
    BY <1>9, <1>10, <2>1, <2>2, <2>4, <2>5 DEF IInv
<1>13. CASE /\ prog[g].kind = "defined" /\ address = n
            /\ plan = << [task |-> "write", const |-> init], [task |-> "check", end |-> n + size] >>
  <2>. DEFINE w == [task |-> "write", const |-> init]
              e == [task |-> "check", end |-> n + size]
              at == << 0, size >>
  <2>1. w \in Tasks /\ e \in Tasks
    BY <1>3, <1>5, <1>13 DEF Tasks
  <2>2. w.task = "write" /\ w.const = init /\ e.task = "check" /\ e.end = n + size
    OBVIOUS
  <2>. HIDE DEF w, e
  <2>3. plan = << w, e >> /\ plan \in Seq(Tasks) /\ Len(plan) = 2 /\ plan # << >>
        /\ plan[1] = w /\ plan[2] = e /\ DOMAIN plan = 1 .. 2
    BY <1>13, <2>1 DEF w, e
  <2>4. Started'
    BY <1>1, <1>2, <1>3, <1>4, <1>6, <1>7, <1>13, <2>3 DEF Started
  <2>5. Placed(w, init, 0)
    <3>1. \A j \in 0 .. (size - 1) : ByteOf[init][0 + j] = ByteOf[init][j]
      <4>1. \A j \in 0 .. (size - 1) : 0 + j = j
        BY <1>5, <1>13
      <4>. QED
        BY <4>1
    <3>. QED
      BY <2>2, <3>1 DEF Placed
  <2>6. TaskSize(w) = size
    BY <2>2 DEF TaskSize
  <2>7. Plan(plan, at, init, 0)
    <3>1. at \in [1 .. 2 -> Nat] /\ at[1] = 0 /\ at[2] = size
      BY <1>5, <1>13
    <3>. HIDE DEF at, size
    <3>2. \A k \in 1 .. (2 - 1) : k = 1
      OBVIOUS
    <3>3. at[1 + 1] = at[1] + TaskSize(plan[1])
      BY <1>5, <1>13, <2>3, <2>6, <3>1
    <3>. QED
      BY <2>2, <2>3, <2>5, <3>1, <3>2, <3>3 DEF Plan, size
  <2>. HIDE DEF at
  <2>8. \A l \in Leaves[init] : Remains(plan, l)
    BY <2>2, <2>3 DEF Remains
  <2>9. OnPlan'
    <3>1. Length' = 0 /\ Current' > 0 /\ prog'[Current'].kind = "defined"
      BY <1>2, <1>3, <1>6, <1>7, <1>13 DEF Length
    <3>2. agenda'[Len(agenda')].end = globals'[Current'] + AllocSize(Target'.type)
      BY <1>6, <1>7, <1>11, <1>13, <2>2, <2>3
    <3>. HIDE DEF init, size, n, g
    <3>3. Reached(0)'
      BY <1>7, <1>11, <2>8, <3>1 DEF Reached
    <3>. QED
      BY <1>7, <1>11, <2>7, <2>8, <3>1, <3>2, <3>3 DEF OnPlan
  <2>10. \A x : Complete(x)' <=> x < g
    BY <1>6, <1>7, <2>3 DEF Complete
  <2>11. Shows(data, relocs, init, n)
    BY <1>3, <1>5, <1>13 DEF Shows
  <2>12. ImageSoFar'
    <3>1. ASSUME NEW x \in 1 .. g, prog[x].kind = "defined"
          PROVE  /\ globals'[x] <= n
                 /\ x < g => globals'[x] + AllocSize(prog[x].init.type) <= n
                 /\ Shows(data, relocs, prog[x].init, globals'[x])
      <4>1. CASE x = g
        BY <1>3, <1>6, <1>13, <2>11, <4>1
      <4>2. CASE x # g
        <5>1. x \in 1 .. Current
          BY <1>2, <1>3, <4>2
        <5>. QED
          BY <1>1, <1>2, <1>6, <3>1, <5>1 DEF ImageSoFar, Complete
      <4>. QED
        BY <4>1, <4>2
    <3>. QED
      BY <1>6, <1>7, <2>10, <3>1 DEF ImageSoFar
  <2>13. GoodSoFar'
    <3>1. ASSUME NEW x \in 1 .. g, x < g
          PROVE  Good(prog[x]) /\ (prog[x].kind = "defined" => AllSized(prog[x].init))
      <4>1. x \in 1 .. Current
        BY <1>2, <1>3, <3>1
      <4>. QED
        BY <1>1, <1>2, <4>1 DEF GoodSoFar, Complete
    <3>. QED
      BY <1>6, <1>7, <2>10, <3>1 DEF GoodSoFar
  <2>. QED
    BY <1>9, <1>10, <2>4, <2>9, <2>12, <2>13 DEF IInv
<1>. QED
  BY <1>12, <1>13

LEMMA HeadFacts ==
  ASSUME IInv, agenda # << >>
  PROVE  /\ Head(agenda) \in Tasks /\ Current > 0 /\ prog[Current].kind = "defined" /\ ~prog[Current].threadLocal
         /\ Head(agenda).task = "write" => Leaves[Head(agenda).const] \subseteq Leaves[Target]
         /\ Head(agenda).task = "check" =>
              /\ Tail(agenda) = << >> /\ Head(agenda).end = globals[Current] + AllocSize(Target.type)
              /\ Len(data) = Head(agenda).end <=> AllSized(Target)
              /\ \A l \in Leaves[Target] : Supported(l)
<1>. DEFINE start == globals[Current]
            size == AllocSize(Target.type)
            h == Head(agenda)
            n == Len(data)
<1>1. /\ TypeOK /\ Started /\ OnPlan
  BY DEF IInv
<1>2. /\ Current > 0 /\ prog[Current].kind = "defined"
      /\ agenda[Len(agenda)].end = start + size
      /\ \E at, from : Plan(agenda, at, Target, from) /\ Reached(from)
      /\ \A l \in Leaves[Target] : Supported(l) \/ Remains(agenda, l)
  BY <1>1 DEF OnPlan
<1>3. Current \in Nat /\ Current \in DOMAIN globals /\ start \in Nat /\ size \in Nat
  BY <1>1, <1>2, StartedFacts DEF Target
<1>4. ~prog[Current].threadLocal
  BY <1>1, <1>3 DEF Started
<1>5. agenda \in Seq(Tasks)
  BY <1>1 DEF Started
<1>6. PICK at, from : Plan(agenda, at, Target, from) /\ Reached(from)
  BY <1>2
<1>7. /\ h = agenda[1] /\ h \in Tasks
      /\ h.task = "check" => Len(agenda) = 1 /\ from = size
      /\ h.task # "check" => Placed(h, Target, from)
  BY <1>5, <1>6, PlanBegins
<1>8. h.task = "write" => Leaves[h.const] \subseteq Leaves[Target]
  BY <1>7 DEF Placed
<1>9. ASSUME h.task = "check"
      PROVE  /\ Tail(agenda) = << >> /\ h.end = start + size
             /\ n = h.end <=> AllSized(Target)
             /\ \A l \in Leaves[Target] : Supported(l)
  <2>1. Len(agenda) = 1 /\ from = size
    BY <1>7, <1>9
  <2>2. n \in Nat
    BY <1>1 DEF TypeOK
  <2>3. Tail(agenda) = << >>
    <3>1. \A s \in Seq(Tasks) : Len(s) = 1 => Tail(s) \in Seq(Tasks) /\ Len(Tail(s)) = 0
      OBVIOUS
    <3>2. \A s \in Seq(Tasks) : Len(s) = 0 => s = << >>
      OBVIOUS
    <3>. QED
      BY <1>5, <2>1, <3>1, <3>2, Zenon
  <2>4. h.end = start + size
    <3>. HIDE DEF start, size
    <3>. QED
      BY <1>2, <1>7, <2>1
  <2>5. \A l : ~Remains(agenda, l)
    <3>1. DOMAIN agenda = {1}
      BY <1>5, <2>1
    <3>. QED
      BY <1>7, <1>9, <3>1 DEF Remains
  <2>6. (size = n - start /\ AllSized(Target)) \/ (size > n - start /\ ~AllSized(Target))
    BY <1>6, <2>1, <2>5 DEF Reached, Length, AllSized
  <2>7. n = h.end <=> AllSized(Target)
    <3>. HIDE DEF n, start, size
    <3>. QED
      BY <1>3, <2>2, <2>4, <2>6 DEF start, size
  <2>. QED
    BY <1>2, <2>3, <2>4, <2>5, <2>7
<1>. QED
  BY <1>2, <1>4, <1>7, <1>8, <1>9

LEMMA CheckKeeps ==
  ASSUME IInv, CheckSize
  PROVE  IInv'
<1>1. /\ TypeOK /\ StoppedShort /\ StopsAtUnsupported /\ Started /\ OnPlan /\ ImageSoFar /\ GoodSoFar
  BY DEF IInv
<1>2. outcome = "running" /\ agenda # << >> /\ Head(agenda).task = "check"
  BY DEF CheckSize
<1>3. /\ Current > 0 /\ prog[Current].kind = "defined" /\ ~prog[Current].threadLocal
      /\ Tail(agenda) = << >> /\ Head(agenda).end = globals[Current] + AllocSize(Target.type)
      /\ Len(data) = Head(agenda).end <=> AllSized(Target)
      /\ \A l \in Leaves[Target] : Supported(l)
  BY <1>2, HeadFacts
<1>4. CASE Len(data) = Head(agenda).end
  <2>1. /\ prog' = prog /\ next' = next /\ globals' = globals /\ agenda' = << >>
        /\ data' = data /\ relocs' = relocs /\ outcome' = outcome
    BY <1>3, <1>4 DEF CheckSize
  <2>2. Current' = Current /\ Current \in Nat /\ DOMAIN globals = 1 .. Current
    BY <1>1, <2>1, StartedFacts DEF Current
  <2>3. TypeOK' /\ StoppedShort' /\ StopsAtUnsupported'
    BY <1>1, <2>1 DEF TypeOK, StoppedShort, StopsAtUnsupported
  <2>4. Started' /\ OnPlan'
    BY <1>1, <2>1 DEF Started, OnPlan
  <2>5. Good(prog[Current]) /\ AllSized(prog[Current].init)
    BY <1>3, <1>4 DEF Good, Target
  <2>6. ASSUME NEW x \in DOMAIN globals
        PROVE  /\ Good(prog[x])
               /\ prog[x].kind = "defined" => /\ AllSized(prog[x].init)
                                              /\ globals[x] + AllocSize(prog[x].init.type) <= Len(data)
    <3>1. CASE x = Current
      <4>1. Len(data) \in Nat
        BY <1>1 DEF TypeOK
      <4>. QED
        BY <1>3, <1>4, <2>5, <3>1, <4>1 DEF Target
    <3>2. CASE x # Current
      <4>1. x < Current
        BY <2>2, <3>2
      <4>. QED
        BY <1>1, <4>1 DEF GoodSoFar, ImageSoFar, Complete
    <3>. QED
      BY <3>1, <3>2
  <2>7. ImageSoFar' /\ GoodSoFar'
    BY <1>1, <2>1, <2>6 DEF ImageSoFar, GoodSoFar
  <2>. QED
    BY <2>3, <2>4, <2>7 DEF IInv
<1>5. CASE Len(data) # Head(agenda).end
  <2>1. outcome' = "size" /\ UNCHANGED <<prog, next, agenda, data, relocs, globals>>
    BY <1>5 DEF CheckSize, Fail
  <2>2. ~AllSized(prog[next - 1].init)
    <3>1. next - 1 = Current
      BY <1>1 DEF TypeOK, Current
    <3>. QED
      BY <1>3, <1>5, <3>1 DEF Target
  <2>. QED
    BY <2>1, <2>2, StopKeeps
<1>. QED
  BY <1>4, <1>5

LEMMA WriteFacts ==
  ASSUME IInv, NEW kinds, Write(kinds)
  PROVE  /\ outcome = "running" /\ agenda # << >> /\ Head(agenda).task = "write"
         /\ Const = Head(agenda).const /\ Const \in Constants /\ Const.kind \in kinds
         /\ AllocSize(Const.type) \in Nat /\ TaskSize(Head(agenda)) = AllocSize(Const.type)
         /\ \A c, offset : Placed(Head(agenda), c, offset) =>
              /\ Leaves[Const] \subseteq Leaves[c]
              /\ \A j \in 0 .. (AllocSize(Const.type) - 1) : ByteOf[c][offset + j] = ByteOf[Const][j]
<1>1. outcome = "running" /\ agenda # << >> /\ Head(agenda).task = "write" /\ Const.kind \in kinds
  BY DEF Write, Const
<1>2. Head(agenda) \in Tasks
  BY <1>1, HeadFacts
<1>3. Head(agenda).const \in Constants /\ TaskSize(Head(agenda)) = AllocSize(Head(agenda).const.type)
  BY <1>1, <1>2, TaskFacts
<1>4. AllocSize(Head(agenda).const.type) \in Nat
  BY <1>3, SizesAreNumbers
<1>. QED
  BY <1>1, <1>3, <1>4 DEF Const, Placed

LEMMA ZerosAreBytes ==
  ASSUME NEW n \in Nat
  PROVE  /\ Zeros(n) \in Seq(0 .. (ByteValues - 1)) /\ Len(Zeros(n)) = n
         /\ \A j \in 0 .. (n - 1) : Zeros(n)[j + 1] = 0
<1>1. 0 \in 0 .. (ByteValues - 1)
  BY ByteAssumption
<1>2. \A j \in 0 .. (n - 1) : j + 1 \in 1 .. n
  OBVIOUS
<1>. QED
  BY <1>1, <1>2 DEF Zeros

LEMMA ZeroKeeps ==
  ASSUME IInv, WriteZero
  PROVE  IInv'
<1>. DEFINE h == Head(agenda)
<1>1. Write({"zero"})
  BY DEF WriteZero
<1>2. /\ outcome = "running" /\ agenda # << >> /\ h.task = "write"
      /\ Const = h.const /\ Const \in Constants /\ Const.kind = "zero"
      /\ AllocSize(Const.type) \in Nat /\ TaskSize(h) = AllocSize(Const.type)
      /\ \A c, offset : Placed(h, c, offset) =>
           /\ Leaves[Const] \subseteq Leaves[c]
           /\ \A j \in 0 .. (AllocSize(Const.type) - 1) : ByteOf[c][offset + j] = ByteOf[Const][j]
  BY <1>1, WriteFacts
<1>3. PICK n \in Nat : n = AllocSize(Const.type)
  BY <1>2
<1>4. PICK bytes : bytes = Zeros(n)
  OBVIOUS
<1>5. /\ bytes \in Seq(0 .. (ByteValues - 1)) /\ Len(bytes) = n
      /\ \A j \in 0 .. (n - 1) : bytes[j + 1] = 0
  BY <1>4, ZerosAreBytes
<1>6. /\ data' = data \o bytes /\ agenda' = Tail(agenda) /\ relocs' = relocs
      /\ UNCHANGED <<prog, next, globals, outcome>>
  BY <1>3, <1>4 DEF WriteZero, Put
<1>7. Wrote(bytes, NoGlobal)
  BY <1>5, <1>6 DEF Wrote
<1>8. \A j \in 0 .. (n - 1) : ByteOf[Const][j] = Byte(0, NoGlobal)
  BY <1>2, <1>3, ZeroBytes
<1>9. ASSUME NEW c \in Constants, NEW offset \in Nat, Prescribed(c), Placed(h, c, offset),
             NEW j \in 0 .. (Len(bytes) - 1)
      PROVE  ByteOf[c][offset + j] = Byte(bytes[j + 1], NoGlobal)
  BY <1>2, <1>3, <1>5, <1>8, <1>9
<1>10. Fills(bytes, h) /\ h.task # "check" /\ \A l \in Leaves[h.const] : Supported(l)
  <2>1. AllSized(Const) /\ \A l \in Leaves[Const] : Supported(l)
    BY <1>2, NotScalarIsSupported DEF Sized
  <2>. QED
    BY <1>2, <1>3, <1>5, <2>1 DEF Fills
<1>11. outcome = "running" /\ agenda # << >>
  BY <1>2
<1>. QED
  BY <1>6, <1>7, <1>9, <1>10, <1>11, PutKeeps

LEMMA DataKeeps ==
  ASSUME IInv, WriteData
  PROVE  IInv'
<1>. DEFINE h == Head(agenda)
<1>1. Write({"data"})
  BY DEF WriteData
<1>2. /\ outcome = "running" /\ agenda # << >> /\ h.task = "write"
      /\ Const = h.const /\ Const \in Constants /\ Const.kind = "data"
      /\ AllocSize(Const.type) \in Nat /\ TaskSize(h) = AllocSize(Const.type)
      /\ \A c, offset : Placed(h, c, offset) =>
           /\ Leaves[Const] \subseteq Leaves[c]
           /\ \A j \in 0 .. (AllocSize(Const.type) - 1) : ByteOf[c][offset + j] = ByteOf[Const][j]
  BY <1>1, WriteFacts
<1>3. PICK n \in Nat : n = RawSize(Const) /\ n <= AllocSize(Const.type)
  BY <1>2, DataFacts
<1>4. PICK bytes : bytes = RawData(Const)
  OBVIOUS
<1>5. /\ bytes \in Seq(0 .. (ByteValues - 1)) /\ Len(bytes) = n
      /\ \A j \in 0 .. (n - 1) : ByteOf[Const][j] = Byte(bytes[j + 1], NoGlobal)
  BY <1>2, <1>3, <1>4, DataBytes
<1>6. /\ data' = data \o bytes /\ agenda' = Tail(agenda) /\ relocs' = relocs
      /\ UNCHANGED <<prog, next, globals, outcome>>
  BY <1>4 DEF WriteData, Put, RawData
<1>7. Wrote(bytes, NoGlobal)
  BY <1>5, <1>6 DEF Wrote
<1>9. ASSUME NEW c \in Constants, NEW offset \in Nat, Prescribed(c), Placed(h, c, offset),
             NEW j \in 0 .. (Len(bytes) - 1)
      PROVE  ByteOf[c][offset + j] = Byte(bytes[j + 1], NoGlobal)
  <2>1. j \in 0 .. (n - 1) /\ j \in 0 .. (AllocSize(Const.type) - 1)
    BY <1>2, <1>3, <1>5
  <2>. QED
    BY <1>2, <1>5, <1>9, <2>1
<1>10. Fills(bytes, h) /\ h.task # "check" /\ \A l \in Leaves[h.const] : Supported(l)
  <2>1. \A l \in Leaves[Const] : Supported(l)
    BY <1>2, NotScalarIsSupported
  <2>2. AllSized(Const) <=> n = AllocSize(Const.type)
    BY <1>2, <1>3, NotScalarIsSupported DEF Sized
  <2>3. n = AllocSize(Const.type) \/ n < AllocSize(Const.type)
    BY <1>2, <1>3
  <2>. QED
    BY <1>2, <1>5, <2>1, <2>2, <2>3 DEF Fills
<1>11. outcome = "running" /\ agenda # << >>
  BY <1>2
<1>. QED
  BY <1>6, <1>7, <1>9, <1>10, <1>11, PutKeeps

LEMMA PaddingKeeps ==
  ASSUME IInv, WritePadding
  PROVE  IInv'
<1>. DEFINE h == Head(agenda)
<1>1. outcome = "running" /\ agenda # << >> /\ h.task = "pad"
  BY DEF WritePadding
<1>2. h \in Tasks
  BY <1>1, HeadFacts
<1>3. PICK n \in Nat : n = h.size /\ TaskSize(h) = n
  BY <1>1, <1>2, TaskFacts
<1>4. PICK bytes : bytes = Zeros(n)
  OBVIOUS
<1>5. /\ bytes \in Seq(0 .. (ByteValues - 1)) /\ Len(bytes) = n
      /\ \A j \in 0 .. (n - 1) : bytes[j + 1] = 0
  BY <1>4, ZerosAreBytes
<1>6. /\ data' = data \o bytes /\ agenda' = Tail(agenda) /\ relocs' = relocs
      /\ UNCHANGED <<prog, next, globals, outcome>>
  BY <1>3, <1>4 DEF WritePadding, Put
<1>7. Wrote(bytes, NoGlobal)
  BY <1>5, <1>6 DEF Wrote
<1>8. ASSUME NEW c \in Constants, NEW offset \in Nat, Prescribed(c), Placed(h, c, offset),
             NEW j \in 0 .. (Len(bytes) - 1)
      PROVE  ByteOf[c][offset + j] = Byte(bytes[j + 1], NoGlobal)
  <2>1. j \in 0 .. (n - 1) /\ bytes[j + 1] = 0
    BY <1>5, <1>8
  <2>. QED
    BY <1>1, <1>3, <1>8, <2>1 DEF Placed
<1>9. Fills(bytes, h)
  BY <1>1, <1>3, <1>5 DEF Fills
<1>. QED
  BY <1>1, <1>6, <1>7, <1>8, <1>9, PutKeeps

LEMMA ArrayKeeps ==
  ASSUME IInv, WriteArray
  PROVE  IInv'
<1>1. Write({"array"})
  BY DEF WriteArray
<1>2. /\ outcome = "running" /\ agenda # << >> /\ Head(agenda).task = "write"
      /\ Const = Head(agenda).const /\ Const \in Constants /\ Const.kind = "array"
  BY <1>1, WriteFacts
<1>3. PICK new : new = ArrayTasks(Const)
  OBVIOUS
<1>4. /\ \E offset : Split(new, offset, Head(agenda).const)
      /\ \A l \in Leaves[Head(agenda).const] : Remains(new, l)
  BY <1>2, <1>3, ArraySplits
<1>5. agenda' = new \o Tail(agenda) /\ UNCHANGED <<prog, next, data, relocs, globals, outcome>>
  BY <1>3 DEF WriteArray, Descend, ArrayTasks
<1>. QED
  BY <1>2, <1>4, <1>5, DescendKeeps

LEMMA StructKeeps ==
  ASSUME IInv, WriteStruct
  PROVE  IInv'
<1>1. Write({"struct"})
  BY DEF WriteStruct
<1>2. /\ outcome = "running" /\ agenda # << >> /\ Head(agenda).task = "write"
      /\ Const = Head(agenda).const /\ Const \in Constants /\ Const.kind = "struct"
  BY <1>1, WriteFacts
<1>3. PICK new : new = StructTasks(Const)
  OBVIOUS
<1>4. /\ \E offset : Split(new, offset, Head(agenda).const)
      /\ \A l \in Leaves[Head(agenda).const] : Remains(new, l)
  BY <1>2, <1>3, StructSplits
<1>5. agenda' = new \o Tail(agenda) /\ UNCHANGED <<prog, next, data, relocs, globals, outcome>>
  BY <1>3 DEF WriteStruct, Descend, StructTasks
<1>. QED
  BY <1>2, <1>4, <1>5, DescendKeeps

LEMMA ScalarKeeps ==
  ASSUME IInv, WriteScalar
  PROVE  IInv'
<1>. DEFINE h == Head(agenda)
<1>1. Write(ScalarKinds)
  BY DEF WriteScalar
<1>2. /\ outcome = "running" /\ agenda # << >> /\ h.task = "write"
      /\ Const = h.const /\ Const \in Constants /\ Const.kind \in ScalarKinds
      /\ AllocSize(Const.type) \in Nat /\ TaskSize(h) = AllocSize(Const.type)
      /\ \A c, offset : Placed(h, c, offset) =>
           /\ Leaves[Const] \subseteq Leaves[c]
           /\ \A j \in 0 .. (AllocSize(Const.type) - 1) : ByteOf[c][offset + j] = ByteOf[Const][j]
  BY <1>1, WriteFacts
<1>3. PICK d \in Constants : d = Const
  BY <1>2
<1>4. PICK n \in Nat : n = AllocSize(d.type)
  BY <1>2, <1>3
<1>5. PICK e : e = ExpandConstant[d]
  OBVIOUS
<1>6. d.kind \in ScalarKinds /\ Leaves[d] = {d} /\ AllSized(d) /\ e \in Expansions
  BY <1>2, <1>3, <1>5, ScalarIsLeaf, ExpandDefined
<1>7. ~e.unhandled /\ Representable(e, d.type) <=> Supported(d)
  BY <1>5, <1>6, StopsAtScalar
<1>8. \/ /\ ~e.unhandled /\ Representable(e, d.type)
         /\ relocs' = IF e.global = NoGlobal THEN relocs
                      ELSE relocs \cup {[position |-> Len(data), global |-> e.global]}
         /\ Put(Bytes(e.offset, n))
      \/ /\ e.unhandled \/ ~Representable(e, d.type)
         /\ Fail("constant")
  BY <1>3, <1>4, <1>5 DEF WriteScalar, RelocPosition
<1>9. CASE /\ ~e.unhandled /\ Representable(e, d.type)
           /\ relocs' = IF e.global = NoGlobal THEN relocs
                        ELSE relocs \cup {[position |-> Len(data), global |-> e.global]}
           /\ Put(Bytes(e.offset, n))
  <2>1. PICK bytes : bytes = Bytes(e.offset, n)
    OBVIOUS
  <2>2. PICK g : g = e.global
    OBVIOUS
  <2>3. e.offset \in Int
    BY <1>6, RangeFacts DEF Expansions
  <2>4. bytes \in [1 .. n -> 0 .. (ByteValues - 1)]
    BY <2>1, <2>3, BytesFacts
  <2>5. bytes \in Seq(0 .. (ByteValues - 1)) /\ Len(bytes) = n
    <3>. DEFINE S == 0 .. (ByteValues - 1)
    <3>1. bytes \in [1 .. n -> S]
      BY <2>4
    <3>. HIDE DEF S
    <3>2. bytes \in Seq(S) /\ Len(bytes) = n
      BY <3>1
    <3>. QED
      BY <3>2 DEF S
  <2>6. /\ data' = data \o bytes /\ agenda' = Tail(agenda)
        /\ UNCHANGED <<prog, next, globals, outcome>>
    BY <1>9, <2>1 DEF Put
  <2>7. g # NoGlobal => n = 4
    BY <1>4, <1>9, <2>2 DEF Representable
  <2>8. Wrote(bytes, g)
    BY <1>9, <2>2, <2>5, <2>6, <2>7 DEF Wrote
  <2>9. ASSUME NEW c \in Constants, NEW offset \in Nat, Prescribed(c), Placed(h, c, offset),
               NEW j \in 0 .. (Len(bytes) - 1)
        PROVE  ByteOf[c][offset + j] = Byte(bytes[j + 1], g)
    <3>1. Meaning[d].fits /\ j \in 0 .. (AllocSize(d.type) - 1)
      BY <1>2, <1>3, <1>4, <1>6, <2>5, <2>9 DEF Prescribed
    <3>2. ByteOf[c][offset + j] = ByteOf[d][j]
      BY <1>2, <1>3, <2>9, <3>1
    <3>3. ByteOf[d][j] = Byte(Bytes(ExpandConstant[d].offset, AllocSize(d.type))[j + 1], ExpandConstant[d].global)
      BY <1>5, <1>6, <1>9, <3>1, ScalarBytes
    <3>. QED
      BY <1>4, <1>5, <2>1, <2>2, <3>2, <3>3
  <2>10. Fills(bytes, h) /\ h.task # "check" /\ \A l \in Leaves[h.const] : Supported(l)
    BY <1>2, <1>3, <1>4, <1>6, <1>7, <1>9, <2>5 DEF Fills
  <2>11. outcome = "running" /\ agenda # << >>
    BY <1>2
  <2>. QED
    BY <2>6, <2>8, <2>9, <2>10, <2>11, PutKeeps
<1>10. CASE (e.unhandled \/ ~Representable(e, d.type)) /\ Fail("constant")
  <2>1. ~Supported(d)
    BY <1>7, <1>10
  <2>2. /\ Leaves[h.const] \subseteq Leaves[Target] /\ prog[Current].kind = "defined"
    BY <1>2, HeadFacts
  <2>3. d \in Leaves[Target]
    BY <1>2, <1>3, <1>6, <2>2
  <2>4. next - 1 = Current
    BY DEF IInv, TypeOK, Current
  <2>5. ~Good(prog[next - 1])
    BY <2>1, <2>2, <2>3, <2>4 DEF Good, Target
  <2>6. outcome' = "constant" /\ UNCHANGED <<prog, next, agenda, data, relocs, globals>>
    BY <1>10 DEF Fail
  <2>. QED
    BY <2>5, <2>6, StopKeeps
<1>. QED
  BY <1>8, <1>9, <1>10

LEMMA StartGlobalKeeps ==
  ASSUME IInv, StartGlobal
  PROVE  IInv'
<1>1. outcome = "running" /\ agenda = << >> /\ next <= Len(prog)
  BY DEF StartGlobal
<1>2. CASE ~prog[next].threadLocal /\ prog[next].kind = "defined"
  <2>1. Len(data) \in Nat
    BY DEF IInv, TypeOK
  <2>2. PICK address \in Nat : address = Len(data)
    BY <2>1
  <2>3. PICK plan : plan = << [task |-> "write", const |-> prog[next].init],
                              [task |-> "check", end |-> Len(data) + AllocSize(prog[next].init.type)] >>
    OBVIOUS
  <2>4. Define(address) /\ next' = next + 1 /\ agenda' = plan /\ UNCHANGED <<prog, data, relocs, outcome>>
    BY <1>2, <2>2, <2>3 DEF StartGlobal
  <2>. QED
    BY <1>1, <1>2, <2>2, <2>3, <2>4, StartKeeps
<1>3. CASE ~prog[next].threadLocal /\ prog[next].kind = "linker_weak"
  <2>1. Define(0) /\ next' = next + 1 /\ agenda' = << >> /\ UNCHANGED <<prog, data, relocs, outcome>>
    BY <1>1, <1>3 DEF StartGlobal
  <2>2. 0 \in Nat
    OBVIOUS
  <2>. QED
    BY <1>1, <1>3, <2>1, <2>2, StartKeeps
<1>4. CASE prog[next].threadLocal \/ prog[next].kind \notin {"defined", "linker_weak"}
  <2>1. ~Good(prog[next])
    BY <1>4 DEF Good
  <2>2. outcome' = "global" /\ UNCHANGED <<prog, next, agenda, data, relocs, globals>>
    BY <1>4 DEF StartGlobal, Fail
  <2>. QED
    BY <2>1, <2>2, StopKeeps
<1>. QED
  BY <1>2, <1>3, <1>4

LEMMA FinishKeeps ==
  ASSUME IInv, Finish
  PROVE  IInv'
<1>1. /\ agenda = << >> /\ next > Len(prog) /\ outcome' = "done"
      /\ UNCHANGED <<prog, next, agenda, data, relocs, globals>>
  BY DEF Finish
<1>2. Started /\ GoodSoFar /\ next = Current + 1
  BY DEF IInv, TypeOK, Current
<1>3. Current \in Nat /\ DOMAIN globals = 1 .. Current
  BY <1>2, StartedFacts
<1>4. prog \in Seq(Range(prog))
  BY <1>2, ProgramsAssumption DEF Started
<1>5. \A g \in DOMAIN prog : g \in DOMAIN globals
  BY <1>1, <1>2, <1>3, <1>4
<1>6. \A g \in DOMAIN prog : Good(prog[g])
  BY <1>1, <1>2, <1>5 DEF GoodSoFar, Complete
<1>. QED
  BY <1>1, <1>6, StopKeeps

LEMMA InitHolds ==
  ASSUME Init
  PROVE  IInv
<1>1. /\ prog \in Programs /\ next = 1 /\ agenda = << >> /\ data = << >>
      /\ relocs = {} /\ globals = << >> /\ outcome = "running"
  BY DEF Init
<1>2. /\ << >> \in Seq(Nat) /\ << >> \in Seq(Tasks) /\ << >> \in Seq(0 .. (ByteValues - 1))
      /\ Len(<< >>) = 0 /\ DOMAIN << >> = {}
  OBVIOUS
<1>3. TypeOK /\ StoppedShort /\ StopsAtUnsupported
  BY <1>1, <1>2 DEF TypeOK, StoppedShort, StopsAtUnsupported
<1>4. Started /\ OnPlan /\ ImageSoFar /\ GoodSoFar
  BY <1>1, <1>2 DEF Started, OnPlan, ImageSoFar, GoodSoFar
<1>. QED
  BY <1>3, <1>4 DEF IInv

LEMMA StutterKeeps ==
  ASSUME IInv, UNCHANGED vars
  PROVE  IInv'
<1>1. /\ prog' = prog /\ next' = next /\ globals' = globals /\ agenda' = agenda
      /\ data' = data /\ relocs' = relocs /\ outcome' = outcome
  BY DEF vars
<1>2. Current' = Current /\ Target' = Target
  BY <1>1 DEF Current, Target
<1>3. \A x : Complete(x)' <=> Complete(x)
  BY <1>1, <1>2 DEF Complete
<1>4. TypeOK' /\ StoppedShort' /\ StopsAtUnsupported'
  BY <1>1 DEF IInv, TypeOK, StoppedShort, StopsAtUnsupported
<1>5. Started' /\ OnPlan'
  BY <1>1, <1>2 DEF IInv, Started, OnPlan, Reached, Length
<1>6. ImageSoFar' /\ GoodSoFar'
  BY <1>1, <1>3 DEF IInv, ImageSoFar, GoodSoFar
<1>. QED
  BY <1>4, <1>5, <1>6 DEF IInv

THEOREM AgendaKept == Spec => []IInv
<1>1. Init => IInv
  BY InitHolds
<1>2. IInv /\ [Next]_vars => IInv'
  <2>. SUFFICES ASSUME IInv, [Next]_vars PROVE IInv'
    OBVIOUS
  <2>1. CASE StartGlobal
    BY <2>1, StartGlobalKeeps
  <2>2. CASE WriteZero
    BY <2>2, ZeroKeeps
  <2>3. CASE WriteArray
    BY <2>3, ArrayKeeps
  <2>4. CASE WriteData
    BY <2>4, DataKeeps
  <2>5. CASE WriteStruct
    BY <2>5, StructKeeps
  <2>6. CASE WritePadding
    BY <2>6, PaddingKeeps
  <2>7. CASE WriteScalar
    BY <2>7, ScalarKeeps
  <2>8. CASE CheckSize
    BY <2>8, CheckKeeps
  <2>9. CASE Finish
    BY <2>9, FinishKeeps
  <2>10. CASE UNCHANGED vars
    BY <2>10, StutterKeeps
  <2>. QED
    BY <2>1, <2>2, <2>3, <2>4, <2>5, <2>6, <2>7, <2>8, <2>9, <2>10 DEF Next
<1>. QED
  BY <1>1, <1>2, PTL DEF Spec

(* The segment holds bytes, and no two words to be relocated overlap or     *)
(* stick out of it.                                                         *)
THEOREM InitialisersTypeCorrect == Spec => []TypeOK
<1>1. IInv => TypeOK
  BY DEF IInv
<1>. QED
  BY <1>1, AgendaKept, PTL

(* The assertion in translate() about the size of an initialiser fails for  *)
(* the globals with a vector of data shorter than its type, and no others.  *)
THEOREM StopsExactlyAtShortData == Spec => []StopsAtShortData
<1>1. IInv => StopsAtShortData
  BY DEF IInv, StoppedShort, GoodSoFar, Complete, Current, Written, StopsAtShortData
<1>. QED
  BY <1>1, AgendaKept, PTL

(* translate() stops at a global exactly if it cannot represent it.         *)
THEOREM StopsExactlyThere == Spec => []StopsAtUnsupported
<1>1. IInv => StopsAtUnsupported
  BY DEF IInv
<1>. QED
  BY <1>1, AgendaKept, PTL

(* The bytes and relocations that write_global() leaves for a global are    *)
(* those of its initialiser, at the places the data layout gives them.      *)
THEOREM ImageIsCorrect == Spec => []ImageCorrect
<1>1. IInv => ImageCorrect
  <2>. SUFFICES ASSUME IInv, NEW g \in DOMAIN globals, Written(g),
                       \A l \in Leaves[prog[g].init] : Meaning[l].fits,
                       NEW k \in 0 .. (AllocSize(prog[g].init.type) - 1)
                PROVE  Contents(globals[g] + k) = ByteOf[prog[g].init][k]
    BY DEF ImageCorrect
  <2>1. Started /\ ImageSoFar /\ TypeOK /\ GoodSoFar
    BY DEF IInv
  <2>2. prog[g].kind = "defined" /\ Complete(g) /\ Prescribed(prog[g].init)
    BY <2>1 DEF Written, Complete, Current, GoodSoFar, Prescribed
  <2>3. /\ globals[g] + AllocSize(prog[g].init.type) <= Len(data)
        /\ Shows(data, relocs, prog[g].init, globals[g])
    BY <2>1, <2>2 DEF ImageSoFar
  <2>4. globals[g] \in Nat /\ AllocSize(prog[g].init.type) \in Nat /\ Len(data) \in Nat
    BY <2>1, <2>2, StartedFacts DEF TypeOK
  <2>5. globals[g] + k < Len(data)
    BY <2>3, <2>4
  <2>6. ContentsIn(data, relocs, globals[g] + k) = ByteOf[prog[g].init][k]
    BY <2>2, <2>3, <2>5 DEF Shows
  <2>. QED
    BY <2>6 DEF Contents, ContentsIn
<1>. QED
  BY <1>1, AgendaKept, PTL
================================================================================
