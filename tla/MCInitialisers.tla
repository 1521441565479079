----------------------------- MODULE MCInitialisers -----------------------------
(***************************************************************************)
(* All structs of up to three fields, packed or not, alone and twice in an *)
(* array, and all scalars of up to three expressions around a base, each   *)
(* followed by another global.  Of the two vectors among the fields one is *)
(* shorter than its type.  Bytes have four values: a word holds up to 255. *)
(***************************************************************************)
EXTENDS Initialisers, SequencesExt

MCAlignment ==
  [i8 |-> 1, i16 |-> 2, i24 |-> 4, i32 |-> 4, i64 |-> 8, float |-> 4, double |-> 8, ptr |-> 4]

TargetData == INSTANCE DataLayout WITH Alignment <- MCAlignment
MCAllocSize(ty) == TargetData!TypeAllocSize(ty)
MCElementOffset(ty, i) == TargetData!StructElementOffset(ty, i)

Scalar(s) == [kind |-> "scalar", name |-> s]
ArrayOf(ty, n) == [kind |-> "array", elem |-> ty, len |-> n]

Constant(kind, ty) == [kind |-> kind, type |-> ty]
IntOf(s, v) == [val |-> v] @@ Constant("int", Scalar(s))
FpOf(s, v) == [val |-> v] @@ Constant("fp", Scalar(s))
GlobalOf(g) == [name |-> g] @@ Constant("global", Scalar("ptr"))
GepOf(c, n) == [base |-> c, offset |-> n] @@ Constant("gep", Scalar("ptr"))
CastOf(c, s) == [base |-> c] @@ Constant("cast", Scalar(s))
StructOf(parts, packed) ==
  [parts |-> parts]
    @@ Constant("struct", [kind |-> "struct", packed |-> packed,
                           fields |-> [i \in DOMAIN parts |-> parts[i].type]])
ArrayConst(parts) == [parts |-> parts] @@ Constant("array", ArrayOf(parts[1].type, Len(parts)))
DataOf(s, vals) == [vals |-> vals] @@ Constant("data", ArrayOf(Scalar(s), Len(vals)))
VectorOf(s, vals) == [DataOf(s, vals) EXCEPT !.type.kind = "vector"]

Fields ==
  { IntOf("i8", 3), IntOf("i16", 9), IntOf("i24", 45), IntOf("i64", 54321), GlobalOf("g"),
    DataOf("i8", <<1, 2, 3>>), Constant("zero", ArrayOf(Scalar("i16"), 3)),
    VectorOf("i8", <<1, 2, 3>>), VectorOf("i16", <<5, 6>>) }
Structs ==
  { StructOf(parts, packed) : parts \in BoundedSeq(Fields, 3) \ { << >> }, packed \in BOOLEAN }
Nested ==
  { StructOf(<<IntOf("i8", 1), s, IntOf("i8", 2)>>, FALSE) : s \in
      { StructOf(parts, packed) : parts \in BoundedSeq(Fields, 2) \ { << >> }, packed \in BOOLEAN } }
Arrays == { ArrayConst(<<s, s>>) : s \in Nested }

Bases ==
  { GlobalOf("g"), IntOf("i32", 254), IntOf("i64", 700), IntOf("i8", 2), Constant("null", Scalar("ptr")),
    Constant("other", Scalar("ptr")), FpOf("double", 999), FpOf("float", 7) }
IsPointer(c) == c.type = Scalar("ptr")
Around(c) ==
  (IF IsPointer(c) THEN { GepOf(c, n) : n \in {-4, 8, 255} } \cup { CastOf(c, s) : s \in {"i8", "i32", "i64", "ptr"} }
   ELSE IF c.kind = "fp" THEN {}
   ELSE { CastOf(c, "ptr") })
Once(S) == S \cup UNION { Around(c) : c \in S }
Expressions == Once(Once(Once(Bases)))

Defined(c) == [kind |-> "defined", init |-> c, threadLocal |-> FALSE]
Rest ==
  { << Defined(DataOf("i16", <<5, 6>>)) >>,
    << [kind |-> "linker_weak", threadLocal |-> FALSE], Defined(GlobalOf("h")) >> }
Refused ==
  { << [kind |-> "extern", threadLocal |-> FALSE] >>,
    << [Defined(IntOf("i8", 3)) EXCEPT !.threadLocal = TRUE] >> }

Inits == UNION { Fields, Structs, Arrays, Expressions }
MCPrograms == UNION { Refused, { <<Defined(c)>> \o r : c \in Inits, r \in Rest } }

RECURSIVE MCDepth(_)
MCDepth(c) == IF Parts(c) = {} THEN 0 ELSE 1 + Max({ MCDepth(p) : p \in Parts(c) })

(* All constants: those of the programs and their parts.  TLC evaluates a   *)
(* definition once, but not the one that the configuration gives a constant *)
(* as its value: MCConstants only names what is evaluated.                  *)
AllConstants ==
  UNION { Inits, Nested, UNION { Parts(c) : c \in Nested },
          { DataOf("i16", <<5, 6>>), GlobalOf("h"), IntOf("i8", 3) } }
MCConstants == AllConstants
================================================================================
