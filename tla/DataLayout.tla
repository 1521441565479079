------------------------------- MODULE DataLayout -------------------------------
(***************************************************************************)
(* LLVM's TargetData as the generator uses it: sizes, alignments and the   *)
(* offsets of fields.  A type is [kind |-> "scalar", name],                *)
(* [kind |-> "array", elem, len], [kind |-> "vector", elem, len] or        *)
(* [kind |-> "struct", fields, packed].                                    *)
(***************************************************************************)
EXTENDS Integers, SequencesExt, FiniteSetsExt

CONSTANT Alignment   \* the alignment of each scalar type

Scalars == {"i8", "i16", "i24", "i32", "i64", "float", "double", "ptr"}
AllocBytes ==
  [i8 |-> 1, i16 |-> 2, i24 |-> 4, i32 |-> 4, i64 |-> 8, float |-> 4, double |-> 8, ptr |-> 4]

ASSUME AlignmentAssumption ==
  \A s \in Scalars : Alignment[s] \in {1, 2, 4, 8} /\ AllocBytes[s] % Alignment[s] = 0

RoundUp(n, a) == ((n + a - 1) \div a) * a

(* A vector is aligned by its size, rounded up to a power of two, and fills *)
(* what it is aligned to.                                                   *)
NextPowerOfTwo(n) == CHOOSE p \in { 2 ^ i : i \in 0 .. 6 } : n <= p /\ p < 2 * n

RECURSIVE AlignOf(_), TypeAllocSize(_), StructElementOffset(_, _)
AlignOf(ty) ==
  CASE ty.kind = "scalar" -> Alignment[ty.name]
    [] ty.kind = "array" -> AlignOf(ty.elem)
    [] ty.kind = "vector" -> NextPowerOfTwo(ty.len * TypeAllocSize(ty.elem))
    [] ty.kind = "struct" ->
         IF ty.packed THEN 1 ELSE Max({1} \cup {AlignOf(f) : f \in Range(ty.fields)})
StructElementOffset(ty, i) ==
  IF i = 1 THEN 0
  ELSE RoundUp(StructElementOffset(ty, i - 1) + TypeAllocSize(ty.fields[i - 1]),
               IF ty.packed THEN 1 ELSE AlignOf(ty.fields[i]))
TypeAllocSize(ty) ==
  CASE ty.kind = "scalar" -> AllocBytes[ty.name]
    [] ty.kind = "array" -> ty.len * TypeAllocSize(ty.elem)
    [] ty.kind = "vector" -> NextPowerOfTwo(ty.len * TypeAllocSize(ty.elem))
    [] ty.kind = "struct" ->
         LET n == Len(ty.fields)
         IN IF n = 0 THEN 0
            ELSE RoundUp(StructElementOffset(ty, n) + TypeAllocSize(ty.fields[n]), AlignOf(ty))
================================================================================
