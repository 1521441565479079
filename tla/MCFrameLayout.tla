------------------------------ MODULE MCFrameLayout ------------------------------
(***************************************************************************)
(* All functions of up to two parameters and three instructions, with      *)
(* calls of up to two arguments: two i64 arguments need more than the      *)
(* minimal area for outgoing arguments, fewer do not.                      *)
(***************************************************************************)
EXTENDS FrameLayout, SequencesExt

ArgLists == BoundedSeq({"i32", "i64"}, 2)

Instructions ==
  { [kind |-> "other", type |-> ty, args |-> << >>] : ty \in {"i32", "i64"} }
    \cup { [kind |-> "alias", type |-> "i32", args |-> << >>],
           [kind |-> "i64op", type |-> "i64", args |-> << >>] }
    \cup { [kind |-> "call", type |-> "void", args |-> as] : as \in ArgLists }

MCFunctions == [params : ArgLists, insts : BoundedSeq(Instructions, 3)]
================================================================================
