----------------------------- MODULE VariadicCalls -----------------------------
(***************************************************************************)
(* What variadic calls mean: an activation has the list of the variable    *)
(* arguments it was passed, and a va_list is a list of the arguments that  *)
(* are still to be read.  There are no buffers and no pointers into them.  *)
(*                                                                         *)
(* Programs are as in VarArgs.                                             *)
(***************************************************************************)
EXTENDS Integers, SequencesExt

CONSTANT Data   \* what is passed

VARIABLES
  prog,
  stack,   \* the activations: [fn, pc, rest, list], the innermost last
  lists,   \* the arguments [type, val] left in each va_list that was started
  got      \* what the last va_arg read

Top == Last(stack)
Current == prog[Top.fn].insts[Top.pc]

(* The va_list an instruction names: the k-th of its function, or the one   *)
(* that the function was passed.                                            *)
ListOf(k) == IF k = 0 THEN Top.list ELSE <<Len(stack), k>>

At(kind) == stack # << >> /\ Top.pc \in DOMAIN prog[Top.fn].insts /\ Current.kind = kind
Continue(k) == stack' = Append(Front(stack), [Top EXCEPT !.pc = k])
With(f, x, y) == [z \in DOMAIN f \cup {x} |-> IF z = x THEN y ELSE f[z]]

Init ==
  /\ stack = << [fn |-> 1, pc |-> 1, rest |-> << >>, list |-> << >>] >>
  /\ lists = << >> /\ got = << >>

Call ==
  /\ At("call")
  /\ \E vals \in [DOMAIN Current.rest -> Data] :
       stack' = Append(stack,
         [fn |-> Current.fn, pc |-> 1,
          rest |-> [k \in DOMAIN vals |-> [type |-> Current.rest[k], val |-> vals[k]]],
          list |-> ListOf(Current.list)])
  /\ UNCHANGED <<prog, lists, got>>

VaStart ==
  /\ At("va_start")
  /\ lists' = With(lists, ListOf(Current.list), Top.rest)
  /\ Continue(Top.pc + 1)
  /\ UNCHANGED <<prog, got>>

VaCopy ==
  /\ At("va_copy")
  /\ ListOf(Current.from) \in DOMAIN lists
  /\ lists' = With(lists, ListOf(Current.list), lists[ListOf(Current.from)])
  /\ Continue(Top.pc + 1)
  /\ UNCHANGED <<prog, got>>

(* To read what was not passed, or as another type, has no meaning. *)
VaArg ==
  /\ At("va_arg")
  /\ LET l == ListOf(Current.list) IN
     /\ l \in DOMAIN lists /\ lists[l] # << >> /\ Head(lists[l]).type = Current.type
     /\ got' = <<Head(lists[l]).val>>
     /\ lists' = With(lists, l, Tail(lists[l]))
  /\ Continue(Top.pc + 1)
  /\ UNCHANGED prog

Other ==
  /\ \/ At("va_end") /\ Continue(Top.pc + 1)
     \/ At("br") /\ \E k \in Current.succ : Continue(k)
  /\ UNCHANGED <<prog, lists, got>>

Return ==
  /\ At("ret")
  /\ LET callers == Front(stack) IN
     stack' = IF callers = << >> THEN << >>
              ELSE Append(Front(callers), [Last(callers) EXCEPT !.pc = @ + 1])
  /\ lists' = [l \in {m \in DOMAIN lists : m[1] < Len(stack)} |-> lists[l]]
  /\ UNCHANGED <<prog, got>>

Next == Call \/ VaStart \/ VaCopy \/ VaArg \/ Other \/ Return

Spec == Init /\ [][Next]_<<prog, stack, lists, got>>
================================================================================
