---------------------------------- MODULE Calls ----------------------------------
(***************************************************************************)
(* What calls mean: each activation of a function has values of its own,   *)
(* which are its arguments and what each of its instructions has computed  *)
(* last; a call passes values, a return passes one back, and nothing else  *)
(* of the caller changes in between.  There is no stack memory here, and   *)
(* the room that alloca gives is an address and no more.                   *)
(*                                                                         *)
(* Programs are as in CallStack.                                           *)
(***************************************************************************)
EXTENDS Integers, SequencesExt

CONSTANTS
  CodeAddress,   \* CodeAddress[<<f, 0>>] is what a pointer to function f is
  Words,         \* the words that instructions compute
  Addresses,     \* the addresses that alloca may give
  Undefined      \* a word that has not been computed yet

VARIABLES
  prog,
  stack,         \* the activations: [fn, pc, env], the innermost last
  returned,      \* has the innermost activation just ended?
  value          \* the words it returned

Top == Last(stack)
Func(a) == prog[a.fn]
Current(a) == Func(a).insts[a.pc]
Result(k) == <<"inst", k>>

WordsOf(ty, lo, hi) ==
  IF ty = "void" THEN << >> ELSE IF ty = "i64" THEN <<lo, hi>> ELSE <<lo>>

(* The words of an operand of type ty in activation a. *)
Value(a, o, ty) ==
  IF o.kind = "value" THEN a.env[o.value] ELSE WordsOf(ty, o.words[1], o.words[2])

Callee(a) ==
  CHOOSE f \in DOMAIN prog : <<CodeAddress[<<f, 0>>]>> = Value(a, Current(a).callee, "i32")

Values(f) ==
  {<<"param", k>> : k \in DOMAIN f.params} \cup {Result(k) : k \in DOMAIN f.insts}

Activation(f, args) ==
  [fn |-> f, pc |-> 1,
   env |-> [v \in Values(prog[f]) |->
              IF v[1] = "param" THEN args[v[2]]
              ELSE WordsOf(prog[f].insts[v[2]].type, Undefined, Undefined)]]

(* The activation once the current instruction has computed w. *)
Computed(a, w) == [a EXCEPT !.pc = @ + 1, !.env[Result(a.pc)] = w]

Replace(a) == stack' = Append(Front(stack), a)

Init ==
  /\ \E args \in [DOMAIN prog[1].params -> Words \X Words] :
       stack = << Activation(1, [k \in DOMAIN args |->
                                   WordsOf(prog[1].params[k], args[k][1], args[k][2])]) >>
  /\ returned = FALSE /\ value = << >>

Running(kinds) == stack # << >> /\ ~returned /\ Current(Top).kind \in kinds

Results(i) ==
  IF i.kind = "alloca" THEN { <<x>> : x \in Addresses }
  ELSE { WordsOf(i.type, w[1], w[2]) : w \in Words \X Words }

Compute ==
  /\ Running({"op", "i64op", "alloca", "store"})
  /\ LET a == Top
         rest == Front(stack)
     IN stack' \in { Append(rest, Computed(a, w)) : w \in Results(Current(a)) }
  /\ UNCHANGED <<prog, returned, value>>

Branch ==
  /\ Running({"br"})
  /\ \E k \in Current(Top).succ : Replace([Top EXCEPT !.pc = k])
  /\ UNCHANGED <<prog, returned, value>>

Call ==
  /\ Running({"call"})
  /\ LET i == Current(Top) IN
     stack' = Append(stack, Activation(Callee(Top),
                                       [k \in DOMAIN i.args |-> Value(Top, i.ops[k], i.args[k])]))
  /\ UNCHANGED <<prog, returned, value>>

Return ==
  /\ Running({"ret"})
  /\ stack' = Front(stack)
  /\ returned' = TRUE
  /\ value' = IF Func(Top).result = "void" THEN << >>
              ELSE Value(Top, Current(Top).ops[1], Func(Top).result)
  /\ UNCHANGED prog

(* The call that was made becomes a value of the caller. *)
Resume ==
  /\ returned /\ stack # << >>
  /\ Replace(Computed(Top, value))
  /\ returned' = FALSE /\ value' = << >>
  /\ UNCHANGED prog

Next == Compute \/ Branch \/ Call \/ Return \/ Resume

Spec == Init /\ [][Next]_<<prog, stack, returned, value>>
==================================================================================
