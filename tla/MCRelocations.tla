------------------------------ MODULE MCRelocations ------------------------------
(***************************************************************************)
(* A module has a global of up to two pieces (or a weak one), a function   *)
(* of two blocks that jumps, refers and calls, and a second function, with *)
(* a body or only declared.  The code buffer has room for the smaller of   *)
(* these modules and not for the larger ones, and so has the data segment. *)
(***************************************************************************)
EXTENDS Relocations, SequencesExt

Op == [kind |-> "op", size |-> 1]
Jump(d) == [kind |-> "jump", dest |-> d]
Ref(s, o) == [kind |-> "ref", symbol |-> s, offset |-> o]
Const == [kind |-> "const"]
Call(t) == [kind |-> "call", target |-> t]

MCRuntimeTlsGet == 200
MCWeakSymbols == {"__ehdr_start"}

GlobalLists ==
  { << [name |-> "g", weak |-> FALSE, init |-> ps] >> :
      ps \in BoundedSeq({[kind |-> "bytes", size |-> 2], Ref("f", 3), Ref("g", 255)}, 2) }
    \cup { << [name |-> w, weak |-> TRUE, init |-> << >>],
              [name |-> "g", weak |-> FALSE, init |-> <<Ref(w, 4)>>] >> :
             w \in {"__ehdr_start", "other"} }

FirstBlocks == { <<Op, Jump(1), Jump(2)>>, <<Jump(2), Ref("h", 7)>>, <<Const, Ref("g", 0)>>,
                 <<Ref("g", 250), Call(17)>>, <<Const, Const, Call(40)>> }
LastBlocks == { <<Jump(1)>>, <<Op, Op, Jump(2), Const>>, <<Ref("f", 0), Op>>, << >>,
                <<Ref("alias", 0)>> }

Seconds == { [name |-> "h", blocks |-> << >>],
             [name |-> "llvm.nacl.read.tp", blocks |-> << >>],
             [name |-> "h", blocks |-> << <<Op, Ref("f", 1), Jump(1)>> >>],
             [name |-> "h", blocks |-> << <<Const>>, <<Jump(1)>> >>] }

MCModules ==
  { [globals |-> gs, functions |-> fs] :
      gs \in GlobalLists,
      fs \in UNION { { << [name |-> "f", blocks |-> <<b1, b2>>], h >>,
                       << h, [name |-> "f", blocks |-> <<b1, b2>>] >> } :
                     b1 \in FirstBlocks, b2 \in LastBlocks, h \in Seconds } }
================================================================================
