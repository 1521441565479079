---------------------------------- MODULE SSA ----------------------------------
(***************************************************************************)
(* What an LLVM function promises about its control flow: a branch reads   *)
(* its condition and the incoming operands of the chosen successor's phi   *)
(* nodes as they are before the branch, and assigns all those phi nodes at *)
(* once.  The instructions of a block give their results any words, but an *)
(* alias, which is a value like any other here, those of its operand.      *)
(***************************************************************************)
EXTENDS ControlFlow

CONSTANTS
  Functions,    \* the functions that may be run
  StartWords    \* what uninitialised memory may hold

VARIABLES
  fn,        \* the function that runs
  blk,       \* the current basic block
  at,        \* "body", "term" or "done"
  env,       \* the word of every cell
  result     \* the words returned, << >> until then

vars == <<fn, blk, at, env, result>>

Init ==
  /\ fn \in Functions
  /\ blk = fn.entry
  /\ at = "body"
  /\ env \in [Cells(fn) -> StartWords]
  /\ result = Null

(* The instructions of the block other than its phi nodes and terminator. *)
RunBody ==
  /\ at = "body"
  /\ \E new \in Results(fn, blk, env) : env' = Update(env, new)
  /\ at' = "term"
  /\ UNCHANGED <<fn, blk, result>>

(* The successor that the terminator of block b selects. *)
Selects(b, k) ==
  LET t == fn.term[b] IN
  \/ t.kind = "br" /\ k = 1
  \/ /\ t.kind = "condbr"
     /\ k = IF LowBits("i1", Part(env, t.operand, 0)) = 1 THEN 1 ELSE 2
  \/ /\ t.kind = "switch"
     /\ LET w == LowBits(t.type, Part(env, t.operand, 0)) IN
        /\ \A j \in 1 .. (k - 1) : t.cases[j] # w
        /\ k \in DOMAIN t.cases => t.cases[k] = w

(* All phi nodes of d take their values for an arrival from b at once. *)
AssignPhis(s, b, d) ==
  [c \in Cells(fn) |->
     IF c[1] \in PhiSet(fn, d) THEN Part(s, fn.incoming[c[1]][b], c[2]) ELSE s[c]]

Branch ==
  /\ at = "term"
  /\ \E k \in DOMAIN Succ(fn, blk) :
       /\ Selects(blk, k)
       /\ blk' = Succ(fn, blk)[k]
       /\ env' = AssignPhis(env, blk, Succ(fn, blk)[k])
  /\ at' = "body"
  /\ UNCHANGED <<fn, result>>

Return ==
  /\ at = "term"
  /\ fn.term[blk].kind = "ret"
  /\ result' = IF fn.term[blk].type = "i64"
               THEN <<Part(env, fn.term[blk].operand, 0), Part(env, fn.term[blk].operand, 4)>>
               ELSE <<Part(env, fn.term[blk].operand, 0)>>
  /\ at' = "done"
  /\ UNCHANGED <<fn, blk, env>>

Next == RunBody \/ Branch \/ Return

Spec == Init /\ [][Next]_vars
================================================================================
