------------------------------- MODULE MCBranches -------------------------------
(***************************************************************************)
(* Families of small functions for Branches: a loop whose phi nodes take   *)
(* every combination of incoming operands, the same with aliases of phi    *)
(* nodes, with a switch that may have several cases with one destination,  *)
(* and functions whose phi nodes interfere.                                *)
(***************************************************************************)
EXTENDS Branches, FiniteSets, TLC

MCWords == 0 .. 3
MCModulus == [i1 |-> 2, i8 |-> 2, i32 |-> 4]

BitWords == 0 .. 1
BitModulus == [i1 |-> 2, i8 |-> 2, i32 |-> 2]

(* The values whose words are used when operand o is: itself, and what it  *)
(* is an alias of.                                                         *)
OperandRefs(f, o) == {v \in Values(f) : Refers(o, v) \/ ReadsSlot(f, o, v)}

(* The values that block b reads once its phi nodes are assigned, taking   *)
(* what is live at its successors from L.                                  *)
ReadsOf(f, L, b) ==
  (   (IF f.term[b].kind = "br" THEN {} ELSE OperandRefs(f, f.term[b].operand))
     \cup UNION {OperandRefs(f, f.alias[v]) : v \in f.defs[b] \cap Aliases(f)}
     \cup UNION {UNION {OperandRefs(f, Ref(v)) : v \in L[d] \ PhiSet(f, d)}
                   \cup UNION {OperandRefs(f, f.incoming[v][b]) : v \in PhiSet(f, d)}
                 : d \in Range(Succ(f, b))})
  \ f.defs[b]

(* Liveness, as the least fixed point reached in one round per block. *)
Liveness(f) ==
  LET Round[n \in Nat] ==
        IF n = 0 THEN [b \in Blocks(f) |-> {}]
        ELSE [b \in Blocks(f) |-> ReadsOf(f, Round[n - 1], b)]
  IN Round[Cardinality(Blocks(f)) + 1]

(* Where following an alias ends, and after how many steps. *)
Origins(alias) ==
  LET IsAlias(o) == o.kind = "value" /\ o.value \in DOMAIN alias
      End[n \in Nat, v \in DOMAIN alias] ==
        IF n > 0 /\ IsAlias(alias[v]) THEN End[n - 1, alias[v].value] ELSE alias[v]
  IN [v \in DOMAIN alias |-> End[Cardinality(DOMAIN alias), v]]

Depths(alias) ==
  LET IsAlias(o) == o.kind = "value" /\ o.value \in DOMAIN alias
      Depth[v \in DOMAIN alias] == IF IsAlias(alias[v]) THEN 1 + Depth[alias[v].value] ELSE 1
  IN [v \in DOMAIN alias |-> Depth[v]]

NoAliases == << >>

Br(d) == [kind |-> "br", succ |-> <<d>>]
CondBr(o, d1, d2) == [kind |-> "condbr", operand |-> o, succ |-> <<d1, d2>>]
Switch(o, ty, cs, ds) ==
  [kind |-> "switch", operand |-> o, type |-> ty, cases |-> cs, succ |-> ds]
Ret(o, ty) == [kind |-> "ret", operand |-> o, type |-> ty, succ |-> << >>]

(* entry -> loop; loop -> loop | exit, with phi nodes p and q in the loop  *)
(* and x at the exit, all of type ty.  pIn, qIn and xIn are their incoming *)
(* values from the loop.  t and c are computed in the loop or, those in    *)
(* before, ahead of it.                                                    *)
LoopFunction(ty, cty, pIn, qIn, xIn, term, ret, alias, before) ==
  LET f == [ entry |-> "entry",
             type |-> [p |-> ty, q |-> ty, x |-> ty, t |-> ty, c |-> cty],
             phis |-> [entry |-> << >>, loop |-> <<"p", "q">>, exit |-> <<"x">>],
             incoming |-> [p |-> [entry |-> Imm(1, 0), loop |-> Ref(pIn)],
                           q |-> [entry |-> Imm(0, 1), loop |-> Ref(qIn)],
                           x |-> [loop |-> Ref(xIn)]],
             defs |-> [entry |-> before, loop |-> IF before = {} THEN {"t", "c"} ELSE {}, exit |-> {}],
             alias |-> alias, origin |-> Origins(alias), depth |-> Depths(alias),
             live |-> << >>,
             term |-> [entry |-> Br("loop"), loop |-> term, exit |-> Ret(Ref(ret), ty)] ]
  IN [f EXCEPT !.live = Liveness(f)]

PlainLoop(ty, cty, pIn, qIn, xIn, term, ret) ==
  LoopFunction(ty, cty, pIn, qIn, xIn, term, ret, NoAliases, {})

LoopOperands == {"p", "q", "t"}

(* What x is copied from, and the value returned. *)
Outs == {<<"p", "x">>, <<"q", "x">>, <<"t", "x">>}

CondBrLoops(ty, conds) ==
  { PlainLoop(ty, "i1", pIn, qIn, out[1], CondBr(Ref(c), ds[1], ds[2]), out[2]) :
      pIn \in LoopOperands, qIn \in LoopOperands, c \in conds,
      ds \in {<<"loop", "exit">>, <<"exit", "loop">>}, out \in Outs \cup {<<"t", "p">>} }

(* The same with c = trunc p, with t = bitcast of a phi node, or with one  *)
(* an alias of the other; and with t, and c = trunc t, computed before the *)
(* loop.                                                                   *)
AliasLoops(aliases, before) ==
  { LoopFunction("i32", "i1", pIn, qIn, out[1], CondBr(Ref("c"), ds[1], ds[2]), out[2],
                 al, before) :
      al \in aliases, pIn \in {"q", "t"}, qIn \in {"q", "t"},
      ds \in {<<"loop", "exit">>, <<"exit", "loop">>},
      out \in {<<"p", "x">>, <<"t", "x">>, <<"p", "t">>} }

AllAliasLoops ==
  AliasLoops({"c" :> Ref("p"), "t" :> Ref("p"),
              "t" :> Ref("q") @@ "c" :> Ref("t"), "t" :> Imm(2, 0) @@ "c" :> Ref("p")}, {})
    \cup AliasLoops({"c" :> Ref("t")}, {"t", "c"})

(* A case destination may appear twice; the words 2 and 3 are 0 and 1 with *)
(* garbage above the i8, and so is trunc p.                                *)
SwitchLoops ==
  { LoopFunction("i32", "i8", pIn, "q", out[1], Switch(Ref("c"), "i8", cs[1], cs[2]), out[2],
                 al, {}) :
      pIn \in {"p", "t"},
      cs \in {<< <<1>>, <<"exit", "loop">> >>, << <<0>>, <<"loop", "exit">> >>,
              << <<1, 0>>, <<"loop", "exit", "loop">> >>,
              << <<0, 1>>, <<"loop", "loop", "exit">> >>},
      out \in Outs \cup {<<"t", "p">>, <<"p", "t">>}, al \in {NoAliases, "c" :> Ref("p")} }

Safe(S) == {f \in S : PhiSafe(f)}

NarrowLoops == Safe(CondBrLoops("i32", {"c"}) \cup CondBrLoops("i1", {"c", "p"}))
SafeAliasLoops == Safe(AllAliasLoops)
SafeSwitchLoops == Safe(SwitchLoops)

(* Loops carrying i64 values through both halves of their slots: in two phi *)
(* nodes of the loop, or in the one at its exit; and truncated to i32.      *)
WideLoop(pIn, qIn, xIn, narrow, ret, alias) ==
  LET f == LoopFunction("i64", "i1", pIn, qIn, xIn, CondBr(Ref("c"), "exit", "loop"), ret, alias, {})
  IN [f EXCEPT !.type = [v \in DOMAIN @ |-> IF v \in narrow THEN "i32" ELSE @[v]],
               !.term["exit"].type = IF ret \in narrow THEN "i32" ELSE "i64"]

WideLoops ==
  Safe({WideLoop("q", "t", "t", {}, "p", NoAliases),
        WideLoop("t", "q", "q", {"q", "x"}, "p", NoAliases),
        WideLoop("p", "q", "t", {"p", "q"}, "x", NoAliases),
        WideLoop("q", "q", "t", {"x", "t"}, "x", "t" :> Ref("p"))})

MCFunctions == {f : f \in NarrowLoops \cup SafeAliasLoops \cup SafeSwitchLoops \cup WideLoops}

(* while (c) swap(p, q) *)
SwapLoop ==
  {PlainLoop("i32", "i1", "q", "p", "p", CondBr(Ref("c"), "exit", "loop"), "x")}

(* do p = t while (c), returning the p of the last iteration *)
LostCopyLoop ==
  {PlainLoop("i32", "i1", "t", "q", "p", CondBr(Ref("c"), "loop", "exit"), "x")}
================================================================================
