------------------------------ MODULE MCExpansion ------------------------------
(***************************************************************************)
(* Functions of three blocks: the second has a phi node and may loop, the  *)
(* third joins the edges of both.  Either the first and the second hold    *)
(* instructions of a menu, or the phi nodes take any of several constants, *)
(* values and nested expressions.                                          *)
(***************************************************************************)
EXTENDS Expansion

MCAlignment ==
  [i8 |-> 1, i16 |-> 2, i24 |-> 4, i32 |-> 4, i64 |-> 8, float |-> 4, double |-> 8, ptr |-> 4]

Scalar(s) == [kind |-> "scalar", name |-> s]
StructTy == [kind |-> "struct", packed |-> FALSE, fields |-> <<Scalar("i32"), Scalar("i8")>>]
ArrayTy == [kind |-> "array", elem |-> StructTy, len |-> 3]
Outer == [kind |-> "struct", packed |-> FALSE, fields |-> <<Scalar("i8"), ArrayTy>>]

Expr(op, type, args, elem) == [kind |-> "expr", op |-> op, type |-> type, args |-> args, elem |-> elem]
I32(n) == Const("i32", n)
Global == Value("ptr", -1)       \* its address is not known here
Pointer == Value("ptr", -2)      \* parameters
Index == Value("i32", -3)
LongLength == Value("i64", -4)

Field == Expr("gep", "ptr", <<Global, I32(0), I32(1), I32(2), I32(1)>>, Outer)
Next4 == Expr("gep", "ptr", <<Field, I32(-1)>>, StructTy)
Mixed == Expr("add", "i32", << Expr("ptrtoint", "i32", <<Field>>, NoElem),
                               Expr("ptrtoint", "i32", <<Next4>>, NoElem) >>, NoElem)

Gep(id, args) == [Inst(id, "gep", "ptr", args) EXCEPT !.elem = Outer]
Menu(id) ==
  { <<Gep(id, <<Pointer, Index, I32(1), Index, I32(1)>>), Inst(id + 1, "store", "void", <<Value("ptr", id), Index>>)>>,
    <<Gep(id, <<Next4, Index>>), Inst(id + 1, "call", "i32", <<Mixed, Value("ptr", id), Pointer>>)>>,
    <<Inst(id, "memcpy", "void", <<Field, Pointer, LongLength, Const("i1", 0)>>)>>,
    <<Inst(id, "memset", "void", <<Pointer, Const("i8", 7), Index, Const("i1", 0)>>)>>,
    <<Inst(id, "memmove", "void", <<Pointer, Field, Mixed, Const("i1", 1)>>)>> }

Phi(id, args, from) == [Inst(id, "phi", args[1].type, args) EXCEPT !.from = from]
Incoming == {I32(3), Index, Mixed}
Pointers == {Pointer, Field, Next4}

Function(first, end, second, x, p, q) ==
  << Append(first, end),
     <<Phi(10, <<x, Value("i32", 10)>>, <<1, 2>>)>> \o second \o <<Inst(15, "br", "void", <<Value("i32", 10)>>)>>,
     <<Phi(20, <<p, q>>, <<1, 2>>), Inst(21, "ret", "void", <<Value("ptr", 20)>>)>> >>

Simple(id) == <<Inst(id, "memset", "void", <<Pointer, Const("i8", 7), Index, Const("i1", 0)>>)>>
Joins ==
  { Function(first, end, second, I32(3), Field, Pointer) :
      first \in Menu(1), second \in Menu(11),
      end \in {Inst(5, "br", "void", <<Index>>), Inst(5, "switch", "void", <<Mixed>>)} }
  \cup
  { Function(Simple(1), Inst(5, "br", "void", <<Index>>), Simple(11), x, p, q) :
      x \in Incoming, p \in Pointers, q \in Pointers }

(* A switch with two cases for one block, whose phi node has an entry for   *)
(* each of them.                                                            *)
TwoCases ==
  { << <<Inst(1, "call", "i32", << >>), Inst(2, "switch", "void", <<Value("i32", 1)>>)>>,
       <<Phi(3, <<p, p>>, <<1, 1>>), Inst(4, "ret", "void", <<Value("ptr", 3)>>)>> >> :
    p \in Pointers }

(* A getelementptr with an index that is not a word.                        *)
LongIndices ==
  { << <<Gep(1, <<Pointer, index, I32(1), I32(0), I32(1)>>), Inst(2, "ret", "void", <<Value("ptr", 1)>>)>> >> :
    index \in {Index, LongLength, Const("i64", 1)} }

MCPrograms == Joins \cup TwoCases \cup LongIndices
================================================================================
