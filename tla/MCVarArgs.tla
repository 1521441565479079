------------------------------- MODULE MCVarArgs -------------------------------
(***************************************************************************)
(* The first function calls the second in a loop with one of several lists *)
(* of arguments.  The second starts a va_list and goes through up to three *)
(* instructions of a menu: it reads, copies the va_list, reads from the    *)
(* copy, passes the va_list to a function that reads from it, or calls     *)
(* itself with other arguments.                                            *)
(***************************************************************************)
EXTENDS VarArgs

On(kind, list) == [kind |-> kind, list |-> list]
VaArgOf(list, ty) == [type |-> ty] @@ On("va_arg", list)
CopyOf(list, from) == [from |-> from] @@ On("va_copy", list)
CallOf(f, rest, list) == [fn |-> f, rest |-> rest] @@ On("call", list)

Function(variadic, insts) ==
  [variadic |-> variadic, insts |-> Append(insts, [kind |-> "ret"])]

Menu ==
  { VaArgOf(l, ty) : l \in {1, 2}, ty \in {"i8", "i64"} }
    \cup { CopyOf(2, 1), CallOf(3, << >>, 1), CallOf(2, <<"i32", "i8">>, 1) }

(* A body that can be run with these arguments and ends in a read: the      *)
(* first read has the type of the first argument, a va_list is copied       *)
(* before the copy is read, and nothing is repeated.                        *)
Sensible(body, rest) ==
  /\ body # << >> /\ (Last(body).kind = "va_arg" \/ Last(body) = CallOf(3, << >>, 1))
  /\ IsInjective(body)
  /\ Cardinality({k \in DOMAIN body : body[k].kind = "call"}) < 2
  /\ \A k \in DOMAIN body : body[k].kind = "va_arg" =>
       /\ body[k].list = 2 => \E j \in 1 .. (k - 1) : body[j].kind = "va_copy"
       /\ body[k].type = rest[1] \/ \E j \in 1 .. (k - 1) : body[j].kind = "va_arg"

Rests == { <<"i8", "i64">>, <<"i64", "i8", "i8">> }

Caller(rest) ==
  Function(FALSE, << CallOf(2, rest, 0), [kind |-> "br", succ |-> {1, 3}] >>)
Callee(body) == Function(TRUE, <<On("va_start", 1)>> \o body \o <<On("va_end", 1)>>)
Reader == Function(FALSE, << VaArgOf(0, "i64"), VaArgOf(0, "i8") >>)

MCPrograms ==
  { <<Caller(p[1]), Callee(p[2]), Reader>> :
      p \in { q \in Rests \X BoundedSeq(Menu, 3) : Sensible(q[2], q[1]) } }
================================================================================
