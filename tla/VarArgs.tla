-------------------------------- MODULE VarArgs --------------------------------
(***************************************************************************)
(* What expand_varargs.cc makes of variadic functions and calls, as it     *)
(* runs: a call packs its variable arguments into a buffer of its function *)
(* and passes a pointer to it, and a va_list is a pointer into a buffer.   *)
(*                                                                         *)
(* A program is a sequence of functions [variadic, insts]; function 1 is   *)
(* called by the host.  A "call" has the called function fn, the types     *)
(* rest of its variable arguments, and a va_list that it passes on;        *)
(* "va_start", "va_copy", "va_arg" and "va_end" name va_lists by number, 0 *)
(* being the one that the function was passed.  "br" may go to succ.       *)
(*                                                                         *)
(* Memory is a set of objects, buffers and va_lists, each known by the     *)
(* depth of the activation that allocated it and its number there; a       *)
(* pointer is an object and an offset.  CallStack shows that such objects  *)
(* do not overlap.                                                         *)
(*                                                                         *)
(* A definition Name_Variant is a faulty form of the Name it precedes; no  *)
(* specification uses it.                                                  *)
(***************************************************************************)
EXTENDS Integers, FiniteSets, SequencesExt

CONSTANTS
  Programs,
  Data,       \* what is passed
  Unknown,    \* what a function that was passed no buffer takes for one
  MaxDepth    \* a bound on the depth of calls

ArgTypes == {"i8", "i32", "i64"}

(* What the verifier checks of the k-th instruction; and that a function     *)
(* starts, and copies to, va_lists of its own only: one of its callers' would *)
(* be left with a pointer into a frame that is gone.                          *)
WellFormedInst(p, insts, k) ==
  LET i == insts[k] IN
  /\ i.kind \in {"call", "va_start", "va_copy", "va_arg", "va_end", "br", "ret"}
  /\ i.kind \notin {"br", "ret"} => k + 1 \in DOMAIN insts
  /\ i.kind = "br" => i.succ \subseteq DOMAIN insts
  /\ i.kind = "call" => /\ i.fn \in DOMAIN p /\ i.list \in Nat
                        /\ i.rest \in Seq(ArgTypes)
                        /\ i.rest # << >> => p[i.fn].variadic
  /\ i.kind \in {"va_start", "va_copy"} => i.list \in Nat \ {0}
  /\ i.kind = "va_copy" => i.from \in Nat
  /\ i.kind = "va_arg" => i.list \in Nat /\ i.type \in ArgTypes

ASSUME ProgramsAssumption ==
  \A p \in Programs :
    /\ 1 \in DOMAIN p
    /\ \A f \in DOMAIN p :
         /\ 1 \in DOMAIN p[f].insts /\ DOMAIN p[f].insts \subseteq Nat
         /\ \A k \in DOMAIN p[f].insts : WellFormedInst(p, p[f].insts, k)

(* Objects have the depth of their activation and a number there. *)
Objects == Nat \X {"buffer", "va_list"} \X Nat
Pointers == Objects \X Nat

ASSUME UnknownAssumption == Unknown \notin Pointers

VARIABLES
  prog,
  stack,   \* the activations: [fn, pc, arg, varargs, list]
  mem,     \* [size, val] of the values in memory, by the pointers to them
  got      \* what the last va_arg read

vars == <<prog, stack, mem, got>>

(* getTypeAllocSize() *)
AllocSize == [i8 |-> 1, i32 |-> 4, i64 |-> 8]
PointerSize == 4

(* The offset of the k-th field of a packed struct. *)
PackedOffset_Words(types, k) == 4 * (k - 1)
PackedOffset(types, k) ==
  LET Before(ty) == Cardinality({j \in 1 .. (k - 1) : types[j] = ty})
  IN Before("i8") + 4 * Before("i32") + 8 * Before("i64")

Top == Last(stack)
Current == prog[Top.fn].insts[Top.pc]
At(kind) == stack # << >> /\ Current.kind = kind

Buffer(depth, pc) == <<depth, "buffer", pc>>
VaList(depth, k) == <<depth, "va_list", k>>
Plus(p, n) == <<p[1], p[2] + n>>

ListOf(k) == IF k = 0 THEN Top.list ELSE <<VaList(Len(stack), k), 0>>

Read(p) == IF p \in DOMAIN mem THEN mem[p].val ELSE Unknown

(* A value that is partly overwritten is lost. *)
Write(p, n, v) ==
  [q \in {p} \cup {r \in DOMAIN mem : r[1] = p[1] => r[2] + mem[r].size <= p[2] \/ p[2] + n <= r[2]}
     |-> IF q = p THEN [size |-> n, val |-> v] ELSE mem[q]]

Replace(a) == stack' = Append(Front(stack), a)
Continue(k) == Replace([Top EXCEPT !.pc = k])

Init ==
  /\ prog \in Programs
  /\ stack = << [fn |-> 1, pc |-> 1, arg |-> 1, varargs |-> Unknown, list |-> Unknown] >>
  /\ mem = << >> /\ got = << >>

(* getelementptr into the packed struct, and a store *)
StoreArgument ==
  /\ At("call") /\ Top.arg \in DOMAIN Current.rest
  /\ LET ty == Current.rest[Top.arg] IN
     \E v \in Data :
       mem' = Write(<<Buffer(Len(stack), Top.pc), PackedOffset(Current.rest, Top.arg)>>,
                    AllocSize[ty], v)
  /\ Replace([Top EXCEPT !.arg = @ + 1])
  /\ UNCHANGED <<prog, got>>

(* A call without variable arguments is not changed, and passes no buffer. *)
PassedBuffer ==
  IF Current.rest = << >> THEN Unknown ELSE <<Buffer(Len(stack), Top.pc), 0>>

Call ==
  /\ At("call") /\ Top.arg \notin DOMAIN Current.rest
  /\ Len(stack) < MaxDepth
  /\ stack' = Append(stack, [fn |-> Current.fn, pc |-> 1, arg |-> 1,
                             varargs |-> PassedBuffer, list |-> ListOf(Current.list)])
  /\ UNCHANGED <<prog, mem, got>>

VaStart ==
  /\ At("va_start")
  /\ mem' = Write(ListOf(Current.list), PointerSize, Top.varargs)
  /\ Continue(Top.pc + 1)
  /\ UNCHANGED <<prog, got>>

(* What va_copy stores: the pointer in the va_list, or one to the va_list. *)
CopiedPointer_ToList(list) == list
CopiedPointer(list) == Read(list)

VaCopy ==
  /\ At("va_copy")
  /\ ListOf(Current.from) \in DOMAIN mem
  /\ mem' = Write(ListOf(Current.list), PointerSize, CopiedPointer(ListOf(Current.from)))
  /\ Continue(Top.pc + 1)
  /\ UNCHANGED <<prog, got>>

(* The types of the arguments in a buffer, and which of them start at p. *)
PackedTypes(b) == prog[stack[b[1]].fn].insts[b[3]].rest
StartingAt(p) ==
  {k \in 1 .. (Len(PackedTypes(p[1])) + 1) : PackedOffset(PackedTypes(p[1]), k) = p[2]}

(* Only an argument that was passed is read, and as what it was passed. *)
Passed(list, ty) ==
  /\ list \in DOMAIN mem
  /\ LET p == mem[list].val IN
     /\ p # Unknown
     /\ \E k \in StartingAt(p) \cap DOMAIN PackedTypes(p[1]) : PackedTypes(p[1])[k] = ty

VaArg ==
  /\ At("va_arg")
  /\ LET list == ListOf(Current.list) IN
     /\ Passed(list, Current.type)
     /\ got' = <<Read(Read(list))>>
     /\ mem' = Write(list, PointerSize, Plus(Read(list), AllocSize[Current.type]))
  /\ Continue(Top.pc + 1)
  /\ UNCHANGED prog

(* va_end is dropped. *)
Other ==
  /\ \/ At("va_end") /\ Continue(Top.pc + 1)
     \/ At("br") /\ \E k \in Current.succ : Continue(k)
  /\ UNCHANGED <<prog, mem, got>>

(* The caller goes on behind its call, whose arguments will be stored anew  *)
(* if it is reached again.                                                  *)
Resumed_KeepIndex(a) == [a EXCEPT !.pc = @ + 1]
Resumed(a) == [a EXCEPT !.pc = @ + 1, !.arg = 1]

Return ==
  /\ At("ret")
  /\ LET callers == Front(stack) IN
     stack' = IF callers = << >> THEN << >>
              ELSE Append(Front(callers), Resumed(Last(callers)))
  /\ mem' = [p \in {q \in DOMAIN mem : q[1][1] < Len(stack)} |-> mem[p]]
  /\ UNCHANGED <<prog, got>>

Next ==
  \/ StoreArgument \/ Call \/ VaStart \/ VaCopy \/ VaArg \/ Other \/ Return

Spec == Init /\ [][Next]_vars
--------------------------------------------------------------------------------
(* Control is at an instruction of the program, and what is in memory       *)
(* belongs to activations that have not returned.                           *)
TypeOK ==
  /\ \A a \in Range(stack) :
       /\ a.fn \in DOMAIN prog /\ a.pc \in DOMAIN prog[a.fn].insts
       /\ LET i == prog[a.fn].insts[a.pc]
          IN a.arg \in 1 .. (IF i.kind = "call" THEN Len(i.rest) + 1 ELSE 1)
  /\ \A p \in DOMAIN mem :
       /\ p[1][1] \in DOMAIN stack /\ p[1][2] \in {"buffer", "va_list"}
       /\ p[2] \in Nat /\ mem[p].size \in {1, 4, 8}

(* A va_list that was started from a buffer points at one of the arguments  *)
(* in the buffer of a call that has not returned, or behind the last, and   *)
(* all arguments of that call are there: nothing has overwritten them.      *)
ListsAtArguments ==
  \A l \in DOMAIN mem :
    l[1][2] = "va_list" /\ mem[l].val # Unknown =>
      LET p == mem[l].val
          b == p[1]
      IN /\ b[2] = "buffer"
         /\ b[1] < Len(stack) /\ stack[b[1]].pc = b[3]
         /\ StartingAt(p) # {}
         /\ \A k \in DOMAIN PackedTypes(b) :
              LET q == <<b, PackedOffset(PackedTypes(b), k)>>
              IN q \in DOMAIN mem /\ mem[q].size = AllocSize[PackedTypes(b)[k]]

(* The arguments from the pointer p on. *)
ArgumentsFrom(p) ==
  IF p = Unknown THEN << >>
  ELSE LET types == PackedTypes(p[1])
           first == CHOOSE k \in StartingAt(p) : TRUE
       IN [k \in 1 .. (Len(types) + 1 - first) |->
             [type |-> types[k + first - 1],
              val |-> Read(<<p[1], PackedOffset(types, k + first - 1)>>)]]

(* The number of a va_list in the abstract specification. *)
ListId(p) == IF p = Unknown THEN << >> ELSE <<p[1][1], p[1][3]>>
StartedLists == {p \in DOMAIN mem : p[1][2] = "va_list"}

AbstractStack ==
  [d \in DOMAIN stack |->
     [fn |-> stack[d].fn, pc |-> stack[d].pc,
      rest |-> ArgumentsFrom(stack[d].varargs), list |-> ListId(stack[d].list)]]

AbstractLists ==
  [l \in {ListId(p) : p \in StartedLists} |->
     ArgumentsFrom(mem[<<VaList(l[1], l[2]), 0>>].val)]

Abstract == INSTANCE VariadicCalls WITH stack <- AbstractStack, lists <- AbstractLists

(* A variadic function reads the arguments that its caller passed, in their *)
(* order, through any number of va_lists, its own or its caller's.          *)
ImplementsVarArgs == Abstract!Spec
================================================================================
