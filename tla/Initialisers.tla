------------------------------ MODULE Initialisers ------------------------------
(***************************************************************************)
(* How translate() writes the initialisers of the globals to the data      *)
(* segment: write_global() walks through a constant, and expand_constant() *)
(* reduces each scalar to a number or to a global and an offset.           *)
(*                                                                         *)
(* The walk is kept as an agenda of what is still to be written.  The      *)
(* segment is a sequence of bytes, long enough for all globals             *)
(* (Relocations is about its end); relocs are the words to which the       *)
(* address of a global will be added.                                      *)
(*                                                                         *)
(* A constant has a kind and a type:                                       *)
(*   zero             zeroinitializer or undef                             *)
(*   array, struct    with parts, a sequence of constants                  *)
(*   data             with vals, the numbers of an array or a vector       *)
(*   int, fp          with a number val; null                              *)
(*   global           the address of the global named                      *)
(*   gep              the pointer base, displaced by the integer offset    *)
(*   cast             bitcast, ptrtoint or inttoptr of base                *)
(*   other            any other expression, a vector of constants or in an *)
(*                    expression, a block address                          *)
(*                                                                         *)
(* A definition Name_Variant is a faulty form of the Name it precedes; no  *)
(* specification uses it.                                                  *)
(***************************************************************************)
EXTENDS Integers, Sequences, Functions

CONSTANTS
  Constants,            \* the constants there are, with all their parts
  Depth(_),             \* how deeply a constant is nested
  AllocSize(_),         \* the size of a type, and
  ElementOffset(_, _),  \* the offset of a field: LLVM's data layout
  Programs,             \* sequences of globals [kind, init, threadLocal]
  ByteValues,           \* how many values a byte has
  NoGlobal

VARIABLES
  prog,
  next,      \* the number of the global after those that were started
  agenda,    \* what is still to be written of the one before it
  data,
  relocs,
  globals,   \* the address of each global that was started
  outcome    \* "running", "done" or the assertion that stopped translate()

vars == <<prog, next, agenda, data, relocs, globals, outcome>>

(* The numbers that n bytes can hold.                                       *)
Values[n \in Nat] == IF n = 0 THEN 1 ELSE ByteValues * Values[n - 1]
Range32 == Values[4]
Range64 == Values[8]

ScalarKinds == {"int", "fp", "null", "global", "gep", "cast", "other"}
Parts(c) ==
  CASE c.kind \in {"array", "struct"} -> Range(c.parts)
    [] c.kind \in {"gep", "cast"} -> {c.base}
    [] OTHER -> {}

(* The bytes that getRawDataValues() has.                                   *)
RawSize(c) == Len(c.vals) * AllocSize(c.type.elem)

(* Constants are finite and typed as the IR requires; an expression is made *)
(* of scalars, of at most 64 bits (is_i64()), and addresses of 32 bits.     *)
(* Raw data is as long as its type if that is an array; a vector may be     *)
(* longer than its elements, as 16 bytes for three words.                   *)
WellFormed(c) ==
  /\ Depth(c) \in Nat /\ \A p \in Parts(c) : p \in Constants /\ Depth(p) < Depth(c)
  /\ c.kind \in ScalarKinds \cup {"zero", "array", "data", "struct"}
  /\ c.kind = "array" => /\ c.parts \in Seq(Constants) /\ AllocSize(c.type.elem) \in Nat
                         /\ AllocSize(c.type) = Len(c.parts) * AllocSize(c.type.elem)
                         /\ \A p \in Parts(c) : p.type = c.type.elem
  /\ c.kind = "data" => /\ c.vals \in Seq(Nat) /\ AllocSize(c.type.elem) \in Nat
                        /\ AllocSize(c.type) >= RawSize(c)
                        /\ c.type.kind # "vector" => AllocSize(c.type) = RawSize(c)
  /\ c.kind = "struct" => /\ c.parts \in Seq(Constants) \ { << >> } /\ c.type.kind = "struct"
                          /\ c.type.fields = [i \in DOMAIN c.parts |-> c.parts[i].type]
  /\ c.kind \in ScalarKinds \ {"other"} => AllocSize(c.type) <= 8
  /\ c.kind \in {"int", "fp"} => c.val \in Nat
  /\ c.kind = "global" => c.name # NoGlobal
  /\ c.kind = "gep" => c.offset \in Int /\ AllocSize(c.type) = 4 /\ AllocSize(c.base.type) = 4
  /\ c.kind \in {"gep", "cast"} => c.base.kind \in ScalarKinds \cup {"zero"}

(* What is relied on of the data layout: sizes are numbers of 64 bits, and  *)
(* the fields of a struct lie in it one behind the other.                   *)
LaidOut(ty) ==
  /\ AllocSize(ty) \in 0 .. (Range64 - 1)
  /\ ty.kind = "struct" =>
       /\ ElementOffset(ty, 1) = 0
       /\ \A i \in DOMAIN ty.fields :
            /\ ElementOffset(ty, i) \in Nat
            /\ ElementOffset(ty, i) + AllocSize(ty.fields[i]) <= AllocSize(ty)
            /\ \A j \in DOMAIN ty.fields :
                 i < j => ElementOffset(ty, i) + AllocSize(ty.fields[i]) <= ElementOffset(ty, j)

ASSUME ConstantsAssumption == \A c \in Constants : WellFormed(c)
ASSUME LayoutAssumption == \A c \in Constants : LaidOut(c.type)
ASSUME ByteAssumption == ByteValues \in Nat \ {0}
ASSUME ProgramsAssumption ==
  \A p \in Programs :
    p \in Seq(Range(p)) /\ \A g \in DOMAIN p : p[g].kind = "defined" => p[g].init \in Constants

(* DataBuffer::put_bytes() of a number, and put_alloc_space(): the buffer   *)
(* was zero before.                                                         *)
Bytes(v, n) == [k \in 1 .. n |-> (v \div Values[k - 1]) % ByteValues]
Zeros(n) == [k \in 1 .. n |-> 0]

(* expand_constant(): a global or none, and an offset of 64 bits.           *)
Expanded(g, n) == [global |-> g, offset |-> n % Range64, unhandled |-> FALSE]
Unhandled == [global |-> NoGlobal, offset |-> 0, unhandled |-> TRUE]
ExpandConstant[c \in Constants] ==
  CASE c.kind = "global" -> Expanded(c.name, 0)
    [] c.kind = "int" \/ (c.kind = "fp" /\ c.type.name = "double") -> Expanded(NoGlobal, c.val)
    [] c.kind \in {"null", "zero"} -> Expanded(NoGlobal, 0)
    [] c.kind = "gep" ->
         LET base == ExpandConstant[c.base]
         IN [base EXCEPT !.offset = (@ + c.offset) % Range64]
    [] c.kind = "cast" -> ExpandConstant[c.base]
    [] OTHER -> Unhandled

Init ==
  /\ prog \in Programs
  /\ next = 1 /\ agenda = << >> /\ data = << >>
  /\ relocs = {} /\ globals = << >> /\ outcome = "running"

Fail(assertion) ==
  /\ outcome' = assertion
  /\ UNCHANGED <<prog, next, agenda, data, relocs, globals>>

Define(address) == globals' = Append(globals, address)

(* The loop over the globals.                                               *)
StartGlobal ==
  /\ outcome = "running" /\ agenda = << >> /\ next <= Len(prog)
  /\ LET g == prog[next] IN
     \/ /\ ~g.threadLocal /\ g.kind = "defined"
        /\ Define(Len(data))
        /\ agenda' = << [task |-> "write", const |-> g.init],
                        [task |-> "check", end |-> Len(data) + AllocSize(g.init.type)] >>
        /\ next' = next + 1
        /\ UNCHANGED <<prog, data, relocs, outcome>>
     \/ /\ ~g.threadLocal /\ g.kind = "linker_weak"
        /\ Define(0)
        /\ next' = next + 1
        /\ UNCHANGED <<prog, agenda, data, relocs, outcome>>
     \/ /\ g.threadLocal \/ g.kind \notin {"defined", "linker_weak"}
        /\ Fail("global")

Write(kinds) ==
  /\ outcome = "running" /\ agenda # << >>
  /\ Head(agenda).task = "write" /\ Head(agenda).const.kind \in kinds
Const == Head(agenda).const

Put(bytes) ==
  /\ data' = data \o bytes
  /\ agenda' = Tail(agenda)
  /\ UNCHANGED <<prog, next, globals, outcome>>

Descend(tasks) ==
  /\ agenda' = tasks \o Tail(agenda)
  /\ UNCHANGED <<prog, next, data, relocs, globals, outcome>>

WriteZero ==
  /\ Write({"zero"})
  /\ Put(Zeros(AllocSize(Const.type))) /\ UNCHANGED relocs

WriteArray ==
  /\ Write({"array"})
  /\ Descend([k \in DOMAIN Const.parts |-> [task |-> "write", const |-> Const.parts[k]]])

WriteData ==
  /\ Write({"data"})
  /\ LET n == AllocSize(Const.type.elem)
     IN Put([k \in 1 .. RawSize(Const) |->
               Bytes(Const.vals[((k - 1) \div n) + 1], n)[((k - 1) % n) + 1]])
  /\ UNCHANGED relocs

(* Where the field after the i-th starts, or the struct ends.               *)
NextOffset_NoTail(ty, i) ==
  IF i = Len(ty.fields) THEN ElementOffset(ty, i) + AllocSize(ty.fields[i])
  ELSE ElementOffset(ty, i + 1)
NextOffset(ty, i) == IF i = Len(ty.fields) THEN AllocSize(ty) ELSE ElementOffset(ty, i + 1)

(* What prev_offset is when the i-th field has been written.                *)
PrevOffset(ty, i) == IF i = 1 THEN 0 ELSE NextOffset(ty, i - 1)
Padding(ty, i) ==
  (NextOffset(ty, i) - PrevOffset(ty, i) - AllocSize(ty.fields[i])) % Range64

Field(c, i) == [task |-> "write", const |-> c.parts[i]]
Gap(c, i) == [task |-> "pad", size |-> Padding(c.type, i)]
FieldTasks_PadFirst(c, i) == << Gap(c, i), Field(c, i) >>
FieldTasks(c, i) == << Field(c, i), Gap(c, i) >>

WriteStruct ==
  /\ Write({"struct"})
  /\ Descend([k \in 1 .. 2 * Len(Const.parts) |-> FieldTasks(Const, (k + 1) \div 2)[2 - (k % 2)]])

WritePadding ==
  /\ outcome = "running" /\ agenda # << >> /\ Head(agenda).task = "pad"
  /\ Put(Zeros(Head(agenda).size)) /\ UNCHANGED relocs

(* The reference to a global takes a word and keeps 32 bits of its offset.  *)
Representable_AnyOffset(e, ty) == e.global = NoGlobal \/ AllocSize(ty) = 4
Representable(e, ty) ==
  e.global = NoGlobal \/ (AllocSize(ty) = 4 /\ e.offset % Range32 = e.offset)

RelocPosition_Behind == Len(data) + 4
RelocPosition == Len(data)

WriteScalar ==
  /\ Write(ScalarKinds)
  /\ LET e == ExpandConstant[Const] IN
     \/ /\ ~e.unhandled /\ Representable(e, Const.type)
        /\ relocs' = IF e.global = NoGlobal THEN relocs
                     ELSE relocs \cup {[position |-> RelocPosition, global |-> e.global]}
        /\ Put(Bytes(e.offset, AllocSize(Const.type)))
     \/ /\ e.unhandled \/ ~Representable(e, Const.type)
        /\ Fail("constant")

CheckSize ==
  /\ outcome = "running" /\ agenda # << >> /\ Head(agenda).task = "check"
  /\ \/ /\ Len(data) = Head(agenda).end
        /\ agenda' = Tail(agenda)
        /\ UNCHANGED <<prog, next, data, relocs, globals, outcome>>
     \/ /\ Len(data) # Head(agenda).end
        /\ Fail("size")

Finish ==
  /\ outcome = "running" /\ agenda = << >> /\ next > Len(prog)
  /\ outcome' = "done"
  /\ UNCHANGED <<prog, next, agenda, data, relocs, globals>>

Next ==
  \/ StartGlobal \/ WriteZero \/ WriteArray \/ WriteData \/ WriteStruct
  \/ WritePadding \/ WriteScalar \/ CheckSize \/ Finish

Spec == Init /\ [][Next]_vars
--------------------------------------------------------------------------------
(* The segment holds bytes, and relocations are words in it that do not     *)
(* overlap.                                                                 *)
TypeOK ==
  /\ next = Len(globals) + 1
  /\ data \in Seq(0 .. (ByteValues - 1))
  /\ outcome \in {"running", "done", "global", "constant", "size"}
  /\ \A r \in relocs :
       /\ r.position \in 0 .. (Len(data) - 4)
       /\ \A s \in relocs : s # r => s.position + 4 <= r.position \/ r.position + 4 <= s.position

(* What a scalar is: the constant at its bottom, how many bytes from it (a  *)
(* number of 64 bits), and the number it stands for.  Numbers are taken     *)
(* modulo the size of their type, and a cast to a wider type extends them   *)
(* with zeros.  The code does not truncate before it extends ("TODO: Do we  *)
(* need to truncate"): fits says that no number is cast that does not fit   *)
(* its type.                                                                *)
Reduced(n, ty) == n % Values[AllocSize(ty)]
Meaning[c \in Constants] ==
  CASE c.kind = "gep" ->
         LET base == Meaning[c.base]
         IN [base EXCEPT !.displacement = (@ + c.offset) % Range64,
                         !.number = Reduced(@ + c.offset, c.type)]
    [] c.kind = "cast" ->
         LET base == Meaning[c.base]
         IN [base EXCEPT !.number = Reduced(@, c.type),
                         !.fits = @ /\ ExpandConstant[c.base].offset < Values[AllocSize(c.base.type)]]
    [] OTHER ->
         [bottom |-> c, displacement |-> 0, fits |-> TRUE,
          number |-> Reduced(IF c.kind \in {"int", "fp"} THEN c.val ELSE 0, c.type)]

(* The bytes of an object with the initialiser c, from 0: their contents    *)
(* and the global that is to be added to the word they belong to.           *)
Byte(v, g) == [byte |-> v, global |-> g]
Holds(ty, i, k) == ElementOffset(ty, i) <= k /\ k < ElementOffset(ty, i) + AllocSize(ty.fields[i])
ScalarByte(c, k) ==
  LET m == Meaning[c]
  IN Byte(Bytes(m.number, AllocSize(c.type))[k + 1],
          IF m.bottom.kind = "global" THEN m.bottom.name ELSE NoGlobal)
ByteOf[c \in Constants] ==
  [k \in 0 .. (AllocSize(c.type) - 1) |->
     CASE c.kind = "array" ->
            LET n == AllocSize(c.type.elem) IN ByteOf[c.parts[(k \div n) + 1]][k % n]
       [] c.kind = "data" /\ k < RawSize(c) ->
            LET n == AllocSize(c.type.elem)
            IN Byte(Bytes(c.vals[(k \div n) + 1], n)[(k % n) + 1], NoGlobal)
       [] c.kind = "struct" /\ (\E i \in DOMAIN c.parts : Holds(c.type, i, k)) ->
            LET i == CHOOSE j \in DOMAIN c.parts : Holds(c.type, j, k)
            IN ByteOf[c.parts[i]][k - ElementOffset(c.type, i)]
       [] c.kind \in ScalarKinds -> ScalarByte(c, k)
       [] OTHER -> Byte(0, NoGlobal)]

(* The scalars of a constant.                                               *)
Leaves[c \in Constants] ==
  IF c.kind \in {"array", "struct"} THEN UNION {Leaves[p] : p \in Parts(c)} ELSE {c}

Written(g) ==
  /\ g \in DOMAIN globals /\ prog[g].kind = "defined"
  /\ g < Len(globals) \/ agenda = << >>
Contents(position) ==
  Byte(data[position + 1],
       IF \E r \in relocs : position \in r.position .. (r.position + 3)
       THEN (CHOOSE r \in relocs : position \in r.position .. (r.position + 3)).global
       ELSE NoGlobal)

(* Every byte of every global that is complete is the one its initialiser   *)
(* prescribes for that place, or zero between fields, and the relocations   *)
(* are at the words that name globals and nowhere else: what write_global() *)
(* appends piece by piece agrees with the offsets of the data layout.       *)
ImageCorrect ==
  \A g \in DOMAIN globals : Written(g) =>
    LET init == prog[g].init
    IN (\A c \in Leaves[init] : Meaning[c].fits) =>
         \A k \in 0 .. (AllocSize(init.type) - 1) :
           Contents(globals[g] + k) = ByteOf[init][k]

(* translate() fails the assertion that an initialiser filled exactly the   *)
(* size of its global for a global with a vector of data that is shorter    *)
(* than its type, wherever that is in it, and for no other: what is written *)
(* piece by piece for all other globals comes to their size.                *)
Sized(c) == c.kind = "data" => RawSize(c) = AllocSize(c.type)
AllSized(c) == \A l \in Leaves[c] : Sized(l)
StopsAtShortData ==
  /\ outcome = "size" => ~AllSized(prog[next - 1].init)
  /\ \A g \in DOMAIN globals : Written(g) => AllSized(prog[g].init)

Supported(c) ==
  LET bottom == Meaning[c].bottom
  IN /\ bottom.kind # "other"
     /\ bottom.kind = "fp" => bottom.type.name = "double"
     /\ bottom.kind = "global" => /\ AllocSize(c.type) = 4
                                  /\ Meaning[c].displacement < Range32

(* translate() stops at a global exactly if it is of a kind that is not     *)
(* allowed, or one of its scalars is: an unknown expression, a float, the   *)
(* address of a global in anything but a word, or displaced by more than a  *)
(* word can hold (as by less than 0).  What it does not stop at is not      *)
(* truncated.                                                               *)
Good(g) ==
  /\ ~g.threadLocal
  /\ g.kind \in {"defined", "linker_weak"}
  /\ g.kind = "defined" => \A c \in Leaves[g.init] : Supported(c)
StopsAtUnsupported ==
  /\ outcome = "global" => ~Good(prog[next])
  /\ outcome = "constant" => ~Good(prog[next - 1])
  /\ outcome = "done" => \A g \in DOMAIN prog : Good(prog[g])
================================================================================
