# A TLA+ model of tiny-llvm-codegen

tiny-llvm-codegen is a small code generator: it reads an LLVM module and writes
x86-32 code for it into memory, where it can be called. It has no register
allocator: every value has a stack slot, and each instruction loads its operands
from slots into `%eax`, `%ecx` and `%edx`, computes, and spills its result. This
directory models what the generator does (the rewriting of functions, frame layout,
initialisers, linking), what the code it generates does when it runs (branches and
phi nodes, arithmetic, calls, variable arguments), and the loader that the code runs
in. The models are checked with TLC, and the properties that should hold for all
modules are proved with TLAPS.

## 1. The system

| Component | Source | State | Operations |
|---|---|---|---|
| Terminators, phi nodes | `codegen.cc` 511-541, 885-968 | registers and stack slots of the running function | ret, br, switch; copies to the phi nodes of a successor |
| Stack frame layout | `codegen.cc` 543-553, 1012-1036, 1210-1256 | `stackslots`, `frame_vars_size`, `frame_callees_args_size` | one loop that measures the calls, one for parameters, one for instructions; stores of arguments |
| Buffers, relocations, linking | `codegen.cc` 146-184, 362-366, 444-497, 1258-1351 | two `DataBuffer`s, `labels`, `globals`, `jump_relocs`, `global_relocs` | placing globals, functions and blocks; two relocation passes |
| Instruction selection | `codegen.cc` 257-442, 565-884, 907-923, 969-1065 | registers, slots, memory | one code sequence per instruction |
| i64 and atomic helpers | `runtime_helpers.c`, `generate_helpers.py` | none (one thread-local pointer) | one function per operator |
| Calls at run time | `codegen.cc` 1009-1054, 1268-1274, 899-906 | the stack | prolog, call, alloca, leave and ret |
| Constants and initialisers | `codegen.cc` 73-133, 1079-1139 | the data segment | flattening constant expressions and aggregates |
| Varargs | `expand_varargs.cc` | the IR of a module | va_start, va_arg, va_copy, va_end, variadic calls and functions |
| Constant expressions, getelementptr | `expand_constantexpr.cc`, `expand_getelementptr.cc` | the IR of a function | rewriting operands as instructions |
| Memory intrinsics | `codegen.cc` 1144-1208 | the IR of a block | rewriting intrinsics as calls |
| Loader and IRT | `run_program.cc`, `nacl_irt_interfaces.h` | two sysbrk pointers | interface query, sysbrk, stubs, startup |
| Tests and scripts | `codegen_test.cc`, `test.ll`, `*.py`, `run.sh` | | |

**How they interact.** `run_program.cc` parses a file and calls `translate()`,
which expands varargs, writes every global, and then for each function expands
constant expressions, getelementptr and memory intrinsics, lays out the frame,
and emits code block by block. Emitting a jump or a reference to a symbol appends
a relocation; the relocations are applied after the last function. The generated
code meets the rest of the program at three places: it calls the runtime helpers
with pointers to slots, it calls other generated functions with the arguments at
the bottom of its frame, and it calls the IRT through a table it asked for.

**What is hard here.** Everything runs in one thread, and nothing is persisted:
there are no interleavings, crashes or messages. The hazards are of three other
kinds.

* *Order and staleness in generated code.* A phi node means a simultaneous
  assignment but is copied by a sequence of moves, made before the branch is
  decided; slots narrower than a word hold garbage above their type.
* *Agreement between places that never call each other.* Caller and callee
  compute argument offsets separately, one loop measures what another stores, a
  relocation is recorded with one meaning of its position and applied later.
* *Limits.* Buffers of a fixed size, an argument area of a fixed size, and
  arithmetic at the widths of the types.

**What makes each component correct.** Branches: the code takes the branches and
returns the words the SSA form prescribes. Frames: slots and arguments never
overlap, and caller and callee agree. Linking: every word that names a block or
a symbol ends up right, for exactly the modules that fit and name only placed
symbols. Instructions: each computes the IR's value whatever the upper bits
hold. Calls: a frame is popped as it was pushed, and the argument area is at
`%esp` at every call. Initialisers: every field is at the offset the data layout
gives it, and translation stops exactly at what cannot be written. Varargs: `va_arg`
reads what the call stored. Expansion: every instruction goes on meaning what it
meant, nothing is left to expand, and the module is valid in the end. Loader: the
program finds the query function, and a call by position reaches the function of that
name. The full list of hazards, each with its line and its properties, is in
`PROJECT.json`.

## 2. Modules

| Module | Contents |
|---|---|
| `ControlFlow` | the data of the first component: functions as blocks of phi nodes and a terminator, operands, well-formedness, and `PhiSafe` |
| `SSA` | abstract: branches assign all phi nodes at once |
| `Branches` | the code of terminators, on registers and slots |
| `BranchesProofs` | theorems about `Branches` |
| `Layout` | abstract: where slots and arguments are, in closed form |
| `FrameLayout` | the loops of `translate_function()` and the argument stores of `translate_instruction()` |
| `FrameLayoutProofs` | theorems about the loops |
| `SharedLemmas` | lemmas that several proofs cite: the members of a set in a prefix of the naturals, induction, functions defined by recursion, and the closed form of `Layout` |
| `Calls` | abstract: activations with values of their own, without a stack |
| `CallStack` | the code of calls, alloca and returns, on the words of the stack, with the convention of `Layout` |
| `CallStackProofs` | theorems about `CallStack` |
| `Linking` | abstract: the image of a linked module, in closed form |
| `Relocations` | `translate()` as it writes buffers and tables and applies relocations |
| `RelocationsProofs` | theorems about `Relocations` |
| `IRValues` | abstract: what integer instructions mean |
| `Instructions` | the code for them, on registers and slots, with the helpers |
| `DataLayout` | sizes, alignments and field offsets of types, as LLVM's `DataLayout` gives them |
| `Initialisers` | `write_global()` and `expand_constant()` as they write the data segment |
| `InitialisersProofs` | theorems about `Initialisers` |
| `Expansion` | the passes over a function's IR: constant expressions, getelementptr, memory intrinsics |
| `VariadicCalls` | abstract: activations with lists of variable arguments, without buffers |
| `VarArgs` | the code that `expand_varargs.cc` makes of them, on buffers and pointers |
| `VarArgsProofs` | theorems about `VarArgs` |
| `IRT` | abstract: a runtime whose functions are called by name |
| `Loader` | the start-up record, the tables of functions, the query, and the functions |
| `LoaderProofs` | theorems about `Loader` |
| `MC...` | the instances that TLC checks |

### Branches (terminators and phi nodes)

The model runs the generated code of one function. `slots` has the words of the
frame, two per i64; `regs` has the three registers the code uses; `blk`, `pc`,
`edge`, `phi` and `part` say where in the code of which block control is. An
action is one of the pieces that `handle_phi_nodes()` and
`translate_instruction()` emit: `CopyPart` is one load and one spill of a copy,
`TestBranch` the `testb $1, %al; jnz` of a conditional branch, `TestCase` the
comparison for one case of a switch, `UnconditionalJump` a `jmp`, `Return` the
loads in front of `leave; ret`. The copies for a successor come before the test
that may jump to it, as at lines 929 and 954. `RunBody` stands for the other
instructions of a block, which write only their own slots; what they compute is
any value, so the properties hold whatever it is.

*Aliases.* For bitcast, trunc, ptrtoint and inttoptr no code is emitted and no slot is
laid out (`codegen.cc` 1060, 1249): whoever reads one reads the slot of what it aliases
(259). `slots` has no words for them, and every load of the code is `Loaded`, which follows the
aliases to their `Origin` first. So the value of an alias of a phi node changes
when the phi node's slot is written, whatever SSA form says of the two.

`env` is a history variable with the words that SSA form prescribes, of aliases too: an
alias is given its operand's words once, when its block computes it. `SSA` is the
language's meaning of the same function; `Branches` is shown to implement it with
`at` mapped to "term" while the code of a terminator runs.

**What the code gets wrong, and the condition under which it is right.** Two runs
find functions for which the copies are wrong: `PhiSwap` (two phi nodes that
exchange their values) and `LostCopy` (a phi node that is read after the loop).
The passing runs and the proofs are about the functions that satisfy `PhiSafe`:
no phi node is copied from an earlier phi node of its block, and nothing that an
edge reads or leaves live, and no condition of a branch, was overwritten for an edge that
is visited before it. All three look through aliases (`ReadsSlot`). They reject a branch
on `c = trunc p` if `p` is a phi node of its first successor, an alias of `p` that is
read after such a branch, and a phi node that is copied from an alias of an earlier one of
its block: in each the code reads the slot of `p` after it has been overwritten.
These conditions are on the function only, not on the state of the run, so they
say for which inputs the terminators' code can be trusted.

`WellFormed` is what the LLVM verifier guarantees: aliases are not circular, and what an
alias stands for is defined before it on every path, so that it is not computed anew
while the alias is live (`AliasesDominated`).

### Layout, FrameLayout (stack frames)

The model runs the generator on one function. `phase` is the loop that runs
("scan", "params", "locals", "emit"), `inst` and `arg` its iterators, `offset` the
running sum that the code calls `size`, `arg_offset` or `stack_offset`. The scan
counts call instructions only; a 64-bit operation, which calls a helper with three
pointers, relies on `kMinCalleeArgsSize`. Instructions that are aliases of their
operand get no slot. `Layout` has the same offsets in closed form; `CallStack` uses
it, so what `FrameLayout` computes and what the code runs on are one definition.

### Calls, CallStack (calls at run time)

The model runs the generated code of a program. `mem` has the words of the stack by
address, `esp`, `ebp`, `eax` and `edx` the registers, `fn` and `pc` the instruction;
`arg` is the operand of a call that is stored next. `Prolog` is the three instructions
at a function's entry, `StoreArgument` the load and store of one operand, `Call` the
`call *%eax` that pushes a return address, `SpillResult` what follows it, `Alloca` the
`subl` and `leal`, `Return` the loads of the result and `leave; ret`. A return goes
where the return address in memory says, not where a model of the call knows it should
go: `CodeAddress` numbers the functions and the points behind calls. `Operate` and
`CallHelper` stand for everything that computes a value; `Store` writes through a pointer
into an object of this or another activation. An operand is a constant or a value of the
type that its instruction takes. Instructions whose value is an alias
have no part here. Words below `%esp` are dropped when a
function returns. `callers`, `base` and `objects` are history variables.

`Calls` has a stack of activations, each with an environment of its own, in which a value
that has not been computed is undefined and may be anything. `CallStack`
implements it with the environment of an activation read from the slots of its frame.
The size of the area for outgoing arguments is assumed to be large enough for each call
(`ProgramsAssumption`); `OutgoingArgumentsFit`, a theorem, is what makes it so.

A program that stores through a pointer to anything but one of its objects can
overwrite a frame, and no generator could prevent it. `StoresInObjects` says that every pointer
that a store uses leads to an object of an activation that has not returned. In the same way
`CallsReachFunctions` says that a program calls functions by pointers to functions that
have the type of the call. The run checks both of its programs, which hand pointers
through several frames; the theorems take them as premises.

### Linking, Relocations (buffers and linking)

The model runs `translate()` on one module. Addresses and words are numbers modulo
`AddressSpace`; the buffers are two ranges of them. Code other than jumps, calls and references is opaque: an "op" of some size.
`mem` has only the words that hold addresses or displacements. The assertions that
stop the generator are the action `Abort`: a full buffer (`put_alloc_space()` wants
a byte to spare), an extern_weak symbol that is not allowed, a relocation to a
symbol that was never placed. `Linking` says what the outcome should be without
tables or passes: the address of every symbol, block, word and constant as a sum of sizes
(`Offsets`), the word of every
reference, and which modules can be linked at all. `Relocations` is shown to
implement it: `done` with exactly that image, or `aborted` for exactly the modules
that are not linkable.

`ModulesAssumption` says what the verifier guarantees of a module: an extern_weak global
has no initialiser, a jump stays in its function. A name in the model stands for the
global or function itself (the code's tables are by pointer), so no two have one name.

### IRValues, Instructions (arithmetic)

The model runs a straight-line program. `slots` has two words per value, `memory`
a word per address. Every action is the whole code sequence of an instruction:
loads of operands (through chains of aliases), extension to 32 bits where the code
asks for it, the operation, the spill, and the garbage it leaves in registers. The
widths are constants, in the proportions that matter (a byte is narrower than a
half, a half than a word), so that TLC can enumerate operands. A 64-bit operation
calls a helper with pointers to the slots; an `atomicrmw` calls its helper with
registers. `Instructions` implements `IRValues` with `val` mapped to the low bits
of the slot each value is read from. A division by zero, an overflowing signed
division and a shift by the width or more have no defined result in the IR:
`IRValues` allows any value or a trap there. Intrinsics that are ignored do nothing;
an instruction that the generator reports as unhandled becomes a call that aborts when
it is reached, and `unreachable` a trap.

### DataLayout, Initialisers (the data segment)

The model runs the loop of `translate()` over the globals. The recursion of
`write_global()` is an `agenda` of what is still to be written: `StartGlobal` is one
turn of the loop, `WriteZero`, `WriteArray`, `WriteData`, `WriteStruct` and
`WriteScalar` the branches of `write_global()`, `WritePadding` the fill after a field,
`CheckSize` the assertion behind the call, `Finish` the end of the loop.
`data` is the segment by byte, `relocs` the words that wait for an address. The
assertions that stop translation are values of `outcome`: "global" for a definition
that is not supported, "constant" for an expression, "size" for a wrong size.
`data` stands for every `ConstantDataSequential`, of an array or of a vector, whose raw
bytes the code writes without a look at its type (`codegen.cc` 1091). A vector's are fewer than
its type's size if that is rounded up: a `<3 x i32>` has 12 bytes of 16. `StopsAtShortData`
says that the assertion at line 1319 stops translation for the globals that have
such a vector anywhere in them, and for no others.
`ImageCorrect` says of each finished global that every scalar is at the offset that
the data layout gives its field, and that every other byte is zero; `StopsAtUnsupported`
says that translation stops exactly at the globals that contain an expression it
cannot reduce, or a reference to a global with an offset that is not a word. The
segment has no end here; `Relocations` has one.

The set of constants, how deeply each is nested, and the data layout are parameters.
`WellFormed` says what the IR guarantees of a constant (its parts are constants of the
types that its own type asks for, it is nested to a finite depth, and raw data are as long
as their type in an array, not longer in a vector); `LaidOut` says what the code
relies on of a layout: the first field of a struct is at 0, fields do not overlap, and none
sticks out. TLC evaluates both assumptions with `DataLayout` as the layout, in which the alignment of
a vector is its size rounded up to a power of two. `Meaning` is
what a scalar stands for (the constant at the bottom of its expressions, a displacement, a
number) and `ByteOf` the bytes of an object; they are definitions by recursion over
the parts of a constant and share nothing with the agenda.

*Precondition.* `expand_constant()` passes casts through without a change (a TODO at
`codegen.cc` 112). `ImageCorrect` is stated for initialisers whose number casts keep
the number as it is (`Meaning[c].fits`).

### Expansion (the passes that rewrite a function)

The model runs the three passes of `translate()` on one function. `phase` is the pass
("constexpr", "gep", "mem"), `bb`, `pos` and `opnum` its iterators, `fresh` the number
of the next new instruction. `ExpandOperand` puts the instruction for one constant
expression in front of its user, or at the end of the predecessor block if the user is a phi
node; `NextInstruction` moves on, `ExpandGetElementPtr` replaces one getelementptr by
casts, multiplications and additions, `ExpandMemIntrinsic` one intrinsic by a call,
`EndBlock` ends a block or a pass. The first pass
finishes the whole function before the second begins. `MeaningKept` holds after
every step: each operand of each instruction evaluates to the number it did in the
original function, for sample values of what is not constant. It says nothing of the length
of an intrinsic that does not fit in a word: `codegen.cc` 1188 makes it an i32 without a
check. `FullyExpanded` is
about the end: no operand is a constant expression and no instruction is one that code
generation does not know.

`ModuleValid` characterises the functions for which the result passes the verifier:
those without an index that is not an i32, which is multiplied by an i32 constant
(`expand_getelementptr.cc` 71), and without a phi node that has a constant expression
twice for one predecessor, which gets two different instructions for it
(`expand_constantexpr.cc` 122). For the others `verifyModule()` at `codegen.cc` 1343
stops translation, so no wrong code is run.

### VariadicCalls, VarArgs (variable arguments)

The model runs a program after `expand_varargs.cc`. Each activation in `stack` has its
function, instruction, the argument that is stored next, the buffer it was passed and
the va_list it was passed. `mem` has a size and a value by pointer, which is an object
(the depth of its activation, buffer or va_list, a number) and an offset. `StoreArgument` is the
getelementptr into the packed struct and the store, `Call` passes the address of the
buffer, or nothing that is known if there are no variable arguments; `VaStart`, `VaCopy` and
`VaArg` read and write the pointer in a va_list. `va_end` is dropped. A value that is
partly overwritten is gone, so that a wrong layout shows. Buffers
are allocated once per activation, at its function's entry, and filled again by each
execution of their call.

`VariadicCalls` has lists of arguments instead. `VarArgs` implements it with a pointer
into a buffer mapped to the list of the arguments from there on. Only
what was passed is read, and as the type it was passed as: anything else is undefined in C. A function
starts and copies to va_lists of its own only, because a pointer to its caller's buffer may
not be left behind in a va_list that outlives it.

### IRT, Loader (the loader and its interfaces)

The model runs a program inside `run_program.cc`. `Enter` is the jump to `_start` with
the start-up record, `GrokAuxv` the program's walk through it (`grok_auxv()` in
`hellow_minimal_irt.c`), `InterfaceQuery` the call of
`irt_interface_query()` with a struct of some size, the other actions one per function in the tables: a
stub, exit, write, sysbrk, the thread pointer, sysconf, close and fstat. `MmapFails` is the
first sysbrk if there is no memory for the heap: the assertion behind `mmap()`
(`run_program.cc` 74) ends the program. The program
calls a function by its position in a struct that was copied to it; `Fields` is what the
program expects there (the declarations in `nacl_irt_interfaces.h`), `Tables` what the loader put
there. `IRT` has no tables: the program calls functions by name. `Loader`
implements it. What a function returns when it refuses (an error number, a stub's
abort) is the loader's own choice and the same in `IRT`: `ImplementsIRT` says that the call
reaches the function that it names, not that the number is the right one.

*Precondition.* `sysbrk()` checks the upper limit only (`run_program.cc` 80), and this is the
half of `BreakInArea` that is the code's doing. The other half is the program's: in the model it
asks for the break first and gives back no more than it took, as a `malloc()` does.

## 3. Runs

| Run | Shows |
|---|---|
| `Loops` | `LiveValuesKept`, `ImplementsSSA`, `TerminatorsComplete` for every `PhiSafe` loop of four families: two phi nodes in the loop and one at its exit, with i32 and i1 values; the same with aliases of phi nodes, as conditions, incoming operands and returned values; switches with garbage in the condition, cases with a common destination, and a value carried to the default; i64 values copied and returned in two parts |
| `PhiSwap` | violated `LiveValuesKept`: sequential copies (`codegen.cc` 517) |
| `LostCopy` | violated `ImplementsSSA`: copies for an edge that is not taken (`codegen.cc` 929) |
| `FrameLayout` | `SlotsDisjoint`, `OutgoingArgsFit`, `CallerCalleeAgree`, `LayoutComputed` |
| `CallStack` | `FramesLinked`, `ObjectsApart`, `StoresInObjects`, `CallsReachFunctions`, `ReturnRestoresCaller`, `ImplementsCalls` |
| `Relocations` | `SitesDisjoint`, `JumpsLand`, `ReferencesResolved`, `ImplementsLinking`; deadlock is checked, so translation never gets stuck between two assertions |
| `Integers` | `ImplementsIR` for 8, 16, 32 and 64 bits, mixed widths in memory, atomics, and instructions that are ignored or not handled |
| `SelectLowBit` | violated `ImplementsIR`: a select tests eight bits of an i1 (`codegen.cc` 912) |
| `VarArgs` | `ListsAtArguments`, `ImplementsVarArgs` |
| `Initialisers` | `ImageCorrect`, `StopsAtShortData`, `StopsAtUnsupported` |
| `Expansion` | `MeaningKept`, `ModuleValid`, `FullyExpanded` |
| `Loader` | `NothingOverwritten`, `BreakInArea`, `HeapStays`, `QueryFound`, `ImplementsIRT` |

Every passing run except `Integers` checks its module's `TypeOK` as well.

**Bounds.** *Branches*: two or three blocks, three phi nodes of which two share a
block. An interference of copies involves two phi nodes (of one block, or of two
successors of a block), so two and one are enough to show each kind; the proofs
remove the bound. Words are 0..3, with an i8 of one bit, so that two of the words
are a zero and a one with garbage above. Aliases are of a phi node, of another
alias, or of a constant, computed in the loop or before it. Slots start at 0 and every value is
defined before it is read. *FrameLayout*: two parameters, three instructions, two
arguments per call: with two i64 arguments a call needs 16 bytes, more than the
minimum of 12, and with fewer it does not. Removed by the proofs. *CallStack*: four
functions, called up to four deep, of which one is twice on the stack with two different
callees; two instructions of a menu between an alloca and the return; calls with no, 12
and 16 bytes of arguments. `StackLimit` keeps loops that allocate finite and leaves room
for the deepest chain. *Relocations*:
a global of two pieces, two functions, three words of operations per block; the
buffers are sized so that some of these modules fill them and some do not, and the
offsets 250 and 255 make additions wrap. Removed by the proofs. *Instructions*: 3, 4 and 6 bits for 8, 16 and 32; six operands
including zero, one, the sign bits and all ones; two garbage patterns. *VarArgs*: a
loop around a call with three or two arguments of two sizes; the variadic
function's body is up to three of seven instructions, so that it reads, copies, passes on
and calls itself in every order that is defined; four activations, enough for a list
that is read in a called function after its owner, or a recursive call of it, has advanced
another copy. Removed by the proofs.
*Initialisers*: bytes of four values, so that a word holds up to 255 and offsets wrap;
all structs of up to three fields of nine kinds (two are vectors, one of them shorter
than its type), packed or not, and those of up to two
inside another struct, twice in an array, which gives padding between fields and
at both ends; up to
three expressions around each of eight bases. Removed by the proofs. *Expansion*: up to three blocks, constant
expressions in any operand and inside each other, phi nodes with one predecessor twice;
words of six bits, with samples 1 and 70, of which the second does not fit. *Loader*:
two interfaces queried, a heap of two units, so that it is filled, given back, and
asked for too much.

Runs other than `Relocations` do not check for deadlock, because a function that has
returned and a program that has ended have nothing left to do.

**Fairness.** `TerminatorsComplete` needs `WF_vars(Next)`, which says that
the processor goes on executing. Nothing is assumed about which branch is taken, and
the property is about the code of one terminator, not about loops of the program.
`QueryFound` needs `WF_vars(Enter \/ GrokAuxv)`: the program's start-up code does not
stop before it has found the query function. It fails if the walk through the record
misses the end of the vector or takes the wrong word for it.

**Mutants.** A definition `Name_Variant` next to `Name` is the form it would have with
a plausible bug: a copy left out, a whole byte tested, a relocation applied at the
wrong word. Substituting one for the other breaks the property that `PROJECT.json`
lists with it, under the same configuration.

## 4. Proofs

All theorems are about `Spec` of the component's module, for every value of the
constants that satisfies the module's `ASSUME`s.

**BranchesProofs.** Assumption: `FunctionsAssumption` (the functions are well formed:
what the LLVM verifier guarantees); for the last two also `AllPhiSafe`.
`TypeCorrect` proves `TypeOK`. `LiveValuesAreKept` and `BranchesImplementSSA` rest on
one inductive invariant. `LiveValuesKept` alone is not inductive: it speaks of the
start of a block, and while copies run the slots of phi nodes run ahead of `env`.
The strengthening says, for each point in the copies of an edge, which cells have
the value SSA form will give them after this edge (the phi nodes copied so far, and
the parts of the current one), that every cell outside the clobbered phi nodes still
agrees with `env`, and that `%eax` holds the condition of a switch. `PhiSafe` is used
where a copy reads an operand: it is not among the clobbered cells. As the code reads the
origin of an operand and SSA form the operand, the invariant says that these have the same
words in `env` (`AliasesAgree`). A block that computes several aliases, of each other perhaps, keeps
this by induction on how deep they are nested: of the aliases that differ from their
origin one is least deep, and its operand cannot differ (`ResultsFollow`, `LeastNumber`);
`AgreeingPart` then reads any operand through its origin. A step of a
terminator's code then either stutters in `SSA` or, when it jumps, is its `Branch`.

**FrameLayoutProofs.** Lemmas in `SharedLemmas` state that the sums of the closed form grow
by one argument's size and are monotonic; they rest on two that count the members
of a prefix (`CountStep`, `CountMonotone`) and on `FiniteSetTheorems`. The inductive
invariant says that each loop's running sum is the closed form of the prefix it has passed, and that `frame_callees_args_size` is at least the size
of every call scanned; the disjointness of slots, the fit of arguments and the
agreement of caller and callee follow from the closed form.

**CallStackProofs.** Assumptions: `ProgramsAssumption` (well-formed programs, each call's
arguments fit the caller's area), `CodeAddressAssumption` (no two points of the code have
one address), `WordsAssumption` (there are data, and the stack's words have addresses). The theorems are of the form
`Spec /\ []StoresInObjects => []Inv`: they are about programs whose stores stay in
their objects. `FramesLinked` is not inductive: it says what the saved words are, but
not that a slot, an outgoing argument or an object is elsewhere. The inductive invariant
is `TypeOK`, `Frames` (the frames of the activations lie below each other, each between its
`base` and the next), `Linked` (the saved words are those of the history, and the registers
are the innermost activation's) and `Objects` (every object lies in its frame, between
the slots and the area for arguments). Each store then goes to one frame and one of
its parts, and leaves all saved words as they are. `ReturnRestoresCaller` follows from
`Linked`, because `leave; ret` takes its three words from memory.

`CallsAreImplemented` has `CallsReachFunctions` as a second premise and needs three more
invariants. `Above`: nothing has been written below `%esp`, so that the slots of a new
frame are undefined, as the values of a new activation are. `CallsTyped`: each activation
has the function whose parameters are the types of its caller's operands, so that
the parameters lie within the caller's area for arguments. `ArgumentsPassed`: the
operands that a call has stored so far are in that area. Each
action is then the action of the same name in `Calls`, or a stutter. The work is in what
an action leaves alone: a write that is apart from the slots and parameters of an
activation keeps its values (`ApartKeeps`), and this is shown for a write below the
frame, in the area for arguments, in an object of the activation itself and in an object
of any of its callers.

**RelocationsProofs.** The inductive invariant `IInv` adds to the properties that, until the
passes begin, every jump's word is a placeholder and every reference's word is its
offset (`NothingApplied`), that each entry of the history has exactly one relocation
(`TablesComplete`, `RelocsDistinct`), and which prefix of the relocations has been
applied (`JumpsApplied`, `RefsApplied`). It shows that a reference is added to once and
only once although the code has no guard against a second time.

`TranslationIsLinking` proves `ImplementsLinking` and needs to know where everything is. A
position in `Linking` is a sum of the sizes before it, so the first lemmas say
that the sums begin at 0, grow by one size at a time and never exceed the total
(`OffsetsFacts`). This is an induction over a sequence, and is proved without an
induction rule: a set of numbers that misses one has a least number that it misses
(`SetInduction` in `SharedLemmas`). From it follows how globals, functions, blocks, items and
constants lie behind each other (`GlobalsAreLaidOut`, `CodeIsLaidOut`,
`ConstantsAreLaidOut`). The inductive invariant `PlacesInv` adds to `IInv` that the two
positions are those of the closed form (`AtPlace`), that the symbols, labels, items and pieces
before them have been recorded at their places (`SymbolsPlaced`, `LabelsPlaced`, `ItemsPlaced`,
`PiecesPlaced`), and that no word is anywhere else (`OnlyPlaces`). A translation that
finishes has then written exactly the image. One that is stopped by a full buffer is at a
position that is not beyond the module's total size, so the module does not fit; one that is
stopped by a relocation was stopped by a symbol that nothing in the module has, since
every block of a jump has its label by then (`AbortIsNotLinkable`).

**VarArgsProofs.** Assumptions: `ProgramsAssumption` (what the verifier checks, and
that va_lists are started by their own function), `UnknownAssumption`. The
offsets in a packed struct are increasing by the sizes of the arguments (`PackedStep`), from
which follows that no two arguments start at one offset and none overlaps another. The inductive
invariant `IInv` is `Control` (program counters, and every activation but the last is at a call),
`Parameters` (the buffer an activation was passed is that of the call below it, and its
va_list one of an activation below), `Arguments` (the arguments of every pending call are in their
buffer) and `Memory` (every entry is an argument or a va_list, and a va_list points into
the buffer of a call below its owner). `Memory` is what `ListsAtArguments` needs to be inductive: a buffer is
filled again only after every list into it is gone, because the list's owner has returned.
`VarArgsImplementCalls` maps each action to the action of the same name, and
`StoreArgument` to a stutter: the mapping of a pointer does not change while its call is
pending, and the buffers that are being filled are not seen by any list.

**InitialisersProofs.** Assumptions: `ConstantsAssumption`, `LayoutAssumption`,
`ByteAssumption` and `ProgramsAssumption` (every initialiser is among the constants);
nothing bounds the constants' number, size or depth. The proof has three parts.

*The definitions by recursion.* A function that is written as `f[c \in Constants] == ...
f[p] ...` is only a choice of a function that solves the equation, so it has first to be
shown that there is one. `RecursionDefined` (in `SharedLemmas`) does this for every
equation whose right-hand side asks only about constants of less depth, by induction on
the depth; the lemmas `ExpandDefined`, `MeaningDefined`, `LeavesDefined` and
`ByteOfDefined` apply it. Then `ExpansionAgrees` shows that `expand_constant()`, which
adds modulo 64 bits and passes casts through, comes to the base and displacement of
`Meaning`, and where the casts fit to its number.

*The bytes of aggregates.* `ElementBytes`, `FieldBytes`, `GapBytes` and `DataBytes` say
what the bytes of an array, of a field, between and behind the fields, and of raw data
are. `PaddingFacts` is about the difference of unsigned numbers that the code pads by:
it does not wrap.

*The invariant.* None of `ImageCorrect`, `StopsAtShortData` and `StopsAtUnsupported` is
inductive: they speak of finished globals, and the agenda could hold anything. `IInv`
adds `OnPlan`: there is a plan that gives each task of the agenda its place in the
initialiser, each next one where the one before
ends, the last the size check at the end of the type; what a task writes belongs there
(`Placed`). The first is where the segment ends now, or beyond it if short data has been
written (`Reached`); then the size check fails, and it fails only then (`StoppedShort`). Every leaf of the initialiser is supported or is still part of a task. The
actions that open an aggregate replace one task by a list that covers the same bytes
(`Split`, `PlanDescends`), the others carry out the first (`PlanAdvances`). `ImageSoFar`
says that what has been written of an object without short data is right so far, the
half-finished one included, and `GoodSoFar` that every global that was finished could be, and
has no short data.

**LoaderProofs.** Assumptions: `QueryAddressAssumption`, `AddressAssumption`. The
inductive invariant is `TypeOK`, `InVector` (where the walk through the record can be),
`Copied` (a struct that was provided holds the table's words, field by field),
`NothingOverwritten` and `Heap` (the area, its limits and the program's base agree).
`LoaderImplementsIRT` uses `Copied` to show that a call by position is the call by name.

**Only model-checked.** `TerminatorsComplete` and `QueryFound` (liveness),
`StoresInObjects` and `CallsReachFunctions` (properties of the program that
runs, and premises of theorems), and everything about `Instructions` and
`Expansion`, whose programs and constant expressions are read by recursive operators.

## 5. Not modelled

*Floating point.* Doubles can be constants and can be returned, but have slots of one
word, and what else is done with them the generator reports as unhandled. The test for a store of a double
(`codegen.cc` 835) looks at the type of the store itself, which is void; it never fires.

*Symbols by name* (`codegen.cc` 1349): of the globals that have no name, or the same, the
caller of `translate()` gets the last. No caller in the repository looks up such a name.

*Input and output*: the command line, the reading of a file, log messages, code dumps
and `objdump`. They change no state that the models have.

*Alignment*, which the generator ignores except in the data layout, and function attributes.

*The encoding of instructions*: an action is what the bytes do.

*Tests and build scripts*, which were read for what they claim of the code.

## 6. Plan

What would extend this work, in this order:

1. Proofs about `Expansion`: first that `ExpandOperand` keeps the meaning of every operand.
   Its recursive operators would become functions over the set of constant expressions, as
   in `Initialisers`; `RecursionDefined` serves both.
2. Doubles, once the generator has slots for them.
