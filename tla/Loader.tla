-------------------------------- MODULE Loader --------------------------------
(***************************************************************************)
(* run_program.cc and the program it starts.  main() hands the program a   *)
(* record of words, in which the program looks for the function that gives *)
(* out interfaces; what it is given are tables of functions, which it      *)
(* copies into structs of its own and calls by their position.             *)
(*                                                                         *)
(* The two sides agree only through nacl_irt_interfaces.h: Fields and      *)
(* AuxvIndex are the program's reading of it, Tables and Info the          *)
(* loader's.  A word behind each of the program's structs is not the       *)
(* interface's.                                                            *)
(*                                                                         *)
(* A definition Name_Variant is a faulty form of the Name it precedes; no  *)
(* specification uses it.                                                  *)
(***************************************************************************)
EXTENDS Integers, SequencesExt, FiniteSets

CONSTANTS
  Addresses,      \* numbers, in units of the heap's granularity
  SysbrkSize,     \* 16 MB, in these units
  Values,         \* thread pointers
  WriteCount,     \* what the program wants to write
  MaxInterfaces,  \* a bound on the interfaces that the program gets
  QueryAddress, Nothing

ASSUME QueryAddressAssumption == QueryAddress \in Nat \ {0}
ASSUME AddressAssumption ==
  /\ Addresses \subseteq Int /\ SysbrkSize \in Nat /\ Nothing \notin Addresses
  /\ \A a, b, m \in Addresses : [start |-> a, break |-> b, max |-> m] # Nothing

VARIABLES
  status, av, query,      \* the program's start: where it is in info, what it found
  structs,                \* the program's copies of the tables
  provided,               \* the interfaces for which the query returned a size
  sysbrk_current, sysbrk_max, start,   \* start is where the area was mapped
  base,                   \* where the program's heap starts, as it was told
  tls_thread_ptr,
  answer                  \* what the last call returned, or said

vars == <<status, av, query, structs, provided, sysbrk_current, sysbrk_max, start,
          base, tls_thread_ptr, answer>>
memory == <<sysbrk_current, sysbrk_max, start, base>>
startup == <<av, query>>

(* The structs of the interfaces.                                           *)
Fields ==
  [basic |-> <<"exit", "gettod", "clock", "nanosleep", "sched_yield", "sysconf">>,
   fdio |-> <<"close", "dup", "dup2", "read", "write", "seek", "fstat", "getdents">>,
   filename |-> <<"open", "stat">>,
   memory |-> <<"sysbrk", "mmap", "munmap">>,
   dyncode |-> <<"dyncode_create", "dyncode_modify", "dyncode_delete">>,
   tls |-> <<"tls_init", "tls_get">>,
   blockhook |-> <<"register_block_hooks">>]

(* The initialisers of the loader's tables.                                 *)
Stub(name) == <<"stub", name>>
Irt(name) == <<"irt", name>>
irt_fdio_WriteFirst ==
  <<Irt("close"), Stub("dup"), Stub("dup2"), Irt("write"), Stub("read"),
    Stub("seek"), Irt("fstat"), Stub("getdents")>>
irt_fdio ==
  <<Irt("close"), Stub("dup"), Stub("dup2"), Stub("read"), Irt("write"),
    Stub("seek"), Irt("fstat"), Stub("getdents")>>
Tables ==
  [basic |-> <<Irt("exit"), Stub("gettod"), Stub("clock"), Stub("nanosleep"),
               Stub("sched_yield"), Irt("sysconf")>>,
   fdio |-> irt_fdio,
   filename |-> <<Stub("open"), Stub("stat")>>,
   memory |-> <<Irt("sysbrk"), Stub("mmap"), Stub("munmap")>>,
   dyncode |-> <<Stub("dyncode_create"), Stub("dyncode_modify"), Stub("dyncode_delete")>>,
   tls |-> <<Irt("tls_init"), Irt("tls_get")>>,
   blockhook |-> <<Stub("register_block_hooks")>>]

irt_interfaces == <<"basic", "fdio", "filename", "memory", "dyncode", "tls", "blockhook">>

(* struct startup_info, with empty argv and envp: the words of its fields.  *)
AT_NULL == 0
AT_SYSINFO == 32
Info_OneEntry == <<0, 0, 0, 0, 0, AT_SYSINFO, QueryAddress>>
Info == <<0, 0, 0, 0, 0, AT_SYSINFO, QueryAddress, AT_NULL, 0>>

(* nacl_startup_auxv(): behind argv, envp and the null pointers that end    *)
(* them.                                                                    *)
EnvcWord == Info[2]
ArgcWord == Info[3]
AuxvIndex_NoNulls == 4 + ArgcWord + EnvcWord
AuxvIndex == 4 + (ArgcWord + 1) + (EnvcWord + 1)

Behind == <<"other", "word">>
Empty == <<"other", "zero">>

Init ==
  /\ status = "loading" /\ av = 0 /\ query = 0
  /\ structs = [i \in DOMAIN Fields |-> << >>] /\ provided = {}
  /\ sysbrk_current = Nothing /\ sysbrk_max = Nothing /\ start = Nothing /\ base = Nothing
  /\ tls_thread_ptr = Nothing /\ answer = Nothing

(* The module has a function _start, or the assertion stops main().         *)
Enter ==
  /\ status = "loading"
  /\ status' \in {"grok_auxv", "aborted"}
  /\ av' = AuxvIndex
  /\ UNCHANGED <<query, structs, provided, memory, tls_thread_ptr, answer>>

GrokAuxv ==
  /\ status = "grok_auxv"
  /\ \/ /\ Info[av] # AT_NULL
        /\ query' = IF Info[av] = AT_SYSINFO THEN Info[av + 1] ELSE query
        /\ av' = av + 2 /\ UNCHANGED status
     \/ /\ Info[av] = AT_NULL
        /\ status' = "running" /\ UNCHANGED startup
  /\ UNCHANGED <<structs, provided, memory, tls_thread_ptr, answer>>

(* irt_interface_query() for a struct of n words: it copies the table if it *)
(* fits, and returns 0 for a shorter struct, as for an unknown interface.   *)
Fits_Always(ident, n) == TRUE
Fits(ident, n) == Len(Tables[ident]) <= n

Overlaid(struct, words) ==
  [k \in DOMAIN struct |-> IF k <= Len(words) THEN words[k] ELSE struct[k]]

InterfaceQuery ==
  /\ status = "running" /\ query = QueryAddress
  /\ \E i \in DOMAIN irt_interfaces, d \in {-1, 0, 1} :
       LET ident == irt_interfaces[i]
           n == Len(Fields[ident]) + d
           struct == [k \in 1 .. n |-> Empty] \o <<Behind>>
       IN /\ ident \notin provided
          /\ Cardinality(provided) < MaxInterfaces
          /\ IF Fits(ident, n)
             THEN /\ structs' = [structs EXCEPT ![ident] = Overlaid(struct, Tables[ident])]
                  /\ provided' = provided \cup {ident}
             ELSE /\ structs' = [structs EXCEPT ![ident] = struct]
                  /\ UNCHANGED provided
  /\ UNCHANGED <<status, startup, memory, tls_thread_ptr, answer>>

(* The program calls the function in a field of a struct it was given: the  *)
(* answer goes to a caller that took it for the function of that name.      *)
Call(function, a) ==
  /\ status = "running"
  /\ \E i \in provided : \E k \in DOMAIN Fields[i] :
       structs[i][k] = function /\ answer' = <<Fields[i][k]>> \o a
  /\ UNCHANGED <<startup, structs, provided>>

StubFunc ==
  /\ \E name \in UNION {Range(Fields[i]) : i \in DOMAIN Fields} :
       Call(Stub(name), <<"unimplemented", name>>)
  /\ status' = "aborted" /\ UNCHANGED <<memory, tls_thread_ptr>>

irt_exit ==
  /\ Call(Irt("exit"), << >>)
  /\ status' = "exited" /\ UNCHANGED <<memory, tls_thread_ptr>>

(* The area is mapped at the first call.                                    *)
NewAreas ==
  {[start |-> a, current |-> a, max |-> a + SysbrkSize] :
     a \in {x \in Addresses : x + SysbrkSize \in Addresses}}
Mapped_Always == NewAreas
Mapped ==
  IF sysbrk_current # Nothing
  THEN {[start |-> start, current |-> sysbrk_current, max |-> sysbrk_max]}
  ELSE NewAreas

Allowed_Any(brk, max) == TRUE
Allowed(brk, max) == brk <= max

SetHeap(area, current) ==
  /\ start' = area.start /\ sysbrk_max' = area.max /\ sysbrk_current' = current

(* The area cannot be mapped: the assertion behind mmap() stops the program.*)
MmapFails ==
  /\ sysbrk_current = Nothing
  /\ Call(Irt("sysbrk"), <<"no heap">>)
  /\ status' = "aborted" /\ UNCHANGED <<memory, tls_thread_ptr>>

(* A program asks for the break first, and gives back no more than it took. *)
irt_sysbrk ==
  /\ \E area \in Mapped :
       \/ /\ SetHeap(area, area.current)
          /\ base' = IF base = Nothing THEN area.current ELSE base
          /\ Call(Irt("sysbrk"), <<"break", area.current>>) /\ UNCHANGED status
       \/ \E brk \in Addresses :
            /\ base # Nothing /\ brk >= base
            /\ \/ /\ Allowed(brk, area.max)
                  /\ SetHeap(area, brk)
                  /\ Call(Irt("sysbrk"), <<"break", brk>>) /\ UNCHANGED status
               \/ /\ ~Allowed(brk, area.max)
                  /\ SetHeap(area, area.current)
                  /\ Call(Irt("sysbrk"), <<"refused", brk>>) /\ status' = "aborted"
            /\ UNCHANGED base
  /\ UNCHANGED tls_thread_ptr

runtime_tls_init ==
  /\ Call(Irt("tls_init"), <<"ok", 0>>)
  /\ \E v \in Values : tls_thread_ptr' = v
  /\ UNCHANGED <<status, memory>>

(* It is also what llvm.nacl.read.tp is translated to.                      *)
runtime_tls_get ==
  /\ \/ Call(Irt("tls_get"), <<"thread", tls_thread_ptr>>)
     \/ /\ status = "running" /\ answer' = <<"tls_get">> \o <<"thread", tls_thread_ptr>>
        /\ UNCHANGED <<startup, structs, provided>>
  /\ UNCHANGED <<status, memory, tls_thread_ptr>>

(* write() of the host gives the number written or -1.                      *)
irt_write ==
  /\ \E result \in -1 .. WriteCount :
       Call(Irt("write"), IF result < 0 THEN <<"error", -result>> ELSE <<"written", result>>)
  /\ UNCHANGED <<status, memory, tls_thread_ptr>>

(* The name is one of an enumeration, in which the page size comes third.   *)
(* -EINVAL is -22, and -ENOSYS -38.                                         *)
irt_sysconf ==
  /\ \E name \in 0 .. 3 :
       Call(Irt("sysconf"), IF name = 2 THEN <<"pagesize", 65536>> ELSE <<"error", -22>>)
  /\ UNCHANGED <<status, memory, tls_thread_ptr>>

irt_close_fstat ==
  /\ \E name \in {"close", "fstat"} : Call(Irt(name), <<"error", -38>>)
  /\ UNCHANGED <<status, memory, tls_thread_ptr>>

Next ==
  \/ Enter \/ GrokAuxv \/ InterfaceQuery \/ StubFunc \/ irt_exit \/ irt_sysbrk \/ MmapFails
  \/ runtime_tls_init \/ runtime_tls_get \/ irt_write \/ irt_sysconf \/ irt_close_fstat

(* The program's own start-up code does not stop.                           *)
Spec == Init /\ [][Next]_vars /\ WF_vars(Enter \/ GrokAuxv)
--------------------------------------------------------------------------------
(* The walk through the start-up record stays in it, and the program's      *)
(* structs hold functions.                                                  *)
TypeOK ==
  /\ status \in {"loading", "grok_auxv", "running", "exited", "aborted"}
  /\ status = "grok_auxv" => av + 1 \in DOMAIN Info
  /\ query \in {0, QueryAddress}
  /\ \A i \in provided : Len(structs[i]) > Len(Fields[i])

(* What lies behind a struct is not overwritten, whatever its size.         *)
NothingOverwritten ==
  \A i \in DOMAIN structs : structs[i] # << >> => Last(structs[i]) = Behind

(* The break stays between the start and the end of the area, for a program *)
(* that gives back no more than it took.                                    *)
BreakInArea ==
  sysbrk_current # Nothing => start <= sysbrk_current /\ sysbrk_current <= sysbrk_max

(* The area is mapped once and stays where it is.                           *)
HeapStays == [][start # Nothing => start' = start /\ sysbrk_max' = sysbrk_max]_vars

(* Unless the module has no _start, the program finds the function that     *)
(* gives out interfaces.                                                    *)
QueryFound == <>(status = "aborted" \/ (status = "running" /\ query = QueryAddress))

(* What the program sees of the runtime's state.                            *)
StatusSeen == IF status \in {"loading", "grok_auxv"} THEN "startup" ELSE status
HeapSeen == IF start = Nothing THEN Nothing
            ELSE [start |-> start, break |-> sysbrk_current, max |-> sysbrk_max]

Program == INSTANCE IRT WITH
  status <- StatusSeen, heap <- HeapSeen, tls <- tls_thread_ptr,
  Implemented <- {"exit", "sysconf", "close", "write", "fstat", "sysbrk", "tls_init", "tls_get"}

(* A call through the position of a field in the program's struct reaches   *)
(* the function of that name, or the stub that says its name.               *)
ImplementsIRT == Program!Spec
================================================================================
