---------------------------------- MODULE IRT ----------------------------------
(***************************************************************************)
(* What a NaCl program is promised by the runtime it runs on: once started *)
(* it may ask for interfaces, and call the functions of those it was       *)
(* given, by their names.  There are no tables and no pointers.            *)
(***************************************************************************)
EXTENDS Integers, Sequences

CONSTANTS
  Fields,        \* the names of the functions of each interface, in order
  Implemented,   \* the functions that do something
  Addresses, Values, WriteCount, Nothing

VARIABLES
  status,    \* "startup", "running", "exited" or "aborted"
  provided,  \* the interfaces the program was given
  heap,      \* [start, break, max] of the heap, or Nothing
  tls,       \* the thread pointer
  answer     \* what the last call said

vars == <<status, provided, heap, tls, answer>>

Init ==
  status = "startup" /\ provided = {} /\ heap = Nothing /\ tls = Nothing /\ answer = Nothing

Start ==
  /\ status = "startup" /\ status' \in {"running", "aborted"}
  /\ UNCHANGED <<provided, heap, tls, answer>>

Obtain ==
  /\ status = "running"
  /\ \E i \in DOMAIN Fields : provided' = provided \cup {i}
  /\ UNCHANGED <<status, heap, tls, answer>>

(* The program calls a function it has, and is answered.                    *)
Call(name, a) ==
  /\ status = "running"
  /\ \E i \in provided : \E k \in DOMAIN Fields[i] : Fields[i][k] = name
  /\ answer' = <<name>> \o a
  /\ UNCHANGED provided

Unimplemented ==
  /\ \E i \in DOMAIN Fields : \E k \in DOMAIN Fields[i] :
       /\ Fields[i][k] \notin Implemented
       /\ Call(Fields[i][k], <<"unimplemented", Fields[i][k]>>)
  /\ status' = "aborted" /\ UNCHANGED <<heap, tls>>

Exit == Call("exit", << >>) /\ status' = "exited" /\ UNCHANGED <<heap, tls>>

(* The heap appears at the first call, or the program ends there.           *)
NoHeap ==
  /\ heap = Nothing
  /\ Call("sysbrk", <<"no heap">>)
  /\ status' = "aborted" /\ UNCHANGED <<heap, tls>>

(* The break is moved or reported, and to go beyond the end of the heap is  *)
(* fatal.                                                                   *)
Heaps ==
  IF heap # Nothing THEN {heap}
  ELSE {[start |-> a, break |-> a, max |-> m] : a \in Addresses, m \in Addresses}

Sysbrk ==
  /\ \E h \in Heaps :
       \/ Call("sysbrk", <<"break", h.break>>) /\ heap' = h /\ UNCHANGED status
       \/ \E a \in Addresses :
            IF a <= h.max
            THEN Call("sysbrk", <<"break", a>>) /\ heap' = [h EXCEPT !.break = a] /\ UNCHANGED status
            ELSE Call("sysbrk", <<"refused", a>>) /\ heap' = h /\ status' = "aborted"
  /\ UNCHANGED tls

TlsInit ==
  /\ Call("tls_init", <<"ok", 0>>)
  /\ \E v \in Values : tls' = v
  /\ UNCHANGED <<status, heap>>

(* A program may also read the thread pointer with an intrinsic.            *)
TlsGet ==
  /\ status = "running" /\ answer' = <<"tls_get">> \o <<"thread", tls>>
  /\ UNCHANGED <<status, provided, heap, tls>>

(* The number written is reported, or an error, which is always the same.   *)
WriteFile ==
  /\ (\E n \in 0 .. WriteCount : Call("write", <<"written", n>>)) \/ Call("write", <<"error", 1>>)
  /\ UNCHANGED <<status, heap, tls>>

Sysconf ==
  /\ Call("sysconf", <<"pagesize", 65536>>) \/ Call("sysconf", <<"error", -22>>)
  /\ UNCHANGED <<status, heap, tls>>

Ignored ==
  /\ Call("close", <<"error", -38>>) \/ Call("fstat", <<"error", -38>>)
  /\ UNCHANGED <<status, heap, tls>>

Next ==
  \/ Start \/ Obtain \/ Unimplemented \/ Exit \/ NoHeap \/ Sysbrk
  \/ TlsInit \/ TlsGet \/ WriteFile \/ Sysconf \/ Ignored

Spec == Init /\ [][Next]_vars
================================================================================
