------------------------------ MODULE LoaderProofs ------------------------------
(***************************************************************************)
(* Theorems about Loader, for all heaps and any number of interfaces: what *)
(* the query copies stays inside the program's struct, the break inside    *)
(* its area, and every call reaches the function of its name.              *)
(***************************************************************************)
EXTENDS Loader, TLAPS

(* The loader's tables agree with the structs in the order of the fields    *)
(* and the names of the stubs.                                              *)
Done == {"exit", "sysconf", "close", "write", "fstat", "sysbrk", "tls_init", "tls_get"}
Agrees(word, name) == word = IF name \in Done THEN Irt(name) ELSE Stub(name)

(* Two steps through the auxiliary vector reach its end.                    *)
InVector == status = "grok_auxv" => av \in {6, 8}

(* The structs that the program was given hold the loader's tables.         *)
Copied ==
  /\ provided \subseteq DOMAIN Fields
  /\ DOMAIN structs = DOMAIN Fields
  /\ \A i \in provided : \A k \in DOMAIN Fields[i] : structs[i][k] = Tables[i][k]

(* The program knows the break from the area's first call on.               *)
Heap ==
  IF start = Nothing
  THEN sysbrk_current = Nothing /\ sysbrk_max = Nothing /\ base = Nothing
  ELSE /\ {start, sysbrk_current, sysbrk_max} \subseteq Addresses
       /\ start <= sysbrk_current /\ sysbrk_current <= sysbrk_max
       /\ base # Nothing => base \in Addresses /\ start <= base

IInv == TypeOK /\ InVector /\ Copied /\ NothingOverwritten /\ Heap
--------------------------------------------------------------------------------
LEMMA InterfaceNames ==
  DOMAIN Fields = {"basic", "fdio", "filename", "memory", "dyncode", "tls", "blockhook"}
BY DEF Fields

LEMMA Interfaces ==
  ASSUME NEW j \in DOMAIN irt_interfaces
  PROVE  irt_interfaces[j] \in DOMAIN Fields
BY InterfaceNames DEF irt_interfaces

LEMMA TablesAgree ==
  ASSUME NEW i \in DOMAIN Fields
  PROVE  /\ Len(Tables[i]) = Len(Fields[i])
         /\ Len(Fields[i]) \in Nat \ {0} /\ DOMAIN Fields[i] = 1 .. Len(Fields[i])
         /\ \A k \in DOMAIN Fields[i] : Agrees(Tables[i][k], Fields[i][k])
<1>1. CASE i = "basic"
  BY <1>1 DEF Fields, Tables, Agrees, Done, Irt, Stub
<1>2. CASE i = "fdio"
  BY <1>2 DEF Fields, Tables, irt_fdio, Agrees, Done, Irt, Stub
<1>3. CASE i = "filename"
  BY <1>3 DEF Fields, Tables, Agrees, Done, Irt, Stub
<1>4. CASE i = "memory"
  BY <1>4 DEF Fields, Tables, Agrees, Done, Irt, Stub
<1>5. CASE i = "dyncode"
  BY <1>5 DEF Fields, Tables, Agrees, Done, Irt, Stub
<1>6. CASE i = "tls"
  BY <1>6 DEF Fields, Tables, Agrees, Done, Irt, Stub
<1>7. CASE i = "blockhook"
  BY <1>7 DEF Fields, Tables, Agrees, Done, Irt, Stub
<1>. QED
  BY <1>1, <1>2, <1>3, <1>4, <1>5, <1>6, <1>7, InterfaceNames

(* A struct of n words, before and after a table is copied over it.         *)
Struct(n) == [k \in 1 .. n |-> Empty] \o <<Behind>>

LEMMA StructWords ==
  ASSUME NEW n \in Nat
  PROVE  /\ Len(Struct(n)) = n + 1 /\ DOMAIN Struct(n) = 1 .. (n + 1)
         /\ Struct(n)[n + 1] = Behind /\ Struct(n) # << >>
BY DEF Struct

LEMMA OverlaidWords ==
  ASSUME NEW n \in Nat, NEW words, Len(words) \in Nat, Len(words) <= n
  PROVE  /\ Len(Overlaid(Struct(n), words)) = n + 1
         /\ \A k \in 1 .. Len(words) : Overlaid(Struct(n), words)[k] = words[k]
         /\ Overlaid(Struct(n), words)[n + 1] = Behind
<1>1. Overlaid(Struct(n), words) =
        [k \in 1 .. (n + 1) |-> IF k <= Len(words) THEN words[k] ELSE Struct(n)[k]]
  BY StructWords DEF Overlaid
<1>2. Len(Overlaid(Struct(n), words)) = n + 1
  BY <1>1
<1>3. \A k \in 1 .. Len(words) : Overlaid(Struct(n), words)[k] = words[k]
  BY <1>1
<1>4. Overlaid(Struct(n), words)[n + 1] = Behind
  BY <1>1, StructWords
<1>. QED
  BY <1>2, <1>3, <1>4
--------------------------------------------------------------------------------
LEMMA InvInit == Init => IInv
<1>. SUFFICES ASSUME Init PROVE IInv
  OBVIOUS
<1>1. TypeOK
  BY DEF Init, TypeOK
<1>2. NothingOverwritten
  BY DEF Init, NothingOverwritten
<1>. QED
  BY <1>1, <1>2 DEF Init, IInv, InVector, Copied, Heap

LEMMA EnterKeeps == IInv /\ Enter => IInv'
<1>. SUFFICES ASSUME IInv, Enter PROVE IInv'
  OBVIOUS
<1>1. AuxvIndex = 6
  BY DEF AuxvIndex, ArgcWord, EnvcWord, Info, AT_NULL, AT_SYSINFO
<1>2. Len(Info) = 9 /\ DOMAIN Info = 1 .. 9
  BY DEF Info
<1>3. TypeOK' /\ InVector'
  BY <1>1, <1>2 DEF IInv, TypeOK, Enter, InVector, memory
<1>. QED
  BY <1>3 DEF IInv, Enter, Copied, NothingOverwritten, Heap, memory

LEMMA GrokKeeps == IInv /\ GrokAuxv => IInv'
<1>. SUFFICES ASSUME IInv, GrokAuxv PROVE IInv'
  OBVIOUS
<1>1. /\ DOMAIN Info = 1 .. 9
      /\ Info[6] = 32 /\ Info[7] = QueryAddress /\ Info[8] = 0 /\ AT_NULL = 0 /\ AT_SYSINFO = 32
  BY DEF Info, AT_NULL, AT_SYSINFO
<1>2. av \in {6, 8}
  BY DEF IInv, InVector, GrokAuxv
<1>3. TypeOK' /\ InVector'
  <2>1. CASE Info[av] # AT_NULL
    <3>1. av = 6 /\ av' = 8 /\ query' = QueryAddress /\ status' = "grok_auxv"
      BY <1>1, <1>2, <2>1 DEF GrokAuxv
    <3>. QED
      BY <1>1, <3>1 DEF IInv, TypeOK, GrokAuxv, InVector
  <2>2. CASE Info[av] = AT_NULL
    BY <2>2 DEF IInv, TypeOK, GrokAuxv, InVector, startup
  <2>. QED
    BY <2>1, <2>2
<1>. QED
  BY <1>3 DEF IInv, GrokAuxv, Copied, NothingOverwritten, Heap, memory

LEMMA QueryKeeps == IInv /\ InterfaceQuery => IInv'
<1>. SUFFICES ASSUME IInv, InterfaceQuery PROVE IInv'
  OBVIOUS
<1>. PICK j \in DOMAIN irt_interfaces, d \in {-1, 0, 1} :
       LET ident == irt_interfaces[j]
           n == Len(Fields[ident]) + d
           struct == [k \in 1 .. n |-> Empty] \o <<Behind>>
       IN /\ ident \notin provided
          /\ Cardinality(provided) < MaxInterfaces
          /\ IF Fits(ident, n)
             THEN /\ structs' = [structs EXCEPT ![ident] = Overlaid(struct, Tables[ident])]
                  /\ provided' = provided \cup {ident}
             ELSE /\ structs' = [structs EXCEPT ![ident] = struct]
                  /\ UNCHANGED provided
  BY DEF InterfaceQuery
<1>. DEFINE ident == irt_interfaces[j]
            n == Len(Fields[ident]) + d
            old == Struct(n)
            new == Overlaid(old, Tables[ident])
<1>1. ident \in DOMAIN Fields /\ ident \notin provided
  BY Interfaces
<1>2. n \in Nat /\ Len(Fields[ident]) \in Nat /\ Len(Tables[ident]) = Len(Fields[ident])
  BY <1>1, TablesAgree
<1>3. \/ /\ Len(Tables[ident]) <= n
         /\ structs' = [structs EXCEPT ![ident] = new] /\ provided' = provided \cup {ident}
      \/ structs' = [structs EXCEPT ![ident] = old] /\ provided' = provided
  BY DEF Fits, Struct
<1>4. Len(old) = n + 1 /\ old[n + 1] = Behind
  BY <1>2, StructWords
<1>5. Len(Tables[ident]) <= n =>
        /\ Len(new) = n + 1 /\ new[n + 1] = Behind
        /\ \A k \in DOMAIN Fields[ident] : new[k] = Tables[ident][k]
  <2>. HIDE DEF n, ident
  <2>. SUFFICES ASSUME Len(Tables[ident]) <= n
                PROVE  /\ Len(new) = n + 1 /\ new[n + 1] = Behind
                       /\ \A k \in DOMAIN Fields[ident] : new[k] = Tables[ident][k]
    OBVIOUS
  <2>1. /\ Len(new) = n + 1 /\ new[n + 1] = Behind
        /\ \A k \in 1 .. Len(Tables[ident]) : new[k] = Tables[ident][k]
    BY <1>2, OverlaidWords
  <2>2. DOMAIN Fields[ident] = 1 .. Len(Tables[ident])
    BY <1>1, <1>2, TablesAgree
  <2>. QED
    BY <2>1, <2>2
<1>. HIDE DEF ident, n, old, new
<1>6. \A i \in DOMAIN Fields \ {ident} : structs'[i] = structs[i]
  BY <1>3 DEF IInv, Copied
<1>7. TypeOK'
  <2>1. ASSUME NEW i \in provided' PROVE Len(structs'[i]) > Len(Fields[i])
    <3>1. CASE i = ident
      BY <1>1, <1>2, <1>3, <1>5, <3>1 DEF IInv, Copied
    <3>2. CASE i # ident
      BY <1>3, <1>6, <3>2 DEF IInv, TypeOK, Copied
    <3>. QED
      BY <3>1, <3>2
  <2>2. status' = status /\ av' = av /\ query' = query
    BY DEF InterfaceQuery, startup
  <2>. QED
    BY <2>1, <2>2 DEF IInv, TypeOK
<1>8. Copied'
  BY <1>1, <1>3, <1>5, <1>6 DEF IInv, Copied
<1>9. NothingOverwritten'
  <2>1. ident \in DOMAIN structs => Last(structs'[ident]) = Behind
    BY <1>2, <1>3, <1>4, <1>5 DEF Last
  <2>. QED
    BY <1>1, <1>6, <1>8, <2>1 DEF IInv, NothingOverwritten, Copied
<1>. QED
  BY <1>7, <1>8, <1>9 DEF IInv, InterfaceQuery, InVector, Heap, startup, memory

(* The actions that call a function of a struct leave the structs alone.    *)
LEMMA OthersKeep ==
  ASSUME IInv, UNCHANGED <<startup, structs, provided, memory>>,
         status = "running", status' \in {"running", "exited", "aborted"}
  PROVE  IInv'
BY DEF IInv, TypeOK, InVector, Copied, NothingOverwritten, Heap, startup, memory

LEMMA CallFacts ==
  ASSUME NEW function, NEW a, Call(function, a)
  PROVE  status = "running" /\ UNCHANGED <<startup, structs, provided>>
BY DEF Call

LEMMA SysbrkKeeps == IInv /\ irt_sysbrk => IInv'
<1>. SUFFICES ASSUME IInv, irt_sysbrk PROVE IInv'
  OBVIOUS
<1>1. PICK area \in Mapped :
        \/ /\ SetHeap(area, area.current)
           /\ base' = IF base = Nothing THEN area.current ELSE base
           /\ Call(Irt("sysbrk"), <<"break", area.current>>) /\ UNCHANGED status
        \/ \E brk \in Addresses :
             /\ base # Nothing /\ brk >= base
             /\ \/ /\ Allowed(brk, area.max)
                   /\ SetHeap(area, brk)
                   /\ Call(Irt("sysbrk"), <<"break", brk>>) /\ UNCHANGED status
                \/ /\ ~Allowed(brk, area.max)
                   /\ SetHeap(area, area.current)
                   /\ Call(Irt("sysbrk"), <<"refused", brk>>) /\ status' = "aborted"
             /\ UNCHANGED base
  BY DEF irt_sysbrk
<1>2. /\ {area.start, area.current, area.max} \subseteq Addresses
      /\ area.start <= area.current /\ area.current <= area.max
      /\ start # Nothing => area.start = start
      /\ base # Nothing => base \in Addresses /\ start # Nothing /\ start <= base
  <2>1. CASE start = Nothing
    BY <1>1, <2>1, AddressAssumption DEF IInv, Heap, Mapped, NewAreas
  <2>2. CASE start # Nothing
    BY <1>1, <2>2, AddressAssumption DEF IInv, Heap, Mapped
  <2>. QED
    BY <2>1, <2>2
<1>3. Heap'
  <2>1. CASE /\ SetHeap(area, area.current)
             /\ base' = IF base = Nothing THEN area.current ELSE base
    BY <1>2, <2>1, AddressAssumption DEF Heap, SetHeap
  <2>2. ASSUME NEW brk \in Addresses, base # Nothing, brk >= base, UNCHANGED base,
               \/ Allowed(brk, area.max) /\ SetHeap(area, brk)
               \/ SetHeap(area, area.current)
        PROVE  Heap'
    <3>1. /\ area.start = start /\ start <= base /\ start # Nothing /\ base \in Addresses
          /\ {area.start, area.current, area.max, base, brk} \subseteq Int
      BY <1>2, <2>2, AddressAssumption
    <3>2. CASE Allowed(brk, area.max) /\ SetHeap(area, brk)
      <4>1. start' <= brk /\ brk <= area.max
        BY <2>2, <3>1, <3>2 DEF Allowed, SetHeap
      <4>. QED
        BY <1>2, <2>2, <3>1, <3>2, <4>1 DEF Heap, SetHeap
    <3>3. CASE SetHeap(area, area.current)
      BY <1>2, <2>2, <3>1, <3>3 DEF Heap, SetHeap
    <3>. QED
      BY <2>2, <3>2, <3>3
  <2>. QED
    BY <1>1, <2>1, <2>2
<1>4. /\ status = "running" /\ UNCHANGED <<startup, structs, provided>>
      /\ status' \in {"running", "aborted"}
  BY <1>1, CallFacts
<1>. QED
  BY <1>3, <1>4 DEF IInv, TypeOK, InVector, Copied, NothingOverwritten, startup

LEMMA InvStep == IInv /\ [Next]_vars => IInv'
<1>. SUFFICES ASSUME IInv, [Next]_vars PROVE IInv'
  OBVIOUS
<1>1. CASE Enter
  BY <1>1, EnterKeeps
<1>2. CASE GrokAuxv
  BY <1>2, GrokKeeps
<1>3. CASE InterfaceQuery
  BY <1>3, QueryKeeps
<1>4. CASE irt_sysbrk
  BY <1>4, SysbrkKeeps
<1>5. CASE StubFunc
  BY <1>5, OthersKeep, CallFacts DEF StubFunc
<1>6. CASE irt_exit
  BY <1>6, OthersKeep, CallFacts DEF irt_exit
<1>7. CASE runtime_tls_init
  BY <1>7, OthersKeep, CallFacts DEF runtime_tls_init
<1>8. CASE runtime_tls_get
  BY <1>8, OthersKeep, CallFacts DEF runtime_tls_get
<1>9. CASE irt_write
  BY <1>9, OthersKeep, CallFacts DEF irt_write
<1>10. CASE irt_sysconf
  BY <1>10, OthersKeep, CallFacts DEF irt_sysconf
<1>11. CASE irt_close_fstat
  BY <1>11, OthersKeep, CallFacts DEF irt_close_fstat
<1>12. CASE MmapFails
  BY <1>12, OthersKeep, CallFacts DEF MmapFails
<1>13. CASE UNCHANGED vars
  BY <1>13 DEF IInv, TypeOK, InVector, Copied, NothingOverwritten, Heap, vars, memory, startup
<1>. QED
  BY <1>1, <1>2, <1>3, <1>4, <1>5, <1>6, <1>7, <1>8, <1>9, <1>10, <1>11, <1>12, <1>13 DEF Next

LEMMA Invariant == Spec => []IInv
BY InvInit, InvStep, PTL DEF Spec

(* The program's walk through the start-up record stays in it, and what it  *)
(* was given as a struct has a function for every field.                    *)
THEOREM LoaderTypeCorrect == Spec => []TypeOK
<1>1. IInv => TypeOK
  BY DEF IInv
<1>. QED
  BY Invariant, <1>1, PTL

(* irt_interface_query() writes no further than the struct it was given.    *)
THEOREM StructsAreNotOverrun == Spec => []NothingOverwritten
<1>1. IInv => NothingOverwritten
  BY DEF IInv
<1>. QED
  BY Invariant, <1>1, PTL

(* sysbrk() keeps the break of a disciplined program in its area.           *)
THEOREM BreakStaysInArea == Spec => []BreakInArea
<1>1. IInv => BreakInArea
  BY AddressAssumption DEF IInv, Heap, BreakInArea
<1>. QED
  BY Invariant, <1>1, PTL

(* The area of the heap is mapped once (irt_sysbrk()).                      *)
THEOREM HeapIsMappedOnce == Spec => HeapStays
<1>1. ASSUME IInv, [Next]_vars PROVE [start # Nothing => start' = start /\ sysbrk_max' = sysbrk_max]_vars
  <2>1. CASE irt_sysbrk
    <3>1. \E area \in Mapped : start' = area.start /\ sysbrk_max' = area.max
      BY <2>1 DEF irt_sysbrk, SetHeap
    <3>2. start # Nothing =>
            Mapped = {[start |-> start, current |-> sysbrk_current, max |-> sysbrk_max]}
      BY <1>1, AddressAssumption DEF IInv, Heap, Mapped
    <3>. QED
      BY <3>1, <3>2
  <2>2. CASE UNCHANGED memory
    BY <2>2 DEF memory
  <2>3. CASE UNCHANGED vars
    BY <2>3
  <2>4. ASSUME Next PROVE irt_sysbrk \/ UNCHANGED memory
    <3>1. Enter \/ GrokAuxv \/ InterfaceQuery => UNCHANGED memory
      BY DEF Enter, GrokAuxv, InterfaceQuery
    <3>2. StubFunc \/ irt_exit \/ MmapFails => UNCHANGED memory
      BY DEF StubFunc, irt_exit, MmapFails
    <3>3. runtime_tls_init \/ runtime_tls_get => UNCHANGED memory
      BY DEF runtime_tls_init, runtime_tls_get
    <3>4. irt_write \/ irt_sysconf \/ irt_close_fstat => UNCHANGED memory
      BY DEF irt_write, irt_sysconf, irt_close_fstat
    <3>. QED
      BY <2>4, <3>1, <3>2, <3>3, <3>4 DEF Next
  <2>. QED
    BY <1>1, <2>1, <2>2, <2>3, <2>4
<1>. QED
  BY Invariant, <1>1, PTL DEF Spec, HeapStays
--------------------------------------------------------------------------------
LEMMA FunctionsOfTheirNames ==
  ASSUME IInv, NEW word, NEW a, Call(word, a)
  PROVE  \E i \in provided : \E k \in DOMAIN Fields[i] :
           /\ i \in DOMAIN Fields
           /\ word = IF Fields[i][k] \in Done THEN Irt(Fields[i][k]) ELSE Stub(Fields[i][k])
           /\ answer' = <<Fields[i][k]>> \o a
<1>1. PICK i \in provided : \E k \in DOMAIN Fields[i] :
        structs[i][k] = word /\ answer' = <<Fields[i][k]>> \o a
  BY DEF Call
<1>2. PICK k \in DOMAIN Fields[i] : structs[i][k] = word /\ answer' = <<Fields[i][k]>> \o a
  BY <1>1
<1>3. i \in DOMAIN Fields /\ structs[i][k] = Tables[i][k]
  BY DEF IInv, Copied
<1>4. Agrees(word, Fields[i][k])
  BY <1>2, <1>3, TablesAgree
<1>. QED
  BY <1>2, <1>3, <1>4 DEF Agrees

(* A call of a function that does something answers for it.                 *)
LEMMA CallOfIrt ==
  ASSUME IInv, NEW name, NEW a, Call(Irt(name), a)
  PROVE  Program!Call(name, a)
<1>. PICK i \in provided : \E k \in DOMAIN Fields[i] :
        /\ i \in DOMAIN Fields
        /\ Irt(name) = IF Fields[i][k] \in Done THEN Irt(Fields[i][k]) ELSE Stub(Fields[i][k])
        /\ answer' = <<Fields[i][k]>> \o a
  BY FunctionsOfTheirNames
<1>1. PICK k \in DOMAIN Fields[i] :
        /\ i \in DOMAIN Fields
        /\ Irt(name) = IF Fields[i][k] \in Done THEN Irt(Fields[i][k]) ELSE Stub(Fields[i][k])
        /\ answer' = <<Fields[i][k]>> \o a
  OBVIOUS
<1>2. Fields[i][k] = name
  BY <1>1 DEF Irt, Stub
<1>. QED
  BY <1>1, <1>2 DEF Program!Call, Call, StatusSeen

LEMMA CallOfStub ==
  ASSUME IInv, NEW name, NEW a, Call(Stub(name), a)
  PROVE  /\ Program!Call(name, a)
         /\ \E i \in DOMAIN Fields : \E k \in DOMAIN Fields[i] :
              Fields[i][k] = name /\ Fields[i][k] \notin Done
<1>. PICK i \in provided : \E k \in DOMAIN Fields[i] :
        /\ i \in DOMAIN Fields
        /\ Stub(name) = IF Fields[i][k] \in Done THEN Irt(Fields[i][k]) ELSE Stub(Fields[i][k])
        /\ answer' = <<Fields[i][k]>> \o a
  BY FunctionsOfTheirNames
<1>1. PICK k \in DOMAIN Fields[i] :
        /\ i \in DOMAIN Fields
        /\ Stub(name) = IF Fields[i][k] \in Done THEN Irt(Fields[i][k]) ELSE Stub(Fields[i][k])
        /\ answer' = <<Fields[i][k]>> \o a
  OBVIOUS
<1>2. Fields[i][k] = name /\ Fields[i][k] \notin Done
  BY <1>1 DEF Irt, Stub
<1>. QED
  BY <1>1, <1>2 DEF Program!Call, Call, StatusSeen

LEMMA StartUpImplements ==
  ASSUME IInv, Enter \/ GrokAuxv \/ InterfaceQuery
  PROVE  [Program!Next]_(Program!vars)
<1>1. CASE Enter
  BY <1>1 DEF Enter, Program!Start, Program!Next, Program!vars, memory, StatusSeen, HeapSeen
<1>2. CASE GrokAuxv
  BY <1>2 DEF GrokAuxv, Program!Start, Program!Next, Program!vars, memory, startup, StatusSeen, HeapSeen
<1>3. CASE InterfaceQuery
  <2>1. /\ status = "running" /\ UNCHANGED <<status, memory, tls_thread_ptr, answer>>
        /\ UNCHANGED provided \/ \E i \in DOMAIN Fields : provided' = provided \cup {i}
    BY <1>3, Interfaces DEF InterfaceQuery
  <2>. QED
    BY <2>1 DEF Program!Obtain, Program!Next, Program!vars, memory, StatusSeen, HeapSeen
<1>. QED
  BY <1>1, <1>2, <1>3

LEMMA SysbrkImplements ==
  ASSUME IInv, irt_sysbrk
  PROVE  Program!Sysbrk
<1>. PICK area \in Mapped :
        \/ /\ SetHeap(area, area.current)
           /\ base' = IF base = Nothing THEN area.current ELSE base
           /\ Call(Irt("sysbrk"), <<"break", area.current>>) /\ UNCHANGED status
        \/ \E brk \in Addresses :
             /\ base # Nothing /\ brk >= base
             /\ \/ /\ Allowed(brk, area.max)
                   /\ SetHeap(area, brk)
                   /\ Call(Irt("sysbrk"), <<"break", brk>>) /\ UNCHANGED status
                \/ /\ ~Allowed(brk, area.max)
                   /\ SetHeap(area, area.current)
                   /\ Call(Irt("sysbrk"), <<"refused", brk>>) /\ status' = "aborted"
             /\ UNCHANGED base
  BY DEF irt_sysbrk
<1>. DEFINE h == [start |-> area.start, break |-> area.current, max |-> area.max]
<1>1. h \in Program!Heaps /\ area.start \in Addresses
  <2>1. CASE start = Nothing
    <3>1. PICK a \in Addresses :
            a + SysbrkSize \in Addresses
              /\ area = [start |-> a, current |-> a, max |-> a + SysbrkSize]
      BY <2>1 DEF IInv, Heap, Mapped, NewAreas
    <3>. QED
      BY <2>1, <3>1 DEF HeapSeen, Program!Heaps
  <2>2. CASE start # Nothing
    <3>1. area = [start |-> start, current |-> sysbrk_current, max |-> sysbrk_max]
      BY <2>2, AddressAssumption DEF IInv, Heap, Mapped
    <3>2. HeapSeen # Nothing
      BY <2>2, AddressAssumption DEF IInv, Heap, HeapSeen
    <3>. QED
      BY <2>2, <3>1, <3>2 DEF IInv, Heap, HeapSeen, Program!Heaps
  <2>. QED
    BY <2>1, <2>2
<1>2. ASSUME NEW brk, SetHeap(area, brk)
      PROVE  HeapSeen' = [h EXCEPT !.break = brk]
  BY <1>1, <1>2, AddressAssumption DEF SetHeap, HeapSeen
<1>. DEFINE Answers(x) ==
              \/ /\ Program!Call("sysbrk", <<"break", x.break>>) /\ HeapSeen' = x
                 /\ UNCHANGED StatusSeen
              \/ \E a \in Addresses :
                   IF a <= x.max
                   THEN /\ Program!Call("sysbrk", <<"break", a>>)
                        /\ HeapSeen' = [x EXCEPT !.break = a] /\ UNCHANGED StatusSeen
                   ELSE /\ Program!Call("sysbrk", <<"refused", a>>) /\ HeapSeen' = x
                        /\ StatusSeen' = "aborted"
<1>3. UNCHANGED status => UNCHANGED StatusSeen
  BY DEF StatusSeen
<1>4. status' = "aborted" => StatusSeen' = "aborted"
  BY DEF StatusSeen
<1>5. /\ h.break = area.current /\ h.max = area.max
      /\ HeapSeen' = [h EXCEPT !.break = area.current] => HeapSeen' = h
  OBVIOUS
<1>. HIDE DEF h
<1>6. Answers(h)
  <2>1. CASE SetHeap(area, area.current) /\ Call(Irt("sysbrk"), <<"break", area.current>>) /\ UNCHANGED status
    <3>1. Program!Call("sysbrk", <<"break", area.current>>)
      BY <2>1, CallOfIrt
    <3>. QED
      BY <1>2, <1>3, <1>5, <2>1, <3>1
  <2>2. ASSUME NEW brk \in Addresses, Allowed(brk, area.max), SetHeap(area, brk),
               Call(Irt("sysbrk"), <<"break", brk>>), UNCHANGED status
        PROVE  Answers(h)
    <3>1. Program!Call("sysbrk", <<"break", brk>>)
      BY <2>2, CallOfIrt
    <3>. QED
      BY <1>2, <1>3, <1>5, <2>2, <3>1 DEF Allowed
  <2>3. ASSUME NEW brk \in Addresses, ~Allowed(brk, area.max), SetHeap(area, area.current),
               Call(Irt("sysbrk"), <<"refused", brk>>), status' = "aborted"
        PROVE  Answers(h)
    <3>1. Program!Call("sysbrk", <<"refused", brk>>)
      BY <2>3, CallOfIrt
    <3>. QED
      BY <1>2, <1>4, <1>5, <2>3, <3>1 DEF Allowed
  <2>. QED
    BY <2>1, <2>2, <2>3
<1>7. \E x \in Program!Heaps : Answers(x)
  <2>. HIDE DEF Answers
  <2>. QED
    BY <1>1, <1>6
<1>8. UNCHANGED tls_thread_ptr
  BY DEF irt_sysbrk
<1>. QED
  BY <1>7, <1>8 DEF Program!Sysbrk, Answers

LEMMA StepImplements ==
  ASSUME IInv, [Next]_vars
  PROVE  [Program!Next]_(Program!vars)
<1>1. CASE Enter \/ GrokAuxv \/ InterfaceQuery
  BY <1>1, StartUpImplements
<1>2. CASE irt_sysbrk
  BY <1>2, SysbrkImplements DEF Program!Next
<1>3. CASE StubFunc
  <2>1. PICK name : Call(Stub(name), <<"unimplemented", name>>)
    BY <1>3 DEF StubFunc
  <2>. QED
    BY <1>3, <2>1, CallOfStub DEF StubFunc, Done, Program!Unimplemented, Program!Next, memory, StatusSeen, HeapSeen
<1>4. CASE irt_exit
  BY <1>4, CallOfIrt DEF irt_exit, Program!Exit, Program!Next, memory, StatusSeen, HeapSeen
<1>5. CASE runtime_tls_init
  BY <1>5, CallOfIrt DEF runtime_tls_init, Program!TlsInit, Program!Next, memory, StatusSeen, HeapSeen
<1>6. CASE runtime_tls_get
  <2>1. /\ status = "running" /\ answer' = <<"tls_get">> \o <<"thread", tls_thread_ptr>>
        /\ UNCHANGED provided
    <3>1. CASE Call(Irt("tls_get"), <<"thread", tls_thread_ptr>>)
      BY <3>1, CallOfIrt, CallFacts DEF Program!Call
    <3>. QED
      BY <1>6, <3>1 DEF runtime_tls_get
  <2>. QED
    BY <1>6, <2>1 DEF runtime_tls_get, Program!TlsGet, Program!Next, memory, StatusSeen, HeapSeen
<1>7. CASE irt_write
  <2>1. PICK result \in -1 .. WriteCount :
          Call(Irt("write"), IF result < 0 THEN <<"error", -result>> ELSE <<"written", result>>)
    BY <1>7 DEF irt_write
  <2>2. \/ Program!Call("write", <<"error", 1>>)
        \/ \E n \in 0 .. WriteCount : Program!Call("write", <<"written", n>>)
    <3>1. CASE result < 0
      <4>1. result = -1
        BY <3>1
      <4>. QED
        BY <2>1, <4>1, CallOfIrt
    <3>2. CASE ~(result < 0)
      BY <2>1, <3>2, CallOfIrt
    <3>. QED
      BY <3>1, <3>2
  <2>. QED
    BY <1>7, <2>2 DEF irt_write, Program!WriteFile, Program!Next, memory, StatusSeen, HeapSeen
<1>8. CASE irt_sysconf
  BY <1>8, CallOfIrt DEF irt_sysconf, Program!Sysconf, Program!Next, memory, StatusSeen, HeapSeen
<1>9. CASE irt_close_fstat
  BY <1>9, CallOfIrt DEF irt_close_fstat, Program!Ignored, Program!Next, memory, StatusSeen, HeapSeen
<1>10. CASE MmapFails
  <2>1. Program!Call("sysbrk", <<"no heap">>)
    BY <1>10, CallOfIrt DEF MmapFails
  <2>2. start = Nothing
    BY <1>10, AddressAssumption DEF MmapFails, IInv, Heap
  <2>3. StatusSeen' = "aborted" /\ HeapSeen' = HeapSeen /\ HeapSeen = Nothing
    BY <1>10, <2>2 DEF MmapFails, memory, StatusSeen, HeapSeen
  <2>. QED
    BY <1>10, <2>1, <2>3 DEF MmapFails, Program!NoHeap, Program!Next
<1>11. CASE UNCHANGED vars
  BY <1>11 DEF vars, memory, startup, Program!vars, StatusSeen, HeapSeen
<1>. QED
  BY <1>1, <1>2, <1>3, <1>4, <1>5, <1>6, <1>7, <1>8, <1>9, <1>10, <1>11 DEF Next

(* A program may call the functions of an interface by their names: through *)
(* the tables, the query and the structs it reaches the function of that    *)
(* name, for every heap and every number of interfaces.                     *)
THEOREM LoaderImplementsIRT == Spec => ImplementsIRT
<1>1. Init => Program!Init
  BY DEF Init, Program!Init, StatusSeen, HeapSeen
<1>. QED
  BY Invariant, <1>1, StepImplements, PTL DEF Spec, ImplementsIRT, Program!Spec
================================================================================
