---------------------- MODULE TrackingAllocatorProofs -----------------------
(***************************************************************************)
(* Theorems about the registry and its callers, for any number of threads, *)
(* buffers, addresses and requests.  First the registry by itself (ids     *)
(* unique, active ranges disjoint), then who owns which range, id, entry   *)
(* and record while allocates, deallocates and buffers interleave.         *)
(***************************************************************************)
EXTENDS TrackingAllocator, SequenceTheorems, TLAPS

-----------------------------------------------------------------------------
(* The registry's operations.                                              *)

\* add_allocation keeps a registry well typed, ids unique and active ranges
\* disjoint, whatever descriptor it is given.
LEMMA AddKeepsRegistry ==
  ASSUME NEW S, NEW reg \in Seq(Descriptor(S)), NEW d \in Descriptor(S),
         UniqueIds(reg), ActiveDisjoint(reg)
  PROVE  /\ add_allocation(reg, d) \in Seq(Descriptor(S))
         /\ UniqueIds(add_allocation(reg, d))
         /\ ActiveDisjoint(add_allocation(reg, d))
<1>1. CASE ~Accepts(reg, d)
  BY <1>1 DEF add_allocation
<1>2. CASE Accepts(reg, d)
  <2> DEFINE r == Append(reg, d)
  <2>1. add_allocation(reg, d) = r
    BY <1>2 DEF add_allocation
  <2>2. /\ r \in Seq(Descriptor(S))
        /\ DOMAIN r = 1 .. (Len(reg) + 1)
        /\ \A i \in 1 .. Len(reg) : r[i] = reg[i]
        /\ r[Len(reg) + 1] = d
        /\ DOMAIN reg = 1 .. Len(reg)
        /\ Len(reg) \in Nat
    OBVIOUS
  <2>3. UniqueIds(r)
    BY <1>2, <2>2 DEF UniqueIds, Accepts
  <2>4. \A i \in 1 .. Len(reg) :
          reg[i].active /\ reg[i].device = d.device =>
             ~Overlaps(d, reg[i]) /\ ~Overlaps(reg[i], d)
    BY <1>2, <2>2 DEF Accepts, Overlaps
  <2>5. ActiveDisjoint(r)
    BY <2>2, <2>4 DEF ActiveDisjoint
  <2> QED BY <2>1, <2>2, <2>3, <2>5
<1> QED BY <1>1, <1>2

\* deactivate_allocation keeps the same three facts.
LEMMA DeactivateKeepsRegistry ==
  ASSUME NEW S, NEW reg \in Seq(Descriptor(S)), NEW id,
         UniqueIds(reg), ActiveDisjoint(reg)
  PROVE  /\ deactivate_allocation(reg, id) \in Seq(Descriptor(S))
         /\ UniqueIds(deactivate_allocation(reg, id))
         /\ ActiveDisjoint(deactivate_allocation(reg, id))
<1> DEFINE k == FirstWithId(reg, id)
           r == [reg EXCEPT ![k].active = FALSE]
<1>1. CASE ~HasId(reg, id)
  BY <1>1 DEF deactivate_allocation
<1>2. CASE HasId(reg, id)
  <2>1. deactivate_allocation(reg, id) = r
    BY <1>2 DEF deactivate_allocation
  <2> HIDE DEF k
  <2>2. /\ r \in Seq(Descriptor(S))
        /\ DOMAIN r = DOMAIN reg
        /\ \A i \in DOMAIN reg :
             /\ r[i].id = reg[i].id
             /\ r[i].device = reg[i].device
             /\ r[i].base = reg[i].base
             /\ r[i].size = reg[i].size
             /\ r[i].active => reg[i].active
    <3>1. /\ reg \in [1 .. Len(reg) -> Descriptor(S)]
          /\ Len(reg) \in Nat
          /\ DOMAIN reg = 1 .. Len(reg)
      OBVIOUS
    <3>2. \A d \in Descriptor(S) :
            /\ [d EXCEPT !.active = FALSE] \in Descriptor(S)
            /\ [d EXCEPT !.active = FALSE].id = d.id
            /\ [d EXCEPT !.active = FALSE].device = d.device
            /\ [d EXCEPT !.active = FALSE].base = d.base
            /\ [d EXCEPT !.active = FALSE].size = d.size
            /\ ~[d EXCEPT !.active = FALSE].active
      BY DEF Descriptor
    <3>3. \A i \in DOMAIN reg :
            r[i] = IF i = k THEN [reg[i] EXCEPT !.active = FALSE] ELSE reg[i]
      BY <3>1
    <3>4. r \in [1 .. Len(reg) -> Descriptor(S)]
      BY <3>1, <3>2, <3>3
    <3>5. r \in Seq(Descriptor(S)) /\ DOMAIN r = DOMAIN reg
      BY <3>1, <3>4
    <3> QED BY <3>1, <3>2, <3>3, <3>5
  <2>3. UniqueIds(r)
    BY <2>2 DEF UniqueIds
  <2>4. ActiveDisjoint(r)
    BY <2>2 DEF ActiveDisjoint, Overlaps, inclusive_end
  <2> QED BY <2>1, <2>2, <2>3, <2>4
<1> QED BY <1>1, <1>2

\* Two ranges that hold one address overlap, by their inclusive ends.
LEMMA SharedByte ==
  ASSUME NEW base \in Nat, NEW size \in Nat, NEW other \in Nat, NEW length \in Nat,
         NEW v \in Nat,
         base <= v, v < base + size, other <= v, v < other + length
  PROVE  base <= other + (length - 1) /\ other <= base + (size - 1)
OBVIOUS

\* With unique ids and disjoint active ranges the two lookups are inverse.
LEMMA LookupsAreInverse ==
  ASSUME NEW S, NEW reg \in Seq(Descriptor(S)),
         UniqueIds(reg), ActiveDisjoint(reg)
  PROVE  RoundTrips(reg)
<1> SUFFICES ASSUME NEW i \in DOMAIN reg, reg[i].active,
                    NEW offset \in 0 .. (reg[i].size - 1)
             PROVE  /\ allocation_bit_to_gpu_va(reg, reg[i].id, offset) =
                         { reg[i].base + offset }
                    /\ gpu_va_to_allocation_bit(reg, reg[i].device,
                                                reg[i].base + offset) =
                         { [id |-> reg[i].id, offset |-> offset] }
  BY DEF RoundTrips
<1>0. /\ reg[i].base \in Nat /\ reg[i].size \in Nat /\ offset \in Nat
      /\ offset < reg[i].size
      /\ \A j \in DOMAIN reg : reg[j].base \in Nat /\ reg[j].size \in Nat
      /\ DOMAIN reg \subseteq Nat
  <2>1. /\ \A j \in DOMAIN reg : reg[j] \in Descriptor(S)
        /\ DOMAIN reg \subseteq Nat
    OBVIOUS
  <2>2. \A d \in Descriptor(S) : d.base \in Nat /\ d.size \in Nat
    BY MaxVaAssumption DEF Descriptor
  <2>3. \A j \in DOMAIN reg : reg[j].base \in Nat /\ reg[j].size \in Nat
    BY <2>1, <2>2, Zenon
  <2> QED BY <2>1, <2>3
<1>1. HasId(reg, reg[i].id) /\ FirstWithId(reg, reg[i].id) = i
  <2>1. \A j \in DOMAIN reg : reg[j].id = reg[i].id => i = j
    BY DEF UniqueIds
  <2>2. \A j \in DOMAIN reg : reg[j].id = reg[i].id => i <= j
    BY <1>0, <2>1
  <2> QED BY <1>0, <2>1, <2>2 DEF HasId, FirstWithId
<1>2. allocation_bit_to_gpu_va(reg, reg[i].id, offset) = { reg[i].base + offset }
  <2>1. { j \in DOMAIN reg : /\ HasId(reg, reg[i].id)
                             /\ j = FirstWithId(reg, reg[i].id)
                             /\ reg[j].active
                             /\ offset < reg[j].size } = {i}
    BY <1>0, <1>1
  <2> QED BY <2>1 DEF allocation_bit_to_gpu_va
<1> DEFINE va == reg[i].base + offset
           dev == reg[i].device
<1>3. Covers(reg[i], dev, va)
  BY <1>0 DEF Covers
<1>4. \A j \in DOMAIN reg : Covers(reg[j], dev, va) => j = i
  <2> SUFFICES ASSUME NEW j \in DOMAIN reg, Covers(reg[j], dev, va), j # i
               PROVE  FALSE
    OBVIOUS
  <2> HIDE DEF va, dev
  <2>1. Overlaps(reg[i], reg[j])
    <3>1. /\ reg[i].base <= va /\ va < reg[i].base + reg[i].size
          /\ va \in Nat
      BY <1>0 DEF va
    <3>2. /\ reg[j].base <= va /\ va < reg[j].base + reg[j].size
      BY <1>0, <3>1 DEF Covers
    <3>3. /\ reg[i].base \in Nat /\ reg[i].size \in Nat
          /\ reg[j].base \in Nat /\ reg[j].size \in Nat
      BY <1>0
    <3>4. /\ reg[i].base <= reg[j].base + (reg[j].size - 1)
          /\ reg[j].base <= reg[i].base + (reg[i].size - 1)
      BY <3>1, <3>2, <3>3, SharedByte
    <3> QED BY <3>4, Zenon DEF Overlaps, inclusive_end
  <2>2. reg[j].active /\ reg[j].device = reg[i].device
    BY DEF Covers, dev
  <2> QED BY <2>1, <2>2 DEF ActiveDisjoint
<1>5. { j \in DOMAIN reg : /\ Covers(reg[j], dev, va)
                           /\ \A k \in DOMAIN reg :
                                Covers(reg[k], dev, va) => j <= k } = {i}
  BY <1>0, <1>3, <1>4
<1>6. va - reg[i].base = offset
  BY <1>0
<1>7. gpu_va_to_allocation_bit(reg, dev, va) =
        { [id |-> reg[i].id, offset |-> va - reg[i].base] }
  BY <1>5 DEF gpu_va_to_allocation_bit
<1> QED BY <1>2, <1>6, <1>7

-----------------------------------------------------------------------------
(* The specification.  Only AllocateAdd and BufferAdd extend the registry, *)
(* only AllocateDeactivate, DeallocateRetire and ReleaseDeactivate change  *)
(* an entry.                                                               *)

\* Init establishes the invariant: nothing is registered yet.
LEMMA InitRegistryInv == Init => RegistryInv
<1> SUFFICES ASSUME Init PROVE RegistryInv
  OBVIOUS
<1>1. TypeOK
  <2>1. /\ registry \in Seq(Descriptor(Id))
        /\ records \in Seq([gpu_va: 1..MaxVa, id: Nat, active: BOOLEAN])
    BY DEF Init
  <2>2. /\ mapped \subseteq Spans /\ next_id \in Nat /\ mutex \subseteq Threads
        /\ pc \in [Threads -> ThreadStates] /\ aid \in [Threads -> Nat]
        /\ held \subseteq 1..MaxVa /\ bpc \in [Buffers -> BufferStates]
    BY DEF Init, ThreadStates, BufferStates
  <2>3. /\ memory \in [Threads -> Spans \cup {NoSpan}]
        /\ bmem \in [Buffers -> Spans \cup {NoSpan}]
        /\ phase \in {"setup", "run", "clear", "end"} /\ failed \in BOOLEAN
        /\ ledger \subseteq Id /\ leaked \subseteq Id
    BY DEF Init
  <2> QED BY <2>1, <2>2, <2>3 DEF TypeOK
<1>2. \A t \in Threads : pc[t] # "added"
  BY DEF Init
<1>3. UniqueIds(registry) /\ ActiveDisjoint(registry)
  BY DEF Init, UniqueIds, ActiveDisjoint
<1> QED BY <1>1, <1>2, <1>3 DEF RegistryInv

\* A span with a base is a real one, and makes a well-typed descriptor.
LEMMA SpanFacts ==
  /\ \A s \in Spans : s.base \in 1 .. MaxVa /\ s.size \in Nat \ {0}
  /\ \A s \in Spans \cup {NoSpan} : s.base # 0 => s \in Spans
  /\ NoSpan.base = 0
<1>1. \A s \in Spans : s.base \in 1 .. MaxVa /\ s.size \in Nat \ {0}
  BY TrackingAssumption DEF Spans
<1>2. NoSpan.base = 0
  BY DEF NoSpan
<1> QED BY <1>1, <1>2

\* An element of a typed sequence has the type.
LEMMA ElementType ==
  ASSUME NEW S, NEW seq \in Seq(S), NEW i \in DOMAIN seq
  PROVE  seq[i] \in S /\ i \in 1 .. Len(seq)
OBVIOUS

\* A step of allocate adds a checked descriptor or deactivates one.
LEMMA AllocateKeepsRegistryInv ==
  ASSUME RegistryInv, NEW t \in Threads, Allocate(t)
  PROVE  RegistryInv'
<1> USE DEF RegistryInv
<1>1. CASE \E span \in Spans : AllocateMalloc(t, span)
  BY <1>1 DEF AllocateMalloc, TypeOK, ThreadStates, Allocating, mainVars
<1>2. CASE AllocateId(t)
  BY <1>2 DEF AllocateId, TypeOK, ThreadStates, Allocating, mainVars
<1>3. CASE AllocateAdd(t)
  <2>1. TrtDescriptor(t) \in Descriptor(Id) /\ memory[t] \in Spans
    BY <1>3, SpanFacts, TrackingAssumption
       DEF AllocateAdd, Accepts, TrtDescriptor, Descriptor, TypeOK, Id
  <2>2. /\ registry' \in Seq(Descriptor(Id))
        /\ UniqueIds(registry') /\ ActiveDisjoint(registry')
    BY <1>3, <2>1, AddKeepsRegistry DEF AllocateAdd, TypeOK
  <2>3. TypeOK'
    BY <1>3, <2>2 DEF AllocateAdd, TypeOK, ThreadStates, Allocating, mainVars
  <2>4. \A u \in Threads : pc'[u] = "added" => memory'[u] \in Spans
    BY <1>3, <2>1 DEF AllocateAdd, TypeOK
  <2> QED BY <2>2, <2>3, <2>4
<1>4. CASE AllocateThrow(t)
  BY <1>4 DEF AllocateThrow, TypeOK, ThreadStates, Allocating, mainVars
<1>5. CASE AllocateRecord(t)
  <2>1. memory[t].base \in 1 .. MaxVa /\ aid[t] \in Nat
    BY <1>5, SpanFacts DEF AllocateRecord, TypeOK
  <2>2. records' \in Seq([gpu_va: 1..MaxVa, id: Nat, active: BOOLEAN])
    BY <1>5, <2>1 DEF AllocateRecord, PushRecord, TypeOK
  <2>3. TypeOK'
    BY <1>5, <2>1, <2>2
       DEF AllocateRecord, TypeOK, ThreadStates, Allocating, mainVars, Id
  <2>4. \A u \in Threads : pc'[u] = "added" => memory'[u] \in Spans
    BY <1>5 DEF AllocateRecord, TypeOK
  <2> QED BY <1>5, <2>3, <2>4 DEF AllocateRecord
<1>6. CASE AllocateDeactivate(t)
  <2>1. /\ registry' \in Seq(Descriptor(Id))
        /\ UniqueIds(registry') /\ ActiveDisjoint(registry')
    BY <1>6, DeactivateKeepsRegistry DEF AllocateDeactivate, TypeOK
  <2>2. TypeOK'
    BY <1>6, <2>1
       DEF AllocateDeactivate, TypeOK, ThreadStates, Allocating, mainVars
  <2> QED BY <1>6, <2>1, <2>2 DEF AllocateDeactivate, TypeOK
<1>7. CASE AllocateFree(t)
  BY <1>7 DEF AllocateFree, TypeOK, ThreadStates, Allocating, mainVars
<1>8. CASE AllocateIdThrows(t)
  BY <1>8 DEF AllocateIdThrows, TypeOK, ThreadStates, Allocating, mainVars
<1>9. CASE AllocateAnnounceThrows(t)
  <2>1. memory[t].base \in 1 .. MaxVa /\ aid[t] \in Nat
    BY <1>9, SpanFacts DEF AllocateAnnounceThrows, TypeOK
  <2>2. records' \in Seq([gpu_va: 1..MaxVa, id: Nat, active: BOOLEAN])
    BY <1>9, <2>1 DEF AllocateAnnounceThrows, PushRecord, TypeOK
  <2>3. TypeOK'
    BY <1>9, <2>2
       DEF AllocateAnnounceThrows, TypeOK, ThreadStates, Allocating, mainVars
  <2>4. \A u \in Threads : pc'[u] = "added" => memory'[u] \in Spans
    BY <1>9 DEF AllocateAnnounceThrows, TypeOK
  <2> QED BY <1>9, <2>3, <2>4 DEF AllocateAnnounceThrows
<1> QED
  BY <1>1, <1>2, <1>3, <1>4, <1>5, <1>6, <1>7, <1>8, <1>9 DEF Allocate

\* A step of deallocate only ever deactivates.
LEMMA DeallocateKeepsRegistryInv ==
  ASSUME RegistryInv, NEW t \in Threads, Deallocate(t)
  PROVE  RegistryInv'
<1> USE DEF RegistryInv
<1>1. CASE \E span \in mapped : DeallocateFind(t, span)
  <2> PICK span \in mapped : DeallocateFind(t, span)
    BY <1>1
  <2>2. aid' \in [Threads -> Nat]
    <3>1. PICK i \in DOMAIN records :
            aid' = [aid EXCEPT ![t] = records[i].id]
      BY DEF DeallocateFind
    <3>2. records \in Seq([gpu_va: 1..MaxVa, id: Nat, active: BOOLEAN])
      BY DEF TypeOK
    <3>3. records[i] \in [gpu_va: 1..MaxVa, id: Nat, active: BOOLEAN]
      BY <3>2, ElementType
    <3> QED BY <3>1, <3>3 DEF TypeOK
  <2>3. TypeOK'
    BY <2>2 DEF DeallocateFind, TypeOK, ThreadStates, Allocating, mainVars
  <2>4. \A u \in Threads : pc'[u] = "added" => memory'[u] \in Spans
    BY DEF DeallocateFind, TypeOK
  <2>5. UniqueIds(registry') /\ ActiveDisjoint(registry')
    BY DEF DeallocateFind
  <2> QED BY <2>3, <2>4, <2>5
<1>2. CASE DeallocateFree(t)
  BY <1>2 DEF DeallocateFree, TypeOK, ThreadStates, Allocating, mainVars
<1>3. CASE DeallocateFails(t)
  <2>1. leaked' \subseteq Id
    <3>1. leaked' = leaked \cup {aid[t]}
      BY <1>3 DEF DeallocateFails
    <3>2. leaked \subseteq Id /\ aid[t] \in Id
      BY DEF TypeOK, Id
    <3> QED BY <3>1, <3>2
  <2>2. TypeOK'
    BY <1>3, <2>1
       DEF DeallocateFails, TypeOK, ThreadStates, Allocating, mainVars
  <2> QED BY <1>3, <2>2 DEF DeallocateFails, TypeOK
<1>4. CASE DeallocateRetire(t)
  <2> DEFINE R == [gpu_va: 1..MaxVa, id: Nat, active: BOOLEAN]
  <2>1. records' \in Seq(R)
    <3>1. PICK k \in DOMAIN records :
            records' = [records EXCEPT ![k].active = FALSE]
      BY <1>4 DEF DeallocateRetire
    <3>2. records \in Seq(R) /\ k \in 1 .. Len(records)
      BY DEF TypeOK
    <3>3. [records[k] EXCEPT !.active = FALSE] \in R
      <4>1. records[k] \in R
        BY <3>2, ElementType, Zenon
      <4> QED BY <4>1
    <3>4. records' = [records EXCEPT ![k] = [records[k] EXCEPT !.active = FALSE]]
      BY <3>1
    <3> HIDE DEF R
    <3> QED BY <3>2, <3>3, <3>4, ExceptSeq
  <2>2. /\ registry' \in Seq(Descriptor(Id))
        /\ UniqueIds(registry') /\ ActiveDisjoint(registry')
    BY <1>4, DeactivateKeepsRegistry DEF DeallocateRetire, TypeOK
  <2>3. TypeOK'
    BY <1>4, <2>1, <2>2
       DEF DeallocateRetire, TypeOK, ThreadStates, Allocating, mainVars
  <2> QED BY <1>4, <2>2, <2>3 DEF DeallocateRetire, TypeOK
<1>5. CASE DeallocateFinish(t)
  BY <1>5 DEF DeallocateFinish, TypeOK, ThreadStates, Allocating, mainVars
<1> QED BY <1>1, <1>2, <1>3, <1>4, <1>5 DEF Deallocate

\* A DeviceBuffer adds a checked descriptor or deactivates its own.
LEMMA BufferKeepsRegistryInv ==
  ASSUME RegistryInv, NEW b \in Buffers, DeviceBuffer(b)
  PROVE  RegistryInv'
<1> USE DEF RegistryInv
<1>1. CASE \E span \in Spans : BufferMalloc(b, span)
  BY <1>1 DEF BufferMalloc, TypeOK, BufferStates, trtVars
<1>2. CASE BufferAdd(b)
  <2>1. BufferDescriptor(b) \in Descriptor(Id)
    BY <1>2, SpanFacts, TrackingAssumption
       DEF BufferAdd, Accepts, BufferDescriptor, Descriptor, TypeOK, Id
  <2>2. /\ registry' \in Seq(Descriptor(Id))
        /\ UniqueIds(registry') /\ ActiveDisjoint(registry')
    BY <1>2, <2>1, AddKeepsRegistry DEF BufferAdd, TypeOK
  <2>3. TypeOK'
    BY <1>2, <2>2 DEF BufferAdd, TypeOK, BufferStates, trtVars
  <2> QED BY <1>2, <2>2, <2>3 DEF BufferAdd, trtVars
<1>3. CASE BufferThrow(b)
  BY <1>3 DEF BufferThrow, TypeOK, BufferStates, trtVars
<1>4. CASE BufferAnnounce(b)
  BY <1>4 DEF BufferAnnounce, TypeOK, BufferStates, trtVars, Id
<1>5. CASE ReleaseFree(b)
  BY <1>5 DEF ReleaseFree, TypeOK, BufferStates, trtVars
<1>6. CASE ReleaseFails(b)
  BY <1>6 DEF ReleaseFails, TypeOK, BufferStates, trtVars, Id
<1>7. CASE ReleaseDeactivate(b)
  <2>1. /\ registry' \in Seq(Descriptor(Id))
        /\ UniqueIds(registry') /\ ActiveDisjoint(registry')
    BY <1>7, DeactivateKeepsRegistry DEF ReleaseDeactivate, TypeOK
  <2>2. TypeOK'
    BY <1>7, <2>1 DEF ReleaseDeactivate, TypeOK, BufferStates, trtVars
  <2> QED BY <1>7, <2>1, <2>2 DEF ReleaseDeactivate, trtVars
<1> QED
  BY <1>1, <1>2, <1>3, <1>4, <1>5, <1>6, <1>7 DEF DeviceBuffer

\* The invariant is inductive.
LEMMA NextKeepsRegistryInv == RegistryInv /\ [Next]_vars => RegistryInv'
<1> SUFFICES ASSUME RegistryInv, [Next]_vars PROVE RegistryInv'
  OBVIOUS
<1>1. CASE \E t \in Threads : Allocate(t) \/ Deallocate(t)
  BY <1>1, AllocateKeepsRegistryInv, DeallocateKeepsRegistryInv
<1>2. CASE \E b \in Buffers : DeviceBuffer(b)
  BY <1>2, BufferKeepsRegistryInv
<1>3. CASE Run
  BY <1>3 DEF Run, RegistryInv, TypeOK, trtVars
<1>4. CASE Teardown
  BY <1>4 DEF Teardown, RegistryInv, TypeOK, trtVars
<1>5. CASE Abort
  BY <1>5 DEF Abort, RegistryInv, TypeOK, trtVars
<1>6. CASE ProcessEnd
  BY <1>6 DEF ProcessEnd, RegistryInv, TypeOK, trtVars
<1>7. CASE UNCHANGED vars
  BY <1>7 DEF vars, RegistryInv, TypeOK, trtVars, mainVars
<1> QED
  BY <1>1, <1>2, <1>3, <1>4, <1>5, <1>6, <1>7 DEF Next, Done

\* Hence it holds in every reachable state.
LEMMA RegistryInvHolds == Spec => []RegistryInv
BY InitRegistryInv, NextKeepsRegistryInv, PTL DEF Spec

\* Every variable of the allocator keeps its type.
THEOREM TypeCorrect == Spec => []TypeOK
<1>1. RegistryInv => TypeOK
  BY DEF RegistryInv
<1> QED BY <1>1, RegistryInvHolds, PTL

\* However allocates, deallocates and buffers interleave, an id names one
\* allocation and no two active allocations share a byte.
THEOREM RegistryIsSound == Spec => [](RegistryIdsUnique /\ RegistryDisjoint)
<1>1. RegistryInv => RegistryIdsUnique /\ RegistryDisjoint
  BY DEF RegistryInv, RegistryIdsUnique, RegistryDisjoint
<1> QED BY <1>1, RegistryInvHolds, PTL

\* The forward and the reverse lookup are inverse on every active byte in every
\* reachable state.
THEOREM LookupsStayInverse == Spec => []LookupsInverse
<1>1. RegistryInv => LookupsInverse
  BY LookupsAreInverse DEF RegistryInv, TypeOK, LookupsInverse
<1> QED BY <1>1, RegistryInvHolds, PTL

-----------------------------------------------------------------------------
(* Who owns what, at every moment.                                         *)

\* A thread in one of these states owns a range, an id that nobody else has
\* seen, the mutex; a buffer in one of these owns a range.
OwnsSpan == Allocating \cup {"found"}
OwnsFreshId == {"ided", "added", "thrown", "dropped"}
OwnsMutex == {"found", "unmapped", "retired"}
BufferOwnsSpan == {"malloced", "added", "live"}

\* The range of a registry entry.
SpanOf(d) == [base |-> d.base, size |-> d.size]

\* Two ranges, of spans or of registry entries, that share no byte.
Apart(s, t) == s.base + s.size <= t.base \/ t.base + t.size <= s.base

\* The entry of an id is active and shows the span.
Shows(id, span) ==
  \E i \in DOMAIN registry :
    registry[i].id = id /\ registry[i].active /\ SpanOf(registry[i]) = span

\* The thread that owns this id has unmapped its range and not yet said so.
InWindow(id) == \E t \in Threads : pc[t] = "unmapped" /\ aid[t] = id

\* An active record of an allocation that the registry shows as active: all but
\* what an allocate that failed after its push has left behind.
Live(k) ==
  /\ records[k].active
  /\ \E i \in DOMAIN registry :
       /\ registry[i].id = records[k].id /\ registry[i].active
       /\ registry[i].base = records[k].gpu_va

\* The mutex is held by the one thread inside deallocate.
LockInv ==
  /\ \A t \in Threads : t \in mutex <=> pc[t] \in OwnsMutex
  /\ \A t, u \in mutex : t = u

\* What CUDA has given out is apart, and nobody uses what it has not given out.
SpansInv ==
  /\ \A s \in mapped : s.base + s.size - 1 <= MaxVa
  /\ \A s, r \in mapped : s # r => Apart(s, r)
  /\ \A t \in Threads : pc[t] \in OwnsSpan => memory[t] \in mapped
  /\ \A b \in Buffers : bpc[b] \in BufferOwnsSpan => bmem[b] \in mapped
  /\ \A va \in held : \E s \in mapped : s.base = va

\* A range has one owner: a thread, a buffer or TensorRT.
OwnersInv ==
  /\ \A t, u \in Threads :
       t # u /\ pc[t] \in OwnsSpan /\ pc[u] \in OwnsSpan => memory[t] # memory[u]
  /\ \A t \in Threads, b \in Buffers :
       pc[t] \in OwnsSpan /\ bpc[b] \in BufferOwnsSpan => memory[t] # bmem[b]
  /\ \A b, c \in Buffers :
       b # c /\ bpc[b] \in BufferOwnsSpan /\ bpc[c] \in BufferOwnsSpan
         => bmem[b] # bmem[c]
  /\ \A t \in Threads :
       pc[t] \in OwnsSpan \cup {"unmapped"} => memory[t].base \notin held
  /\ \A b \in Buffers : bpc[b] \in BufferOwnsSpan => bmem[b].base \notin held

\* An id is drawn once: it belongs to one thread, to one entry and to one record.
IdsInv ==
  /\ \A t \in Threads : pc[t] \in OwnsFreshId \cup OwnsMutex => aid[t] < next_id
  /\ \A t, u \in Threads :
       /\ t # u
       /\ pc[t] \in OwnsFreshId \cup OwnsMutex
       /\ pc[u] \in OwnsFreshId \cup OwnsMutex
       => aid[t] # aid[u]
  /\ \A k \in DOMAIN records : records[k].id < next_id
  /\ \A k, m \in DOMAIN records : records[k].id = records[m].id => k = m
  /\ \A t \in Threads, k \in DOMAIN records :
       /\ pc[t] \in {"ided", "added"} => records[k].id # aid[t]
       /\ pc[t] = "thrown" /\ records[k].id = aid[t] =>
            records[k].gpu_va = memory[t].base

\* Which ids the registry has, and on which device.
EntryIdsInv ==
  /\ \A i \in DOMAIN registry :
       /\ registry[i].device = Device
       /\ registry[i].id \in Buffers \/ registry[i].id < next_id
  /\ \A t \in Threads : pc[t] = "ided" => ~HasId(registry, aid[t])
  /\ \A b \in Buffers : bpc[b] \in {"none", "malloced"} => ~HasId(registry, b)

\* What the registry shows of each owner.
EntriesInv ==
  /\ \A t \in Threads :
       /\ pc[t] \in {"added", "found", "unmapped"} => Shows(aid[t], memory[t])
       /\ pc[t] \in {"dropped", "retired"} =>
            \A i \in DOMAIN registry : registry[i].id = aid[t] => ~registry[i].active
       /\ pc[t] = "retired" =>
            \E i \in DOMAIN registry :
              registry[i].id = aid[t] /\ SpanOf(registry[i]) = memory[t]
  /\ \A b \in Buffers :
       bpc[b] \in {"added", "live", "unmapped"} => Shows(b, bmem[b])
  /\ \A i \in DOMAIN registry : registry[i].active =>
       \/ SpanOf(registry[i]) \in mapped
       \/ InWindow(registry[i].id)
       \/ registry[i].id \in Buffers /\ bpc[registry[i].id] = "unmapped"

\* A range that is not registered yet meets no active entry, but for one in the
\* window; a thread with an id has left the window behind.
FreshInv ==
  /\ \A t \in Threads, i \in DOMAIN registry : registry[i].active =>
       /\ pc[t] = "malloced" => Apart(registry[i], memory[t]) \/ InWindow(registry[i].id)
       /\ pc[t] \in OwnsFreshId => Apart(registry[i], memory[t]) \/ registry[i].id = aid[t]
       /\ pc[t] = "retired" => Apart(registry[i], memory[t]) \/ registry[i].id \in Buffers
  /\ \A b \in Buffers, i \in DOMAIN registry :
       registry[i].active /\ bpc[b] = "malloced" =>
         Apart(registry[i], bmem[b]) \/ InWindow(registry[i].id)
  /\ \A t, u \in Threads :
       pc[t] = "ided" /\ pc[u] \in {"unmapped", "retired"} => Apart(memory[t], memory[u])

\* Live records, registry and TensorRT's addresses tell of the same allocations,
\* and the record that deallocate picks is live.
RecordsInv ==
  /\ \A k \in DOMAIN records : Live(k) =>
       \/ records[k].gpu_va \in held
       \/ records[k].id \in leaked
       \/ \E t \in Threads :
            pc[t] \in {"thrown", "found", "unmapped"} /\ aid[t] = records[k].id
  /\ \A va \in held : \E k \in DOMAIN records : IsRecordOf(k, va) /\ Live(k)
  /\ \A t \in Threads : pc[t] \in {"found", "unmapped"} =>
       \E k \in DOMAIN records :
         IsRecordOf(k, memory[t].base) /\ Live(k) /\ records[k].id = aid[t]

\* The ledger shows an allocation from its record on, until its FREE event, and
\* nothing of an allocate that has not returned.
LedgerInv ==
  /\ \A n \in ledger \ Buffers :
       \E k \in DOMAIN records :
         /\ records[k].id = n
         /\ Live(k) \/ \E t \in Threads : pc[t] = "retired" /\ aid[t] = n
  /\ \A t \in Threads : pc[t] \in OwnsFreshId => aid[t] \notin ledger
  /\ phase \in {"clear", "end"} /\ ~failed => ledger \cap Bindings = {}

\* What the main thread waits for before it goes on.
PhaseInv ==
  /\ \A b, c \in Constructing : b = c
  /\ \A b \in Buffers : bpc[b] = "malloced" => phase = "setup"
  /\ \A b \in Buffers : bpc[b] = "unmapped" => phase = "clear" /\ NoCallInProgress
  /\ phase = "end" => held = {} /\ \A t \in Threads : pc[t] = "idle"

\* The whole inductive invariant.
OwnershipInv ==
  /\ RegistryInv /\ LockInv /\ SpansInv /\ OwnersInv /\ IdsInv /\ EntryIdsInv
  /\ EntriesInv /\ FreshInv /\ RecordsInv /\ LedgerInv /\ PhaseInv

-----------------------------------------------------------------------------
(* Ranges and registry entries.                                            *)

\* Every span, and the span of every entry, is one of these.
Ranges == [base: Nat, size: Nat \ {0}]

\* What the proofs use of ranges: apart is symmetric, irreflexive, and what
\* both Disjoint and ~Overlaps say.
LEMMA ApartFacts ==
  /\ \A s, r \in Ranges :
       /\ Apart(s, r) => Apart(r, s) /\ s.base # r.base /\ s # r
       /\ Disjoint(s, r) => Apart(s, r)
  /\ \A s \in Ranges : ~Apart(s, s)
<1>1. ASSUME NEW s \in Ranges, NEW r \in Ranges
      PROVE  /\ Apart(s, r) => Apart(r, s) /\ s.base # r.base /\ s # r
             /\ Disjoint(s, r) => Apart(s, r)
  <2>1. s.base \in Nat /\ s.size \in Nat \ {0} /\ r.base \in Nat /\ r.size \in Nat \ {0}
    BY DEF Ranges
  <2>2. Apart(s, r) => Apart(r, s) /\ s.base # r.base /\ s # r
    BY <2>1 DEF Apart
  <2>3. ASSUME ~Apart(s, r) PROVE ~Disjoint(s, r)
    <3>1. CASE s.base <= r.base
      <4>1. r.base \in BytesOf(s) /\ r.base \in BytesOf(r)
        BY <2>1, <2>3, <3>1 DEF Apart, BytesOf
      <4> QED BY <4>1 DEF Disjoint
    <3>2. CASE r.base < s.base
      <4>1. s.base \in BytesOf(s) /\ s.base \in BytesOf(r)
        BY <2>1, <2>3, <3>2 DEF Apart, BytesOf
      <4> QED BY <4>1 DEF Disjoint
    <3> QED BY <2>1, <3>1, <3>2
  <2> QED BY <2>2, <2>3
<1>2. ASSUME NEW s \in Ranges PROVE ~Apart(s, s)
  BY DEF Ranges, Apart
<1> QED BY <1>1, <1>2

\* An entry is as far from others as its span, and active entries are apart.
LEMMA EntryFacts ==
  ASSUME NEW reg \in Seq(Descriptor(Id)), NEW i \in DOMAIN reg
  PROVE  /\ SpanOf(reg[i]) \in Ranges
         /\ SpanOf(reg[i]).base = reg[i].base
         /\ reg[i].id \in Id /\ reg[i].active \in BOOLEAN
         /\ \A s : Apart(reg[i], s) <=> Apart(SpanOf(reg[i]), s)
         /\ \A s : Apart(s, reg[i]) <=> Apart(s, SpanOf(reg[i]))
<1>1. reg[i] \in Descriptor(Id)
  BY ElementType
<1>2. reg[i].base \in Nat /\ reg[i].size \in Nat \ {0} /\ reg[i].id \in Id /\ reg[i].active \in BOOLEAN
  BY <1>1, MaxVaAssumption DEF Descriptor
<1> QED BY <1>2 DEF Ranges, SpanOf, Apart

\* Two active entries of the one device are apart.
LEMMA ActiveApart ==
  ASSUME RegistryInv, EntryIdsInv,
         NEW i \in DOMAIN registry, NEW j \in DOMAIN registry,
         registry[i].active, registry[j].active, i # j
  PROVE  Apart(registry[i], registry[j])
<1>1. ~Overlaps(registry[i], registry[j])
  BY DEF RegistryInv, EntryIdsInv, ActiveDisjoint
<1>2. registry[i] \in Descriptor(Id) /\ registry[j] \in Descriptor(Id)
  BY ElementType DEF RegistryInv, TypeOK
<1>3. /\ registry[i].base \in Nat /\ registry[i].size \in Nat
      /\ registry[j].base \in Nat /\ registry[j].size \in Nat
  BY <1>2, MaxVaAssumption DEF Descriptor
<1> QED BY <1>1, <1>3 DEF Overlaps, inclusive_end, Apart

\* Active entries that show one span, or one base, are the same entry.
LEMMA OneActiveEntry ==
  ASSUME RegistryInv, EntryIdsInv,
         NEW i \in DOMAIN registry, NEW j \in DOMAIN registry,
         registry[i].active, registry[j].active,
         registry[i].base = registry[j].base
  PROVE  i = j
<1>1. registry \in Seq(Descriptor(Id))
  BY DEF RegistryInv, TypeOK
<1>2. SpanOf(registry[i]) \in Ranges /\ SpanOf(registry[j]) \in Ranges
  BY <1>1, EntryFacts
<1>3. i # j => Apart(SpanOf(registry[i]), SpanOf(registry[j]))
  BY <1>1, ActiveApart, EntryFacts
<1>4. SpanOf(registry[i]).base = SpanOf(registry[j]).base
  BY <1>1, EntryFacts
<1> QED BY <1>2, <1>3, <1>4, ApartFacts

\* Spans are ranges.
LEMMA SpansAreRanges == Spans \subseteq Ranges /\ \A s \in Spans : SpanOf(s) = s
<1>1. \A s \in Spans : s = [base |-> s.base, size |-> s.size]
  BY DEF Spans
<1>2. \A s \in Spans : s.base \in Nat /\ s.size \in Nat \ {0}
  BY SpanFacts, MaxVaAssumption
<1>3. \A s \in Spans : SpanOf(s) = s
  BY <1>1, Zenon DEF SpanOf
<1>4. \A s \in Spans : s \in Ranges
  BY <1>1, <1>2 DEF Ranges
<1> QED BY <1>3, <1>4

\* What deactivating an id changes.
LEMMA DeactivateEffect ==
  ASSUME NEW reg \in Seq(Descriptor(Id)), UniqueIds(reg), NEW id
  PROVE  LET r == deactivate_allocation(reg, id)
         IN /\ DOMAIN r = DOMAIN reg
            /\ \A i \in DOMAIN reg :
                 /\ r[i].id = reg[i].id /\ r[i].device = reg[i].device
                 /\ r[i].base = reg[i].base
                 /\ SpanOf(r[i]) = SpanOf(reg[i])
                 /\ \A s : Apart(r[i], s) <=> Apart(reg[i], s)
                 /\ r[i].active <=> reg[i].active /\ reg[i].id # id
<1> DEFINE r == deactivate_allocation(reg, id)
<1>1. /\ reg \in [1 .. Len(reg) -> Descriptor(Id)]
      /\ Len(reg) \in Nat
      /\ DOMAIN reg = 1 .. Len(reg)
  OBVIOUS
<1>2. CASE ~HasId(reg, id)
  BY <1>2 DEF deactivate_allocation, HasId
<1>3. CASE HasId(reg, id)
  <2> DEFINE k == FirstWithId(reg, id)
  <2>1. k \in DOMAIN reg /\ reg[k].id = id
    <3>1. PICK m \in DOMAIN reg : reg[m].id = id
      BY <1>3 DEF HasId
    <3>2. \A j \in DOMAIN reg : reg[j].id = id => m <= j
      BY <1>1, <3>1 DEF UniqueIds
    <3> QED BY <3>1, <3>2 DEF FirstWithId
  <2>2. r = [reg EXCEPT ![k].active = FALSE]
    BY <1>3 DEF deactivate_allocation
  <2> HIDE DEF k, r
  <2>3. \A d \in Descriptor(Id) :
          LET e == [d EXCEPT !.active = FALSE]
          IN /\ e.id = d.id /\ e.device = d.device /\ e.base = d.base
             /\ e.size = d.size /\ ~e.active
    BY DEF Descriptor
  <2>4. \A i \in DOMAIN reg :
          r[i] = IF i = k THEN [reg[i] EXCEPT !.active = FALSE] ELSE reg[i]
    BY <1>1, <2>2
  <2>5. DOMAIN r = DOMAIN reg
    BY <1>1, <2>2
  <2>6. \A i \in DOMAIN reg :
          /\ r[i].id = reg[i].id /\ r[i].device = reg[i].device
          /\ r[i].base = reg[i].base /\ r[i].size = reg[i].size
          /\ i # k => r[i] = reg[i]
          /\ i = k => ~r[i].active
    BY ZenonT(40), <1>1, <2>3, <2>4
  <2>7. \A i \in DOMAIN reg : reg[i].id = id <=> i = k
    BY <2>1 DEF UniqueIds
  <2>8. \A i \in DOMAIN reg :
          /\ SpanOf(r[i]) = SpanOf(reg[i])
          /\ \A s : Apart(r[i], s) <=> Apart(reg[i], s)
          /\ r[i].active <=> reg[i].active /\ reg[i].id # id
    BY <2>6, <2>7 DEF SpanOf, Apart
  <2> QED BY <2>5, <2>6, <2>8 DEF r
<1> QED BY <1>2, <1>3

\* A step that deactivates an id in the registry, and nothing else in it.
Deactivated(id) ==
  /\ DOMAIN registry' = DOMAIN registry
  /\ \A i \in DOMAIN registry :
       /\ registry'[i].id = registry[i].id /\ registry'[i].device = registry[i].device
       /\ registry'[i].base = registry[i].base
       /\ SpanOf(registry'[i]) = SpanOf(registry[i])
       /\ \A s : Apart(registry'[i], s) <=> Apart(registry[i], s)
       /\ registry'[i].active <=> registry[i].active /\ registry[i].id # id

\* What an accepted add changes.
LEMMA AddEffect ==
  ASSUME NEW reg \in Seq(Descriptor(Id)), NEW d, Accepts(reg, d)
  PROVE  /\ DOMAIN add_allocation(reg, d) = DOMAIN reg \cup {Len(reg) + 1}
         /\ Len(reg) + 1 \notin DOMAIN reg
         /\ \A i \in DOMAIN reg : add_allocation(reg, d)[i] = reg[i]
         /\ add_allocation(reg, d)[Len(reg) + 1] = d
BY DEF add_allocation

\* A record has an id and an address.
LEMMA RecordFacts ==
  ASSUME RegistryInv, NEW k \in DOMAIN records
  PROVE  records[k].id \in Nat /\ records[k].gpu_va \in Nat /\ records[k].active \in BOOLEAN
<1>1. records[k] \in [gpu_va: 1..MaxVa, id: Nat, active: BOOLEAN]
  BY ElementType, Zenon DEF RegistryInv, TypeOK
<1> QED BY <1>1, MaxVaAssumption

\* The search from the back has one answer.
LEMMA OneRecordOf ==
  ASSUME NEW k \in DOMAIN records, NEW m \in DOMAIN records, NEW va,
         RegistryInv, IsRecordOf(k, va), IsRecordOf(m, va)
  PROVE  k = m
<1>1. DOMAIN records \subseteq Nat
  BY DEF RegistryInv, TypeOK
<1> QED BY <1>1 DEF IsRecordOf

\* A live record at an address: there is at most one.
LEMMA OneLiveRecord ==
  ASSUME RegistryInv, EntryIdsInv, IdsInv,
         NEW k \in DOMAIN records, NEW m \in DOMAIN records,
         Live(k), Live(m), records[k].gpu_va = records[m].gpu_va
  PROVE  k = m
<1>1. PICK i \in DOMAIN registry :
        /\ registry[i].id = records[k].id /\ registry[i].active
        /\ registry[i].base = records[k].gpu_va
  BY DEF Live
<1>2. PICK j \in DOMAIN registry :
        /\ registry[j].id = records[m].id /\ registry[j].active
        /\ registry[j].base = records[m].gpu_va
  BY DEF Live
<1>3. i = j
  BY <1>1, <1>2, OneActiveEntry
<1> QED BY <1>1, <1>2, <1>3 DEF IdsInv

\* A new entry whose id no record has makes no record live and none dead.
LEMMA AddKeepsLive ==
  ASSUME NEW new, new \notin DOMAIN registry,
         DOMAIN registry' = DOMAIN registry \cup {new},
         \A i \in DOMAIN registry : registry'[i] = registry[i],
         \A k \in DOMAIN records : records[k].id # registry'[new].id,
         UNCHANGED records, NEW k \in DOMAIN records
  PROVE  Live(k)' <=> Live(k)
BY DEF Live

\* Deactivating an id ends the life of the record with that id, if there is one.
LEMMA DeactivateKeepsLive ==
  ASSUME NEW id, Deactivated(id), NEW k \in DOMAIN records,
         records'[k] = records[k]
  PROVE  Live(k)' <=> Live(k) /\ records[k].id # id
BY DEF Live, Deactivated

-----------------------------------------------------------------------------
(* The steps of allocate.                                                  *)

\* A fresh range meets nothing but, perhaps, the window of another thread's free.
LEMMA MallocKeepsOwnership ==
  ASSUME OwnershipInv, RegistryInv', NEW t \in Threads, NEW span \in Spans,
         AllocateMalloc(t, span)
  PROVE  OwnershipInv'
<1> USE DEF OwnershipInv
<1>1. /\ pc[t] = "idle" /\ phase \in {"setup", "run"}
      /\ mapped' = mapped \cup {span}
      /\ \A u \in Threads : /\ memory'[u] = IF u = t THEN span ELSE memory[u]
                            /\ pc'[u] = IF u = t THEN "malloced" ELSE pc[u]
      /\ UNCHANGED <<registry, records, next_id, mutex, aid, held, bpc, bmem,
                     phase, failed, ledger, leaked>>
  BY DEF AllocateMalloc, TensorRtMayAllocate, mainVars, RegistryInv, TypeOK
<1>2. /\ span.base + span.size - 1 <= MaxVa
      /\ \A s \in mapped : Apart(s, span) /\ Apart(span, s) /\ s.base # span.base /\ s # span
  BY SpansAreRanges, ApartFacts DEF AllocateMalloc, Free, RegistryInv, TypeOK
<1>3. LockInv'
  BY <1>1 DEF LockInv, OwnsMutex
<1>4. SpansInv'
  BY <1>1, <1>2 DEF SpansInv, OwnsSpan, Allocating
<1>5. OwnersInv'
  BY <1>1, <1>2 DEF OwnersInv, SpansInv, OwnsSpan, Allocating
<1>6. IdsInv'
  BY <1>1 DEF IdsInv, OwnsMutex, OwnsFreshId
<1>7. EntryIdsInv'
  BY <1>1 DEF EntryIdsInv
<1>8. \A id : InWindow(id)' <=> InWindow(id)
  BY <1>1 DEF InWindow
<1>9. EntriesInv'
  BY <1>1, <1>8 DEF EntriesInv, Shows
<1>10. \A i \in DOMAIN registry : registry[i].active =>
         Apart(registry[i], span) \/ InWindow(registry[i].id)
  <2> TAKE i \in DOMAIN registry
  <2> HAVE registry[i].active
  <2>1. registry[i].id \in Buffers => bpc[registry[i].id] # "unmapped"
    BY <1>1 DEF PhaseInv
  <2>2. SpanOf(registry[i]) \in mapped => Apart(registry[i], span)
    BY <1>2, EntryFacts DEF RegistryInv, TypeOK
  <2> QED BY <2>1, <2>2 DEF EntriesInv
<1>11. FreshInv'
  BY <1>1, <1>8, <1>10 DEF FreshInv, OwnsFreshId
<1>12. RecordsInv'
  BY <1>1 DEF RecordsInv, Live, IsRecordOf
<1>13. LedgerInv'
  BY <1>1 DEF LedgerInv, Live, OwnsFreshId
<1>14. PhaseInv'
  BY <1>1 DEF PhaseInv, Constructing, NoCallInProgress
<1> QED BY <1>3, <1>4, <1>5, <1>6, <1>7, <1>9, <1>11, <1>12, <1>13, <1>14

\* Taking the mutex for the id waits for the end of every window.
LEMMA IdKeepsOwnership ==
  ASSUME OwnershipInv, RegistryInv', NEW t \in Threads, AllocateId(t)
  PROVE  OwnershipInv'
<1> USE DEF OwnershipInv
<1>1. /\ pc[t] = "malloced" /\ mutex = {}
      /\ next_id' = next_id + 1 /\ next_id \in Nat /\ aid \in [Threads -> Nat]
      /\ \A u \in Threads : /\ aid'[u] = IF u = t THEN next_id ELSE aid[u]
                            /\ pc'[u] = IF u = t THEN "ided" ELSE pc[u]
      /\ UNCHANGED <<mapped, registry, records, mutex, memory, held, bpc, bmem,
                     phase, failed, ledger, leaked>>
  BY DEF AllocateId, mainVars, RegistryInv, TypeOK
<1>2. \A u \in Threads : pc[u] \notin OwnsMutex
  BY <1>1 DEF LockInv
<1>3. LockInv'
  BY <1>1 DEF LockInv, OwnsMutex
<1>4. SpansInv'
  BY <1>1 DEF SpansInv, OwnsSpan, Allocating
<1>5. OwnersInv'
  BY <1>1 DEF OwnersInv, OwnsSpan, Allocating
<1>6. \A k \in DOMAIN records : records[k].id \in Nat
  BY RecordFacts
<1>7. IdsInv'
  BY <1>1, <1>6 DEF IdsInv, OwnsMutex, OwnsFreshId
<1>8. EntryIdsInv'
  <2>1. \A i \in DOMAIN registry : registry[i].id \in Buffers \cup Nat
    BY EntryFacts DEF RegistryInv, TypeOK, Id
  <2>2. Buffers \cap Nat = {}
    BY TrackingAssumption DEF Buffers
  <2> QED BY <1>1, <2>1, <2>2 DEF EntryIdsInv, HasId
<1>9. \A id : InWindow(id)' <=> InWindow(id)
  BY <1>1 DEF InWindow
<1>10. EntriesInv'
  BY <1>1, <1>9 DEF EntriesInv, Shows
<1>11. \A id : ~InWindow(id)
  BY <1>2 DEF InWindow, OwnsMutex
<1>12. FreshInv'
  BY <1>1, <1>2, <1>9, <1>11 DEF FreshInv, OwnsFreshId, OwnsMutex
<1>13. RecordsInv'
  BY <1>1 DEF RecordsInv, Live, IsRecordOf
<1>14. LedgerInv'
  <2>1. next_id \notin ledger
    BY <1>1, <1>6, TrackingAssumption DEF LedgerInv, IdsInv, Buffers
  <2> QED BY <1>1, <2>1 DEF LedgerInv, Live, OwnsFreshId
<1>15. PhaseInv'
  BY <1>1 DEF PhaseInv, Constructing, NoCallInProgress, Allocating
<1> QED BY <1>3, <1>4, <1>5, <1>7, <1>8, <1>10, <1>12, <1>13, <1>14, <1>15

\* The new entry shows a range that its thread alone owns.
LEMMA AddKeepsOwnership ==
  ASSUME OwnershipInv, RegistryInv', NEW t \in Threads, AllocateAdd(t)
  PROVE  OwnershipInv'
<1> USE DEF OwnershipInv
<1> DEFINE new == Len(registry) + 1
           d   == TrtDescriptor(t)
<1>1. /\ pc[t] = "ided"
      /\ \A u \in Threads : pc'[u] = IF u = t THEN "added" ELSE pc[u]
      /\ UNCHANGED <<mapped, records, next_id, mutex, memory, aid, held, bpc, bmem,
                     phase, failed, ledger, leaked>>
  BY DEF AllocateAdd, mainVars, RegistryInv, TypeOK
<1>2. /\ DOMAIN registry' = DOMAIN registry \cup {new} /\ new \notin DOMAIN registry
      /\ \A i \in DOMAIN registry : registry'[i] = registry[i]
      /\ registry'[new] = d
  <2> HIDE DEF d
  <2>1. /\ registry \in Seq(Descriptor(Id)) /\ Accepts(registry, d)
        /\ registry' = add_allocation(registry, d)
    BY DEF AllocateAdd, RegistryInv, TypeOK, d
  <2>2. /\ DOMAIN add_allocation(registry, d) = DOMAIN registry \cup {new}
        /\ new \notin DOMAIN registry
        /\ \A i \in DOMAIN registry : add_allocation(registry, d)[i] = registry[i]
        /\ add_allocation(registry, d)[new] = d
    BY <2>1, AddEffect, Zenon
  <2> QED BY <2>1, <2>2
<1>3. /\ d.id = aid[t] /\ d.active /\ d.device = Device
      /\ SpanOf(d) = memory[t]
      /\ \A s : Apart(d, s) <=> Apart(memory[t], s)
      /\ memory[t] \in mapped /\ memory[t] \in Spans /\ mapped \subseteq Spans
      /\ aid[t] \in Nat /\ aid[t] \notin Buffers
  <2>1. memory[t] \in mapped /\ mapped \subseteq Spans
    BY <1>1 DEF SpansInv, OwnsSpan, Allocating, RegistryInv, TypeOK
  <2>2. memory[t] = [base |-> memory[t].base, size |-> memory[t].size]
    BY <2>1 DEF Spans
  <2>3. aid[t] \in Nat /\ aid[t] \notin Buffers
    BY TrackingAssumption DEF RegistryInv, TypeOK, Buffers
  <2> QED BY <2>1, <2>2, <2>3 DEF TrtDescriptor, SpanOf, Apart
<1> HIDE DEF new, d
<1>4. \A s \in mapped : s # memory[t] => Apart(memory[t], s)
  BY <1>3 DEF SpansInv
<1>5. LockInv' /\ SpansInv' /\ OwnersInv' /\ IdsInv'
  BY <1>1 DEF LockInv, SpansInv, OwnersInv, IdsInv, OwnsMutex, OwnsSpan, OwnsFreshId, Allocating
<1>6. EntryIdsInv'
  BY <1>1, <1>2, <1>3 DEF EntryIdsInv, HasId, IdsInv, OwnsFreshId
<1>7. \A id : InWindow(id)' <=> InWindow(id)
  BY <1>1 DEF InWindow
<1>8. \A id, s : Shows(id, s) => Shows(id, s)'
  BY <1>2 DEF Shows
<1>9. EntriesInv'
  <2>1. Shows(aid[t], memory[t])'
    BY <1>1, <1>2, <1>3 DEF Shows
  <2>2. \A u \in Threads : u # t /\ pc[u] \in {"dropped", "retired"} => aid[u] # aid[t]
    BY <1>1 DEF IdsInv, OwnsFreshId, OwnsMutex
  <2> QED BY <1>1, <1>2, <1>3, <1>7, <1>8, <2>1, <2>2 DEF EntriesInv
<1>10. FreshInv'
  <2>1. \A u \in Threads : u # t /\ pc[u] \in OwnsSpan =>
          memory[u] \in mapped /\ memory[u] # memory[t]
    BY <1>1 DEF SpansInv, OwnersInv, OwnsSpan, Allocating
  <2>2. \A b \in Buffers : bpc[b] = "malloced" => bmem[b] \in mapped /\ bmem[b] # memory[t]
    BY <1>1 DEF SpansInv, OwnersInv, OwnsSpan, Allocating, BufferOwnsSpan
  <2>3. \A u \in Threads : pc[u] \in {"malloced"} \cup OwnsFreshId => pc[u] \in OwnsSpan
    BY DEF OwnsSpan, OwnsFreshId, Allocating
  <2> QED BY <1>1, <1>2, <1>3, <1>4, <1>7, <2>1, <2>2, <2>3 DEF FreshInv, OwnsFreshId
<1>11. \A k \in DOMAIN records : Live(k)' <=> Live(k)
  BY <1>1, <1>2, <1>3, AddKeepsLive DEF IdsInv
<1>12. RecordsInv'
  BY <1>1, <1>11 DEF RecordsInv, IsRecordOf
<1>13. LedgerInv'
  BY <1>1, <1>11 DEF LedgerInv, OwnsFreshId
<1>14. PhaseInv'
  BY <1>1 DEF PhaseInv, Constructing, NoCallInProgress, Allocating
<1> QED BY <1>5, <1>6, <1>9, <1>10, <1>12, <1>13, <1>14

\* The range given back here was never shown by an entry.
LEMMA IdThrowsKeepsOwnership ==
  ASSUME OwnershipInv, RegistryInv', NEW t \in Threads, AllocateIdThrows(t)
  PROVE  OwnershipInv'
<1> USE DEF OwnershipInv
<1>1. /\ pc[t] = "malloced" /\ mutex = {}
      /\ next_id' = next_id + 1 /\ next_id \in Nat /\ aid \in [Threads -> Nat]
      /\ mapped' \subseteq mapped /\ mapped \ {memory[t]} \subseteq mapped'
      /\ mapped \subseteq Spans
      /\ \A u \in Threads : /\ memory'[u] = IF u = t THEN NoSpan ELSE memory[u]
                            /\ pc'[u] = IF u = t THEN "idle" ELSE pc[u]
      /\ UNCHANGED <<registry, records, mutex, aid, held, bpc, bmem,
                     phase, failed, ledger, leaked>>
  BY DEF AllocateIdThrows, mainVars, RegistryInv, TypeOK
<1>2. \A u \in Threads : pc[u] \notin OwnsMutex
  BY <1>1 DEF LockInv
<1>3. LockInv'
  BY <1>1 DEF LockInv, OwnsMutex
<1>4. memory[t] \in mapped /\ memory[t].base \notin held
  BY <1>1 DEF SpansInv, OwnersInv, OwnsSpan, Allocating
<1>5. SpansInv'
  BY <1>1, <1>4 DEF SpansInv, OwnersInv, OwnsSpan, Allocating
<1>6. OwnersInv'
  BY <1>1 DEF OwnersInv, OwnsSpan, Allocating
<1>7. IdsInv'
  BY <1>1, RecordFacts DEF IdsInv, OwnsMutex, OwnsFreshId
<1>8. EntryIdsInv'
  <2>1. \A i \in DOMAIN registry : registry[i].id \in Buffers \cup Nat
    BY EntryFacts DEF RegistryInv, TypeOK, Id
  <2> QED BY <1>1, <2>1 DEF EntryIdsInv
<1>9. \A id : ~InWindow(id) /\ ~InWindow(id)'
  BY <1>1, <1>2 DEF InWindow, OwnsMutex
<1>10. \A i \in DOMAIN registry :
         registry[i].active => SpanOf(registry[i]) # memory[t]
  BY <1>1, <1>4, <1>9, EntryFacts, SpansAreRanges, ApartFacts
     DEF FreshInv, RegistryInv, TypeOK
<1>11. EntriesInv'
  BY <1>1, <1>9, <1>10 DEF EntriesInv, Shows
<1>12. FreshInv'
  BY <1>1, <1>9 DEF FreshInv, OwnsFreshId
<1>13. RecordsInv'
  BY <1>1 DEF RecordsInv, Live, IsRecordOf
<1>14. LedgerInv'
  BY <1>1 DEF LedgerInv, Live, OwnsFreshId
<1>15. PhaseInv'
  BY <1>1 DEF PhaseInv, Constructing, NoCallInProgress, Allocating
<1> QED BY <1>3, <1>5, <1>6, <1>7, <1>8, <1>11, <1>12, <1>13, <1>14, <1>15

\* In the catch block the range and the id are still the thread's own.
LEMMA ThrowKeepsOwnership ==
  ASSUME OwnershipInv, RegistryInv', NEW t \in Threads, AllocateThrow(t)
  PROVE  OwnershipInv'
<1> USE DEF OwnershipInv
<1>1. /\ pc[t] \in {"ided", "added"}
      /\ \A u \in Threads : pc'[u] = IF u = t THEN "thrown" ELSE pc[u]
      /\ UNCHANGED <<mapped, registry, records, next_id, mutex, memory, aid, held,
                     bpc, bmem, phase, failed, ledger, leaked>>
  BY DEF AllocateThrow, mainVars, RegistryInv, TypeOK
<1>2. LockInv' /\ SpansInv' /\ OwnersInv' /\ IdsInv' /\ EntryIdsInv'
  BY <1>1 DEF LockInv, SpansInv, OwnersInv, IdsInv, EntryIdsInv,
              OwnsMutex, OwnsSpan, OwnsFreshId, Allocating
<1>3. \A id : InWindow(id)' <=> InWindow(id)
  BY <1>1 DEF InWindow
<1>4. EntriesInv'
  BY <1>1, <1>3 DEF EntriesInv, Shows
<1>5. FreshInv'
  BY <1>1, <1>3 DEF FreshInv, OwnsFreshId
<1>6. RecordsInv' /\ LedgerInv' /\ PhaseInv'
  BY <1>1 DEF RecordsInv, LedgerInv, PhaseInv, Live, IsRecordOf, OwnsFreshId,
              Constructing, NoCallInProgress, Allocating
<1> QED BY <1>2, <1>4, <1>5, <1>6

\* What the push of a record changes: the new one is the newest of its address,
\* every other address keeps the record it had.
LEMMA PushEffect ==
  ASSUME RegistryInv, NEW t \in Threads, PushRecord(t), UNCHANGED registry
  PROVE  \E new, base :
           /\ base = memory[t].base
           /\ DOMAIN records' = DOMAIN records \cup {new} /\ new \notin DOMAIN records
           /\ \A k \in DOMAIN records :
                /\ records'[k] = records[k]
                /\ Live(k)' <=> Live(k)
                /\ \A va : va # base /\ IsRecordOf(k, va) => IsRecordOf(k, va)'
           /\ records'[new].gpu_va = base
           /\ records'[new].id = aid[t] /\ records'[new].active
           /\ IsRecordOf(new, base)'
<1>1. PICK new, base, r :
        /\ new = Len(records) + 1 /\ base = memory[t].base
        /\ r = [gpu_va |-> memory[t].base, id |-> aid[t], active |-> TRUE]
  OBVIOUS
<1>2. /\ records' = Append(records, r)
      /\ r.gpu_va = base /\ r.id = aid[t] /\ r.active
  BY <1>1 DEF PushRecord
<1>3. records \in Seq([gpu_va: 1..MaxVa, id: Nat, active: BOOLEAN])
  BY DEF RegistryInv, TypeOK
<1>4. /\ DOMAIN records' = DOMAIN records \cup {new} /\ new \notin DOMAIN records
      /\ \A k \in DOMAIN records : records'[k] = records[k] /\ k <= new
      /\ records'[new] = r /\ new \in Nat
  BY <1>1, <1>2, <1>3
<1>5. \A k \in DOMAIN records : Live(k)' <=> Live(k)
  BY <1>4 DEF Live
<1>6. ASSUME NEW k \in DOMAIN records, NEW va, va # base, IsRecordOf(k, va)
      PROVE  IsRecordOf(k, va)'
  BY <1>2, <1>4, <1>6 DEF IsRecordOf
<1>7. IsRecordOf(new, base)'
  BY <1>2, <1>4 DEF IsRecordOf
<1> QED BY <1>1, <1>2, <1>4, <1>5, <1>6, <1>7

\* The range, its entry and its record pass from the thread to TensorRT together.
LEMMA RecordKeepsOwnership ==
  ASSUME OwnershipInv, RegistryInv', NEW t \in Threads, AllocateRecord(t)
  PROVE  OwnershipInv'
<1> USE DEF OwnershipInv
<1>1. /\ pc[t] = "added" /\ mutex = {}
      /\ ledger' = ledger \cup {aid[t]}
      /\ held' = held \cup {memory[t].base}
      /\ \A u \in Threads : /\ pc'[u] = IF u = t THEN "idle" ELSE pc[u]
                            /\ memory'[u] = IF u = t THEN NoSpan ELSE memory[u]
                            /\ aid'[u] = IF u = t THEN 0 ELSE aid[u]
      /\ UNCHANGED <<mapped, registry, next_id, mutex, bpc, bmem, phase, failed, leaked>>
  BY DEF AllocateRecord, mainVars, RegistryInv, TypeOK
<1>2. PICK new, base :
        /\ base = memory[t].base
        /\ DOMAIN records' = DOMAIN records \cup {new} /\ new \notin DOMAIN records
        /\ \A k \in DOMAIN records :
             /\ records'[k] = records[k]
             /\ Live(k)' <=> Live(k)
             /\ \A va : va # base /\ IsRecordOf(k, va) => IsRecordOf(k, va)'
        /\ records'[new].gpu_va = base
        /\ records'[new].id = aid[t] /\ records'[new].active
        /\ IsRecordOf(new, base)'
  BY PushEffect DEF AllocateRecord
<1>3. \A u \in Threads : pc[u] \notin OwnsMutex
  BY <1>1 DEF LockInv
<1>4. /\ memory[t] \in mapped /\ aid[t] \in Nat /\ aid[t] < next_id /\ aid[t] \notin Buffers
      /\ mapped \subseteq Ranges
  BY <1>1, TrackingAssumption, SpansAreRanges
     DEF SpansInv, OwnsSpan, Allocating, IdsInv, OwnsFreshId, RegistryInv, TypeOK, Buffers
<1>5. LockInv' /\ EntryIdsInv'
  BY <1>1 DEF LockInv, EntryIdsInv, OwnsMutex
<1>6. SpansInv'
  BY <1>1, <1>4 DEF SpansInv, OwnsSpan, Allocating
<1>7. \A s \in mapped : s # memory[t] => s.base # memory[t].base
  BY <1>4, ApartFacts DEF SpansInv
<1>8. OwnersInv'
  <2>1. \A u \in Threads : u # t /\ pc[u] \in OwnsSpan \cup {"unmapped"} =>
          memory[u].base \notin held'
    BY <1>1, <1>3, <1>7 DEF OwnersInv, SpansInv, OwnsMutex, OwnsSpan, Allocating
  <2>2. \A b \in Buffers : bpc[b] \in BufferOwnsSpan => bmem[b].base \notin held'
    BY <1>1, <1>7 DEF OwnersInv, SpansInv, OwnsSpan, Allocating
  <2> QED BY <1>1, <2>1, <2>2 DEF OwnersInv, OwnsSpan, Allocating
<1>9. IdsInv'
  BY <1>1, <1>2, <1>3, <1>4 DEF IdsInv, OwnsFreshId, OwnsMutex
<1>10. \A id : InWindow(id)' <=> InWindow(id)
  BY <1>1 DEF InWindow
<1>11. EntriesInv'
  BY <1>1, <1>10 DEF EntriesInv, Shows
<1>12. FreshInv'
  BY <1>1, <1>3, <1>10 DEF FreshInv, OwnsFreshId, OwnsMutex
<1>13. RecordsInv'
  <2>1. PICK i \in DOMAIN registry :
          /\ registry[i].id = aid[t] /\ registry[i].active
          /\ SpanOf(registry[i]) = memory[t]
    BY <1>1 DEF EntriesInv, Shows
  <2>2. registry[i].base = memory[t].base
    BY <2>1 DEF SpanOf
  <2>3. Live(new)'
    BY <1>1, <1>2, <2>1, <2>2 DEF Live
  <2>4. ASSUME NEW k \in DOMAIN records', Live(k)'
        PROVE  \/ records'[k].gpu_va \in held'
               \/ records'[k].id \in leaked'
               \/ \E u \in Threads :
                    pc'[u] \in {"thrown", "found", "unmapped"} /\ aid'[u] = records'[k].id
    BY <1>1, <1>2, <2>4 DEF RecordsInv
  <2>5. ASSUME NEW va \in held'
        PROVE  \E k \in DOMAIN records' : IsRecordOf(k, va)' /\ Live(k)'
    <3>1. CASE va = base
      BY <1>2, <2>3, <3>1
    <3>2. CASE va # base
      BY <1>1, <1>2, <2>5, <3>2 DEF RecordsInv
    <3> QED BY <3>1, <3>2
  <2> QED BY <1>1, <1>3, <2>4, <2>5 DEF RecordsInv, OwnsMutex
<1>14. LedgerInv'
  <2>1. Live(new)'
    <3>1. PICK i \in DOMAIN registry :
            /\ registry[i].id = aid[t] /\ registry[i].active
            /\ SpanOf(registry[i]) = memory[t]
      BY <1>1 DEF EntriesInv, Shows
    <3>2. registry[i].base = memory[t].base
      BY <3>1 DEF SpanOf
    <3> QED BY <1>1, <1>2, <3>1, <3>2 DEF Live
  <2>2. \A u \in Threads : u # t /\ pc[u] \in OwnsFreshId => aid[u] # aid[t]
    BY <1>1 DEF IdsInv, OwnsFreshId
  <2>3. \A u \in Threads : pc'[u] \in OwnsFreshId => aid'[u] \notin ledger'
    BY <1>1, <2>2 DEF LedgerInv, OwnsFreshId
  <2>4. ASSUME NEW n \in ledger' \ Buffers
        PROVE  \E k \in DOMAIN records' :
                 /\ records'[k].id = n
                 /\ Live(k)' \/ \E u \in Threads : pc'[u] = "retired" /\ aid'[u] = n
    <3>1. CASE n = aid[t]
      BY <1>2, <2>1, <3>1
    <3>2. CASE n # aid[t]
      BY <1>1, <1>2, <2>4, <3>2 DEF LedgerInv
    <3> QED BY <3>1, <3>2
  <2> QED BY <1>1, <1>4, <2>3, <2>4 DEF LedgerInv, Buffers
<1>15. PhaseInv'
  BY <1>1 DEF PhaseInv, Constructing, NoCallInProgress, Allocating
<1> QED BY <1>5, <1>6, <1>8, <1>9, <1>11, <1>12, <1>13, <1>14, <1>15

\* A record that is pushed and then left behind: its address is the thread's own,
\* so TensorRT's addresses keep the records they had.
LEMMA AnnounceThrowsKeepsOwnership ==
  ASSUME OwnershipInv, RegistryInv', NEW t \in Threads, AllocateAnnounceThrows(t)
  PROVE  OwnershipInv'
<1> USE DEF OwnershipInv
<1>1. /\ pc[t] = "added" /\ mutex = {}
      /\ \A u \in Threads : pc'[u] = IF u = t THEN "thrown" ELSE pc[u]
      /\ UNCHANGED <<mapped, registry, next_id, mutex, memory, aid, held, bpc, bmem,
                     phase, failed, ledger, leaked>>
  BY DEF AllocateAnnounceThrows, mainVars, RegistryInv, TypeOK
<1>2. PICK new, base :
        /\ base = memory[t].base
        /\ DOMAIN records' = DOMAIN records \cup {new} /\ new \notin DOMAIN records
        /\ \A k \in DOMAIN records :
             /\ records'[k] = records[k]
             /\ Live(k)' <=> Live(k)
             /\ \A va : va # base /\ IsRecordOf(k, va) => IsRecordOf(k, va)'
        /\ records'[new].gpu_va = base
        /\ records'[new].id = aid[t] /\ records'[new].active
        /\ IsRecordOf(new, base)'
  BY PushEffect DEF AllocateAnnounceThrows
<1>3. \A u \in Threads : pc[u] \notin OwnsMutex
  BY <1>1 DEF LockInv
<1>4. aid[t] \in Nat /\ aid[t] < next_id /\ memory[t].base \notin held
  BY <1>1 DEF OwnersInv, OwnsSpan, Allocating, IdsInv, OwnsFreshId, RegistryInv, TypeOK
<1>5. LockInv' /\ SpansInv' /\ OwnersInv' /\ EntryIdsInv'
  BY <1>1 DEF LockInv, SpansInv, OwnersInv, EntryIdsInv, OwnsMutex, OwnsSpan, Allocating
<1>6. IdsInv'
  BY <1>1, <1>2, <1>3, <1>4 DEF IdsInv, OwnsFreshId, OwnsMutex
<1>7. \A id : InWindow(id)' <=> InWindow(id)
  BY <1>1 DEF InWindow
<1>8. EntriesInv' /\ FreshInv'
  BY <1>1, <1>7 DEF EntriesInv, FreshInv, Shows, OwnsFreshId
<1>9. RecordsInv'
  <2>1. ASSUME NEW k \in DOMAIN records', Live(k)'
        PROVE  \/ records'[k].gpu_va \in held'
               \/ records'[k].id \in leaked'
               \/ \E u \in Threads :
                    pc'[u] \in {"thrown", "found", "unmapped"} /\ aid'[u] = records'[k].id
    <3>1. CASE k = new
      BY <1>1, <1>2, <3>1
    <3>2. CASE k # new
      BY <1>1, <1>2, <2>1, <3>2 DEF RecordsInv
    <3> QED BY <3>1, <3>2
  <2>2. \A va \in held' : \E k \in DOMAIN records' : IsRecordOf(k, va)' /\ Live(k)'
    BY <1>1, <1>2, <1>4 DEF RecordsInv
  <2> QED BY <1>1, <1>3, <2>1, <2>2 DEF RecordsInv, OwnsMutex
<1>10. LedgerInv'
  BY <1>1, <1>2 DEF LedgerInv, OwnsFreshId
<1>11. PhaseInv'
  BY <1>1 DEF PhaseInv, Constructing, NoCallInProgress, Allocating
<1> QED BY <1>5, <1>6, <1>8, <1>9, <1>10, <1>11

\* The catch block deactivates an entry that only a left-over record names.
LEMMA CatchKeepsOwnership ==
  ASSUME OwnershipInv, RegistryInv', NEW t \in Threads, AllocateDeactivate(t)
  PROVE  OwnershipInv'
<1> USE DEF OwnershipInv
<1>1. /\ pc[t] = "thrown"
      /\ \A u \in Threads : pc'[u] = IF u = t THEN "dropped" ELSE pc[u]
      /\ UNCHANGED <<mapped, records, next_id, mutex, memory, aid, held, bpc, bmem,
                     phase, failed, ledger, leaked>>
  BY DEF AllocateDeactivate, mainVars, RegistryInv, TypeOK
<1>2. Deactivated(aid[t])
  BY DeactivateEffect DEF AllocateDeactivate, RegistryInv, TypeOK, Deactivated
<1>3. aid[t] \in Nat /\ aid[t] \notin Buffers
  BY TrackingAssumption DEF RegistryInv, TypeOK, Buffers
<1>4. LockInv' /\ SpansInv' /\ OwnersInv' /\ IdsInv'
  BY <1>1 DEF LockInv, SpansInv, OwnersInv, IdsInv, OwnsMutex, OwnsSpan, OwnsFreshId, Allocating
<1>5. EntryIdsInv'
  BY <1>1, <1>2 DEF EntryIdsInv, HasId, Deactivated
<1>6. \A id : InWindow(id)' <=> InWindow(id)
  BY <1>1 DEF InWindow
<1>7. \A u \in Threads : u # t /\ pc[u] \in OwnsFreshId \cup OwnsMutex => aid[u] # aid[t]
  BY <1>1 DEF IdsInv, OwnsFreshId
<1>8. EntriesInv'
  <2>1. \A id, s : Shows(id, s) /\ id # aid[t] => Shows(id, s)'
    BY <1>2 DEF Shows, Deactivated
  <2> QED BY <1>1, <1>2, <1>3, <1>6, <1>7, <2>1
          DEF EntriesInv, Deactivated, OwnsFreshId, OwnsMutex
<1>9. FreshInv'
  BY <1>1, <1>2, <1>6 DEF FreshInv, Deactivated, OwnsFreshId
<1>10. RecordsInv'
  <2>1. \A k \in DOMAIN records : Live(k)' <=> Live(k) /\ records[k].id # aid[t]
    BY <1>1, <1>2, DeactivateKeepsLive
  <2>2. \A k \in DOMAIN records : \A va : IsRecordOf(k, va)' <=> IsRecordOf(k, va)
    BY <1>1 DEF IsRecordOf
  <2>3. \A k \in DOMAIN records, va \in held :
          IsRecordOf(k, va) => records[k].id # aid[t]
    BY <1>1 DEF IdsInv, OwnersInv, OwnsSpan, Allocating, IsRecordOf
  <2>4. \A u \in Threads : pc[u] \in {"found", "unmapped"} => aid[u] # aid[t]
    BY <1>1, <1>7 DEF OwnsMutex
  <2>5. \A k \in DOMAIN records : Live(k)' =>
          \/ records'[k].gpu_va \in held'
          \/ records'[k].id \in leaked'
          \/ \E u \in Threads :
               pc'[u] \in {"thrown", "found", "unmapped"} /\ aid'[u] = records'[k].id
    BY <1>1, <2>1 DEF RecordsInv
  <2>6. \A va \in held : \E k \in DOMAIN records : IsRecordOf(k, va)' /\ Live(k)'
    BY <2>1, <2>2, <2>3 DEF RecordsInv
  <2>7. \A u \in Threads : pc'[u] \in {"found", "unmapped"} =>
          \E k \in DOMAIN records :
            IsRecordOf(k, memory[u].base)' /\ Live(k)' /\ records[k].id = aid[u]
    BY <1>1, <2>1, <2>2, <2>4 DEF RecordsInv, IsRecordOf
  <2> QED BY <1>1, <2>5, <2>6, <2>7 DEF RecordsInv
<1>11. LedgerInv'
  <2>1. \A k \in DOMAIN records : Live(k) /\ records[k].id # aid[t] => Live(k)'
    BY <1>1, <1>2, DeactivateKeepsLive
  <2>2. aid[t] \notin ledger
    BY <1>1 DEF LedgerInv, OwnsFreshId
  <2> QED BY <1>1, <2>1, <2>2 DEF LedgerInv, OwnsFreshId
<1>12. PhaseInv'
  BY <1>1 DEF PhaseInv, Constructing, NoCallInProgress, Allocating
<1> QED BY <1>4, <1>5, <1>8, <1>9, <1>10, <1>11, <1>12

\* The range is given back when no entry shows it any more.
LEMMA CatchFreeKeepsOwnership ==
  ASSUME OwnershipInv, RegistryInv', NEW t \in Threads, AllocateFree(t)
  PROVE  OwnershipInv'
<1> USE DEF OwnershipInv
<1>1. /\ pc[t] = "dropped"
      /\ mapped' \subseteq mapped /\ mapped \ {memory[t]} \subseteq mapped'
      /\ mapped \subseteq Spans
      /\ \A u \in Threads : /\ memory'[u] = IF u = t THEN NoSpan ELSE memory[u]
                            /\ aid'[u] = IF u = t THEN 0 ELSE aid[u]
                            /\ pc'[u] = IF u = t THEN "idle" ELSE pc[u]
      /\ UNCHANGED <<registry, records, next_id, mutex, held, bpc, bmem,
                     phase, failed, ledger, leaked>>
  BY DEF AllocateFree, mainVars, RegistryInv, TypeOK
<1>2. memory[t] \in mapped /\ memory[t].base \notin held
  BY <1>1 DEF SpansInv, OwnersInv, OwnsSpan, Allocating
<1>3. LockInv' /\ IdsInv' /\ EntryIdsInv'
  BY <1>1 DEF LockInv, IdsInv, EntryIdsInv, OwnsMutex, OwnsFreshId
<1>4. SpansInv'
  BY <1>1, <1>2 DEF SpansInv, OwnersInv, OwnsSpan, Allocating
<1>5. OwnersInv'
  BY <1>1 DEF OwnersInv, OwnsSpan, Allocating
<1>6. \A id : InWindow(id)' <=> InWindow(id)
  BY <1>1 DEF InWindow
<1>7. \A i \in DOMAIN registry :
         registry[i].active => SpanOf(registry[i]) # memory[t]
  BY <1>1, <1>2, EntryFacts, SpansAreRanges, ApartFacts
     DEF FreshInv, EntriesInv, OwnsFreshId, RegistryInv, TypeOK
<1>8. EntriesInv'
  BY <1>1, <1>6, <1>7 DEF EntriesInv, Shows
<1>9. FreshInv'
  BY <1>1, <1>6 DEF FreshInv, OwnsFreshId
<1>10. RecordsInv' /\ LedgerInv' /\ PhaseInv'
  BY <1>1 DEF RecordsInv, LedgerInv, PhaseInv, Live, IsRecordOf, OwnsFreshId,
              Constructing, NoCallInProgress, Allocating
<1> QED BY <1>3, <1>4, <1>5, <1>8, <1>9, <1>10

-----------------------------------------------------------------------------
(* The steps of deallocate.                                                *)

\* The record found is the one of the address, and its entry shows the whole range.
LEMMA FindKeepsOwnership ==
  ASSUME OwnershipInv, RegistryInv', NEW t \in Threads, NEW span \in mapped,
         DeallocateFind(t, span)
  PROVE  OwnershipInv'
<1> USE DEF OwnershipInv
<1>1. /\ pc[t] = "idle" /\ mutex = {} /\ mutex' = {t}
      /\ span.base \in held /\ held' = held \ {span.base}
      /\ \A u \in Threads : /\ memory'[u] = IF u = t THEN span ELSE memory[u]
                            /\ pc'[u] = IF u = t THEN "found" ELSE pc[u]
      /\ \A u \in Threads \ {t} : aid'[u] = aid[u]
      /\ UNCHANGED <<mapped, registry, records, next_id, bpc, bmem, phase, failed,
                     ledger, leaked>>
  BY DEF DeallocateFind, mainVars, RegistryInv, TypeOK
<1>2. PICK k \in DOMAIN records :
        /\ IsRecordOf(k, span.base) /\ Live(k)
        /\ records[k].active /\ records[k].gpu_va = span.base
        /\ aid'[t] = records[k].id
  <2>1. PICK k \in DOMAIN records : IsRecordOf(k, span.base) /\ aid'[t] = records[k].id
    BY DEF DeallocateFind, RegistryInv, TypeOK
  <2>2. PICK m \in DOMAIN records : IsRecordOf(m, span.base) /\ Live(m)
    BY <1>1 DEF RecordsInv
  <2>3. k = m
    BY <2>1, <2>2, OneRecordOf
  <2> QED BY <2>1, <2>2, <2>3 DEF IsRecordOf
<1>3. \A u \in Threads : pc[u] \notin OwnsMutex
  BY <1>1 DEF LockInv
<1>4. mapped \subseteq Ranges /\ \A s \in mapped : s # span => s.base # span.base
  BY SpansAreRanges, ApartFacts DEF SpansInv, RegistryInv, TypeOK
<1>5. LockInv'
  BY <1>1, <1>3 DEF LockInv, OwnsMutex
<1>6. SpansInv'
  BY <1>1, <1>3 DEF SpansInv, OwnsMutex, OwnsSpan, Allocating
<1>7. OwnersInv'
  BY <1>1, <1>3 DEF OwnersInv, OwnsMutex, OwnsSpan, Allocating
<1>8. records[k].id \in Nat /\ records[k].id < next_id /\ records[k].id \notin Buffers
  BY RecordFacts, TrackingAssumption DEF IdsInv, Buffers
<1>9. IdsInv'
  <2>1. \A u \in Threads : pc[u] \in OwnsFreshId => aid[u] # records[k].id
    <3>1. \A u \in Threads : pc[u] \in {"ided", "added"} => aid[u] # records[k].id
      BY DEF IdsInv
    <3>2. \A u \in Threads : pc[u] = "thrown" => aid[u] # records[k].id
      BY <1>1, <1>2 DEF IdsInv, OwnersInv, OwnsSpan, Allocating
    <3>3. \A u \in Threads : pc[u] = "dropped" => aid[u] # records[k].id
      BY <1>2 DEF EntriesInv, Live
    <3> QED BY <3>1, <3>2, <3>3 DEF OwnsFreshId
  <2> QED BY <1>1, <1>2, <1>3, <1>8, <2>1 DEF IdsInv, OwnsMutex, OwnsFreshId
<1>10. EntryIdsInv'
  BY <1>1 DEF EntryIdsInv
<1>11. \A id : ~InWindow(id) /\ ~InWindow(id)'
  BY <1>1, <1>3 DEF InWindow, OwnsMutex
<1>12. PICK i \in DOMAIN registry :
         /\ registry[i].id = records[k].id /\ registry[i].active
         /\ registry[i].base = records[k].gpu_va
  BY <1>2 DEF Live
<1>13. SpanOf(registry[i]) = span
  <2>1. SpanOf(registry[i]) \in mapped
    BY <1>8, <1>11, <1>12 DEF EntriesInv
  <2>2. SpanOf(registry[i]).base = span.base
    BY <1>2, <1>12, EntryFacts DEF RegistryInv, TypeOK
  <2> QED BY <1>4, <2>1, <2>2
<1>14. EntriesInv'
  <2>1. /\ \A u \in Threads : u # t => (Shows(aid[u], memory[u])' <=> Shows(aid[u], memory[u]))
        /\ \A b \in Buffers : Shows(b, bmem[b])' <=> Shows(b, bmem[b])
    BY <1>1 DEF Shows
  <2>2. Shows(aid[t], memory[t])'
    BY <1>1, <1>2, <1>12, <1>13 DEF Shows
  <2> QED BY <1>1, <1>3, <1>11, <2>1, <2>2 DEF EntriesInv, OwnsMutex
<1>15. FreshInv'
  BY <1>1, <1>3, <1>11 DEF FreshInv, OwnsFreshId, OwnsMutex
<1>16. RecordsInv'
  <2>1. \A m \in DOMAIN records : Live(m) /\ records[m].gpu_va = span.base => m = k
    BY <1>2, OneLiveRecord
  <2>2. \A m \in DOMAIN records :
          /\ Live(m)' <=> Live(m)
          /\ \A va : IsRecordOf(m, va)' <=> IsRecordOf(m, va)
    BY <1>1 DEF Live, IsRecordOf
  <2>3. ASSUME NEW m \in DOMAIN records, Live(m)
        PROVE  \/ records[m].gpu_va \in held'
               \/ records[m].id \in leaked'
               \/ \E u \in Threads :
                    pc'[u] \in {"thrown", "found", "unmapped"} /\ aid'[u] = records[m].id
    <3>1. CASE m = k
      BY <1>1, <1>2, <3>1
    <3>2. CASE m # k
      BY <1>1, <2>1, <2>3, <3>2 DEF RecordsInv
    <3> QED BY <3>1, <3>2
  <2>4. \A va \in held' : \E m \in DOMAIN records : IsRecordOf(m, va)' /\ Live(m)'
    BY <1>1, <2>2 DEF RecordsInv
  <2>5. \A u \in Threads : pc'[u] \in {"found", "unmapped"} => u = t
    BY <1>1, <1>3 DEF OwnsMutex
  <2>6. IsRecordOf(k, memory[t].base)' /\ Live(k)' /\ records'[k].id = aid'[t]
    <3>1. memory'[t].base = span.base
      BY <1>1
    <3> QED BY <1>1, <1>2, <2>2, <3>1 DEF IsRecordOf
  <2> QED BY <1>1, <2>2, <2>3, <2>4, <2>5, <2>6 DEF RecordsInv
<1>17. LedgerInv'
  BY <1>1, <1>3 DEF LedgerInv, Live, OwnsMutex, OwnsFreshId
<1>18. PhaseInv'
  BY <1>1 DEF PhaseInv, Constructing, NoCallInProgress, Allocating
<1> QED BY <1>5, <1>6, <1>7, <1>9, <1>10, <1>14, <1>15, <1>16, <1>17, <1>18

\* cudaFree opens the window: of the active entries only this one loses its range.
LEMMA FreeKeepsOwnership ==
  ASSUME OwnershipInv, RegistryInv', NEW t \in Threads, DeallocateFree(t)
  PROVE  OwnershipInv'
<1> USE DEF OwnershipInv
<1>1. /\ pc[t] = "found"
      /\ mapped' = mapped \ {memory[t]}
      /\ \A u \in Threads : pc'[u] = IF u = t THEN "unmapped" ELSE pc[u]
      /\ UNCHANGED <<registry, records, next_id, mutex, memory, aid, held, bpc, bmem,
                     phase, failed, ledger, leaked>>
  BY DEF DeallocateFree, mainVars, RegistryInv, TypeOK
<1>2. memory[t] \in mapped /\ memory[t].base \notin held
  BY <1>1 DEF SpansInv, OwnersInv, OwnsSpan
<1>3. LockInv' /\ IdsInv' /\ EntryIdsInv'
  BY <1>1 DEF LockInv, IdsInv, EntryIdsInv, OwnsMutex, OwnsFreshId
<1>4. SpansInv'
  BY <1>1, <1>2 DEF SpansInv, OwnersInv, OwnsSpan, Allocating
<1>5. OwnersInv'
  BY <1>1 DEF OwnersInv, OwnsSpan, Allocating
<1>6. InWindow(aid[t])' /\ \A id : InWindow(id) => InWindow(id)'
  BY <1>1 DEF InWindow
<1>7. PICK i \in DOMAIN registry :
         /\ registry[i].id = aid[t] /\ registry[i].active
         /\ SpanOf(registry[i]) = memory[t]
  BY <1>1 DEF EntriesInv, Shows
<1>8. \A j \in DOMAIN registry :
        registry[j].active /\ SpanOf(registry[j]) = memory[t] => registry[j].id = aid[t]
  <2> TAKE j \in DOMAIN registry
  <2> HAVE registry[j].active /\ SpanOf(registry[j]) = memory[t]
  <2>1. registry[j].base = registry[i].base
    BY <1>7 DEF SpanOf
  <2> QED BY <1>7, <2>1, OneActiveEntry
<1>9. EntriesInv'
  BY <1>1, <1>6, <1>8 DEF EntriesInv, Shows
<1>10. FreshInv'
  <2>1. \A u \in Threads : pc[u] = "ided" => Apart(memory[u], memory[t])
    BY <1>1, <1>2 DEF SpansInv, OwnersInv, OwnsSpan, Allocating
  <2> QED BY <1>1, <1>6, <2>1 DEF FreshInv, OwnsFreshId
<1>11. RecordsInv' /\ LedgerInv' /\ PhaseInv'
  BY <1>1 DEF RecordsInv, LedgerInv, PhaseInv, Live, IsRecordOf, OwnsFreshId,
              Constructing, NoCallInProgress, Allocating
<1> QED BY <1>3, <1>4, <1>5, <1>9, <1>10, <1>11

\* A failed cudaFree leaves the range mapped, registered and without an owner.
LEMMA FreeFailsKeepsOwnership ==
  ASSUME OwnershipInv, RegistryInv', NEW t \in Threads, DeallocateFails(t)
  PROVE  OwnershipInv'
<1> USE DEF OwnershipInv
<1>1. /\ pc[t] = "found" /\ mutex' = {}
      /\ leaked' = leaked \cup {aid[t]}
      /\ \A u \in Threads : /\ memory'[u] = IF u = t THEN NoSpan ELSE memory[u]
                            /\ aid'[u] = IF u = t THEN 0 ELSE aid[u]
                            /\ pc'[u] = IF u = t THEN "idle" ELSE pc[u]
      /\ UNCHANGED <<mapped, registry, records, next_id, held, bpc, bmem, phase,
                     failed, ledger>>
  BY DEF DeallocateFails, mainVars, RegistryInv, TypeOK
<1>2. \A u \in Threads : u # t => pc[u] \notin OwnsMutex
  BY <1>1 DEF LockInv, OwnsMutex
<1>3. LockInv' /\ SpansInv' /\ OwnersInv' /\ IdsInv' /\ EntryIdsInv'
  BY <1>1, <1>2 DEF LockInv, SpansInv, OwnersInv, IdsInv, EntryIdsInv,
                    OwnsMutex, OwnsSpan, OwnsFreshId, Allocating
<1>4. \A id : InWindow(id)' <=> InWindow(id)
  BY <1>1 DEF InWindow
<1>5. EntriesInv'
  BY <1>1, <1>4 DEF EntriesInv, Shows
<1>6. FreshInv'
  BY <1>1, <1>4 DEF FreshInv, OwnsFreshId
<1>7. RecordsInv' /\ LedgerInv' /\ PhaseInv'
  BY <1>1 DEF RecordsInv, LedgerInv, PhaseInv, Live, IsRecordOf, OwnsFreshId,
              Constructing, NoCallInProgress, Allocating
<1> QED BY <1>3, <1>5, <1>6, <1>7

\* Record and entry of one allocation are retired together, and no others.
LEMMA RetireKeepsOwnership ==
  ASSUME OwnershipInv, RegistryInv', NEW t \in Threads, DeallocateRetire(t)
  PROVE  OwnershipInv'
<1> USE DEF OwnershipInv
<1>1. /\ pc[t] = "unmapped"
      /\ \A u \in Threads : pc'[u] = IF u = t THEN "retired" ELSE pc[u]
      /\ UNCHANGED <<mapped, next_id, mutex, memory, aid, held, bpc, bmem, phase,
                     failed, ledger, leaked>>
  BY DEF DeallocateRetire, mainVars, RegistryInv, TypeOK
<1>2. Deactivated(aid[t])
  BY DeactivateEffect DEF DeallocateRetire, RegistryInv, TypeOK, Deactivated
<1>3. PICK k \in DOMAIN records :
        /\ IsRecordOf(k, memory[t].base)
        /\ DOMAIN records' = DOMAIN records
        /\ \A m \in DOMAIN records : m # k => records'[m] = records[m]
        /\ records'[k].id = records[k].id /\ ~records'[k].active
        /\ records'[k].gpu_va = records[k].gpu_va
  <2>1. PICK k \in DOMAIN records :
          /\ IsRecordOf(k, memory[t].base)
          /\ records' = [records EXCEPT ![k].active = FALSE]
    BY DEF DeallocateRetire
  <2>2. records \in Seq([gpu_va: 1..MaxVa, id: Nat, active: BOOLEAN])
    BY DEF RegistryInv, TypeOK
  <2>3. records[k] \in [gpu_va: 1..MaxVa, id: Nat, active: BOOLEAN]
    BY <2>2, ElementType
  <2>4. /\ DOMAIN records' = DOMAIN records
        /\ \A m \in DOMAIN records : m # k => records'[m] = records[m]
        /\ records'[k] = [records[k] EXCEPT !.active = FALSE]
    BY <2>1, <2>2
  <2> QED BY <2>1, <2>3, <2>4
<1>4. records[k].id = aid[t]
  BY <1>1, <1>3, OneRecordOf DEF RecordsInv
<1>5. \A m \in DOMAIN records : m # k => records[m].id # aid[t]
  BY <1>4 DEF IdsInv
<1>6. \A u \in Threads : u # t => pc[u] \notin OwnsMutex
  BY <1>1 DEF LockInv, OwnsMutex
<1>7. aid[t] \in Nat /\ aid[t] \notin Buffers
  BY TrackingAssumption DEF RegistryInv, TypeOK, Buffers
<1>8. LockInv' /\ SpansInv' /\ OwnersInv'
  BY <1>1 DEF LockInv, SpansInv, OwnersInv, OwnsMutex, OwnsSpan, Allocating
<1>9. IdsInv'
  <2>1. \A m \in DOMAIN records : records'[m].id = records[m].id
    BY <1>3
  <2>2. \A m \in DOMAIN records : records'[m].gpu_va = records[m].gpu_va
    BY <1>3
  <2> QED BY <1>1, <1>3, <2>1, <2>2 DEF IdsInv, OwnsMutex, OwnsFreshId
<1>10. EntryIdsInv'
  BY <1>1, <1>2 DEF EntryIdsInv, HasId, Deactivated
<1>11. \A u \in Threads : u # t /\ pc[u] \in OwnsFreshId => aid[u] # aid[t]
  BY <1>1 DEF IdsInv, OwnsFreshId, OwnsMutex
<1>12. \A id : id # aid[t] => ~InWindow(id)
  BY <1>1, <1>6 DEF InWindow, OwnsMutex
<1>13. PICK i \in DOMAIN registry :
         /\ registry[i].id = aid[t] /\ registry[i].active
         /\ SpanOf(registry[i]) = memory[t]
  BY <1>1 DEF EntriesInv, Shows
<1>14. EntriesInv'
  <2>1. \A id, s : Shows(id, s) /\ id # aid[t] => Shows(id, s)'
    BY <1>2 DEF Shows, Deactivated
  <2> QED BY <1>1, <1>2, <1>6, <1>7, <1>11, <1>12, <1>13, <2>1
          DEF EntriesInv, Deactivated, OwnsFreshId, OwnsMutex
<1>15. FreshInv'
  <2>1. \A j \in DOMAIN registry :
          registry[j].active /\ registry[j].id # aid[t] => Apart(registry[j], memory[t])
    <3> TAKE j \in DOMAIN registry
    <3> HAVE registry[j].active /\ registry[j].id # aid[t]
    <3>1. Apart(registry[j], registry[i])
      BY <1>13, ActiveApart
    <3> QED BY <1>13, <3>1, EntryFacts DEF RegistryInv, TypeOK
  <2> QED BY <1>1, <1>2, <1>6, <1>12, <2>1
          DEF FreshInv, Deactivated, OwnsFreshId, OwnsMutex
<1>16. \A m \in DOMAIN records : Live(m)' <=> Live(m) /\ m # k
  <2>1. ~Live(k)'
    BY <1>3 DEF Live
  <2>2. ASSUME NEW m \in DOMAIN records, m # k PROVE Live(m)' <=> Live(m)
    BY <1>2, <1>3, <1>5, <2>2, DeactivateKeepsLive
  <2> QED BY <2>1, <2>2
<1>17. RecordsInv'
  <2>1. ASSUME NEW m \in DOMAIN records', Live(m)'
        PROVE  \/ records'[m].gpu_va \in held'
               \/ records'[m].id \in leaked'
               \/ \E u \in Threads :
                    pc'[u] \in {"thrown", "found", "unmapped"} /\ aid'[u] = records'[m].id
    <3>1. m \in DOMAIN records /\ m # k /\ records'[m] = records[m] /\ Live(m)
      BY <1>3, <1>16, <2>1
    <3>2. records[m].id # aid[t]
      BY <1>5, <3>1
    <3> QED BY <1>1, <3>1, <3>2 DEF RecordsInv
  <2>2. ASSUME NEW va \in held'
        PROVE  \E m \in DOMAIN records' : IsRecordOf(m, va)' /\ Live(m)'
    <3>1. PICK m \in DOMAIN records : IsRecordOf(m, va) /\ Live(m)
      BY <1>1, <2>2 DEF RecordsInv
    <3>2. va # memory[t].base
      BY <1>1, <2>2 DEF OwnersInv
    <3>3. m # k
      BY <1>3, <3>1, <3>2 DEF IsRecordOf
    <3>4. IsRecordOf(m, va)'
      BY <1>3, <3>1, <3>3 DEF IsRecordOf
    <3> QED BY <1>3, <1>16, <3>1, <3>3, <3>4
  <2>3. \A u \in Threads : pc'[u] \notin {"found", "unmapped"}
    BY <1>1, <1>6 DEF OwnsMutex
  <2> QED BY <2>1, <2>2, <2>3 DEF RecordsInv
<1>18. LedgerInv'
  <2>1. \A n \in ledger \ Buffers :
          \E m \in DOMAIN records' :
            /\ records'[m].id = n
            /\ Live(m)' \/ \E u \in Threads : pc'[u] = "retired" /\ aid'[u] = n
    BY <1>1, <1>3, <1>4, <1>6, <1>16 DEF LedgerInv, OwnsMutex
  <2> QED BY <1>1, <2>1 DEF LedgerInv, OwnsFreshId
<1>19. PhaseInv'
  BY <1>1 DEF PhaseInv, Constructing, NoCallInProgress, Allocating
<1> QED BY <1>8, <1>9, <1>10, <1>14, <1>15, <1>17, <1>18, <1>19

\* The FREE event is of the thread's own allocation.
LEMMA FinishKeepsOwnership ==
  ASSUME OwnershipInv, RegistryInv', NEW t \in Threads, DeallocateFinish(t)
  PROVE  OwnershipInv'
<1> USE DEF OwnershipInv
<1>1. /\ pc[t] = "retired" /\ mutex' = {}
      /\ ledger' = ledger \ {aid[t]}
      /\ \A u \in Threads : /\ memory'[u] = IF u = t THEN NoSpan ELSE memory[u]
                            /\ aid'[u] = IF u = t THEN 0 ELSE aid[u]
                            /\ pc'[u] = IF u = t THEN "idle" ELSE pc[u]
      /\ UNCHANGED <<mapped, registry, records, next_id, held, bpc, bmem, phase,
                     failed, leaked>>
  BY DEF DeallocateFinish, mainVars, RegistryInv, TypeOK
<1>2. \A u \in Threads : u # t => pc[u] \notin OwnsMutex
  BY <1>1 DEF LockInv, OwnsMutex
<1>3. LockInv' /\ SpansInv' /\ OwnersInv' /\ IdsInv' /\ EntryIdsInv'
  BY <1>1, <1>2 DEF LockInv, SpansInv, OwnersInv, IdsInv, EntryIdsInv,
                    OwnsMutex, OwnsSpan, OwnsFreshId, Allocating
<1>4. \A id : InWindow(id)' <=> InWindow(id)
  BY <1>1 DEF InWindow
<1>5. EntriesInv'
  BY <1>1, <1>4 DEF EntriesInv, Shows
<1>6. FreshInv'
  BY <1>1, <1>4 DEF FreshInv, OwnsFreshId
<1>7. LedgerInv'
  BY <1>1, <1>2 DEF LedgerInv, Live, OwnsMutex, OwnsFreshId
<1>8. RecordsInv' /\ PhaseInv'
  BY <1>1 DEF RecordsInv, Live, IsRecordOf, PhaseInv, Constructing, NoCallInProgress, Allocating
<1> QED BY <1>3, <1>5, <1>6, <1>7, <1>8

-----------------------------------------------------------------------------
(* The steps of a DeviceBuffer.                                            *)

\* A buffer's fresh range, too, meets nothing but a window.
LEMMA BufferMallocKeepsOwnership ==
  ASSUME OwnershipInv, RegistryInv', NEW b \in Buffers, NEW span \in Spans,
         BufferMalloc(b, span)
  PROVE  OwnershipInv'
<1> USE DEF OwnershipInv
<1>1. /\ phase = "setup" /\ Constructing = {} /\ bpc[b] = "none"
      /\ mapped' = mapped \cup {span}
      /\ \A c \in Buffers : /\ bmem'[c] = IF c = b THEN span ELSE bmem[c]
                            /\ bpc'[c] = IF c = b THEN "malloced" ELSE bpc[c]
      /\ UNCHANGED <<registry, records, next_id, mutex, pc, memory, aid, held,
                     phase, failed, ledger, leaked>>
  BY DEF BufferMalloc, trtVars, RegistryInv, TypeOK
<1>2. /\ span.base + span.size - 1 <= MaxVa
      /\ \A s \in mapped : Apart(s, span) /\ Apart(span, s) /\ s.base # span.base /\ s # span
  BY SpansAreRanges, ApartFacts DEF BufferMalloc, Free, RegistryInv, TypeOK
<1>3. LockInv' /\ IdsInv' /\ EntryIdsInv'
  BY <1>1 DEF LockInv, IdsInv, EntryIdsInv
<1>4. SpansInv'
  BY <1>1, <1>2 DEF SpansInv, BufferOwnsSpan
<1>5. OwnersInv'
  BY <1>1, <1>2 DEF OwnersInv, SpansInv, BufferOwnsSpan
<1>6. \A id : InWindow(id)' <=> InWindow(id)
  BY <1>1 DEF InWindow
<1>7. EntriesInv'
  BY <1>1, <1>6 DEF EntriesInv, Shows
<1>8. \A i \in DOMAIN registry : registry[i].active =>
        Apart(registry[i], span) \/ InWindow(registry[i].id)
  <2> TAKE i \in DOMAIN registry
  <2> HAVE registry[i].active
  <2>1. registry[i].id \in Buffers => bpc[registry[i].id] # "unmapped"
    BY <1>1 DEF PhaseInv
  <2>2. SpanOf(registry[i]) \in mapped => Apart(registry[i], span)
    BY <1>2, EntryFacts DEF RegistryInv, TypeOK
  <2> QED BY <2>1, <2>2 DEF EntriesInv
<1>9. FreshInv'
  BY <1>1, <1>6, <1>8 DEF FreshInv
<1>10. RecordsInv' /\ LedgerInv'
  BY <1>1 DEF RecordsInv, LedgerInv, Live, IsRecordOf, OwnsFreshId
<1>11. PhaseInv'
  BY <1>1 DEF PhaseInv, Constructing, NoCallInProgress
<1> QED BY <1>3, <1>4, <1>5, <1>7, <1>9, <1>10, <1>11

\* The entry of a buffer shows a range that the buffer alone owns.
LEMMA BufferAddKeepsOwnership ==
  ASSUME OwnershipInv, RegistryInv', NEW b \in Buffers, BufferAdd(b)
  PROVE  OwnershipInv'
<1> USE DEF OwnershipInv
<1> DEFINE new == Len(registry) + 1
           d   == BufferDescriptor(b)
<1>1. /\ bpc[b] = "malloced"
      /\ \A c \in Buffers : bpc'[c] = IF c = b THEN "added" ELSE bpc[c]
      /\ UNCHANGED <<mapped, records, next_id, mutex, pc, memory, aid, held, bmem,
                     phase, failed, ledger, leaked>>
  BY DEF BufferAdd, trtVars, RegistryInv, TypeOK
<1>2. /\ DOMAIN registry' = DOMAIN registry \cup {new} /\ new \notin DOMAIN registry
      /\ \A i \in DOMAIN registry : registry'[i] = registry[i]
      /\ registry'[new] = d
  <2> HIDE DEF d
  <2>1. /\ registry \in Seq(Descriptor(Id)) /\ Accepts(registry, d)
        /\ registry' = add_allocation(registry, d)
    BY DEF BufferAdd, RegistryInv, TypeOK, d
  <2>2. /\ DOMAIN add_allocation(registry, d) = DOMAIN registry \cup {new}
        /\ new \notin DOMAIN registry
        /\ \A i \in DOMAIN registry : add_allocation(registry, d)[i] = registry[i]
        /\ add_allocation(registry, d)[new] = d
    BY <2>1, AddEffect, Zenon
  <2> QED BY <2>1, <2>2
<1>3. /\ d.id = b /\ d.active /\ d.device = Device
      /\ SpanOf(d) = bmem[b]
      /\ \A s : Apart(d, s) <=> Apart(bmem[b], s)
      /\ bmem[b] \in mapped /\ \A t \in Threads : aid[t] # b
  <2>1. bmem[b] \in mapped /\ mapped \subseteq Spans
    BY <1>1 DEF SpansInv, BufferOwnsSpan, RegistryInv, TypeOK
  <2>2. bmem[b] = [base |-> bmem[b].base, size |-> bmem[b].size]
    BY <2>1 DEF Spans
  <2>3. \A t \in Threads : aid[t] # b
    BY TrackingAssumption DEF RegistryInv, TypeOK, Buffers
  <2> QED BY <2>1, <2>2, <2>3 DEF BufferDescriptor, SpanOf, Apart
<1> HIDE DEF new, d
<1>4. \A s \in mapped : s # bmem[b] => Apart(bmem[b], s)
  BY <1>3 DEF SpansInv
<1>5. LockInv' /\ SpansInv' /\ OwnersInv' /\ IdsInv'
  BY <1>1 DEF LockInv, SpansInv, OwnersInv, IdsInv, BufferOwnsSpan
<1>6. EntryIdsInv'
  BY <1>1, <1>2, <1>3 DEF EntryIdsInv, HasId
<1>7. \A id : InWindow(id)' <=> InWindow(id)
  BY <1>1 DEF InWindow
<1>8. EntriesInv'
  <2>1. Shows(b, bmem[b])'
    BY <1>1, <1>2, <1>3 DEF Shows
  <2>2. \A id, s : Shows(id, s) => Shows(id, s)'
    BY <1>2 DEF Shows
  <2> QED BY <1>1, <1>2, <1>3, <1>7, <2>1, <2>2 DEF EntriesInv
<1>9. FreshInv'
  <2>1. \A u \in Threads : pc[u] \in OwnsSpan =>
          memory[u] \in mapped /\ memory[u] # bmem[b]
    BY <1>1 DEF SpansInv, OwnersInv, BufferOwnsSpan
  <2>2. \A c \in Buffers : c # b /\ bpc[c] = "malloced" => bmem[c] \in mapped /\ bmem[c] # bmem[b]
    BY <1>1 DEF SpansInv, OwnersInv, BufferOwnsSpan
  <2>3. \A u \in Threads : pc[u] \in {"malloced"} \cup OwnsFreshId => pc[u] \in OwnsSpan
    BY DEF OwnsSpan, OwnsFreshId, Allocating
  <2> QED BY <1>1, <1>2, <1>3, <1>4, <1>7, <2>1, <2>2, <2>3 DEF FreshInv
<1>10. RecordsInv' /\ LedgerInv'
  <2>1. \A k \in DOMAIN records : records[k].id # b
    BY RecordFacts, TrackingAssumption, SMTT(30) DEF RegistryInv, TypeOK, Buffers
  <2>2. \A k \in DOMAIN records : Live(k)' <=> Live(k)
    BY <1>1, <1>2, <1>3, <2>1, AddKeepsLive
  <2> QED BY <1>1, <2>2 DEF RecordsInv, LedgerInv, IsRecordOf, OwnsFreshId
<1>11. PhaseInv'
  BY <1>1 DEF PhaseInv, Constructing, NoCallInProgress
<1> QED BY <1>5, <1>6, <1>8, <1>9, <1>10, <1>11

\* A refused buffer gives back a range that no entry shows outside the window.
LEMMA BufferThrowKeepsOwnership ==
  ASSUME OwnershipInv, RegistryInv', NEW b \in Buffers, BufferThrow(b)
  PROVE  OwnershipInv'
<1> USE DEF OwnershipInv
<1>1. /\ bpc[b] = "malloced" /\ phase' = "clear" /\ failed'
      /\ mapped' = mapped \ {bmem[b]} /\ mapped \subseteq Spans
      /\ \A c \in Buffers : /\ bmem'[c] = IF c = b THEN NoSpan ELSE bmem[c]
                            /\ bpc'[c] = IF c = b THEN "gone" ELSE bpc[c]
      /\ UNCHANGED <<registry, records, next_id, mutex, pc, memory, aid, held,
                     ledger, leaked>>
  BY DEF BufferThrow, trtVars, RegistryInv, TypeOK
<1>2. bmem[b] \in mapped /\ bmem[b].base \notin held /\ phase = "setup"
  BY <1>1 DEF SpansInv, OwnersInv, BufferOwnsSpan, PhaseInv
<1>3. LockInv' /\ IdsInv' /\ EntryIdsInv'
  BY <1>1 DEF LockInv, IdsInv, EntryIdsInv
<1>4. SpansInv'
  BY <1>1, <1>2 DEF SpansInv, OwnersInv, BufferOwnsSpan
<1>5. OwnersInv'
  BY <1>1 DEF OwnersInv, BufferOwnsSpan
<1>6. \A id : InWindow(id)' <=> InWindow(id)
  BY <1>1 DEF InWindow
<1>7. \A i \in DOMAIN registry :
        registry[i].active /\ SpanOf(registry[i]) = bmem[b] => InWindow(registry[i].id)
  BY <1>1, <1>2, EntryFacts, SpansAreRanges, ApartFacts
     DEF FreshInv, RegistryInv, TypeOK
<1>8. EntriesInv'
  BY <1>1, <1>6, <1>7 DEF EntriesInv, Shows
<1>9. FreshInv'
  BY <1>1, <1>6 DEF FreshInv
<1>10. RecordsInv' /\ LedgerInv'
  BY <1>1 DEF RecordsInv, LedgerInv, Live, IsRecordOf, OwnsFreshId
<1>11. PhaseInv'
  BY <1>1, <1>2 DEF PhaseInv, Constructing, NoCallInProgress
<1> QED BY <1>3, <1>4, <1>5, <1>8, <1>9, <1>10, <1>11

\* Announcing a buffer changes the ledger alone.
LEMMA AnnounceKeepsOwnership ==
  ASSUME OwnershipInv, RegistryInv', NEW b \in Buffers, BufferAnnounce(b)
  PROVE  OwnershipInv'
<1> USE DEF OwnershipInv
<1>1. /\ phase = "setup" /\ bpc[b] = "added"
      /\ ledger' = ledger \cup {b}
      /\ \A c \in Buffers : bpc'[c] = IF c = b THEN "live" ELSE bpc[c]
      /\ UNCHANGED <<mapped, registry, records, next_id, mutex, pc, memory, aid, held,
                     bmem, phase, failed, leaked>>
  BY DEF BufferAnnounce, trtVars, RegistryInv, TypeOK
<1>2. LockInv' /\ SpansInv' /\ OwnersInv' /\ IdsInv' /\ EntryIdsInv'
  BY <1>1 DEF LockInv, SpansInv, OwnersInv, IdsInv, EntryIdsInv, BufferOwnsSpan
<1>3. \A id : InWindow(id)' <=> InWindow(id)
  BY <1>1 DEF InWindow
<1>4. EntriesInv' /\ FreshInv'
  BY <1>1, <1>3 DEF EntriesInv, FreshInv, Shows
<1>5. \A t \in Threads : aid[t] # b
  BY TrackingAssumption DEF RegistryInv, TypeOK, Buffers
<1>6. RecordsInv' /\ LedgerInv' /\ PhaseInv'
  BY <1>5, <1>1 DEF RecordsInv, LedgerInv, PhaseInv, Live, IsRecordOf, OwnsFreshId,
              Constructing, NoCallInProgress
<1> QED BY <1>2, <1>4, <1>6

\* Releasing a buffer unmaps the range of its own entry.
LEMMA ReleaseFreeKeepsOwnership ==
  ASSUME OwnershipInv, RegistryInv', NEW b \in Buffers, ReleaseFree(b)
  PROVE  OwnershipInv'
<1> USE DEF OwnershipInv
<1>1. /\ phase = "clear" /\ NoCallInProgress /\ bpc[b] \in {"added", "live"}
      /\ mapped' = mapped \ {bmem[b]}
      /\ \A c \in Buffers : bpc'[c] = IF c = b THEN "unmapped" ELSE bpc[c]
      /\ UNCHANGED <<registry, records, next_id, mutex, pc, memory, aid, held, bmem,
                     phase, failed, ledger, leaked>>
  BY DEF ReleaseFree, trtVars, RegistryInv, TypeOK
<1>2. bmem[b] \in mapped /\ bmem[b].base \notin held
  BY <1>1 DEF SpansInv, OwnersInv, BufferOwnsSpan
<1>3. LockInv' /\ IdsInv' /\ EntryIdsInv'
  BY <1>1 DEF LockInv, IdsInv, EntryIdsInv
<1>4. SpansInv'
  BY <1>1, <1>2 DEF SpansInv, OwnersInv, BufferOwnsSpan
<1>5. OwnersInv'
  BY <1>1 DEF OwnersInv, BufferOwnsSpan
<1>6. \A id : InWindow(id)' <=> InWindow(id)
  BY <1>1 DEF InWindow
<1>7. PICK i \in DOMAIN registry :
        /\ registry[i].id = b /\ registry[i].active
        /\ SpanOf(registry[i]) = bmem[b]
  BY <1>1 DEF EntriesInv, Shows
<1>8. \A j \in DOMAIN registry :
        registry[j].active /\ SpanOf(registry[j]) = bmem[b] => registry[j].id = b
  <2> TAKE j \in DOMAIN registry
  <2> HAVE registry[j].active /\ SpanOf(registry[j]) = bmem[b]
  <2>1. registry[j].base = registry[i].base
    BY <1>7 DEF SpanOf
  <2> QED BY <1>7, <2>1, OneActiveEntry
<1>9. EntriesInv'
  BY <1>1, <1>6, <1>8 DEF EntriesInv, Shows
<1>10. FreshInv'
  BY <1>1, <1>6 DEF FreshInv
<1>11. RecordsInv' /\ LedgerInv'
  BY <1>1 DEF RecordsInv, LedgerInv, Live, IsRecordOf, OwnsFreshId
<1>12. PhaseInv'
  BY <1>1 DEF PhaseInv, Constructing, NoCallInProgress
<1> QED BY <1>3, <1>4, <1>5, <1>9, <1>10, <1>11, <1>12

\* A buffer whose cudaFree fails keeps its entry and its range.
LEMMA ReleaseFailsKeepsOwnership ==
  ASSUME OwnershipInv, RegistryInv', NEW b \in Buffers, ReleaseFails(b)
  PROVE  OwnershipInv'
<1> USE DEF OwnershipInv
<1>1. /\ phase = "clear" /\ bpc[b] \in {"added", "live"}
      /\ leaked' = leaked \cup {b}
      /\ \A c \in Buffers : /\ bmem'[c] = IF c = b THEN NoSpan ELSE bmem[c]
                            /\ bpc'[c] = IF c = b THEN "gone" ELSE bpc[c]
      /\ UNCHANGED <<mapped, registry, records, next_id, mutex, pc, memory, aid, held,
                     phase, failed, ledger>>
  BY DEF ReleaseFails, trtVars, RegistryInv, TypeOK
<1>2. LockInv' /\ SpansInv' /\ OwnersInv' /\ IdsInv' /\ EntryIdsInv'
  BY <1>1 DEF LockInv, SpansInv, OwnersInv, IdsInv, EntryIdsInv, BufferOwnsSpan
<1>3. \A id : InWindow(id)' <=> InWindow(id)
  BY <1>1 DEF InWindow
<1>4. EntriesInv' /\ FreshInv'
  BY <1>1, <1>3 DEF EntriesInv, FreshInv, Shows
<1>5. RecordsInv' /\ LedgerInv' /\ PhaseInv'
  BY <1>1 DEF RecordsInv, LedgerInv, PhaseInv, Live, IsRecordOf, OwnsFreshId,
              Constructing, NoCallInProgress
<1> QED BY <1>2, <1>4, <1>5

\* The entry of a released buffer is the only one that changes.
LEMMA ReleaseDeactivateKeepsOwnership ==
  ASSUME OwnershipInv, RegistryInv', NEW b \in Buffers, ReleaseDeactivate(b)
  PROVE  OwnershipInv'
<1> USE DEF OwnershipInv
<1>1. /\ bpc[b] = "unmapped"
      /\ \A c \in Buffers : /\ bmem'[c] = IF c = b THEN NoSpan ELSE bmem[c]
                            /\ bpc'[c] = IF c = b THEN "gone" ELSE bpc[c]
      /\ UNCHANGED <<mapped, records, next_id, mutex, pc, memory, aid, held,
                     phase, failed, ledger, leaked>>
  BY DEF ReleaseDeactivate, trtVars, RegistryInv, TypeOK
<1>2. Deactivated(b)
  BY DeactivateEffect DEF ReleaseDeactivate, RegistryInv, TypeOK, Deactivated
<1>3. /\ \A t \in Threads : aid[t] # b
      /\ \A k \in DOMAIN records : records[k].id # b
  BY RecordFacts, TrackingAssumption, SMTT(30) DEF RegistryInv, TypeOK, Buffers
<1>4. LockInv' /\ SpansInv' /\ OwnersInv' /\ IdsInv'
  BY <1>1 DEF LockInv, SpansInv, OwnersInv, IdsInv, BufferOwnsSpan
<1>5. EntryIdsInv'
  BY <1>1, <1>2 DEF EntryIdsInv, HasId, Deactivated
<1>6. \A id : InWindow(id)' <=> InWindow(id)
  BY <1>1 DEF InWindow
<1>7. EntriesInv'
  <2>1. \A id, s : Shows(id, s) /\ id # b => Shows(id, s)'
    BY <1>2 DEF Shows, Deactivated
  <2> QED BY <1>1, <1>2, <1>3, <1>6, <2>1 DEF EntriesInv, Deactivated
<1>8. FreshInv'
  BY <1>1, <1>2, <1>6 DEF FreshInv, Deactivated
<1>9. \A k \in DOMAIN records : Live(k)' <=> Live(k)
  BY <1>1, <1>2, <1>3, DeactivateKeepsLive
<1>10. RecordsInv' /\ LedgerInv' /\ PhaseInv'
  BY <1>1, <1>9 DEF RecordsInv, LedgerInv, IsRecordOf, OwnsFreshId,
                    PhaseInv, Constructing, NoCallInProgress
<1> QED BY <1>4, <1>5, <1>7, <1>8, <1>10

-----------------------------------------------------------------------------
(* The main thread's other steps, and the whole specification.             *)

\* They change only phase, failed and the ledger.
LEMMA MainKeepsOwnership ==
  ASSUME OwnershipInv, RegistryInv',
         Run \/ Teardown \/ Abort \/ ProcessEnd \/ UNCHANGED vars
  PROVE  OwnershipInv'
<1> USE DEF OwnershipInv
<1>1. UNCHANGED <<mapped, registry, records, next_id, mutex, pc, memory, aid, held,
                  bpc, bmem, leaked>>
  BY DEF Run, Teardown, Abort, ProcessEnd, vars, trtVars, mainVars
<1>2. /\ LockInv' /\ SpansInv' /\ OwnersInv' /\ IdsInv' /\ EntryIdsInv'
      /\ EntriesInv' /\ FreshInv' /\ RecordsInv'
  BY <1>1 DEF LockInv, SpansInv, OwnersInv, IdsInv, EntryIdsInv, EntriesInv,
              FreshInv, RecordsInv, Shows, InWindow, Live, IsRecordOf
<1>3. LedgerInv' /\ PhaseInv'
  <2>1. CASE Run
    BY <2>1, <1>1 DEF Run, LedgerInv, Live, OwnsFreshId, PhaseInv, Constructing, NoCallInProgress
  <2>2. CASE Teardown
    BY <2>2, <1>1 DEF Teardown, LedgerInv, Live, OwnsFreshId, PhaseInv, Constructing,
                      NoCallInProgress, Buffers
  <2>3. CASE Abort
    BY <2>3, <1>1 DEF Abort, LedgerInv, Live, OwnsFreshId, PhaseInv, Constructing, NoCallInProgress
  <2>4. CASE ProcessEnd
    BY <2>4, <1>1 DEF ProcessEnd, LedgerInv, Live, OwnsFreshId, PhaseInv, Constructing, NoCallInProgress
  <2>5. CASE UNCHANGED vars
    BY <2>5, <1>1 DEF vars, trtVars, mainVars, LedgerInv, Live, OwnsFreshId, PhaseInv, Constructing, NoCallInProgress
  <2> QED BY <2>1, <2>2, <2>3, <2>4, <2>5
<1> QED BY <1>2, <1>3

\* Nothing is owned at the start.
LEMMA InitOwnership == Init => OwnershipInv
<1> SUFFICES ASSUME Init PROVE OwnershipInv
  OBVIOUS
<1>1. RegistryInv
  BY InitRegistryInv
<1>2. LockInv /\ SpansInv /\ OwnersInv /\ IdsInv
  BY DEF Init, LockInv, SpansInv, OwnersInv, IdsInv, OwnsMutex, OwnsSpan,
         OwnsFreshId, BufferOwnsSpan, Allocating
<1>3. EntryIdsInv /\ EntriesInv /\ FreshInv
  BY DEF Init, EntryIdsInv, EntriesInv, FreshInv, OwnsFreshId, HasId
<1>4. RecordsInv /\ LedgerInv /\ PhaseInv
  BY DEF Init, RecordsInv, LedgerInv, PhaseInv, Constructing
<1> QED BY <1>1, <1>2, <1>3, <1>4 DEF OwnershipInv

\* Ownership is inductive.
LEMMA NextKeepsOwnership == OwnershipInv /\ [Next]_vars => OwnershipInv'
<1> SUFFICES ASSUME OwnershipInv, [Next]_vars PROVE OwnershipInv'
  OBVIOUS
<1>1. RegistryInv'
  BY NextKeepsRegistryInv DEF OwnershipInv
<1>2. CASE \E t \in Threads : Allocate(t)
  BY <1>1, <1>2, MallocKeepsOwnership, IdKeepsOwnership, IdThrowsKeepsOwnership,
     AddKeepsOwnership, ThrowKeepsOwnership, AnnounceThrowsKeepsOwnership,
     RecordKeepsOwnership,
     CatchKeepsOwnership, CatchFreeKeepsOwnership DEF Allocate
<1>3. CASE \E t \in Threads : Deallocate(t)
  BY <1>1, <1>3, FindKeepsOwnership, FreeKeepsOwnership, FreeFailsKeepsOwnership,
     RetireKeepsOwnership, FinishKeepsOwnership DEF Deallocate
<1>4. CASE \E b \in Buffers : DeviceBuffer(b)
  BY <1>1, <1>4, BufferMallocKeepsOwnership, BufferAddKeepsOwnership,
     BufferThrowKeepsOwnership, AnnounceKeepsOwnership, ReleaseFreeKeepsOwnership,
     ReleaseFailsKeepsOwnership, ReleaseDeactivateKeepsOwnership DEF DeviceBuffer
<1>5. CASE Run \/ Teardown \/ Abort \/ ProcessEnd \/ UNCHANGED vars
  BY <1>1, <1>5, MainKeepsOwnership
<1> QED BY <1>2, <1>3, <1>4, <1>5 DEF Next, Done

\* Hence it holds in every reachable state.
LEMMA OwnershipHolds == Spec => []OwnershipInv
BY InitOwnership, NextKeepsOwnership, PTL DEF Spec

-----------------------------------------------------------------------------
(* What follows from it.                                                   *)

\* What TensorRT holds can be given back: the record that the search from the
\* back finds is that of a mapped range with an active entry at that address.  A
\* record left behind by an allocate that failed after its push never comes
\* between, for it is older than the record of the address's next owner.
THEOREM HeldStaysRegistered == Spec => []HeldIsRegistered
<1>1. ASSUME OwnershipInv PROVE HeldIsRegistered
  <2> USE <1>1 DEF OwnershipInv
  <2> SUFFICES ASSUME NEW va \in held
               PROVE  \E k \in DOMAIN records, i \in DOMAIN registry :
                        /\ IsRecordOf(k, va)
                        /\ registry[i].id = records[k].id /\ registry[i].active
                        /\ registry[i].base = va
                        /\ [base |-> va, size |-> registry[i].size] \in mapped
    BY DEF HeldIsRegistered
  <2>1. PICK k \in DOMAIN records : IsRecordOf(k, va) /\ Live(k)
    BY DEF RecordsInv
  <2>2. PICK i \in DOMAIN registry :
          /\ registry[i].id = records[k].id /\ registry[i].active
          /\ registry[i].base = va
    BY <2>1 DEF Live, IsRecordOf
  <2>3. ~InWindow(registry[i].id)
    <3> SUFFICES ASSUME NEW t \in Threads, pc[t] = "unmapped", aid[t] = registry[i].id
                 PROVE  FALSE
      BY DEF InWindow
    <3>1. PICK m \in DOMAIN records :
            IsRecordOf(m, memory[t].base) /\ records[m].id = aid[t]
      BY DEF RecordsInv
    <3>2. m = k
      BY <2>2, <3>1 DEF IdsInv
    <3> QED BY <2>1, <3>1, <3>2 DEF IsRecordOf, OwnersInv
  <2>4. registry[i].id \notin Buffers
    BY <2>2, RecordFacts, TrackingAssumption DEF Buffers
  <2>5. SpanOf(registry[i]) \in mapped
    BY <2>2, <2>3, <2>4 DEF EntriesInv
  <2> QED BY <2>1, <2>2, <2>5 DEF SpanOf
<1> QED BY <1>1, OwnershipHolds, PTL

\* A range that no active entry meets, under an id nobody used, is accepted.
LEMMA ApartIsAccepted ==
  ASSUME OwnershipInv, NEW d, NEW span \in mapped,
         d.device = Device, d.active, d.base = span.base, d.size = span.size,
         ~HasId(registry, d.id),
         \A i \in DOMAIN registry : registry[i].active => Apart(registry[i], span)
  PROVE  Accepts(registry, d)
<1> USE DEF OwnershipInv
<1>1. /\ span.base \in Nat \ {0} /\ span.size \in Nat \ {0} /\ MaxVa \in Nat
      /\ span.base + span.size - 1 <= MaxVa /\ Device \in Nat
  BY SpanFacts, MaxVaAssumption, TrackingAssumption DEF SpansInv, RegistryInv, TypeOK
<1>2. ~RangeOverflows(d) /\ d.device >= 0 /\ d.base # 0 /\ d.size # 0
  BY <1>1 DEF RangeOverflows
<1>3. ASSUME NEW i \in DOMAIN registry, registry[i].active PROVE ~Overlaps(d, registry[i])
  <2>1. Apart(registry[i], span)
    BY <1>3
  <2>2. registry[i] \in Descriptor(Id)
    BY ElementType DEF RegistryInv, TypeOK
  <2>3. registry[i].base \in Nat /\ registry[i].size \in Nat
    BY <2>2, MaxVaAssumption DEF Descriptor
  <2> QED BY <1>1, <2>1, <2>3 DEF Apart, Overlaps, inclusive_end
<1> QED BY <1>2, <1>3 DEF Accepts, HasId

\* An allocate with an id is never refused, a DeviceBuffer only while a thread
\* has unmapped a range that the registry still shows, and that window is the
\* only time the registry shows a range that CUDA no longer maps.
THEOREM RefusalNeedsWindow == Spec => []RefusedOnlyInWindow
<1>1. ASSUME OwnershipInv PROVE RefusedOnlyInWindow
  <2> USE <1>1 DEF OwnershipInv
  <2>1. ASSUME NEW t \in Threads, pc[t] = "ided"
        PROVE  Accepts(registry, TrtDescriptor(t))
    <3>1. memory[t] \in mapped /\ ~HasId(registry, aid[t])
      BY <2>1 DEF SpansInv, OwnsSpan, Allocating, EntryIdsInv
    <3>2. \A i \in DOMAIN registry : registry[i].active => Apart(registry[i], memory[t])
      BY <2>1, <3>1 DEF FreshInv, OwnsFreshId, HasId
    <3> QED BY <3>1, <3>2, ApartIsAccepted DEF TrtDescriptor
  <2>2. ASSUME NEW b \in Buffers, bpc[b] = "malloced",
               \A t \in Threads : pc[t] # "unmapped"
        PROVE  Accepts(registry, BufferDescriptor(b))
    <3>1. bmem[b] \in mapped /\ ~HasId(registry, b)
      BY <2>2 DEF SpansInv, BufferOwnsSpan, EntryIdsInv
    <3>2. \A i \in DOMAIN registry : registry[i].active => Apart(registry[i], bmem[b])
      BY <2>2 DEF FreshInv, InWindow
    <3> QED BY <3>1, <3>2, ApartIsAccepted DEF BufferDescriptor
  <2>3. \A i \in DOMAIN registry : registry[i].active =>
          \/ [base |-> registry[i].base, size |-> registry[i].size] \in mapped
          \/ \E t \in Threads : pc[t] = "unmapped" /\ aid[t] = registry[i].id
          \/ registry[i].id \in Buffers /\ bpc[registry[i].id] = "unmapped"
    BY DEF EntriesInv, InWindow, SpanOf
  <2> QED BY <2>1, <2>2, <2>3 DEF RefusedOnlyInWindow
<1> QED BY <1>1, OwnershipHolds, PTL

\* The events tell a true story: live TensorRT ranges never overlap, and a
\* regular end leaves no allocation live that could be freed.
THEOREM LedgerIsSound == Spec => []LedgerSound
<1>1. ASSUME OwnershipInv PROVE LedgerSound
  <2> USE <1>1 DEF OwnershipInv
  <2>1. ASSUME NEW i \in DOMAIN registry, registry[i].id \in ledger \ Buffers
        PROVE  \/ registry[i].active
               \/ \E t \in Threads :
                    pc[t] = "retired" /\ aid[t] = registry[i].id /\ SpanOf(registry[i]) = memory[t]
    <3>1. PICK k \in DOMAIN records :
            /\ records[k].id = registry[i].id
            /\ \/ Live(k)
               \/ \E t \in Threads : pc[t] = "retired" /\ aid[t] = registry[i].id
      BY <2>1 DEF LedgerInv
    <3>2. \A j \in DOMAIN registry : registry[j].id = registry[i].id => j = i
      BY DEF RegistryInv, UniqueIds
    <3>3. CASE Live(k)
      BY <3>1, <3>2, <3>3 DEF Live
    <3>4. CASE \E t \in Threads : pc[t] = "retired" /\ aid[t] = registry[i].id
      BY <3>2, <3>4 DEF EntriesInv
    <3> QED BY <3>1, <3>3, <3>4
  <2>2. ASSUME NEW i \in DOMAIN registry, NEW j \in DOMAIN registry, i # j,
               registry[i].id \in ledger \ Buffers, registry[j].id \in ledger \ Buffers
        PROVE  Apart(registry[i], registry[j])
    <3>1. registry[i].id # registry[j].id
      BY <2>2 DEF RegistryInv, UniqueIds
    <3>2. SpanOf(registry[i]) \in Ranges /\ SpanOf(registry[j]) \in Ranges
      BY EntryFacts DEF RegistryInv, TypeOK
    <3>3. CASE registry[i].active /\ registry[j].active
      BY <2>2, <3>3, ActiveApart
    <3>4. CASE ~registry[j].active
      <4>1. PICK t \in Threads : pc[t] = "retired" /\ aid[t] = registry[j].id /\ SpanOf(registry[j]) = memory[t]
        BY <2>1, <2>2, <3>4
      <4>2. registry[i].active
        BY <2>1, <2>2, <3>1, <4>1 DEF LockInv, OwnsMutex
      <4>3. Apart(registry[i], memory[t])
        BY <2>2, <4>1, <4>2 DEF FreshInv
      <4> QED BY <4>1, <4>3, EntryFacts DEF RegistryInv, TypeOK
    <3>5. CASE ~registry[i].active
      <4>1. PICK t \in Threads : pc[t] = "retired" /\ aid[t] = registry[i].id /\ SpanOf(registry[i]) = memory[t]
        BY <2>1, <2>2, <3>5
      <4>2. registry[j].active
        BY <2>1, <2>2, <3>1, <4>1 DEF LockInv, OwnsMutex
      <4>3. Apart(registry[j], SpanOf(registry[i]))
        BY <2>2, <4>1, <4>2 DEF FreshInv
      <4>4. Apart(SpanOf(registry[j]), SpanOf(registry[i]))
        BY <4>3, EntryFacts DEF RegistryInv, TypeOK
      <4>5. Apart(SpanOf(registry[i]), SpanOf(registry[j]))
        BY <3>2, <4>4, ApartFacts
      <4> QED BY <4>5, EntryFacts DEF RegistryInv, TypeOK
    <3> QED BY <3>3, <3>4, <3>5
  <2>3. ASSUME NEW i \in DOMAIN registry, NEW j \in DOMAIN registry,
               Apart(registry[i], registry[j])
        PROVE  ~Overlaps(registry[i], registry[j])
    <3>1. registry[i] \in Descriptor(Id) /\ registry[j] \in Descriptor(Id)
      BY ElementType DEF RegistryInv, TypeOK
    <3>2. /\ registry[i].base \in Nat /\ registry[i].size \in Nat
          /\ registry[j].base \in Nat /\ registry[j].size \in Nat
      BY <3>1, MaxVaAssumption DEF Descriptor
    <3> QED BY <2>3, <3>2 DEF Apart, Overlaps, inclusive_end
  <2>4. ASSUME phase = "end", ~failed, NEW n \in ledger
        PROVE  n \in leaked \cup Probes
    <3>1. CASE n \in Buffers
      BY <2>4, <3>1 DEF LedgerInv, Buffers
    <3>2. CASE n \notin Buffers
      <4>1. PICK k \in DOMAIN records :
              /\ records[k].id = n
              /\ Live(k) \/ \E t \in Threads : pc[t] = "retired" /\ aid[t] = n
        BY <2>4, <3>2 DEF LedgerInv
      <4>2. held = {} /\ \A t \in Threads : pc[t] = "idle"
        BY <2>4 DEF PhaseInv
      <4> QED BY <4>1, <4>2 DEF RecordsInv
    <3> QED BY <3>1, <3>2
  <2> QED BY <2>2, <2>3, <2>4 DEF LedgerSound
<1> QED BY <1>1, OwnershipHolds, PTL
=============================================================================
