------------------------- MODULE TrackingAllocator --------------------------
(***************************************************************************)
(* Who allocates device memory in the campaign runner                      *)
(* (src/apps/resnet50_int8_g1_5.cpp): TensorRT calls TrackingGpuAllocator  *)
(* back from any of its threads, while the main thread owns the            *)
(* DeviceBuffers of the engine bindings and of the L2 probe.  Both reserve *)
(* memory with cudaMalloc and then enter it in the AllocationRegistry; the *)
(* allocator's mutex covers neither the cudaMalloc nor the registry call   *)
(* of allocate, but all of deallocate.                                     *)
(*                                                                         *)
(* The CUDA allocator and TensorRT are external: cudaMalloc returns any    *)
(* range that is not mapped, or fails; TensorRT frees only pointers that   *)
(* it was given, each at most once, and allocates only inside calls that   *)
(* the main thread makes before the teardown.                              *)
(***************************************************************************)
EXTENDS AllocationRegistry, FiniteSets

CONSTANTS
  Threads,     \* the TensorRT threads that call the allocator
  Bindings,    \* allocation ids of the engine's binding buffers
  Probes,      \* allocation ids of the L2 probe's output buffer
  Sizes,       \* request sizes
  Device,      \* options.device
  MaxAllocs    \* bound: allocate calls that get as far as an id

ASSUME TrackingAssumption ==
  /\ Device \in Nat
  /\ MaxAllocs \in Nat
  /\ Sizes \subseteq Nat \ {0}
  /\ Bindings \cap Probes = {}
  /\ (Bindings \cup Probes) \cap Nat = {}

Buffers == Bindings \cup Probes

\* "trt-internal-<n>" is the number n; a buffer's id is fixed at its call site.
Id == Nat \cup Buffers

Spans == [base: 1..MaxVa, size: Sizes]

NoSpan == [base |-> 0, size |-> 0]

VARIABLES
  mapped,      \* ranges that CUDA has given out and not taken back
  registry,    \* AllocationRegistry::allocations_
  records,     \* TrackingGpuAllocator::records_
  next_id,     \* TrackingGpuAllocator::next_id_
  mutex,       \* TrackingGpuAllocator::mutex_: the threads that hold it
  pc,          \* where each TensorRT thread is in allocate or deallocate
  memory,      \* its local variable memory, with the size of the request
  aid,         \* its local variable allocation_id (record->allocation_id)
  held,        \* addresses TensorRT owns
  bpc,         \* where each DeviceBuffer is in its life
  bmem,        \* DeviceBuffer::pointer_
  phase,       \* where the main thread is
  failed,      \* the main thread left by an exception
  ledger,      \* allocations the GPU_M2D_EVENT stream shows as live
  leaked       \* ids whose cudaFree failed

trtVars == <<records, next_id, mutex, pc, memory, aid, held>>
mainVars == <<bpc, bmem, phase, failed>>
vars == <<mapped, registry, trtVars, mainVars, ledger, leaked>>

BytesOf(span) == span.base .. (span.base + span.size - 1)

Disjoint(s, t) == BytesOf(s) \cap BytesOf(t) = {}

Init ==
  /\ mapped = {}
  /\ registry = <<>>
  /\ records = <<>>
  /\ next_id = 0
  /\ mutex = {}
  /\ pc = [t \in Threads |-> "idle"]
  /\ memory = [t \in Threads |-> NoSpan]
  /\ aid = [t \in Threads |-> 0]
  /\ held = {}
  /\ bpc = [b \in Buffers |-> "none"]
  /\ bmem = [b \in Buffers |-> NoSpan]
  /\ phase = "setup"
  /\ failed = FALSE
  /\ ledger = {}
  /\ leaked = {}

\* cudaMalloc: any unmapped range; cudaFree unmaps one.
Free(span) ==
  /\ span.base + span.size - 1 <= MaxVa
  /\ \A s \in mapped : Disjoint(s, span)

TensorRtMayAllocate == phase \in {"setup", "run"}

Allocating == {"malloced", "ided", "added", "thrown", "dropped"}

-----------------------------------------------------------------------------
(* TrackingGpuAllocator::allocate.  A cudaMalloc that fails returns        *)
(* nullptr with nothing changed, and is no step here.                      *)

\* cudaMalloc, before any lock.
AllocateMalloc(t, span) ==
  /\ pc[t] = "idle"
  /\ TensorRtMayAllocate
  /\ next_id + Cardinality({u \in Threads : pc[u] = "malloced"}) < MaxAllocs
  /\ Free(span)
  /\ mapped' = mapped \cup {span}
  /\ memory' = [memory EXCEPT ![t] = span]
  /\ pc' = [pc EXCEPT ![t] = "malloced"]
  /\ UNCHANGED <<registry, records, next_id, mutex, aid, held, mainVars,
                 ledger, leaked>>

\* Mutant: the id is taken without the lock that deallocate holds.
AllocateIdNoLock(t) ==
  /\ pc[t] = "malloced"
  /\ aid' = [aid EXCEPT ![t] = next_id]
  /\ next_id' = next_id + 1
  /\ pc' = [pc EXCEPT ![t] = "ided"]
  /\ UNCHANGED <<mapped, registry, records, mutex, memory, held, mainVars,
                 ledger, leaked>>

\* The first critical section: allocation_id from next_id_++.
AllocateId(t) ==
  /\ pc[t] = "malloced"
  /\ mutex = {}
  /\ aid' = [aid EXCEPT ![t] = next_id]
  /\ next_id' = next_id + 1
  /\ pc' = [pc EXCEPT ![t] = "ided"]
  /\ UNCHANGED <<mapped, registry, records, mutex, memory, held, mainVars,
                 ledger, leaked>>

\* The id's number is drawn, but a string cannot be built: cudaFree, nullptr.
AllocateIdThrows(t) ==
  /\ pc[t] = "malloced"
  /\ mutex = {}
  /\ next_id' = next_id + 1
  /\ mapped' \in {mapped, mapped \ {memory[t]}}
  /\ memory' = [memory EXCEPT ![t] = NoSpan]
  /\ pc' = [pc EXCEPT ![t] = "idle"]
  /\ UNCHANGED <<registry, records, mutex, aid, held, mainVars, ledger, leaked>>

TrtDescriptor(t) ==
  [id |-> aid[t], device |-> Device, base |-> memory[t].base,
   size |-> memory[t].size, active |-> TRUE]

\* registry_.add_allocation returns.
AllocateAdd(t) ==
  /\ pc[t] = "ided"
  /\ Accepts(registry, TrtDescriptor(t))
  /\ registry' = add_allocation(registry, TrtDescriptor(t))
  /\ pc' = [pc EXCEPT ![t] = "added"]
  /\ UNCHANGED <<mapped, records, next_id, mutex, memory, aid, held, mainVars,
                 ledger, leaked>>

\* add_allocation throws (it rejects the range or runs out of host memory),
\* or records_.push_back does, and leaves no record: control is in the catch
\* block.
AllocateThrow(t) ==
  /\ pc[t] \in {"ided", "added"}
  /\ pc[t] = "added" => mutex = {}
  /\ pc' = [pc EXCEPT ![t] = "thrown"]
  /\ UNCHANGED <<mapped, registry, records, next_id, mutex, memory, aid, held,
                 mainVars, ledger, leaked>>

PushRecord(t) ==
  records' = Append(records, [gpu_va |-> memory[t].base, id |-> aid[t],
                              active |-> TRUE])

\* The record is pushed, but a string for observer_->allocated cannot be built:
\* control is in the catch block, which never takes the record back.
AllocateAnnounceThrows(t) ==
  /\ pc[t] = "added"
  /\ mutex = {}
  /\ PushRecord(t)
  /\ pc' = [pc EXCEPT ![t] = "thrown"]
  /\ UNCHANGED <<mapped, registry, next_id, mutex, memory, aid, held, mainVars,
                 ledger, leaked>>

\* The second critical section: the record, the ALLOCATED event, the return.
AllocateRecord(t) ==
  /\ pc[t] = "added"
  /\ mutex = {}
  /\ PushRecord(t)
  /\ ledger' = ledger \cup {aid[t]}
  /\ held' = held \cup {memory[t].base}
  /\ memory' = [memory EXCEPT ![t] = NoSpan]
  /\ aid' = [aid EXCEPT ![t] = 0]
  /\ pc' = [pc EXCEPT ![t] = "idle"]
  /\ UNCHANGED <<mapped, registry, next_id, mutex, mainVars, leaked>>

\* The catch block: deactivate_allocation, and only then cudaFree.
AllocateDeactivate(t) ==
  /\ pc[t] = "thrown"
  /\ registry' = deactivate_allocation(registry, aid[t])
  /\ pc' = [pc EXCEPT ![t] = "dropped"]
  /\ UNCHANGED <<mapped, records, next_id, mutex, memory, aid, held, mainVars,
                 ledger, leaked>>

\* The result of this cudaFree is not looked at.
AllocateFree(t) ==
  /\ pc[t] = "dropped"
  /\ mapped' \in {mapped, mapped \ {memory[t]}}
  /\ memory' = [memory EXCEPT ![t] = NoSpan]
  /\ aid' = [aid EXCEPT ![t] = 0]
  /\ pc' = [pc EXCEPT ![t] = "idle"]
  /\ UNCHANGED <<registry, records, next_id, mutex, held, mainVars,
                 ledger, leaked>>

-----------------------------------------------------------------------------
(* TrackingGpuAllocator::deallocate, one critical section of four steps    *)
(* that the other threads' cudaMallocs and registry calls interleave with. *)

\* Mutant: std::find_if from the front finds the oldest active record.
IsOldestRecordOf(i, va) ==
  /\ records[i].gpu_va = va /\ records[i].active
  /\ \A j \in DOMAIN records :
       records[j].gpu_va = va /\ records[j].active => i <= j

\* std::find_if from the back: the newest active record of the address.
IsRecordOf(i, va) ==
  /\ records[i].gpu_va = va /\ records[i].active
  /\ \A j \in DOMAIN records :
       records[j].gpu_va = va /\ records[j].active => j <= i

\* Mutant: deallocate does not take the mutex.
DeallocateNoLock(t, span) ==
  /\ pc[t] = "idle"
  /\ span.base \in held
  /\ held' = held \ {span.base}
  /\ \E i \in DOMAIN records :
       /\ IsRecordOf(i, span.base)
       /\ aid' = [aid EXCEPT ![t] = records[i].id]
  /\ memory' = [memory EXCEPT ![t] = span]
  /\ pc' = [pc EXCEPT ![t] = "found"]
  /\ UNCHANGED <<mapped, registry, records, next_id, mutex, mainVars, ledger,
                 leaked>>

\* The lock and the search.  An address with no active record returns false.
DeallocateFind(t, span) ==
  /\ pc[t] = "idle"
  /\ mutex = {}
  /\ span.base \in held
  /\ mutex' = {t}
  /\ held' = held \ {span.base}
  /\ \E i \in DOMAIN records :
       /\ IsRecordOf(i, span.base)
       /\ aid' = [aid EXCEPT ![t] = records[i].id]
  /\ memory' = [memory EXCEPT ![t] = span]
  /\ pc' = [pc EXCEPT ![t] = "found"]
  /\ UNCHANGED <<mapped, registry, records, next_id, mainVars, ledger, leaked>>

\* cudaFree succeeds: the range is up for reuse, the registry still shows it.
DeallocateFree(t) ==
  /\ pc[t] = "found"
  /\ mapped' = mapped \ {memory[t]}
  /\ pc' = [pc EXCEPT ![t] = "unmapped"]
  /\ UNCHANGED <<registry, records, next_id, mutex, memory, aid, held,
                 mainVars, ledger, leaked>>

\* cudaFree fails: deallocate returns false and the entry stays as it is.
DeallocateFails(t) ==
  /\ pc[t] = "found"
  /\ leaked' = leaked \cup {aid[t]}
  /\ mutex' = {}
  /\ memory' = [memory EXCEPT ![t] = NoSpan]
  /\ aid' = [aid EXCEPT ![t] = 0]
  /\ pc' = [pc EXCEPT ![t] = "idle"]
  /\ UNCHANGED <<mapped, registry, records, next_id, held, mainVars,
                 ledger>>

\* Mutant: the record is retired and the registry entry forgotten.
DeallocateRetireRecordOnly(t) ==
  /\ pc[t] = "unmapped"
  /\ \E i \in DOMAIN records :
       /\ IsRecordOf(i, memory[t].base)
       /\ records' = [records EXCEPT ![i].active = FALSE]
  /\ pc' = [pc EXCEPT ![t] = "retired"]
  /\ UNCHANGED <<mapped, registry, next_id, mutex, memory, aid, held, mainVars,
                 ledger, leaked>>

\* The record, which only the mutex's holder looks at, and the registry entry.
DeallocateRetire(t) ==
  /\ pc[t] = "unmapped"
  /\ \E i \in DOMAIN records :
       /\ IsRecordOf(i, memory[t].base)
       /\ records' = [records EXCEPT ![i].active = FALSE]
  /\ registry' = deactivate_allocation(registry, aid[t])
  /\ pc' = [pc EXCEPT ![t] = "retired"]
  /\ UNCHANGED <<mapped, next_id, mutex, memory, aid, held, mainVars, ledger,
                 leaked>>

\* Mutant: the FREE event is not written.
DeallocateFinishSilently(t) ==
  /\ pc[t] = "retired"
  /\ mutex' = {}
  /\ memory' = [memory EXCEPT ![t] = NoSpan]
  /\ aid' = [aid EXCEPT ![t] = 0]
  /\ pc' = [pc EXCEPT ![t] = "idle"]
  /\ UNCHANGED <<mapped, registry, records, next_id, held, mainVars,
                 ledger, leaked>>

\* The FREE event, and the end of the critical section.
DeallocateFinish(t) ==
  /\ pc[t] = "retired"
  /\ ledger' = ledger \ {aid[t]}
  /\ mutex' = {}
  /\ memory' = [memory EXCEPT ![t] = NoSpan]
  /\ aid' = [aid EXCEPT ![t] = 0]
  /\ pc' = [pc EXCEPT ![t] = "idle"]
  /\ UNCHANGED <<mapped, registry, records, next_id, held, mainVars,
                 leaked>>

-----------------------------------------------------------------------------
(* The main thread: the bindings, then (with the L2 probe) the probe's     *)
(* output buffer, the campaign, the teardown.                              *)

Constructing == {b \in Buffers : bpc[b] \in {"malloced", "added"}}

\* DeviceBuffer's constructor: cudaMalloc.
BufferMalloc(b, span) ==
  /\ phase = "setup"
  /\ Constructing = {}
  /\ bpc[b] = "none"
  /\ b \in Probes => \A c \in Bindings : bpc[c] = "live"
  /\ Free(span)
  /\ mapped' = mapped \cup {span}
  /\ bmem' = [bmem EXCEPT ![b] = span]
  /\ bpc' = [bpc EXCEPT ![b] = "malloced"]
  /\ UNCHANGED <<registry, trtVars, phase, failed, ledger, leaked>>

BufferDescriptor(b) ==
  [id |-> b, device |-> Device, base |-> bmem[b].base,
   size |-> bmem[b].size, active |-> TRUE]

BufferAdd(b) ==
  /\ bpc[b] = "malloced"
  /\ Accepts(registry, BufferDescriptor(b))
  /\ registry' = add_allocation(registry, BufferDescriptor(b))
  /\ bpc' = [bpc EXCEPT ![b] = "added"]
  /\ UNCHANGED <<mapped, trtVars, bmem, phase, failed, ledger, leaked>>

\* add_allocation throws: cudaFree, rethrow, and the stack unwinds.
BufferThrow(b) ==
  /\ bpc[b] = "malloced"
  /\ mapped' = mapped \ {bmem[b]}
  /\ bmem' = [bmem EXCEPT ![b] = NoSpan]
  /\ bpc' = [bpc EXCEPT ![b] = "gone"]
  /\ phase' = "clear"
  /\ failed' = TRUE
  /\ UNCHANGED <<registry, trtVars, ledger, leaked>>

\* observer.allocated at the call site.
BufferAnnounce(b) ==
  /\ phase = "setup"
  /\ bpc[b] = "added"
  /\ ledger' = ledger \cup {b}
  /\ bpc' = [bpc EXCEPT ![b] = "live"]
  /\ UNCHANGED <<mapped, registry, trtVars, bmem, phase, failed, leaked>>

\* Every buffer is there: the passes and the campaign may run.
Run ==
  /\ phase = "setup"
  /\ \A b \in Buffers : bpc[b] = "live"
  /\ phase' = "run"
  /\ UNCHANGED <<mapped, registry, trtVars, bpc, bmem, failed, ledger, leaked>>

NoCallInProgress == \A t \in Threads : pc[t] \notin Allocating

\* TEARDOWN_BEGIN, and a FREE event for each entry of binding_info that has a
\* buffer.
Teardown ==
  /\ phase = "run"
  /\ NoCallInProgress
  /\ ledger' = ledger \ Bindings
  /\ phase' = "clear"
  /\ UNCHANGED <<mapped, registry, trtVars, bpc, bmem, failed, leaked>>

\* An exception anywhere else, a failed cudaMalloc included: no teardown events.
Abort ==
  /\ phase \in {"setup", "run"}
  /\ NoCallInProgress
  /\ \A b \in Buffers : bpc[b] # "malloced"
  /\ failed' = TRUE
  /\ phase' = "clear"
  /\ UNCHANGED <<mapped, registry, trtVars, bpc, bmem, ledger, leaked>>

Releasing == {b \in Buffers : bpc[b] = "unmapped"}

\* DeviceBuffer::release, called for each buffer: cudaFree, then deactivate.
ReleaseFree(b) ==
  /\ phase = "clear"
  /\ NoCallInProgress
  /\ Releasing = {}
  /\ bpc[b] \in {"added", "live"}
  /\ mapped' = mapped \ {bmem[b]}
  /\ bpc' = [bpc EXCEPT ![b] = "unmapped"]
  /\ UNCHANGED <<registry, trtVars, bmem, phase, failed, ledger, leaked>>

ReleaseFails(b) ==
  /\ phase = "clear"
  /\ NoCallInProgress
  /\ Releasing = {}
  /\ bpc[b] \in {"added", "live"}
  /\ leaked' = leaked \cup {b}
  /\ bmem' = [bmem EXCEPT ![b] = NoSpan]
  /\ bpc' = [bpc EXCEPT ![b] = "gone"]
  /\ UNCHANGED <<mapped, registry, trtVars, phase, failed, ledger>>

ReleaseDeactivate(b) ==
  /\ bpc[b] = "unmapped"
  /\ registry' = deactivate_allocation(registry, b)
  /\ bmem' = [bmem EXCEPT ![b] = NoSpan]
  /\ bpc' = [bpc EXCEPT ![b] = "gone"]
  /\ UNCHANGED <<mapped, trtVars, phase, failed, ledger, leaked>>

\* context, engine and runtime are reset: TensorRT gives back what it holds,
\* and the process ends (with PROCESS_END unless it failed).
ProcessEnd ==
  /\ phase = "clear"
  /\ \A b \in Buffers : bpc[b] \in {"none", "gone"}
  /\ \A t \in Threads : pc[t] = "idle"
  /\ held = {}
  /\ phase' = "end"
  /\ UNCHANGED <<mapped, registry, trtVars, bpc, bmem, failed, ledger, leaked>>

Done == phase = "end" /\ UNCHANGED vars

Allocate(t) ==
  \/ \E span \in Spans : AllocateMalloc(t, span)
  \/ AllocateId(t)
  \/ AllocateIdThrows(t)
  \/ AllocateAdd(t)
  \/ AllocateThrow(t)
  \/ AllocateAnnounceThrows(t)
  \/ AllocateRecord(t)
  \/ AllocateDeactivate(t)
  \/ AllocateFree(t)

Deallocate(t) ==
  \/ \E span \in mapped : DeallocateFind(t, span)
  \/ DeallocateFree(t)
  \/ DeallocateFails(t)
  \/ DeallocateRetire(t)
  \/ DeallocateFinish(t)

DeviceBuffer(b) ==
  \/ \E span \in Spans : BufferMalloc(b, span)
  \/ BufferAdd(b)
  \/ BufferThrow(b)
  \/ BufferAnnounce(b)
  \/ ReleaseFree(b)
  \/ ReleaseFails(b)
  \/ ReleaseDeactivate(b)

Next ==
  \/ \E t \in Threads : Allocate(t) \/ Deallocate(t)
  \/ \E b \in Buffers : DeviceBuffer(b)
  \/ Run
  \/ Teardown
  \/ Abort
  \/ ProcessEnd
  \/ Done

Spec == Init /\ [][Next]_vars

-----------------------------------------------------------------------------
(* Properties.                                                             *)

ThreadStates == {"idle", "found", "unmapped", "retired"} \cup Allocating

BufferStates == {"none", "malloced", "added", "live", "unmapped", "gone"}

\* Every variable has its type.
TypeOK ==
  /\ mapped \subseteq Spans
  /\ registry \in Seq(Descriptor(Id))
  /\ records \in Seq([gpu_va: 1..MaxVa, id: Nat, active: BOOLEAN])
  /\ next_id \in Nat
  /\ mutex \subseteq Threads
  /\ pc \in [Threads -> ThreadStates]
  /\ memory \in [Threads -> Spans \cup {NoSpan}]
  /\ aid \in [Threads -> Nat]
  /\ held \subseteq 1..MaxVa
  /\ bpc \in [Buffers -> BufferStates]
  /\ bmem \in [Buffers -> Spans \cup {NoSpan}]
  /\ phase \in {"setup", "run", "clear", "end"}
  /\ failed \in BOOLEAN
  /\ ledger \subseteq Id
  /\ leaked \subseteq Id

\* No two entries ever share an id, freed ones included: an id names one
\* allocation for the life of the process.
RegistryIdsUnique == UniqueIds(registry)

\* No two active entries of one device share a byte, however the threads'
\* cudaMallocs, adds and frees interleave.
RegistryDisjoint == ActiveDisjoint(registry)

\* Forward and reverse lookup are inverse on every active byte, at every
\* moment and not only when validate_registry_round_trips runs, the last byte of
\* the address space included: the code must never form the sum base + size.
LookupsInverse == RoundTrips(registry)

\* The registry refuses a range that CUDA really handed out, or shows as active
\* one that CUDA no longer maps, only in the window that code leaves open:
\* between a cudaFree and the update that follows it.  An allocate never meets
\* the window, for taking the mutex for its id makes it wait for the deallocate
\* that opened it; a DeviceBuffer takes no mutex and can be refused in it.
RefusedOnlyInWindow ==
  /\ \A t \in Threads : pc[t] = "ided" => Accepts(registry, TrtDescriptor(t))
  /\ \A b \in Buffers :
       bpc[b] = "malloced" /\ ~Accepts(registry, BufferDescriptor(b))
         => \E t \in Threads : pc[t] = "unmapped"
  /\ \A i \in DOMAIN registry : registry[i].active =>
       \/ [base |-> registry[i].base, size |-> registry[i].size] \in mapped
       \/ \E t \in Threads : pc[t] = "unmapped" /\ aid[t] = registry[i].id
       \/ registry[i].id \in Buffers /\ bpc[registry[i].id] = "unmapped"

\* What TensorRT holds can be given back: the record that deallocate would pick
\* for the address is that of an allocation which the registry shows as active,
\* at that address and with a range that CUDA has mapped.  A failed allocate can
\* leave an active record of an address that CUDA hands out again (its event
\* throws after the push), so an address may have several active records; the
\* search from the back never picks a left-over one.
HeldIsRegistered ==
  \A va \in held : \E k \in DOMAIN records, i \in DOMAIN registry :
    /\ IsRecordOf(k, va)
    /\ registry[i].id = records[k].id /\ registry[i].active
    /\ registry[i].base = va
    /\ [base |-> va, size |-> registry[i].size] \in mapped

\* The inductive strengthening behind the registry theorems: a thread whose
\* entry is in the registry still has the range it will record.
RegistryInv ==
  /\ TypeOK
  /\ \A t \in Threads : pc[t] = "added" => memory[t] \in Spans
  /\ UniqueIds(registry)
  /\ ActiveDisjoint(registry)

\* The event stream tells an observer a true story: the live ranges of
\* TensorRT's allocations never overlap, for the FREE of a range precedes the
\* ALLOCATED of its next owner, and after a regular end every allocation and
\* every binding that could be freed has its FREE event.
LedgerSound ==
  /\ \A i, j \in DOMAIN registry :
       (i # j /\ registry[i].id \in ledger \ Buffers
              /\ registry[j].id \in ledger \ Buffers)
         => ~Overlaps(registry[i], registry[j])
  /\ phase = "end" /\ ~failed => ledger \subseteq leaked \cup Probes
=============================================================================
