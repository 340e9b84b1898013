----------------------------- MODULE DualAddress -----------------------------
(***************************************************************************)
(* Injection through the chain of addresses: a runner in its gated         *)
(* injection mode (apps/resnet50_int8_g1_5.cpp, "G4-T2") and the script    *)
(* around it (tools/g4_dualaddr/run_g4_t2_injection.py), which joins the   *)
(* registry, the observed page map and the bank table                      *)
(* (tools/g4_dualaddr/build_snapshot.py), chooses one bit of a binding and *)
(* one of a TensorRT internal allocation, and judges the runner's result.  *)
(* The runner also takes a work file written by hand, and without one it   *)
(* validates the tensor map by a single flip of its input.                 *)
(*                                                                         *)
(* Memory is physical: a byte of a framebuffer page, read and written      *)
(* through the process's page table.  Its content is the set of bits in    *)
(* which it differs from what it was before the injection.  How the page   *)
(* map is observed is the subject of GatedProbe.                           *)
(*                                                                         *)
(* Any of the runner's CUDA calls may fail, once or for good, its files    *)
(* may not open, and its wait for the release has an end: most of these    *)
(* errors end the runner, but the injected inference catches its own.      *)
(***************************************************************************)
EXTENDS TensorMapping, FiniteSetsExt

CONSTANTS
  PageBytes,     \* bytes of a page, 2 MiB in the code
  Universe,      \* framebuffer pages that the bank table covers
  Linked,        \* those of them with a bank component (channel_root)
  Runs,          \* allocations, page tables and what was observed of them
  HandWorks,     \* work files written by hand
  BindingBit, InternalBit,
  EngineValues   \* bound: what a byte that the engine writes may then hold

ASSUME DualAssumption ==
  /\ PageBytes \in Nat \ {0}
  /\ Linked \subseteq Universe /\ Universe \subseteq Nat
  /\ BindingBit \in 0..7 /\ InternalBit \in 0..7
  /\ EngineValues \subseteq SUBSET (0..7)

VARIABLES
  run,        \* this process and what the observer saw of it
  pc,
  registry, tensors,
  gate_copy,  \* the registry as the script copied it at the gate
  rows,       \* the snapshot, empty until it is written
  work,       \* the targets of the work file
  byScript,   \* the script chose them, and judges the result
  next,       \* target being flipped or restored
  rewritten,  \* the byte that the engine wrote while the faults were held, or 0
  records,    \* G4TargetRecord of each flipped target
  mem,        \* bits by which a physical byte differs from its clean value
  outcome,
  trouble,    \* what fails around the runner, see Troubles
  thrown,     \* why the runner or the script gave up
  verdict

vars == <<run, pc, registry, tensors, gate_copy, rows, work, byScript, next,
          rewritten, records, mem, outcome, trouble, thrown, verdict>>

\* "call": the next use of the device fails, and only this one; "sticky": the
\* context is lost and every call fails from now on; "disk": no file opens.
Troubles == {"call", "sticky", "disk"}
CudaWorks == trouble \notin {"call", "sticky"}

\* What the registry of a process always is (TrackingAllocator).
IsRegistry(reg) ==
  /\ reg \in Seq(ToSet(reg))
  /\ \A i \in DOMAIN reg :
       reg[i].base \in 1..MaxVa /\ reg[i].size \in Nat \ {0} /\ ~RangeOverflows(reg[i])
  /\ UniqueIds(reg) /\ ActiveDisjoint(reg)

Xor(x, y) == (x \ y) \cup (y \ x)
Larger(x, y) == IF x > y THEN x ELSE y
Smaller(x, y) == IF x < y THEN x ELSE y

PageOf(a) == a - (a % PageBytes)
PagesOf(a) == {PageOf(x) : x \in a.base .. inclusive_end(a)}
Bytes(a) == a.base .. inclusive_end(a)

\* Where the hardware finds a byte.
Physical(va) == run.table[PageOf(va)] + (va % PageBytes)
PhysicalBytes == {run.table[p] + i : p \in DOMAIN run.table, i \in 0 .. PageBytes - 1}

load_allocations(reg) == {a \in ToSet(reg) : a.active}

\* A run is a sound registry in a page table of whole, aligned pages.
ASSUME RunAssumption ==
  \A r \in Runs :
    /\ IsRegistry(r.allocs)
    /\ \A a \in load_allocations(r.allocs) : PagesOf(a) \subseteq DOMAIN r.table
    /\ \A p \in DOMAIN r.table : r.table[p] \in Nat /\ r.table[p] % PageBytes = 0

\* stoull and stoi give naturals.
ASSUME HandAssumption ==
  \A w \in HandWorks :
    w \in Seq(ToSet(w)) /\ \A i \in DOMAIN w : w[i].bit \in Nat /\ w[i].offset \in Nat

-----------------------------------------------------------------------------
(* build_snapshot.py.                                                      *)

\* The row of the page map for one page of an allocation, if there is one.
ObservedRow(a, page) == a.id \in run.listed /\ run.seen[page] # "none"

\* load_map refuses a row of an allocation that is not active.
MapLoads(allocs) == run.listed \subseteq {a.id : a \in allocs}

\* Mutant: two virtual pages may share a framebuffer page.
UsableAliased(a, page) ==
  /\ ObservedRow(a, page)
  /\ run.seen[page] = "local"
  /\ run.table[page] \in Universe

\* A page is joined only if its row is a valid, local, whole page inside the
\* table, and its frame backs no other page of any active allocation.
UsablePage(a, page) ==
  /\ ObservedRow(a, page)
  /\ run.seen[page] = "local"
  /\ run.table[page] \in Universe
  /\ \A b \in load_allocations(registry) : \A other \in PagesOf(b) :
       ObservedRow(b, other) /\ run.table[other] = run.table[page] => other = page

SnapshotRow(a, page) ==
  [id |-> a.id, label |-> a.label, base |-> a.base, size |-> a.size,
   page |-> page, frame |-> run.table[page],
   start |-> Larger(a.base, page) - page,
   end |-> Smaller(a.base + a.size, page + PageBytes) - page,
   linked |-> run.table[page] \in Linked]

RowsOverlap(r, s) ==
  r # s /\ r.page = s.page /\ r.start < s.end /\ s.start < r.end

\* build_rows: the join, and whether nothing speaks against it; one problem
\* refuses the whole snapshot.
build_rows(allocs) == UNION {{SnapshotRow(a, p) : p \in PagesOf(a)} : a \in allocs}

Joinable(allocs) ==
  /\ \A a \in allocs : a.size > 0 /\ \A p \in PagesOf(a) : UsablePage(a, p)
  /\ \A r, s \in build_rows(allocs) : ~RowsOverlap(r, s)

lookup_va(va) ==
  {r \in rows : r.page = PageOf(va) /\ r.start <= va - r.page /\ va - r.page < r.end}

lookup_pa(pa) == {r \in rows : r.frame = PageOf(pa)}

-----------------------------------------------------------------------------
(* select_targets.                                                         *)

Before(x, y) ==
  \E i \in DOMAIN x : x[i] < y[i] /\ \A j \in 1 .. i - 1 : x[j] = y[j]

Least(S, Key(_)) == CHOOSE r \in S : \A s \in S : s = r \/ Before(Key(r), Key(s))

Rank(b) == IF b THEN 0 ELSE 1

\* The sort is stable over rows that are sorted by page and start.
BindingKey(r) ==
  <<Rank(r.linked), Rank(r.label = "TENSOR:data"), r.frame, r.page, r.start>>
InternalKey(r) == <<Rank(r.linked), -r.size, r.frame, r.page, r.start>>

IsBinding(label) == label \in {"TENSOR:data", "TENSOR:prob", "TENSOR:index"}
BindingRows == {r \in rows : IsBinding(r.label)}
InternalRows == {r \in rows : r.label = "TENSORRT_INTERNAL_UNKNOWN"}

\* Mutant: the offset is counted from the first resident byte of the page.
TargetInPage(r, id, bit) ==
  LET byte_offset == ((r.start + r.end) \div 2) - r.start IN
  [target_id |-> id, id |-> r.id, offset |-> byte_offset, bit |-> bit,
   va |-> r.base + byte_offset, frame |-> r.frame,
   in_page |-> (r.start + r.end) \div 2]

\* The midpoint of the resident range, with the chain that led to it.
build_target(r, id, bit) ==
  LET off_in_page == (r.start + r.end) \div 2
      byte_offset == r.page + off_in_page - r.base IN
  [target_id |-> id, id |-> r.id, offset |-> byte_offset, bit |-> bit,
   va |-> r.base + byte_offset, frame |-> r.frame, in_page |-> off_in_page]

select_targets ==
  <<build_target(Least(BindingRows, BindingKey), "t1-binding", BindingBit),
    build_target(Least(InternalRows, InternalKey), "t2-internal", InternalBit)>>

-----------------------------------------------------------------------------
\* The tensor of a binding: contiguous, in an allocation of its own.
make_descriptor(a) ==
  [name |-> a.label, shape |-> a.shape, strides |-> <<>>, dtype |-> a.dtype,
   base |-> a.base, size |-> a.size]

\* Each binding enters the tensor map after its buffer is registered.
BindTensors(allocs) ==
  FoldLeft(LAMBDA ts, a : CHOOSE x \in add_tensor(ts, make_descriptor(a)) : TRUE, <<>>,
           SelectSeq(allocs, LAMBDA a : IsBinding(a.label)))

\* add_tensor took every binding of a run: the tensors lie in the allocations
\* that bear their names, and apart from each other.
ASSUME BindAssumption ==
  \A r \in Runs :
    LET bound == ToSet(BindTensors(r.allocs)) IN
    \A t \in bound :
      /\ t.base \in Nat /\ t.dtype \in {"uint8", "int8", "float32", "int32"}
      /\ tensor_element_count(t) \in Nat
      /\ \A u \in bound : u = t \/ TensorEnd(u) <= t.base \/ TensorEnd(t) <= u.base
      /\ \A a \in load_allocations(r.allocs) : a.label = t.name =>
           a.base = t.base /\ tensor_required_bytes(t) <= a.size

\* The runner has bound its tensors and run the clean inference.
Init ==
  /\ run \in Runs
  /\ registry = run.allocs
  /\ tensors = BindTensors(run.allocs)
  /\ pc = "clean"
  /\ gate_copy = <<>> /\ rows = {} /\ work = <<>> /\ byScript = FALSE
  /\ next = 1 /\ records = <<>> /\ rewritten = 0
  /\ mem = [x \in PhysicalBytes |-> {}]
  /\ outcome = "none" /\ trouble = "no" /\ thrown = "no" /\ verdict = "none"

Throw(why) == thrown' = why /\ pc' = "thrown"

\* flip_device_bit: XOR of one bit of the byte at a virtual address.
flip_device_bit(va, bit) == [mem EXCEPT ![Physical(va)] = Xor(@, {bit})]

\* cudaMemcpy of a whole allocation, from memory m.
Content(m, a) == [x \in Bytes(a) |-> m[Physical(x)]]

\* Only the byte at va differs between two contents, by the mask.
GuardHolds(old, new, va, bit) == new = [old EXCEPT ![va] = Xor(@, {bit})]

Descriptors(id) == {a \in ToSet(registry) : a.id = id /\ a.active}

Outcomes == {"BENIGN", "SDC_TOP1", "SDC_NUMERIC", "DUE_INVALID_OUTPUT"}

\* What a run with unchanged memory computes is what the clean run computed;
\* run_inference throws if the output is not finite or not a class.
OutcomesOf(m) == IF \A x \in DOMAIN m : m[x] = {} THEN {"BENIGN"} ELSE Outcomes

\* The result and the registry are the last that the runner writes.
WriteResults ==
  IF trouble = "disk" THEN Throw("file") ELSE pc' = "written" /\ UNCHANGED thrown

\* Without a work file the runner flips one bit of one element of its input and
\* demands that both maps find it again.  The inference on the flipped input,
\* and the files after it, have no handler of their own.
ValidateMaps(element, bit) ==
  /\ pc = "clean" /\ CudaWorks
  /\ \E a \in ToSet(registry) :
     \E mapped \in tensor_bit_to_gpu_va(tensors, "TENSOR:data", element, bit) :
       LET va == a.base + mapped.byte_offset IN
       /\ a.active /\ a.label = "TENSOR:data"
       /\ mem' = flip_device_bit(va, mapped.bit_in_byte)
       /\ IF /\ va = mapped.va
             /\ GuardHolds(Content(mem, a), Content(mem', a), va, mapped.bit_in_byte)
             /\ gpu_va_to_tensor_bit(tensors, va, mapped.bit_in_byte) = {mapped}
             /\ gpu_va_to_allocation_bit(registry, a.device, va) =
                  {[id |-> a.id, offset |-> mapped.byte_offset]}
             /\ allocation_bit_to_gpu_va(registry, a.id, mapped.byte_offset) = {va}
          THEN \E injected \in OutcomesOf(mem') :
                 IF injected = "DUE_INVALID_OUTPUT" THEN Throw("output")
                                                    ELSE WriteResults
          ELSE Throw("validation")
  /\ UNCHANGED <<run, registry, tensors, gate_copy, rows, work, byScript, next,
                 rewritten, records, outcome, trouble, verdict>>

\* With one it writes its registry and waits for the release file.
WriteGateRegistry ==
  /\ pc = "clean"
  /\ IF trouble = "disk" THEN Throw("file") /\ UNCHANGED gate_copy
     ELSE gate_copy' = registry /\ pc' = "gate" /\ UNCHANGED thrown
  /\ UNCHANGED <<run, registry, tensors, rows, work, byScript, next, rewritten,
                 records, mem, outcome, trouble, verdict>>

\* wait_for_file has a deadline, and the script, if there is one, finds the
\* runner gone.
ReleaseTimesOut ==
  /\ pc \in {"gate", "snapshot"}
  /\ Throw("timeout")
  /\ byScript' \in IF pc = "snapshot" THEN {TRUE} ELSE BOOLEAN
  /\ UNCHANGED <<run, registry, tensors, gate_copy, rows, work, next, rewritten,
                 records, mem, outcome, trouble, verdict>>

\* run_build: a refused snapshot writes nothing, and ends the run.
BuildSnapshot ==
  LET allocs == load_allocations(gate_copy) IN
  /\ pc = "gate"
  /\ IF MapLoads(allocs) /\ Joinable(allocs)
     THEN rows' = build_rows(allocs) /\ pc' = "snapshot" /\ UNCHANGED verdict
     ELSE verdict' = "REFUSED" /\ pc' = "ended" /\ UNCHANGED rows
  /\ UNCHANGED <<run, registry, tensors, gate_copy, work, byScript, next,
                 rewritten, records, mem, outcome, trouble, thrown>>

\* The work file, then the release; SelectionError ends the run.
SelectTargets ==
  /\ pc = "snapshot"
  /\ byScript' = TRUE
  /\ IF BindingRows # {} /\ InternalRows # {}
     THEN work' = select_targets /\ pc' = "released" /\ UNCHANGED verdict
     ELSE verdict' = "REFUSED" /\ pc' = "ended" /\ UNCHANGED work
  /\ UNCHANGED <<run, registry, tensors, gate_copy, rows, next, rewritten,
                 records, mem, outcome, trouble, thrown>>

\* A work file by hand, with no script around the runner.
WorkByHand(w) ==
  /\ pc = "gate"
  /\ work' = w
  /\ pc' = "released"
  /\ UNCHANGED <<run, registry, tensors, gate_copy, rows, byScript, next,
                 rewritten, records, mem, outcome, trouble, thrown, verdict>>

\* read_injection_work.
WorkReads == work # <<>> /\ \A i \in DOMAIN work : work[i].bit <= 7 /\ work[i].va # 0

\* Every target resolves in the live registry to the address the file expects.
Resolves ==
  \A i \in DOMAIN work :
    allocation_bit_to_gpu_va(registry, work[i].id, work[i].offset) = {work[i].va}

PreFlight ==
  /\ pc = "released"
  /\ IF trouble = "disk" THEN Throw("file")
     ELSE IF WorkReads /\ Resolves THEN pc' = "flip" /\ UNCHANGED thrown
     ELSE Throw("refused")
  /\ UNCHANGED <<run, registry, tensors, gate_copy, rows, work, byScript, next,
                 rewritten, records, mem, outcome, trouble, verdict>>

G4TargetRecord(t, a, flipped) ==
  [target |-> t, before_full |-> Content(mem, a),
   before |-> mem[Physical(a.base + t.offset)],
   after |-> flipped[Physical(a.base + t.offset)]]

\* One target: save the whole allocation, flip, verify every byte of it, and
\* ask the registry for the way back.
FlipTarget ==
  /\ pc = "flip" /\ next <= Len(work) /\ CudaWorks
  /\ LET t == work[next] IN
     \E a \in Descriptors(t.id) :
       /\ mem' = flip_device_bit(a.base + t.offset, t.bit)
       /\ records' = Append(records, G4TargetRecord(t, a, mem'))
       /\ IF /\ a.base + t.offset = t.va
             /\ GuardHolds(Content(mem, a), Content(mem', a), t.va, t.bit)
             /\ gpu_va_to_allocation_bit(registry, a.device, t.va) =
                  {[id |-> t.id, offset |-> t.offset]}
          THEN next' = next + 1 /\ UNCHANGED <<pc, thrown>>
          ELSE Throw("target") /\ UNCHANGED next
  /\ UNCHANGED <<run, registry, tensors, gate_copy, rows, work, byScript,
                 rewritten, outcome, trouble, verdict>>

AllFlipped ==
  /\ pc = "flip" /\ next > Len(work)
  /\ pc' = "infer"
  /\ UNCHANGED <<run, registry, tensors, gate_copy, rows, work, byScript, next,
                 rewritten, records, mem, outcome, trouble, thrown, verdict>>

EngineBytes == UNION {Bytes(a) : a \in {b \in ToSet(registry) : b.active /\ b.written}}

\* The inference with the faults held: the engine may write what it computes
\* into allocations of its own and into the outputs, and may allocate.  Every
\* exception counts as an invalid output, which is an outcome and not an error,
\* a failed CUDA call too.
InjectedInference ==
  /\ pc = "infer"
  /\ outcome' \in IF CudaWorks THEN OutcomesOf(mem) ELSE {"DUE_INVALID_OUTPUT"}
  /\ trouble' = IF trouble = "call" THEN "no" ELSE trouble
  /\ \/ UNCHANGED <<mem, registry, rewritten>>
     \/ \E va \in EngineBytes, value \in EngineValues :
          /\ mem' = [mem EXCEPT ![Physical(va)] = value]
          /\ rewritten' = va
          /\ UNCHANGED registry
     \/ /\ registry' = add_allocation(registry, run.late)
        /\ UNCHANGED <<mem, rewritten>>
  /\ next' = Len(records)
  /\ pc' = "restore"
  /\ UNCHANGED <<run, tensors, gate_copy, rows, work, byScript, records, thrown,
                 verdict>>

\* Mutant: the first target first.
ToRestoreForward == Len(records) + 1 - next

\* rbegin() to rend(): a later snapshot holds the flips of earlier targets.
ToRestore == next

\* Mutant: the target's own byte only.
RestoredByte(r, a, m) == m[Physical(a.base + r.target.offset)] = r.before

Restored(r, a, m) ==
  /\ m[Physical(a.base + r.target.offset)] = r.before
  /\ Content(m, a) = r.before_full

RestoreTarget ==
  /\ pc = "restore" /\ next >= 1 /\ CudaWorks
  /\ LET r == records[ToRestore] IN
     \E a \in Descriptors(r.target.id) :
       /\ mem' = flip_device_bit(a.base + r.target.offset, r.target.bit)
       /\ IF Restored(r, a, mem') THEN next' = next - 1 /\ UNCHANGED <<pc, thrown>>
                                  ELSE Throw("restore") /\ UNCHANGED next
  /\ UNCHANGED <<run, registry, tensors, gate_copy, rows, work, byScript,
                 rewritten, records, outcome, trouble, verdict>>

\* The inference after the restore must repeat the clean output.
SanityInference ==
  /\ pc = "restore" /\ next = 0 /\ CudaWorks
  /\ \E again \in OutcomesOf(mem) :
       IF again = "BENIGN" THEN WriteResults ELSE Throw("sanity")
  /\ UNCHANGED <<run, registry, tensors, gate_copy, rows, work, byScript, next,
                 rewritten, records, mem, outcome, trouble, verdict>>

\* The target that the runner is about to flip, or to flip back.
Aimed ==
  IF pc = "flip" THEN {work[next]}
  ELSE IF pc = "restore" /\ next >= 1 THEN {records[ToRestore].target}
  ELSE {}

\* check_cuda: where no handler is near, a failed call ends the runner, before
\* or after the flip of the step.
CudaThrows ==
  /\ ~CudaWorks
  /\ pc \in {"clean", "restore"} \/ (pc = "flip" /\ next <= Len(work))
  /\ \/ UNCHANGED mem
     \/ \E t \in Aimed : \E a \in Descriptors(t.id) :
          mem' = flip_device_bit(a.base + t.offset, t.bit)
  /\ Throw("cuda")
  /\ UNCHANGED <<run, registry, tensors, gate_copy, rows, work, byScript, next,
                 rewritten, records, outcome, trouble, verdict>>

\* What fails around the runner, at any time while it runs.
Fails(what) ==
  /\ trouble = "no" /\ pc \notin {"written", "thrown", "ended"}
  /\ trouble' = what
  /\ UNCHANGED <<run, pc, registry, tensors, gate_copy, rows, work, byScript, next,
                 rewritten, records, mem, outcome, thrown, verdict>>

\* verify_result_rows and cross_check_target_events on the rows and events of
\* the records; the flags are set or the runner would have thrown.
verify_result_rows ==
  /\ Len(records) = Len(work)
  /\ Cardinality({r.target.target_id : r \in ToSet(records)}) = Len(records)
  /\ \A i \in DOMAIN work :
       /\ records[i].target = work[i]
       /\ records[i].after = Xor(records[i].before, {work[i].bit})
  /\ outcome \in Outcomes

JudgeRun ==
  /\ byScript /\ verdict = "none" /\ pc \in {"written", "thrown"}
  /\ verdict' = CASE pc = "thrown" -> "RAISED"
                  [] verify_result_rows /\ registry = gate_copy -> "VERIFIED"
                  [] OTHER -> "FAIL_CLOSED"
  /\ UNCHANGED <<run, pc, registry, tensors, gate_copy, rows, work, byScript,
                 next, rewritten, records, mem, outcome, trouble, thrown>>

Next ==
  \/ \E element \in 0 .. 1, bit \in 0 .. 31 : ValidateMaps(element, bit)
  \/ WriteGateRegistry
  \/ ReleaseTimesOut
  \/ BuildSnapshot
  \/ SelectTargets
  \/ \E w \in HandWorks : WorkByHand(w)
  \/ PreFlight
  \/ FlipTarget
  \/ AllFlipped
  \/ InjectedInference
  \/ RestoreTarget
  \/ SanityInference
  \/ CudaThrows
  \/ \E what \in Troubles : Fails(what)
  \/ JudgeRun

Spec == Init /\ [][Next]_vars

-----------------------------------------------------------------------------
Resident == UNION {Bytes(a) : a \in load_allocations(gate_copy)}

\* A snapshot that was written answers for every byte of every active
\* allocation with exactly one row, and no two of these bytes are the same
\* physical byte, so that a physical address leads back to one allocation byte
\* (lookup_va and lookup_pa of build_snapshot.py).
SnapshotIsBijection ==
  rows # {} =>
    /\ \A va \in Resident :
         \E r \in rows :
           /\ lookup_va(va) = {r}
           /\ r.frame + (va - r.page) = Physical(va)
           /\ r \in lookup_pa(Physical(va))
    /\ \A x, y \in Resident : Physical(x) = Physical(y) => x = y

\* Where the chain says that a target's byte is.
PlaceOf(t) == IF byScript THEN t.frame + t.in_page ELSE Physical(t.va)

\* What the engine computes on differs from clean memory by the bits of the work
\* file at the physical bytes that its chain names, and by nothing else; a work
\* file that is refused or never comes has changed nothing.
InjectedExactly ==
  /\ pc = "infer" =>
       \A x \in PhysicalBytes :
         mem[x] = {b \in 0..7 : Cardinality({i \in DOMAIN work :
                     PlaceOf(work[i]) = x /\ work[i].bit = b}) % 2 = 1}
  /\ thrown \in {"refused", "timeout"} \/ verdict = "REFUSED" => \A x \in PhysicalBytes : mem[x] = {}

\* A runner that reports its targets has given every byte of their allocations
\* its clean value back, also where the engine wrote; and the outcome that it
\* reports is not that of a device which was lost in the injected inference,
\* although the handler there calls every error an outcome of the faults.
PassMeansRestored ==
  pc = "written" =>
    /\ \A i \in DOMAIN records : \A a \in Descriptors(records[i].target.id) :
         \A va \in Bytes(a) : mem[Physical(va)] = {}
    /\ trouble # "sticky"

\* What an error of the runner tells.  Its checks of memory fail only if the
\* engine wrote under a held fault or the page table maps two bytes of an
\* allocation to one, never because a CUDA call failed, not even one whose error
\* the injected inference swallowed; and a work file of the script's own choice
\* is never refused.  So if no CUDA call and no file fails around the runner of a
\* script, or only that call, the two causes and a release that comes too late
\* are the only ones.  The script fails a run that passed only if the engine
\* allocated.
AliasedAllocation ==
  \E a \in load_allocations(registry) : \E x, y \in Bytes(a) :
    x # y /\ Physical(x) = Physical(y)

ThrowsForAReason ==
  /\ thrown \in {"restore", "sanity"} => rewritten # 0 \/ AliasedAllocation
  /\ thrown \in {"validation", "target"} => AliasedAllocation
  /\ thrown = "refused" => ~byScript
  /\ thrown \notin {"no", "timeout"} /\ byScript /\ trouble = "no" =>
       rewritten # 0 \/ AliasedAllocation
  /\ verdict = "FAIL_CLOSED" => Len(registry) > Len(gate_copy)
=============================================================================
