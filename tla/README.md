# A TLA+ model of the GPU_M2D fault-injection campaign

GPU_M2D injects bit flips into the device memory of a TensorRT inference
engine: DRAM faults at physical addresses that are traced back to allocations,
and cache faults that live for a few images only. A *campaign level* runs many
*trials*; a trial flips its sites, evaluates a whole image set with the faults
held, restores every bit, and must end on clean memory. A flip in TensorRT's own
state may kill the runner process, so an orchestrator restarts it and merges
what every process left behind. Before that, probes observe the GPU's page
table and measure which physical addresses share a DRAM bank and row; the
sampler draws fault patterns from that table.

This directory models the parts where a mistake would silently corrupt results:
memory bookkeeping, flips and their removal, the restart protocol, what is
observed of the page table, and how timing readings become a memory map.

## Components of the system

| component | state | operations | talks to |
|---|---|---|---|
| Allocation registry (`src/semantic/allocation_registry.cpp`) | vector of descriptors, one mutex | add, deactivate, bit -> VA, VA -> bit | called by allocator, buffers, injection code |
| TensorRT allocator, device buffers (`apps/resnet50_int8_g1_5.cpp` 248-439) | records, id counter, mutex; pointers | allocate/deallocate callbacks on any TensorRT thread; constructor/release on main | registry, CUDA, event stream |
| Bit injector (`src/injector/device_bit_injector.cu`) | none | XOR one bit, read before and after | device memory |
| Campaign trial loop (`apps/...` 1739-2232, 2983-3674) | pristine copies, cache flip state, result streams | flip, stage, apply, infer, remove, restore, check, flush | device memory, engine, event stream, files |
| Host image cache (`apps/...` 1233-1462, 2741-2769) | a directory of files and temporaries, shared by all runners; key and staged input of each | name a file by its key, load and verify, or preprocess and store by a rename | runners of all levels and restarts, the sample CSV, the image files |
| Injection mode of the runner (`apps/...`, "G4-T2") | work file, records of flipped targets | validate, flip, infer, restore in reverse, report | registry, tensor map, gate files |
| Tensor mapping (`src/semantic/tensor_mapping.cpp`) | vector of tensors | element bit <-> VA | validation pass, snapshot |
| Level orchestrator (`tools/g5_faultinj/run_g5_campaign.py`) | segment list, counters, gate files | wait for an idle GPU, launch, gate, sample, release, drain, analyse death, verify, merge | runner through pipe and files |
| Row verification (same file, 232-656) | none | re-check every row of a segment | result files |
| Cache model (`tools/g8_cache/cache_model.py`, `residency_map.py`) | residency periods | sample cache sites, verify the work | orchestrator |
| Residency map builder, L2 probe (`src/semantic/residency_map.cpp`, `src/injector/l2_probe.cu`) | open periods per unit | observe, finish | runner's probe pass |
| G2 observer (`tools/g2_observer/g2_observer.py`, `va_pa_lookup.py`) | rows of the page table | correlate kernel events, build the ledger, look up | every gated script |
| G2, G3, G4 scripts and their CUDA children | gates, deadlines, verdict | launch, gate, observe, judge, clean up | observer, child, driver |
| G3 pool and plans (`tools/g3_probe/g3_pool.py`, `g3_pool_harness.cu`) | pages behind chunks, work list | lay out the sections of six modes, time every pair | analyzers |
| G3 analyzers (`analyze_*.py`) | none | classes, banks, components, predictions from a result | published constraints |
| G3 bank table (`build_bank_table.py`, `query_table.py`, `validate_table.py`) | edges, classes of pages, banks and rows | merge runs, vote, join, answer, gate, predict | snapshot, DRAM sampler |
| G3 mapping fit (`solve_mapping.py`) | two families of functionals | solve, alternate, score | - |
| DRAM fault model (`fault_model.py`) | reserved bits, placed events | index what is resident, place singles, pairs, triples | orchestrator |
| G4 snapshot (`tools/g4_dualaddr/build_snapshot.py`) | joined map | join allocations, pages and table; look up both ways | injection |
| G7 workloads, G8 scripts, G9 precision, plots | files | offline steps | - |

The runner and the orchestrator are two processes. They meet through three
channels: gate files (the runner polls for them), the runner's output pipe
(markers and `GPU_M2D_EVENT` lines), and the result files of the segment's
directory. Inside the runner, TensorRT calls the allocator back from threads of
its own while the main thread creates and destroys buffers. The probe scripts
add a fourth channel: the kernel's perf buffer, which may drop rows.

What is hard here, and where the properties aim (line by line under `hazards`
in PROJECT.json):

- allocator callbacks interleave with `cudaMalloc`, which recycles a range as
  soon as `cudaFree` returned, while the registry is updated a moment later;
- cache flips overlap in one byte, live across images that are staged again, are
  cut short by an invalid output, and may be overwritten by the engine;
- the orchestrator re-verifies rows in an order it rebuilds from the rows alone;
- the runner dies anywhere, in particular between the event that reports a trial
  and the flush of its rows; a deadline races a late `PASS` line;
- restarts renumber trials, and the merge must place every slot once;
- a store into the image cache dies half way or meets another runner's, and two
  keys may share a file name;
- a co-tenant comes and goes between the two looks at the GPU;
- rows of the page table get lost, ranges move under a probe, a child hangs;
- registry, page table, snapshot and process state are copies of one another
  taken at different times;
- orchestrator, harness and analyzer each know a plan's layout by themselves;
- one noisy reading, a drift or a slow page must not turn a verdict false;
- several runs read the same pair differently, over pools that only overlap;
- an event that cannot be placed gives back exactly what it had reserved.

## Modules

| module | models | variables correspond to |
|---|---|---|
| `AllocationRegistry` | the registry as pure operators on a sequence of descriptors | `allocations_` is the argument `reg` |
| `TrackingAllocator` | allocator callbacks, `DeviceBuffer`, teardown, CUDA and TensorRT as environment | `registry`, `records`, `next_id`, `mutex` are the members; `pc`, `memory`, `aid` the locals of a thread; `bpc`, `bmem` a buffer; `ledger` what the event stream shows |
| `TensorMapping` | `add_tensor` and the two directions of the tensor map, on top of the registry | `tensors_` is the argument `tensors` |
| `CampaignTrial` | the trial loop on device memory | `memory` is the device; `records`, `cache_active`, `cache_bytes` the locals of the same names; `visited` the loop cursor of `remove_cache` |
| `ImageCache` | `image_cache_key`, `load_image_cache`, `store_image_cache` and the staging of the input | `files`, `temps` are the directory; `csv`, `version` what people edit; `key`, `fd`, `input` the locals of a runner |
| `CacheReplay` | `verify_cache_rows` and `replay_cache_bytes` on the rows of `CampaignTrial` | the fold's accumulator is the dictionary `state` |
| `LevelSlots` | abstract: what a level promises about its slots | `slot`, `level` |
| `CampaignLevel` | `run_once`, `execute_segment`, `merge_campaign_outputs` composed with the runner as a process | `opc`, `rpc` are the two control points; `gate`, `work`, `release` the files; `output`, `markers` the pipe; `rows`, `cache_rows` the result files |
| `IdleLevel` | `wait_for_idle_gpu`, `residency_idle_failures` and `audit_idle.py` around `CampaignLevel`, with co-tenants | `foreign` and `at_start` are `nvidia-smi`'s answers; `lost` what the running segment's map is short of the surface; `losses` the same in the summary |
| `MarkerScan` | `drain_until_marker` and `drain_pipe`, the reader of the runner's pipe | `output` is the pipe, `captured` how much of it was read, `found` the local |
| `L2Units` | how the probe cuts ranges into cache units, pure operators | a layout is the sorted sequence of ranges |
| `ResidencyMap` | `run_l2_probe_pass`, `L2Prober::probe`, `ResidencyMapBuilder`, and the checks of `load_map` | `device` and `latency` are the two latency arrays; `open_start`, `last_seen`, `closed`, `offsets`, `periods` the builder's members; `seen` is history: what the loads found |
| `CacheSampler` | `sample_trial`, `verify_cache_work`, `read_cache_work`, on top of `ResidencyMap` | `sites` is the work of a trial |
| `ProbeLedger` | what a script concludes from observer rows: ledger, samples, map, lookups; pure operators | a row is MAP, FREE, HEADER or ENTRY |
| `GatedProbe` | the five gated scripts composed with child, driver, perf buffer and pipe | `at` is the script's next step, `child` and its step the process, `gate`, `release` the files, `verdict` the exit |
| `DualAddress` | snapshot, choice of targets, injection mode of the runner, validation pass, judgement of the script | `mem` is physical memory as its difference from clean; `rows` the snapshot; `records` the runner's G4 records; `trouble` what fails around it |
| `DramTiming` | external memory: bank, row and latency of an address; how one reading is classified | `gpu` holds the hidden functions |
| `PoolPages`, `ProbePlans` | `PoolMap` and the plans of all work modes of `g3_pool.py` | a plan is the sequence of queries of `work.csv` |
| `ProbeAnalysis` | plan, harness, and the analyzers of five modes | `pages`, `selection`, `plan`, `result` are the files; `report` what the analyzer claims |
| `ProbeRelabel` | `analyze_three_band.py` and `analyze_local_recal.py` over a published scan | the same |
| `BankTable` | merge of runs and legacy probes, votes, classes, components, relations, gates and predictions | `runs` is `--t1`, `table` the written table |
| `DramFaults` | `ResidencyIndex`, candidates, legs and rollback of `fault_model.py`, over a `BankTable` | `used` is the set of reserved bits, `attempt` the event under way, `placed` the trial |
| `MappingFit` | `solve_family` and the alternation of `run_fit` | `theta`, `rho` are the families, `best` the kept fit, `seen` the cycle detection |
| `TrackingAllocatorProofs`, `CampaignTrialProofs`, `ImageCacheProofs`, `CampaignLevelProofs`, `ProbeProofs`, `DualAddressProofs`, `CacheSamplerProofs`, `DramFaultsProofs` | theorems; `ProbeProofs` is about `GatedProbe` and `MarkerScan`, `CampaignLevelProofs` about `IdleLevel` too, `CacheSamplerProofs` about `ResidencyMap`, `DramFaultsProofs` about `BankTable` | |
| `MC*` | small instances for TLC | |

Composition: `CacheReplay` judges the rows `CampaignTrial` writes, `CacheSampler`
draws from the maps `ResidencyMap` writes, `IdleLevel` wraps `CampaignLevel`,
`DualAddress` stands on `TensorMapping` and `AllocationRegistry`, `GatedProbe` on
`ProbeLedger`; `DramTiming` - `PoolPages` - `ProbePlans` carry both
`ProbeAnalysis` - `ProbeRelabel` and `BankTable` - `DramFaults`.

### Abstractions

- Every registry call holds the registry's own mutex, so it is one atomic step.
  The allocator's critical sections are not atomic: `deallocate` is four steps
  with `mutex` held, because `cudaMalloc`, the registry and the main thread do
  not take that mutex.
- A byte is the set of its one bits, XOR the symmetric difference. In
  `CampaignTrial` one byte stands for those of an allocation that faults hit:
  bytes without a common fault do not interact in the code. The loaded weights
  are the origin, so "clean" is the empty set.
- The engine is external. An inference rewrites all outputs, may rewrite scratch
  with any value, never writes weights or the input, and may fail.
- In `ImageCache` a blob is a sequence of chunks, each named by what it was computed
  from, SHA-256 tells any two inputs apart, and an open file is a value, since no
  file is written again once it has its name.
- In `CampaignLevel` a result row is the trial number it carries, and a captured
  output is the sequence of its trial events plus the set of other markers. The
  row contents are the subject of `CacheReplay`, the search for a marker in the
  bytes of the pipe is that of `MarkerScan`.
- In `ResidencyMap` a latency is whether it is below the threshold; every load may
  hit or miss, so nothing is assumed of the cache or of the probes' own effect on
  it. In `CacheSampler` a random draw is a choice among the draws of positive
  probability, and the checks on statistics, hashes and addresses may fail at
  will.
- `GatedProbe` counts addresses in half pages. The scripts and children differ in
  their order of steps, which is data: `ScriptOf(mode)`, `ChildOf(mode)`. The
  kernel programs are the environment: each driver call yields rows, of which the
  ring may drop some.
- In `DramTiming` the bank of an address is the parity of some in-page bits plus a
  seed per page and the row a set of bits; pages may differ in their hash. A
  reading is exact except for what `Worlds` and the disturbances allow. Nothing
  an analyzer concludes is assumed.
- Random draws, shuffles and seeds are choices, also in `ProbePlans`, `DramFaults`
  and in the holdout split of `MappingFit`. The statistics of reports are left
  out unless a verdict depends on them.
- The classification of an output (benign, SDC) changes no later step and is not
  modelled; whether it is *valid* is.

## Runs

| run | question | bounds |
|---|---|---|
| `MCTrackingAllocator` | do registry, records, CUDA and event stream agree in every interleaving? | 3 addresses, sizes 1 and 2, 2 threads, a binding and the probe buffer, `MaxAllocs` = 2 ids |
| `MCCampaignTrial` | exposure, removal, restore and replay | 2 bits, 3 images, a weight, the input and a byte the engine rewrites, up to 2 DRAM and 2 cache sites, at most `MaxFaults` = 3 together |
| `MCIdleLevel` | slots, merge, restart budget, process hygiene, refinement, idle rule, termination | 3 trials, 2 sites, 2 images, restart slack 1; with the idle rule on a surface that fits the L2, on one between the two limits and without cache faults, and without the rule |
| `MCCacheSampler` | is the written map what the loads found and accepted by its reader; are drawn sites resident and accepted? | 13 layouts of ranges of 1 to 3 bytes in units of 2, 5 images with a sweep at every 2nd, strides 1 and 2, one or two passes, up to 3 sites, 2 redraws |
| `MCMarkerScan` | does the incremental search of the pipe find what a full one would? | marker of 2 of 3 symbols, chunks of 2, 6 bytes written |
| `MCGatedProbe` | is a published map the page table, does every failure have a cause, does every script end? | all 5 scripts, up to 3 pages on 4 frames, 4 drivers (whole, halved, partial queries; a pipe of 2 events), up to 2 faults |
| `MCDualAddress` | do snapshot, targets, flips, engine writes and restore agree? | 3 pages of 8 bytes, every page table over 4 frames, 3 sets of allocations, pages seen badly, 8 hand-written work files, one CUDA call, the whole context or the disk failing at any step |
| `MCProbeAnalysis` | are the claims true and own plans accepted? | 4 pages of 8 units, 24 memories, 3 chunk layouts, one row off by 6 or 8 cycles, a drift of 3, 6 modes and 2 relabelings |
| `MCBankTable` | are answers sound, misreads outvoted, gates right, fault sites apart? | 4 pages of 8 units, 3 memories, up to 3 runs over 3 pools of which two share no page, up to 2 misreads with one bank and 1 with two; trials of 3 and 5 bits, 2 attempts |
| `MCImageCache` | does a name ever stand for a torn or a foreign file, and is a cached input what preprocessing would give? | 2 runners, 2 settings, 2 sample lists, one file name for all keys, 2 pids, 2 chunks, edits of the CSV, the images and the binary, `MaxVersion` = 1 |
| `MCPredict` (violated) | does a chain of deep links force two row classes apart? | fresh runs over one bank |
| `MCFitHole` (violated) | do the residuals measure what the families misclassify when a separator repeats a column? | one scan of 8 pairs, a pool of 256 as in the code |

What the properties say is in the comment above each of them.

Why the bounds are enough for the questions asked. Three addresses with requests of one
and two bytes force `cudaMalloc` to reuse ranges, wholly or in part, while another
thread is giving them back. Two cache sites are what it takes for overlapping lifetimes,
in either order of removal, and three images for a lifetime that neither starts nor ends
with the pass; a flip touches one bit, so two bits show both "the same" and "another"
one; a third fault is one that is neither of two that meet. Three slots allow two
restarts around a completed trial, so that a segment has one before it and one behind
it. A marker of two bytes can be cut by a chunk, and six bytes are three chunks, or a
decoy, a break and a marker. Five images with three sweeps give a unit of stride 1 two
periods with a gap; the ranges start and end at every place of a unit and some share
one; three sites are what it takes to overlap with one that is not the last. Three pages
hold two siblings in one page and one allocation over two pages; a query limit of two
PTEs is passed by a range of three. Two runners and one name make every key a mismatch
for the others and every store a replacement; two chunks can be torn. In
`MCProbeAnalysis` and `MCBankTable` eight units make three in-page bits: one for a row,
one for a hash, one for an anchor that is neither alone; three runs are the least with a
majority, and one of three pools that meets both others is the least that can join what
the other two measured apart.

Bounds that are not in the code: `MaxAllocs`, `MaxDram`, `MaxCache`, `MaxFaults`,
`MaxOutput`, `MaxSites`, `PassChoices`, `Placements`, the `faults` of a driver,
`EngineValues`, `Runs`, `HandWorks`, `Worlds` (with the number of misreads),
`Disturbances`, `Shapes`, `MaxRuns`, `Bits`, `MaxAttempts`, `SampledRuns`, `Scans`,
`MaxVersion`.
`BlockBytes`, `PageSize`, `PageBytes` and the limits of `MappingFit` are the
code's constants, scaled down.

Symmetry is used for threads, for bits, and for the runners, pids, settings and
lists of `MCImageCache`; all are only compared with `=`. The runs with a liveness
property use no symmetry. Deadlock is checked wherever a process waits for
another; `MCDualAddress`, `MCProbeAnalysis`, `MCBankTable`, `MCImageCache` and the
two violated runs are of programs that run to their end and stop, and do not
check it. Type invariants that are proved are not run again. `MappingFit` is
checked by the violated run only.

### What the violated runs show

- `MCPredict`: `predict_pairs` argues that A # B and B # C force A # C. With true
  readings of one bank the table holds two row classes of the same row, each deep
  to a third, and the pair between them is predicted to conflict.
- `MCFitHole`: `sparse_separators.offer` joins the bits of a tuple with OR and
  folds their covers with XOR. A tuple that repeats a column then claims
  negatives it does not fire on, `solve_family` takes them off the remaining ones,
  and the residuals, which are to be "the honest measure", do not show them.

### Seen in the code while modelling

These are true of the code, contradict a comment or are easily overlooked, and
break no property above:

- `query_table.py:34` argues that pages in distinct components are in distinct banks
  and that "Merging runs only unions components, preserving the property"; line 278
  answers NO on that ground. It holds of one run. Two runs over pools without a
  common page compare no page of one pool with a page of the other: with true
  readings and pages of one bank in both pools the merged table has two components,
  and the answer between them is a false NO. `MCBankTable` reaches such tables.
  `AnswersSound` therefore claims the NO only of pages that one run compared with a
  representative of their bank (`ComparedInOneRun`); it claims every other answer of
  any pages.
- If `observer_->allocated` throws after the record is pushed, the catch block of
  `allocate` gives the memory back and leaves the record active
  (`resnet50_int8_g1_5.cpp:302` against 310). CUDA may hand the address out again, and
  then it has two active records; `deallocate` finds the right one only because it
  searches from the back (`HeldIsRegistered`).
- The handler of the injected inference takes every error for an invalid output, so
  a CUDA call that fails there is reported as an outcome of the faults
  (`resnet50_int8_g1_5.cpp:3848`). If the context is lost for good, the restore ends
  the run instead of a report (`PassMeansRestored`).
- A verified level that asked for an idle GPU may still be listed for a RERUN by
  `audit_idle.py`: over the memory in use at the start (149), which no gate looks at;
  over `n_cache` (162), which a loss below the gate's 0.1% can change; over R_eff of a
  surface between the two limits (below). `IdleRunsStand` says that there is no other
  reason.
- The key of the image cache covers the paths and labels of the samples and not what
  the image files hold, and the CSV is read once for the key and once for the
  samples: `StagedAsFresh` speaks of runs during which neither was edited. A runner
  whose binary was replaced after its start cannot read `/proc/self/exe` and ends.
- `drain_until_marker`: its window may start inside a line, so a marker in the
  middle of a line is found if a read ended just behind it
  (`run_g3_pool_probe.py:165` against the comment at 157).
- The L2 probe's output buffer is announced by ALLOCATED and freed without a FREE
  event (`resnet50_int8_g1_5.cpp:3995` against 3980).
- TRIAL_END is written before the trial's rows are flushed (3655 against 2114);
  such a segment is failed closed (`RestartLosesNothing`).
- Images emit no event, so a death at any image of a pass is accepted as one of
  the first inference (`run_g5_campaign.py:698` against 667).
- An engine that rewrites a byte with the value it held is taken for one that did
  not write, and the removal flips what it wrote (`resnet50_int8_g1_5.cpp:3335`).
- The gate limits the idle rule to surfaces of 64 MiB, the audit to 72
  (`run_g5_campaign.py:1183`, `audit_idle.py:157`); without `--require-idle-gpu`
  the co-tenancy snapshot is taken once per level, so the audit's look "per
  restart segment" (`audit_idle.py:6`) covers the first one only.
- A child stuck in the driver makes the second wait of the finally block raise and
  the observer stays open (`run_g2_tensorrt_probe.py:412`); a mapping whose unmap
  was not seen ends the hold check by a TypeError (480).
- The scratch probe records a remap of its access phase and does not judge it
  (`run_g2_scratch_probe.py:178`, 447).
- `add_tensor` refuses a tensor that ends at the top of the address space, which
  the registry takes (`tensor_mapping.cpp:146`).
- `analyze_census.py:211` asks for the section "pilot", which its rows never have.
- Census, table build and prediction check accept any positive calibration
  amplitude, the scans also hold the floor (`analyze_bit_scan.py:61`).
- `analyze_local_recal.py:147` takes the lambda of the lowest-numbered measured page
  of a chunk where its docstring speaks of the chunk's minimum.
- The vote counts every low, also those of earlier probes: one stale low ties a deep
  of a single run into mid, where the comment speaks of contests between runs
  (`build_bank_table.py:172`).
- A tie of the vote is entered as mid, which a decided label of an earlier probe
  replaces (`build_bank_table.py:172`).
- `solve_mapping.py:690` writes `holdout_gate_pass` of a degenerate fit; only the
  printed report flags it (634).

### Fairness

`IdleFairSpec` assumes `WF_all_vars(IdleOrchestrator)` and nothing of the runner or
of co-tenants. Each wait of `execute_segment` either polls the runner or has a
deadline, after which the segment fails closed or is analysed, so the orchestrator
always has and takes a next step. The one wait without a deadline is
`wait_for_idle_gpu`: it polls until no co-tenant is left. `TerminatesOnceIdle`
therefore promises an end for levels without the idle rule in any case, and
for levels with it once co-tenants stay away; that they do is a premise of the
property and not of the specification.

`GatedProbe` assumes `WF_vars(ScriptStep)`: a script's waits have deadlines and
its loops poll. Children, driver and ring have no fairness; a child may hang, also
in the driver where no signal ends it, and `ScriptEnds` still holds.

## Proofs

All theorems hold for every value of the constants that satisfies the named
assumptions. Most of these say that a bound is a natural number, or of what type a
table is: `MaxVaAssumption`, `TrackingAssumption`, `TrialAssumption`,
`CacheAssumption`, `LevelAssumption`, `ModesAssumption`, `MarkerAssumption`,
`DualAssumption`, `UnitAssumption`, `ProbeAssumption`, `SamplerAssumption`,
`TimingAssumption`. Seven say more:

- `RunAssumption`: the registry a snapshot starts from is sound, and the page table
  backs its active ranges with aligned frames. The first half is what
  `RegistryIsSound` proves of any registry the runner can build.
- `HandAssumption`: a work file written by hand has natural offsets and bits, which
  is what `stoull` returns.
- `BindAssumption`: the bound tensors are disjoint and lie in their allocations.
  `add_tensor` refuses anything else; since the tensors are built by a fold, the
  prover has to be told so.
- `PlanAssumption`: offsets and probes of a plan lie inside a page and the anchor is
  one of the candidates. They are literals at the head of `g3_pool.py`.
- `TableAssumption`: representatives and bank pages of a run are among its bases, as
  the planner draws them, and a census lies in the framebuffer. Of the earlier probes it
  gives types only; they may lie anywhere and say anything.
- `FaultAssumption`: an allocation has one base address and a virtual page one
  frame, and snapshot rows start at page boundaries. That is what `SnapshotLeadsBack`
  proves of the snapshots `DualAddress` writes.

TLC evaluates all of them on the instances of the runs.

**Registry** (`TrackingAllocatorProofs`). `AddKeepsRegistry` and
`DeactivateKeepsRegistry` show that the two updates keep ids unique and active
ranges disjoint; `LookupsAreInverse` that these two facts make the lookups
inverse on every active byte (`SharedByte`: two ranges with a common byte
overlap). The inductive invariant `RegistryInv` adds to them the types and that a
thread past `add_allocation` still holds a real range, which is what the record
it pushes is made of. From it follow `TypeCorrect`, `RegistryIsSound` and
`LookupsStayInverse`: no interleaving of threads and buffers breaks the registry,
though none of the callers coordinates with it.

**Ownership** (`TrackingAllocatorProofs`). The other properties relate CUDA, registry,
records and event stream, which are updated one after the other without a common lock.
`OwnershipInv` says at each point of each thread and buffer what it owns: the mutex
(`LockInv`), a mapped span apart from all others (`SpansInv`, `OwnersInv`), an id nobody
else has (`IdsInv`, `EntryIdsInv`), and how the registry and the records show it
(`EntriesInv`, `RecordsInv`, `LedgerInv`). An address may have active records that
failed allocates left behind; what `RecordsInv` keeps is that the last of them, which is
the one `deallocate` picks, belongs to the address's holder. `FreshInv` is the heart: a
new range meets an active entry only while that entry's owner stands between `cudaFree`
and its registry update, and a thread that has taken an id cannot be in that situation,
because both happen under the allocator's mutex. `PhaseInv` is what the main thread
waits for. `HeldStaysRegistered`, `RefusalNeedsWindow` and `LedgerIsSound` follow.

**Trial loop** (`CampaignTrialProofs`). `TrialInv` says which cache sites are applied,
in force and removed at each point of an image (`Lifetimes`), that weights and
input hold exactly these and the DRAM sites of the trial (`DeviceContent`), and
that the byte states of the runner agree with that (`BytesTracked`). The XOR
lemmas (`XorFacts`) make removal in any order the inverse of application. The
three theorems `ChecksHold`, `ExposureIsExact` and `NoTraceLeft` cover overlapping
lifetimes, aborted passes, and every number of bits, images and sites.

`RowsAreAccepted` is about the orchestrator, which sees the rows only when the trial
is over and sorts them by keys of its own. `ReplayInv` keeps the comparison in step
with the runner: a log of the operations done so far, in the order of their keys,
with what the replay holds after each (`Log`), whose last entry agrees with the byte
states of the runner (`Agrees`). `Ordered` is what makes every new operation the last
of that order: sites are applied, stand in `cache_active` and are removed from one
image in the order of start image and index. `ApplyAgrees` and `RemoveAgrees` take
one operation through both sides. At the end the log holds all operations
(`AllDone`), it is their only sorting (`SortedIsLog`, by the ranks of the keys), and
the fold over it is its last entry (`FoldIs`). TLC checked `ReplayInv` on an instance
of `MCCampaignTrial` without DRAM sites before it was proved.

**Image cache** (`ImageCacheProofs`). `CacheInv` follows each chunk to what it was
computed from (`FilesHonest`, `InputMade`), also in temporaries that were left
behind and in files that are open and already replaced. A store in progress is a
prefix of its runner's input (`TempGrows`), and no other runner writes the same
temporary, because living processes have distinct pids (`PidsDiffer`). So the
rename publishes whole files only, and the key in the header keeps the settings
apart even if all keys share one name.

**Restart protocol** (`CampaignLevelProofs`). The safety properties of the
segment loop are not inductive: they relate counters, the segment list and
what was captured from a process. `Inv` strengthens them with: the trial number
never leaves the range of the segment (`TrialInRange`); outside a segment no
runner lives (`Reaped`); while a segment runs it holds exactly the slots still
open (`SegmentHoldsOpenSlots`); an analysed death lies inside the segment
(`DeathInSegment`); every listed segment consumed at least one slot
(`SegmentsConsume`) and together they cover the consumed prefix without overlap
(`SegmentsCover`). `TypeCorrect`, `RestartsAreBounded` and `RunnersAreReaped`
follow, and `RestartImplementsSlots` proves the refinement: `AcceptPass` and
`AcceptDeath` are `RunSegment` of the slot specification, `Merge` is `Verify` or
`Fail`, `Cleanup` is `Fail`, everything else a stutter.

`RestartKeepsEverything` needs more than counters: `Captured` says which prefix of
the full event sequence and of the cache rows is in pipe and files at each step of
the runner, wherever it dies; from the prefix alone the analysis of a death finds
the trial that was under way. `SegmentsTile` says that the accepted segments cover
the consumed slots in order and hold the rows of their completed trials, which is
all that the merge counts.

**Idle rule** (`CampaignLevelProofs`). `IdleLevelIsALevel` shows that the gate and the
co-tenants only restrict or stutter the level, so what is proved of it carries
over (`SharedLevelStaysSafe`). `IdleRuleHolds` rests on `IdleInv`: behind the gate
the residency pass is over (`PassIsOver`, so that a co-tenant that comes later
cannot shrink the map any more); from there on, and in all accepted segments, the
map of a judged surface has its 0.999 (`MapsWhole`); and a level under the rule started
without a co-tenant (`StartsIdle`).

**Pipe reader** (`ProbeProofs`). `WindowHoldsNewLines` is the heart: a line
that starts with the marker and was not visible before the chunk either starts in
the new bytes or at most the marker's length before them, hence inside the window.
`ScanInv` is inductive as it stands, and `NoLineIsMissed` and
`GivingUpIsJustified` follow for every marker, chunk size and output.

**Gated probes** (`ProbeProofs`). `AcceptedMapsAreTrue` covers the five scripts with their
children, every way the driver may answer, and any losses, moves, crashes and hangs.
A map can be wrong only if the rows behind it are not what the page table was at the
snapshot. `Logged` rules that out while no row is lost and no range has moved: the
rows of a range are those of one map call, and the frames of that call are in the
page table until the free call, in the snapshot, in the gate's map and behind the
work. A range that has moved leaves two MAP rows (`Twice`), which every check of the
full log refuses. The scratch probe looks at two phases only and would not notice a
later move, nor need it: `Sampled` follows the rows up to its snapshot. That rows are
complete at the check is a matter of order: `InOrder` relates the two programs step
by step (`ProgramIs`, `ScriptIs`), so that a check meets a child that has ended, a
ring polled after that end, and a loss count that has been read. From there
`LedgerIsTrue`, `AliasIsTrue` and `ScratchIsTrue` take the three kinds of evidence to
the same two facts, every row of the map is true and what is active is covered, and
`LookupsAreTrue` gives the property. TLC checked `GateInv` on the instance of
`MCGatedProbe` before it was proved. The theorem has no premise on the pool, alias or
scratch harness beyond `ProbeAssumption`.

**Injection chain** (`DualAddressProofs`). The join leaves no frame to two pages and
gives every page of an active allocation one row, so the snapshot reads in both
directions (`SnapshotLeadsBack`). Targets may share a byte: after k flips a byte holds
the bits that an odd number of the first k targets name (`FlipsAt`), the record of
target k holds what was there after k - 1 (`RecordsTell`), and since targets are taken
back from the last to the first, the allocations of the targets still to come hold what
their records saved, also where the engine wrote in between (`Back`). The device may be
lost at any step; what the runner then throws touches at most the byte that it aims at.
`DualInv` joins these with the script's copy of the registry. `InjectsWhatWasAsked`,
`ReportedIsRestored` and `NothingThrownInVain` follow.

**Residency map and sampler** (`CacheSamplerProofs`). `ResidencyInv`: sweep j is made
before image j * `Every` over the units of phase j % `stride` (`Scheduled`), the loads
of a unit have distinct images (`Loads`), and its open period with its closed ones
says of every image what the loads it was told of say by the header's rule
(`Right`). `Told` is what makes it inductive: while a sweep is being observed, the
units behind the cursor have not heard of theirs yet. The written map is the
result of a stable sort; that the entries between two offsets are the periods of
that unit (`Indexed`) is proved by counting: as many elements have a smaller rank
as the k-th place has predecessors. `SitesRight` adds that sites are places of the
map and that no two of them hold one cell in one image. From them follow
`MapFollowsLoads`, `ProbedInTime`, `FaultsAreInTheCache` and `TrialsAccepted`.
`MapIsAccepted` needs in addition that the reader's sum over the units comes out as the
bytes of the ranges (`SurfaceIsShared`): a sum over a finite set is the cardinality of
a disjoint union (`SumCounts`, over the recursion of the sum that `SumRecursion` shows
to exist), units and ranges are numbered alike (`RangeOfIs`), every byte of a range is
in the window of just one of its units (`UnitOfByte`), and so the two unions are in
bijection.

**Bank table** (`DramFaultsProofs`). `TableInv` says that a written table is what its
runs merge to and that each run read the pairs of its own plan in order; it is
inductive, and all else is a statement about one table. `VotesAre` says when a vote
decides: of two true votes and a false one the true ones win, and of a contested
pair only the freshest run's vote can remain. `RefusalsAreByContest`,
`MisreadsAreOutvoted` and `GatesBlameOnlyMisreads` follow from it with what the plan
measures (`EdgesAre`): every page of a pool shares a section with every
representative, so no edge of a run leaves its pool. `AnswersAreSound` goes through the
structures: `ClassesRecursion` unfolds the union-find by one edge, and a least
edge that joined two banks would itself be a false one; so banks, rows and
components joined from true edges are banks, rows and components of the memory
(`TrueStructures`), and an answer is read off them. The converse, that pages of one
bank are in one component, holds where a run read both against a representative of
the bank (`ComparedIsLinked`), and nowhere else.

**Fault sampler** (`DramFaultsProofs`). `FlipsNeverMeet` rests on `SitesInv`: the
reserved bits are exactly those of the placed sites and of the event under way, one
bit per site, over every retry that gives an event's bits back; and two physical bits
that differ have different virtual addresses, which is where the snapshot's
alignment is needed. `LabelsAreTrue` rests on `LabelsInv`: each mate was drawn from
an anchor of the base's page. The anchor was measured from the page's first byte,
while the base lies anywhere in the page and the sampler joins the two offsets with
XOR. That this keeps bank and row relation is `MateConflicts`: the bank is the parity
of a set of bits, parities of symmetric differences add (`EvenDifference`), and XOR
of numbers is the symmetric difference of their bits, written back without carries
(`SetBit`, `AddBit`, `FromBitsIs`, `XorIs`). It is proved for any number of address
bits and any hash that is the same over a page.

TLC checked `TableInv`, `PatternInv`, `SitesInv` and `LabelsInv` on the instance of
`MCBankTable` before they were proved. Three properties and the assumptions were
made more exact on the way: `AnswersSound` has the truth of the anchors as a premise,
as it has that of the classes; `RefusedOnlyByContest` has the earlier probe that left
the census as a cause of its own; and the worlds `Lows` and `Strayed` show both.

### Model-checked only

- Liveness: `TerminatesOnceIdle`, `ScriptEnds`. Fairness and `ENABLED` are beyond the
  prover.
- `VerdictsTrue`, `OwnPlanAccepted`: each is about the result of a fold over a whole
  plan whose elements depend on one another, and the library's induction cannot be
  applied to it.
- `FailsForAReason`: the converse of `AcceptedMapIsTrue`, that clean rows pass every
  check of the five scripts. Nothing rules a proof out; it is not written yet.

Where an argument needs a first or a last element, the well-founded minimum of the
library (`WFMin`) or a maximum of a finite set serves, which no operator parameter
stands in the way of. So do the folds of `CampaignTrialProofs`, `CacheSamplerProofs` and
`DramFaultsProofs`: a fold is a recursive function, `CHOOSE`n by its defining equation,
and the smallest set or prefix for which a claim about it fails leads to a
contradiction.

## Not modelled

- Of the level: the bootstrap of a surface, the residency drift guard, the value
  checks of site, trial and image rows, the texts of the summary; the audit's note on
  timing, which gives no reason to run a level again.
- Of the injection: errors of the script's own files, and memory that runs out on the
  host.
- Of the probe pass: the exclusion and truncation of ranges, histograms and image
  times. Of the capability probe: everything, it lists device attributes.
- Of the G2 tools: the bit fields of a PTE (`pte_decoder.py` is one predicate here),
  the aggregation of several maps, bandwidth figures.
- Of the G3 tools: CSV files, `gate_rb`'s statistics, median shifts and rates across
  cards of `gate_rc`, known falsifiers of rows, `analyze_scan.py` and
  `g3_timing_probe.cu` (an earlier generation of the pool probe), and
  `analyze_channel_graph.py`: it prints and decides nothing, and its premise does
  not hold where the bank depends on bits inside the page.
- Of the DRAM fault model: rates, level tables, the statistics of the draws, the
  cut of a list of sites to a count, the annotation of a pool with addresses.
- G7, G9, plots and the offline tables of G8: straight-line file production around
  external tools, or numerics without state.

## Plan

Done: registry and allocator; trial loop and cache replay; host image cache; level, its
abstract specification and the idle rule; pipe reader; residency map and cache sampler;
tensor map, snapshot and injection; the gated scripts; pool, plans, analyzers and
relabelings; bank table, fault sampler and fit. Proved: registry and ownership, trial
loop with the replay of its rows, image cache, restart protocol with its refinement and
the lossless restart, idle rule, pipe reader, gated probes, injection chain, residency
map and sampler, bank table and fault sampler.

Next, in this order:

1. Proofs: `FailsForAReason` of `GatedProbe`, from `GateInv` and the events a child
   without faults prints.
2. The inverse of `TensorMapping`'s two directions as a theorem, from
   `LookupsAreInverse`.
3. The bootstrap mode and the drift guard of the orchestrator; the resume logic of
   the batch scripts of G8.
