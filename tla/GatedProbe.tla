----------------------------- MODULE GatedProbe ------------------------------
(***************************************************************************)
(* One run of a gated probe: a script (run_g2_tensorrt_probe.py,           *)
(* run_g2_alias_probe.py, run_g2_scratch_probe.py, run_g3_pool_probe.py    *)
(* or run_g4_t2_injection.py), the CUDA child it launches, the GPU page    *)
(* table, and the eBPF observer between them (g2_observer.py).             *)
(*                                                                         *)
(* The child waits for a gate file before it touches the GPU, so that the  *)
(* observer sees each of its mappings.  The kernel writes the page table   *)
(* and submits rows to a perf ring that may drop some of them.  The script *)
(* drains the ring, reads the child's events from a pipe, and publishes a  *)
(* map of the addresses only if nothing speaks against it.  Scripts and    *)
(* children differ in their order of steps, which is data here:            *)
(* ScriptOf(mode) and ChildOf(mode).                                       *)
(***************************************************************************)
EXTENDS ProbeLedger, SequencesExt

CONSTANTS
  Modes,          \* which probes run: subset of the five names below
  VideoFrames,    \* framebuffer pages
  NoFrame,        \* an unmapped VA page
  PtesPerQuery,   \* MAX_PTES_PER_QUERY
  Drivers,        \* how queries are answered, where a range begins in its
                  \* physical allocation, the pipe's capacity in events, and
                  \* the faults of the run (a bound: moved ranges, calls of
                  \* which the ring drops rows, a crash, a hang)
  Placements      \* bound: frames that a map call may choose, page by page

AllModes == {"trt", "alias", "scratch", "pool", "t2"}

ASSUME ProbeAssumption ==
  /\ Modes \subseteq AllModes
  /\ PageSize \in Nat \ {0} /\ PtesPerQuery \in Nat \ {0}
  /\ NoFrame \notin VideoFrames \cup SysFrames
  /\ VideoFrames \cap SysFrames = {}
  /\ Drivers \subseteq [how : {"whole", "halves", "partial"}, map_offset : Nat, room : Nat,
                faults : Nat]
  /\ Placements \subseteq Seq(VideoFrames \cup SysFrames)

Frames == VideoFrames \cup SysFrames

\* The mapped ranges and the allocations in them.  Two sibling allocations of
\* the TensorRT child meet inside a page; the one that was freed and inactive
\* at the snapshot is the second.
Ranges(mode, pages) ==
  IF mode = "alias" THEN <<[base |-> 0, len |-> PageSize], [base |-> 4 * PageSize, len |-> PageSize]>>
  ELSE <<[base |-> 0, len |-> pages * PageSize]>>

Allocs(mode, pages) ==
  LET whole(r, active) == [base |-> r.base, size |-> r.len, active |-> active]
      ranges == Ranges(mode, pages)
  IN  IF mode \in {"trt", "t2"}
      THEN {[base |-> 0, size |-> PageSize + 1, active |-> TRUE],
            [base |-> PageSize + 1, size |-> PageSize - 1, active |-> mode = "t2"]}
      ELSE {whole(ranges[i], TRUE) : i \in DOMAIN ranges}

Say(event) == [op |-> "say", arg |-> event]
Await(file) == [op |-> "await", arg |-> file]
MapRange(i) == [op |-> "map", arg |-> i]
UnmapRange(i) == [op |-> "unmap", arg |-> i]
Work == [op |-> "work", arg |-> 0]
Snapshot(event) == [op |-> "snapshot", arg |-> event]
Exit == [op |-> "exit", arg |-> 0]

\* The children, from their gate to their exit.
G15Runner ==
  <<Say("WAIT_PRE_ALLOC_GATE"), Await("gate"), MapRange(1), Say("ALLOCATED"),
    Snapshot("SNAPSHOT_READY"), Say("HOLD_END"), UnmapRange(1),
    Say("FREE"), Say("PROCESS_END"), Exit>>

InjectionRunner ==
  <<Say("WAIT_PRE_ALLOC_GATE"), Await("gate"), MapRange(1), Say("ALLOCATED"),
    Snapshot("INJECTION_GATE_WAIT"), Await("release"), Work,
    Say("INJECTION_WORK_END"), UnmapRange(1), Say("FREE"), Say("PROCESS_END"),
    Exit>>

PoolHarness ==
  <<Say("WAIT_PRE_ALLOC_GATE"), Await("gate"), MapRange(1), Say("ALLOCATED"),
    Snapshot("POOL_READY"), Await("release"), Work, Say("WORK_DONE"),
    UnmapRange(1), Say("FREE"), Say("PROCESS_END"), Exit>>

AliasHarness ==
  <<Say("WAIT_PRE_ALLOC_GATE"), Await("gate"), MapRange(1), MapRange(2),
    Say("ALLOCATED"), Snapshot("ACCESS_END"), Say("FREE_BEGIN"),
    UnmapRange(2), UnmapRange(1), Say("FREE_END"), Exit>>

ScratchHarness ==
  <<Say("WAIT_PRE_ALLOC_GATE"), Await("gate"), Say("ALLOCATION_BEGIN"),
    MapRange(1), Snapshot("ALLOCATED"), Say("ACCESS_END"),
    Say("FREE_BEGIN"), UnmapRange(1), Say("FREE_END"), Exit>>

ChildOf(mode) ==
  CASE mode = "trt" -> G15Runner [] mode = "t2" -> InjectionRunner
    [] mode = "pool" -> PoolHarness [] mode = "alias" -> AliasHarness
    [] mode = "scratch" -> ScratchHarness

\* Mutant: release the child, then find its thread group.
GateFirst == <<"spawn", "open_gate", "await_gate", "target">>

\* The scripts: the body of the try block, then what follows it.
Launch == <<"spawn", "target", "await_gate", "open_gate">>

Finally == <<"terminate", "kill">>

G2Script == Launch \o <<"watch", "settle", "communicate">> \o Finally \o <<"check">>

ReleaseScript ==
  Launch \o <<"await_ready", "settle", "pre_ledger", "write_work", "release",
              "await_pass", "watch", "settle", "communicate", "check">> \o Finally

TrtScript == G2Script
AliasScript == G2Script
ScratchScript == G2Script
PoolScript == ReleaseScript
T2Script == ReleaseScript

ScriptOf(mode) ==
  CASE mode = "trt" -> TrtScript [] mode = "alias" -> AliasScript
    [] mode = "scratch" -> ScratchScript [] mode = "pool" -> PoolScript
    [] mode = "t2" -> T2Script

VARIABLES
  mode, pages,     \* which probe this is and how large its first range
  driver,          \* the member of Drivers that this run meets
  at,              \* the script's next step, an index of ScriptOf(mode)
  verdict,         \* "none", "passed", "unresolved", "fail_closed" or "raised"
  gate, release,   \* the two files exist
  child,           \* "absent", "running", "hung", "stuck", "exited"
  pc,              \* the child's next operation, an index of ChildOf(mode)
  exit_ok,         \* the child ended with exit code 0
  signal,          \* SIGTERM or SIGKILL is pending for the child
  out, seen,       \* events printed, number of events read
  clock,           \* CLOCK_MONOTONIC, one tick per event
  page_table,      \* the truth: frame of each VA page of the child
  target,          \* the observer's target_tgid is the child
  ring, lost,      \* rows not yet polled, rows the ring dropped
  rows, lost_event_count,   \* what the observer has
  gate_map,        \* rows of the map the work was selected from
  work,            \* the target page of the work file and its expected frame
  published,       \* rows of the map the script publishes
  truth, worked,   \* history: page table at the snapshot, frame worked on
  faults,          \* faults so far
  causes           \* history: why the run may fail


fixed == <<mode, pages, driver>>
scriptVars == <<at, verdict, gate, release, signal, seen, target, rows,
                lost_event_count, gate_map, work, published>>
childVars == <<child, pc, exit_ok, out, clock, page_table, truth, worked>>
ringVars == <<ring, lost>>
faultVars == <<faults, causes>>
vars == <<fixed, scriptVars, childVars, ringVars, faultVars>>

VaPages ==
  UNION {{r.base + k * PageSize : k \in 0 .. (r.len \div PageSize - 1)} :
           r \in ToSet(Ranges(mode, pages))}

NoWork == [va |-> None, frame |-> NoFrame]

Init ==
  /\ mode \in Modes
  /\ pages \in IF mode = "scratch" THEN {PtesPerQuery, PtesPerQuery + 1} ELSE {2}
  /\ driver \in Drivers
  /\ at = 1 /\ verdict = "none" /\ gate = FALSE /\ release = FALSE
  /\ signal = FALSE /\ seen = 0 /\ target = FALSE
  /\ rows = {} /\ lost_event_count = 0 /\ gate_map = {} /\ work = NoWork
  /\ published = {}
  /\ child = "absent" /\ pc = 1 /\ exit_ok = FALSE /\ out = <<>> /\ clock = 0
  /\ page_table = [p \in VaPages |-> NoFrame]
  /\ truth = page_table /\ worked = NoFrame
  /\ ring = {} /\ lost = 0 /\ faults = 0 /\ causes = {}

-----------------------------------------------------------------------------
(* The driver and the kprobes.                                             *)

\* The queries of one map call, as first page and number of pages.
Queries(n) ==
  IF driver.how = "whole" THEN {<<0, n>>} ELSE {<<k, 1>> : k \in 0 .. (n - 1)}

Header(r, n, q, time) ==
  [type |-> "HEADER", time |-> time + q[1], base |-> r.base, len |-> r.len,
   map_offset |-> driver.map_offset,
   offset |-> driver.map_offset + q[1] * PageSize, size |-> q[2] * PageSize,
   written |-> q[2],
   remaining |-> IF driver.how = "partial" THEN n - q[1] - q[2] ELSE 0,
   complete |-> q[2] <= PtesPerQuery]

Entry(h, i, frame) ==
  [type |-> "ENTRY", time |-> h.time, base |-> h.base, offset |-> h.offset,
   index |-> i, frame |-> frame]

\* trace_pte_return: the header, and its entries if they fit.
trace_pte(r, n, q, time, frames) ==
  LET h == Header(r, n, q, time)
  IN  {h} \cup IF h.complete
               THEN {Entry(h, i, frames[q[1] + i]) : i \in 0 .. (q[2] - 1)}
               ELSE {}

\* The queries happen inside the map call, so its row comes last.
trace_map(r, n, time, frames) ==
  (UNION {trace_pte(r, n, q, time, frames) : q \in Queries(n)})
    \cup {[type |-> "MAP", time |-> time + n, base |-> r.base, len |-> r.len]}

trace_free(r, time) ==
  {[type |-> "FREE", time |-> time, base |-> r.base, len |-> r.len]}

NewCauses(why) == causes' = causes \cup why

\* Faults of this step, within the budget of the run.
Fault(why) ==
  /\ faults' = faults + Cardinality(why \cap {"loss", "remap", "crash", "hang"})
  /\ faults' <= driver.faults
  /\ NewCauses(why)

\* perf_submit of the rows of one call.  The ring may drop any of them; one
\* row and all rows stand for the rest.
Drops(new) == {{}} \cup IF target THEN {new} \cup {{r} : r \in new} ELSE {}

Submit(new, why) ==
  \E dropped \in Drops(new) :
     /\ ring' = IF target THEN ring \cup (new \ dropped) ELSE ring
     /\ lost' = lost + Cardinality(dropped)
     /\ Fault(why \cup IF dropped = {} THEN {} ELSE {"loss"})

FramesFor(n) == {[i \in 0 .. (n - 1) |-> s[i + 1]] : s \in Placements}

Placed(r, frames) ==
  [p \in VaPages |->
     IF r.base <= p /\ p < r.base + r.len THEN frames[(p - r.base) \div PageSize]
     ELSE page_table[p]]

Apertures(frames) ==
  IF \E i \in DOMAIN frames : frames[i] \in SysFrames THEN {"sys"} ELSE {}

-----------------------------------------------------------------------------
(* The child.                                                              *)

Doing(op) ==
  /\ child = "running" /\ pc <= Len(ChildOf(mode)) /\ ChildOf(mode)[pc].op = op
  /\ pc' = pc + 1

Arg == ChildOf(mode)[pc].arg

\* An event is a line on stdout; a full pipe blocks the writer.
Emit(event) ==
  /\ Len(out) - seen < driver.room
  /\ out' = Append(out, [event |-> event, time |-> clock])
  /\ clock' = clock + 1

ChildSay ==
  /\ Doing("say")
  /\ Emit(Arg)
  /\ UNCHANGED <<fixed, scriptVars, child, exit_ok, page_table, truth, worked,
                 ringVars, faultVars>>

\* wait_for_gate, wait_for_release: poll for the file.
ChildAwait ==
  /\ Doing("await")
  /\ IF Arg = "gate" THEN gate ELSE release
  /\ UNCHANGED <<fixed, scriptVars, child, exit_ok, out, clock, page_table,
                 truth, worked, ringVars, faultVars>>

\* cudaMalloc or cuMemMap; the second aliased range maps the first one's frames.
ChildMap ==
  LET r == Ranges(mode, pages)[Arg]
      n == r.len \div PageSize
      first == Ranges(mode, pages)[1]
  IN  /\ Doing("map")
      /\ \E frames \in IF Arg = 1 THEN FramesFor(n)
                       ELSE {[i \in 0 .. (n - 1) |-> page_table[first.base + i * PageSize]]} :
            /\ page_table' = Placed(r, frames)
            /\ Submit(trace_map(r, n, clock, frames), Apertures(frames))
      /\ clock' = clock + n + 1
      /\ UNCHANGED <<fixed, scriptVars, child, exit_ok, out, truth, worked>>

ChildUnmap ==
  LET r == Ranges(mode, pages)[Arg]
  IN  /\ Doing("unmap")
      /\ page_table' = Placed(r, [i \in 0 .. r.len |-> NoFrame])
      /\ Submit(trace_free(r, clock), {})
      /\ clock' = clock + 1
      /\ UNCHANGED <<fixed, scriptVars, child, exit_ok, out, truth, worked>>

\* What the registry calls active is mapped from here to the end of the hold.
ChildSnapshot ==
  /\ Doing("snapshot")
  /\ Emit(Arg)
  /\ truth' = page_table
  /\ UNCHANGED <<fixed, scriptVars, child, exit_ok, page_table, worked, ringVars,
                 faultVars>>

\* Time or flip the byte at the VA that the work file names.
ChildWork ==
  /\ Doing("work")
  /\ worked' = page_table[work.va]
  /\ UNCHANGED <<fixed, scriptVars, child, exit_ok, out, clock, page_table,
                 truth, ringVars, faultVars>>

ChildExit ==
  /\ Doing("exit")
  /\ child' = "exited" /\ exit_ok' = TRUE
  /\ UNCHANGED <<fixed, scriptVars, out, clock, page_table, truth, worked,
                 ringVars, faultVars>>

\* An error exit, a gate timeout or a signal; the driver tears the address
\* space down without the free call that is probed.
Dies ==
  /\ child' = "exited" /\ exit_ok' = FALSE
  /\ page_table' = [p \in VaPages |-> NoFrame]
  /\ UNCHANGED <<fixed, scriptVars, pc, out, clock, truth, worked, ringVars>>

ChildFails == child = "running" /\ Dies /\ Fault({"crash"})

ChildKilled ==
  /\ child \in {"running", "hung"} /\ signal /\ Dies
  /\ NewCauses({"killed"}) /\ UNCHANGED faults

\* A child that hangs still dies of a signal, one stuck in the driver does not.
ChildHangs ==
  /\ child = "running"
  /\ child' \in {"hung", "stuck"}
  /\ Fault({"hang"})
  /\ UNCHANGED <<fixed, scriptVars, pc, exit_ok, out, clock, page_table, truth,
                 worked, ringVars>>

\* The driver moves the first range: a free and a map call of the child.
Remap ==
  LET r == Ranges(mode, pages)[1]
      n == r.len \div PageSize
  IN  /\ child = "running"
      /\ page_table[r.base] # NoFrame
      /\ \E frames \in FramesFor(n) :
            /\ Placed(r, frames) # page_table /\ page_table' = Placed(r, frames)
            /\ Submit(trace_free(r, clock) \cup trace_map(r, n, clock + 1, frames),
                      {"remap"} \cup Apertures(frames))
      /\ clock' = clock + n + 2
      /\ UNCHANGED <<fixed, scriptVars, child, pc, exit_ok, out, truth, worked>>

ChildStep ==
  \/ ChildSay \/ ChildAwait \/ ChildMap \/ ChildUnmap \/ ChildSnapshot
  \/ ChildWork \/ ChildExit \/ ChildFails \/ ChildKilled \/ ChildHangs \/ Remap

-----------------------------------------------------------------------------
(* The script.                                                             *)

Script == ScriptOf(mode)

Ended == at > Len(Script)

At(step) == ~Ended /\ Script[at] = step

Found(event) == \E i \in 1 .. seen : out[i].event = event

\* The time of an event, 0 if it was not printed (times.get(name, 0)).
TimeOf(event) ==
  IF Found(event)
  THEN out[CHOOSE i \in 1 .. seen : out[i].event = event].time ELSE 0

ReadyEvent == IF mode = "pool" THEN "POOL_READY" ELSE "INJECTION_GATE_WAIT"

AwaitedEvent ==
  CASE Script[at] = "await_gate" -> "WAIT_PRE_ALLOC_GATE"
    [] Script[at] = "await_ready" -> ReadyEvent
    [] Script[at] = "await_pass" -> "PROCESS_END"

Awaiting == ~Ended /\ Script[at] \in {"await_gate", "await_ready", "await_pass"}

\* An exception leaves the try block for its finally clause.
Raise ==
  /\ verdict' = "raised"
  /\ at' = CHOOSE i \in DOMAIN Script : Script[i] = "terminate"

\* G2Observer.poll: everything in the ring, and the count of what it dropped.
poll ==
  /\ rows' = rows \cup ring /\ ring' = {}
  /\ lost_event_count' = lost_event_count + lost /\ lost' = 0

NoPoll == UNCHANGED <<rows, ring, lost_event_count, lost>>

Idle == UNCHANGED <<fixed, childVars, faults>>

\* subprocess.Popen with the observer attached and no target yet.
Spawn ==
  /\ At("spawn") /\ at' = at + 1
  /\ child' = "running"
  /\ NoPoll
  /\ UNCHANGED <<fixed, verdict, gate, release, signal, seen, target, gate_map,
                 work, published, pc, exit_ok, out, clock, page_table, truth,
                 worked, faultVars>>

SetTargetTgid ==
  /\ At("target") /\ at' = at + 1
  /\ target' = TRUE
  /\ NoPoll /\ Idle
  /\ UNCHANGED <<verdict, gate, release, signal, seen, gate_map, work,
                 published, causes>>

\* gate.write_text, release.write_text
OpenFile ==
  /\ At("open_gate") \/ At("release")
  /\ at' = at + 1
  /\ gate' = (gate \/ At("open_gate")) /\ release' = (release \/ At("release"))
  /\ NoPoll /\ Idle
  /\ UNCHANGED <<verdict, signal, seen, target, gate_map, work, published, causes>>

\* read_until_marker and drain_until_marker read as the child writes; a read
\* matters only when the pipe is full or the awaited event is in it.  Nothing
\* looks at the observer's rows before the settling polls below, so the polls
\* of these loops are left to them.
ReadPipe ==
  /\ Awaiting /\ Len(out) - seen >= driver.room
  /\ seen' = Len(out)
  /\ NoPoll /\ Idle
  /\ UNCHANGED <<at, verdict, gate, release, signal, target, gate_map, work,
                 published, causes>>

\* The awaited event was read, or the child ended without it.
AwaitEnds ==
  /\ Awaiting
  /\ \/ \E i \in DOMAIN out : out[i].event = AwaitedEvent
        /\ at' = at + 1 /\ UNCHANGED verdict
     \/ /\ \A i \in DOMAIN out : out[i].event # AwaitedEvent
        /\ child = "exited" /\ Raise
  /\ seen' = Len(out)
  /\ NoPoll /\ Idle
  /\ UNCHANGED <<gate, release, signal, target, gate_map, work, published, causes>>

\* Poll the observer, and do nothing else, until the child has ended.
Watch ==
  /\ At("watch") /\ child = "exited"
  /\ at' = at + 1
  /\ NoPoll /\ Idle
  /\ UNCHANGED <<verdict, gate, release, signal, seen, target, gate_map, work,
                 published, causes>>

\* The deadline of any wait: raise, and end the child in the finally clause.
TimesOut ==
  /\ Awaiting \/ (At("watch") /\ child # "exited")
  /\ Raise
  /\ NewCauses({"timeout"})
  /\ NoPoll /\ Idle
  /\ UNCHANGED <<gate, release, signal, seen, target, gate_map, work, published>>

\* for _ in range(20): observer.poll(50)
Settle ==
  /\ At("settle") /\ at' = at + 1
  /\ poll /\ Idle
  /\ UNCHANGED <<verdict, gate, release, signal, seen, target, gate_map, work,
                 published, causes>>

\* process.communicate, drain_pipe
Communicate ==
  /\ At("communicate") /\ at' = at + 1
  /\ seen' = Len(out)
  /\ NoPoll /\ Idle
  /\ UNCHANGED <<verdict, gate, release, signal, target, gate_map, work,
                 published, causes>>

\* The ledger of the gate: refuse before any work is written.
PreLedger ==
  LET ledger == build_preledger(rows, Allocs(mode, pages), TimeOf("ALLOCATED"))
      map == map_rows_from_segments(ledger.ledgers)
  IN  /\ At("pre_ledger")
      /\ IF ledger.ok /\ map # {}
         THEN at' = at + 1 /\ gate_map' = map /\ UNCHANGED verdict
         ELSE Raise /\ UNCHANGED gate_map
      /\ NoPoll /\ Idle
      /\ UNCHANGED <<gate, release, signal, seen, target, work, published, causes>>

\* The work file names VAs, chosen by the frames behind them.
WriteWork ==
  /\ At("write_work") /\ at' = at + 1
  /\ \E r \in gate_map : work' = [va |-> r.va, frame |-> r.frame]
  /\ NoPoll /\ Idle
  /\ UNCHANGED <<verdict, gate, release, signal, seen, target, gate_map,
                 published, causes>>

\* Mutant: the second gate file is forgotten.
LeavesRelease ==
  /\ At("terminate") /\ at' = at + 1
  /\ gate' = FALSE /\ release' = release
  /\ signal' = (signal \/ child # "exited")
  /\ NoPoll /\ Idle
  /\ UNCHANGED <<verdict, seen, target, gate_map, work, published, causes>>

\* The finally clause: remove the gate files, terminate what still runs.
Terminate ==
  /\ At("terminate") /\ at' = at + 1
  /\ gate' = FALSE /\ release' = FALSE
  /\ signal' = (signal \/ child # "exited")
  /\ NoPoll /\ Idle
  /\ UNCHANGED <<verdict, seen, target, gate_map, work, published, causes>>

\* wait(2), kill, wait(2), observer.close; an exception goes on to the caller.
\* A child that outlives the second wait makes it raise out of the clause.
Kill ==
  /\ At("kill")
  /\ IF child = "exited" /\ verdict # "raised"
     THEN at' = at + 1 /\ UNCHANGED verdict
     ELSE at' = Len(Script) + 1 /\ verdict' = "raised"
  /\ NoPoll /\ Idle
  /\ UNCHANGED <<gate, release, signal, seen, target, gate_map, work,
                 published, causes>>

-----------------------------------------------------------------------------
(* The checks after the run, and what they publish.                        *)

Expected(m) ==
  LET says == SelectSeq(ChildOf(m), LAMBDA o : o.op \in {"say", "snapshot"})
  IN  [i \in DOMAIN says |-> says[i].arg]

\* Mutant: the count of lost rows is saved but not judged.
IgnoresLoss ==
  Failing([exit      |-> ~exit_ok,
           lifecycle |-> [i \in 1 .. seen |-> out[i].event] # Expected(mode)])

CommonFailures ==
  Failing([exit      |-> ~exit_ok,
           lifecycle |-> [i \in 1 .. seen |-> out[i].event] # Expected(mode),
           lost      |-> lost_event_count > 0])

FinalLedger ==
  build_final_ledger(rows, Allocs(mode, pages), TimeOf("ALLOCATED"), TimeOf("PROCESS_END"))

\* Every active mapping encloses the hold interval.
Encloses(ledger, from, to) ==
  \A l \in ledger.ledgers :
     l.alloc.active /\ l.segments # {} => l.mapped_at < from /\ to < l.unmapped_at

\* A missing FREE row makes int(None) raise in the hold check.
TrtRaises(ledger) ==
  \E l \in ledger.ledgers :
     l.alloc.active /\ l.segments # {} /\ l.unmapped_at = None

\* What the saved rows and log say; the loss of rows is not saved.
replay(ledger) ==
  /\ CommonFailures \subseteq {"exit", "lost"}
  /\ ledger.ok
  /\ Encloses(ledger, TimeOf("SNAPSHOT_READY"), TimeOf("HOLD_END"))

CheckTrt ==
  LET ledger == FinalLedger
  IN  [raises |-> TrtRaises(ledger),
       ok |-> CommonFailures = {} /\ replay(ledger),
       confirmed |-> TRUE,
       map |-> map_rows_from_segments(ledger.ledgers)]

CheckAlias ==
  LET base1 == Ranges(mode, pages)[1].base
      base2 == Ranges(mode, pages)[2].base
      first == collect_pages(rows, base1)
      second == collect_pages(rows, base2)
      freed == {first.unmapped_at, second.unmapped_at}
  IN  [raises |-> FALSE,
       ok |-> /\ CommonFailures = {}
              /\ first.failures = {} /\ second.failures = {}
              /\ DoubleMapped(first.pages, base1, second.pages, base2)
              /\ first.mapped_at < TimeOf("ALLOCATED")
              /\ TimeOf("FREE_BEGIN") <= Earliest(freed)
              /\ Earliest(freed) <= TimeOf("FREE_END"),
       confirmed |-> first.pages # {},
       map |-> {[alloc |-> base1, va |-> p.va, frame |-> p.frame, active |-> TRUE] :
                  p \in first.pages \cup second.pages}]

CheckScratch ==
  LET a == CHOOSE b \in Allocs(mode, pages) : TRUE
      ledger == ScratchLedger(rows, a,
        [begin |-> TimeOf("ALLOCATION_BEGIN"), allocated |-> TimeOf("ALLOCATED"),
         free_begin |-> TimeOf("FREE_BEGIN"), free_end |-> TimeOf("FREE_END")])
  IN  [raises |-> FALSE,
       ok |-> CommonFailures = {} /\ ledger.ok,
       confirmed |-> ledger.local,
       map |-> {[alloc |-> a.base, va |-> s.va, frame |-> s.frame, active |-> TRUE] :
                  s \in ledger.samples}]

CheckPool ==
  LET ledger == FinalLedger
  IN  [raises |-> FALSE,
       ok |-> CommonFailures = {} /\ ledger.ok,
       confirmed |-> TRUE,
       map |-> map_rows_from_segments(ledger.ledgers)]

CheckT2 ==
  LET ledger == FinalLedger
      map == map_rows_from_segments(ledger.ledgers)
  IN  [raises |-> FALSE,
       ok |-> /\ CommonFailures = {} /\ ledger.ok
              /\ diff_map_rows(gate_map, map) = {}
              /\ Encloses(ledger, TimeOf("INJECTION_GATE_WAIT"),
                          TimeOf("INJECTION_WORK_END")),
       confirmed |-> TRUE,
       map |-> map]

Result ==
  CASE mode = "trt" -> CheckTrt [] mode = "alias" -> CheckAlias
    [] mode = "scratch" -> CheckScratch [] mode = "pool" -> CheckPool
    [] mode = "t2" -> CheckT2

\* The status of the summary: a probe may find nothing wrong and still not
\* confirm what it looked for (pages outside the framebuffer).
Status(result) ==
  IF result.raises THEN "raised"
  ELSE IF ~result.ok THEN "fail_closed"
  ELSE IF result.confirmed THEN "passed" ELSE "unresolved"

\* finalize: the status, and the map beside it.
Check ==
  /\ At("check") /\ at' = at + 1
  /\ \E result \in {Result} :
        /\ verdict' = Status(result)
        /\ published' = result.map
  /\ NoPoll /\ Idle
  /\ UNCHANGED <<gate, release, signal, seen, target, gate_map, work, causes>>

ScriptStep ==
  \/ Spawn \/ SetTargetTgid \/ OpenFile \/ ReadPipe \/ AwaitEnds \/ Watch
  \/ TimesOut \/ Settle \/ Communicate \/ PreLedger \/ WriteWork
  \/ Terminate \/ Kill \/ Check

Done == Ended /\ UNCHANGED vars

Next == ScriptStep \/ (~Ended /\ ChildStep) \/ Done

Spec == Init /\ [][Next]_vars

\* The script runs on its own; nothing is assumed of the child or the driver.
FairSpec == Spec /\ WF_vars(ScriptStep)

-----------------------------------------------------------------------------
(* Properties.                                                             *)

PageOf(va) == CHOOSE p \in VaPages : p <= va /\ va < p + PageSize

\* What an accepted run publishes is the page table of the child at its
\* snapshot, byte by byte through the lookup; no range moved during the run
\* (the scratch probe reads the rows of two phases and would not know), and
\* the work was done on the frame for which its VA had been chosen
\* (build_allocation_ledger, va_pa_lookup.py, the lost event check).
AcceptedMapIsTrue ==
  Ended /\ verdict = "passed" =>
    /\ mode # "scratch" => "remap" \notin causes
    /\ conflicts(published) = {}
    /\ \A a \in {b \in Allocs(mode, pages) : b.active} :
         \A va \in a.base .. (a.base + a.size - 1) :
            LET p == PageOf(va)
            IN  {h.frame : h \in forward(published, va)} = {truth[p]}
    /\ \A p \in VaPages : p \in reverse(published, truth[p])
    /\ mode \in {"pool", "t2"} => worked = work.frame

\* A run fails, or ends unresolved, only for a reason: rows were lost, a range
\* moved, a page was not in the framebuffer, the child or a deadline failed, or
\* the driver did not answer with one complete query per page or, for the
\* scratch probe, per range (the five scripts: no step order of theirs loses an
\* event of a child that does nothing wrong).
FailsForAReason ==
  Ended /\ verdict \in {"unresolved", "fail_closed", "raised"} =>
    \/ causes # {}
    \/ driver.how = "partial"
    \/ driver.how = "whole" /\ pages > PtesPerQuery
    \/ driver.how = "halves" /\ mode = "scratch"

\* Every script ends, whatever its child and the driver do, with the child
\* reaped, killed or stuck in the driver, and its gate files removed.
ScriptEnds ==
  <>[](Ended /\ (child = "exited" \/ signal) /\ ~gate /\ ~release)
=============================================================================
