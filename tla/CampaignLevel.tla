--------------------------- MODULE CampaignLevel ----------------------------
(***************************************************************************)
(* One campaign level: the orchestrator                                    *)
(* (src/tools/g5_faultinj/run_g5_campaign.py: run_once, execute_segment,   *)
(* merge_campaign_outputs) launches one runner process                     *)
(* (src/apps/resnet50_int8_g1_5.cpp) after another until every trial slot  *)
(* is consumed.  The two meet through gate files, the runner's output pipe *)
(* and the result files of the segment's directory.                        *)
(*                                                                         *)
(* A result row is its trial's number in the segment.  The pipe is read to *)
(* its end before anything is decided from it, so what was written is what *)
(* is captured.  The runner may throw or be killed between any two steps;  *)
(* the orchestrator itself does not die.                                   *)
(***************************************************************************)
EXTENDS Integers, Sequences, FiniteSets

CONSTANTS
  Trials,      \* args.trials
  Sites,       \* DRAM sites of a trial (0 with --no-dram-faults)
  Images,      \* images of the evaluation pass
  Slack        \* the 8 of the restart budget "trials + 8"

ASSUME LevelAssumption ==
  /\ Trials \in Nat \ {0}
  /\ Sites \in Nat
  /\ Images \in Nat \ {0}
  /\ Slack \in Nat

Slot == 0 .. (Trials - 1)

NoSlot == -1

VARIABLES
  status,      \* of the level: the summary's status, or an uncaught exception
  segments,    \* run_once's list of segment results
  completed,   \* run_once's counters
  crashes,
  opc,         \* what the orchestrator does next
  seg,         \* the running segment: first_trial, trials
  gate,        \* the pre-allocation gate file exists
  work,        \* trials in work.csv, or 0: not written yet
  release,     \* the release file exists
  rpc,         \* what the runner does next
  todo,        \* campaign_trials.size()
  trial,       \* trial_index
  count,       \* sites flipped, or restored, so far
  images_evaluated,  \* of the trial's pass
  markers,     \* lines of the runner's output other than trial events
  output,      \* trial events of the runner's output
  cache_rows,  \* trials whose rows are in the cache result file
  rows,        \* trials whose rows are in the three G5 result files
  returncode   \* of the runner, 0 until it ends

levelVars == <<status, segments, completed, crashes>>
fileVars == <<gate, work, release>>
runnerVars == <<rpc, todo, trial, count, images_evaluated, markers, output,
                cache_rows, rows, returncode>>
vars == <<levelVars, opc, seg, fileVars, runnerVars>>

NoRunner ==
  /\ rpc = "none"
  /\ todo = 0
  /\ trial = 0
  /\ count = 0
  /\ images_evaluated = 0
  /\ markers = {}
  /\ output = <<>>
  /\ cache_rows = <<>>
  /\ rows = <<>>
  /\ returncode = 0

Init ==
  /\ status = "running"
  /\ segments = <<>>
  /\ completed = 0
  /\ crashes = 0
  /\ opc = "loop"
  /\ seg = [first |-> 0, trials |-> 0]
  /\ gate = FALSE
  /\ work = 0
  /\ release = FALSE
  /\ NoRunner

Alive == rpc \notin {"none", "dead"}

-----------------------------------------------------------------------------
(* The runner.                                                             *)

Ev(event) == [event |-> event, trial |-> trial]

Emit(event) == output' = Append(output, Ev(event))

\* WAIT_PRE_ALLOC_GATE; the stale-file checks come before it.
ReachPreAllocGate ==
  /\ rpc = "starting"
  /\ ~gate /\ ~release
  /\ markers' = markers \cup {"WAIT_PRE_ALLOC_GATE"}
  /\ rpc' = "pregate"
  /\ UNCHANGED <<levelVars, opc, seg, fileVars, todo, trial, count,
                 images_evaluated, output, cache_rows, rows, returncode>>

\* The gate opens: allocations, clean pass, registry, CAMPAIGN_GATE_WAIT.
ReachCampaignGate ==
  /\ rpc = "pregate"
  /\ gate
  /\ markers' = markers \cup {"CAMPAIGN_GATE_WAIT"}
  /\ rpc' = "gate"
  /\ UNCHANGED <<levelVars, opc, seg, fileVars, todo, trial, count,
                 images_evaluated, output, cache_rows, rows, returncode>>

\* The release file is there: read_campaign_work; no trials is an exception.
ReadWork ==
  /\ rpc = "gate"
  /\ release
  /\ work > 0
  /\ todo' = work
  /\ rpc' = "begin"
  /\ UNCHANGED <<levelVars, opc, seg, fileVars, trial, count, images_evaluated,
                 markers, output, cache_rows, rows, returncode>>

TrialBegin ==
  /\ rpc = "begin"
  /\ trial < todo
  /\ Emit("TRIAL_BEGIN")
  /\ count' = 0 /\ images_evaluated' = 0
  /\ rpc' = "flip"
  /\ UNCHANGED <<levelVars, opc, seg, fileVars, todo, trial, markers, cache_rows,
                 rows, returncode>>

FlipSite ==
  /\ rpc = "flip"
  /\ count < Sites
  /\ Emit("SITE_FLIPPED")
  /\ count' = count + 1
  /\ UNCHANGED <<levelVars, opc, seg, fileVars, rpc, todo, trial,
                 images_evaluated, markers, cache_rows, rows, returncode>>

\* All sites are flipped: the injected pass begins.
BeginPass ==
  /\ rpc = "flip"
  /\ count = Sites
  /\ count' = 0
  /\ rpc' = "pass"
  /\ UNCHANGED <<levelVars, opc, seg, fileVars, todo, trial, images_evaluated,
                 markers, output, cache_rows, rows, returncode>>

EvaluateImage ==
  /\ rpc = "pass"
  /\ images_evaluated < Images
  /\ images_evaluated' = images_evaluated + 1
  /\ UNCHANGED <<levelVars, opc, seg, fileVars, rpc, todo, trial, count, markers,
                 output, cache_rows, rows, returncode>>

\* After the last image, or after an invalid output.
InjectedEnd ==
  /\ rpc = "pass"
  /\ images_evaluated > 0
  /\ Emit("TRIAL_INJECTED_END")
  /\ count' = 0
  /\ rpc' = "restore"
  /\ UNCHANGED <<levelVars, opc, seg, fileVars, todo, trial,
                 images_evaluated, markers, cache_rows, rows, returncode>>

RestoreSite ==
  /\ rpc = "restore"
  /\ count < Sites
  /\ Emit("SITE_RESTORED")
  /\ count' = count + 1
  /\ UNCHANGED <<levelVars, opc, seg, fileVars, rpc, todo, trial,
                 images_evaluated, markers, cache_rows, rows, returncode>>

SanityBegin ==
  /\ rpc = "restore"
  /\ count = Sites
  /\ Emit("TRIAL_SANITY_BEGIN")
  /\ rpc' = "sanity"
  /\ UNCHANGED <<levelVars, opc, seg, fileVars, todo, trial, count,
                 images_evaluated, markers, cache_rows, rows, returncode>>

SanityEnd ==
  /\ rpc = "sanity"
  /\ Emit("TRIAL_SANITY_END")
  /\ rpc' = "report"
  /\ UNCHANGED <<levelVars, opc, seg, fileVars, todo, trial, count,
                 images_evaluated, markers, cache_rows, rows, returncode>>

\* G8CacheStream::flush_trial, before TRIAL_END.
FlushCacheRows ==
  /\ rpc = "report"
  /\ cache_rows' = Append(cache_rows, trial)
  /\ rpc' = "end"
  /\ UNCHANGED <<levelVars, opc, seg, fileVars, todo, trial, count,
                 images_evaluated, markers, output, rows, returncode>>

TrialEnd ==
  /\ rpc = "end"
  /\ Emit("TRIAL_END")
  /\ rpc' = "flush"
  /\ UNCHANGED <<levelVars, opc, seg, fileVars, todo, trial, count,
                 images_evaluated, markers, cache_rows, rows, returncode>>

\* G5ResultStreams::flush_trial, after TRIAL_END.
FlushRows ==
  /\ rpc = "flush"
  /\ rows' = Append(rows, trial)
  /\ trial' = trial + 1
  /\ rpc' = "begin"
  /\ UNCHANGED <<levelVars, opc, seg, fileVars, todo, count, images_evaluated,
                 markers, output, cache_rows, returncode>>

\* The loop is over: the final registry, CAMPAIGN_WORK_END, the PASS line.
Pass ==
  /\ rpc = "begin"
  /\ trial = todo
  /\ markers' = markers \cup {"PASS"}
  /\ rpc' = "teardown"
  /\ UNCHANGED <<levelVars, opc, seg, fileVars, todo, trial, count,
                 images_evaluated, output, cache_rows, rows, returncode>>

\* The teardown, PROCESS_END, return 0.
Exit ==
  /\ rpc = "teardown"
  /\ rpc' = "dead"
  /\ UNCHANGED <<levelVars, opc, seg, fileVars, todo, trial, count,
                 images_evaluated, markers, output, cache_rows, rows,
                 returncode>>

\* Where the runner calls CUDA or TensorRT, so that a fatal device error can
\* reach it.
CudaSteps == {"pregate", "flip", "pass", "restore", "sanity", "teardown"}

\* An exception reaches main's catch block: the FAIL line, with the text of a
\* CUDA error if it was one; a gate that times out ends here as well.
Throw ==
  /\ Alive
  /\ \E signature \in {{}} \cup (IF rpc \in CudaSteps THEN {{"CUDA"}} ELSE {}) :
       markers' = markers \cup {"FAIL"} \cup signature
  /\ returncode' = 1
  /\ rpc' = "dead"
  /\ UNCHANGED <<levelVars, opc, seg, fileVars, todo, trial, count,
                 images_evaluated, output, cache_rows, rows>>

\* A signal from elsewhere.
Killed ==
  /\ Alive
  /\ returncode' = -9
  /\ rpc' = "dead"
  /\ UNCHANGED <<levelVars, opc, seg, fileVars, todo, trial, count,
                 images_evaluated, markers, output, cache_rows, rows>>

Runner ==
  \/ ReachPreAllocGate \/ ReachCampaignGate \/ ReadWork
  \/ TrialBegin \/ FlipSite \/ BeginPass \/ EvaluateImage \/ InjectedEnd
  \/ RestoreSite \/ SanityBegin \/ SanityEnd
  \/ FlushCacheRows \/ TrialEnd \/ FlushRows
  \/ Pass \/ Exit \/ Throw \/ Killed

-----------------------------------------------------------------------------
(* analyze_process_death.                                                  *)

Begins == {i \in DOMAIN output : output[i].event = "TRIAL_BEGIN"}

BegunBefore(i) == Cardinality({j \in Begins : j < i})

Ended == {output[i].trial : i \in {j \in DOMAIN output :
                                     output[j].event = "TRIAL_END"}}

\* completed = len(begins) - 1, which is also the number of the dying trial.
DeathCompleted == Cardinality(Begins) - 1

\* TRIAL_BEGIN is contiguous from 0, and exactly the last begun trial is open.
OneOpenTrial ==
  /\ Begins # {}
  /\ \A i \in Begins : output[i].trial = BegunBefore(i)
  /\ {output[i].trial : i \in Begins} \ Ended = {DeathCompleted}

\* After the last TRIAL_BEGIN come its SITE_FLIPPED events, all of them.
TailIsFlipSet ==
  \A i \in Begins : BegunBefore(i) = DeathCompleted =>
    /\ Len(output) - i = Sites
    /\ \A j \in (i + 1) .. Len(output) : output[j].event = "SITE_FLIPPED"

\* Mutant: the events after the last TRIAL_BEGIN are not looked at.
RecoverableAnyTail ==
  /\ {"FAIL", "CUDA"} \subseteq markers
  /\ OneOpenTrial
  /\ DeathCompleted \in 0 .. (work - 1)

Recoverable ==
  /\ {"FAIL", "CUDA"} \subseteq markers
  /\ OneOpenTrial
  /\ DeathCompleted \in 0 .. (work - 1)
  /\ TailIsFlipSet

-----------------------------------------------------------------------------
(* The row and event checks of a finished or crashed segment.              *)

\* Events of a trial, and the place of each: 0 is TRIAL_BEGIN.
TrialLen == 2 * Sites + 5

EventAt(p) ==
  CASE p = 0                             -> "TRIAL_BEGIN"
    [] p \in 1 .. Sites                  -> "SITE_FLIPPED"
    [] p = Sites + 1                     -> "TRIAL_INJECTED_END"
    [] p \in (Sites + 2) .. (2 * Sites + 1) -> "SITE_RESTORED"
    [] p = 2 * Sites + 2                 -> "TRIAL_SANITY_BEGIN"
    [] p = 2 * Sites + 3                 -> "TRIAL_SANITY_END"
    [] OTHER                             -> "TRIAL_END"

\* The first len events of expected_trial_sequence.
ExpectedEvents(len) ==
  [i \in 1 .. len |-> [event |-> EventAt((i - 1) % TrialLen),
                       trial |-> (i - 1) \div TrialLen]]

RowsOf(n) == [i \in 1 .. n |-> i - 1]

\* verify_site_rows, verify_trial_rows, verify_image_rows, verify_cache_rows.
RowsVerified(n) == rows = RowsOf(n) /\ cache_rows = RowsOf(n)

\* The events are those of n trials, and of a dying trial with all its flips.
verify_event_structure(n, dying) ==
  output = ExpectedEvents(n * TrialLen + (IF dying THEN 1 + Sites ELSE 0))

PrefixVerified ==
  /\ RowsVerified(DeathCompleted)
  /\ verify_event_structure(DeathCompleted, TRUE)

PostVerified ==
  /\ returncode = 0
  /\ RowsVerified(seg.trials)
  /\ verify_event_structure(seg.trials, FALSE)

-----------------------------------------------------------------------------
(* execute_segment.                                                        *)

\* The restart budget: more segments than trials + 8.
BudgetExhausted == completed + crashes < Trials /\ Len(segments) > Trials + Slack

\* Mutant: the first slot of the segment forgets the trials that crashed.
SpawnForgetsCrashes ==
  /\ opc = "loop"
  /\ completed + crashes < Trials
  /\ ~BudgetExhausted
  /\ seg' = [first |-> completed, trials |-> Trials - completed - crashes]
  /\ gate' = FALSE /\ work' = 0 /\ release' = FALSE
  /\ rpc' = "starting"
  /\ todo' = 0 /\ trial' = 0 /\ count' = 0 /\ images_evaluated' = 0
  /\ markers' = {} /\ output' = <<>>
  /\ cache_rows' = <<>> /\ rows' = <<>>
  /\ returncode' = 0
  /\ opc' = "prelude"
  /\ UNCHANGED levelVars

\* The loop of run_once: the restart budget, then a runner in a directory of
\* its own, for the slots that are left.
Spawn ==
  /\ opc = "loop"
  /\ completed + crashes < Trials
  /\ ~BudgetExhausted
  /\ seg' = [first  |-> completed + crashes,
             trials |-> Trials - completed - crashes]
  /\ gate' = FALSE /\ work' = 0 /\ release' = FALSE
  /\ rpc' = "starting"
  /\ todo' = 0 /\ trial' = 0 /\ count' = 0 /\ images_evaluated' = 0
  /\ markers' = {} /\ output' = <<>>
  /\ cache_rows' = <<>> /\ rows' = <<>>
  /\ returncode' = 0
  /\ opc' = "prelude"
  /\ UNCHANGED levelVars

\* The pre-allocation gate.
WriteGate ==
  /\ opc = "prelude"
  /\ "WAIT_PRE_ALLOC_GATE" \in markers
  /\ gate' = TRUE
  /\ opc' = "waitgate"
  /\ UNCHANGED <<levelVars, seg, work, release, runnerVars>>

GateReached ==
  /\ opc = "waitgate"
  /\ "CAMPAIGN_GATE_WAIT" \in markers
  /\ opc' = "sample"
  /\ UNCHANGED <<levelVars, seg, fileVars, runnerVars>>

\* Ledger, snapshot, residency guard and sampling passed: the work file.
WriteWork ==
  /\ opc = "sample"
  /\ work' = seg.trials
  /\ opc' = "release"
  /\ UNCHANGED <<levelVars, seg, gate, release, runnerVars>>

WriteRelease ==
  /\ opc = "release"
  /\ release' = TRUE
  /\ opc' = "drain"
  /\ UNCHANGED <<levelVars, seg, gate, work, runnerVars>>

PassSeen ==
  /\ opc = "drain"
  /\ "PASS" \in markers
  /\ opc' = "exitwait"
  /\ UNCHANGED <<levelVars, seg, fileVars, runnerVars>>

\* Mutant: only the death of the runner ends the wait.
DrainWithoutDeadline ==
  /\ opc = "drain"
  /\ ~Alive
  /\ opc' = "late"
  /\ UNCHANGED <<levelVars, seg, fileVars, runnerVars>>

\* drain_until_marker gives up: the deadline, with a PASS line perhaps already
\* in the pipe, or the runner is dead and its output has none.
DrainEnds ==
  /\ opc = "drain"
  /\ opc' = "late"
  /\ UNCHANGED <<levelVars, seg, fileVars, runnerVars>>

\* process.poll() after that: only a dead runner's output is analysed.
CheckAlive ==
  /\ opc = "late"
  /\ opc' = IF Alive THEN "cleanup" ELSE "analyze"
  /\ UNCHANGED <<levelVars, seg, fileVars, runnerVars>>

Analyze ==
  /\ opc = "analyze"
  /\ opc' = IF Recoverable THEN "prefix" ELSE "cleanup"
  /\ UNCHANGED <<levelVars, seg, fileVars, runnerVars>>

ExitSeen ==
  /\ opc = "exitwait"
  /\ ~Alive
  /\ opc' = "verify"
  /\ UNCHANGED <<levelVars, seg, fileVars, runnerVars>>

\* segment_result, and run_once's bookkeeping.
EndSegment(c, crashed) ==
  /\ segments' = Append(segments,
       [first |-> seg.first, trials |-> seg.trials, completed |-> c,
        crashed |-> crashed, rows |-> rows])
  /\ completed' = completed + c
  /\ crashes' = IF crashed = NoSlot THEN crashes ELSE crashes + 1
  /\ gate' = FALSE /\ release' = FALSE
  /\ opc' = "loop"
  /\ UNCHANGED <<status, seg, work, runnerVars>>

\* Mutant: the trial that died is run again.
AcceptDeathRetries ==
  /\ opc = "prefix"
  /\ PrefixVerified
  /\ EndSegment(DeathCompleted, NoSlot)

AcceptDeath ==
  /\ opc = "prefix"
  /\ PrefixVerified
  /\ EndSegment(DeathCompleted, seg.first + DeathCompleted)

AcceptPass ==
  /\ opc = "verify"
  /\ PostVerified
  /\ EndSegment(seg.trials, NoSlot)

\* A deadline, a refused snapshot or sampling, a failed ledger, map, registry
\* or observer check, a failed row or event check; in the loop, the restart
\* budget (no process is there to clean up then).
FailClosed ==
  /\ opc \in {"prelude", "waitgate", "sample", "release", "prefix", "exitwait",
              "verify"} \cup (IF BudgetExhausted THEN {"loop"} ELSE {})
  /\ opc' = "cleanup"
  /\ UNCHANGED <<levelVars, seg, fileVars, runnerVars>>

\* finalize writes the summary with its status; without one an exception leaves
\* run_once ("raised").
Ends(s) == status' = s /\ opc' = "done"

\* Mutant: the runner of a failed segment is left alone.
CleanupWithoutKill ==
  /\ opc = "cleanup"
  /\ gate' = FALSE /\ release' = FALSE
  /\ Ends("failed")
  /\ UNCHANGED <<segments, completed, crashes, seg, work, runnerVars>>

\* The finally block: the runner is terminated or killed.  A RuntimeError makes
\* the level FAIL_CLOSED, any other exception leaves run_once.
Cleanup ==
  /\ opc = "cleanup"
  /\ gate' = FALSE /\ release' = FALSE
  /\ rpc' = "dead"
  /\ returncode' = IF Alive THEN -15 ELSE returncode
  /\ Ends("failed") \/ Ends("raised")
  /\ UNCHANGED <<segments, completed, crashes, seg, work, todo, trial, count,
                 images_evaluated, markers, output, cache_rows, rows>>

\* Not even SIGKILL ends the runner in two seconds: TimeoutExpired.
CleanupStuck ==
  /\ opc = "cleanup"
  /\ Alive
  /\ gate' = FALSE /\ release' = FALSE
  /\ Ends("raised")
  /\ UNCHANGED <<segments, completed, crashes, seg, work, runnerVars>>

-----------------------------------------------------------------------------
(* merge_campaign_outputs.                                                 *)

\* Mutant: the dying trial is not counted as consumed.
ConsumedOnlyCompleted(s) == s.completed

\* consumed_of.
Consumed(s) == s.completed + (IF s.crashed = NoSlot THEN 0 ELSE 1)

\* shift_trial_fields: the slot of a segment's trial.
Shifted(s, k) == s.first + k

\* The merged trial rows (site and image rows go with them) and the slots of
\* the merged work rows, each with the segment it is from.
TrialRows ==
  UNION {{[segment |-> i, row |-> p,
           slot |-> Shifted(segments[i], segments[i].rows[p])] :
             p \in {q \in DOMAIN segments[i].rows :
                     segments[i].rows[q] < Consumed(segments[i])}} :
         i \in DOMAIN segments}

WorkRows ==
  UNION {{[segment |-> i, slot |-> Shifted(segments[i], k)] :
             k \in {t \in Slot : /\ t < segments[i].trials
                                 /\ t < Consumed(segments[i])}} :
         i \in DOMAIN segments}

CompletedTrials ==
  {q \in (DOMAIN segments) \X Slot : q[2] < segments[q[1]].completed}

\* A single clean segment is hardlinked, without the checks.
SingleClean == Len(segments) = 1 /\ segments[1].crashed = NoSlot

\* The count checks.
MergeConsistent ==
  /\ segments # <<>>
  /\ Cardinality(TrialRows) = Cardinality(CompletedTrials)
  /\ Cardinality(WorkRows) = Trials
  /\ \A r, s \in TrialRows : r.slot = s.slot => r = s

Merge ==
  /\ opc = "loop"
  /\ completed + crashes >= Trials
  /\ Ends(IF SingleClean \/ MergeConsistent THEN "verified" ELSE "raised")
  /\ UNCHANGED <<segments, completed, crashes, seg, fileVars, runnerVars>>

Orchestrator ==
  \/ Spawn \/ WriteGate \/ GateReached \/ WriteWork \/ WriteRelease
  \/ PassSeen \/ DrainEnds \/ CheckAlive \/ Analyze \/ ExitSeen
  \/ AcceptDeath \/ AcceptPass \/ FailClosed
  \/ Cleanup \/ CleanupStuck \/ Merge

Done == opc = "done" /\ UNCHANGED vars

Next == Runner \/ Orchestrator \/ Done

Spec == Init /\ [][Next]_vars

\* Every wait of the orchestrator has a deadline or a poll, so it takes its
\* next step sooner or later, whatever the runner does.  Nothing is assumed of
\* the runner.
FairSpec == Spec /\ WF_vars(Orchestrator)

-----------------------------------------------------------------------------
(* Properties.                                                             *)

Segment ==
  [first: Slot, trials: 1 .. Trials, completed: 0 .. Trials,
   crashed: Slot \cup {NoSlot}, rows: Seq(Slot)]

OrchestratorStates ==
  {"loop", "prelude", "waitgate", "sample", "release", "drain", "late", "analyze",
   "prefix", "exitwait", "verify", "cleanup", "done"}

RunnerStates ==
  {"none", "starting", "pregate", "gate", "begin", "flip", "pass", "restore",
   "sanity", "report", "end", "flush", "teardown", "dead"}

Events == {"TRIAL_BEGIN", "SITE_FLIPPED", "TRIAL_INJECTED_END", "SITE_RESTORED",
           "TRIAL_SANITY_BEGIN", "TRIAL_SANITY_END", "TRIAL_END"}

\* Every variable has its type; the counters never pass the requested trials.
TypeOK ==
  /\ status \in {"running", "verified", "failed", "raised"}
  /\ segments \in Seq(Segment)
  /\ completed \in 0 .. Trials /\ crashes \in 0 .. Trials
  /\ opc \in OrchestratorStates
  /\ seg \in [first: 0 .. Trials, trials: 0 .. Trials]
  /\ gate \in BOOLEAN /\ work \in 0 .. Trials /\ release \in BOOLEAN
  /\ rpc \in RunnerStates
  /\ todo \in 0 .. Trials /\ trial \in 0 .. Trials
  /\ count \in 0 .. Sites /\ images_evaluated \in 0 .. Images
  /\ markers \subseteq {"WAIT_PRE_ALLOC_GATE", "CAMPAIGN_GATE_WAIT", "PASS",
                        "FAIL", "CUDA"}
  /\ output \in Seq([event: Events, trial: Slot])
  /\ cache_rows \in Seq(Slot) /\ rows \in Seq(Slot)
  /\ returncode \in {0, 1, -9, -15}

\* "A crash can never loop forever: each dying trial consumes exactly one slot"
\* (run_g5_campaign.py, run_once): every segment in the list has consumed a
\* slot of its own, so that the restart budget is never reached.
BudgetNeverExhausted ==
  /\ Len(segments) <= completed + crashes
  /\ ~BudgetExhausted

FatalSlots == {segments[i].crashed : i \in DOMAIN segments} \ {NoSlot}

\* A restart loses nothing: a death that the analysis of the output calls
\* recoverable left exactly the completed trials on disk, although the rows are
\* flushed after the event that the analysis counts, and the merge of the verified
\* segments never trips over its own count checks.
RestartLosesNothing ==
  /\ opc = "prefix" => PrefixVerified
  /\ opc = "loop" /\ completed + crashes >= Trials => MergeConsistent

\* When a level has ended by itself, and whenever a runner is launched, no
\* earlier runner is alive: two processes never flip bits of one device.
NoRunnerLeftBehind ==
  opc = "loop" \/ status \in {"verified", "failed"} => ~Alive

IsCompleted(s) ==
  \E i \in DOMAIN segments :
    s \in segments[i].first .. (segments[i].first + segments[i].completed - 1)

\* What became of each slot, read off the segment list.
slot ==
  [s \in Slot |-> IF s \in FatalSlots THEN "process_fatal"
                 ELSE IF IsCompleted(s) THEN "completed" ELSE "open"]

Slots == INSTANCE LevelSlots WITH level <- status

\* The restart protocol implements the slot specification: slots are consumed in
\* order, each once, by whole segments, and never change afterwards.
ImplementsSlots == Slots!Spec

\* Every level ends: verified, failed closed or by an exception, even if a
\* runner hangs at any point.
Terminates == <>(status # "running")
=============================================================================
