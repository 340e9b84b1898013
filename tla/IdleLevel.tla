------------------------------ MODULE IdleLevel -------------------------------
(***************************************************************************)
(* A campaign level on a GPU that other processes use too.  The orchestra- *)
(* tor (run_g5_campaign.py: wait_for_idle_gpu, residency_idle_failures)    *)
(* waits for an idle GPU before each segment, without a deadline, and      *)
(* looks once more when the runner has measured its residency map: a       *)
(* co-tenant during that pass shrinks the map.  Between the two looks the  *)
(* co-tenant may come and go.  tools/g8_cache/audit_idle.py judges the     *)
(* finished levels, by tighter rules than the gate's.                      *)
(***************************************************************************)
EXTENDS CampaignLevel

CONSTANT Modes   \* the arguments of the levels: [require_idle_gpu, surface]

\* The frozen surface against the two limits: "l2" is at most the 64 MiB of the
\* gate, "between" at most the 72 MiB of the audit; "none" has no cache faults.
Surfaces == {"none", "l2", "between", "large"}

ASSUME ModesAssumption == Modes \subseteq [require_idle_gpu : BOOLEAN, surface : Surfaces]

\* What a map's R_eff is short of the surface.  "fewer": at most the 0.1% that
\* gate and audit let pass; "short": more than that, or a stride other than 1.
\* Either is enough for round(cache_ber * R_eff) to differ from
\* round(cache_ber * surface); with "none" they are the same.
Losses == {"none", "fewer", "short"}

\* cotenancy_snapshot: whether other compute apps are listed, and whether the
\* memory in use is above IDLE_MEMORY_MIB or could not be read.
Snapshots == [app : BOOLEAN, memory : BOOLEAN]

VARIABLES
  mode,      \* the arguments of this level
  foreign,   \* another compute app is on the GPU
  at_start,  \* cotenancy_at_start of the summary: the first segment's snapshot
  lost,      \* what the running segment's map is short of
  losses     \* what the maps in the segment details are short of, if of anything

idle_vars == <<mode, foreign, at_start, lost, losses>>
all_vars == <<vars, idle_vars>>

IdleInit ==
  /\ Init
  /\ mode \in Modes
  /\ foreign \in BOOLEAN
  /\ at_start \in {s \in Snapshots : s.app = foreign}
  /\ lost = "none"
  /\ losses = {}

-----------------------------------------------------------------------------
(* The other processes.                                                    *)

\* The residency pass is under way: after the pre-allocation gate opened and
\* before the campaign gate.
Measuring == rpc = "pregate" /\ gate /\ mode.surface # "none"

\* On an idle GPU a surface of the gate's limit is resident but for a few lines
\* (the self-test of the rule passes 0.9999 of one), a larger one may not be.
IdleLosses == IF mode.surface = "l2" THEN {"none", "fewer"} ELSE Losses

\* A co-tenant takes more of the L2 from the pass, or takes none.
AtLeast(loss) == IF loss = "none" THEN Losses ELSE {loss, "short"}

ForeignArrives ==
  /\ status = "running"
  /\ ~foreign
  /\ foreign' = TRUE
  /\ lost' \in IF Measuring THEN AtLeast(lost) ELSE {lost}
  /\ UNCHANGED <<vars, mode, at_start, losses>>

ForeignLeaves ==
  /\ status = "running"
  /\ foreign
  /\ foreign' = FALSE
  /\ UNCHANGED <<vars, mode, at_start, lost, losses>>

-----------------------------------------------------------------------------
(* The orchestrator's steps that look at them.                             *)

\* wait_for_idle_gpu: polled until nobody else is there, whatever the memory in
\* use; the snapshot goes into the segment, and the first one's into the summary.
IdleSpawn ==
  /\ mode.require_idle_gpu => ~foreign
  /\ Spawn
  /\ IF mode.require_idle_gpu /\ segments = <<>>
     THEN at_start' \in {s \in Snapshots : s.app = foreign}
     ELSE UNCHANGED at_start
  /\ lost' = "none"
  /\ UNCHANGED <<mode, foreign, losses>>

\* The gate opens and the runner comes to its residency pass.
IdleWriteGate ==
  /\ WriteGate
  /\ lost' \in IF mode.surface = "none" THEN {"none"}
              ELSE IF foreign THEN Losses ELSE IdleLosses
  /\ UNCHANGED <<mode, foreign, at_start, losses>>

\* Mutant: only the list of processes is looked at.
AppsOnly == foreign

\* R_eff below 0.999 of the surface, or a stride other than 1, tell only of a
\* surface that is resident when idle.
residency_idle_failures ==
  foreign \/ (mode.surface = "l2" /\ lost = "short")

IdleWriteWork ==
  /\ mode.require_idle_gpu /\ mode.surface # "none" => ~residency_idle_failures
  /\ WriteWork
  /\ UNCHANGED idle_vars

\* The segment's map goes into the level's segment details.
IdleAccept ==
  /\ AcceptDeath \/ AcceptPass
  /\ losses' = losses \cup ({lost} \ {"none"})
  /\ lost' = "none"
  /\ UNCHANGED <<mode, foreign, at_start>>

\* Every other step of the orchestrator.
Blind ==
  \/ GateReached \/ WriteRelease \/ PassSeen \/ DrainEnds \/ CheckAlive \/ Analyze
  \/ ExitSeen \/ FailClosed \/ Cleanup \/ CleanupStuck \/ Merge

IdleOrchestrator ==
  \/ IdleSpawn \/ IdleWriteGate \/ IdleWriteWork \/ IdleAccept
  \/ (Blind /\ UNCHANGED idle_vars)

IdleNext ==
  \/ ForeignArrives \/ ForeignLeaves
  \/ (Runner /\ UNCHANGED idle_vars)
  \/ IdleOrchestrator
  \/ (Done /\ UNCHANGED idle_vars)

\* As for CampaignLevel.  A poll that finds a co-tenant is no step: a co-tenant
\* that comes back for every poll keeps the level waiting.
IdleFairSpec == IdleInit /\ [][IdleNext]_all_vars /\ WF_all_vars(IdleOrchestrator)

-----------------------------------------------------------------------------
(* audit_idle.py.                                                          *)

\* audit_run's reasons to run a level with cache faults again: what the summary
\* says of the start, R_eff (or stride) and n_cache of each segment's map.
audit_run ==
  {r \in {"co_tenant"} : at_start.app} \cup
  {r \in {"memory"} : at_start.memory} \cup
  {r \in {"r_eff"} : mode.surface \in {"l2", "between"} /\ "short" \in losses} \cup
  {r \in {"n_cache"} : mode.surface \in {"l2", "between"} /\ losses # {}}

-----------------------------------------------------------------------------
(* Properties.                                                             *)

\* What the gate leaves to the audit: neither the memory in use nor a loss under
\* 0.1% is looked at before a level runs, and the size of the map only up to
\* 64 MiB.
LeftToTheAudit ==
  {"memory", "n_cache"} \cup {r \in {"r_eff"} : mode.surface = "between"}

\* "A co-tenant during the residency pass shrinks R_eff and so n_cache"
\* (run_g5_campaign.py, residency_idle_failures): a level with cache faults that
\* asks for an idle GPU and is verified has, in every one of its segments, a map
\* of at least 0.999 of a surface that fits the L2, although a co-tenant may come
\* and go between the two looks.  What the audit may still have against it is
\* what the gate does not look at, and never a co-tenant at the start.
IdleRunsStand ==
  status = "verified" /\ mode.require_idle_gpu =>
    /\ mode.surface = "l2" => "short" \notin losses
    /\ audit_run \subseteq LeftToTheAudit

\* The only wait without a deadline is the one for an idle GPU
\* (run_g5_campaign.py, wait_for_idle_gpu): a level ends in any case without the
\* idle rule, and with it once no co-tenant comes back, even if a runner hangs.
TerminatesOnceIdle == <>[](mode.require_idle_gpu => ~foreign) => Terminates
=============================================================================
