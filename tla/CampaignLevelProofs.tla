------------------------- MODULE CampaignLevelProofs ------------------------
(***************************************************************************)
(* Proofs about CampaignLevel and IdleLevel, for any number of trials,     *)
(* sites and images: the variables keep their types, the restart budget is *)
(* never reached, no runner outlives the segment that launched it, the     *)
(* restart protocol implements LevelSlots, and a restart loses no          *)
(* completed trial.                                                        *)
(*                                                                         *)
(* One inductive invariant, Inv, serves all of them.  Its heart is that a  *)
(* running segment always holds the slots that are still open, that an     *)
(* ended segment consumes at least one of them, and that the output of a   *)
(* runner is judged only after the runner is dead.  For the last theorem   *)
(* it is joined by what a runner has written at each of its steps          *)
(* (Captured) and by how the segments tile the slots (SegmentsTile).       *)
(***************************************************************************)
EXTENDS IdleLevel, SequenceTheorems, FunctionTheorems, FiniteSetTheorems,
        TLAPS

TrialStates == {"flip", "pass", "restore", "sanity", "report", "end", "flush"}

\* The runner's trial index is that of a trial of its work file.
TrialInRange ==
  /\ rpc \in {"starting", "pregate", "gate"} => trial = 0
  /\ rpc = "begin" => trial <= todo
  /\ rpc \in TrialStates => trial < todo

\* Where the orchestrator relies on the death of its runner, the runner is dead.
Reaped ==
  /\ opc \in {"loop", "analyze", "prefix", "verify"} => ~Alive
  /\ status \in {"verified", "failed"} => ~Alive
  /\ status # "running" => opc = "done"

\* While a segment runs it holds exactly the open slots, at least one.
SegmentHoldsOpenSlots ==
  opc \notin {"loop", "cleanup", "done"} =>
    /\ seg.first = completed + crashes
    /\ seg.trials = Trials - completed - crashes
    /\ seg.trials > 0

DeathInSegment ==
  /\ work \in {0, seg.trials}
  /\ opc = "prefix" => DeathCompleted \in 0 .. (work - 1)

\* Every ended segment has consumed a slot.
SegmentsConsume ==
  /\ completed + crashes <= Trials
  /\ Len(segments) <= completed + crashes

\* The ended segments cover the consumed slots and no other.
SegmentsCover ==
  /\ \A i \in DOMAIN segments :
       /\ segments[i].first + segments[i].completed <= completed + crashes
       /\ segments[i].crashed < completed + crashes
  /\ \A s \in Slot :
       s < completed + crashes => s \in FatalSlots \/ IsCompleted(s)

Inv ==
  /\ TypeOK
  /\ TrialInRange
  /\ Reaped
  /\ SegmentHoldsOpenSlots
  /\ DeathInSegment
  /\ SegmentsConsume
  /\ SegmentsCover

\* TypeOK in two parts: what only the orchestrator writes, and the rest.
LevelTypes ==
  /\ status \in {"running", "verified", "failed", "raised"}
  /\ segments \in Seq(Segment)
  /\ completed \in 0 .. Trials /\ crashes \in 0 .. Trials
  /\ opc \in OrchestratorStates
  /\ seg \in [first: 0 .. Trials, trials: 0 .. Trials]
  /\ gate \in BOOLEAN /\ work \in 0 .. Trials /\ release \in BOOLEAN

RunnerTypes ==
  /\ rpc \in RunnerStates
  /\ todo \in 0 .. Trials /\ trial \in 0 .. Trials
  /\ count \in 0 .. Sites /\ images_evaluated \in 0 .. Images
  /\ markers \subseteq {"WAIT_PRE_ALLOC_GATE", "CAMPAIGN_GATE_WAIT", "PASS",
                        "FAIL", "CUDA"}
  /\ output \in Seq([event: Events, trial: Slot])
  /\ cache_rows \in Seq(Slot) /\ rows \in Seq(Slot)
  /\ returncode \in {0, 1, -9, -15}

\* A recorded segment holds integers where the arithmetic needs them.
LEMMA SegmentType ==
  ASSUME LevelTypes, NEW i \in DOMAIN segments
  PROVE  /\ segments[i].first \in Int /\ segments[i].completed \in Int
         /\ segments[i].crashed \in Int
<1>1. segments[i] \in Segment
  BY DEF LevelTypes
<1>2. /\ segments[i].first \in Slot
      /\ segments[i].completed \in 0 .. Trials
      /\ segments[i].crashed \in Slot \cup {NoSlot}
  BY <1>1 DEF Segment
<1> QED
  BY <1>2 DEF Slot, NoSlot

\* The two parts make up the type invariant.
LEMMA TypeParts == TypeOK <=> LevelTypes /\ RunnerTypes
BY DEF TypeOK, LevelTypes, RunnerTypes

\* Init establishes the invariant.
LEMMA InitInv == Init => Inv
<1> SUFFICES ASSUME Init PROVE Inv
  OBVIOUS
<1> USE LevelAssumption
<1>1. LevelTypes
  <2>1. segments \in Seq(Segment)
    BY DEF Init
  <2>2. seg \in [first: 0 .. Trials, trials: 0 .. Trials]
    BY DEF Init
  <2>3. completed \in 0 .. Trials /\ crashes \in 0 .. Trials /\ work \in 0 .. Trials
    BY DEF Init
  <2> QED
    BY <2>1, <2>2, <2>3 DEF Init, LevelTypes, OrchestratorStates
<1>2. RunnerTypes
  BY DEF Init, NoRunner, RunnerTypes, RunnerStates
<1>3. TrialInRange /\ Reaped /\ SegmentHoldsOpenSlots /\ DeathInSegment
  BY DEF Init, NoRunner, TrialInRange, TrialStates, Reaped, Alive,
         SegmentHoldsOpenSlots, DeathInSegment
<1>4. SegmentsConsume /\ SegmentsCover
  BY DEF Init, SegmentsConsume, SegmentsCover, Slot
<1> QED
  BY <1>1, <1>2, <1>3, <1>4, TypeParts DEF Inv

-----------------------------------------------------------------------------
(* The runner's steps.                                                     *)

\* A step of the runner needs a live runner and writes nothing of the level.
LEMMA RunnerFrame ==
  ASSUME Runner
  PROVE  Alive /\ UNCHANGED <<levelVars, opc, seg, fileVars>>
BY DEF Runner, Alive, ReachPreAllocGate, ReachCampaignGate, ReadWork, TrialBegin,
       FlipSite, BeginPass, EvaluateImage, InjectedEnd, RestoreSite, SanityBegin,
       SanityEnd, FlushCacheRows, TrialEnd, FlushRows, Pass, Exit, Throw, Killed

\* An event of a trial in range keeps the output well typed.
LEMMA EmitType ==
  ASSUME RunnerTypes, NEW e \in Events, trial \in Slot
  PROVE  Append(output, Ev(e)) \in Seq([event: Events, trial: Slot])
<1>1. Ev(e) \in [event: Events, trial: Slot]
  BY DEF Ev
<1> QED
  BY <1>1 DEF RunnerTypes

\* The runner keeps its own types, and its trial index in its work file's range.
LEMMA RunnerKeepsTypes ==
  ASSUME TypeOK, TrialInRange, Runner
  PROVE  RunnerTypes' /\ TrialInRange'
<1> USE LevelAssumption, TypeParts
<1>a. trial < todo => trial \in Slot
  BY DEF RunnerTypes, Slot
<1>1. CASE ReachPreAllocGate \/ ReachCampaignGate
  BY <1>1 DEF ReachPreAllocGate, ReachCampaignGate, RunnerTypes, RunnerStates,
              TrialInRange, TrialStates
<1>2. CASE ReadWork
  BY <1>2 DEF ReadWork, RunnerTypes, LevelTypes, RunnerStates, TrialInRange,
              TrialStates
<1>3. CASE TrialBegin
  <2>1. output' \in Seq([event: Events, trial: Slot])
    BY <1>3, <1>a, EmitType DEF TrialBegin, Emit, Events
  <2> QED
    BY <1>3, <2>1 DEF TrialBegin, RunnerTypes, RunnerStates, TrialInRange,
                      TrialStates
<1>4. CASE FlipSite \/ RestoreSite
  <2>1. output' \in Seq([event: Events, trial: Slot])
    BY <1>4, <1>a, EmitType
       DEF FlipSite, RestoreSite, Emit, Events, TrialInRange, TrialStates
  <2> QED
    BY <1>4, <2>1 DEF FlipSite, RestoreSite, RunnerTypes, RunnerStates,
                      TrialInRange, TrialStates
<1>5. CASE BeginPass \/ EvaluateImage
  BY <1>5 DEF BeginPass, EvaluateImage, RunnerTypes, RunnerStates, TrialInRange,
              TrialStates
<1>6. CASE InjectedEnd \/ SanityBegin \/ SanityEnd \/ TrialEnd
  <2>1. output' \in Seq([event: Events, trial: Slot])
    BY <1>6, <1>a, EmitType
       DEF InjectedEnd, SanityBegin, SanityEnd, TrialEnd, Emit, Events,
           TrialInRange, TrialStates
  <2> QED
    BY <1>6, <2>1 DEF InjectedEnd, SanityBegin, SanityEnd, TrialEnd, RunnerTypes,
                      RunnerStates, TrialInRange, TrialStates
<1>7. CASE FlushCacheRows
  <2>1. trial \in Slot
    BY <1>7, <1>a DEF FlushCacheRows, TrialInRange, TrialStates
  <2>2. cache_rows' \in Seq(Slot)
    BY <1>7, <2>1 DEF FlushCacheRows, RunnerTypes
  <2> QED
    BY <1>7, <2>2 DEF FlushCacheRows, RunnerTypes, RunnerStates, TrialInRange,
                      TrialStates
<1>8. CASE FlushRows
  <2>1. trial < todo /\ trial \in Slot
    BY <1>8, <1>a DEF FlushRows, TrialInRange, TrialStates
  <2>2. rows' \in Seq(Slot)
    BY <1>8, <2>1 DEF FlushRows, RunnerTypes
  <2>3. trial' \in 0 .. Trials /\ trial' <= todo /\ rpc' = "begin"
    BY <1>8, <2>1 DEF FlushRows, RunnerTypes
  <2> QED
    BY <1>8, <2>2, <2>3 DEF FlushRows, RunnerTypes, RunnerStates, TrialInRange,
                            TrialStates
<1>9. CASE Pass \/ Exit \/ Throw \/ Killed
  BY <1>9 DEF Pass, Exit, Throw, Killed, RunnerTypes, RunnerStates, TrialInRange,
              TrialStates
<1> QED
  BY <1>1, <1>2, <1>3, <1>4, <1>5, <1>6, <1>7, <1>8, <1>9 DEF Runner

\* What the runner does cannot disturb the level's part of the invariant: the
\* clauses about its output and its death hold where it takes no step.
LEMMA RunnerKeepsInv == Inv /\ Runner => Inv'
<1> SUFFICES ASSUME Inv, Runner PROVE Inv'
  OBVIOUS
<1>1. Alive /\ UNCHANGED <<levelVars, opc, seg, fileVars>>
  BY RunnerFrame
<1>2. RunnerTypes' /\ TrialInRange'
  BY RunnerKeepsTypes DEF Inv
<1>3. LevelTypes'
  BY <1>1, TypeParts DEF Inv, LevelTypes, levelVars, fileVars
<1>4. Reaped' /\ SegmentHoldsOpenSlots' /\ DeathInSegment'
  BY <1>1 DEF Inv, Reaped, SegmentHoldsOpenSlots, DeathInSegment, levelVars,
              fileVars
<1>5. SegmentsConsume' /\ SegmentsCover'
  BY <1>1 DEF Inv, SegmentsConsume, SegmentsCover, FatalSlots, IsCompleted,
              levelVars
<1> QED
  BY <1>2, <1>3, <1>4, <1>5, TypeParts DEF Inv, TypeOK, LevelTypes, RunnerTypes
-----------------------------------------------------------------------------
(* The orchestrator's steps.                                               *)

\* Spawn takes all the open slots and resets the runner.
LEMMA SpawnKeepsInv == Inv /\ Spawn => Inv'
<1> SUFFICES ASSUME Inv, Spawn PROVE Inv'
  OBVIOUS
<1> USE LevelAssumption
<1>1. LevelTypes /\ RunnerTypes
  BY TypeParts DEF Inv
<1>2. LevelTypes'
  <2>1. seg' \in [first: 0 .. Trials, trials: 0 .. Trials]
    BY <1>1 DEF Spawn, LevelTypes
  <2>2. /\ UNCHANGED <<status, segments, completed, crashes>>
        /\ opc' = "prelude"
        /\ gate' = FALSE /\ work' = 0 /\ release' = FALSE
    BY DEF Spawn, levelVars
  <2>3. opc' \in OrchestratorStates /\ gate' \in BOOLEAN /\ release' \in BOOLEAN
    BY <2>2 DEF OrchestratorStates
  <2>4. work' \in 0 .. Trials
    BY <2>2
  <2> QED
    BY <1>1, <2>1, <2>2, <2>3, <2>4 DEF LevelTypes
<1>3. RunnerTypes'
  BY <1>1 DEF Spawn, RunnerTypes, RunnerStates
<1>4. TrialInRange' /\ Reaped'
  BY DEF Inv, Spawn, TrialInRange, TrialStates, Reaped, levelVars
<1>5. SegmentHoldsOpenSlots' /\ DeathInSegment'
  BY <1>1 DEF Spawn, SegmentHoldsOpenSlots, DeathInSegment, LevelTypes, levelVars
<1>6. SegmentsConsume' /\ SegmentsCover'
  BY DEF Inv, Spawn, SegmentsConsume, SegmentsCover, FatalSlots, IsCompleted,
         levelVars
<1> QED
  BY <1>2, <1>3, <1>4, <1>5, <1>6, TypeParts
     DEF Inv, TypeOK, LevelTypes, RunnerTypes

\* The steps of a segment that has not ended, up to the release.
LEMMA PreludeKeepsInv ==
  Inv /\ (WriteGate \/ GateReached \/ WriteWork \/ WriteRelease) => Inv'
<1> SUFFICES ASSUME Inv, WriteGate \/ GateReached \/ WriteWork \/ WriteRelease
             PROVE  Inv'
  OBVIOUS
<1> USE DEF WriteGate, GateReached, WriteWork, WriteRelease
<1>1. LevelTypes /\ RunnerTypes
  BY TypeParts DEF Inv
<1>2. UNCHANGED <<levelVars, seg, runnerVars>>
  BY DEF fileVars
<1>3. LevelTypes'
  BY <1>1, <1>2 DEF LevelTypes, OrchestratorStates, levelVars, fileVars
<1>4. RunnerTypes' /\ TrialInRange'
  BY <1>1, <1>2 DEF Inv, RunnerTypes, TrialInRange, runnerVars
<1>5. Reaped'
  BY <1>2 DEF Inv, Reaped, levelVars
<1>6. SegmentHoldsOpenSlots' /\ DeathInSegment'
  BY <1>2 DEF Inv, SegmentHoldsOpenSlots, DeathInSegment, levelVars, fileVars
<1>7. SegmentsConsume' /\ SegmentsCover'
  BY <1>2 DEF Inv, SegmentsConsume, SegmentsCover, FatalSlots, IsCompleted,
              levelVars
<1> QED
  BY <1>3, <1>4, <1>5, <1>6, <1>7, TypeParts
     DEF Inv, TypeOK, LevelTypes, RunnerTypes

\* The steps that wait for the runner and judge its output.
LEMMA JudgeKeepsInv ==
  Inv /\ (PassSeen \/ DrainEnds \/ CheckAlive \/ Analyze \/ ExitSeen \/ FailClosed)
    => Inv'
<1> SUFFICES ASSUME Inv,
                    PassSeen \/ DrainEnds \/ CheckAlive \/ Analyze \/ ExitSeen
                      \/ FailClosed
             PROVE  Inv'
  OBVIOUS
<1> USE DEF PassSeen, DrainEnds, CheckAlive, Analyze, ExitSeen, FailClosed
<1>1. LevelTypes /\ RunnerTypes
  BY TypeParts DEF Inv
<1>2. UNCHANGED <<levelVars, seg, fileVars, runnerVars>>
  OBVIOUS
<1>3. LevelTypes'
  BY <1>1, <1>2 DEF LevelTypes, OrchestratorStates, levelVars, fileVars
<1>4. RunnerTypes' /\ TrialInRange'
  BY <1>1, <1>2 DEF Inv, RunnerTypes, TrialInRange, runnerVars
<1>5. Reaped'
  BY <1>2 DEF Inv, Reaped, Alive, levelVars, runnerVars
<1>6. SegmentHoldsOpenSlots'
  BY <1>2 DEF Inv, SegmentHoldsOpenSlots, levelVars
<1>7. DeathInSegment'
  <2>1. DeathCompleted' = DeathCompleted
    BY <1>2 DEF DeathCompleted, Begins, runnerVars
  <2>2. opc' = "prefix" => DeathCompleted \in 0 .. (work - 1)
    BY DEF Recoverable
  <2> QED
    BY <1>2, <2>1, <2>2 DEF Inv, DeathInSegment, fileVars
<1>8. SegmentsConsume' /\ SegmentsCover'
  BY <1>2 DEF Inv, SegmentsConsume, SegmentsCover, FatalSlots, IsCompleted,
              levelVars
<1> QED
  BY <1>3, <1>4, <1>5, <1>6, <1>7, <1>8, TypeParts
     DEF Inv, TypeOK, LevelTypes, RunnerTypes

\* The steps that end the level.
LEMMA EndKeepsInv == Inv /\ (Cleanup \/ CleanupStuck \/ Merge) => Inv'
<1> SUFFICES ASSUME Inv, Cleanup \/ CleanupStuck \/ Merge PROVE Inv'
  OBVIOUS
<1> USE DEF Cleanup, CleanupStuck, Merge, Ends
<1>1. LevelTypes /\ RunnerTypes
  BY TypeParts DEF Inv
<1>2. UNCHANGED <<segments, completed, crashes, seg, work>> /\ opc' = "done"
  BY DEF fileVars
<1>3. LevelTypes'
  BY <1>1, <1>2 DEF LevelTypes, OrchestratorStates, fileVars
<1>4. RunnerTypes' /\ TrialInRange'
  BY <1>1 DEF Inv, RunnerTypes, RunnerStates, TrialInRange, TrialStates, runnerVars
<1>5. Reaped'
  BY <1>2 DEF Inv, Reaped, Alive, runnerVars
<1>6. SegmentHoldsOpenSlots' /\ DeathInSegment'
  BY <1>2 DEF Inv, SegmentHoldsOpenSlots, DeathInSegment
<1>7. SegmentsConsume' /\ SegmentsCover'
  BY <1>2 DEF Inv, SegmentsConsume, SegmentsCover, FatalSlots, IsCompleted
<1> QED
  BY <1>3, <1>4, <1>5, <1>6, <1>7, TypeParts
     DEF Inv, TypeOK, LevelTypes, RunnerTypes
\* The end of a segment, whether its runner passed or died: it consumes its
\* first c slots, and the next one if the runner died on it.
Consumes(c, crashed) ==
  /\ c \in Nat
  /\ seg.first = completed + crashes
  /\ seg.trials = Trials - completed - crashes
  /\ seg.trials > 0
  /\ IF crashed = NoSlot THEN c = seg.trials
                         ELSE crashed = seg.first + c /\ c < seg.trials

\* Accepting a death or a pass is an EndSegment that consumes open slots.
LEMMA AcceptConsumes ==
  ASSUME Inv, AcceptDeath \/ AcceptPass
  PROVE  \E c \in Nat, crashed \in Slot \cup {NoSlot} :
           EndSegment(c, crashed) /\ Consumes(c, crashed) /\ ~Alive
<1> USE LevelAssumption, TypeParts
<1>1. LevelTypes
  BY DEF Inv
<1>2. CASE AcceptDeath
  <2>1. /\ DeathCompleted \in 0 .. (work - 1)
        /\ work \in {0, seg.trials}
        /\ seg.first = completed + crashes
        /\ seg.trials = Trials - completed - crashes
        /\ ~Alive
    BY <1>2 DEF Inv, AcceptDeath, DeathInSegment, SegmentHoldsOpenSlots, Reaped
  <2> DEFINE c == DeathCompleted
  <2>2. EndSegment(c, seg.first + c)
    BY <1>2 DEF AcceptDeath
  <2> HIDE DEF c
  <2>3. c \in Nat /\ c < seg.trials
    BY <1>1, <2>1 DEF LevelTypes, c
  <2>4. seg.first + c \in Slot /\ seg.first + c # NoSlot
    BY <1>1, <2>1, <2>3 DEF LevelTypes, Slot, NoSlot
  <2>5. Consumes(c, seg.first + c)
    BY <1>1, <2>1, <2>3, <2>4 DEF LevelTypes, Consumes
  <2> QED
    BY <2>1, <2>2, <2>3, <2>4, <2>5
<1>3. CASE AcceptPass
  <2>1. /\ seg.first = completed + crashes
        /\ seg.trials = Trials - completed - crashes
        /\ seg.trials > 0
        /\ ~Alive
    BY <1>3 DEF Inv, AcceptPass, SegmentHoldsOpenSlots, Reaped
  <2>2. EndSegment(seg.trials, NoSlot) /\ seg.trials \in Nat
    BY <1>1, <1>3 DEF AcceptPass, LevelTypes
  <2>3. Consumes(seg.trials, NoSlot)
    BY <2>1, <2>2 DEF Consumes
  <2> QED
    BY <2>1, <2>2, <2>3
<1> QED
  BY <1>2, <1>3

\* The result of the segment is well typed, and what the ended segments say of
\* the slots is extended by what this one consumed.
LEMMA EndSegmentFacts ==
  ASSUME Inv, NEW c \in Nat, NEW crashed \in Slot \cup {NoSlot},
         EndSegment(c, crashed), Consumes(c, crashed)
  PROVE  /\ segments' \in Seq(Segment)
         /\ completed' \in 0 .. Trials /\ crashes' \in 0 .. Trials
         /\ completed' + crashes' <= Trials
         /\ completed' + crashes' =
              seg.first + c + (IF crashed = NoSlot THEN 0 ELSE 1)
         /\ completed + crashes < completed' + crashes'
         /\ Len(segments') = Len(segments) + 1
         /\ \A i \in DOMAIN segments' :
              \/ i \in DOMAIN segments /\ segments'[i] = segments[i]
              \/ /\ segments'[i].first = seg.first
                 /\ segments'[i].completed = c
                 /\ segments'[i].crashed = crashed
         /\ FatalSlots' = FatalSlots \cup ({crashed} \ {NoSlot})
         /\ \A s \in Slot :
              IsCompleted(s)' <=>
                IsCompleted(s) \/ s \in seg.first .. (seg.first + c - 1)
<1> USE LevelAssumption
<1>1. LevelTypes /\ RunnerTypes
  BY TypeParts DEF Inv
<1> DEFINE e == [first |-> seg.first, trials |-> seg.trials, completed |-> c,
                 crashed |-> crashed, rows |-> rows]
<1>2. segments' = Append(segments, e)
  BY DEF EndSegment
<1>3. /\ completed' = completed + c
      /\ crashes' = IF crashed = NoSlot THEN crashes ELSE crashes + 1
  BY DEF EndSegment
<1>4. e \in Segment
  <2>1. seg.first \in Slot /\ seg.trials \in 1 .. Trials /\ c \in 0 .. Trials
    BY <1>1 DEF LevelTypes, Consumes, Slot
  <2> QED
    BY <1>1, <2>1 DEF RunnerTypes, Segment
<1>5. /\ e.first = seg.first /\ e.completed = c /\ e.crashed = crashed
  OBVIOUS
<1> HIDE DEF e
<1>6. /\ segments \in Seq(Segment)
      /\ segments' \in Seq(Segment)
      /\ Len(segments') = Len(segments) + 1
      /\ DOMAIN segments' = DOMAIN segments \cup {Len(segments) + 1}
      /\ \A i \in DOMAIN segments : segments'[i] = segments[i]
      /\ segments'[Len(segments) + 1] = e
  BY <1>1, <1>2, <1>4 DEF LevelTypes
<1>7. FatalSlots' = FatalSlots \cup ({crashed} \ {NoSlot})
  BY <1>5, <1>6 DEF FatalSlots
<1>8. ASSUME NEW s \in Slot
      PROVE  IsCompleted(s)' <=>
               IsCompleted(s) \/ s \in seg.first .. (seg.first + c - 1)
  BY <1>5, <1>6 DEF IsCompleted
<1>9. /\ completed' \in 0 .. Trials /\ crashes' \in 0 .. Trials
      /\ completed' + crashes' <= Trials
      /\ completed' + crashes' =
           seg.first + c + (IF crashed = NoSlot THEN 0 ELSE 1)
      /\ completed + crashes < completed' + crashes'
  BY <1>1, <1>3 DEF LevelTypes, Consumes
<1> QED
  BY <1>5, <1>6, <1>7, <1>8, <1>9

\* So the end of a segment keeps the invariant.
LEMMA AcceptKeepsInv == Inv /\ (AcceptDeath \/ AcceptPass) => Inv'
<1> SUFFICES ASSUME Inv, AcceptDeath \/ AcceptPass PROVE Inv'
  OBVIOUS
<1> USE LevelAssumption
<1>1. PICK c \in Nat, crashed \in Slot \cup {NoSlot} :
        EndSegment(c, crashed) /\ Consumes(c, crashed) /\ ~Alive
  BY AcceptConsumes
<1>2. LevelTypes /\ RunnerTypes
  BY TypeParts DEF Inv
<1>3. opc' = "loop" /\ UNCHANGED <<status, seg, work, runnerVars>>
  BY <1>1 DEF EndSegment
<1>4. LevelTypes'
  <2>1. gate' \in BOOLEAN /\ release' \in BOOLEAN
    BY <1>1 DEF EndSegment
  <2> QED
    BY <1>1, <1>2, <1>3, <2>1, EndSegmentFacts DEF LevelTypes, OrchestratorStates
<1>5. RunnerTypes' /\ TrialInRange'
  BY <1>2, <1>3 DEF Inv, RunnerTypes, TrialInRange, runnerVars
<1>6. Reaped'
  BY <1>1, <1>3 DEF Inv, Reaped, Alive, EndSegment, AcceptDeath, AcceptPass,
                    runnerVars
<1>7. SegmentHoldsOpenSlots' /\ DeathInSegment'
  BY <1>3 DEF Inv, SegmentHoldsOpenSlots, DeathInSegment
<1>8. SegmentsConsume'
  <2>1. Len(segments) \in Nat
    BY <1>2 DEF LevelTypes
  <2> QED
    BY <1>1, <1>2, <2>1, EndSegmentFacts, SMTT(30) DEF Inv, SegmentsConsume, LevelTypes
<1>9. SegmentsCover'
  <2>1. ASSUME NEW i \in DOMAIN segments'
        PROVE  /\ segments'[i].first + segments'[i].completed <=
                    completed' + crashes'
               /\ segments'[i].crashed < completed' + crashes'
    <3>1. CASE i \in DOMAIN segments /\ segments'[i] = segments[i]
      <4>1. /\ segments[i].first + segments[i].completed <= completed + crashes
            /\ segments[i].crashed < completed + crashes
        BY <3>1 DEF Inv, SegmentsCover
      <4>2. /\ segments[i].first \in Int /\ segments[i].completed \in Int
            /\ segments[i].crashed \in Int
        BY <1>2, <3>1, SegmentType
      <4>3. /\ completed + crashes \in Int /\ completed' + crashes' \in Int
            /\ completed + crashes < completed' + crashes'
        BY <1>1, <1>2, EndSegmentFacts DEF LevelTypes
      <4> QED
        BY <3>1, <4>1, <4>2, <4>3
    <3>2. CASE /\ segments'[i].first = seg.first
               /\ segments'[i].completed = c
               /\ segments'[i].crashed = crashed
      BY SMTT(40), <1>1, <1>2, <3>2, EndSegmentFacts DEF LevelTypes, Consumes, NoSlot, Slot
    <3> QED
      BY <1>1, <2>1, <3>1, <3>2, EndSegmentFacts
  <2>2. ASSUME NEW s \in Slot, s < completed' + crashes'
        PROVE  s \in FatalSlots' \/ IsCompleted(s)'
    <3>1. CASE s < seg.first
      BY <1>1, <3>1, EndSegmentFacts DEF Inv, SegmentsCover, Consumes
    <3>2. CASE s \in seg.first .. (seg.first + c - 1)
      BY <1>1, <3>2, EndSegmentFacts
    <3>3. CASE s = seg.first + c /\ crashed # NoSlot
      BY <1>1, <3>3, EndSegmentFacts DEF Consumes
    <3>4. /\ seg.first \in Nat /\ s \in Nat
          /\ s < seg.first + c + (IF crashed = NoSlot THEN 0 ELSE 1)
      BY <1>1, <1>2, <2>2, EndSegmentFacts DEF LevelTypes, Slot
    <3> QED
      BY <3>1, <3>2, <3>3, <3>4
  <2> QED
    BY <2>1, <2>2 DEF SegmentsCover
<1> QED
  BY <1>4, <1>5, <1>6, <1>7, <1>8, <1>9, TypeParts
     DEF Inv, TypeOK, LevelTypes, RunnerTypes
-----------------------------------------------------------------------------
(* The theorems.                                                           *)

\* The invariant is inductive.
LEMMA NextKeepsInv == Inv /\ [Next]_vars => Inv'
<1> SUFFICES ASSUME Inv, [Next]_vars PROVE Inv'
  OBVIOUS
<1>1. CASE UNCHANGED vars
  BY <1>1 DEF vars, levelVars, fileVars, runnerVars, Inv, TypeOK, TrialInRange,
              Reaped, Alive, SegmentHoldsOpenSlots, DeathInSegment,
              DeathCompleted, Begins, SegmentsConsume, SegmentsCover, FatalSlots,
              IsCompleted
<1>2. CASE Next
  BY <1>1, <1>2, RunnerKeepsInv, SpawnKeepsInv, PreludeKeepsInv, JudgeKeepsInv,
     AcceptKeepsInv, EndKeepsInv DEF Next, Orchestrator, Done
<1> QED
  BY <1>1, <1>2

\* Hence it holds in every reachable state.
LEMMA InvHolds == Spec => []Inv
BY InitInv, NextKeepsInv, PTL DEF Spec

\* Every variable keeps its type: in particular the level never counts more
\* completed or crashed trials than were requested.
THEOREM TypeCorrect == Spec => []TypeOK
<1>1. Inv => TypeOK
  BY DEF Inv
<1> QED
  BY <1>1, InvHolds, PTL

\* However runners die, the restart loop is bounded by the requested trials and
\* the restart budget of run_once is never what ends it.
THEOREM RestartsAreBounded == Spec => []BudgetNeverExhausted
<1>1. Inv => BudgetNeverExhausted
  BY LevelAssumption
     DEF Inv, TypeOK, SegmentsConsume, BudgetNeverExhausted, BudgetExhausted
<1> QED
  BY <1>1, InvHolds, PTL

\* When a runner is launched, and when a level has ended with a summary, no
\* earlier runner is alive.
THEOREM RunnersAreReaped == Spec => []NoRunnerLeftBehind
<1>1. Inv => NoRunnerLeftBehind
  BY DEF Inv, Reaped, NoRunnerLeftBehind
<1> QED
  BY <1>1, InvHolds, PTL

\* Before the first segment every slot is open.
LEMMA InitImplements == Init => Slots!Init
BY DEF Init, Slots!Init, Slots!Slot, slot, Slot, FatalSlots, IsCompleted

\* An ended segment is one RunSegment step of the slot specification.
LEMMA AcceptImplements ==
  Inv /\ Inv' /\ (AcceptDeath \/ AcceptPass) => Slots!Next
<1> SUFFICES ASSUME Inv, AcceptDeath \/ AcceptPass PROVE Slots!Next
  OBVIOUS
<1> USE LevelAssumption
<1>1. PICK c \in Nat, crashed \in Slot \cup {NoSlot} :
        EndSegment(c, crashed) /\ Consumes(c, crashed) /\ ~Alive
  BY AcceptConsumes
<1>2. LevelTypes
  BY TypeParts DEF Inv
<1> DEFINE first == seg.first
           dies == crashed # NoSlot
<1>3. /\ first \in Slot /\ c \in 0 .. Trials /\ dies \in BOOLEAN
      /\ IF dies THEN crashed = first + c ELSE first + c = Trials
      /\ first = completed + crashes
  BY <1>1, <1>2 DEF LevelTypes, Consumes, Slot
<1>4. status = "running" /\ status' = status
  BY <1>1 DEF EndSegment, AcceptDeath, AcceptPass, Inv, Reaped
<1>5. \A s \in FatalSlots : s < first
  BY <1>3 DEF Inv, SegmentsCover, FatalSlots
<1>6. \A s \in Slot : IsCompleted(s) => s < first
  <2> SUFFICES ASSUME NEW s \in Slot, NEW i \in DOMAIN segments,
                      s \in segments[i].first ..
                              (segments[i].first + segments[i].completed - 1)
               PROVE  s < first
    BY DEF IsCompleted
  <2>1. segments[i].first + segments[i].completed <= first
    BY <1>3 DEF Inv, SegmentsCover
  <2> QED
    BY <1>2, <1>3, <2>1, SegmentType DEF Slot
<1>7. \A s \in Slot : slot[s] = "open" <=> s >= first
  BY <1>2, <1>3, <1>5, <1>6 DEF slot, Inv, SegmentsCover, Slot, LevelTypes
<1>8. slot' = [s \in Slot |->
                 CASE s \in first .. (first + c - 1) -> "completed"
                   [] s = first + c                  -> "process_fatal"
                   [] OTHER                          -> slot[s]]
  <2>1. ASSUME NEW s \in Slot
        PROVE  (IF s \in FatalSlots' THEN "process_fatal"
                ELSE IF IsCompleted(s)' THEN "completed" ELSE "open") =
               CASE s \in first .. (first + c - 1) -> "completed"
                 [] s = first + c                  -> "process_fatal"
                 [] OTHER                          -> slot[s]
    <3>1. /\ s \in FatalSlots' <=> s \in FatalSlots \/ (dies /\ s = first + c)
          /\ IsCompleted(s)' <=>
               IsCompleted(s) \/ s \in first .. (first + c - 1)
      BY SMTT(40), <1>1, <1>3, EndSegmentFacts DEF Slot, NoSlot
    <3>2. slot[s] = IF s \in FatalSlots THEN "process_fatal"
                    ELSE IF IsCompleted(s) THEN "completed" ELSE "open"
      BY DEF slot
    <3>3. CASE s \in first .. (first + c - 1)
      BY <1>3, <1>5, <3>1, <3>3 DEF Slot
    <3>4. CASE s = first + c
      BY <1>3, <1>5, <1>6, <3>1, <3>4 DEF Slot
    <3>5. CASE s \notin first .. (first + c - 1) /\ s # first + c
      BY <3>1, <3>2, <3>5
    <3> QED
      BY <3>3, <3>4, <3>5
  <2> QED
    BY <2>1 DEF slot
<1> QED
  BY <1>3, <1>4, <1>7, <1>8 DEF Slots!Next, Slots!RunSegment, Slots!Slot, Slot
\* Every other step leaves the slots alone, and maps to a stutter or to the end
\* of the level.
LEMMA NextImplements ==
  Inv /\ Inv' /\ [Next]_vars => [Slots!Next]_(Slots!vars)
<1> SUFFICES ASSUME Inv, Inv', [Next]_vars PROVE [Slots!Next]_(Slots!vars)
  OBVIOUS
<1>a. ASSUME segments' = segments PROVE slot' = slot
  BY <1>a DEF slot, FatalSlots, IsCompleted
<1>1. CASE Runner
  <2>1. segments' = segments /\ status' = status
    BY <1>1, RunnerFrame DEF levelVars
  <2> QED
    BY <1>a, <2>1 DEF Slots!vars
<1>2. CASE AcceptDeath \/ AcceptPass
  BY <1>2, AcceptImplements
<1>3. CASE \/ Spawn \/ WriteGate \/ GateReached \/ WriteWork \/ WriteRelease
           \/ PassSeen \/ DrainEnds \/ CheckAlive \/ Analyze \/ ExitSeen
           \/ FailClosed \/ UNCHANGED vars
  <2>1. segments' = segments /\ status' = status
    BY <1>3 DEF Spawn, WriteGate, GateReached, WriteWork, WriteRelease, PassSeen,
                DrainEnds, CheckAlive, Analyze, ExitSeen, FailClosed, vars,
                levelVars
  <2> QED
    BY <1>a, <2>1 DEF Slots!vars
<1>4. CASE Cleanup \/ CleanupStuck
  <2>1. segments' = segments /\ status' \in {"failed", "raised"}
    BY <1>4 DEF Cleanup, CleanupStuck, Ends
  <2>2. status = "running"
    BY <1>4 DEF Cleanup, CleanupStuck, Ends, Inv, Reaped
  <2> QED
    BY <1>a, <2>1, <2>2 DEF Slots!Next, Slots!Fail
<1>5. CASE Merge
  <2>1. segments' = segments /\ status' \in {"verified", "raised"}
    BY <1>5 DEF Merge, Ends
  <2>2. status = "running"
    BY <1>5 DEF Merge, Ends, Inv, Reaped
  <2>3. \A s \in Slot : slot[s] # "open"
    <3> SUFFICES ASSUME NEW s \in Slot PROVE slot[s] # "open"
      OBVIOUS
    <3>1. s < completed + crashes
      BY <1>5, LevelAssumption DEF Merge, Ends, Inv, TypeOK, Slot
    <3> QED
      BY <3>1 DEF Inv, SegmentsCover, slot
  <2>4. CASE status' = "raised"
    BY <1>a, <2>1, <2>2, <2>4 DEF Slots!Next, Slots!Fail
  <2>5. CASE status' = "verified"
    BY <1>a, <2>1, <2>2, <2>3, <2>5 DEF Slots!Next, Slots!Verify, Slots!Slot, Slot
  <2> QED
    BY <2>1, <2>4, <2>5
<1> QED
  BY <1>1, <1>2, <1>3, <1>4, <1>5 DEF Next, Orchestrator, Done

\* The restart protocol implements LevelSlots: over any number of crashes, slots
\* are consumed in order, each exactly once, and a level is verified only when
\* none is left open.
THEOREM RestartImplementsSlots == Spec => ImplementsSlots
BY InitImplements, InvHolds, NextImplements, PTL DEF Spec, ImplementsSlots, Slots!Spec
-----------------------------------------------------------------------------
(* What a runner has written, and what the segments have consumed.         *)

\* The runner has written p events of its current trial after those of all the
\* earlier ones, and the cache rows of c trials more than it has completed.
Wrote(p, c) ==
  /\ output = ExpectedEvents(trial * TrialLen + p)
  /\ cache_rows = RowsOf(trial + c)

\* The files and the pipe always hold a prefix of what a whole campaign writes.
Captured ==
  /\ rows = RowsOf(trial)
  /\ rpc \in {"none", "starting", "pregate", "gate", "begin", "teardown"} => Wrote(0, 0)
  /\ rpc = "flip" => Wrote(1 + count, 0)
  /\ rpc = "pass" => Wrote(1 + Sites, 0)
  /\ rpc = "restore" => Wrote(2 + Sites + count, 0)
  /\ rpc = "sanity" => Wrote(3 + 2 * Sites, 0)
  /\ rpc = "report" => Wrote(4 + 2 * Sites, 0)
  /\ rpc = "end" => Wrote(4 + 2 * Sites, 1)
  /\ rpc = "flush" => Wrote(5 + 2 * Sites, 1)
  /\ rpc = "dead" => \E p \in 0 .. TrialLen, c \in {0, 1} :
                       Wrote(p, c) /\ (c = 1 => p >= 4 + 2 * Sites)

\* A segment's slots, of which it consumed a part from the first on.
Upto(i) == segments[i].first + Consumed(segments[i])

\* The segments tile the consumed slots in order, and the rows that each one
\* keeps are those of its completed trials.
SegmentsTile ==
  /\ \A i \in DOMAIN segments :
       /\ segments[i].rows = RowsOf(segments[i].completed)
       /\ Consumed(segments[i]) \in 1 .. segments[i].trials
       /\ Upto(i) <= completed + crashes
       /\ \A j \in DOMAIN segments : i < j => Upto(i) <= segments[j].first
  /\ \A s \in Slot : s < completed + crashes =>
       \E i \in DOMAIN segments : segments[i].first <= s /\ s < Upto(i)

PrefixAsCaptured == opc = "prefix" => PrefixVerified

-----------------------------------------------------------------------------
(* Places in the event stream: n = k * TrialLen + r is event r of trial k.  *)

\* The product grows with its first factor.
LEMMA Monotone ==
  ASSUME NEW L \in Nat, NEW j \in Nat, NEW m \in Nat, j < m
  PROVE  j * L + L <= m * L
<1>1. PICK d \in Nat : m = j + 1 + d
  <2>1. m - j - 1 \in Nat /\ m = j + 1 + (m - j - 1)
    OBVIOUS
  <2> QED BY <2>1
<1>2. m * L = j * L + L + d * L
  BY <1>1
<1>3. d * L \in Nat /\ j * L \in Nat
  OBVIOUS
<1> QED BY <1>2, <1>3

\* What division by the length of a trial gives.
LEMMA DivMod ==
  ASSUME NEW L \in Nat \ {0}, NEW n \in Nat
  PROVE  /\ n \div L \in Nat /\ n % L \in 0 .. (L - 1)
         /\ n = (n \div L) * L + (n % L)
OBVIOUS

\* Quotient and remainder are unique.
LEMMA PlaceUnique ==
  ASSUME NEW L \in Nat \ {0}, NEW k \in Nat, NEW r \in 0 .. (L - 1),
         NEW j \in Nat, NEW q \in 0 .. (L - 1), k * L + r = j * L + q
  PROVE  k = j /\ r = q
<1>0. k * L \in Nat /\ j * L \in Nat
  OBVIOUS
<1>1. ~(k < j)
  <2> SUFFICES ASSUME k < j PROVE FALSE
    OBVIOUS
  <2>1. k * L + L <= j * L
    BY Monotone
  <2> QED BY <1>0, <2>1
<1>2. ~(j < k)
  <2> SUFFICES ASSUME j < k PROVE FALSE
    OBVIOUS
  <2>1. j * L + L <= k * L
    BY Monotone
  <2> QED BY <1>0, <2>1
<1>3. k = j
  BY <1>1, <1>2
<1> QED BY <1>0, <1>3

\* So event r of trial k is found at its place.
LEMMA PlaceOf ==
  ASSUME NEW L \in Nat \ {0}, NEW k \in Nat, NEW r \in 0 .. (L - 1)
  PROVE  /\ k * L + r \in Nat
         /\ (k * L + r) \div L = k /\ (k * L + r) % L = r
<1>1. k * L + r \in Nat
  OBVIOUS
<1>2. /\ (k * L + r) \div L \in Nat /\ (k * L + r) % L \in 0 .. (L - 1)
      /\ k * L + r = ((k * L + r) \div L) * L + ((k * L + r) % L)
  BY <1>1, DivMod
<1> QED BY <1>1, <1>2, PlaceUnique

\* A trial has at least five events.
LEMMA TrialLenType == TrialLen \in Nat \ {0} /\ TrialLen = 2 * Sites + 5
BY LevelAssumption DEF TrialLen

\* Only the first event of a trial is its TRIAL_BEGIN, and its last TRIAL_END.
LEMMA FirstAndLast ==
  /\ \A r \in 0 .. (TrialLen - 1) : EventAt(r) = "TRIAL_BEGIN" <=> r = 0
  /\ EventAt(TrialLen - 1) = "TRIAL_END"
BY LevelAssumption DEF EventAt, TrialLen

\* The next event of a stream extends it to a longer one.
LEMMA AppendEvent ==
  ASSUME NEW k \in Nat, NEW r \in 0 .. (TrialLen - 1)
  PROVE  Append(ExpectedEvents(k * TrialLen + r), [event |-> EventAt(r), trial |-> k])
           = ExpectedEvents(k * TrialLen + (r + 1))
<1> DEFINE n == k * TrialLen + r
           e == [event |-> EventAt(r), trial |-> k]
           f(i) == [event |-> EventAt((i - 1) % TrialLen), trial |-> (i - 1) \div TrialLen]
<1>1. n \in Nat /\ n \div TrialLen = k /\ n % TrialLen = r
  BY Zenon, PlaceOf, TrialLenType
<1>2. k * TrialLen + (r + 1) = n + 1
  BY TrialLenType
<1>3. f(n + 1) = e
  BY <1>1
<1> HIDE DEF n, e, f
<1>4. Append([i \in 1 .. n |-> f(i)], e) = [i \in 1 .. (n + 1) |-> f(i)]
  <2> DEFINE s == [i \in 1 .. n |-> f(i)]
             t == [i \in 1 .. (n + 1) |-> f(i)]
  <2>1. /\ DOMAIN Append(s, e) = 1 .. (n + 1)
        /\ \A i \in 1 .. n : Append(s, e)[i] = f(i)
        /\ Append(s, e)[n + 1] = e
        /\ Append(s, e) = [i \in 1 .. (n + 1) |-> Append(s, e)[i]]
    BY <1>1
  <2> QED BY <1>1, <1>3, <2>1
<1> QED BY <1>2, <1>4 DEF ExpectedEvents, n, e, f

\* So do the rows of the next trial.
LEMMA AppendRow ==
  ASSUME NEW n \in Nat
  PROVE  Append(RowsOf(n), n) = RowsOf(n + 1)
<1> DEFINE s == [i \in 1 .. n |-> i - 1]
           t == [i \in 1 .. (n + 1) |-> i - 1]
<1>1. /\ DOMAIN Append(s, n) = 1 .. (n + 1)
      /\ \A i \in 1 .. n : Append(s, n)[i] = i - 1
      /\ Append(s, n)[n + 1] = n
      /\ Append(s, n) = [i \in 1 .. (n + 1) |-> Append(s, n)[i]]
  OBVIOUS
<1> QED BY <1>1 DEF RowsOf

\* A live or a dead runner has always written a prefix.
LEMMA SomethingWritten ==
  ASSUME Inv, Captured
  PROVE  \E p \in 0 .. TrialLen, c \in {0, 1} :
           Wrote(p, c) /\ (c = 1 => p >= 4 + 2 * Sites)
<1>1. count \in 0 .. Sites /\ rpc \in RunnerStates /\ Sites \in Nat
  BY LevelAssumption DEF Inv, TypeOK
<1>2. TrialLen = 2 * Sites + 5
  BY TrialLenType
<1> QED
  BY <1>1, <1>2 DEF Captured, RunnerStates

\* Every step of the runner extends what it has written by what comes next.
LEMMA RunnerKeepsCaptured ==
  ASSUME Inv, Captured, Runner
  PROVE  Captured'
<1> USE DEF Captured
<1>1. /\ count \in 0 .. Sites /\ Sites \in Nat /\ trial \in Nat
      /\ TrialLen = 2 * Sites + 5 /\ TrialLen \in Nat \ {0}
  BY LevelAssumption, TrialLenType DEF Inv, TypeOK
<1>2. trial * TrialLen \in Nat
  BY <1>1
<1>3. ASSUME NEW r \in 0 .. (TrialLen - 1), NEW e, NEW c \in {0, 1},
             Wrote(r, c), e = EventAt(r), output' = Append(output, Ev(e)),
             UNCHANGED <<trial, cache_rows>>
      PROVE  Wrote(r + 1, c)'
  BY <1>1, <1>3, AppendEvent DEF Wrote, Ev
<1>4. CASE ReachPreAllocGate \/ ReachCampaignGate \/ ReadWork \/ Pass
  BY <1>4 DEF ReachPreAllocGate, ReachCampaignGate, ReadWork, Pass, Wrote
<1>5. CASE TrialBegin
  <2>1. PICK r \in 0 .. (TrialLen - 1) : r = 0 /\ Wrote(r, 0)
    BY <1>1, <1>5 DEF TrialBegin
  <2>2. EventAt(r) = "TRIAL_BEGIN"
    BY <2>1, FirstAndLast
  <2>3. Wrote(r + 1, 0)'
    BY <1>3, <1>5, <2>1, <2>2 DEF TrialBegin, Emit
  <2>4. count' = 0 /\ rpc' = "flip" /\ UNCHANGED <<rows, trial>>
    BY <1>5 DEF TrialBegin
  <2>5. r + 1 = 1 + count'
    BY <2>1, <2>4
  <2> QED BY <2>3, <2>4, <2>5
<1>6. CASE FlipSite
  <2>1. PICK r \in 0 .. (TrialLen - 1) : r = 1 + count /\ Wrote(r, 0) /\ count < Sites
    BY <1>1, <1>6 DEF FlipSite
  <2>2. EventAt(r) = "SITE_FLIPPED"
    BY <1>1, <2>1 DEF EventAt
  <2>3. Wrote(r + 1, 0)'
    BY <1>3, <1>6, <2>1, <2>2 DEF FlipSite, Emit
  <2>4. count' = count + 1 /\ rpc' = "flip" /\ UNCHANGED <<rows, trial>>
    BY <1>6 DEF FlipSite
  <2>5. r + 1 = 1 + count'
    BY <1>1, <2>1, <2>4
  <2> QED BY <2>3, <2>4, <2>5
<1>7. CASE BeginPass
  BY <1>1, <1>7 DEF BeginPass, Wrote
<1>8. CASE EvaluateImage
  BY <1>8 DEF EvaluateImage, Wrote
<1>9. CASE InjectedEnd
  <2>1. Wrote(1 + Sites, 0)
    BY <1>9 DEF InjectedEnd
  <2>2. EventAt(1 + Sites) = "TRIAL_INJECTED_END" /\ 1 + Sites \in 0 .. (TrialLen - 1)
    BY <1>1 DEF EventAt
  <2>3. Wrote((1 + Sites) + 1, 0)'
    BY <1>3, <1>9, <2>1, <2>2 DEF InjectedEnd, Emit
  <2>4. count' = 0 /\ rpc' = "restore" /\ UNCHANGED <<rows, trial>>
    BY <1>9 DEF InjectedEnd
  <2>5. (1 + Sites) + 1 = 2 + Sites + count'
    BY <1>1, <2>4
  <2> QED BY <2>3, <2>4, <2>5
<1>10. CASE RestoreSite
  <2>1. PICK r \in 0 .. (TrialLen - 1) :
          r = 2 + Sites + count /\ Wrote(r, 0) /\ count < Sites
    BY <1>1, <1>10 DEF RestoreSite
  <2>2. EventAt(r) = "SITE_RESTORED"
    BY <1>1, <2>1 DEF EventAt
  <2>3. Wrote(r + 1, 0)'
    BY <1>3, <1>10, <2>1, <2>2 DEF RestoreSite, Emit
  <2>4. count' = count + 1 /\ rpc' = "restore" /\ UNCHANGED <<rows, trial>>
    BY <1>10 DEF RestoreSite
  <2>5. r + 1 = 2 + Sites + count'
    BY <1>1, <2>1, <2>4
  <2> QED BY <2>3, <2>4, <2>5
<1>11. CASE SanityBegin
  <2>1. PICK r \in 0 .. (TrialLen - 1) : r = 2 + 2 * Sites /\ Wrote(r, 0)
    <3>1. Wrote(2 + Sites + count, 0) /\ count = Sites
      BY <1>11 DEF SanityBegin
    <3>2. 2 + Sites + count = 2 + 2 * Sites
      BY <1>1, <3>1
    <3> QED BY <1>1, <3>1, <3>2
  <2>2. EventAt(r) = "TRIAL_SANITY_BEGIN"
    BY <1>1, <2>1 DEF EventAt
  <2>3. Wrote(r + 1, 0)'
    BY <1>3, <1>11, <2>1, <2>2 DEF SanityBegin, Emit
  <2>4. rpc' = "sanity" /\ UNCHANGED <<rows, trial>>
    BY <1>11 DEF SanityBegin
  <2>5. r + 1 = 3 + 2 * Sites
    BY <1>1, <2>1
  <2> QED BY <2>3, <2>4, <2>5
<1>12. CASE SanityEnd
  <2>1. Wrote(3 + 2 * Sites, 0)
    BY <1>12 DEF SanityEnd
  <2>2. /\ EventAt(3 + 2 * Sites) = "TRIAL_SANITY_END"
        /\ 3 + 2 * Sites \in 0 .. (TrialLen - 1)
    BY <1>1 DEF EventAt
  <2>3. Wrote((3 + 2 * Sites) + 1, 0)'
    BY <1>3, <1>12, <2>1, <2>2 DEF SanityEnd, Emit
  <2>4. rpc' = "report" /\ UNCHANGED <<rows, trial>>
    BY <1>12 DEF SanityEnd
  <2>5. (3 + 2 * Sites) + 1 = 4 + 2 * Sites
    BY <1>1
  <2> QED BY <2>3, <2>4, <2>5
<1>13. CASE FlushCacheRows
  <2>1. Wrote(4 + 2 * Sites, 0) /\ cache_rows' = Append(cache_rows, trial)
    BY <1>13 DEF FlushCacheRows
  <2>2. rpc' = "end" /\ UNCHANGED <<rows, trial, output>>
    BY <1>13 DEF FlushCacheRows
  <2>3. trial + 0 = trial
    BY <1>1
  <2>4. cache_rows = RowsOf(trial)
    BY <2>1, <2>3 DEF Wrote
  <2>5. cache_rows' = RowsOf(trial + 1)
    BY <1>1, <2>1, <2>4, AppendRow
  <2> QED BY <2>1, <2>2, <2>5 DEF Wrote
<1>14. CASE TrialEnd
  <2>1. Wrote(4 + 2 * Sites, 1)
    BY <1>14 DEF TrialEnd
  <2>2. /\ EventAt(4 + 2 * Sites) = "TRIAL_END"
        /\ 4 + 2 * Sites \in 0 .. (TrialLen - 1)
    BY <1>1 DEF EventAt
  <2>3. Wrote((4 + 2 * Sites) + 1, 1)'
    BY <1>3, <1>14, <2>1, <2>2 DEF TrialEnd, Emit
  <2>4. rpc' = "flush" /\ UNCHANGED <<rows, trial>>
    BY <1>14 DEF TrialEnd
  <2>5. (4 + 2 * Sites) + 1 = 5 + 2 * Sites
    BY <1>1
  <2> QED BY <2>3, <2>4, <2>5
<1>15. CASE FlushRows
  <2>1. Wrote(5 + 2 * Sites, 1)
    BY <1>15 DEF FlushRows
  <2>2. /\ rows' = Append(rows, trial) /\ trial' = trial + 1 /\ rpc' = "begin"
        /\ UNCHANGED <<output, cache_rows>>
    BY <1>15 DEF FlushRows
  <2>3. rows' = RowsOf(trial')
    BY <1>1, <2>2, AppendRow
  <2>4. trial * TrialLen + (5 + 2 * Sites) = trial' * TrialLen + 0
    BY <1>1, <2>2
  <2>5. trial + 1 = trial' + 0
    BY <1>1, <2>2
  <2>6. Wrote(0, 0)'
    BY <2>1, <2>2, <2>4, <2>5 DEF Wrote
  <2> QED BY <2>2, <2>3, <2>6
<1>16. CASE Exit \/ Throw \/ Killed
  <2>1. rpc' = "dead" /\ UNCHANGED <<output, cache_rows, rows, trial>>
    BY <1>16 DEF Exit, Throw, Killed
  <2>2. \E p \in 0 .. TrialLen, c \in {0, 1} :
          Wrote(p, c)' /\ (c = 1 => p >= 4 + 2 * Sites)
    BY <2>1, SomethingWritten DEF Wrote
  <2> QED BY <2>1, <2>2
<1> QED
  BY <1>4, <1>5, <1>6, <1>7, <1>8, <1>9, <1>10, <1>11, <1>12, <1>13, <1>14, <1>15,
     <1>16 DEF Runner

\* The orchestrator only reads, resets or kills the runner.
LEMMA OrchestratorKeepsCaptured ==
  ASSUME Inv, Captured, Orchestrator
  PROVE  Captured'
<1>1. CASE Spawn
  <2>1. /\ output' = <<>> /\ rows' = <<>> /\ cache_rows' = <<>>
        /\ trial' = 0 /\ rpc' = "starting"
    BY <1>1 DEF Spawn
  <2>2. trial' * TrialLen + 0 = 0 /\ trial' + 0 = 0
    BY <2>1, TrialLenType
  <2>3. RowsOf(0) = <<>> /\ ExpectedEvents(0) = <<>>
    BY DEF RowsOf, ExpectedEvents
  <2>4. Wrote(0, 0)'
    BY <2>1, <2>2, <2>3 DEF Wrote
  <2> QED BY <2>1, <2>3, <2>4 DEF Captured
<1>2. CASE Cleanup
  <2>1. rpc' = "dead" /\ UNCHANGED <<output, cache_rows, rows, trial>>
    BY <1>2 DEF Cleanup
  <2>2. \E p \in 0 .. TrialLen, c \in {0, 1} :
          Wrote(p, c)' /\ (c = 1 => p >= 4 + 2 * Sites)
    BY <2>1, SomethingWritten DEF Wrote
  <2> QED BY <2>1, <2>2 DEF Captured
<1>3. CASE ~Spawn /\ ~Cleanup
  <2>1. UNCHANGED runnerVars
    BY <1>3 DEF Orchestrator, WriteGate, GateReached, WriteWork, WriteRelease,
                PassSeen, DrainEnds, CheckAlive, Analyze, ExitSeen, AcceptDeath,
                AcceptPass, EndSegment, FailClosed, CleanupStuck, Merge
  <2> QED BY <2>1 DEF Captured, Wrote, runnerVars
<1> QED BY <1>1, <1>2, <1>3

-----------------------------------------------------------------------------
(* A recoverable death.                                                    *)

\* A death whose output has one open trial, with all its flips and nothing more,
\* is one in the course of that trial's pass: the files hold the trials before it.
LEMMA RecoverableIsCaptured ==
  ASSUME Inv, Captured, Recoverable
  PROVE  PrefixVerified
<1> DEFINE L == TrialLen
<1>1. PICK p \in 0 .. TrialLen, c \in {0, 1} :
        Wrote(p, c) /\ (c = 1 => p >= 4 + 2 * Sites)
  BY SomethingWritten
<1>2. L \in Nat \ {0} /\ L = 2 * Sites + 5 /\ Sites \in Nat /\ trial \in Nat
  BY TrialLenType, LevelAssumption DEF Inv, TypeOK
<1> HIDE DEF L
<1> DEFINE n == trial * L + p
<1>3. n \in Nat /\ trial * L \in Nat
  BY <1>1, <1>2 DEF L
<1>4. /\ output = ExpectedEvents(n)
      /\ cache_rows = RowsOf(trial + c) /\ rows = RowsOf(trial)
  BY <1>1 DEF Wrote, Captured, L
<1> HIDE DEF n
<1>5. /\ DOMAIN output = 1 .. n /\ Len(output) = n
      /\ \A i \in 1 .. n :
           output[i] = [event |-> EventAt((i - 1) % L), trial |-> (i - 1) \div L]
  BY <1>3, <1>4 DEF ExpectedEvents, L
<1>6. ASSUME NEW k \in Nat, NEW r \in 0 .. (L - 1), k * L + r < n
      PROVE  /\ (k * L + r) + 1 \in 1 .. n
             /\ output[(k * L + r) + 1] = [event |-> EventAt(r), trial |-> k]
  <2>1. /\ k * L + r \in Nat
        /\ (k * L + r) \div L = k /\ (k * L + r) % L = r
    BY <1>2, PlaceOf
  <2>2. (k * L + r) + 1 \in 1 .. n /\ ((k * L + r) + 1) - 1 = k * L + r
    BY <1>3, <1>6, <2>1
  <2> QED BY <1>5, <2>1, <2>2
<1>7. ASSUME NEW i \in Begins
      PROVE  \E k \in Nat : i = (k * L + 0) + 1 /\ output[i].trial = k /\ k * L + 0 < n
  <2>1. i \in 1 .. n /\ output[i].event = "TRIAL_BEGIN"
    BY <1>5 DEF Begins
  <2>2. i - 1 \in Nat
    BY <1>3, <2>1
  <2>3. /\ (i - 1) \div L \in Nat /\ (i - 1) % L \in 0 .. (L - 1)
        /\ i - 1 = ((i - 1) \div L) * L + ((i - 1) % L)
    BY <1>2, <2>2, DivMod
  <2>4. EventAt((i - 1) % L) = "TRIAL_BEGIN" /\ output[i].trial = (i - 1) \div L
    BY <1>5, <2>1
  <2>5. (i - 1) % L = 0
    BY <2>3, <2>4, FirstAndLast DEF L
  <2> QED BY <1>3, <2>1, <2>3, <2>4, <2>5
<1> DEFINE D == DeathCompleted
<1>8. D \in {output[i].trial : i \in Begins} /\ D \notin Ended
  BY DEF Recoverable, OneOpenTrial
<1> HIDE DEF D
<1>9. D \in Nat /\ D * L \in Nat /\ D * L + 0 < n
  <2>1. D \in Nat /\ D * L + 0 < n
    BY <1>7, <1>8
  <2> QED BY <1>2, <2>1
<1>10. n < D * L + L
  <2> SUFFICES ASSUME ~(n < D * L + L) PROVE FALSE
    OBVIOUS
  <2>1. L - 1 \in 0 .. (L - 1) /\ D * L + (L - 1) < n
    BY <1>2, <1>3, <1>9
  <2>2. /\ (D * L + (L - 1)) + 1 \in 1 .. n
        /\ output[(D * L + (L - 1)) + 1] = [event |-> EventAt(L - 1), trial |-> D]
    BY <1>6, <1>9, <2>1
  <2>3. EventAt(L - 1) = "TRIAL_END"
    BY FirstAndLast DEF L
  <2>4. D \in Ended
    BY <1>5, <2>2, <2>3 DEF Ended
  <2> QED BY <1>8, <2>4
<1>11. D = trial /\ p \in 1 .. (L - 1)
  <2> DEFINE q == n - D * L
  <2>1. q \in 1 .. (L - 1) /\ D * L + q = n
    BY <1>2, <1>3, <1>9, <1>10
  <2> HIDE DEF q
  <2>2. CASE p = L
    <3>1. (trial + 1) * L + 0 = n
      BY <1>2, <1>3, <2>2 DEF n
    <3>2. q = 0
      BY <1>2, <1>9, <2>1, <3>1, PlaceUnique
    <3> QED BY <2>1, <3>2
  <2>3. CASE p # L
    <3>1. p \in 0 .. (L - 1) /\ trial * L + p = n
      BY <1>1, <1>2, <2>3 DEF n, L
    <3>2. trial = D /\ p = q
      BY <1>2, <1>9, <2>1, <3>1, PlaceUnique
    <3> QED BY <2>1, <3>2
  <2> QED BY <2>2, <2>3
<1>12. p = 1 + Sites
  <2> DEFINE i == (trial * L + 0) + 1
  <2>1. i \in 1 .. n /\ output[i] = [event |-> EventAt(0), trial |-> trial]
    BY <1>2, <1>6, <1>9, <1>11
  <2>2. EventAt(0) = "TRIAL_BEGIN"
    BY <1>2, FirstAndLast DEF L
  <2>3. i \in Begins /\ output[i].trial = D
    BY <1>5, <1>11, <2>1, <2>2 DEF Begins
  <2>4. BegunBefore(i) = DeathCompleted
    BY <2>3 DEF Recoverable, OneOpenTrial, D
  <2>5. Len(output) - i = Sites
    BY <2>3, <2>4 DEF Recoverable, TailIsFlipSet
  <2> QED BY <1>1, <1>2, <1>3, <1>5, <2>5 DEF n
<1>13. c = 0 /\ trial + c = trial
  BY <1>1, <1>2, <1>12
<1>14. output = ExpectedEvents(DeathCompleted * TrialLen + (1 + Sites))
  BY <1>4, <1>11, <1>12 DEF n, L, D
<1>15. rows = RowsOf(DeathCompleted) /\ cache_rows = RowsOf(DeathCompleted)
  BY <1>4, <1>11, <1>13 DEF D
<1> QED
  BY <1>14, <1>15 DEF PrefixVerified, RowsVerified, verify_event_structure

\* So the row and event checks after the analysis cannot fail: the runner is dead
\* by then and what it left does not change any more.
LEMMA PrefixStaysCaptured ==
  ASSUME Inv, Captured, PrefixAsCaptured, [Next]_vars
  PROVE  PrefixAsCaptured'
<1>a. ASSUME UNCHANGED <<output, rows, cache_rows>>, PrefixVerified
      PROVE  PrefixVerified'
  BY <1>a DEF PrefixVerified, RowsVerified, verify_event_structure, DeathCompleted,
              Begins
<1>1. CASE Runner
  <2>1. Alive /\ opc' = opc
    BY <1>1, RunnerFrame
  <2> QED BY <2>1 DEF Inv, Reaped, PrefixAsCaptured
<1>2. CASE Analyze
  <2>1. UNCHANGED <<output, rows, cache_rows>> /\ (opc' = "prefix" => Recoverable)
    BY <1>2 DEF Analyze, runnerVars
  <2> QED BY <1>a, <2>1, RecoverableIsCaptured DEF PrefixAsCaptured
<1>3. CASE UNCHANGED vars
  <2>1. UNCHANGED <<output, rows, cache_rows, opc>>
    BY <1>3 DEF vars, runnerVars
  <2> QED BY <1>a, <2>1 DEF PrefixAsCaptured
<1>4. CASE Orchestrator /\ ~Analyze
  <2>1. opc' # "prefix"
    BY <1>4 DEF Orchestrator, Spawn, WriteGate, GateReached, WriteWork,
                WriteRelease, PassSeen, DrainEnds, CheckAlive, ExitSeen,
                AcceptDeath, AcceptPass, EndSegment, FailClosed, Cleanup,
                CleanupStuck, Merge, Ends
  <2> QED BY <2>1 DEF PrefixAsCaptured
<1> QED BY <1>1, <1>2, <1>3, <1>4 DEF Next, Done

-----------------------------------------------------------------------------
(* The segments tile the consumed slots.                                   *)

\* An accepted segment keeps the rows of exactly the trials it completed.
LEMMA AcceptedRows ==
  ASSUME Inv, AcceptDeath \/ AcceptPass
  PROVE  \E c \in Nat, crashed \in Slot \cup {NoSlot} :
           /\ EndSegment(c, crashed) /\ Consumes(c, crashed)
           /\ rows = RowsOf(c)
<1>1. PICK c \in Nat, crashed \in Slot \cup {NoSlot} :
        EndSegment(c, crashed) /\ Consumes(c, crashed)
  BY AcceptConsumes
<1> DEFINE n == IF AcceptDeath THEN DeathCompleted ELSE seg.trials
           x == IF AcceptDeath THEN seg.first + DeathCompleted ELSE NoSlot
<1>2. EndSegment(n, x) /\ rows = RowsOf(n)
  BY DEF AcceptDeath, AcceptPass, PrefixVerified, PostVerified, RowsVerified
<1> HIDE DEF n, x
<1> DEFINE e(m, y) == [first |-> seg.first, trials |-> seg.trials, completed |-> m,
                       crashed |-> y, rows |-> rows]
<1>3. Append(segments, e(n, x)) = Append(segments, e(c, crashed))
  BY <1>1, <1>2 DEF EndSegment
<1>4. e(n, x).completed = n /\ e(c, crashed).completed = c
  OBVIOUS
<1> HIDE DEF e
<1>5. e(n, x) = e(c, crashed)
  BY <1>3 DEF Inv, TypeOK
<1>6. n = c
  BY <1>4, <1>5
<1> QED BY <1>1, <1>2, <1>6

\* A segment's result is appended at the end of the tiling.
LEMMA AcceptKeepsTiling ==
  ASSUME Inv, SegmentsTile, AcceptDeath \/ AcceptPass
  PROVE  SegmentsTile'
<1>1. PICK c \in Nat, crashed \in Slot \cup {NoSlot} :
        EndSegment(c, crashed) /\ Consumes(c, crashed) /\ rows = RowsOf(c)
  BY AcceptedRows
<1>2. LevelTypes
  BY TypeParts DEF Inv
<1>n. PICK N : N = Len(segments) + 1
  OBVIOUS
<1>m. PICK start : start = completed + crashes
  OBVIOUS
<1>3. /\ completed' + crashes' = seg.first + c + (IF crashed = NoSlot THEN 0 ELSE 1)
      /\ completed + crashes < completed' + crashes'
      /\ completed' \in 0 .. Trials /\ crashes' \in 0 .. Trials
  BY <1>1, EndSegmentFacts
<1>4. /\ DOMAIN segments' = DOMAIN segments \cup {N}
      /\ N \notin DOMAIN segments /\ N \in Nat
      /\ \A i \in DOMAIN segments : segments'[i] = segments[i] /\ i \in Nat /\ i < N
      /\ segments'[N] = [first |-> seg.first, trials |-> seg.trials,
                         completed |-> c, crashed |-> crashed, rows |-> rows]
  BY <1>1, <1>2, <1>n DEF EndSegment, LevelTypes
<1>5. /\ segments'[N].first = start /\ segments'[N].rows = RowsOf(c)
      /\ segments'[N].completed = c
      /\ segments'[N].trials = seg.trials
      /\ Consumed(segments'[N]) = c + (IF crashed = NoSlot THEN 0 ELSE 1)
  BY <1>1, <1>4, <1>m DEF Consumes, Consumed
<1>6. /\ start \in Nat /\ completed' + crashes' \in Nat
      /\ start < completed' + crashes'
      /\ completed' + crashes' = start + Consumed(segments'[N])
      /\ Consumed(segments'[N]) \in 1 .. seg.trials
  <2>a. completed \in Nat /\ crashes \in Nat /\ seg.trials \in Nat
    BY <1>2 DEF LevelTypes
  <2>b. seg.first = completed + crashes /\ seg.trials > 0
    BY <1>1 DEF Consumes
  <2>c. completed' \in Nat /\ crashes' \in Nat
    BY <1>3
  <2>d. start < completed' + crashes'
    BY <1>3, <1>m
  <2>e. start \in Nat
    BY <1>m, <2>a
  <2>g. completed' + crashes' \in Nat
    <3>1. \A x, y \in Nat : x + y \in Nat
      OBVIOUS
    <3> QED BY <2>c, <3>1, Zenon
  <2>f. seg.first = start
    BY <1>m, <2>b
  <2>1. /\ start \in Nat /\ completed' + crashes' \in Nat
        /\ start < completed' + crashes' /\ seg.trials \in Nat
        /\ seg.first = start /\ seg.trials > 0
    BY <2>a, <2>b, <2>d, <2>e, <2>f, <2>g
  <2>2. CASE crashed = NoSlot
    <3>1. c = seg.trials
      BY <1>1, <2>2 DEF Consumes
    <3>2. completed' + crashes' = seg.first + c
      <4>1. completed' + crashes' = seg.first + c + 0
        BY <1>3, <2>2, Zenon
      <4>2. seg.first + c + 0 = seg.first + c
        BY <2>e, <2>f
      <4> QED BY <4>1, <4>2, Zenon
    <3>3. Consumed(segments'[N]) = c
      BY <1>5, <2>2
    <3> QED BY <2>1, <3>1, <3>2, <3>3
  <2>3. CASE crashed # NoSlot
    <3>1. c < seg.trials
      BY <1>1, <2>3 DEF Consumes
    <3>2. completed' + crashes' = seg.first + c + 1
      BY <1>3, <2>3
    <3>3. Consumed(segments'[N]) = c + 1
      BY <1>5, <2>3
    <3> QED BY <2>1, <3>1, <3>2, <3>3
  <2> QED BY <2>2, <2>3
<1>7. \A i \in DOMAIN segments : Upto(i)' = Upto(i)
  BY <1>4 DEF Upto, Consumed
<1>8. Upto(N)' = completed' + crashes'
  BY <1>5, <1>6 DEF Upto
<1>9. ASSUME NEW i \in DOMAIN segments'
      PROVE  /\ segments'[i].rows = RowsOf(segments'[i].completed)
             /\ Consumed(segments'[i]) \in 1 .. segments'[i].trials
             /\ Upto(i)' <= completed' + crashes'
             /\ \A j \in DOMAIN segments' : i < j => Upto(i)' <= segments'[j].first
  <2>1. CASE i = N
    <3>1. \A j \in DOMAIN segments' : ~(i < j)
      BY <1>4, <2>1
    <3> QED BY <1>5, <1>6, <1>8, <2>1, <3>1
  <2>2. CASE i \in DOMAIN segments
    <3>1. /\ segments[i].rows = RowsOf(segments[i].completed)
          /\ Consumed(segments[i]) \in 1 .. segments[i].trials
          /\ Upto(i) <= start
          /\ \A j \in DOMAIN segments : i < j => Upto(i) <= segments[j].first
      BY <1>m, <2>2 DEF SegmentsTile
    <3>2. Upto(i) \in Int
      BY <1>2, <2>2, <3>1, SegmentType DEF Upto, Consumed
    <3>3. Upto(i)' <= completed' + crashes'
      BY <1>6, <1>7, <2>2, <3>1, <3>2
    <3>4. \A j \in DOMAIN segments' : i < j => Upto(i)' <= segments'[j].first
      BY <1>4, <1>5, <1>7, <2>2, <3>1
    <3> QED BY <1>4, <2>2, <3>1, <3>3, <3>4
  <2> QED BY <1>4, <2>1, <2>2
<1>10. ASSUME NEW s \in Slot, s < completed' + crashes'
       PROVE  \E i \in DOMAIN segments' : segments'[i].first <= s /\ s < Upto(i)'
  <2>1. CASE s < start
    <3>1. PICK i \in DOMAIN segments : segments[i].first <= s /\ s < Upto(i)
      BY <1>m, <2>1 DEF SegmentsTile
    <3> QED BY <1>4, <1>7, <3>1
  <2>2. CASE ~(s < start)
    <3>1. start <= s
      BY <1>6, <2>2 DEF Slot
    <3> QED BY <1>4, <1>5, <1>8, <1>10, <3>1
  <2> QED BY <2>1, <2>2
<1> QED BY <1>9, <1>10 DEF SegmentsTile

\* Nothing else touches the list.
LEMMA TilingStays ==
  ASSUME Inv, SegmentsTile, [Next]_vars
  PROVE  SegmentsTile'
<1>1. CASE AcceptDeath \/ AcceptPass
  BY <1>1, AcceptKeepsTiling
<1>2. CASE UNCHANGED <<segments, completed, crashes>>
  BY <1>2 DEF SegmentsTile, Upto
<1>3. CASE Runner
  BY <1>2, <1>3, RunnerFrame DEF levelVars
<1>4. CASE Orchestrator /\ ~AcceptDeath /\ ~AcceptPass
  <2>1. UNCHANGED <<segments, completed, crashes>>
    BY <1>4 DEF Orchestrator, Spawn, WriteGate, GateReached, WriteWork,
                WriteRelease, PassSeen, DrainEnds, CheckAlive, Analyze, ExitSeen,
                FailClosed, Cleanup, CleanupStuck, Merge, levelVars
  <2> QED BY <1>2, <2>1
<1>5. CASE UNCHANGED vars
  BY <1>2, <1>5 DEF vars, levelVars
<1> QED BY <1>1, <1>3, <1>4, <1>5 DEF Next, Done

-----------------------------------------------------------------------------
(* The merge.                                                              *)

\* One consumed slot belongs to one trial of one segment.
LEMMA SlotOfOneTrial ==
  ASSUME Inv, SegmentsTile,
         NEW i \in DOMAIN segments, NEW j \in DOMAIN segments,
         NEW k \in Nat, NEW m \in Nat,
         k < Consumed(segments[i]), m < Consumed(segments[j]),
         segments[i].first + k = segments[j].first + m
  PROVE  i = j /\ k = m
<1>1. /\ segments[i].first \in Int /\ segments[j].first \in Int
      /\ Consumed(segments[i]) \in Int /\ Consumed(segments[j]) \in Int
  BY TypeParts, SegmentType DEF Inv, Consumed
<1>2. i \in Nat /\ j \in Nat
  BY SMTT(40) DEF Inv, TypeOK
<1>3. /\ i < j => Upto(i) <= segments[j].first
      /\ j < i => Upto(j) <= segments[i].first
  BY DEF SegmentsTile
<1>4. ~(i < j) /\ ~(j < i)
  BY <1>1, <1>3 DEF Upto
<1> QED BY <1>1, <1>2, <1>4

\* A segment has a row for each trial that it completed, and no other.
LEMMA SegmentRows ==
  ASSUME Inv, SegmentsTile, NEW i \in DOMAIN segments
  PROVE  /\ segments[i].completed \in 0 .. Trials /\ segments[i].first \in Slot
         /\ segments[i].trials \in 1 .. Trials
         /\ segments[i].completed <= Consumed(segments[i])
         /\ Consumed(segments[i]) \in 1 .. segments[i].trials
         /\ DOMAIN segments[i].rows = 1 .. segments[i].completed
         /\ \A p \in DOMAIN segments[i].rows : segments[i].rows[p] = p - 1
<1>1. segments[i] \in Segment
  BY DEF Inv, TypeOK
<1>2. segments[i].completed \in 0 .. Trials /\ segments[i].first \in Slot
  BY <1>1 DEF Segment
<1>3. segments[i].rows = RowsOf(segments[i].completed)
  BY DEF SegmentsTile
<1>4. /\ Consumed(segments[i]) \in 1 .. segments[i].trials
      /\ segments[i].trials \in 1 .. Trials
  BY <1>1 DEF SegmentsTile, Segment
<1>5. segments[i].completed <= Consumed(segments[i])
  BY <1>2 DEF Consumed
<1> QED BY <1>2, <1>3, <1>4, <1>5 DEF RowsOf

\* The merged rows: one for each completed trial, in its slot.
LEMMA RowsOfMerge ==
  ASSUME Inv, SegmentsTile
  PROVE  TrialRows =
           {[segment |-> q[1], row |-> q[2] + 1,
             slot |-> segments[q[1]].first + q[2]] : q \in CompletedTrials}
<1> DEFINE f(q) == [segment |-> q[1], row |-> q[2] + 1,
                    slot |-> segments[q[1]].first + q[2]]
           g(i, p) == [segment |-> i, row |-> p,
                       slot |-> Shifted(segments[i], segments[i].rows[p])]
<1>1. ASSUME NEW i \in DOMAIN segments, NEW p \in DOMAIN segments[i].rows
      PROVE  /\ <<i, p - 1>> \in CompletedTrials /\ g(i, p) = f(<<i, p - 1>>)
             /\ segments[i].rows[p] < Consumed(segments[i])
  <2>1. /\ p \in 1 .. segments[i].completed /\ segments[i].rows[p] = p - 1
        /\ segments[i].completed \in 0 .. Trials
        /\ segments[i].completed <= Consumed(segments[i])
        /\ Consumed(segments[i]) \in Nat
    BY SegmentRows
  <2>2. p - 1 \in Slot /\ p - 1 < segments[i].completed /\ (p - 1) + 1 = p
    BY <2>1, LevelAssumption DEF Slot
  <2>3. g(i, p) = f(<<i, p - 1>>)
    BY <2>1, <2>2 DEF Shifted
  <2>4. segments[i].rows[p] < Consumed(segments[i])
    BY <2>1
  <2> QED BY <2>2, <2>3, <2>4 DEF CompletedTrials
<1>2. ASSUME NEW q \in CompletedTrials
      PROVE  /\ q[1] \in DOMAIN segments /\ q[2] + 1 \in DOMAIN segments[q[1]].rows
             /\ q = <<q[1], (q[2] + 1) - 1>>
  <2>1. /\ q[1] \in DOMAIN segments /\ q[2] \in Slot
        /\ q[2] < segments[q[1]].completed /\ q = <<q[1], q[2]>>
    BY DEF CompletedTrials
  <2>2. /\ segments[q[1]].completed \in 0 .. Trials
        /\ DOMAIN segments[q[1]].rows = 1 .. segments[q[1]].completed
    BY <2>1, SegmentRows
  <2> QED BY <2>1, <2>2, LevelAssumption DEF Slot
<1>3. TrialRows =
        UNION {{g(i, p) : p \in {q \in DOMAIN segments[i].rows :
                                   segments[i].rows[q] < Consumed(segments[i])}} :
               i \in DOMAIN segments}
  BY DEF TrialRows
<1> HIDE DEF f, g
<1>4. ASSUME NEW r \in TrialRows PROVE r \in {f(q) : q \in CompletedTrials}
  <2>1. PICK i \in DOMAIN segments : \E p \in DOMAIN segments[i].rows : r = g(i, p)
    BY <1>3
  <2>2. PICK p \in DOMAIN segments[i].rows : r = g(i, p)
    BY <2>1
  <2> QED BY <1>1, <2>2
<1>5. ASSUME NEW q \in CompletedTrials PROVE f(q) \in TrialRows
  <2>1. PICK i \in DOMAIN segments :
          \E x \in DOMAIN segments[i].rows : q = <<i, x - 1>>
    BY <1>2
  <2>3. PICK p \in DOMAIN segments[i].rows : q = <<i, p - 1>>
    BY <2>1
  <2>2. f(q) = g(i, p) /\ segments[i].rows[p] < Consumed(segments[i])
    BY <1>1, <2>3
  <2> QED BY <1>3, <2>2
<1> QED BY <1>4, <1>5 DEF f

\* So there are as many as the segments counted.
LEMMA AllRowsMerged ==
  ASSUME Inv, SegmentsTile
  PROVE  Cardinality(TrialRows) = Cardinality(CompletedTrials)
<1> DEFINE f == [q \in CompletedTrials |->
                   [segment |-> q[1], row |-> q[2] + 1,
                    slot |-> segments[q[1]].first + q[2]]]
<1>1. f \in [CompletedTrials -> TrialRows]
      /\ \A r \in TrialRows : \E q \in CompletedTrials : f[q] = r
  BY RowsOfMerge
<1>2. ASSUME NEW q \in CompletedTrials, NEW r \in CompletedTrials, f[q] = f[r]
      PROVE  q = r
  <2>1. q[1] = r[1] /\ q[2] + 1 = r[2] + 1
    BY <1>2
  <2>2. q[2] \in Int /\ r[2] \in Int /\ q = <<q[1], q[2]>> /\ r = <<r[1], r[2]>>
    BY LevelAssumption DEF CompletedTrials, Slot
  <2> QED BY <2>1, <2>2
<1> HIDE DEF f
<1>3. f \in Bijection(CompletedTrials, TrialRows)
  BY <1>1, <1>2, Zenon DEF Bijection, Injection, Surjection, IsInjective
<1>4. IsFiniteSet(CompletedTrials)
  <2>1. IsFiniteSet(DOMAIN segments) /\ IsFiniteSet(Slot)
    BY FS_Interval, LevelAssumption DEF Inv, TypeOK, Slot
  <2>2. IsFiniteSet((DOMAIN segments) \X Slot)
    BY <2>1, FS_Product
  <2>3. CompletedTrials \in SUBSET ((DOMAIN segments) \X Slot)
    BY DEF CompletedTrials
  <2> QED BY <2>2, <2>3, FS_Subset
<1> QED BY <1>3, <1>4, FS_Bijection DEF ExistsBijection

\* Each slot has one merged row, that of the trial which ran in it.
LEMMA OneRowPerSlot ==
  ASSUME Inv, SegmentsTile
  PROVE  \A r, s \in TrialRows : r.slot = s.slot => r = s
<1> SUFFICES ASSUME NEW r \in TrialRows, NEW s \in TrialRows, r.slot = s.slot
             PROVE  r = s
  OBVIOUS
<1>1. PICK q \in CompletedTrials :
        r = [segment |-> q[1], row |-> q[2] + 1,
             slot |-> segments[q[1]].first + q[2]]
  BY RowsOfMerge
<1>2. PICK u \in CompletedTrials :
        s = [segment |-> u[1], row |-> u[2] + 1,
             slot |-> segments[u[1]].first + u[2]]
  BY RowsOfMerge
<1>3. ASSUME NEW t \in CompletedTrials
      PROVE  /\ t[1] \in DOMAIN segments /\ t[2] \in Nat
             /\ t[2] < Consumed(segments[t[1]])
  <2>1. t[1] \in DOMAIN segments /\ t[2] \in Slot /\ t[2] < segments[t[1]].completed
    BY DEF CompletedTrials
  <2>2. /\ segments[t[1]].completed \in 0 .. Trials
        /\ segments[t[1]].completed <= Consumed(segments[t[1]])
        /\ Consumed(segments[t[1]]) \in 1 .. segments[t[1]].trials
    BY <2>1, SegmentRows
  <2> QED BY <2>1, <2>2, LevelAssumption DEF Slot
<1>4. segments[q[1]].first + q[2] = segments[u[1]].first + u[2]
  BY <1>1, <1>2
<1>5. q[1] = u[1] /\ q[2] = u[2]
  BY <1>3, <1>4, SlotOfOneTrial
<1> QED BY <1>1, <1>2, <1>5

\* And each slot of a campaign that ran to its end has one merged work row.
LEMMA AllSlotsMerged ==
  ASSUME Inv, SegmentsTile, completed + crashes >= Trials
  PROVE  segments # <<>> /\ Cardinality(WorkRows) = Trials
<1>0. Trials \in Nat \ {0} /\ completed + crashes \in Nat
  BY LevelAssumption DEF Inv, TypeOK
<1>a. completed + crashes = Trials
  BY <1>0 DEF Inv, SegmentsConsume
<1> DEFINE w(i, k) == [segment |-> i, slot |-> Shifted(segments[i], k)]
           f == [r \in WorkRows |-> r.slot]
<1>1. ASSUME NEW r \in WorkRows
      PROVE  \E i \in DOMAIN segments, k \in Slot :
               r = w(i, k) /\ k < Consumed(segments[i])
  BY DEF WorkRows
<1>2. ASSUME NEW i \in DOMAIN segments, NEW k \in Slot, k < Consumed(segments[i])
      PROVE  w(i, k) \in WorkRows
  <2>1. /\ Consumed(segments[i]) \in 1 .. segments[i].trials
        /\ segments[i].trials \in 1 .. Trials
    BY SegmentRows
  <2>2. k < segments[i].trials
    BY <1>0, <1>2, <2>1 DEF Slot
  <2> QED BY <1>2, <2>2 DEF WorkRows
<1>3. ASSUME NEW i \in DOMAIN segments, NEW k \in Slot, k < Consumed(segments[i])
      PROVE  w(i, k).slot = segments[i].first + k /\ w(i, k).slot \in Slot
  <2>1. /\ segments[i].first \in Slot
        /\ Consumed(segments[i]) \in 1 .. segments[i].trials
        /\ segments[i].trials \in 1 .. Trials
    BY SegmentRows
  <2>2. Upto(i) <= Trials
    BY <1>a DEF SegmentsTile
  <2>3. segments[i].first + k \in Slot
    BY <1>0, <1>3, <2>1, <2>2 DEF Slot, Upto
  <2> QED BY <2>3 DEF Shifted
<1>4. ASSUME NEW s \in Slot
      PROVE  \E i \in DOMAIN segments, k \in Slot :
               k < Consumed(segments[i]) /\ segments[i].first + k = s
  <2>1. s < completed + crashes
    BY <1>0, <1>a DEF Slot
  <2>2. PICK i \in DOMAIN segments : segments[i].first <= s /\ s < Upto(i)
    BY <2>1 DEF SegmentsTile
  <2>3. /\ segments[i].first \in Slot
        /\ Consumed(segments[i]) \in 1 .. segments[i].trials
        /\ segments[i].trials \in 1 .. Trials
    BY SegmentRows
  <2>4. /\ s - segments[i].first \in Slot
        /\ s - segments[i].first < Consumed(segments[i])
        /\ segments[i].first + (s - segments[i].first) = s
    BY <1>0, <2>2, <2>3 DEF Slot, Upto
  <2> QED BY <2>4
<1> HIDE DEF w
<1>5. f \in [WorkRows -> Slot]
  <2>1. ASSUME NEW r \in WorkRows PROVE r.slot \in Slot
    BY <1>1, <1>3
  <2> QED BY <2>1
<1>6. \A s \in Slot : \E r \in WorkRows : f[r] = s
  <2> SUFFICES ASSUME NEW s \in Slot PROVE \E r \in WorkRows : f[r] = s
    OBVIOUS
  <2>1. PICK i \in DOMAIN segments, k \in Slot :
          k < Consumed(segments[i]) /\ segments[i].first + k = s
    BY <1>4
  <2>2. w(i, k) \in WorkRows /\ w(i, k).slot = s
    BY <1>2, <1>3, <2>1
  <2> QED BY <2>2
<1>7. ASSUME NEW r \in WorkRows, NEW s \in WorkRows, f[r] = f[s]
      PROVE  r = s
  <2>1. PICK i \in DOMAIN segments, k \in Slot : r = w(i, k) /\ k < Consumed(segments[i])
    BY <1>1
  <2>2. PICK j \in DOMAIN segments, m \in Slot : s = w(j, m) /\ m < Consumed(segments[j])
    BY <1>1
  <2>3. segments[i].first + k = segments[j].first + m
    BY <1>3, <1>7, <2>1, <2>2
  <2>4. k \in Nat /\ m \in Nat
    BY DEF Slot
  <2>5. i = j /\ k = m
    BY <2>1, <2>2, <2>3, <2>4, SlotOfOneTrial
  <2> QED BY <2>1, <2>2, <2>5
<1> HIDE DEF f
<1>8. f \in Bijection(WorkRows, Slot)
  BY <1>5, <1>6, <1>7, Zenon DEF Bijection, Injection, Surjection, IsInjective
<1>9. IsFiniteSet(Slot) /\ Cardinality(Slot) = Trials
  <2>1. 0 \in Int /\ Trials - 1 \in Int /\ ~(0 > Trials - 1)
        /\ (Trials - 1) - 0 + 1 = Trials
    BY <1>0
  <2> QED BY <2>1, FS_Interval DEF Slot
<1>10. ExistsBijection(Slot, WorkRows)
  <2>1. ExistsBijection(WorkRows, Slot)
    BY <1>8 DEF ExistsBijection
  <2> QED BY <2>1, Fun_ExistsBijSymmetric
<1>11. Cardinality(WorkRows) = Trials
  BY <1>9, <1>10, FS_Bijection
<1>12. segments # <<>>
  <2>1. 0 \in Slot
    BY <1>0 DEF Slot
  <2> QED BY <1>4, <2>1
<1> QED BY <1>11, <1>12

-----------------------------------------------------------------------------
(* The theorem.                                                            *)

\* What holds between a runner, its files and the list of segments.
LEMMA RestartInvHolds == Spec => [](Captured /\ PrefixAsCaptured /\ SegmentsTile)
<1> DEFINE J == Captured /\ PrefixAsCaptured /\ SegmentsTile
<1>1. Init => J
  <2> SUFFICES ASSUME Init PROVE J
    OBVIOUS
  <2>1. trial * TrialLen + 0 = 0 /\ trial + 0 = 0
    BY TrialLenType DEF Init, NoRunner
  <2>2. RowsOf(0) = <<>> /\ ExpectedEvents(0) = <<>>
    BY DEF RowsOf, ExpectedEvents
  <2>3. Captured
    BY <2>1, <2>2 DEF Init, NoRunner, Captured, Wrote
  <2>4. SegmentsTile
    BY DEF Init, SegmentsTile, Slot
  <2> QED BY <2>3, <2>4 DEF Init, PrefixAsCaptured
<1>2. Inv /\ J /\ [Next]_vars => J'
  <2> SUFFICES ASSUME Inv, J, [Next]_vars PROVE J'
    OBVIOUS
  <2>1. Captured'
    <3>1. CASE UNCHANGED vars
      BY <3>1 DEF vars, runnerVars, Captured, Wrote
    <3> QED BY <3>1, RunnerKeepsCaptured, OrchestratorKeepsCaptured DEF Next, Done
  <2> QED BY <2>1, PrefixStaysCaptured, TilingStays
<1> QED BY <1>1, <1>2, InvHolds, PTL DEF Spec

\* A restart loses nothing: whatever step a runner dies on, a death that its output
\* shows to be recoverable has left exactly the completed trials in the files, and
\* a level whose segments were all accepted passes the count checks of the merge.
THEOREM RestartKeepsEverything == Spec => []RestartLosesNothing
<1>1. Inv /\ Captured /\ PrefixAsCaptured /\ SegmentsTile => RestartLosesNothing
  BY AllRowsMerged, AllSlotsMerged, OneRowPerSlot
     DEF RestartLosesNothing, PrefixAsCaptured, MergeConsistent
<1> QED BY <1>1, InvHolds, RestartInvHolds, PTL

-----------------------------------------------------------------------------
(* IdleLevel: a level on a shared GPU is a level, so that everything above *)
(* holds of it, and under the idle rule no map that is short of a surface  *)
(* that fits the L2 gets into a verified level.  IdleInv follows a map from the *)
(* residency pass to the segment details.  Its heart is that the pass is   *)
(* over when the orchestrator looks for the second time, so that a         *)
(* co-tenant that comes later cannot shrink the map any more.              *)

\* A step of a level on a shared GPU is a step of a level, or none.
LEMMA StepIsLevelStep == [IdleNext]_all_vars => [Next]_vars
<1> SUFFICES ASSUME [IdleNext]_all_vars PROVE [Next]_vars
  OBVIOUS
<1>1. CASE ForeignArrives \/ ForeignLeaves
  BY <1>1 DEF ForeignArrives, ForeignLeaves
<1>2. CASE Runner /\ UNCHANGED idle_vars
  BY <1>2 DEF Next
<1>3. CASE IdleOrchestrator
  <2>1. Orchestrator
    BY <1>3 DEF IdleOrchestrator, IdleSpawn, IdleWriteGate, IdleWriteWork,
                IdleAccept, Blind, Orchestrator
  <2> QED
    BY <2>1 DEF Next
<1>4. CASE Done /\ UNCHANGED idle_vars
  BY <1>4 DEF Next
<1>5. CASE UNCHANGED all_vars
  BY <1>5 DEF all_vars
<1> QED
  BY <1>1, <1>2, <1>3, <1>4, <1>5 DEF IdleNext

\* A level that shares its GPU and waits for it is one of the levels of
\* CampaignLevel: neither the wait nor the co-tenant adds a step to the restart
\* protocol.
THEOREM IdleLevelIsALevel == IdleFairSpec => Spec
<1>1. IdleInit => Init
  BY DEF IdleInit
<1> QED
  BY <1>1, StepIsLevelStep, PTL DEF IdleFairSpec, Spec

\* Whatever the co-tenants do, every variable keeps its type, the restart budget
\* is never reached, no runner outlives its segment and a restart loses nothing.
THEOREM SharedLevelStaysSafe ==
  IdleFairSpec =>
    [](TypeOK /\ BudgetNeverExhausted /\ NoRunnerLeftBehind /\ RestartLosesNothing)
BY IdleLevelIsALevel, TypeCorrect, RestartsAreBounded, RunnersAreReaped,
   RestartKeepsEverything, PTL

-----------------------------------------------------------------------------

AfterGate == {"sample", "release", "drain", "late", "analyze", "exitwait",
              "prefix", "verify"}

\* The campaign gate's marker is written when the residency pass is over, and the
\* orchestrator has seen it when it samples.
PassIsOver ==
  /\ "CAMPAIGN_GATE_WAIT" \in markers => rpc \notin {"starting", "pregate"}
  /\ opc \in AfterGate => "CAMPAIGN_GATE_WAIT" \in markers

RuleApplies == mode.require_idle_gpu /\ mode.surface = "l2"

\* From the second look on, the segment's map is at least 0.999 of the idle one.
MapsWhole ==
  RuleApplies =>
    "short" \notin losses /\ (opc \in AfterGate \ {"sample"} => lost # "short")

\* A co-tenant in the first snapshot is overwritten when the first segment starts.
StartsIdle ==
  mode.require_idle_gpu /\ at_start.app =>
    /\ completed = 0 /\ crashes = 0 /\ segments = <<>>
    /\ opc \in {"loop", "cleanup", "done"}
    /\ status # "verified"

IdleTypes ==
  /\ lost \in Losses /\ losses \subseteq Losses
  /\ foreign \in BOOLEAN /\ at_start \in Snapshots

IdleInv == IdleTypes /\ PassIsOver /\ MapsWhole /\ StartsIdle

\* Before the first segment no map was taken.
LEMMA InitIdle == IdleInit => IdleInv
BY DEF IdleInit, Init, NoRunner, IdleInv, IdleTypes, PassIsOver, MapsWhole,
       StartsIdle, RuleApplies, AfterGate, Losses

\* A co-tenant that arrives takes nothing from a map that is already sampled from.
LEMMA ForeignKeepsIdle == IdleInv /\ (ForeignArrives \/ ForeignLeaves) => IdleInv'
<1> SUFFICES ASSUME IdleInv, ForeignArrives \/ ForeignLeaves PROVE IdleInv'
  OBVIOUS
<1> USE DEF IdleInv, IdleTypes, PassIsOver, MapsWhole, StartsIdle, RuleApplies,
            vars, levelVars, fileVars, runnerVars
<1>1. CASE ForeignArrives
  <2>1. opc \in AfterGate => ~Measuring
    BY DEF Measuring
  <2>2. opc \in AfterGate => lost' = lost
    BY <1>1, <2>1 DEF ForeignArrives
  <2>3. lost' \in Losses
    BY <1>1 DEF ForeignArrives, AtLeast, Losses
  <2> QED
    BY <1>1, <2>2, <2>3 DEF ForeignArrives, AfterGate
<1>2. CASE ForeignLeaves
  BY <1>2 DEF ForeignLeaves
<1> QED
  BY <1>1, <1>2

\* The runner writes the marker when it leaves the pass, and never takes it back.
LEMMA RunnerKeepsIdle ==
  IdleInv /\ TypeOK /\ Runner /\ UNCHANGED idle_vars => IdleInv'
<1> SUFFICES ASSUME IdleInv, TypeOK, Runner, UNCHANGED idle_vars PROVE IdleInv'
  OBVIOUS
<1>1. UNCHANGED <<levelVars, opc>>
  BY RunnerFrame
<1>2. PassIsOver'
  <2>1. "CAMPAIGN_GATE_WAIT" \in markers => "CAMPAIGN_GATE_WAIT" \in markers'
    BY DEF Runner, ReachPreAllocGate, ReachCampaignGate, ReadWork, TrialBegin,
           FlipSite, BeginPass, EvaluateImage, InjectedEnd, RestoreSite,
           SanityBegin, SanityEnd, FlushCacheRows, TrialEnd, FlushRows, Pass,
           Exit, Throw, Killed
  <2>2. "CAMPAIGN_GATE_WAIT" \in markers' => rpc' \notin {"starting", "pregate"}
    BY DEF IdleInv, PassIsOver, Alive,
           Runner, ReachPreAllocGate, ReachCampaignGate, ReadWork, TrialBegin,
           FlipSite, BeginPass, EvaluateImage, InjectedEnd, RestoreSite,
           SanityBegin, SanityEnd, FlushCacheRows, TrialEnd, FlushRows, Pass,
           Exit, Throw, Killed
  <2> QED
    BY <1>1, <2>1, <2>2 DEF IdleInv, PassIsOver
<1> QED
  BY <1>1, <1>2 DEF IdleInv, IdleTypes, MapsWhole, StartsIdle, RuleApplies,
                    idle_vars, levelVars

\* The steps of the orchestrator that do not look at the co-tenants.
LEMMA BlindKeepsIdle ==
  IdleInv /\ Inv /\ Blind /\ UNCHANGED idle_vars => IdleInv'
<1> SUFFICES ASSUME IdleInv, Inv, Blind, UNCHANGED idle_vars PROVE IdleInv'
  OBVIOUS
<1> USE DEF IdleInv, IdleTypes, PassIsOver, MapsWhole, StartsIdle, RuleApplies,
            AfterGate, idle_vars, levelVars, fileVars, runnerVars
<1>1. CASE GateReached
  BY <1>1 DEF GateReached
<1>2. CASE WriteRelease \/ PassSeen \/ DrainEnds \/ CheckAlive \/ Analyze \/ ExitSeen
  BY <1>2 DEF WriteRelease, PassSeen, DrainEnds, CheckAlive, Analyze, ExitSeen
<1>3. CASE FailClosed
  BY <1>3 DEF FailClosed
<1>4. CASE Cleanup
  BY <1>4 DEF Cleanup, Ends
<1>5. CASE CleanupStuck
  BY <1>5 DEF CleanupStuck, Ends
<1>6. CASE Merge
  <2>1. ~(completed = 0 /\ crashes = 0)
    BY <1>6, LevelAssumption DEF Merge
  <2> QED
    BY <1>6, <2>1 DEF Merge, Ends
<1> QED
  BY <1>1, <1>2, <1>3, <1>4, <1>5, <1>6 DEF Blind

\* The steps that do.
LEMMA LookKeepsIdle ==
  IdleInv /\ (IdleSpawn \/ IdleWriteGate \/ IdleWriteWork \/ IdleAccept) => IdleInv'
<1> SUFFICES ASSUME IdleInv, IdleSpawn \/ IdleWriteGate \/ IdleWriteWork \/ IdleAccept
             PROVE IdleInv'
  OBVIOUS
<1> USE DEF IdleInv, IdleTypes, PassIsOver, MapsWhole, StartsIdle, RuleApplies,
            AfterGate, idle_vars, levelVars, fileVars, runnerVars
<1>1. CASE IdleSpawn
  <2>1. at_start' \in Snapshots /\ lost' = "none"
        /\ UNCHANGED <<mode, foreign, losses, status, completed, crashes, segments>>
    BY <1>1 DEF IdleSpawn, Spawn
  <2>2. opc' \notin AfterGate /\ (opc' \notin {"loop", "cleanup", "done"} \/ opc = opc')
    BY <1>1 DEF IdleSpawn, Spawn
  <2>3. mode.require_idle_gpu => ~foreign /\ ~at_start'.app
    <3>1. mode.require_idle_gpu /\ segments = <<>> => at_start'.app = foreign /\ ~foreign
      BY <1>1 DEF IdleSpawn
    <3>2. mode.require_idle_gpu /\ segments # <<>> => at_start' = at_start /\ ~foreign
      BY <1>1 DEF IdleSpawn
    <3> QED BY <3>1, <3>2
  <2>4. PassIsOver'
    BY <1>1, <2>2 DEF IdleSpawn, Spawn
  <2> QED
    BY <2>1, <2>2, <2>3, <2>4 DEF Losses
<1>2. CASE IdleWriteGate
  <2>1. lost' \in Losses
    BY <1>2 DEF IdleWriteGate, IdleLosses, Losses
  <2> QED
    BY <1>2, <2>1 DEF IdleWriteGate, WriteGate
<1>3. CASE IdleWriteWork
  BY <1>3 DEF IdleWriteWork, WriteWork, residency_idle_failures
<1>4. CASE IdleAccept
  <2>1. opc \in {"prefix", "verify"} /\ opc' = "loop" /\ UNCHANGED <<status, markers, rpc>>
    BY <1>4 DEF IdleAccept, AcceptDeath, AcceptPass, EndSegment
  <2>2. RuleApplies => lost # "short"
    BY <2>1
  <2>3. ~(mode.require_idle_gpu /\ at_start.app)
    BY <2>1
  <2>4. /\ UNCHANGED <<mode, foreign, at_start>> /\ lost' = "none"
        /\ losses' = losses \cup ({lost} \ {"none"})
    BY <1>4 DEF IdleAccept
  <2> QED
    BY <2>1, <2>2, <2>3, <2>4 DEF Losses
<1> QED
  BY <1>1, <1>2, <1>3, <1>4

\* So every step keeps it, along with the level's own invariant.
LEMMA NextKeepsIdle == IdleInv /\ Inv /\ [IdleNext]_all_vars => IdleInv'
<1> SUFFICES ASSUME IdleInv, Inv, [IdleNext]_all_vars PROVE IdleInv'
  OBVIOUS
<1>1. CASE ForeignArrives \/ ForeignLeaves
  BY <1>1, ForeignKeepsIdle
<1>2. CASE Runner /\ UNCHANGED idle_vars
  BY <1>2, RunnerKeepsIdle DEF Inv
<1>3. CASE IdleSpawn \/ IdleWriteGate \/ IdleWriteWork \/ IdleAccept
  BY <1>3, LookKeepsIdle
<1>4. CASE Blind /\ UNCHANGED idle_vars
  BY <1>4, BlindKeepsIdle
<1>5. CASE UNCHANGED all_vars \/ (Done /\ UNCHANGED idle_vars)
  <2>1. UNCHANGED all_vars
    BY <1>5 DEF Done, all_vars
  <2> QED
    BY <2>1 DEF IdleInv, IdleTypes, PassIsOver, MapsWhole, StartsIdle, RuleApplies,
                all_vars, vars, idle_vars, levelVars, fileVars, runnerVars
<1>6. \/ ForeignArrives \/ ForeignLeaves
      \/ Runner /\ UNCHANGED idle_vars
      \/ IdleSpawn \/ IdleWriteGate \/ IdleWriteWork \/ IdleAccept
      \/ Blind /\ UNCHANGED idle_vars
      \/ UNCHANGED all_vars \/ (Done /\ UNCHANGED idle_vars)
  BY DEF IdleNext, IdleOrchestrator
<1> QED
  BY <1>1, <1>2, <1>3, <1>4, <1>5, <1>6

\* No segment of a verified level that asked for an idle GPU sampled from a map of
\* less than 0.999 of a surface that fits the L2, however the co-tenants came and
\* went.  What the audit may still hold against the level is what the gate leaves to
\* it: the memory in use at the start, an n_cache that a loss within the 0.1% has
\* changed, and the size of the map of a surface above the gate's limit.
THEOREM IdleRuleHolds == IdleFairSpec => []IdleRunsStand
<1>1. IdleInv => IdleRunsStand
  <2> SUFFICES ASSUME IdleInv, status = "verified", mode.require_idle_gpu
               PROVE  /\ mode.surface = "l2" => "short" \notin losses
                      /\ audit_run \subseteq LeftToTheAudit
    BY DEF IdleRunsStand
  <2>1. ~at_start.app
    BY DEF IdleInv, StartsIdle
  <2>2. mode.surface = "l2" => "short" \notin losses
    BY DEF IdleInv, MapsWhole, RuleApplies
  <2> QED
    BY <2>1, <2>2 DEF audit_run, LeftToTheAudit
<1> QED
  BY <1>1, InitIdle, NextKeepsIdle, IdleLevelIsALevel, InvHolds, PTL
     DEF IdleFairSpec
=============================================================================
