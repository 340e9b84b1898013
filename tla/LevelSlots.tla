----------------------------- MODULE LevelSlots -----------------------------
(***************************************************************************)
(* What the restart protocol of a campaign level promises                  *)
(* (src/tools/g5_faultinj/run_g5_campaign.py, run_once): the level has one *)
(* slot per requested trial; runner processes consume the slots in order,  *)
(* each slot exactly once, as a completed trial or as the trial that       *)
(* killed its process; the level is verified only when every slot is       *)
(* consumed, and fails closed otherwise.                                   *)
(***************************************************************************)
EXTENDS Integers

CONSTANTS
  Trials       \* args.trials

Slot == 0 .. (Trials - 1)

VARIABLES
  slot,        \* what became of each trial slot
  level        \* the level's status

vars == <<slot, level>>

Init ==
  /\ slot = [s \in Slot |-> "open"]
  /\ level = "running"

\* A runner process takes the open slots from first on: c of them are
\* completed, and if it dies the next one is the trial it died on.  A process
\* that does not die leaves no slot open.
RunSegment(first, c, dies) ==
  /\ level = "running"
  /\ \A s \in Slot : slot[s] = "open" <=> s >= first
  /\ IF dies THEN first + c \in Slot ELSE first + c = Trials
  /\ slot' = [s \in Slot |->
                CASE s \in first .. (first + c - 1) -> "completed"
                  [] s = first + c                  -> "process_fatal"
                  [] OTHER                          -> slot[s]]
  /\ UNCHANGED level

Verify ==
  /\ level = "running"
  /\ \A s \in Slot : slot[s] # "open"
  /\ level' = "verified"
  /\ UNCHANGED slot

\* Fail closed: at any time, and for good.
Fail ==
  /\ level = "running"
  /\ level' \in {"failed", "raised"}
  /\ UNCHANGED slot

Next ==
  \/ \E first \in Slot, c \in 0 .. Trials, dies \in BOOLEAN :
       RunSegment(first, c, dies)
  \/ Verify
  \/ Fail

Spec == Init /\ [][Next]_vars
=============================================================================
