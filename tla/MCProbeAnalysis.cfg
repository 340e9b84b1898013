SPECIFICATION RelabelSpec
CONSTANTS
  PageBits = 3
  PaBits = 6
  Baseline = 1
  Anchor = 6
  PilotProbes <- Probes
  SecondOffset = 4
  AnchorCandidates <- Candidates
  ColumnProbe = 1
  Worlds <- AllWorlds
  Modes = {"sanity", "bit-scan", "pair-scan", "census", "table-build", "predict-check"}
  Args <- Options
  Disturbances = {6, 8}
CHECK_DEADLOCK FALSE
INVARIANT VerdictsTrue
INVARIANT OwnPlanAccepted
