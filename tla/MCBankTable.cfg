SPECIFICATION FaultSpec
CONSTANTS
  PageBits = 3
  PaBits = 5
  Baseline = 1
  Anchor = 6
  PilotProbes <- Probes
  SecondOffset = 4
  AnchorCandidates <- Candidates
  ColumnProbe = 1
  Worlds <- AllWorlds
  Shapes <- ThreeShapes
  CensusPages <- Census
  MaxRuns = 3
  BlockBytes = 2
  Bits = 2
  MaxAttempts = 2
  SampledRuns = 1
CHECK_DEADLOCK FALSE
INVARIANT AnswersSound
INVARIANT MisreadOutvoted
INVARIANT GatesBlameMisreads
INVARIANT RefusedOnlyByContest
INVARIANT SitesNeverCancel
INVARIANT LabelsHold
