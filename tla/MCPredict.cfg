SPECIFICATION FaultSpec
CONSTANTS
  PageBits = 3
  PaBits = 5
  Baseline = 1
  Anchor = 6
  PilotProbes <- Probes
  SecondOffset = 4
  AnchorCandidates <- TwoCandidates
  ColumnProbe = 1
  Worlds <- FreshWorlds
  Shapes <- ThreeShapes
  CensusPages <- Census
  MaxRuns = 3
  BlockBytes = 2
  Bits = 2
  MaxAttempts = 2
  SampledRuns = 1
CHECK_DEADLOCK FALSE
INVARIANT PredictionsTrue
