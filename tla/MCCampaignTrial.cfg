SPECIFICATION Spec
CONSTANTS
  Weights = {conv}
  Scratch = {scratch}
  Input = data
  Outputs = {}
  Bits = {b0, b1}
  Images = 3
  campaign_input <- MCInput
  sample_index = 0
  MaxDram = 2
  MaxCache = 2
  MaxFaults = 3
SYMMETRY BitSymmetry
CHECK_DEADLOCK TRUE
INVARIANTS
  ChecksNeverSelfInflicted
  ExactExposure
  TrialLeavesNoTrace
  ReplayAccepts
