SPECIFICATION Spec
CONSTANTS
  Scans <- RepeatedTerm
  Degrees = {2}
  HoldoutPart <- NoHoldout
  Rounds = 2
  PairBudget = 64
  TripleBudget = 512
  PoolSize = 256
  BeamWidth = 32
  SearchLimit = 32
  SearchBudget = 512
  GuardSlack = 4
CHECK_DEADLOCK FALSE
INVARIANT FitHonest
