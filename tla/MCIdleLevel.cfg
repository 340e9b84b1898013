SPECIFICATION IdleFairSpec
CONSTANTS
  Trials = 3
  Sites = 2
  Images = 2
  Slack = 1
  Modes <- MCModes
INVARIANTS
  BudgetNeverExhausted
  RestartLosesNothing
  NoRunnerLeftBehind
  IdleRunsStand
PROPERTIES
  ImplementsSlots
  TerminatesOnceIdle
