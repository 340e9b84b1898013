SPECIFICATION Spec
CONSTANTS
  MaxVa = 40
  PageBytes = 8
  Universe <- MCUniverse
  Linked <- MCLinked
  Runs <- MCRuns
  HandWorks <- MCHandWorks
  BindingBit = 5
  InternalBit = 2
  EngineValues <- MCEngineValues
CHECK_DEADLOCK FALSE
INVARIANTS
  SnapshotIsBijection
  InjectedExactly
  PassMeansRestored
  
