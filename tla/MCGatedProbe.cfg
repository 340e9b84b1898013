SPECIFICATION FairSpec
CONSTANTS
  f1 = f1
  f2 = f2
  f3 = f3
  host = host
  Modes = {"trt", "alias", "scratch", "pool", "t2"}
  PageSize = 2
  VideoFrames = {f1, f2, f3}
  SysFrames = {host}
  NoFrame = NoFrame
  PtesPerQuery = 2
  Drivers <- MCDrivers
  Placements <- MCPlacements
INVARIANTS
  AcceptedMapIsTrue
  FailsForAReason
PROPERTIES
  ScriptEnds
