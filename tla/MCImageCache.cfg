SPECIFICATION Spec
CONSTANTS
  r1 = r1
  r2 = r2
  spec1 = spec1
  spec2 = spec2
  listA = listA
  listB = listB
  name = name
  pid1 = pid1
  pid2 = pid2
  Runners <- MCRunners
  Settings <- MCSettings
  Lists <- MCLists
  Paths = {name}
  PathOf <- MCPathOf
  Pids <- MCPids
  Chunks = 2
  Edits <- MCEdits
  MaxVersion = 1
INVARIANTS
  PublishedWhole
  SettingsNeverMixed
  StagedAsFresh
SYMMETRY MCSymmetry
CHECK_DEADLOCK FALSE
