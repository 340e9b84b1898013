SPECIFICATION SamplerSpec
CONSTANTS
  UnitBytes = 2
  Layouts <- MCLayouts
  Images = 5
  Every = 2
  Strides = {1, 2}
  PresweepStride = 2
  MidStride = 2
  LargeStride = 2
  Alternate = TRUE
  PassChoices = {1, 2}
  Bits = {0}
  MaxSites = 3
  MaxRedraws = 2
CHECK_DEADLOCK TRUE
INVARIANT MapMatchesProbes
INVARIANT MapAccepted
INVARIANT SweepsOnSchedule
INVARIANT FlipsWhileResident
INVARIANT SampleAccepted
