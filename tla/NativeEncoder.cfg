\* Every failure of creation, with and without AVX2.
CONSTANTS
  Address <- MCAddress
  Modes <- MCModes
  Backends <- MCBackends
  PageSizes <- MCPageSizes
SPECIFICATION LifeSpec
INVARIANTS
  NothingLeaks
  RunsFinishedCode
  ModeHonoured
