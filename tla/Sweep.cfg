\* Three kernels, the middle one unavailable, and three sweeps.
CONSTANTS
  KernelCount = 3
  Available = {0, 2}
  Jobs = {j1, j2}
  MaxWarmup = 2
  MinSamples = 2
  SampleCapacity = 3
  WarmupInputs <- TypedWarmups
  SampleInputs = {1, 3, 9}
  DefaultWarmup = 1
  DefaultSamples = 2
  NoJob = NoJob
  MaxSweeps = 3
SPECIFICATION FairSpec
INVARIANTS
  StatsAreTheSweeps SweepInRange ProgressInBar
PROPERTIES
  StopsWhenDone SweepEnds
