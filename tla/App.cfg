\* Two workloads, two kernels; every control in every frame, two sweeps.
CONSTANTS
  Workloads = {w1, w2}
  Palettes = {p1, p2}
  CltMin = 2
  RollingCapacity = 2
  FrameCapacity = 2
  NoWorkload = NoWorkload
  NoRate = NoRate
  NoPalette = NoPalette
  KernelCount = 3
  Available = {0, 2}
  MaxWarmup = 1
  MinSamples = 1
  SampleCapacity = 2
  WarmupInputs = {0}
  SampleInputs = {1}
  DefaultWarmup = 0
  DefaultSamples = 1
  NoJob = NoJob
  MaxSweeps = 2
SPECIFICATION FairSpec
INVARIANTS
  WindowIsHomogeneous DashboardIsCurrent BaselineIsScalar SettledComparison
PROPERTIES
  StepRenders
CHECK_DEADLOCK FALSE
