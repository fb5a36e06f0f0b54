\* Every machine, every hardware report, every rate and every window in turn.
CONSTANTS
  MaxCacheBytes = 100
  MaxHz = 100
  HzPerMHz = 4
  KHzPerMHz = 2
  kCacheLineBytes = 64
  MaxClusters = 2
  Resolutions <- TheResolutions
  Places <- ThePlaces
  One = 3000
  EpsilonInverse = 1
  MinSpan = 6000
  MaxSpan = 15000
  kMaxRenderThreads = 3
  ThreadInputs <- TypedThreads
  Instances <- TheInstances
SPECIFICATION Spec
INVARIANTS
  NoIllegalInstruction OffersWhatRuns SnapshotIsSourced PanelMatchesPool ScaleMatchesGrade
  LetterboxInside
PROPERTIES
  CursorKeepsPoint
