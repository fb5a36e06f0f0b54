CONSTANTS
  kMaxRenderThreads = 3
  StartCounts = {2, 9}
  ThreadCounts = {0, 2, 9}
  Heights = {1, 2}
  MaxHeight = 2
  MaxFrames = 3
  MaxStarts = 2
  StartPaced = TRUE
  GrowthPaced = TRUE
SPECIFICATION Spec
INVARIANTS
  PoolInv FrameComplete CountExact TalliesSumToHeight
PROPERTIES
  JobStable RendererSpec
CHECK_DEADLOCK FALSE
