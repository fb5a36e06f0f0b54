CONSTANTS
  kMaxRenderThreads = 3
  StartCounts = {3}
  ThreadCounts = {2, 3}
  Heights = {2}
  MaxHeight = 2
  MaxFrames = 2
  MaxStarts = 1
  StartPaced = TRUE
  GrowthPaced = FALSE
SPECIFICATION Spec
INVARIANTS
  FrameComplete
CHECK_DEADLOCK FALSE
