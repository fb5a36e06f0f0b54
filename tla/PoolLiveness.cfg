CONSTANTS
  kMaxRenderThreads = 3
  StartCounts = {9}
  ThreadCounts = {0, 2, 9}
  Heights = {1, 2}
  MaxHeight = 2
  MaxFrames = 2
  MaxStarts = 1
  StartPaced = TRUE
  GrowthPaced = TRUE
SPECIFICATION FairSpec
INVARIANTS
  NoLostWakeup
PROPERTIES
  CallReturns StopReturns
CHECK_DEADLOCK FALSE
