CONSTANTS
  kMaxRenderThreads = 2
  StartCounts = {2}
  ThreadCounts = {2}
  Heights = {2}
  MaxHeight = 2
  MaxFrames = 1
  MaxStarts = 1
  StartPaced = FALSE
  GrowthPaced = TRUE
SPECIFICATION FairSpec
PROPERTIES
  CallReturns
CHECK_DEADLOCK FALSE
