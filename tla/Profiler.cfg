\* A ring of five cells, wrapped and reset in every phase.
CONSTANTS
  Capacity = 5
  Samples = {1, 2, 4}
  MaxPushes = 8
  Trims = {0, 5, 40, 100}
SPECIFICATION Spec
INVARIANTS
  ReadsTheWindow
  RingInv
  StatisticsByDefinition
  TrimDropsTheSlowest
PROPERTIES
  WindowSpec
