\* Two rows of three pixels padded to four, every orbit, every range of rows.
CONSTANTS
  Kernels = {"scalar", "neon", "avx2"}
  Lanes <- LanesOf
  QuietNan = {"neon", "avx2"}
  Saturating = {"avx2"}
  Rows = 2
  Width = 3
  MaxLanes = 4
  MaxIter = 2
  CountLimit = 3
  Exits = {"out"}
SPECIFICATION FairSpec
INVARIANTS
  ReproducesScalar WritesItsRows KernelInv
PROPERTIES
  KernelEnds
CHECK_DEADLOCK FALSE
