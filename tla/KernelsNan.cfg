\* A row of four whose orbits may also leave as no number.
CONSTANTS
  Kernels = {"scalar", "neon", "avx2"}
  Lanes <- LanesOf
  QuietNan = {"neon", "avx2"}
  Saturating = {"avx2"}
  Rows = 1
  Width = 3
  MaxLanes = 4
  MaxIter = 2
  CountLimit = 3
  Exits = {"out", "nan"}
SPECIFICATION Spec
INVARIANTS
  ReproducesScalar
CHECK_DEADLOCK FALSE
