\* Two resolutions, two palettes, four kernels of which one cannot run.
CONSTANTS
  Cap = 3
  Views <- ViewsOf
  Limits <- LimitsOf
  Resolutions = {1, 2}
  MaxPixels = 2
  Palettes = {p1, p2}
  Kernels = {0, 1, 2, 3}
  Available = {0, 2, 3}
  Scalar = 0
  Faults <- FaultsOf
  Black = Black
  NoColour = NoColour
  NoRow = NoRow
SPECIFICATION Spec
SYMMETRY Hues
INVARIANTS
  PictureIsOfFrame VerdictIsTruth TableIsWhole
