\* Two surfaces that may come and go in any order, with a title, an icon and a
\* scale object each, on outputs of two sizes and two scales.
SPECIFICATION WindowsSpec
CONSTANTS
  Surfaces = {w1, w2}
  Titles = {"editor"}
  Icons = {"pen"}
  NoIcon = "none"
  Sizes = {1, 2}
  Scales = {1, 2}
  Gl = TRUE
SYMMETRY SurfaceSymmetry
INVARIANT TopHasFocus
INVARIANT FillsOutput
INVARIANT ScaleKnown
PROPERTY OnlyTopSetsIcon
