SPECIFICATION Spec
CONSTANTS
  Rows = {1, 2}
  OffScreen = 0
  Sizes = {"landscape", "portrait", "large"}
  InitSize = "landscape"
  Area <- MCArea
  Backend = "sw"
  Clients = {c1}
  FrameCap = 2
  ControlCap = 1
  KeyframeInterval = 1
  EncodeMayFail = TRUE
  GlMayFail = TRUE
  ReinitMayFail = TRUE
  MaxCommits = 2
  MaxResizes = 1
  MaxAsks = 0
  MaxRates = 0
INVARIANT DrainedFramesAreOld
