SPECIFICATION Spec
CONSTANTS
  Rows = {1}
  OffScreen = 0
  Sizes = {"landscape", "portrait"}
  InitSize = "landscape"
  Area <- MCArea
  Backend = "gl"
  Clients = {c1}
  FrameCap = 2
  ControlCap = 1
  KeyframeInterval = 1
  EncodeMayFail = TRUE
  GlMayFail = TRUE
  ReinitMayFail = TRUE
  MaxCommits = 3
  MaxResizes = 1
  MaxAsks = 1
  MaxRates = 0
INVARIANT EncodedExact
INVARIANT BuffersBounded
