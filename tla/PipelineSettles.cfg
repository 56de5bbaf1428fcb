SPECIFICATION FairSpec
CONSTANTS
  Rows = {1, 2}
  OffScreen = 0
  Sizes = {"landscape"}
  InitSize = "landscape"
  Area <- MCArea
  Backend = "sw"
  Clients = {c1}
  FrameCap = 2
  ControlCap = 1
  KeyframeInterval = 2
  EncodeMayFail = FALSE
  GlMayFail = TRUE
  ReinitMayFail = FALSE
  MaxCommits = 2
  MaxResizes = 0
  MaxAsks = 1
  MaxRates = 1
INVARIANT NoForgottenChange
INVARIANT KeyframeNotForgotten
PROPERTY Settles
