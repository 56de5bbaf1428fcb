\* Frames that stay on the GPU or not, resizes and changes of the rate whose
\* rebuilds may fail at every step, renders that fail.
SPECIFICATION VaapiSpec
CONSTANTS
  Sizes = {1, 2}
  Rates = {1, 2}
  NumTargets = 2
  QueueCap = 4
  MaxPictures = 6
  MaxPools = 2
  MaxBuilds = 3
INVARIANT RefsExact
INVARIANT FitsPipeline
PROPERTY PicturesFollow
\* The thread has ended.
CHECK_DEADLOCK FALSE
