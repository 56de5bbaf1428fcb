\* A page or a native client: decoder errors, lost connections, resizes, sizes
\* the server clamps or refuses, frames that are drained, full queues.
SPECIFICATION ViewersSpec
CONSTANTS
  MaxPictures = 3
  Sizes = {1, 2, 3}
  MinSize = 2
  MaxSize = 2
  FrameCap = 1
  FeedCap = 1
  WireCap = 1
  MaxDecodeQueue = 1
  MaxAsks = 2
  MaxTroubles = 2
  NativePictures = 2
  Clients = {"page", "native"}
  PacketCap = 1
  NumSlots = 2
  MaxConfigures = 1
INVARIANT ViewersTypeOK
INVARIANT BuffersKept
PROPERTY AckedSize
 
CHECK_DEADLOCK FALSE
