\* Two fingers, a key and two buttons, and two windows that lock or confine the
\* pointer, come and go, against queues of one event and a connection that may
\* be lost while its handler runs on.
SPECIFICATION SeatSpec
CONSTANTS
  Surfaces = {"w1", "w2"}
  Titles = {}
  Icons = {}
  NoIcon = "none"
  Sizes = {1}
  Scales = {1}
  Gl = FALSE
  Ids = {1, 2}
  Keys = {"ctrl"}
  Buttons = {"left", "right"}
  Constraints = {"lock", "confine", "region"}
  QueueCap = 1
  MayLeave = TRUE
  MaxUser = 3
  MaxRequests = 2
INVARIANT NoPhantomTouch
INVARIANT NoStuckKey
INVARIANT LockKnown
PROPERTY ClicksLand
