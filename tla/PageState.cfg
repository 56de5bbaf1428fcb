SPECIFICATION Spec
CONSTANTS
  h1 = h1
  h2 = h2
  page = page
  Handlers = {h1, h2}
  Pages = {page}
  PageOf <- OnePage
  Titles = {"a", "b"}
  Icons = {"none", "icon"}
  NoIcon = "none"
  Ids = {"finger"}
  TouchCap = 1
  PeersStall = TRUE
  MayShutDown = TRUE
  MaxMeta = 2
  MaxTouches = 0
INVARIANT PageCurrent
CHECK_DEADLOCK FALSE
