SPECIFICATION FairSpec
CONSTANTS
  h1 = h1
  h2 = h2
  page = page
  Handlers = {h1, h2}
  Pages = {h1, h2}
  PageOf <- EachItsPage
  Titles = {"a", "b"}
  Icons = {"none"}
  NoIcon = "none"
  Ids = {"finger"}
  TouchCap = 1
  PeersStall = FALSE
  MayShutDown = FALSE
  MaxMeta = 0
  MaxTouches = 2
INVARIANT NoPhantomTouches
INVARIANT NoMissedReplacement
INVARIANT NewestKept
PROPERTY OneServed
CHECK_DEADLOCK FALSE
