\* Two connections race to start the application, which may fail to start or
\* exit at any time, while another compositor may come and go, devices and
\* applications copy, and the server may be told to shut down.
SPECIFICATION NestedSpec
CONSTANTS
  Conns = {"c1", "c2"}
  Displays = {"wayland-0"}
  HasCommand = TRUE
  SpawnMayFail = TRUE
  MayTimeOut = TRUE
  MaxPolls = 1
  Values = {"a", "b"}
  QueueCap = 1
  MaxCopies = 2
INVARIANT NestedTypeOK
INVARIANT OneApp
INVARIANT BridgeAgrees
PROPERTY AppLifeKept
PROPERTY AppExitStops
\* The server is down in the end.
CHECK_DEADLOCK FALSE
