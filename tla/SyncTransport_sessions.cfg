\* Two sessions on one service worker, no deadline in the worker (WebKit).
SPECIFICATION FairSpec
CONSTANTS
  Sids = {s1, s2}
  Kinds = {fs}
  Recorded = {fs}
  NoPort = NoPort
  Heartbeat = TRUE
  XhrDeadline = FALSE
  SyncRetries = 1
  AttachAttempts = 1
  ReplayWindow = 1
  MaxSeq = 1
  MaxPorts = 2
  MaxInc = 2
  MaxPush = 0
INVARIANTS RoutingInv
PROPERTIES ParkedReturns
CHECK_DEADLOCK FALSE
