\* One session, every timer and two incarnations: what a retry may repeat.
SPECIFICATION Spec
CONSTANTS
  Sids = {s1}
  Kinds = {fs}
  Recorded = {fs}
  NoPort = NoPort
  Heartbeat = TRUE
  XhrDeadline = TRUE
  SyncRetries = 1
  AttachAttempts = 2
  ReplayWindow = 1
  MaxSeq = 2
  MaxPorts = 2
  MaxInc = 2
  MaxPush = 1
INVARIANTS TrueAnswer NoCrossedReply SidebandOnce ClosedPortIsLast
PROPERTIES RerunOnlyPastWindow
CHECK_DEADLOCK FALSE
