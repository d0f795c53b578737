SPECIFICATION FairSpec
CONSTANTS
  c1 = c1
  c2 = c2
  Clients = {c1, c2}
  Plans <- MCPlans
  MaxWrites = 1
  High = 2
  Low = 1
  Queue = 1
  MaxPieces = 4
  MaxIn = 3
  Streams = {s1}
  Shapes <- MCShapes
  Frame = 1
  MaxBodyWrites = 2
  MaxExtras = 2
  Parsers = {x1, x2}
  Messages <- MCMessages
  MaxMessages = 2
  Jobs <- MCJobs
  Room = 2
  MaxMessagesIn = 2
  MaxSends = 2
  Bodies <- MCBodies
  Views = {0, 1, 2}
  MaxWhole = 2
  MaxReads = 2
  Services = {w1, w2}
  Peers = {w1}
  MaxCalls = 2
  MaxRenewals = 1
  MaxFailures = 1
INVARIANTS EndMeansAll NothingLeft
PROPERTIES AllSettle
CHECK_DEADLOCK FALSE
