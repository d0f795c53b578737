SPECIFICATION FairSpec
CONSTANTS
  None = None
  c1 = c1
  Clients = {c1}
  Paths <- Tree
  Horizon = 1
  Attempts = 1
  Budget = 2
  MaxWait = 2
  MaxCalls = 1
  MaxForeign = 2
INVARIANTS DoneOnce ListingWhole
PROPERTIES CallEnds
CHECK_DEADLOCK FALSE
