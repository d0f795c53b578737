SPECIFICATION FairSpec
CONSTANTS
  None = None
  MaxOut = 1
  MaxIn = 2
  MaxMsgs = 2
  Sessions = {s1, s2}
  Attempts = 3
  MaxLosses = 1
  MaxBuffered = 2
  MaxFromPage = 2
  MaxFromWorker = 2
  MaxPrints = 3
  HighWater = 2
  MaxTyped = 3
  MaxReads = 2
  MaxWrites = 3
INVARIANTS OutputWhole ExitTrue ThreadFollows
PROPERTIES ExitTold
CHECK_DEADLOCK FALSE
