SPECIFICATION Spec
CONSTANTS
  Paths <- MCPaths
  Origin <- MCOrigin
  Ops = {"write", "mkdir", "rm", "rename", "utimes", "copy", "empty"}
  Asked <- MCFiles
  Listings <- MCListings
  Behind = FALSE
  NoEntry = NoEntry
  NoBytes = NoBytes
  NoAnswer = NoAnswer
  MaxFiles = 1
  MaxGen = 1
  MaxChanges = 2
  MaxFlight = 1
INVARIANTS
  BelievedTrue
  ListingsTrue
CHECK_DEADLOCK FALSE
