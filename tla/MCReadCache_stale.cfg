SPECIFICATION Spec
CONSTANTS
  Paths <- MCPaths
  Origin <- MCOrigins
  Ops = {"write", "rm"}
  Asked <- MCFile
  Listings <- MCListings
  Behind = TRUE
  NoEntry = NoEntry
  NoBytes = NoBytes
  NoAnswer = NoAnswer
  MaxFiles = 1
  MaxGen = 2
  MaxChanges = 1
  MaxFlight = 2
INVARIANTS
  BelievedTrue
CHECK_DEADLOCK FALSE
