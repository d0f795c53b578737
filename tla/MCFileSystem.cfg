SPECIFICATION Spec
CONSTANTS
  Names = {"a", "m"}
  Point = "m"
  MaxCalls = 1
  MaxOthers = 1
  Count = 2
  Askers = {1}
  Points <- MCPoints
  Leaf <- MCLeaf
  Nil = Nil
  Retries = 2
  MaxMade = 2
  MaxAsked = 2
  Callers = {"k1", "k2"}
  Writers = {"k2"}
  MaxTabs = 1
  Text <- MCText
  Size = 1
  MaxChunk = 3
  MaxWrites = 3
  MaxChunks = 3
  MaxHandles = 4
  MinLength = 2
  MaxLength = 2
INVARIANTS
  ListingsAgree
  BytesKept
  CallShows
PROPERTIES
  ReadOnlyHolds
CHECK_DEADLOCK FALSE
