\* Opens, flushes by path and writes by path around two descriptors.
SPECIFICATION FairSpec
CONSTANTS
  Paths = {p1, p2}
  Owners = {w1}
  Modes = {"a+", "wx"}
  Existing = {}
  NativeRange = {FALSE}
  Null = Null
  NoBuf = NoBuf
  Failed = Failed
  Positions = {}
  Lengths = {1}
  Calls = {"write", "sync"}
  Foreign = TRUE
  MaxOpen = 1
  MaxFds = 3
  MaxOps = 2
INVARIANTS OpensApart
PROPERTIES FlushShows QueuesDrain
CHECK_DEADLOCK FALSE
