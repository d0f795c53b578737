\* One descriptor, nobody else: is it a file with an offset?
SPECIFICATION Spec
CONSTANTS
  Paths = {p1}
  Owners = {w1}
  Modes = {"r+", "w+", "a+", "r"}
  Existing = {p1}
  NativeRange = {TRUE, FALSE}
  Null = Null
  NoBuf = NoBuf
  Failed = Failed
  Positions = {1}
  Lengths = {1, 2}
  Calls = {"read", "readFile", "write", "appendFile", "writeFile", "truncate", "sync", "stat"}
  Foreign = FALSE
  MaxOpen = 1
  MaxFds = 1
  MaxOps = 3
INVARIANTS BufferTells NoSilentLoss
PROPERTIES IsPosixFile
CHECK_DEADLOCK FALSE
