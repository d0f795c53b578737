SPECIFICATION FairSpec
CONSTANTS
  None = None
  Sent = Sent
  Consumers = {cache, worker}
  UserToken = {TRUE}
  MaxTokens = 1
  Dirs = {d1}
  Files = {f1}
  MaxTurns = 1
  MaxAsked = 2
  MaxChanges = 2
INVARIANTS NothingMissed EndsAgree EmptyIsQuiet
PROPERTIES ChangesSurface
CHECK_DEADLOCK FALSE
