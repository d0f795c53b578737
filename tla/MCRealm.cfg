SPECIFICATION FairSpec
CONSTANTS
  None = None
  RequireSyncFs = TRUE
  MaxOps = 2
  MaxPrints = 1
  xjs = xjs
  xindex = xindex
  gjs = gjs
  x = x
  g = g
  Files = {xjs, xindex, gjs}
  Specs = {x, g}
  Candidates <- MCCandidates
  Requires <- MCRequires
  MaxVersion = 2
  MaxBodies = 3
  MaxRuns = 2
  Depth = 3
  Facts <- MCFacts
  MaxResolves = 2
  MaxChanges = 1
  Timers = {1, 2}
  MaxImmediates = 2
  MaxTime = 3
INVARIANTS NothingOutlives OutputFirst DrainIsIdle RunsOnce LoadsAnew
PROPERTIES ExitSettles
CHECK_DEADLOCK FALSE
