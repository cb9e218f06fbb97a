CONSTANTS
  Ids = {a, b}
  Deadlines = {1, 2}
  Awaited = {}
  Watched = {}
  Ops = {"submit", "drain"}
  MaxRuns = 2
  MaxCalls = 3
  MaxNow = 1
SPECIFICATION Spec
PROPERTY DrainEmptiesQueue
CHECK_DEADLOCK FALSE
