CONSTANTS
  Ids = {a}
  Deadlines = {1}
  Awaited = {1}
  Watched = {}
  Ops = {"submit", "cancel"}
  MaxRuns = 1
  MaxCalls = 3
  MaxNow = 0
SPECIFICATION Spec
INVARIANT CancelReturns
CHECK_DEADLOCK FALSE
