CONSTANTS
  Ids = {a, b}
  Deadlines = {1, 2}
  Awaited = {1}
  Watched = {}
  Ops = {"submit", "run_next", "drain", "cancel", "result_cancel", "on_close", "status", "result_wait"}
  MaxRuns = 2
  MaxCalls = 4
  MaxNow = 1
SPECIFICATION Spec
INVARIANT CancelledNeverStarts
INVARIANT OutcomeAgrees
SYMMETRY Symmetry
CHECK_DEADLOCK FALSE
