CONSTANTS
  Ids = {a, b, c}
  Deadlines = {1}
  Awaited = {1}
  Watched = {1}
  Ops = {"submit", "submit_child", "run_next", "cancel", "settle_source", "on_close", "result_cancel"}
  MaxRuns = 3
  MaxCalls = 6
  MaxNow = 0
SPECIFICATION Spec
INVARIANT ScopeClosesLast
INVARIANT NothingLeftToFinish
INVARIANT CancellationFlowsDown
SYMMETRY Symmetry
CHECK_DEADLOCK FALSE
