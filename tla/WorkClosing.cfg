CONSTANTS
  Ids = {a, b}
  Deadlines = {1}
  Awaited = {1}
  Watched = {2}
  Ops = {"submit", "run", "run_next", "cancel", "kill", "reset", "start", "stop", "result_cancel", "emit", "settle_source"}
  MaxRuns = 2
  MaxCalls = 5
  MaxNow = 0
SPECIFICATION FairSpec
INVARIANT QueueSound
INVARIANT EventsTellHistory
PROPERTY CancelledRunsClose
CHECK_DEADLOCK FALSE
