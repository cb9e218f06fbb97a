CONSTANTS
  Promises = {p1, p2}
  Continuations = {c1}
  TaskResults <- PromisesOrValues
  Scheduled = {p1}
  Cooperative = {}
  Blocking = {p2}
  Hooked = {p1}
  None = None
  Ops = {"settle", "cancel", "on_settle", "adopt", "wait_state", "wait_state_timeout", "set_waiter", "set_cooperative_poller"}
  MaxCalls = 3
  MaxDepth = 16
SPECIFICATION FairSpec
PROPERTY CallsReturn
PROPERTY CallbacksAreRun
PROPERTY CancelReachesSource
CHECK_DEADLOCK FALSE
