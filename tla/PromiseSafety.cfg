CONSTANTS
  Promises = {p1, p2, p3}
  Continuations = {c1, c2}
  TaskResults <- PromisesOrValues
  Scheduled = {}
  Cooperative = {}
  Blocking = {}
  Hooked = {}
  None = None
  Ops = {"settle", "cancel", "on_settle", "adopt", "wait_state", "register_progress", "schedule", "set_poller", "set_cancel_hook"}
  MaxCalls = 4
  MaxDepth = 20
SPECIFICATION Spec
INVARIANT HooksReleased
INVARIANT ContinuationsExactlyOnce
INVARIANT SubscribersVisible
INVARIANT AdoptersFollow
PROPERTY PromisesKeepContract
CHECK_DEADLOCK FALSE
SYMMETRY Symmetry
