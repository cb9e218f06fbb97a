CONSTANTS
  Promises = {p1, p2}
  Continuations = {c1}
  TaskResults <- PromisesOrValues
  Scheduled = {p1}
  Cooperative = {}
  Blocking = {}
  Hooked = {}
  None = None
  Ops = {"adopt"}
  MaxCalls = 2
  MaxDepth = 16
SPECIFICATION Spec
INVARIANT AdoptionAcyclic
CHECK_DEADLOCK FALSE
