SPECIFICATION FairSpec
CONSTANTS
  Sandboxes = {1}
  MaxEvaluations = 2
  SessionNames = {"ROOT", "A"}
  MaxMounts = 2
INVARIANT MountsBalanced
INVARIANT StatusIsCoherent
PROPERTY SandboxesKeepContract
PROPERTY ClosingEnds
CHECK_DEADLOCK FALSE
