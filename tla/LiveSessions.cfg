CONSTANTS
    s1 = s1
    alpha = alpha
    beta = beta
    broken = broken
    Ids = {s1}
    Sources = {alpha, beta, broken}
    Valid = {alpha, beta}
    Revision <- MCRevision
    NoSource = NoSource
    NoTarget = NoTarget
    MaxGeneration = 3
    MaxQueued = 2
    MaxBoundaries = 3
    MaxRuns = 2
SPECIFICATION Spec
INVARIANT ControllerOwnsTarget
INVARIANT StatusAgrees
INVARIANT FenceIdentifiesExecution
INVARIANT TerminalEventIsExact
PROPERTY CancelledStaysCancelled
PROPERTY ReplacementRecovers
CHECK_DEADLOCK FALSE
