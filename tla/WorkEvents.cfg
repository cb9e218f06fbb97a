CONSTANTS
  Cursors = {c1, c2}
  MaxEvents = 4
  MaxCalls = 7
SPECIFICATION FairSpec
INVARIANT NoMissedWakeup
PROPERTY StreamsKeepContract
CHECK_DEADLOCK FALSE
