SPECIFICATION FairSpec
CONSTANTS
  MaxOutput = 2
  Capacity = 1
INVARIANT PollNeverBlocks
INVARIANT OutputIsComplete
PROPERTY BlockingCallsReturn
CHECK_DEADLOCK FALSE
