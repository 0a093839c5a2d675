SPECIFICATION FairSpec
CONSTANTS
  MaxLog = 3
  MaxFaults = 3
  MaxRestarts = 1
INVARIANTS ForwardedOrTold EndedForCause
PROPERTY LoopGoesOn
CHECK_DEADLOCK FALSE
