SPECIFICATION FairSpec
CONSTANTS
  MaxLog = 5
  MaxFaults = 2
  MaxRuns = 4
INVARIANT OneLossPerRun
PROPERTIES ResultIsComplete BatchIsProcessed
CHECK_DEADLOCK FALSE
