SPECIFICATION FairSpec
CONSTANTS
  Countries = {k1}
  CountThreshold = 1
  WindowPeriod = 1
  CleanupPeriod = 1
  Partitions = {p1}
  Consumers = {c1, c2}
  MaxTime = 4
  MaxLog = 3
  MaxRebalances = 2
  MaxFaults = 1
INVARIANTS TypeOK ReportsAreJustified NoLimitIsLost
CHECK_DEADLOCK FALSE
PROPERTY EveryLimitIsReported
