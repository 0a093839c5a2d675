SPECIFICATION FairSpec
CONSTANTS
  Requests = {r1, r2}
  Partitions = {p1, p2}
  ListLength = 2
  BatchSize = 2
  MaxFaults = 2
INVARIANTS TypeOK LossIsTold ListOrder
PROPERTY EveryEntryIsSettled
CHECK_DEADLOCK FALSE
