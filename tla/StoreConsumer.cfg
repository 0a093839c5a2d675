SPECIFICATION FairSpec
CONSTANTS
  Requests = {r1, r2}
  MaxLog = 3
  MaxFaults = 2
  MaxRestarts = 1
INVARIANTS StoredAtMostOnce NoSilentLoss StrayRowsAreFailedReads
PROPERTY EveryMessageIsHandled
CHECK_DEADLOCK FALSE
