SPECIFICATION FairSpec
CONSTANTS
  MaxLog = 2
  MaxKills = 1
  MaxRestarts = 1
INVARIANTS TypeOK CleanStopsCountOnce
PROPERTY ShutdownEnds
CHECK_DEADLOCK FALSE
