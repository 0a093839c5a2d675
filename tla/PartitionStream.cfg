SPECIFICATION Spec
CONSTANTS
  Countries = {c1, c2}
  CountThreshold = 2
  WindowPeriod = 2
  CleanupPeriod = 1
  StartTime = 1
  MaxTime = 7
  MaxEvents = 6
  MaxSkew = 1
INVARIANTS LimitIsReported NoFalseAlarm ReportsAreApart
PROPERTY ReportsExactly
CHECK_DEADLOCK FALSE
