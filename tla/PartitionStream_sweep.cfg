SPECIFICATION Spec
CONSTANTS
  Countries = {c1, c2}
  CountThreshold = 2
  WindowPeriod = 2
  CleanupPeriod = 1
  StartTime = 10
  MaxTime = 16
  MaxEvents = 4
  MaxSkew = 0
INVARIANTS SweepKeepsUp
CHECK_DEADLOCK FALSE
