SPECIFICATION Spec
CONSTANTS
  Messages = {m1, m2}
  Workers = {w1}
  BatchLimit = 2
  MaxAttempts = 2
  MaxFaults = 0
  MaxRestarts = 0
INVARIANTS RecordSentIsStored
CHECK_DEADLOCK FALSE
