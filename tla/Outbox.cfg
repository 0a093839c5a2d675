SPECIFICATION FairSpec
CONSTANTS
  Messages = {m1, m2}
  Workers = {w1, w2}
  BatchLimit = 2
  MaxAttempts = 2
  MaxFaults = 1
  MaxRestarts = 1
INVARIANTS SentIsPublished DuplicatesAccountedFor SomeWorkerRuns
PROPERTIES ImplementsPromise Drained
CHECK_DEADLOCK FALSE
