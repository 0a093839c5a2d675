SPECIFICATION FairSpec
CONSTANTS
  MaxRetry = 1
  MaxLog = 2
  MaxFaults = 2
  MaxRuns = 2
INVARIANTS TypeOK CommittedIsProcessed RedeliveryIsBounded GracefulStopCommits ConsumerLivesWhileUp
PROPERTIES ShutdownEnds EveryMessageIsSettled
CHECK_DEADLOCK FALSE
