------------------------------ MODULE LoopState ------------------------------
(***************************************************************************)
(* What StoreConsumer and ReaderLoop have in common: a loop that reads one *)
(* message of a partition after another with a client of a consumer group, *)
(* and holds one message at a time.                                        *)
(***************************************************************************)
EXTENDS Integers, FiniteSets

CONSTANTS
  MaxLog,      \* bound: messages in the partition
  MaxFaults,   \* bound: failures of Kafka, of the database or of the process
  MaxRestarts  \* bound: times the process is started again

VARIABLES
  program,     \* which of the programs this is: chosen in Init and fixed
  committed,   \* the group's offset at the broker: messages settled
  fetched,     \* messages before the client's position
  pc,          \* where the loop is; or "down"
  msg,         \* the message in hand, or Nothing
  readErrors,  \* errors of Read that were logged
  crashes, faults, restarts

Fault ==
  /\ faults < MaxFaults
  /\ faults' = faults + 1

=============================================================================
