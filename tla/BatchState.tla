------------------------------ MODULE BatchState ------------------------------
(***************************************************************************)
(* What BatchConsumer and ConsumerLifecycle have in common: a program that *)
(* takes messages of a partition in batches, processes a batch as a whole, *)
(* and may be run again when it has ended.                                 *)
(***************************************************************************)
EXTENDS Integers

CONSTANTS
  MaxLog,     \* bound: messages in the partition
  MaxFaults,  \* bound: failures of Kafka, of the JVM or of the process
  MaxRuns     \* bound: times the program is run

VARIABLES
  logEnd,     \* messages in the partition
  committed,  \* messages before the group's offset at the broker
  pc,         \* where main or the consumer thread is; or "down"
  batch,      \* the messages of the batch
  processed,  \* processed[o]: times message o was processed
  faults, runs

Fault ==
  /\ faults < MaxFaults
  /\ faults' = faults + 1

=============================================================================
