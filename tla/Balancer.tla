------------------------------ MODULE Balancer ------------------------------
(***************************************************************************)
(* The consumer group of examples_go/lecture7balancer: processes that each *)
(* run one poll loop over a RootActor, a map from the assigned partitions  *)
(* to PartitionActors (LimitActors).  Actors live in memory only.  When a  *)
(* partition is assigned its consumer rewinds it by two windows, so that a *)
(* new actor rebuilds what the previous owner knew; when it is revoked its *)
(* actor is dropped.  Poll runs the rebalance callback and returns the     *)
(* messages, so within a process the two never overlap.                    *)
(*                                                                         *)
(* Kafka is external: logs in timestamp order, the group coordinator with  *)
(* its eager protocol (everybody gives up its partitions, then gets new    *)
(* ones), which expels a member that does not answer in time.  An expelled *)
(* member goes on with its old partitions until its next rebalance event.  *)
(***************************************************************************)
EXTENDS LimitActors, Sequences

CONSTANTS
  Partitions,
  Consumers,
  MaxTime,        \* bound: the clock
  MaxLog,         \* bound: messages in a partition
  MaxRebalances,  \* bound: rebalances after the first
  MaxFaults       \* bound: calls of OffsetsForTimes or Assign that fail

ASSUME GroupAssumption ==
  /\ MaxTime \in Nat \ {0}
  /\ MaxLog \in Nat /\ MaxRebalances \in Nat /\ MaxFaults \in Nat

VARIABLES
  now,           \* the clock
  log,           \* log[p]: the messages of partition p, [country, ts]
  rebalancing,   \* the coordinator waits for the members to rejoin
  members,       \* the members of the current generation
  granted,       \* granted[c]: the partitions c was last assigned
  phase,         \* phase[c]: "joining", "assigned" (event not seen), "active"
  position,      \* position[c]: next offset of each partition c fetches
  partitionMap,  \* partitionMap[c]: c's RootActor
  reports,       \* the ACTIVATIONs: [partition, event]
  highWater,     \* highWater[p]: how far anyone has processed p
  gap,           \* gap[p]: a handover of p skipped what a window may need
  rebalances, faults

logVars == <<now, log>>
groupVars == <<rebalancing, members, granted>>
consumerVars == <<phase, position, partitionMap>>
historyVars == <<reports, highWater, gap>>
vars == <<now, log, rebalancing, members, granted, phase, position,
          partitionMap, reports, highWater, gap, rebalances, faults>>

OffsetEnd == -1   \* kafka.OffsetEnd: start at the end of the log
NoPartitions == [p \in {} |-> 0]
Owned(c) == DOMAIN position[c]

Init ==
  /\ now = 1
  /\ log = [p \in Partitions |-> <<>>]
  /\ rebalancing = TRUE
  /\ members = {}
  /\ granted = [c \in Consumers |-> {}]
  /\ phase = [c \in Consumers |-> "joining"]
  /\ position = [c \in Consumers |-> NoPartitions]
  /\ partitionMap = [c \in Consumers |-> NoPartitions]
  /\ reports = {}
  /\ highWater = [p \in Partitions |-> 0]
  /\ gap = [p \in Partitions |-> FALSE]
  /\ rebalances = 0
  /\ faults = 0

-----------------------------------------------------------------------------
(***************************************************************************)
(* The environment: time, producers, the group coordinator.                *)
(***************************************************************************)
Tick ==
  /\ now < MaxTime
  /\ now' = now + 1
  /\ UNCHANGED <<log, groupVars, consumerVars, historyVars, rebalances, faults>>

\* A producer sends a message without a key and to kafka.PartitionAny: the
\* partition does not depend on the country.  (The consumer logs a message that
\* is no JSON and skips it.  The logs here are without them: offsets are only
\* compared.)
Produce(country, p) ==
  /\ Len(log[p]) < MaxLog
  /\ log' = [log EXCEPT ![p] = Append(@, [country |-> country, ts |-> now])]
  /\ UNCHANGED <<now, groupVars, consumerVars, historyVars, rebalances, faults>>

\* A member joins, leaves, or misses its heartbeats.
StartRebalance ==
  /\ ~rebalancing
  /\ rebalances < MaxRebalances
  /\ rebalances' = rebalances + 1
  /\ rebalancing' = TRUE
  /\ UNCHANGED <<logVars, members, granted, consumerVars, historyVars, faults>>

\* The processes that have joined are the new generation and get partitions.
NewGeneration ==
  LET joined == {c \in Consumers : phase[c] = "joining"}
  IN  /\ members' = joined
      /\ \E owner \in [Partitions -> joined] :
           granted' = [c \in Consumers |->
             IF c \in joined THEN {p \in Partitions : owner[p] = c} ELSE granted[c]]
      /\ phase' = [c \in Consumers |-> IF c \in joined THEN "assigned" ELSE phase[c]]
      /\ rebalancing' = FALSE
      /\ UNCHANGED <<logVars, position, partitionMap, historyVars, faults>>

CompleteRebalance ==
  /\ rebalancing
  /\ \A c \in Consumers : phase[c] = "joining"
  /\ NewGeneration
  /\ UNCHANGED rebalances

\* The coordinator stops waiting for a member that has not given up its
\* partitions and expels it.
CompleteWithout ==
  /\ rebalancing
  /\ \E c \in Consumers : phase[c] # "joining"
  /\ rebalances < MaxRebalances
  /\ rebalances' = rebalances + 1
  /\ NewGeneration

-----------------------------------------------------------------------------
(***************************************************************************)
(* A consumer process.                                                     *)
(***************************************************************************)
\* RootActor.OnPartitionRevoked for every partition of the event.
Mutant_KeepsActors(c) == partitionMap' = partitionMap
OnPartitionsRevoked(c) == partitionMap' = [partitionMap EXCEPT ![c] = NoPartitions]

\* Poll delivers RevokedPartitions: the callback drops the actors, the client
\* stops fetching and rejoins.
Revoked(c) ==
  /\ phase[c] = "active"
  /\ rebalancing \/ c \notin members
  /\ phase' = [phase EXCEPT ![c] = "joining"]
  /\ position' = [position EXCEPT ![c] = NoPartitions]
  /\ OnPartitionsRevoked(c)
  /\ UNCHANGED <<logVars, groupVars, historyVars, rebalances, faults>>

\* An expelled process, or one started again, makes the group rebalance.
Rejoin(c) ==
  /\ phase[c] = "joining" /\ ~rebalancing
  /\ rebalancing' = TRUE
  /\ UNCHANGED <<logVars, members, granted, consumerVars, historyVars, rebalances, faults>>

\* The process dies, its actors with it, and is started again.
Crash(c) ==
  /\ rebalances < MaxRebalances
  /\ rebalances' = rebalances + 1
  /\ phase' = [phase EXCEPT ![c] = "joining"]
  /\ position' = [position EXCEPT ![c] = NoPartitions]
  /\ partitionMap' = [partitionMap EXCEPT ![c] = NoPartitions]
  /\ rebalancing' = TRUE
  /\ UNCHANGED <<logVars, members, granted, historyVars, faults>>

\* How far the callback rewinds.
Mutant_OneWindow == WindowPeriod
RewindPeriod == 2 * WindowPeriod

\* The first offset at or after time t, or the end when there is none.
OffsetsForTimes(p, t) ==
  LET after == {i \in 1..Len(log[p]) : log[p][i].ts >= t}
  IN  IF after = {} THEN OffsetEnd ELSE (CHOOSE i \in after : \A j \in after : i <= j) - 1

\* RootActor.OnPartitionAssigned for every partition of the result.
OnPartitionsAssigned(c, P) ==
  partitionMap' = [partitionMap EXCEPT ![c] =
    [p \in DOMAIN @ \cup P |-> IF p \in DOMAIN @ THEN @[p] ELSE NewPartitionActor]]

\* An unprocessed message is so old that the windows it ends begin before
\* the point the actor is rewound to.
TooLate(p) ==
  \E i \in 1..Len(log[p]) : i > highWater[p] /\ log[p][i].ts < now - WindowPeriod

\* Poll delivers AssignedPartitions.
Assigned(c) ==
  /\ phase[c] = "assigned"
  /\ phase' = [phase EXCEPT ![c] = "active"]
  /\ position' = [position EXCEPT ![c] =
       [p \in granted[c] |-> OffsetsForTimes(p, now - RewindPeriod)]]
  /\ OnPartitionsAssigned(c, granted[c])
  /\ gap' = [p \in Partitions |-> gap[p] \/ (p \in granted[c] /\ TooLate(p))]
  /\ UNCHANGED <<logVars, groupVars, reports, highWater, rebalances, faults>>

\* OffsetsForTimes or Assign fails: the callback logs it and goes on, and the
\* client fetches nothing.  Actors are made for what the lookup has found.
OffsetInvalid == -1001
Mutant_WithoutOffsets(c) == [p \in granted[c] |-> OffsetInvalid]  \* the event's partitions
AfterFailedLookup(c) == NoPartitions

AssignedNothing(c) ==
  /\ phase[c] = "assigned"
  /\ faults < MaxFaults
  /\ faults' = faults + 1
  /\ phase' = [phase EXCEPT ![c] = "active"]
  /\ position' = [position EXCEPT ![c] = AfterFailedLookup(c)]
  /\ UNCHANGED partitionMap \/ OnPartitionsAssigned(c, granted[c])
  /\ UNCHANGED <<logVars, groupVars, historyVars, rebalances>>

EndOf(p) == Len(log[p])

\* The client asks the broker where the end is, after the fact: messages that
\* have come in since OffsetsForTimes are skipped.
ResolveEnd(c, p) ==
  /\ p \in Owned(c) /\ position[c][p] = OffsetEnd
  /\ position' = [position EXCEPT ![c][p] = EndOf(p)]
  /\ gap' = [gap EXCEPT ![p] = @ \/ \E i \in 1..Len(log[p]) :
               i > highWater[p] \/ log[p][i].ts >= now - WindowPeriod]
  /\ UNCHANGED <<logVars, groupVars, phase, partitionMap, reports, highWater,
                 rebalances, faults>>

\* The event of offset i of p as a new member of actor a's list: the list
\* may hold the same message more than once.
EventAt(a, p, i) ==
  LET m == log[p][i + 1]
      copies == {x \in a.subActors[m.country].entries : x.offset = i}
  IN  [offset |-> i, copy |-> Cardinality(copies), country |-> m.country, ts |-> m.ts]

\* Poll returns a message and the loop hands it to the actor of its partition.
Poll(c, p) ==
  /\ phase[c] = "active"
  /\ p \in Owned(c) /\ position[c][p] \in 0..(Len(log[p]) - 1)
  /\ LET a == partitionMap[c][p]
         e == EventAt(a, p, position[c][p])
     IN  /\ partitionMap' = [partitionMap EXCEPT ![c][p] = PartitionAddEvent(a, e)]
         /\ reports' = reports \cup
              {r \in {[partition |-> p, event |-> e]} : PartitionActivates(a, e)}
         /\ highWater' = [highWater EXCEPT ![p] = IF e.offset < @ THEN @ ELSE e.offset + 1]
  /\ position' = [position EXCEPT ![c][p] = @ + 1]
  /\ UNCHANGED <<logVars, groupVars, phase, gap, rebalances, faults>>

Next ==
  \/ Tick
  \/ \E country \in Countries, p \in Partitions : Produce(country, p)
  \/ StartRebalance
  \/ CompleteRebalance
  \/ CompleteWithout
  \/ \E c \in Consumers :
       \/ Revoked(c) \/ Rejoin(c) \/ Crash(c) \/ Assigned(c) \/ AssignedNothing(c)
       \/ \E p \in Partitions : ResolveEnd(c, p) \/ Poll(c, p)

Spec == Init /\ [][Next]_vars

\* The poll loop calls Poll for ever and the coordinator answers.  Nothing
\* makes the clock tick, a producer send, a rebalance start or a call fail.
FairSpec ==
  /\ Spec
  /\ WF_vars(CompleteRebalance)
  /\ \A c \in Consumers :
       /\ WF_vars(Revoked(c)) /\ WF_vars(Rejoin(c)) /\ WF_vars(Assigned(c))
       /\ \A p \in Partitions : WF_vars(ResolveEnd(c, p)) /\ WF_vars(Poll(c, p))

-----------------------------------------------------------------------------
(***************************************************************************)
(* Properties.                                                             *)
(***************************************************************************)
TypeOK ==
  /\ now \in 1..MaxTime
  /\ members \subseteq Consumers
  /\ granted \in [Consumers -> SUBSET Partitions]
  /\ phase \in [Consumers -> {"joining", "assigned", "active"}]
  /\ \A c \in Consumers :
       /\ Owned(c) \subseteq Partitions
       /\ \A p \in Owned(c) : position[c][p] \in {OffsetEnd} \cup 0..Len(log[p])
  /\ \A p \in Partitions : highWater[p] \in 0..Len(log[p])
  /\ rebalances \in 0..MaxRebalances
  /\ faults \in 0..MaxFaults

\* The messages of p with m's country in the window that ends with m, by index.
WindowOf(p, m) ==
  {i \in 1..Len(log[p]) : /\ log[p][i].country = m.country
                          /\ log[p][i].ts \in (m.ts - WindowPeriod)..m.ts}

\* No rewind, double delivery or late owner makes an actor count a message
\* twice: a report stands on more than the threshold of different messages.
ReportsAreJustified ==
  \A r \in reports : Cardinality(WindowOf(r.partition, r.event)) > CountThreshold

\* At its arrival, message i of p was one of more than the threshold.
LimitAt(p, i) ==
  Cardinality({j \in WindowOf(p, log[p][i]) : j <= i}) > CountThreshold

Reported(p, m) ==
  \E r \in reports : /\ r.partition = p
                     /\ r.event.country = m.country
                     /\ r.event.ts \in (m.ts - WindowPeriod)..m.ts

\* Rewinding by two windows loses no limit: whoever owned the partition when,
\* a message that reached the limit and has been processed has been reported
\* in its window, unless a handover came so late as to leave a gap.
NoLimitIsLost ==
  \A p \in Partitions : ~gap[p] =>
    \A i \in 1..highWater[p] : LimitAt(p, i) => Reported(p, log[p][i])

\* Somebody was granted p and failed to assign it to its client.
Stuck(p) ==
  \E c \in members : p \in granted[c] /\ phase[c] = "active" /\ p \notin Owned(c)

\* Every limit in the log is eventually reported, by whichever owner.  A failed
\* lookup delays the report until the next rebalance, whose owner makes up for
\* it; only a partition whose owner stays without it, or a handover that left a
\* gap, goes without a report.
EveryLimitIsReported ==
  \A p \in Partitions : \A i \in 1..MaxLog :
    (i <= Len(log[p]) /\ LimitAt(p, i))
      ~> ((i <= Len(log[p]) /\ Reported(p, log[p][i])) \/ gap[p] \/ []Stuck(p))

=============================================================================
