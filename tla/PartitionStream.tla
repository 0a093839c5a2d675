--------------------------- MODULE PartitionStream ---------------------------
(***************************************************************************)
(* One PartitionActor fed the messages of its partition, in offset order,  *)
(* by the poll loop of examples_go/lecture7balancer/consumer/main.go.      *)
(* Timestamps are the producers': within a partition one may be older than *)
(* its predecessors, by skew at most, which is 0 for an ordered stream.    *)
(***************************************************************************)
EXTENDS LimitActors

CONSTANTS
  StartTime,  \* the earliest timestamp
  MaxTime,    \* bound: the latest timestamp
  MaxEvents,  \* bound: the length of the stream
  MaxSkew     \* bound: the skew of the stream

ASSUME StreamAssumption ==
  /\ StartTime \in Nat \ {0}
  /\ MaxTime \in Nat
  /\ MaxEvents \in Nat
  /\ MaxSkew \in Nat

Time == StartTime..MaxTime
Event == [offset : 0..MaxEvents, country : Countries, ts : Time]

VARIABLES
  skew,      \* how much older than the newest timestamp a message may be: fixed
  actor,     \* the PartitionActor
  seen,      \* every event of the partition so far
  notified,  \* the events AddEvent answered with ACTIVATION
  newest     \* the latest timestamp so far

vars == <<skew, actor, seen, notified, newest>>

EntryActor == [activationTime : Time \cup {ZeroTime}, entries : SUBSET Event]

TypeOK ==
  /\ skew \in 0..MaxSkew
  /\ actor \in [keys : SUBSET Countries,
                subActors : [Countries -> EntryActor],
                nextCleanup : Nat]
  /\ seen \subseteq Event
  /\ notified \subseteq seen
  /\ newest \in Nat

Init ==
  /\ skew \in 0..MaxSkew
  /\ actor = NewPartitionActor
  /\ seen = {}
  /\ notified = {}
  /\ newest = 0

\* The loop hands a message to AddEvent and reports an ACTIVATION.  (A message
\* that does not decode is logged and skipped: it is no part of the stream.)
Receive(e) ==
  /\ Cardinality(seen) < MaxEvents
  /\ e.offset = Cardinality(seen)
  /\ e.ts >= newest - skew
  /\ actor' = PartitionAddEvent(actor, e)
  /\ seen' = seen \cup {e}
  /\ notified' = notified \cup {x \in {e} : PartitionActivates(actor, e)}
  /\ newest' = IF e.ts > newest THEN e.ts ELSE newest
  /\ UNCHANGED skew

Next ==
  \E c \in Countries, t \in Time :
    Receive([offset |-> Cardinality(seen), country |-> c, ts |-> t])

Spec == Init /\ [][Next]_vars

-----------------------------------------------------------------------------
(***************************************************************************)
(* Properties.                                                             *)
(***************************************************************************)

\* On a stream in timestamp order the actors, with their lazy cleaning and their
\* sweeps, report exactly what LimitDetector reports: the window is closed at both
\* ends, no window is reported twice, and the limit is the event after the
\* CountThreshold-th (not that event itself, as the README asks).
Detector == INSTANCE LimitDetector
ReportsExactly ==
  /\ Detector!DetectorInit
  /\ [][skew = 0 => Detector!DetectorNext]_<<seen, notified>>

Of(c, S) == {e \in S : e.country = c}
Since(t, S) == {e \in S : e.ts >= t}

\* However the timestamps are disordered, a country with more than the
\* threshold of events in the newest window has been reported, at most a
\* window earlier than that window begins.
LimitIsReported ==
  \A c \in Countries :
    Cardinality(Since(newest - WindowPeriod, Of(c, seen))) > CountThreshold
      => Since(newest - 2 * WindowPeriod, Of(c, notified)) # {}

\* A report stands on more than the threshold of events that lie, disorder
\* apart, in one window.
NoFalseAlarm ==
  \A n \in notified :
    LET around == {e \in Of(n.country, seen) :
                     n.ts - WindowPeriod <= e.ts /\ e.ts <= n.ts + skew}
    IN  Cardinality(around) > CountThreshold

\* A country is not reported twice for the same window: two reports are more
\* than a window apart, disorder apart.
ReportsAreApart ==
  \A m, n \in notified :
    m # n /\ m.country = n.country
      => m.ts - n.ts > WindowPeriod - skew \/ n.ts - m.ts > WindowPeriod - skew

\* A key of the map is a country whose actor still holds something that one
\* window and one cleanup period ago would not have swept away.
SweepKeepsUp ==
  \A c \in actor.keys :
    LET a == actor.subActors[c]
        horizon == newest - WindowPeriod - CleanupPeriod
    IN  a.activationTime >= horizon \/ Since(horizon, a.entries) # {}

=============================================================================
