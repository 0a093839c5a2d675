----------------------------- MODULE LimitActors -----------------------------
(***************************************************************************)
(* The actors of examples_go/lecture7balancer/consumer/actor as operators: *)
(* an EntryActor counts the events of one country in a sliding window and  *)
(* reports when there are more than a threshold of them, a PartitionActor  *)
(* owns the entry actors of one partition and sweeps them now and then.    *)
(*                                                                         *)
(* An event is a record [offset, country, ts].  The list of an EntryActor  *)
(* is only counted and filtered, so it is a set of events here.  Go's zero *)
(* time, which the code uses for "never", is 0; real timestamps are later. *)
(***************************************************************************)
EXTENDS Integers, FiniteSets

CONSTANTS
  Countries,       \* the keys of subActorMap
  CountThreshold,  \* Config.CountThreshold (5 in main.go)
  WindowPeriod,    \* Config.WindowPeriod (30 s)
  CleanupPeriod    \* Config.CleanupPeriod (15 s)

ASSUME ConfigAssumption ==
  /\ CountThreshold \in Nat
  /\ WindowPeriod \in Nat
  /\ CleanupPeriod \in Nat \ {0}

ZeroTime == 0

-----------------------------------------------------------------------------
(***************************************************************************)
(* EntryActor.                                                             *)
(***************************************************************************)
NewEntryActor == [activationTime |-> ZeroTime, entries |-> {}]

\* Forget what happened before execTime.
Mutant_KeepsActivation(a, execTime) ==
  [a EXCEPT !.entries = {e \in @ : e.ts >= execTime}]
Mutant_OpenWindow(a, execTime) ==
  [activationTime |-> IF a.activationTime < execTime THEN ZeroTime ELSE a.activationTime,
   entries        |-> {e \in a.entries : e.ts > execTime}]
Mutant_DropsActivation(a, execTime) ==
  [activationTime |-> ZeroTime, entries |-> {e \in a.entries : e.ts >= execTime}]
EntryCleanUp(a, execTime) ==
  [activationTime |-> IF a.activationTime < execTime THEN ZeroTime ELSE a.activationTime,
   entries        |-> {e \in a.entries : e.ts >= execTime}]

\* The CLEAN result of CleanUp: nothing distinguishes it from a new actor.
IsClean(a) == a = NewEntryActor

\* More entries than the threshold: the first report is due at the entry after the
\* CountThreshold-th.
OverThreshold(a) == Cardinality(a.entries) > CountThreshold

EntryPush(a, e) == [a EXCEPT !.entries = @ \cup {e}]

\* What AddEvent counts when the list has grown over the threshold: the
\* events of the window that ends with e.
Mutant_NoCleanUp(a, e) == EntryPush(a, e)
InWindow(a, e) == EntryCleanUp(EntryPush(a, e), e.ts - WindowPeriod)

\* AddEvent returns ACTIVATION.
Activates(a, e) ==
  /\ OverThreshold(EntryPush(a, e))
  /\ OverThreshold(InWindow(a, e))
  /\ InWindow(a, e).activationTime = ZeroTime

\* The actor after AddEvent.
EntryAddEvent(a, e) ==
  IF ~OverThreshold(EntryPush(a, e)) THEN EntryPush(a, e)
  ELSE IF Activates(a, e) THEN [InWindow(a, e) EXCEPT !.activationTime = e.ts]
  ELSE InWindow(a, e)

-----------------------------------------------------------------------------
(***************************************************************************)
(* PartitionActor.  subActors gives every country an actor: a country that *)
(* is not a key of subActorMap has the actor it would be given, a new one. *)
(***************************************************************************)
NewPartitionActor ==
  [keys        |-> {},
   subActors   |-> [c \in Countries |-> NewEntryActor],
   nextCleanup |-> ZeroTime]

LowThreshold(execTime) == execTime - WindowPeriod

NextCleanup(execTime) == execTime + CleanupPeriod

\* CleanUp: clean every entry actor and delete the CLEAN ones.
PartitionCleanUp(p, execTime) ==
  LET cleaned == [c \in Countries |->
                    EntryCleanUp(p.subActors[c], LowThreshold(execTime))]
  IN  [keys        |-> {c \in p.keys : ~IsClean(cleaned[c])},
       subActors   |-> cleaned,
       nextCleanup |-> NextCleanup(execTime)]

\* The sweep at the head of AddEvent.  It runs at the time it was due, which
\* starts at the zero time, and not at the time of the event.
Swept(p, e) ==
  IF p.nextCleanup < e.ts THEN PartitionCleanUp(p, p.nextCleanup) ELSE p

PartitionActivates(p, e) == Activates(Swept(p, e).subActors[e.country], e)

PartitionAddEvent(p, e) ==
  [Swept(p, e) EXCEPT
     !.keys = @ \cup {e.country},
     !.subActors[e.country] = EntryAddEvent(@, e)]

=============================================================================
