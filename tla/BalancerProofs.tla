---------------------------- MODULE BalancerProofs ----------------------------
(***************************************************************************)
(* Theorems about the consumer group, for any configuration of the actors, *)
(* any partitions and consumers, and any bounds.                           *)
(*                                                                         *)
(* An owner's actors are judged by the log they are fed from.  Whoever     *)
(* owns a partition holds each message at most once and only messages      *)
(* before its position (Genuine), and remembers no report that was not     *)
(* made (Remembers): that justifies the reports.  Unless a handover left a *)
(* gap, nobody is ahead of what has been processed, and an owner holds     *)
(* whatever the windows of the pending messages may need (Complete): so    *)
(* the first to process a message that reaches the limit reports it.       *)
(***************************************************************************)
EXTENDS Balancer, FiniteSetTheorems, TLAPS

Message == [country : Countries, ts : Nat]
Event == [offset : Nat, copy : Nat, country : Countries, ts : Nat]
EntryActor == [activationTime : Nat, entries : SUBSET Event]
PartitionActor ==
  [keys : SUBSET Countries, subActors : [Countries -> EntryActor], nextCleanup : Nat]
Partial(T) == UNION {[P -> T] : P \in SUBSET Partitions}

TypeInv ==
  /\ TypeOK
  /\ log \in [Partitions -> Seq(Message)]
  /\ position \in [Consumers -> Partial(Int)]
  /\ partitionMap \in [Consumers -> Partial(PartitionActor)]
  /\ highWater \in [Partitions -> Nat]
  /\ gap \in [Partitions -> BOOLEAN]
  /\ \A r \in reports : r.partition \in Partitions

\* The log is in timestamp order and not ahead of the clock.
InOrder ==
  \A p \in Partitions : \A i \in 1..Len(log[p]) :
    /\ log[p][i].ts \in 1..now
    /\ \A j \in i..Len(log[p]) : log[p][i].ts <= log[p][j].ts

IdleOwnsNothing ==
  \A c \in Consumers :
    phase[c] # "active" => position[c] = NoPartitions /\ partitionMap[c] = NoPartitions

\* What an actor of country k that has been fed up to pos holds.
Genuine(a, k, p, pos) ==
  \A x \in a.entries :
    /\ x.offset < pos /\ x.copy = 0 /\ x.country = k
    /\ log[p][x.offset + 1] = [country |-> k, ts |-> x.ts]

Remembers(a, k, p, pos) ==
  a.activationTime # ZeroTime =>
    /\ \E r \in reports : /\ r.partition = p /\ r.event.country = k
                          /\ r.event.ts = a.activationTime
    /\ \E j \in 1..pos : log[p][j].ts = a.activationTime

\* The times of the messages of p that nobody has processed, now or later.
Pending(p) == {now} \cup {log[p][i].ts : i \in (highWater[p] + 1)..Len(log[p])}

Complete(a, p, pos) ==
  /\ pos <= highWater[p]
  /\ \A t \in Pending(p) : \A j \in 1..pos :
       log[p][j].ts >= t - WindowPeriod =>
         \E x \in a.subActors[log[p][j].country].entries : x.offset = j - 1

Owner(c, p) ==
  /\ p \in DOMAIN partitionMap[c]
  /\ \A k \in Countries :
       /\ Genuine(partitionMap[c][p].subActors[k], k, p, position[c][p])
       /\ Remembers(partitionMap[c][p].subActors[k], k, p, position[c][p])
  /\ ~gap[p] /\ position[c][p] # OffsetEnd
       => Complete(partitionMap[c][p], p, position[c][p])

Owners == \A c \in Consumers : \A p \in Owned(c) : Owner(c, p)

Inv == TypeInv /\ InOrder /\ IdleOwnsNothing /\ Owners

-----------------------------------------------------------------------------
(***************************************************************************)
(* The operators of LimitActors on the events of a log.                    *)
(***************************************************************************)

\* CleanUp keeps what is not before its time.
LEMMA EntryCleanUpType ==
  ASSUME NEW a \in EntryActor, NEW t \in Int
  PROVE  /\ EntryCleanUp(a, t) \in EntryActor
         /\ EntryCleanUp(a, t).entries = {x \in a.entries : x.ts >= t}
         /\ EntryCleanUp(a, t).activationTime
              = IF a.activationTime < t THEN ZeroTime ELSE a.activationTime
  BY DEF EntryCleanUp, EntryActor, ZeroTime

\* The entries of the event's window, after the event.
LEMMA InWindowType ==
  ASSUME NEW a \in EntryActor, NEW e \in Event
  PROVE  /\ EntryPush(a, e) \in EntryActor
         /\ EntryPush(a, e).entries = a.entries \cup {e}
         /\ EntryPush(a, e).activationTime = a.activationTime
         /\ InWindow(a, e) \in EntryActor
         /\ InWindow(a, e).entries = {x \in a.entries \cup {e} : x.ts >= e.ts - WindowPeriod}
         /\ InWindow(a, e).activationTime
              = IF a.activationTime < e.ts - WindowPeriod THEN ZeroTime ELSE a.activationTime
<1>. DEFINE pushed == EntryPush(a, e)
<1>1. /\ pushed \in EntryActor
      /\ pushed.entries = a.entries \cup {e}
      /\ pushed.activationTime = a.activationTime
  BY DEF EntryPush, EntryActor
<1>2. e.ts - WindowPeriod \in Int
  BY ConfigAssumption DEF Event
<1>. HIDE DEF pushed
<1>. QED
  BY <1>1, <1>2, EntryCleanUpType DEF InWindow, pushed

\* EntryActor.AddEvent: what it keeps and what it remembers.
LEMMA EntryAddEventKeeps ==
  ASSUME NEW a \in EntryActor, NEW e \in Event
  PROVE  /\ EntryAddEvent(a, e) \in EntryActor
         /\ EntryAddEvent(a, e).entries \subseteq a.entries \cup {e}
         /\ \A x \in a.entries \cup {e} :
              x.ts >= e.ts - WindowPeriod => x \in EntryAddEvent(a, e).entries
         /\ \/ EntryAddEvent(a, e).activationTime \in {a.activationTime, ZeroTime}
            \/ Activates(a, e) /\ EntryAddEvent(a, e).activationTime = e.ts
<1>. DEFINE pushed == EntryPush(a, e)
            w == InWindow(a, e)
<1>1. /\ pushed \in EntryActor /\ w \in EntryActor
      /\ pushed.entries = a.entries \cup {e}
      /\ pushed.activationTime = a.activationTime
      /\ w.entries = {x \in a.entries \cup {e} : x.ts >= e.ts - WindowPeriod}
      /\ w.activationTime \in {a.activationTime, ZeroTime}
  BY InWindowType, ZenonT(20)
<1>2. e.ts \in Nat
  BY DEF Event
<1>3. EntryAddEvent(a, e) = IF ~OverThreshold(pushed) THEN pushed
                            ELSE IF Activates(a, e) THEN [w EXCEPT !.activationTime = e.ts]
                            ELSE w
  BY DEF EntryAddEvent
<1>. HIDE DEF pushed, w
<1>4. /\ [w EXCEPT !.activationTime = e.ts] \in EntryActor
      /\ [w EXCEPT !.activationTime = e.ts].entries = w.entries
      /\ [w EXCEPT !.activationTime = e.ts].activationTime = e.ts
  BY <1>1, <1>2 DEF EntryActor
<1>5. CASE ~OverThreshold(pushed)
  BY <1>1, <1>3, <1>5
<1>6. CASE OverThreshold(pushed) /\ Activates(a, e)
  BY <1>1, <1>3, <1>4, <1>6
<1>7. CASE OverThreshold(pushed) /\ ~Activates(a, e)
  BY <1>1, <1>3, <1>7
<1>. QED
  BY <1>5, <1>6, <1>7

\* A sweep is not due, or cleans every entry actor before the event's window.
LEMMA SweptKeeps ==
  ASSUME NEW a \in PartitionActor, NEW e \in Event, NEW k \in Countries
  PROVE  /\ Swept(a, e) \in PartitionActor
         /\ Swept(a, e).subActors[k].entries \subseteq a.subActors[k].entries
         /\ \A x \in a.subActors[k].entries :
              x.ts >= e.ts - WindowPeriod => x \in Swept(a, e).subActors[k].entries
         /\ \/ Swept(a, e).subActors[k].activationTime = a.subActors[k].activationTime
            \/ /\ Swept(a, e).subActors[k].activationTime = ZeroTime
               /\ a.subActors[k].activationTime < e.ts - WindowPeriod
<1>1. CASE a.nextCleanup < e.ts
  <2> DEFINE low == a.nextCleanup - WindowPeriod
             cleaned == [c \in Countries |-> EntryCleanUp(a.subActors[c], low)]
             keys == {c \in a.keys : ~IsClean(cleaned[c])}
  <2>1. low \in Int /\ low < e.ts - WindowPeriod
    BY <1>1, ConfigAssumption DEF PartitionActor, Event
  <2>2. \A c \in Countries :
          /\ cleaned[c] \in EntryActor
          /\ cleaned[c].entries = {x \in a.subActors[c].entries : x.ts >= low}
          /\ cleaned[c].activationTime
               = IF a.subActors[c].activationTime < low THEN ZeroTime
                 ELSE a.subActors[c].activationTime
    BY <2>1, EntryCleanUpType DEF PartitionActor
  <2>3. cleaned \in [Countries -> EntryActor] /\ keys \in SUBSET Countries
    BY <2>2 DEF PartitionActor
  <2>4. a.nextCleanup + CleanupPeriod \in Nat
    BY ConfigAssumption DEF PartitionActor
  <2>5. Swept(a, e) = [keys |-> keys, subActors |-> cleaned,
                       nextCleanup |-> a.nextCleanup + CleanupPeriod]
    BY <1>1 DEF Swept, PartitionCleanUp, LowThreshold, NextCleanup
  <2>6. /\ a.subActors[k] \in EntryActor
        /\ \A x \in a.subActors[k].entries : x.ts \in Nat
        /\ a.subActors[k].activationTime \in Nat /\ e.ts \in Nat
    BY DEF PartitionActor, EntryActor, Event
  <2>. HIDE DEF cleaned, keys, low
  <2>7. Swept(a, e) \in PartitionActor /\ Swept(a, e).subActors = cleaned
    BY <2>3, <2>4, <2>5 DEF PartitionActor
  <2>. QED
    BY <2>1, <2>2, <2>6, <2>7, ConfigAssumption
<1>2. CASE ~(a.nextCleanup < e.ts)
  BY <1>2 DEF Swept
<1>. QED
  BY <1>1, <1>2

\* PartitionActor.AddEvent: what the actor of country k keeps and remembers.
LEMMA AddEventKeeps ==
  ASSUME NEW a \in PartitionActor, NEW e \in Event, NEW k \in Countries
  PROVE  LET old == a.subActors[k]
             new == PartitionAddEvent(a, e).subActors[k] IN
         /\ PartitionAddEvent(a, e) \in PartitionActor
         /\ new.entries \subseteq old.entries \cup (IF k = e.country THEN {e} ELSE {})
         /\ \A x \in old.entries : x.ts >= e.ts - WindowPeriod => x \in new.entries
         /\ k = e.country => e \in new.entries
         /\ \/ new.activationTime \in {old.activationTime, ZeroTime}
            \/ k = e.country /\ PartitionActivates(a, e) /\ new.activationTime = e.ts
<1>. DEFINE s == Swept(a, e)
            b == EntryAddEvent(s.subActors[e.country], e)
<1>1. s \in PartitionActor /\ e.country \in Countries /\ e.ts \in Nat
  BY SweptKeeps DEF Event
<1>2. s.subActors[e.country] \in EntryActor
  BY <1>1 DEF PartitionActor
<1>3. e.ts >= e.ts - WindowPeriod
  BY <1>1, ConfigAssumption
<1>4. /\ b \in EntryActor
      /\ b.entries \subseteq s.subActors[e.country].entries \cup {e}
      /\ \A x \in s.subActors[e.country].entries \cup {e} :
           x.ts >= e.ts - WindowPeriod => x \in b.entries
      /\ \/ b.activationTime \in {s.subActors[e.country].activationTime, ZeroTime}
         \/ PartitionActivates(a, e) /\ b.activationTime = e.ts
  BY <1>2, EntryAddEventKeeps, Zenon DEF PartitionActivates
<1>5. /\ PartitionAddEvent(a, e) \in PartitionActor
      /\ PartitionAddEvent(a, e).subActors[k] = IF k = e.country THEN b ELSE s.subActors[k]
  <2>. HIDE DEF s, b
  <2>1. PartitionAddEvent(a, e)
          = [s EXCEPT !.keys = @ \cup {e.country}, !.subActors[e.country] = b]
    BY DEF PartitionAddEvent, s, b
  <2>2. /\ s.keys \in SUBSET Countries /\ s.subActors \in [Countries -> EntryActor]
        /\ s.nextCleanup \in Nat
        /\ PartitionAddEvent(a, e)
             = [keys |-> s.keys \cup {e.country},
                subActors |-> [s.subActors EXCEPT ![e.country] = b],
                nextCleanup |-> s.nextCleanup]
    BY <1>1, <2>1 DEF PartitionActor
  <2>3. [s.subActors EXCEPT ![e.country] = b] \in [Countries -> EntryActor]
    BY <1>1, <1>4, <2>2
  <2>. QED
    BY <1>1, <2>2, <2>3 DEF PartitionActor
<1>6. /\ s.subActors[k].entries \subseteq a.subActors[k].entries
      /\ \A x \in a.subActors[k].entries :
           x.ts >= e.ts - WindowPeriod => x \in s.subActors[k].entries
      /\ s.subActors[k].activationTime \in {a.subActors[k].activationTime, ZeroTime}
  BY SweptKeeps, Zenon
<1>. HIDE DEF s, b
<1>7. CASE k = e.country
  BY <1>3, <1>4, <1>5, <1>6, <1>7, Zenon
<1>8. CASE k # e.country
  BY <1>5, <1>6, <1>8, Zenon
<1>. QED
  BY <1>7, <1>8

\* When it activates: more than the threshold lie in the event's window, and
\* no report is remembered that does.
LEMMA ActivatesWhen ==
  ASSUME NEW a \in PartitionActor, NEW e \in Event,
         IsFiniteSet(a.subActors[e.country].entries)
  PROVE  LET old == a.subActors[e.country]
             window == {x \in old.entries \cup {e} : x.ts >= e.ts - WindowPeriod} IN
         /\ PartitionActivates(a, e) => Cardinality(window) > CountThreshold
         /\ Cardinality(window) > CountThreshold =>
              \/ PartitionActivates(a, e)
              \/ /\ old.activationTime >= e.ts - WindowPeriod
                 /\ old.activationTime # ZeroTime
<1>. DEFINE old == a.subActors[e.country]
            s == Swept(a, e).subActors[e.country]
            window == {x \in old.entries \cup {e} : x.ts >= e.ts - WindowPeriod}
<1>1. e.country \in Countries /\ Swept(a, e) \in PartitionActor
  BY SweptKeeps DEF Event
<1>2. /\ s.entries \subseteq old.entries
      /\ \A x \in old.entries : x.ts >= e.ts - WindowPeriod => x \in s.entries
      /\ \/ s.activationTime = old.activationTime
         \/ /\ s.activationTime = ZeroTime
            /\ old.activationTime < e.ts - WindowPeriod
  BY <1>1, SweptKeeps, Zenon
<1>3. s \in EntryActor /\ old \in EntryActor
  BY <1>1 DEF PartitionActor
<1>4. /\ EntryPush(s, e).entries = s.entries \cup {e}
      /\ InWindow(s, e).entries = {x \in s.entries \cup {e} : x.ts >= e.ts - WindowPeriod}
      /\ InWindow(s, e).activationTime
           = IF s.activationTime < e.ts - WindowPeriod THEN ZeroTime ELSE s.activationTime
  BY <1>3, InWindowType, Zenon
<1>5. PartitionActivates(a, e) <=>
        /\ Cardinality(EntryPush(s, e).entries) > CountThreshold
        /\ Cardinality(InWindow(s, e).entries) > CountThreshold
        /\ InWindow(s, e).activationTime = ZeroTime
  BY DEF PartitionActivates, Activates, OverThreshold
<1>6. e.ts \in Nat /\ old.activationTime \in Nat /\ s.activationTime \in Nat
  BY <1>3 DEF EntryActor, Event
<1>. HIDE DEF old, s
<1>7. InWindow(s, e).entries = window
  BY <1>2, <1>4
<1>8. IsFiniteSet(old.entries \cup {e})
  BY FS_AddElement DEF old
<1>9. IsFiniteSet(s.entries \cup {e})
  BY <1>2, <1>8, FS_Subset
<1>10. /\ window \subseteq s.entries \cup {e}
       /\ Cardinality(window) <= Cardinality(s.entries \cup {e})
       /\ Cardinality(window) \in Nat /\ Cardinality(s.entries \cup {e}) \in Nat
  <2>1. window \subseteq s.entries \cup {e}
    BY <1>4, <1>7
  <2>. HIDE DEF window
  <2>. QED
    BY <2>1, <1>9, FS_Subset, FS_CardinalityType
<1>11. PartitionActivates(a, e) => Cardinality(window) > CountThreshold
  BY <1>5, <1>7
<1>12. ASSUME Cardinality(window) > CountThreshold, ~PartitionActivates(a, e)
       PROVE  old.activationTime >= e.ts - WindowPeriod /\ old.activationTime # ZeroTime
  <2>. HIDE DEF window
  <2>1. InWindow(s, e).activationTime # ZeroTime
    <3>1. Cardinality(EntryPush(s, e).entries) > CountThreshold
      BY <1>4, <1>10, <1>12, ConfigAssumption
    <3>2. Cardinality(InWindow(s, e).entries) > CountThreshold
      BY <1>7, <1>12
    <3>. QED
      BY <1>5, <1>12, <3>1, <3>2, Zenon
  <2>. QED
    BY <2>1, <1>2, <1>4, <1>6, ConfigAssumption DEF ZeroTime
<1>. QED
  BY <1>11, <1>12 DEF old

-----------------------------------------------------------------------------
(***************************************************************************)
(* The offset of a time.                                                   *)
(***************************************************************************)
Less == {r \in Nat \X Nat : r[1] < r[2]}

\* Every set of numbers that is not empty has a least element.
LEMMA LeastElement ==
  ASSUME NEW T \in SUBSET Nat, T # {}
  PROVE  \E x \in T : \A y \in T : x <= y
<1>1. IsWellFoundedOn(Less, Nat)
  BY NatLessThanWellFounded DEF OpToRel, Less
<1>2. PICK x \in T : \A y \in T : ~(<<y, x>> \in Less)
  BY <1>1, WFMin, Zenon
<1>3. ASSUME NEW y \in T PROVE x <= y
  <2>1. <<y, x>> \in Less <=> y < x
    BY DEF Less
  <2>. QED
    BY <1>2, <2>1
<1>. QED
  BY <1>3

\* A message of the log.
LEMMA MessageType ==
  ASSUME TypeInv, NEW p \in Partitions
  PROVE  /\ log[p] \in Seq(Message) /\ Len(log[p]) \in Nat
         /\ \A i \in 1..Len(log[p]) :
              log[p][i] \in Message /\ log[p][i].country \in Countries /\ log[p][i].ts \in Nat
<1>1. log[p] \in Seq(Message)
  BY DEF TypeInv
<1>2. ASSUME NEW i \in 1..Len(log[p]) PROVE log[p][i] \in Message
  BY <1>1
<1>3. \A m \in Message : m.country \in Countries /\ m.ts \in Nat
  BY DEF Message
<1>. QED
  BY <1>1, <1>2, <1>3

\* OffsetsForTimes separates the messages before t from the others.
LEMMA OffsetsForTimesType ==
  ASSUME NEW p \in Partitions, NEW t \in Int, TypeInv
  PROVE  \/ /\ OffsetsForTimes(p, t) = OffsetEnd
            /\ \A i \in 1..Len(log[p]) : log[p][i].ts < t
         \/ /\ OffsetsForTimes(p, t) \in 0..(Len(log[p]) - 1)
            /\ \A i \in 1..OffsetsForTimes(p, t) : log[p][i].ts < t
<1>. DEFINE after == {i \in 1..Len(log[p]) : log[p][i].ts >= t}
            least == CHOOSE i \in after : \A j \in after : i <= j
<1>1. /\ Len(log[p]) \in Nat
      /\ \A i \in 1..Len(log[p]) : log[p][i].ts \in Nat
  BY MessageType
<1>2. OffsetsForTimes(p, t) = IF after = {} THEN OffsetEnd ELSE least - 1
  BY DEF OffsetsForTimes
<1>3. CASE after = {}
  BY <1>1, <1>2, <1>3
<1>4. CASE after # {}
  <2>1. after \in SUBSET Nat
    BY <1>1
  <2>2. \E i \in after : \A j \in after : i <= j
    <3>. HIDE DEF after
    <3>. QED
      BY <1>4, <2>1, LeastElement
  <2>3. least \in after /\ \A j \in after : least <= j
    <3>. HIDE DEF after
    <3>. QED
      BY <2>2, Zenon
  <2>. HIDE DEF least
  <2>4. least \in 1..Len(log[p]) /\ OffsetsForTimes(p, t) = least - 1
    BY <1>2, <1>4, <2>3
  <2>5. ASSUME NEW i \in 1..(least - 1) PROVE log[p][i].ts < t
    <3>1. i \in 1..Len(log[p]) /\ ~(least <= i)
      BY <1>1, <2>4
    <3>. QED
      BY <1>1, <2>3, <3>1
  <2>. QED
    BY <1>1, <2>4, <2>5
<1>. QED
  BY <1>3, <1>4

-----------------------------------------------------------------------------
(***************************************************************************)
(* Types.                                                                  *)
(***************************************************************************)

\* What an owner's maps are made of.
LEMMA PartialType ==
  ASSUME NEW T
  PROVE  /\ NoPartitions \in Partial(T) /\ DOMAIN NoPartitions = {}
         /\ \A f \in Partial(T) : DOMAIN f \in SUBSET Partitions /\ f \in [DOMAIN f -> T]
         /\ \A P \in SUBSET Partitions : \A f \in [P -> T] : f \in Partial(T)
<1>1. NoPartitions \in [{} -> T] /\ {} \in SUBSET Partitions /\ DOMAIN NoPartitions = {}
  BY DEF NoPartitions
<1>. QED
  BY <1>1 DEF Partial

\* An owned partition and its actor.
LEMMA OwnedType ==
  ASSUME TypeInv, NEW c \in Consumers, NEW p \in Owned(c)
  PROVE  /\ p \in Partitions
         /\ Len(log[p]) \in Nat
         /\ position[c][p] \in {OffsetEnd} \cup 0..Len(log[p])
         /\ p \in DOMAIN partitionMap[c] => partitionMap[c][p] \in PartitionActor
<1>1. /\ Owned(c) \subseteq Partitions
      /\ position[c][p] \in {OffsetEnd} \cup 0..Len(log[p])
      /\ partitionMap[c] \in Partial(PartitionActor)
      /\ log \in [Partitions -> Seq(Message)]
  BY DEF TypeInv, TypeOK
<1>2. p \in DOMAIN partitionMap[c] => partitionMap[c][p] \in PartitionActor
  BY <1>1, PartialType
<1>. QED
  BY <1>1, <1>2

\* The message Poll returns becomes an event that the actor does not hold yet.
LEMMA EventAtType ==
  ASSUME TypeInv, Owners, NEW c \in Consumers, NEW p \in Owned(c),
         position[c][p] \in 0..(Len(log[p]) - 1)
  PROVE  LET i == position[c][p]
             a == partitionMap[c][p]
             m == log[p][i + 1] IN
         /\ p \in Partitions /\ i \in Nat /\ i + 1 \in 1..Len(log[p]) /\ Len(log[p]) \in Nat
         /\ p \in DOMAIN partitionMap[c] /\ a \in PartitionActor
         /\ m \in Message /\ m.country \in Countries /\ m.ts \in Nat
         /\ EventAt(a, p, i) = [offset |-> i, copy |-> 0, country |-> m.country, ts |-> m.ts]
         /\ EventAt(a, p, i) \in Event
<1>. DEFINE i == position[c][p]
            a == partitionMap[c][p]
            m == log[p][i + 1]
            copies == {x \in a.subActors[m.country].entries : x.offset = i}
<1>1. p \in Partitions /\ Len(log[p]) \in Nat /\ Owner(c, p)
  BY OwnedType DEF Owners
<1>2. i \in Nat /\ i + 1 \in 1..Len(log[p])
  BY <1>1
<1>3. p \in DOMAIN partitionMap[c] /\ a \in PartitionActor
  BY <1>1, OwnedType DEF Owner
<1>4. m \in Message /\ m.country \in Countries /\ m.ts \in Nat
  BY <1>1, <1>2, MessageType
<1>5. \A x \in a.subActors[m.country].entries : x.offset < i
  BY <1>1, <1>4 DEF Owner, Genuine
<1>6. \A x \in a.subActors[m.country].entries : x.offset \in Nat
  <2>. HIDE DEF a, m
  <2>1. a.subActors[m.country] \in EntryActor
    BY <1>3, <1>4 DEF PartitionActor
  <2>. QED
    BY <2>1 DEF EntryActor, Event
<1>7. copies = {}
  <2>. HIDE DEF a, m
  <2>. QED
    BY <1>2, <1>5, <1>6
<1>8. EventAt(a, p, i) = [offset |-> i, copy |-> Cardinality(copies),
                          country |-> m.country, ts |-> m.ts]
  BY DEF EventAt
<1>. HIDE DEF a, m, copies, i
<1>9. Cardinality(copies) = 0
  BY <1>7, FS_EmptySet
<1>10. EventAt(a, p, i) \in Event
  BY <1>2, <1>4, <1>8, <1>9 DEF Event
<1>. QED
  BY <1>1, <1>2, <1>3, <1>4, <1>8, <1>9, <1>10 DEF a, m, i

\* Everybody is joining and nothing has been sent.
LEMMA InitInv == Init => Inv
<1>. SUFFICES ASSUME Init PROVE Inv
  OBVIOUS
<1>1. \A c \in Consumers : position[c] = NoPartitions /\ Owned(c) = {}
  BY PartialType DEF Init, Owned
<1>2. /\ position \in [Consumers -> Partial(Int)]
      /\ partitionMap \in [Consumers -> Partial(PartitionActor)]
  BY PartialType DEF Init
<1>3. \A p \in Partitions : log[p] = <<>> /\ Len(log[p]) = 0
  BY DEF Init
<1>4. log \in [Partitions -> Seq(Message)]
  BY DEF Init
<1>5. TypeOK
  BY <1>1, <1>3, GroupAssumption DEF Init, TypeOK
<1>6. TypeInv
  BY <1>2, <1>4, <1>5 DEF Init, TypeInv
<1>. QED
  BY <1>1, <1>3, <1>6 DEF Init, Inv, InOrder, IdleOwnsNothing, Owners

\* Only a producer changes a log, and only at its end, at the present time.
LEMMA LogGrows ==
  ASSUME TypeInv, [Next]_vars
  PROVE  /\ log' \in [Partitions -> Seq(Message)]
         /\ now \in Nat \ {0} /\ now' \in Nat /\ now <= now'
         /\ \A p \in Partitions :
              /\ Len(log[p]) \in Nat /\ Len(log'[p]) \in Nat /\ Len(log[p]) <= Len(log'[p])
              /\ \A i \in 1..Len(log[p]) : log'[p][i] = log[p][i]
              /\ \A i \in (Len(log[p]) + 1)..Len(log'[p]) : log'[p][i].ts = now
<1>1. /\ log \in [Partitions -> Seq(Message)]
      /\ \A p \in Partitions : log[p] \in Seq(Message) /\ Len(log[p]) \in Nat
      /\ now \in Nat \ {0}
  BY DEF TypeInv, TypeOK
<1>2. ASSUME NEW country \in Countries, NEW q \in Partitions, Produce(country, q)
      PROVE  /\ log' \in [Partitions -> Seq(Message)]
             /\ \A p \in Partitions :
                  /\ Len(log'[p]) \in Nat /\ Len(log[p]) <= Len(log'[p])
                  /\ \A i \in 1..Len(log[p]) : log'[p][i] = log[p][i]
                  /\ \A i \in (Len(log[p]) + 1)..Len(log'[p]) : log'[p][i].ts = now
  <2> DEFINE m == [country |-> country, ts |-> now]
  <2>1. m \in Message /\ m.ts = now
    BY <1>1 DEF Message
  <2>2. log' = [log EXCEPT ![q] = Append(log[q], m)]
    BY <1>2 DEF Produce
  <2>. HIDE DEF m
  <2>3. /\ Append(log[q], m) \in Seq(Message)
        /\ Len(Append(log[q], m)) = Len(log[q]) + 1
        /\ \A i \in 1..Len(log[q]) : Append(log[q], m)[i] = log[q][i]
        /\ Append(log[q], m)[Len(log[q]) + 1] = m
    BY <1>1, <2>1
  <2>4. log' \in [Partitions -> Seq(Message)]
    BY <1>1, <2>2, <2>3
  <2>5. ASSUME NEW p \in Partitions
        PROVE  /\ Len(log'[p]) \in Nat /\ Len(log[p]) <= Len(log'[p])
               /\ \A i \in 1..Len(log[p]) : log'[p][i] = log[p][i]
               /\ \A i \in (Len(log[p]) + 1)..Len(log'[p]) : log'[p][i].ts = now
    <3>1. CASE p = q
      <4>1. log'[p] = Append(log[q], m)
        BY <1>1, <2>2, <3>1
      <4>2. Len(log'[p]) = Len(log[p]) + 1
        BY <2>3, <3>1, <4>1
      <4>3. \A i \in (Len(log[p]) + 1)..Len(log'[p]) : i = Len(log[p]) + 1
        BY <1>1, <4>2
      <4>. QED
        BY <1>1, <2>1, <2>3, <3>1, <4>1, <4>2, <4>3
    <3>2. CASE p # q
      <4>1. log'[p] = log[p]
        BY <1>1, <2>2, <3>2
      <4>. QED
        BY <1>1, <4>1
    <3>. QED
      BY <3>1, <3>2
  <2>. QED
    BY <2>4, <2>5
<1>3. ASSUME UNCHANGED log, NEW p \in Partitions
      PROVE  /\ Len(log'[p]) \in Nat /\ Len(log[p]) <= Len(log'[p])
             /\ \A i \in 1..Len(log[p]) : log'[p][i] = log[p][i]
             /\ \A i \in (Len(log[p]) + 1)..Len(log'[p]) : log'[p][i].ts = now
  <2>1. Len(log[p]) \in Nat /\ log'[p] = log[p]
    BY <1>1, <1>3
  <2>. QED
    BY <2>1
<1>4. (\E country \in Countries, p \in Partitions : Produce(country, p)) \/ UNCHANGED log
  BY DEF Next, vars, logVars, Tick, StartRebalance, CompleteRebalance, CompleteWithout,
         NewGeneration, Revoked, Rejoin, Crash, Assigned, AssignedNothing, ResolveEnd, Poll
<1>5. now' \in {now, now + 1}
  BY DEF Next, vars, logVars, Tick, Produce, StartRebalance, CompleteRebalance, CompleteWithout,
         NewGeneration, Revoked, Rejoin, Crash, Assigned, AssignedNothing, ResolveEnd, Poll
<1>6. now' \in Nat /\ now <= now'
  BY <1>1, <1>5
<1>. QED
  BY <1>1, <1>2, <1>3, <1>4, <1>6

\* What a consumer may fetch when the logs are l.
Starts(f, l) ==
  f \in Partial(Int) /\ \A p \in DOMAIN f : f[p] \in {OffsetEnd} \cup 0..Len(l[p])

\* Each action preserves the types.
LEMMA NextTyped == Inv /\ [Next]_vars => TypeInv'
<1>. SUFFICES ASSUME Inv, [Next]_vars PROVE TypeInv'
  OBVIOUS
<1>. USE DEF Owned
<1>0. /\ TypeInv /\ Owners /\ IdleOwnsNothing
      /\ position \in [Consumers -> Partial(Int)]
      /\ partitionMap \in [Consumers -> Partial(PartitionActor)]
      /\ highWater \in [Partitions -> Nat] /\ gap \in [Partitions -> BOOLEAN]
      /\ \A r \in reports : r.partition \in Partitions
      /\ now \in 1..MaxTime /\ rebalances \in 0..MaxRebalances /\ faults \in 0..MaxFaults
      /\ members \subseteq Consumers /\ granted \in [Consumers -> SUBSET Partitions]
      /\ phase \in [Consumers -> {"joining", "assigned", "active"}]
      /\ \A p \in Partitions : highWater[p] \in 0..Len(log[p])
  BY DEF Inv, TypeInv, TypeOK
<1>. DEFINE Clock == /\ now' \in 1..MaxTime
                     /\ rebalances' \in 0..MaxRebalances /\ faults' \in 0..MaxFaults
            Group == /\ members' \subseteq Consumers
                     /\ granted' \in [Consumers -> SUBSET Partitions]
                     /\ phase' \in [Consumers -> {"joining", "assigned", "active"}]
            Places == position' \in [Consumers -> Partial(Int)]
                      /\ \A c \in Consumers : Starts(position'[c], log')
            Actors == partitionMap' \in [Consumers -> Partial(PartitionActor)]
            History == /\ highWater' \in [Partitions -> Nat] /\ gap' \in [Partitions -> BOOLEAN]
                       /\ \A r \in reports' : r.partition \in Partitions
                       /\ \A p \in Partitions : highWater'[p] \in 0..Len(log'[p])
<1>1. /\ log' \in [Partitions -> Seq(Message)]
      /\ \A p \in Partitions :
           Len(log[p]) \in Nat /\ Len(log'[p]) \in Nat /\ Len(log[p]) <= Len(log'[p])
  BY <1>0, LogGrows
<1>marks. \A p \in Partitions : highWater[p] \in 0..Len(log'[p])
  <2>1. ASSUME NEW p \in Partitions PROVE highWater[p] \in 0..Len(log'[p])
    <3>1. highWater[p] \in 0..Len(log[p])
      BY <1>0
    <3>2. Len(log[p]) \in Nat /\ Len(log'[p]) \in Nat /\ Len(log[p]) <= Len(log'[p])
      BY <1>1
    <3>. QED
      BY <3>1, <3>2
  <2>. QED
    BY <2>1
<1>2. NoPartitions \in Partial(Int) /\ NoPartitions \in Partial(PartitionActor)
      /\ DOMAIN NoPartitions = {}
  BY PartialType
<1>3. \A c \in Consumers : Starts(position[c], log')
  <2>1. ASSUME NEW c \in Consumers, NEW p \in DOMAIN position[c]
        PROVE  position[c][p] \in {OffsetEnd} \cup 0..Len(log'[p])
    <3>1. p \in Partitions /\ position[c][p] \in {OffsetEnd} \cup 0..Len(log[p])
      BY <1>0 DEF TypeInv, TypeOK
    <3>. QED
      BY <1>1, <3>1
  <2>. QED
    BY <1>0, <2>1 DEF Starts
<1>4. Starts(NoPartitions, log')
  BY <1>2 DEF Starts
<1>5. UNCHANGED <<now, rebalances, faults>> => Clock
  BY <1>0
<1>6. UNCHANGED <<members, granted, phase>> => Group
  BY <1>0
<1>7. UNCHANGED position => Places
  BY <1>0, <1>3
<1>8. UNCHANGED partitionMap => Actors
  BY <1>0
<1>9. UNCHANGED historyVars => History
  <2>1. ASSUME UNCHANGED historyVars PROVE History
    <3>1. highWater' = highWater /\ gap' = gap /\ reports' = reports
      BY <2>1 DEF historyVars
    <3>. QED
      BY <1>0, <1>marks, <3>1
  <2>. QED
    BY <2>1
<1>10. \A c \in Consumers :
         position' = [position EXCEPT ![c] = NoPartitions] => Places
  BY <1>0, <1>2, <1>3, <1>4
<1>11. \A c \in Consumers :
         partitionMap' = [partitionMap EXCEPT ![c] = NoPartitions] => Actors
  BY <1>0, <1>2
<1>12. rebalances < MaxRebalances => rebalances + 1 \in 0..MaxRebalances
  BY <1>0, GroupAssumption
<1>13. ASSUME NewGeneration PROVE Group /\ Places /\ Actors /\ History
  <2>1. granted' \in [Consumers -> SUBSET Partitions]
    BY <1>0, <1>13 DEF NewGeneration
  <2>2. phase' \in [Consumers -> {"joining", "assigned", "active"}] /\ members' \subseteq Consumers
    BY <1>0, <1>13 DEF NewGeneration
  <2>. QED
    BY <1>7, <1>8, <1>9, <1>13, <2>1, <2>2 DEF NewGeneration
<1>14. ASSUME NEW c \in Consumers, NEW s \in {"joining", "assigned", "active"},
              phase' = [phase EXCEPT ![c] = s], UNCHANGED groupVars
       PROVE  Group
  BY <1>0, <1>14 DEF groupVars
<1>. HIDE DEF Clock, Places, Actors, History
<1>15. ASSUME Tick PROVE Clock /\ Group /\ Places /\ Actors /\ History
  <2>1. now' \in 1..MaxTime
    BY <1>0, <1>15, GroupAssumption DEF Tick
  <2>. QED
    BY <1>0, <1>6, <1>7, <1>8, <1>9, <1>15, <2>1 DEF Tick, groupVars, consumerVars, Clock
<1>16. ASSUME NEW country \in Countries, NEW p \in Partitions, Produce(country, p)
       PROVE  Clock /\ Group /\ Places /\ Actors /\ History
  BY <1>5, <1>6, <1>7, <1>8, <1>9, <1>16 DEF Produce, groupVars, consumerVars
<1>17. ASSUME StartRebalance PROVE Clock /\ Group /\ Places /\ Actors /\ History
  BY <1>0, <1>6, <1>7, <1>8, <1>9, <1>12, <1>17
     DEF StartRebalance, logVars, consumerVars, Clock
<1>18. ASSUME CompleteRebalance PROVE Clock /\ Group /\ Places /\ Actors /\ History
  <2>1. NewGeneration /\ UNCHANGED <<now, rebalances, faults>>
    BY <1>18 DEF CompleteRebalance, NewGeneration, logVars
  <2>. QED
    BY <1>5, <1>13, <2>1
<1>19. ASSUME CompleteWithout PROVE Clock /\ Group /\ Places /\ Actors /\ History
  <2>1. /\ NewGeneration /\ UNCHANGED <<now, faults>>
        /\ rebalances < MaxRebalances /\ rebalances' = rebalances + 1
    BY <1>19 DEF CompleteWithout, NewGeneration, logVars
  <2>. QED
    BY <1>0, <1>12, <1>13, <2>1 DEF Clock
<1>20. ASSUME NEW c \in Consumers, Revoked(c)
       PROVE  Clock /\ Group /\ Places /\ Actors /\ History
  BY <1>5, <1>9, <1>10, <1>11, <1>14, <1>20 DEF Revoked, OnPartitionsRevoked, logVars
<1>21. ASSUME NEW c \in Consumers, Rejoin(c)
       PROVE  Clock /\ Group /\ Places /\ Actors /\ History
  BY <1>5, <1>6, <1>7, <1>8, <1>9, <1>21 DEF Rejoin, logVars, consumerVars
<1>22. ASSUME NEW c \in Consumers, Crash(c)
       PROVE  Clock /\ Group /\ Places /\ Actors /\ History
  BY <1>0, <1>9, <1>10, <1>11, <1>12, <1>22 DEF Crash, logVars, Clock
<1>actors. ASSUME NEW c \in Consumers, OnPartitionsAssigned(c, granted[c])
           PROVE  Actors
  <2> DEFINE map == [p \in DOMAIN partitionMap[c] \cup granted[c] |->
                      IF p \in DOMAIN partitionMap[c] THEN partitionMap[c][p]
                      ELSE NewPartitionActor]
  <2>1. map \in Partial(PartitionActor)
    <3>1. NewPartitionActor \in PartitionActor
      BY DEF NewPartitionActor, PartitionActor, NewEntryActor, EntryActor, ZeroTime
    <3>2. DOMAIN partitionMap[c] \in SUBSET Partitions
          /\ partitionMap[c] \in [DOMAIN partitionMap[c] -> PartitionActor]
      BY <1>0, PartialType
    <3>3. map \in [DOMAIN partitionMap[c] \cup granted[c] -> PartitionActor]
          /\ DOMAIN partitionMap[c] \cup granted[c] \in SUBSET Partitions
      BY <1>0, <3>1, <3>2
    <3>. HIDE DEF map
    <3>. QED
      BY <3>3, PartialType
  <2>2. partitionMap' = [partitionMap EXCEPT ![c] = map]
    BY <1>actors DEF OnPartitionsAssigned
  <2>. HIDE DEF map
  <2>. QED
    BY <1>0, <2>1, <2>2 DEF Actors
<1>23. ASSUME NEW c \in Consumers, Assigned(c)
       PROVE  Clock /\ Group /\ Places /\ Actors /\ History
  <2> DEFINE start == [p \in granted[c] |-> OffsetsForTimes(p, now - RewindPeriod)]
  <2>1. Starts(start, log')
    <3>1. now - RewindPeriod \in Int
      BY <1>0, ConfigAssumption DEF RewindPeriod
    <3>2. ASSUME NEW p \in granted[c]
          PROVE  /\ start[p] \in Int
                 /\ start[p] \in {OffsetEnd} \cup 0..Len(log'[p])
      <4>1. p \in Partitions
        BY <1>0, <3>2
      <4>2. start[p] = OffsetEnd \/ start[p] \in 0..(Len(log[p]) - 1)
        BY <1>0, <3>1, <4>1, OffsetsForTimesType
      <4>. QED
        BY <1>1, <4>1, <4>2 DEF OffsetEnd
    <3>3. start \in [granted[c] -> Int] /\ DOMAIN start = granted[c]
          /\ granted[c] \in SUBSET Partitions
      BY <1>0, <3>2
    <3>. QED
      BY <3>2, <3>3, PartialType DEF Starts
  <2>3. position' = [position EXCEPT ![c] = start]
    BY <1>23 DEF Assigned
  <2>4. Places /\ Actors
    <3>1. Actors
      BY <1>23, <1>actors DEF Assigned
    <3>. HIDE DEF start, Actors
    <3>. QED
      BY <1>0, <1>3, <2>1, <2>3, <3>1 DEF Starts, Places
  <2>5. gap' \in [Partitions -> BOOLEAN]
    BY <1>0, <1>23 DEF Assigned
  <2>6. History
    <3>1. highWater' = highWater /\ reports' = reports
      BY <1>23 DEF Assigned
    <3>. QED
      BY <1>0, <2>5, <1>marks, <3>1 DEF History
  <2>. QED
    BY <1>5, <1>14, <1>23, <2>4, <2>6 DEF Assigned, logVars
<1>24. ASSUME NEW c \in Consumers, AssignedNothing(c)
       PROVE  Clock /\ Group /\ Places /\ Actors /\ History
  <2>1. faults + 1 \in 0..MaxFaults
    BY <1>0, <1>24, GroupAssumption DEF AssignedNothing
  <2>2. Actors
    <3>1. UNCHANGED partitionMap \/ OnPartitionsAssigned(c, granted[c])
      BY <1>24 DEF AssignedNothing
    <3>. HIDE DEF Actors
    <3>. QED
      BY <1>8, <1>actors, <3>1
  <2>. HIDE DEF Actors
  <2>. QED
    BY <1>0, <1>8, <1>9, <1>10, <1>14, <1>24, <2>1, <2>2
       DEF AssignedNothing, AfterFailedLookup, logVars, Clock
<1>25. ASSUME NEW c \in Consumers, NEW p \in Partitions, NEW v, p \in Owned(c),
              v \in 0..Len(log'[p]), position' = [position EXCEPT ![c][p] = v]
       PROVE  Places
  <2> DEFINE f == [position[c] EXCEPT ![p] = v]
  <2>1. position' = [position EXCEPT ![c] = f]
    BY <1>0, <1>25
  <2>2. f \in [DOMAIN position[c] -> Int] /\ DOMAIN position[c] \in SUBSET Partitions
        /\ DOMAIN f = DOMAIN position[c]
    <3>1. position[c] \in [DOMAIN position[c] -> Int] /\ DOMAIN position[c] \in SUBSET Partitions
      BY <1>0, PartialType
    <3>. QED
      BY <3>1, <1>1, <1>25
  <2>3. \A q \in DOMAIN f : f[q] \in {OffsetEnd} \cup 0..Len(log'[q])
    <3>1. \A q \in DOMAIN position[c] : f[q] = IF q = p THEN v ELSE position[c][q]
      OBVIOUS
    <3>. QED
      BY <1>3, <1>25, <2>2, <3>1 DEF Starts
  <2>4. Starts(f, log')
    BY <2>2, <2>3, PartialType DEF Starts
  <2>. HIDE DEF f
  <2>. QED
    BY <1>0, <1>3, <2>1, <2>4 DEF Starts, Places
<1>26. ASSUME NEW c \in Consumers, NEW p \in Partitions, ResolveEnd(c, p)
       PROVE  Clock /\ Group /\ Places /\ Actors /\ History
  <2>1. EndOf(p) \in 0..Len(log'[p])
    BY <1>1, <1>26 DEF ResolveEnd, EndOf, logVars
  <2>2. Places
    BY <1>25, <1>26, <2>1 DEF ResolveEnd
  <2>3. gap' \in [Partitions -> BOOLEAN]
    BY <1>0, <1>26 DEF ResolveEnd
  <2>4. History
    <3>1. highWater' = highWater /\ reports' = reports
      BY <1>26 DEF ResolveEnd
    <3>. QED
      BY <1>0, <2>3, <1>marks, <3>1 DEF History
  <2>. QED
    BY <1>5, <1>6, <1>8, <1>26, <2>2, <2>4 DEF ResolveEnd, logVars, groupVars
<1>27. ASSUME NEW c \in Consumers, NEW p \in Partitions, Poll(c, p)
       PROVE  Clock /\ Group /\ Places /\ Actors /\ History
  <2> DEFINE i == position[c][p]
             a == partitionMap[c][p]
             e == EventAt(a, p, i)
  <2>1. /\ p \in Owned(c) /\ i \in 0..(Len(log[p]) - 1) /\ UNCHANGED log
        /\ position' = [position EXCEPT ![c][p] = i + 1]
        /\ partitionMap' = [partitionMap EXCEPT ![c][p] = PartitionAddEvent(a, e)]
        /\ reports' = reports \cup
             {r \in {[partition |-> p, event |-> e]} : PartitionActivates(a, e)}
        /\ highWater' = [highWater EXCEPT ![p] = IF e.offset < @ THEN @ ELSE e.offset + 1]
        /\ UNCHANGED <<now, groupVars, phase, gap, rebalances, faults>>
    BY <1>0, <1>27 DEF Poll, logVars
  <2>2. /\ p \in DOMAIN partitionMap[c] /\ a \in PartitionActor /\ e \in Event
        /\ e.offset = i /\ i \in Nat /\ e.country \in Countries
    <3>1. /\ p \in DOMAIN partitionMap[c] /\ a \in PartitionActor /\ e \in Event /\ e.offset = i
      <4>1. EventAt(a, p, i) = [offset |-> i, copy |-> 0, country |-> log[p][i + 1].country,
                                ts |-> log[p][i + 1].ts]
        BY <1>0, <2>1, EventAtType, Zenon
      <4>2. p \in DOMAIN partitionMap[c] /\ a \in PartitionActor /\ e \in Event
        BY <1>0, <2>1, EventAtType, Zenon
      <4>. QED
        BY <4>1, <4>2
    <3>. QED
      BY <3>1, <2>1 DEF Event
  <2>3. i + 1 \in 0..Len(log'[p])
    BY <1>1, <2>1
  <2>4. Places
    BY <1>25, <2>1, <2>3
  <2>5. PartitionAddEvent(a, e) \in PartitionActor
    BY <2>2, AddEventKeeps
  <2>. HIDE DEF e, a, i
  <2>6. Actors
    <3> DEFINE f == [partitionMap[c] EXCEPT ![p] = PartitionAddEvent(a, e)]
    <3>1. partitionMap' = [partitionMap EXCEPT ![c] = f]
      BY <1>0, <2>1
    <3>2. partitionMap[c] \in [DOMAIN partitionMap[c] -> PartitionActor]
          /\ DOMAIN partitionMap[c] \in SUBSET Partitions
      BY <1>0, PartialType
    <3>3. f \in [DOMAIN partitionMap[c] -> PartitionActor]
      BY <2>5, <3>2
    <3>4. f \in Partial(PartitionActor)
      BY <3>2, <3>3, PartialType
    <3>. HIDE DEF f
    <3>. QED
      BY <1>0, <3>1, <3>4 DEF Actors
  <2>7. History
    <3>1. \A q \in Partitions :
            /\ highWater[q] \in Nat
            /\ highWater'[q] = IF q = p /\ ~(i < highWater[p]) THEN i + 1 ELSE highWater[q]
      BY <1>0, <2>1, <2>2
    <3>2. highWater' \in [Partitions -> Nat]
      BY <1>0, <2>1, <2>2
    <3>3. \A q \in Partitions : highWater'[q] \in 0..Len(log'[q])
      BY <1>0, <1>1, <2>1, <3>1
    <3>4. \A r \in reports' : r.partition \in Partitions
      BY <1>0, <2>1
    <3>. QED
      BY <1>0, <2>1, <3>2, <3>3, <3>4 DEF History
  <2>. QED
    BY <1>5, <1>6, <2>1, <2>4, <2>6, <2>7 DEF groupVars
<1>28. ASSUME UNCHANGED vars PROVE Clock /\ Group /\ Places /\ Actors /\ History
  BY <1>5, <1>6, <1>7, <1>8, <1>9, <1>28 DEF vars, historyVars
<1>29. Clock /\ Group /\ Places /\ Actors /\ History
  <2>. HIDE DEF Group
  <2>. QED
    BY <1>15, <1>16, <1>17, <1>18, <1>19, <1>20, <1>21, <1>22, <1>23, <1>24, <1>26, <1>27, <1>28
       DEF Next
<1>30. \A c \in Consumers :
         /\ Owned(c)' \subseteq Partitions
         /\ \A p \in Owned(c)' : position'[c][p] \in {OffsetEnd} \cup 0..Len(log'[p])
  BY <1>29, PartialType DEF Places, Starts
<1>. QED
  BY <1>1, <1>29, <1>30 DEF TypeInv, TypeOK, Clock, Places, Actors, History

\* The logs stay in timestamp order.
LEMMA NextInOrder ==
  ASSUME TypeInv, InOrder, [Next]_vars
  PROVE  InOrder'
<1>. SUFFICES ASSUME NEW p \in Partitions, NEW i \in 1..Len(log'[p]), NEW j \in i..Len(log'[p])
              PROVE  log'[p][i].ts \in 1..now' /\ log'[p][i].ts <= log'[p][j].ts
  <2>1. \A p \in Partitions : Len(log'[p]) \in Nat
    BY LogGrows
  <2>2. \A p \in Partitions : \A i \in 1..Len(log'[p]) : i \in i..Len(log'[p])
    BY <2>1
  <2>. QED
    BY <2>2 DEF InOrder
<1>. DEFINE n == Len(log[p])
<1>1. /\ n \in Nat /\ Len(log'[p]) \in Nat /\ now \in Nat \ {0} /\ now' \in Nat /\ now <= now'
      /\ \A k \in 1..n : log'[p][k] = log[p][k]
      /\ \A k \in (n + 1)..Len(log'[p]) : log'[p][k].ts = now
  BY LogGrows
<1>2. \A k \in 1..n : /\ log[p][k].ts \in 1..now
                      /\ \A l \in k..n : log[p][k].ts <= log[p][l].ts
  BY DEF InOrder
<1>. HIDE DEF n
<1>3. CASE j \in 1..n
  <2>1. i \in 1..n /\ j \in i..n
    BY <1>1, <1>3
  <2>2. log'[p][i] = log[p][i] /\ log'[p][j] = log[p][j]
    BY <1>1, <1>3, <2>1
  <2>3. log[p][i].ts \in 1..now /\ log[p][i].ts <= log[p][j].ts
    BY <1>2, <2>1
  <2>. QED
    BY <1>1, <2>2, <2>3
<1>4. CASE i \in 1..n /\ j \in (n + 1)..Len(log'[p])
  BY <1>1, <1>2, <1>4
<1>5. CASE i \in (n + 1)..Len(log'[p]) /\ j \in (n + 1)..Len(log'[p])
  BY <1>1, <1>5
<1>. QED
  BY <1>1, <1>3, <1>4, <1>5

-----------------------------------------------------------------------------
(***************************************************************************)
(* Owners.                                                                 *)
(***************************************************************************)

\* What a step does to the partitions of a consumer.
LEMMA OwnershipStep ==
  ASSUME TypeInv, [Next]_vars, NEW c \in Consumers
  PROVE  \/ /\ position'[c] = position[c] /\ partitionMap'[c] = partitionMap[c]
            /\ phase'[c] # "active" => phase[c] # "active"
         \/ /\ position'[c] = NoPartitions
            /\ phase'[c] # "active" => partitionMap'[c] = NoPartitions
         \/ Assigned(c)
         \/ \E p \in Partitions : ResolveEnd(c, p) \/ Poll(c, p)
<1>. DEFINE Kept == /\ position'[c] = position[c] /\ partitionMap'[c] = partitionMap[c]
                    /\ phase'[c] # "active" => phase[c] # "active"
            Dropped == /\ position'[c] = NoPartitions
                       /\ phase'[c] # "active" => partitionMap'[c] = NoPartitions
            Gets == Assigned(c)
            Moves == \E p \in Partitions : ResolveEnd(c, p) \/ Poll(c, p)
<1>. SUFFICES Kept \/ Dropped \/ Gets \/ Moves
  OBVIOUS
<1>0. /\ DOMAIN position = Consumers /\ DOMAIN partitionMap = Consumers
      /\ DOMAIN phase = Consumers
  BY DEF TypeInv, TypeOK
<1>1. ASSUME UNCHANGED <<position, partitionMap, phase>> PROVE Kept
  BY <1>1
<1>2. ASSUME NewGeneration PROVE Kept
  BY <1>2 DEF NewGeneration
<1>3. ASSUME NEW d \in Consumers, d # c, NEW f, NEW g, NEW s,
             position' = [position EXCEPT ![d] = f],
             partitionMap' = [partitionMap EXCEPT ![d] = g] \/ partitionMap' = partitionMap,
             phase' = [phase EXCEPT ![d] = s] \/ phase' = phase
      PROVE  Kept
  BY <1>0, <1>3
<1>4. ASSUME NEW d \in Consumers, Revoked(d) PROVE Kept \/ Dropped
  <2>1. /\ position' = [position EXCEPT ![d] = NoPartitions]
        /\ partitionMap' = [partitionMap EXCEPT ![d] = NoPartitions]
        /\ phase' = [phase EXCEPT ![d] = "joining"]
    BY <1>4 DEF Revoked, OnPartitionsRevoked
  <2>2. CASE d = c
    BY <1>0, <2>1, <2>2
  <2>. HIDE DEF Kept
  <2>3. CASE d # c
    BY <1>3, <2>1, <2>3
  <2>. QED
    BY <2>2, <2>3
<1>5. ASSUME NEW d \in Consumers, Crash(d) PROVE Kept \/ Dropped
  <2>1. /\ position' = [position EXCEPT ![d] = NoPartitions]
        /\ partitionMap' = [partitionMap EXCEPT ![d] = NoPartitions]
        /\ phase' = [phase EXCEPT ![d] = "joining"]
    BY <1>5 DEF Crash
  <2>2. CASE d = c
    BY <1>0, <2>1, <2>2
  <2>. HIDE DEF Kept
  <2>3. CASE d # c
    BY <1>3, <2>1, <2>3
  <2>. QED
    BY <2>2, <2>3
<1>6. ASSUME NEW d \in Consumers, AssignedNothing(d) PROVE Kept \/ Dropped
  <2>1. /\ position' = [position EXCEPT ![d] = NoPartitions]
        /\ \/ partitionMap' = partitionMap
           \/ \E g : partitionMap' = [partitionMap EXCEPT ![d] = g]
        /\ phase' = [phase EXCEPT ![d] = "active"]
    BY <1>6 DEF AssignedNothing, AfterFailedLookup, OnPartitionsAssigned
  <2>2. CASE d = c
    BY <1>0, <2>1, <2>2
  <2>. HIDE DEF Kept
  <2>3. CASE d # c
    BY <1>3, <2>1, <2>3
  <2>. QED
    BY <2>2, <2>3
<1>7. ASSUME NEW d \in Consumers, Assigned(d) PROVE Kept \/ Gets
  <2>1. CASE d = c
    BY <1>7, <2>1
  <2>. HIDE DEF Kept
  <2>2. CASE d # c
    BY <1>3, <1>7, <2>2 DEF Assigned, OnPartitionsAssigned
  <2>. QED
    BY <2>1, <2>2
<1>8. ASSUME NEW d \in Consumers, NEW p \in Partitions, ResolveEnd(d, p) PROVE Kept \/ Moves
  <2>1. CASE d = c
    BY <1>8, <2>1
  <2>2. CASE d # c
    BY <1>0, <1>8, <2>2 DEF ResolveEnd
  <2>. QED
    BY <2>1, <2>2
<1>9. ASSUME NEW d \in Consumers, NEW p \in Partitions, Poll(d, p) PROVE Kept \/ Moves
  <2>1. CASE d = c
    BY <1>9, <2>1
  <2>2. CASE d # c
    <3>1. position'[c] = position[c] /\ partitionMap'[c] = partitionMap[c] /\ phase' = phase
      BY <1>0, <1>9, <2>2 DEF Poll
    <3>. QED
      BY <3>1
  <2>. QED
    BY <2>1, <2>2
<1>10. \/ UNCHANGED <<position, partitionMap, phase>>
       \/ NewGeneration
       \/ \E d \in Consumers : \/ Revoked(d) \/ Crash(d) \/ Assigned(d) \/ AssignedNothing(d)
                               \/ \E p \in Partitions : ResolveEnd(d, p) \/ Poll(d, p)
  BY DEF Next, vars, consumerVars, Tick, Produce, StartRebalance, CompleteRebalance,
         CompleteWithout, Rejoin
<1>. HIDE DEF Kept, Dropped, Gets, Moves
<1>. QED
  BY <1>1, <1>2, <1>4, <1>5, <1>6, <1>7, <1>8, <1>9, <1>10

\* A process that is not active has neither partitions nor actors.
LEMMA NextIdle ==
  ASSUME TypeInv, IdleOwnsNothing, [Next]_vars
  PROVE  IdleOwnsNothing'
<1>. SUFFICES ASSUME NEW c \in Consumers, phase'[c] # "active"
              PROVE  position'[c] = NoPartitions /\ partitionMap'[c] = NoPartitions
  BY DEF IdleOwnsNothing
<1>1. phase \in [Consumers -> {"joining", "assigned", "active"}]
  BY DEF TypeInv, TypeOK
<1>2. ~Assigned(c)
  BY <1>1 DEF Assigned
<1>3. ASSUME NEW p \in Partitions, ResolveEnd(c, p) \/ Poll(c, p)
      PROVE  FALSE
  <2>1. phase'[c] = phase[c] /\ p \in DOMAIN position[c]
    BY <1>3 DEF ResolveEnd, Poll, Owned
  <2>2. position[c] = NoPartitions
    BY <2>1 DEF IdleOwnsNothing
  <2>. QED
    BY <2>1, <2>2, PartialType
<1>. QED
  BY <1>2, <1>3, OwnershipStep DEF IdleOwnsNothing

\* Nothing reported or processed is undone.
LEMMA HistoryGrows ==
  ASSUME TypeInv, Owners, [Next]_vars
  PROVE  /\ reports \subseteq reports'
         /\ \A p \in Partitions :
              /\ highWater[p] \in Nat /\ highWater'[p] \in Nat /\ highWater[p] <= highWater'[p]
              /\ gap[p] => gap'[p]
<1>1. highWater \in [Partitions -> Nat] /\ gap \in [Partitions -> BOOLEAN]
  BY DEF TypeInv
<1>2. ASSUME UNCHANGED historyVars
      PROVE  /\ reports \subseteq reports'
             /\ \A p \in Partitions :
                  /\ highWater'[p] \in Nat /\ highWater[p] <= highWater'[p]
                  /\ gap[p] => gap'[p]
  BY <1>1, <1>2 DEF historyVars
<1>3. ASSUME NEW c \in Consumers, Assigned(c)
      PROVE  /\ reports \subseteq reports'
             /\ \A p \in Partitions :
                  /\ highWater'[p] \in Nat /\ highWater[p] <= highWater'[p]
                  /\ gap[p] => gap'[p]
  BY <1>1, <1>3 DEF Assigned
<1>4. ASSUME NEW c \in Consumers, NEW q \in Partitions, ResolveEnd(c, q)
      PROVE  /\ reports \subseteq reports'
             /\ \A p \in Partitions :
                  /\ highWater'[p] \in Nat /\ highWater[p] <= highWater'[p]
                  /\ gap[p] => gap'[p]
  BY <1>1, <1>4 DEF ResolveEnd
<1>5. ASSUME NEW c \in Consumers, NEW q \in Partitions, Poll(c, q)
      PROVE  /\ reports \subseteq reports'
             /\ \A p \in Partitions :
                  /\ highWater'[p] \in Nat /\ highWater[p] <= highWater'[p]
                  /\ gap[p] => gap'[p]
  <2> DEFINE i == position[c][q]
             e == EventAt(partitionMap[c][q], q, i)
  <2>1. /\ reports \subseteq reports' /\ gap' = gap
        /\ q \in Owned(c) /\ i \in 0..(Len(log[q]) - 1)
        /\ highWater' = [highWater EXCEPT ![q] = IF e.offset < @ THEN @ ELSE e.offset + 1]
    BY <1>5 DEF Poll
  <2>2. e.offset = i /\ i \in Nat
    <3>1. Len(log[q]) \in Nat
      BY MessageType
    <3>. QED
      BY <2>1, <3>1 DEF EventAt
  <2>. HIDE DEF e, i
  <2>3. \A p \in Partitions :
          highWater'[p] = IF p = q /\ ~(i < highWater[q]) THEN i + 1 ELSE highWater[p]
    BY <1>1, <2>1, <2>2
  <2>. QED
    BY <1>1, <2>1, <2>2, <2>3
<1>6. \/ UNCHANGED historyVars
      \/ \E c \in Consumers : \/ Assigned(c)
                              \/ \E p \in Partitions : ResolveEnd(c, p) \/ Poll(c, p)
  BY DEF Next, vars, historyVars, Tick, Produce, StartRebalance, CompleteRebalance, CompleteWithout,
         NewGeneration, Revoked, Rejoin, Crash, AssignedNothing
<1>. QED
  BY <1>1, <1>2, <1>3, <1>4, <1>5, <1>6

\* What is pending was pending, or comes later than something that was.
LEMMA PendingGrowsOlder ==
  ASSUME TypeInv, Owners, [Next]_vars, NEW p \in Partitions, NEW t \in Pending(p)'
  PROVE  t \in Nat /\ \E s \in Pending(p) : s \in Nat /\ s <= t
<1>1. /\ now \in Nat /\ now' \in Nat /\ now <= now'
      /\ Len(log[p]) \in Nat /\ Len(log'[p]) \in Nat
      /\ \A i \in 1..Len(log[p]) : log'[p][i] = log[p][i]
      /\ \A i \in (Len(log[p]) + 1)..Len(log'[p]) : log'[p][i].ts = now
  BY LogGrows
<1>2. highWater[p] \in Nat /\ highWater'[p] \in Nat /\ highWater[p] <= highWater'[p]
  BY HistoryGrows
<1>3. now \in Pending(p)
      /\ \A i \in (highWater[p] + 1)..Len(log[p]) : log[p][i].ts \in Pending(p)
  BY DEF Pending
<1>4. CASE t = now'
  BY <1>1, <1>3, <1>4
<1>5. ASSUME NEW i \in (highWater'[p] + 1)..Len(log'[p]), t = log'[p][i].ts
      PROVE  t \in Nat /\ \E s \in Pending(p) : s \in Nat /\ s <= t
  <2>1. CASE i \in 1..Len(log[p])
    <3>1. i \in (highWater[p] + 1)..Len(log[p]) /\ t = log[p][i].ts
      BY <1>1, <1>2, <1>5, <2>1
    <3>2. t \in Nat
      BY <2>1, <3>1, MessageType
    <3>. QED
      BY <1>3, <3>1, <3>2
  <2>2. CASE i \in (Len(log[p]) + 1)..Len(log'[p])
    BY <1>1, <1>3, <1>5, <2>2
  <2>. QED
    BY <1>1, <1>2, <2>1, <2>2
<1>6. t = now' \/ \E i \in (highWater'[p] + 1)..Len(log'[p]) : t = log'[p][i].ts
  BY DEF Pending
<1>. QED
  BY <1>4, <1>5, <1>6

\* An owner that does nothing stays one.
LEMMA OwnerKept ==
  ASSUME TypeInv, Owners, [Next]_vars, NEW c \in Consumers, NEW p \in Owned(c),
         position'[c][p] = position[c][p],
         p \in DOMAIN partitionMap'[c], partitionMap'[c][p] = partitionMap[c][p]
  PROVE  Owner(c, p)'
<1>. DEFINE pos == position[c][p]
            a == partitionMap[c][p]
<1>1. /\ p \in Partitions /\ Owner(c, p)
      /\ Len(log[p]) \in Nat /\ pos \in {OffsetEnd} \cup 0..Len(log[p])
      /\ a \in PartitionActor
  BY OwnedType DEF Owners, Owner
<1>2. \A i \in 1..Len(log[p]) : log'[p][i] = log[p][i]
  BY <1>1, LogGrows
<1>3. /\ reports \subseteq reports'
      /\ highWater[p] \in Nat /\ highWater'[p] \in Nat /\ highWater[p] <= highWater'[p]
      /\ gap[p] => gap'[p]
  BY <1>1, HistoryGrows
<1>4. pos \in Int /\ \A j \in 1..pos : j \in 1..Len(log[p])
  BY <1>1 DEF OffsetEnd
<1>5. \A j \in 1..pos : log'[p][j] = log[p][j]
  BY <1>2, <1>4
<1>6. position'[c][p] = pos /\ partitionMap'[c][p] = a
  OBVIOUS
<1>7. /\ \A k \in Countries :
           Genuine(a.subActors[k], k, p, pos) /\ Remembers(a.subActors[k], k, p, pos)
      /\ ~gap[p] /\ pos # OffsetEnd => Complete(a, p, pos)
  BY <1>1 DEF Owner
<1>. HIDE DEF pos, a
<1>8. ASSUME NEW k \in Countries
      PROVE  /\ Genuine(a.subActors[k], k, p, pos)'
             /\ Remembers(a.subActors[k], k, p, pos)'
  <2>1. ASSUME NEW x \in a.subActors[k].entries
        PROVE  /\ x.offset < pos /\ x.copy = 0 /\ x.country = k
               /\ log'[p][x.offset + 1] = [country |-> k, ts |-> x.ts]
    <3>1. x.offset \in Nat
      BY <1>1, <2>1 DEF PartitionActor, EntryActor, Event
    <3>2. /\ x.offset < pos /\ x.copy = 0 /\ x.country = k
          /\ log[p][x.offset + 1] = [country |-> k, ts |-> x.ts]
      BY <1>7, <2>1 DEF Genuine
    <3>3. x.offset + 1 \in 1..pos
      BY <1>4, <3>1, <3>2
    <3>. QED
      BY <1>5, <3>2, <3>3
  <2>2. Genuine(a.subActors[k], k, p, pos)'
    BY <2>1, <1>6 DEF Genuine, a, pos
  <2>3. Remembers(a.subActors[k], k, p, pos)'
    BY <1>3, <1>5, <1>6, <1>7 DEF Remembers, a, pos
  <2>. QED
    BY <2>2, <2>3
<1>9. ASSUME ~gap'[p], pos # OffsetEnd
      PROVE  Complete(a, p, pos)'
  <2>1. Complete(a, p, pos) /\ pos \in Nat
    BY <1>1, <1>3, <1>7, <1>9
  <2>2. pos <= highWater'[p]
    BY <1>3, <2>1 DEF Complete
  <2>3. ASSUME NEW t \in Pending(p)', NEW j \in 1..pos, log'[p][j].ts >= t - WindowPeriod
        PROVE  \E x \in a.subActors[log'[p][j].country].entries : x.offset = j - 1
    <3>1. t \in Nat
      BY <1>1, PendingGrowsOlder
    <3>2. PICK s \in Pending(p) : s \in Nat /\ s <= t
      BY <1>1, PendingGrowsOlder
    <3>3. log'[p][j] = log[p][j] /\ log[p][j].ts \in Nat
      BY <1>1, <1>4, <1>5, MessageType
    <3>4. log[p][j].ts >= s - WindowPeriod
      BY <2>3, <3>1, <3>2, <3>3, ConfigAssumption
    <3>. QED
      BY <2>1, <3>3, <3>4 DEF Complete
  <2>. QED
    BY <1>6, <2>2, <2>3 DEF Complete, a, pos
<1>. QED
  BY <1>6, <1>8, <1>9 DEF Owner, a, pos

\* A consumer that is assigned a partition starts with a new actor, two
\* windows back: unless it comes too late, nothing pending needs more.
LEMMA OwnerAssigned ==
  ASSUME TypeInv, IdleOwnsNothing, NEW c \in Consumers, Assigned(c), NEW p \in Owned(c)'
  PROVE  Owner(c, p)'
<1>1. /\ partitionMap \in [Consumers -> Partial(PartitionActor)]
      /\ position \in [Consumers -> Partial(Int)]
      /\ granted[c] \subseteq Partitions
      /\ now \in Nat /\ phase[c] = "assigned"
  BY DEF TypeInv, TypeOK, Assigned
<1>2. DOMAIN partitionMap[c] = {}
  BY <1>1, PartialType DEF IdleOwnsNothing
<1>3. position'[c] = [q \in granted[c] |-> OffsetsForTimes(q, now - RewindPeriod)]
  BY <1>1 DEF Assigned
<1>4. p \in granted[c] /\ p \in Partitions
      /\ position'[c][p] = OffsetsForTimes(p, now - RewindPeriod)
  BY <1>1, <1>3 DEF Owned
<1>5. partitionMap'[c] = [q \in granted[c] |-> NewPartitionActor]
  <2>1. partitionMap'[c] = [q \in DOMAIN partitionMap[c] \cup granted[c] |->
                              IF q \in DOMAIN partitionMap[c] THEN partitionMap[c][q]
                              ELSE NewPartitionActor]
    BY <1>1 DEF Assigned, OnPartitionsAssigned
  <2>. QED
    BY <1>2, <2>1
<1>6. p \in DOMAIN partitionMap'[c] /\ partitionMap'[c][p] = NewPartitionActor
  BY <1>4, <1>5
<1>7. ASSUME NEW k \in Countries
      PROVE  /\ partitionMap'[c][p].subActors[k].entries = {}
             /\ partitionMap'[c][p].subActors[k].activationTime = ZeroTime
  BY <1>6 DEF NewPartitionActor, NewEntryActor
<1>8. ASSUME NEW k \in Countries
      PROVE  /\ Genuine(partitionMap[c][p].subActors[k], k, p, position[c][p])'
             /\ Remembers(partitionMap[c][p].subActors[k], k, p, position[c][p])'
  BY <1>7 DEF Genuine, Remembers
<1>9. ASSUME ~gap'[p], position'[c][p] # OffsetEnd
      PROVE  Complete(partitionMap[c][p], p, position[c][p])'
  <2> DEFINE pos == OffsetsForTimes(p, now - RewindPeriod)
  <2>1. /\ UNCHANGED <<now, log, highWater>>
        /\ highWater[p] \in Nat /\ Len(log[p]) \in Nat
        /\ \A i \in 1..Len(log[p]) : log[p][i].ts \in Nat
    BY <1>4, MessageType DEF TypeInv, Assigned, logVars
  <2>2. ~TooLate(p)
    BY <1>4, <1>9 DEF Assigned, TypeInv
  <2>3. \A i \in 1..Len(log[p]) : i > highWater[p] => log[p][i].ts >= now - WindowPeriod
    BY <1>1, <2>1, <2>2, ConfigAssumption DEF TooLate
  <2>4. RewindPeriod \in Nat /\ RewindPeriod >= WindowPeriod /\ now - RewindPeriod \in Int
        /\ RewindPeriod = 2 * WindowPeriod
    BY <1>1, ConfigAssumption DEF RewindPeriod
  <2>5. /\ pos \in 0..(Len(log[p]) - 1)
        /\ \A i \in 1..pos : log[p][i].ts < now - RewindPeriod
    BY <1>4, <1>9, <2>4, OffsetsForTimesType
  <2>. HIDE DEF pos
  <2>6. \A t \in Pending(p) : t \in Int /\ t >= now - WindowPeriod
    <3>1. now \in Int /\ now >= now - WindowPeriod
      BY <1>1, ConfigAssumption
    <3>2. ASSUME NEW n \in (highWater[p] + 1)..Len(log[p])
          PROVE  log[p][n].ts \in Int /\ log[p][n].ts >= now - WindowPeriod
      <4>1. n \in 1..Len(log[p]) /\ n > highWater[p]
        BY <2>1
      <4>. QED
        BY <2>1, <2>3, <4>1
    <3>. QED
      BY <3>1, <3>2 DEF Pending
  <2>7. pos <= highWater[p]
    <3>1. SUFFICES ASSUME pos > highWater[p] PROVE FALSE
      BY <2>1, <2>5
    <3>2. pos \in 1..Len(log[p]) /\ pos \in 1..pos
      BY <2>1, <2>5, <3>1
    <3>3. log[p][pos].ts >= now - WindowPeriod /\ log[p][pos].ts < now - RewindPeriod
      BY <2>3, <2>5, <3>1, <3>2
    <3>. QED
      BY <1>1, <2>1, <2>4, <3>2, <3>3, ConfigAssumption
  <2>8. ASSUME NEW t \in Pending(p), NEW j \in 1..pos, log[p][j].ts >= t - WindowPeriod
        PROVE  FALSE
    <3>1. log[p][j].ts \in Nat /\ log[p][j].ts < now - RewindPeriod
      BY <2>1, <2>5
    <3>. QED
      BY <1>1, <2>4, <2>6, <2>8, <3>1, ConfigAssumption
  <2>9. Pending(p)' = Pending(p) /\ position'[c][p] = pos
    BY <1>4, <2>1 DEF Pending, pos
  <2>. QED
    BY <2>1, <2>7, <2>8, <2>9 DEF Complete
<1>. QED
  BY <1>6, <1>8, <1>9 DEF Owner

\* An owner that is given the end of the log holds nothing: unless messages
\* came in meanwhile, nothing pending needs more.
LEMMA OwnerAtEnd ==
  ASSUME TypeInv, Owners, NEW c \in Consumers, NEW p \in Partitions, ResolveEnd(c, p)
  PROVE  Owner(c, p)'
<1>. DEFINE a == partitionMap[c][p]
<1>1. /\ p \in Owned(c) /\ position[c][p] = OffsetEnd /\ Owner(c, p)
      /\ p \in DOMAIN partitionMap[c] /\ a \in PartitionActor
  BY OwnedType DEF ResolveEnd, Owners, Owner
<1>2. /\ now \in Nat /\ highWater[p] \in Nat /\ Len(log[p]) \in Nat
      /\ highWater[p] <= Len(log[p])
      /\ \A i \in 1..Len(log[p]) : log[p][i].ts \in Nat
  BY MessageType DEF TypeInv, TypeOK
<1>3. /\ partitionMap' = partitionMap /\ log' = log /\ highWater' = highWater /\ now' = now
      /\ position'[c][p] = Len(log[p])
  <2>1. position \in [Consumers -> Partial(Int)] /\ position' = [position EXCEPT ![c][p] = EndOf(p)]
    BY DEF TypeInv, ResolveEnd
  <2>. QED
    BY <1>1, <2>1 DEF ResolveEnd, EndOf, logVars, Owned
<1>4. ASSUME NEW k \in Countries
      PROVE  a.subActors[k].entries = {} /\ a.subActors[k].activationTime = ZeroTime
  <2>1. \A x \in a.subActors[k].entries : x.offset \in Nat
    BY <1>1 DEF PartitionActor, EntryActor, Event
  <2>2. Genuine(a.subActors[k], k, p, OffsetEnd) /\ Remembers(a.subActors[k], k, p, OffsetEnd)
    BY <1>1 DEF Owner
  <2>3. a.subActors[k].entries = {}
    <3>1. \A x \in a.subActors[k].entries : x.offset < -1
      BY <2>2 DEF Genuine, OffsetEnd
    <3>. QED
      BY <2>1, <3>1
  <2>4. a.subActors[k].activationTime = ZeroTime
    <3>1. 1..OffsetEnd = {}
      BY DEF OffsetEnd
    <3>. QED
      BY <2>2, <3>1 DEF Remembers
  <2>. QED
    BY <2>3, <2>4
<1>5. ASSUME NEW k \in Countries
      PROVE  /\ Genuine(partitionMap[c][p].subActors[k], k, p, position[c][p])'
             /\ Remembers(partitionMap[c][p].subActors[k], k, p, position[c][p])'
  BY <1>3, <1>4 DEF Genuine, Remembers
<1>6. ASSUME ~gap'[p]
      PROVE  Complete(partitionMap[c][p], p, position[c][p])'
  <2>1. \A i \in 1..Len(log[p]) :
          ~(i > highWater[p]) /\ ~(log[p][i].ts >= now - WindowPeriod)
    BY <1>6 DEF ResolveEnd, TypeInv
  <2>2. Len(log[p]) <= highWater[p]
    <3>1. CASE Len(log[p]) = 0
      BY <1>2, <3>1
    <3>2. CASE Len(log[p]) # 0
      <4>1. Len(log[p]) \in 1..Len(log[p])
        BY <1>2, <3>2
      <4>. QED
        BY <1>2, <2>1, <4>1
    <3>. QED
      BY <3>1, <3>2
  <2>3. Pending(p)' = {now}
    <3>1. (highWater[p] + 1)..Len(log[p]) = {}
      BY <1>2, <2>2
    <3>. QED
      BY <1>3, <3>1 DEF Pending
  <2>. QED
    BY <1>3, <2>1, <2>2, <2>3 DEF Complete
<1>. QED
  BY <1>1, <1>3, <1>5, <1>6 DEF Owner

\* What Poll does to the partition it reads.
LEMMA PollStep ==
  ASSUME TypeInv, Owners, NEW c \in Consumers, NEW p \in Partitions, Poll(c, p)
  PROVE  LET i == position[c][p]
             a == partitionMap[c][p]
             m == log[p][i + 1]
             e == EventAt(a, p, i) IN
         /\ p \in Owned(c) /\ Owner(c, p)
         /\ i \in Nat /\ i + 1 \in 1..Len(log[p]) /\ Len(log[p]) \in Nat
         /\ a \in PartitionActor /\ e \in Event /\ m \in Message
         /\ e.offset = i /\ e.copy = 0 /\ e.country = m.country /\ e.ts = m.ts
         /\ m.country \in Countries /\ m.ts \in Nat
         /\ UNCHANGED <<now, log, phase, gap>>
         /\ reports' = reports \cup
              {r \in {[partition |-> p, event |-> e]} : PartitionActivates(a, e)}
         /\ highWater[p] \in Nat
         /\ highWater' = [highWater EXCEPT ![p] = IF i < highWater[p] THEN highWater[p] ELSE i + 1]
         /\ position' = [position EXCEPT ![c] = [position[c] EXCEPT ![p] = i + 1]]
         /\ partitionMap' = [partitionMap EXCEPT ![c] =
                               [partitionMap[c] EXCEPT ![p] = PartitionAddEvent(a, e)]]
<1>. DEFINE i == position[c][p]
            a == partitionMap[c][p]
            m == log[p][i + 1]
            e == EventAt(a, p, i)
<1>1. /\ p \in Owned(c) /\ i \in 0..(Len(log[p]) - 1)
      /\ UNCHANGED <<now, log, phase, gap>>
      /\ reports' = reports \cup
           {r \in {[partition |-> p, event |-> e]} : PartitionActivates(a, e)}
      /\ highWater' = [highWater EXCEPT ![p] = IF e.offset < @ THEN @ ELSE e.offset + 1]
      /\ position' = [position EXCEPT ![c][p] = @ + 1]
      /\ partitionMap' = [partitionMap EXCEPT ![c][p] = PartitionAddEvent(a, e)]
  BY DEF Poll, logVars
<1>2. /\ i \in Nat /\ i + 1 \in 1..Len(log[p]) /\ Len(log[p]) \in Nat
      /\ a \in PartitionActor /\ m \in Message /\ m.country \in Countries /\ m.ts \in Nat
      /\ e = [offset |-> i, copy |-> 0, country |-> m.country, ts |-> m.ts]
      /\ e \in Event
  BY <1>1, EventAtType, Zenon
<1>3. e.offset = i /\ e.copy = 0 /\ e.country = m.country /\ e.ts = m.ts
  <2>. HIDE DEF e, m, i
  <2>. QED
    BY <1>2
<1>4. Owner(c, p)
  BY <1>1 DEF Owners
<1>5. /\ highWater \in [Partitions -> Nat]
      /\ position \in [Consumers -> Partial(Int)]
      /\ partitionMap \in [Consumers -> Partial(PartitionActor)]
  BY DEF TypeInv
<1>. HIDE DEF e
<1>6. /\ position' = [position EXCEPT ![c] = [position[c] EXCEPT ![p] = i + 1]]
      /\ partitionMap' = [partitionMap EXCEPT ![c] =
                            [partitionMap[c] EXCEPT ![p] = PartitionAddEvent(a, e)]]
  BY <1>1, <1>5
<1>7. /\ highWater[p] \in Nat
      /\ highWater' = [highWater EXCEPT ![p] = IF i < highWater[p] THEN highWater[p] ELSE i + 1]
  BY <1>1, <1>3, <1>5
<1>. QED
  BY <1>1, <1>2, <1>3, <1>4, <1>6, <1>7, Zenon DEF e, m, a, i

\* The owner that reads a message holds it, keeps what its window and the
\* windows of later messages need, and remembers the report it makes.
LEMMA OwnerPolls ==
  ASSUME TypeInv, InOrder, Owners, NEW c \in Consumers, NEW p \in Partitions, Poll(c, p)
  PROVE  Owner(c, p)'
<1>. DEFINE i == position[c][p]
            a == partitionMap[c][p]
            m == log[p][i + 1]
            e == EventAt(a, p, i)
            b == PartitionAddEvent(a, e)
<1>1. /\ p \in Owned(c) /\ Owner(c, p)
      /\ i \in Nat /\ i + 1 \in 1..Len(log[p]) /\ Len(log[p]) \in Nat
      /\ a \in PartitionActor /\ e \in Event /\ m \in Message
      /\ e.offset = i /\ e.copy = 0 /\ e.country = m.country /\ e.ts = m.ts
      /\ m.country \in Countries /\ m.ts \in Nat
      /\ UNCHANGED <<now, log, phase, gap>>
      /\ reports' = reports \cup
           {r \in {[partition |-> p, event |-> e]} : PartitionActivates(a, e)}
      /\ highWater[p] \in Nat
      /\ highWater' = [highWater EXCEPT ![p] = IF i < highWater[p] THEN highWater[p] ELSE i + 1]
  BY PollStep, Zenon
<1>2. /\ position'[c][p] = i + 1
      /\ p \in DOMAIN partitionMap'[c] /\ partitionMap'[c][p] = b
  <2>. HIDE DEF e
  <2>1. /\ position' = [position EXCEPT ![c] = [position[c] EXCEPT ![p] = i + 1]]
        /\ partitionMap' = [partitionMap EXCEPT ![c] = [partitionMap[c] EXCEPT ![p] = b]]
    BY PollStep, Zenon DEF e
  <2>2. DOMAIN position = Consumers /\ DOMAIN partitionMap = Consumers
    BY DEF TypeInv
  <2>3. p \in DOMAIN position[c] /\ p \in DOMAIN partitionMap[c]
    BY <1>1 DEF Owned, Owner
  <2>. HIDE DEF b, a
  <2>. QED
    BY <2>1, <2>2, <2>3
<1>3. ASSUME NEW k \in Countries
      PROVE  /\ b.subActors[k].entries
                  \subseteq a.subActors[k].entries \cup (IF k = e.country THEN {e} ELSE {})
             /\ \A x \in a.subActors[k].entries :
                  x.ts >= e.ts - WindowPeriod => x \in b.subActors[k].entries
             /\ k = e.country => e \in b.subActors[k].entries
             /\ \/ b.subActors[k].activationTime \in {a.subActors[k].activationTime, ZeroTime}
                \/ k = e.country /\ PartitionActivates(a, e) /\ b.subActors[k].activationTime = e.ts
  <2>. HIDE DEF i, a, m, e
  <2>. QED
    BY <1>1, AddEventKeeps, Zenon
<1>4. ASSUME NEW k \in Countries
      PROVE  Genuine(a.subActors[k], k, p, i) /\ Remembers(a.subActors[k], k, p, i)
  BY <1>1, <1>4 DEF Owner
<1>5. ASSUME NEW k \in Countries, NEW x \in a.subActors[k].entries
      PROVE  x.offset \in Nat /\ x.ts \in Nat
  BY <1>1, <1>5 DEF PartitionActor, EntryActor, Event
<1>6. highWater'[p] = IF i < highWater[p] THEN highWater[p] ELSE i + 1
  BY <1>1 DEF TypeInv
<1>. HIDE DEF i, a, m, e, b
<1>7. ASSUME NEW k \in Countries
      PROVE  Genuine(partitionMap[c][p].subActors[k], k, p, position[c][p])'
  <2>1. ASSUME NEW x \in b.subActors[k].entries
        PROVE  /\ x.offset < i + 1 /\ x.copy = 0 /\ x.country = k
               /\ log[p][x.offset + 1] = [country |-> k, ts |-> x.ts]
    <3>1. CASE x \in a.subActors[k].entries
      <4>1. x.offset < i
        BY <1>4, <3>1 DEF Genuine
      <4>. QED
        BY <1>1, <1>4, <1>5, <3>1, <4>1 DEF Genuine
    <3>2. CASE k = e.country /\ x = e
      BY <1>1, <3>2 DEF Message, m
    <3>. QED
      BY <1>3, <2>1, <3>1, <3>2
  <2>. QED
    BY <1>1, <1>2, <2>1 DEF Genuine
<1>8. ASSUME NEW k \in Countries
      PROVE  Remembers(partitionMap[c][p].subActors[k], k, p, position[c][p])'
  <2>1. CASE b.subActors[k].activationTime = ZeroTime
    BY <1>2, <2>1 DEF Remembers
  <2>2. CASE /\ b.subActors[k].activationTime = a.subActors[k].activationTime
             /\ a.subActors[k].activationTime # ZeroTime
    <3>1. /\ \E r \in reports : /\ r.partition = p /\ r.event.country = k
                                /\ r.event.ts = a.subActors[k].activationTime
          /\ \E j \in 1..i : log[p][j].ts = a.subActors[k].activationTime
      BY <1>4, <2>2 DEF Remembers
    <3>2. \A j \in 1..i : j \in 1..(i + 1)
      BY <1>1
    <3>. QED
      BY <1>1, <1>2, <2>2, <3>1, <3>2 DEF Remembers
  <2>3. CASE /\ k = e.country /\ PartitionActivates(a, e)
             /\ b.subActors[k].activationTime = e.ts
    <3>1. [partition |-> p, event |-> e] \in reports'
      BY <1>1, <2>3
    <3>2. i + 1 \in 1..(i + 1) /\ log'[p][i + 1].ts = e.ts
      BY <1>1 DEF m
    <3>. QED
      BY <1>2, <2>3, <3>1, <3>2 DEF Remembers
  <2>. QED
    BY <1>3, <2>1, <2>2, <2>3
<1>9. ASSUME ~gap'[p]
      PROVE  Complete(partitionMap[c][p], p, position[c][p])'
  <2>1. Complete(a, p, i)
    <3>1. ~gap[p] /\ i # OffsetEnd
      BY <1>1, <1>9 DEF OffsetEnd
    <3>. QED
      BY <1>1, <3>1 DEF Owner, a, i
  <2>2. i <= highWater[p] /\ i + 1 <= highWater'[p] /\ highWater[p] <= highWater'[p]
    BY <1>1, <1>6, <2>1 DEF Complete
  <2>3. ASSUME NEW t \in Pending(p)', NEW j \in 1..(i + 1), log[p][j].ts >= t - WindowPeriod
        PROVE  \E x \in b.subActors[log[p][j].country].entries : x.offset = j - 1
    <3>1. t \in Nat /\ t >= e.ts
      <4>1. CASE t = now
        BY <1>1, <4>1 DEF InOrder, TypeInv, TypeOK, m
      <4>2. ASSUME NEW n \in (highWater'[p] + 1)..Len(log[p]), t = log[p][n].ts
            PROVE  t \in Nat /\ t >= e.ts
        <5>1. n \in 1..Len(log[p]) /\ n \in (i + 1)..Len(log[p])
          BY <1>1, <1>6, <2>2
        <5>2. t \in Nat
          BY <4>2, <5>1, MessageType
        <5>3. log[p][i + 1].ts <= log[p][n].ts
          BY <1>1, <5>1 DEF InOrder
        <5>. QED
          BY <1>1, <4>2, <5>2, <5>3 DEF m
      <4>. QED
        BY <1>1, <4>1, <4>2 DEF Pending
    <3>2. j \in 1..Len(log[p]) /\ log[p][j].country \in Countries /\ log[p][j].ts \in Nat
      <4>1. j \in 1..Len(log[p])
        BY <1>1
      <4>. QED
        BY <4>1, MessageType
    <3>3. log[p][j].ts >= e.ts - WindowPeriod
      <4>1. e.ts \in Nat /\ WindowPeriod \in Nat /\ log[p][j].ts \in Nat
        BY <1>1, <3>2, ConfigAssumption
      <4>. QED
        BY <2>3, <3>1, <4>1
    <3>4. CASE j = i + 1
      <4>1. e \in b.subActors[log[p][j].country].entries /\ e.offset = j - 1
        BY <1>1, <1>3, <3>2, <3>4 DEF m
      <4>. QED
        BY <4>1
    <3>5. CASE j \in 1..i
      <4>1. \E s \in Pending(p) : s \in Nat /\ s <= t
        BY PendingGrowsOlder DEF Next
      <4>2. PICK s \in Pending(p) : s \in Nat /\ s <= t
        BY <4>1
      <4>3. log[p][j].ts >= s - WindowPeriod
        BY <2>3, <3>1, <3>2, <4>2, ConfigAssumption
      <4>4. PICK x \in a.subActors[log[p][j].country].entries : x.offset = j - 1
        BY <2>1, <3>5, <4>2, <4>3 DEF Complete
      <4>5. x.ts = log[p][j].ts
        <5>1. log[p][x.offset + 1] = [country |-> log[p][j].country, ts |-> x.ts]
          BY <1>4, <3>2 DEF Genuine
        <5>2. x.offset + 1 = j
          BY <4>4
        <5>. QED
          BY <5>1, <5>2
      <4>. QED
        BY <1>3, <3>2, <3>3, <4>4, <4>5
    <3>. QED
      BY <1>1, <3>4, <3>5
  <2>. QED
    BY <1>1, <1>2, <2>2, <2>3 DEF Complete
<1>. QED
  BY <1>2, <1>7, <1>8, <1>9 DEF Owner

\* Whoever owns a partition after a step is an owner.
LEMMA NextOwners ==
  ASSUME Inv, [Next]_vars
  PROVE  Owners'
<1>. SUFFICES ASSUME NEW c \in Consumers, NEW p \in Owned(c)' PROVE Owner(c, p)'
  BY DEF Owners
<1>0. TypeInv /\ InOrder /\ IdleOwnsNothing /\ Owners
  BY DEF Inv
<1>1. CASE position'[c] = position[c] /\ partitionMap'[c] = partitionMap[c]
  <2>1. p \in Owned(c)
    BY <1>1 DEF Owned
  <2>2. p \in DOMAIN partitionMap[c]
    BY <1>0, <2>1 DEF Owners, Owner
  <2>. QED
    BY <1>0, <1>1, <2>1, <2>2, OwnerKept
<1>2. CASE position'[c] = NoPartitions
  BY <1>2, PartialType DEF Owned
<1>3. CASE Assigned(c)
  BY <1>0, <1>3, OwnerAssigned
<1>4. ASSUME NEW q \in Partitions, ResolveEnd(c, q)
      PROVE  Owner(c, p)'
  <2>1. CASE p = q
    BY <1>0, <1>4, <2>1, OwnerAtEnd
  <2>2. CASE p # q
    <3>1. /\ position \in [Consumers -> Partial(Int)] /\ partitionMap' = partitionMap
          /\ position' = [position EXCEPT ![c][q] = EndOf(q)]
      BY <1>0, <1>4 DEF TypeInv, ResolveEnd
    <3>2. p \in Owned(c) /\ position'[c][p] = position[c][p]
      BY <2>2, <3>1 DEF Owned
    <3>3. p \in DOMAIN partitionMap[c]
      BY <1>0, <3>2 DEF Owners, Owner
    <3>. QED
      BY <1>0, <3>1, <3>2, <3>3, OwnerKept
  <2>. QED
    BY <2>1, <2>2
<1>5. ASSUME NEW q \in Partitions, Poll(c, q)
      PROVE  Owner(c, p)'
  <2>1. CASE p = q
    BY <1>0, <1>5, <2>1, OwnerPolls
  <2>2. CASE p # q
    <3> DEFINE v == position[c][q] + 1
               b == PartitionAddEvent(partitionMap[c][q],
                                      EventAt(partitionMap[c][q], q, position[c][q]))
    <3>1. /\ position' = [position EXCEPT ![c] = [position[c] EXCEPT ![q] = v]]
          /\ partitionMap' = [partitionMap EXCEPT ![c] = [partitionMap[c] EXCEPT ![q] = b]]
      BY <1>0, <1>5, PollStep, Zenon
    <3>. HIDE DEF v, b
    <3>2. DOMAIN position = Consumers /\ DOMAIN partitionMap = Consumers
      BY <1>0 DEF TypeInv
    <3>3. p \in Owned(c) /\ position'[c][p] = position[c][p]
      BY <2>2, <3>1, <3>2 DEF Owned
    <3>4. p \in DOMAIN partitionMap[c]
      BY <1>0, <3>3 DEF Owners, Owner
    <3>5. p \in DOMAIN partitionMap'[c] /\ partitionMap'[c][p] = partitionMap[c][p]
      BY <2>2, <3>1, <3>2, <3>4
    <3>. QED
      BY <1>0, <3>3, <3>5, OwnerKept
  <2>. QED
    BY <2>1, <2>2
<1>. QED
  BY <1>0, <1>1, <1>2, <1>3, <1>4, <1>5, OwnershipStep

-----------------------------------------------------------------------------
(***************************************************************************)
(* The theorems.                                                           *)
(***************************************************************************)

\* The invariant: the logs are in order and every owner knows of its
\* partition what it must.
THEOREM Invariant == Spec => []Inv
<1>1. Inv /\ [Next]_vars => Inv'
  BY NextTyped, NextInOrder, NextIdle, NextOwners DEF Inv
<1>. QED
  BY <1>1, InitInv, PTL DEF Spec

\* The clock, the group, the owners' positions and the marks on the logs have
\* their types; a position is the end or lies in the log.
THEOREM TypeCorrect == Spec => []TypeOK
<1>1. Inv => TypeOK
  BY DEF Inv, TypeInv
<1>. QED
  BY <1>1, Invariant, PTL

\* The entries of the actor that is handed a message are messages of the log,
\* each once, none later than the message.
LEMMA EntriesOf ==
  ASSUME Inv, NEW c \in Consumers, NEW p \in Partitions, Poll(c, p)
  PROVE  LET i == position[c][p]
             e == EventAt(partitionMap[c][p], p, i)
             entries == partitionMap[c][p].subActors[e.country].entries IN
         /\ IsFiniteSet(entries)
         /\ \A x \in entries \cup {e} :
              /\ x.offset \in Nat /\ x.offset + 1 \in 1..(i + 1)
              /\ log[p][x.offset + 1].country = e.country
              /\ log[p][x.offset + 1].ts = x.ts
              /\ x.ts \in Nat /\ x.ts <= e.ts
         /\ \A x, y \in entries \cup {e} : x.offset = y.offset => x = y
<1>. DEFINE i == position[c][p]
            a == partitionMap[c][p]
            e == EventAt(a, p, i)
            entries == a.subActors[e.country].entries
            all == entries \cup {e}
<1>0. TypeInv /\ InOrder /\ Owners
  BY DEF Inv
<1>1. /\ Owner(c, p) /\ i \in Nat /\ i + 1 \in 1..Len(log[p]) /\ Len(log[p]) \in Nat
      /\ a \in PartitionActor /\ e \in Event
      /\ e.offset = i /\ e.copy = 0
      /\ log[p][i + 1] \in Message
      /\ e.country = log[p][i + 1].country /\ e.ts = log[p][i + 1].ts
      /\ e.country \in Countries /\ e.ts \in Nat
  BY <1>0, PollStep, Zenon
<1>2. Genuine(a.subActors[e.country], e.country, p, i)
  <2>. HIDE DEF e
  <2>. QED
    BY <1>1 DEF Owner
<1>. HIDE DEF e, a, i
<1>3. ASSUME NEW x \in all
      PROVE  /\ x \in Event /\ x.offset \in 0..i /\ x.copy = 0 /\ x.country = e.country
             /\ log[p][x.offset + 1].country = e.country
             /\ log[p][x.offset + 1].ts = x.ts
  <2>1. CASE x = e
    BY <1>1, <2>1
  <2>2. CASE x \in entries
    <3>1. /\ x.offset < i /\ x.copy = 0 /\ x.country = e.country
          /\ log[p][x.offset + 1] = [country |-> e.country, ts |-> x.ts]
      BY <1>2, <2>2 DEF Genuine
    <3>2. x \in Event /\ x.offset \in Nat
      BY <1>1, <2>2 DEF PartitionActor, EntryActor, Event
    <3>. QED
      BY <1>1, <3>1, <3>2
  <2>. QED
    BY <2>1, <2>2
<1>. HIDE DEF entries
<1>4. ASSUME NEW x \in all
      PROVE  /\ x.offset \in Nat /\ x.offset + 1 \in 1..(i + 1)
             /\ log[p][x.offset + 1].country = e.country
             /\ log[p][x.offset + 1].ts = x.ts
             /\ x.ts \in Nat /\ x.ts <= e.ts
  <2>1. x.offset + 1 \in 1..Len(log[p]) /\ i + 1 \in (x.offset + 1)..Len(log[p])
        /\ x.offset \in Nat /\ x.offset + 1 \in 1..(i + 1)
    BY <1>1, <1>3
  <2>2. log[p][x.offset + 1].ts <= log[p][i + 1].ts
    BY <1>0, <2>1 DEF InOrder
  <2>3. x.ts \in Nat
    BY <1>3 DEF Event
  <2>. QED
    BY <1>1, <1>3, <2>1, <2>2, <2>3
<1>5. ASSUME NEW x \in all, NEW y \in all, x.offset = y.offset
      PROVE  x = y
  <2>1. x \in Event /\ y \in Event
    BY <1>3
  <2>2. x.copy = y.copy /\ x.country = y.country /\ x.ts = y.ts
    BY <1>3, <1>5
  <2>. QED
    BY <1>5, <2>1, <2>2 DEF Event
<1>6. IsFiniteSet(entries)
  <2> DEFINE f == [x \in entries |-> x.offset]
  <2>1. \A x \in entries : x \in all
    OBVIOUS
  <2>. HIDE DEF all
  <2>2. f \in [entries -> 0..i]
    BY <1>3, <2>1
  <2>3. f \in Injection(entries, 0..i)
    BY <1>5, <2>1, <2>2 DEF Injection, IsInjective
  <2>4. IsFiniteSet(0..i)
    BY <1>1, FS_Interval
  <2>. HIDE DEF f
  <2>. QED
    BY <2>3, <2>4, FS_Injection
<1>. QED
  BY <1>4, <1>5, <1>6 DEF all, entries, e, a, i

\* The windows of a log only grow.
LEMMA WindowsGrow ==
  ASSUME TypeInv, [Next]_vars, NEW p \in Partitions, NEW m
  PROVE  /\ WindowOf(p, m) \subseteq WindowOf(p, m)'
         /\ WindowOf(p, m)' \cap 1..Len(log[p]) = WindowOf(p, m)
         /\ IsFiniteSet(WindowOf(p, m)') /\ IsFiniteSet(WindowOf(p, m))
<1>1. /\ Len(log[p]) \in Nat /\ Len(log'[p]) \in Nat /\ Len(log[p]) <= Len(log'[p])
      /\ \A i \in 1..Len(log[p]) : log'[p][i] = log[p][i]
  BY LogGrows
<1>2. \A i \in 1..Len(log[p]) : i \in 1..Len(log'[p])
  BY <1>1
<1>3. IsFiniteSet(1..Len(log'[p])) /\ IsFiniteSet(1..Len(log[p]))
  <2>1. ASSUME NEW k \in Nat
        PROVE  IsFiniteSet(1..k)
    BY FS_Interval
  <2>. QED
    BY <1>1, <2>1
<1>4. WindowOf(p, m)' \subseteq 1..Len(log'[p]) /\ WindowOf(p, m) \subseteq 1..Len(log[p])
  BY DEF WindowOf
<1>5. IsFiniteSet(WindowOf(p, m)') /\ IsFiniteSet(WindowOf(p, m))
  BY <1>3, <1>4, FS_Subset
<1>6. WindowOf(p, m)' \cap 1..Len(log[p]) = WindowOf(p, m)
  BY <1>1, <1>2 DEF WindowOf
<1>. QED
  BY <1>5, <1>6

\* A report is made when the actor counts, each once, more than the threshold
\* of messages of the log that lie in the window of the last.
THEOREM ReportsAreJustifiedAlways == Spec => []ReportsAreJustified
<1>1. Init => ReportsAreJustified
  BY DEF Init, ReportsAreJustified
<1>2. ASSUME Inv, ReportsAreJustified, [Next]_vars
      PROVE  ReportsAreJustified'
  <2>. SUFFICES ASSUME NEW r \in reports'
                PROVE  Cardinality(WindowOf(r.partition, r.event)') > CountThreshold
    BY DEF ReportsAreJustified
  <2>0. TypeInv
    BY <1>2 DEF Inv
  <2>1. CASE r \in reports
    <3>1. r.partition \in Partitions
      BY <2>0, <2>1 DEF TypeInv
    <3> DEFINE old == WindowOf(r.partition, r.event)
               new == WindowOf(r.partition, r.event)'
    <3>2. old \subseteq new /\ IsFiniteSet(new) /\ IsFiniteSet(old)
      BY <1>2, <2>0, <3>1, WindowsGrow
    <3>3. Cardinality(old) > CountThreshold
      BY <1>2, <2>1 DEF ReportsAreJustified
    <3>. HIDE DEF old, new
    <3>4. /\ Cardinality(old) \in Nat /\ Cardinality(new) \in Nat
          /\ Cardinality(old) <= Cardinality(new)
      BY <3>2, FS_CardinalityType, FS_Subset
    <3>. QED
      BY <3>3, <3>4, ConfigAssumption DEF new
  <2>2. CASE r \notin reports
    <3>1. PICK c \in Consumers, p \in Partitions : Poll(c, p)
      BY <1>2, <2>2
         DEF Next, vars, historyVars, Tick, Produce, StartRebalance, CompleteRebalance,
             CompleteWithout, NewGeneration, Revoked, Rejoin, Crash, Assigned, AssignedNothing,
             ResolveEnd
    <3> DEFINE i == position[c][p]
               a == partitionMap[c][p]
               e == EventAt(a, p, i)
               all == a.subActors[e.country].entries \cup {e}
               window == {x \in all : x.ts >= e.ts - WindowPeriod}
               f == [x \in window |-> x.offset + 1]
    <3>2. /\ i + 1 \in 1..Len(log[p]) /\ Len(log[p]) \in Nat
          /\ a \in PartitionActor /\ e \in Event /\ log' = log
          /\ e.country \in Countries /\ e.ts \in Nat
          /\ reports' = reports \cup
               {x \in {[partition |-> p, event |-> e]} : PartitionActivates(a, e)}
      <4>1. Owners
        BY <1>2 DEF Inv
      <4>. QED
        BY <2>0, <3>1, <4>1, PollStep, Zenon
    <3>3. /\ IsFiniteSet(a.subActors[e.country].entries)
          /\ \A x \in all : /\ x.offset \in Nat /\ x.offset + 1 \in 1..(i + 1)
                            /\ log[p][x.offset + 1].country = e.country
                            /\ log[p][x.offset + 1].ts = x.ts
                            /\ x.ts \in Nat /\ x.ts <= e.ts
          /\ \A x, y \in all : x.offset = y.offset => x = y
      BY <1>2, <3>1, EntriesOf, Zenon
    <3>. HIDE DEF i, a, e
    <3>4. r = [partition |-> p, event |-> e] /\ PartitionActivates(a, e)
      BY <2>2, <3>2
    <3>5. Cardinality(window) > CountThreshold
      BY <3>2, <3>3, <3>4, ActivatesWhen
    <3>. HIDE DEF all
    <3>6. \A x \in window : x.offset + 1 \in WindowOf(p, e)
      <4>1. \A x \in window : x.offset + 1 \in 1..Len(log[p])
        BY <3>2, <3>3
      <4>2. \A x \in window : x.ts \in (e.ts - WindowPeriod)..e.ts
        BY <3>2, <3>3, ConfigAssumption
      <4>. QED
        BY <3>3, <4>1, <4>2 DEF WindowOf
    <3>7. f \in Injection(window, WindowOf(p, e))
      <4>1. \A x, y \in window : x.offset + 1 = y.offset + 1 => x = y
        BY <3>3
      <4>. QED
        BY <3>6, <4>1 DEF Injection, IsInjective
    <3>8. IsFiniteSet(WindowOf(p, e))
      BY <1>2, <2>0, WindowsGrow
    <3>9. IsFiniteSet(window) /\ Cardinality(window) <= Cardinality(WindowOf(p, e))
      <4>. HIDE DEF f, window
      <4>. QED
        BY <3>7, <3>8, FS_Injection
    <3>10. Cardinality(window) \in Nat /\ Cardinality(WindowOf(p, e)) \in Nat
      <4>. HIDE DEF window
      <4>. QED
        BY <3>8, <3>9, FS_CardinalityType
    <3>11. WindowOf(r.partition, r.event)' = WindowOf(r.partition, r.event)
      BY <3>2 DEF WindowOf
    <3>12. WindowOf(r.partition, r.event) = WindowOf(p, e)
      BY <3>4
    <3>. HIDE DEF window
    <3>. QED
      BY <3>5, <3>9, <3>10, <3>11, <3>12, ConfigAssumption
  <2>. QED
    BY <2>1, <2>2
<1>. QED
  BY <1>1, <1>2, Invariant, PTL DEF Spec

\* When a message is processed for the first time and reaches the limit, the
\* actor reports it or remembers a report in its window.
LEMMA FirstReadReports ==
  ASSUME Inv, NEW c \in Consumers, NEW p \in Partitions, Poll(c, p), ~gap[p],
         NEW n \in Nat, n = highWater[p] + 1, n = position[c][p] + 1, LimitAt(p, n)
  PROVE  Reported(p, log[p][n])'
<1>. DEFINE i == position[c][p]
            a == partitionMap[c][p]
            e == EventAt(a, p, i)
            m == log[p][i + 1]
            old == a.subActors[e.country]
            all == old.entries \cup {e}
            window == {x \in all : x.ts >= e.ts - WindowPeriod}
            J == {j \in WindowOf(p, m) : j <= i + 1}
            seen == {x \in window : x.offset + 1 \in J}
            f == [x \in seen |-> x.offset + 1]
<1>0. TypeInv /\ InOrder /\ Owners
  BY DEF Inv
<1>1. /\ Owner(c, p) /\ i \in Nat /\ i + 1 \in 1..Len(log[p]) /\ Len(log[p]) \in Nat
      /\ a \in PartitionActor /\ e \in Event /\ log' = log
      /\ e.offset = i /\ e.country = m.country /\ e.ts = m.ts
      /\ e.country \in Countries /\ e.ts \in Nat
      /\ reports' = reports \cup
           {x \in {[partition |-> p, event |-> e]} : PartitionActivates(a, e)}
  BY <1>0, PollStep, Zenon
<1>2. /\ IsFiniteSet(old.entries)
      /\ \A x \in all : /\ x.offset \in Nat /\ x.offset + 1 \in 1..(i + 1)
                        /\ log[p][x.offset + 1].country = e.country
                        /\ log[p][x.offset + 1].ts = x.ts
                        /\ x.ts \in Nat /\ x.ts <= e.ts
  BY EntriesOf, Zenon
<1>3. Cardinality(J) > CountThreshold
  <2>1. n = i + 1
    OBVIOUS
  <2>. HIDE DEF i
  <2>. QED
    BY <2>1 DEF LimitAt
<1>4. Complete(a, p, i) /\ Remembers(old, e.country, p, i)
  <2>. HIDE DEF e
  <2>. QED
    BY <1>1 DEF Owner, OffsetEnd
<1>5. m.ts \in Pending(p)
  <2>1. i + 1 \in (highWater[p] + 1)..Len(log[p])
    BY <1>1
  <2>. QED
    BY <2>1 DEF Pending
<1>. HIDE DEF i, a, e, m
<1>6. ASSUME NEW j \in J
      PROVE  \E x \in seen : x.offset + 1 = j
  <2>1. /\ j \in 1..Len(log[p]) /\ j <= i + 1
        /\ log[p][j].country = m.country /\ log[p][j].ts \in (m.ts - WindowPeriod)..m.ts
    BY DEF WindowOf
  <2>2. \E x \in all : x.offset + 1 = j
    <3>1. CASE j = i + 1
      BY <1>1, <3>1
    <3>2. CASE j # i + 1
      <4>1. j \in 1..i /\ log[p][j].ts >= m.ts - WindowPeriod
        BY <1>1, <2>1, <3>2, ConfigAssumption
      <4>2. PICK x \in a.subActors[log[p][j].country].entries : x.offset = j - 1
        BY <1>4, <1>5, <4>1 DEF Complete
      <4>3. x \in all
        BY <1>1, <2>1, <4>2
      <4>. QED
        BY <1>2, <2>1, <4>2, <4>3
    <3>. QED
      BY <3>1, <3>2
  <2>3. PICK x \in all : x.offset + 1 = j
    BY <2>2
  <2>4. x.ts = log[p][j].ts
    BY <1>2, <2>3
  <2>5. x \in window
    BY <1>1, <2>1, <2>4, ConfigAssumption
  <2>. QED
    BY <2>3, <2>5
<1>7. Cardinality(window) > CountThreshold
  <2>1. f \in Surjection(seen, J)
    <3>. HIDE DEF J
    <3>. QED
      BY <1>6 DEF Surjection
  <2>2. IsFiniteSet(window) /\ IsFiniteSet(seen) /\ seen \subseteq window
    <3>1. IsFiniteSet(all)
      BY <1>2, FS_AddElement
    <3>2. window \subseteq all /\ seen \subseteq window
      OBVIOUS
    <3>. HIDE DEF all, seen, window
    <3>. QED
      BY <3>1, <3>2, FS_Subset
  <2>. HIDE DEF f, seen, J, window
  <2>3. IsFiniteSet(J) /\ Cardinality(J) <= Cardinality(seen)
    BY <2>1, <2>2, FS_Surjection
  <2>4. Cardinality(seen) <= Cardinality(window)
    BY <2>2, FS_Subset
  <2>5. Cardinality(J) \in Nat /\ Cardinality(seen) \in Nat /\ Cardinality(window) \in Nat
    BY <2>2, <2>3, FS_CardinalityType
  <2>. QED
    BY <1>3, <2>3, <2>4, <2>5, ConfigAssumption
<1>8. \/ PartitionActivates(a, e)
      \/ old.activationTime >= e.ts - WindowPeriod /\ old.activationTime # ZeroTime
  <2>. HIDE DEF J
  <2>. QED
    BY <1>1, <1>2, <1>7, ActivatesWhen
<1>9. ASSUME NEW r \in reports', r.partition = p, r.event.country = m.country,
             r.event.ts \in (m.ts - WindowPeriod)..m.ts
      PROVE  Reported(p, log[p][n])'
  <2>1. log'[p][n] = m
    BY <1>1 DEF m, i
  <2>. QED
    BY <1>9, <2>1 DEF Reported
<1>10. CASE PartitionActivates(a, e)
  <2>1. [partition |-> p, event |-> e] \in reports'
    BY <1>1, <1>10
  <2>2. e.ts \in (m.ts - WindowPeriod)..m.ts
    BY <1>1, ConfigAssumption
  <2>. QED
    BY <1>1, <1>9, <2>1, <2>2
<1>11. CASE old.activationTime >= e.ts - WindowPeriod /\ old.activationTime # ZeroTime
  <2>1. PICK r \in reports : /\ r.partition = p /\ r.event.country = e.country
                             /\ r.event.ts = old.activationTime
    BY <1>4, <1>11 DEF Remembers
  <2>2. PICK j \in 1..i : log[p][j].ts = old.activationTime
    BY <1>4, <1>11 DEF Remembers
  <2>3. j \in 1..Len(log[p]) /\ i + 1 \in j..Len(log[p])
    BY <1>1
  <2>4. log[p][j].ts <= m.ts /\ log[p][j].ts \in Nat
    BY <1>0, <2>3, MessageType DEF InOrder, m
  <2>5. r.event.ts \in (m.ts - WindowPeriod)..m.ts
    BY <1>1, <1>11, <2>1, <2>2, <2>4, ConfigAssumption
  <2>. QED
    BY <1>1, <1>9, <2>1, <2>5
<1>. QED
  BY <1>8, <1>10, <1>11

\* Rewinding by two windows loses no limit: a message that has been processed
\* and had reached the limit has been reported, by whichever owner.
THEOREM NoLimitIsLostAlways == Spec => []NoLimitIsLost
<1>1. Init => NoLimitIsLost
  BY DEF Init, NoLimitIsLost
<1>2. ASSUME Inv, NoLimitIsLost, [Next]_vars
      PROVE  NoLimitIsLost'
  <2>. SUFFICES ASSUME NEW p \in Partitions, ~gap'[p], NEW n \in 1..highWater'[p], LimitAt(p, n)'
                PROVE  Reported(p, log[p][n])'
    BY DEF NoLimitIsLost
  <2>0. TypeInv /\ InOrder /\ Owners
    BY <1>2 DEF Inv
  <2>1. /\ reports \subseteq reports' /\ ~gap[p]
        /\ highWater[p] \in Nat /\ highWater'[p] \in Nat /\ highWater[p] <= highWater'[p]
    BY <1>2, <2>0, HistoryGrows
  <2>2. /\ Len(log[p]) \in Nat /\ Len(log'[p]) \in Nat
        /\ highWater[p] <= Len(log[p])
        /\ \A i \in 1..Len(log[p]) : log'[p][i] = log[p][i]
    BY <1>2, <2>0, LogGrows DEF TypeInv, TypeOK
  <2>3. CASE n \in 1..highWater[p]
    <3>1. n \in 1..Len(log[p]) /\ log'[p][n] = log[p][n]
      BY <2>1, <2>2, <2>3
    <3>2. LimitAt(p, n)
      <4> DEFINE m == log[p][n]
      <4>1. WindowOf(p, log[p][n])' \cap 1..Len(log[p]) = WindowOf(p, m)
        <5>1. WindowOf(p, log[p][n])'
                = {i \in 1..Len(log'[p]) : /\ log'[p][i].country = m.country
                                           /\ log'[p][i].ts \in (m.ts - WindowPeriod)..m.ts}
          BY <3>1 DEF WindowOf
        <5>2. \A i \in 1..Len(log[p]) : i \in 1..Len(log'[p])
          BY <1>2, <2>0, <2>2, LogGrows
        <5>. HIDE DEF m
        <5>. QED
          BY <2>2, <5>1, <5>2 DEF WindowOf
      <4>2. {j \in WindowOf(p, log[p][n])' : j <= n} = {j \in WindowOf(p, m) : j <= n}
        <5>1. \A j \in WindowOf(p, log[p][n])' : j <= n => j \in 1..Len(log[p])
          BY <2>2, <3>1 DEF WindowOf
        <5>. QED
          BY <4>1, <5>1
      <4>. QED
        BY <4>2 DEF LimitAt
    <3>3. Reported(p, log[p][n])
      BY <1>2, <2>1, <2>3, <3>2 DEF NoLimitIsLost
    <3>. QED
      BY <2>1, <3>1, <3>3 DEF Reported
  <2>4. CASE n \notin 1..highWater[p]
    <3>1. PICK c \in Consumers, q \in Partitions : Poll(c, q)
      <4>1. highWater' # highWater
        BY <2>1, <2>4
      <4>. QED
        BY <1>2, <4>1
           DEF Next, vars, historyVars, Tick, Produce, StartRebalance, CompleteRebalance,
               CompleteWithout, NewGeneration, Revoked, Rejoin, Crash, Assigned, AssignedNothing,
               ResolveEnd
    <3>2. /\ Owner(c, q) /\ position[c][q] \in Nat /\ log' = log
          /\ highWater' = [highWater EXCEPT ![q] = IF position[c][q] < highWater[q]
                                                  THEN highWater[q] ELSE position[c][q] + 1]
      BY <2>0, <3>1, PollStep, Zenon
    <3>3. q = p /\ ~(position[c][p] < highWater[p]) /\ highWater'[p] = position[c][p] + 1
      BY <2>0, <2>1, <2>4, <3>2 DEF TypeInv
    <3>4. position[c][p] <= highWater[p]
      BY <2>1, <3>2, <3>3 DEF Owner, Complete, OffsetEnd
    <3>5. n \in Nat /\ n = highWater[p] + 1 /\ n = position[c][p] + 1
      BY <2>1, <2>4, <3>2, <3>3, <3>4
    <3>6. LimitAt(p, n)
      BY <3>2 DEF LimitAt, WindowOf
    <3>. QED
      BY <1>2, <2>1, <3>1, <3>3, <3>5, <3>6, FirstReadReports
  <2>. QED
    BY <2>3, <2>4
<1>. QED
  BY <1>1, <1>2, Invariant, PTL DEF Spec
=============================================================================
