------------------------ MODULE PartitionStreamProofs ------------------------
(***************************************************************************)
(* Theorems about PartitionStream, for every configuration of the actors   *)
(* and every bound on the stream.                                          *)
(***************************************************************************)
EXTENDS PartitionStream, FiniteSetTheorems, TLAPS

-----------------------------------------------------------------------------
(***************************************************************************)
(* Types of the operators of LimitActors.                                  *)
(***************************************************************************)
LEMMA TimeIsInt == Time \subseteq Nat /\ ZeroTime \in Nat /\ ZeroTime \notin Time
BY StreamAssumption DEF Time, ZeroTime

\* The fields of an event.
LEMMA EventFields == \A e \in Event : e.ts \in Nat /\ e.country \in Countries
BY TimeIsInt DEF Event

\* CleanUp keeps what is not before its time.
LEMMA EntryCleanUpType ==
  ASSUME NEW a \in EntryActor, NEW t \in Int
  PROVE  /\ EntryCleanUp(a, t) \in EntryActor
         /\ EntryCleanUp(a, t).entries = {x \in a.entries : x.ts >= t}
         /\ EntryCleanUp(a, t).activationTime
              = IF a.activationTime < t THEN ZeroTime ELSE a.activationTime
BY DEF EntryCleanUp, EntryActor

\* Pushing an event adds it to the list.
LEMMA EntryPushType ==
  ASSUME NEW a \in EntryActor, NEW e \in Event
  PROVE  /\ EntryPush(a, e) \in EntryActor
         /\ EntryPush(a, e).entries = a.entries \cup {e}
         /\ EntryPush(a, e).activationTime = a.activationTime
BY DEF EntryPush, EntryActor

\* Pushing and cleaning leave the entries of the event's window.
LEMMA InWindowType ==
  ASSUME NEW a \in EntryActor, NEW e \in Event
  PROVE  /\ InWindow(a, e) \in EntryActor
         /\ InWindow(a, e).entries = {x \in a.entries \cup {e} : x.ts >= e.ts - WindowPeriod}
         /\ InWindow(a, e).activationTime
              = IF a.activationTime < e.ts - WindowPeriod THEN ZeroTime ELSE a.activationTime
<1>1. e.ts - WindowPeriod \in Int
  BY EventFields, ConfigAssumption
<1> DEFINE pushed == EntryPush(a, e)
<1>2. /\ pushed \in EntryActor
      /\ pushed.entries = a.entries \cup {e}
      /\ pushed.activationTime = a.activationTime
  BY EntryPushType
<1>3. InWindow(a, e) = EntryCleanUp(pushed, e.ts - WindowPeriod)
  BY DEF InWindow
<1> HIDE DEF pushed
<1> QED
  BY <1>1, <1>2, <1>3, EntryCleanUpType

\* EntryActor.AddEvent yields an entry actor.
LEMMA EntryAddEventType ==
  ASSUME NEW a \in EntryActor, NEW e \in Event
  PROVE  EntryAddEvent(a, e) \in EntryActor
BY EntryPushType, InWindowType DEF EntryAddEvent, EntryActor, Event

PartitionActor ==
  [keys : SUBSET Countries, subActors : [Countries -> EntryActor], nextCleanup : Nat]

\* A sweep is not due, or cleans every entry actor a window before its due time.
LEMMA SweptType ==
  ASSUME NEW p \in PartitionActor, NEW e \in Event
  PROVE  /\ Swept(p, e) \in PartitionActor
         /\ \/ Swept(p, e) = p
            \/ /\ p.nextCleanup < e.ts
               /\ \A c \in Countries :
                    Swept(p, e).subActors[c]
                      = EntryCleanUp(p.subActors[c], p.nextCleanup - WindowPeriod)
<1>1. CASE p.nextCleanup < e.ts
  <2> DEFINE cleaned == [c \in Countries |->
                EntryCleanUp(p.subActors[c], p.nextCleanup - WindowPeriod)]
  <2>1. p.nextCleanup - WindowPeriod \in Int
    BY ConfigAssumption DEF PartitionActor
  <2>2. cleaned \in [Countries -> EntryActor]
    BY <2>1, EntryCleanUpType DEF PartitionActor
  <2>3. p.nextCleanup + CleanupPeriod \in Nat
    BY ConfigAssumption DEF PartitionActor
  <2>4. {c \in p.keys : ~IsClean(cleaned[c])} \in SUBSET Countries
    BY DEF PartitionActor
  <2>5. Swept(p, e) = [keys        |-> {c \in p.keys : ~IsClean(cleaned[c])},
                       subActors   |-> cleaned,
                       nextCleanup |-> p.nextCleanup + CleanupPeriod]
    BY <1>1 DEF Swept, PartitionCleanUp, LowThreshold, NextCleanup
  <2> HIDE DEF cleaned
  <2>6. Swept(p, e) \in PartitionActor /\ Swept(p, e).subActors = cleaned
    BY <2>2, <2>3, <2>4, <2>5 DEF PartitionActor
  <2> QED
    BY <1>1, <2>6 DEF cleaned
<1>2. CASE ~(p.nextCleanup < e.ts)
  BY <1>2 DEF Swept
<1> QED
  BY <1>1, <1>2

\* PartitionActor.AddEvent yields a partition actor.
LEMMA PartitionAddEventType ==
  ASSUME NEW p \in PartitionActor, NEW e \in Event
  PROVE  /\ PartitionAddEvent(p, e) \in PartitionActor
         /\ \A c \in Countries :
              PartitionAddEvent(p, e).subActors[c]
                = IF c = e.country THEN EntryAddEvent(Swept(p, e).subActors[c], e)
                  ELSE Swept(p, e).subActors[c]
<1>1. Swept(p, e) \in PartitionActor /\ e.country \in Countries
  BY SweptType DEF Event
<1>2. EntryAddEvent(Swept(p, e).subActors[e.country], e) \in EntryActor
  BY <1>1, EntryAddEventType DEF PartitionActor
<1> QED
  BY <1>1, <1>2 DEF PartitionAddEvent, PartitionActor

-----------------------------------------------------------------------------
(***************************************************************************)
(* Type correctness.                                                       *)
(***************************************************************************)
LEMMA NewActorType == NewEntryActor \in EntryActor /\ NewPartitionActor \in PartitionActor
BY DEF NewEntryActor, NewPartitionActor, EntryActor, PartitionActor, ZeroTime

\* Receiving an event keeps the types.
LEMMA ReceiveType == TypeOK /\ (\E e \in Event : Receive(e)) => TypeOK'
<1> SUFFICES ASSUME TypeOK, NEW e \in Event, Receive(e) PROVE TypeOK'
  OBVIOUS
<1>1. actor \in PartitionActor
  BY DEF TypeOK, PartitionActor
<1>2. actor' \in PartitionActor
  BY <1>1, PartitionAddEventType DEF Receive
<1>3. newest' \in Nat
  BY TimeIsInt DEF TypeOK, Receive, Event
<1>4. seen' \subseteq Event /\ notified' \subseteq seen' /\ skew' \in 0..MaxSkew
  BY DEF TypeOK, Receive
<1> QED
  BY <1>2, <1>3, <1>4 DEF TypeOK, PartitionActor

\* The events Next feeds are events while the offsets stay within the bound.
Counted == IsFiniteSet(seen) /\ Cardinality(seen) \in Nat

\* Every step receives an event of the stream.
LEMMA NextReceives ==
  ASSUME Counted, Next PROVE \E e \in Event : Receive(e)
<1>1. PICK c \in Countries, t \in Time :
        Receive([offset |-> Cardinality(seen), country |-> c, ts |-> t])
  BY DEF Next
<1>2. Cardinality(seen) \in 0..MaxEvents
  BY <1>1, StreamAssumption DEF Receive, Counted
<1>3. [offset |-> Cardinality(seen), country |-> c, ts |-> t] \in Event
  BY <1>2 DEF Event
<1> QED
  BY <1>1, <1>3

\* Every reachable state is well typed, with finitely many events seen.
LEMMA SpecTyped == Spec => [](TypeOK /\ Counted)
<1>1. Init => TypeOK /\ Counted
  BY NewActorType, FS_EmptySet DEF Init, TypeOK, Counted, PartitionActor
<1>2. TypeOK /\ Counted /\ [Next]_vars => (TypeOK /\ Counted)'
  <2> SUFFICES ASSUME TypeOK, Counted, [Next]_vars PROVE (TypeOK /\ Counted)'
    OBVIOUS
  <2>1. CASE UNCHANGED vars
    BY <2>1 DEF vars, TypeOK, Counted
  <2>2. CASE Next
    <3>1. PICK e \in Event : Receive(e)
      BY <2>2, NextReceives
    <3>2. Counted'
      BY <3>1, FS_AddElement, FS_CardinalityType DEF Receive, Counted
    <3> QED
      BY <3>1, <3>2, ReceiveType
  <2> QED
    BY <2>1, <2>2
<1> QED
  BY <1>1, <1>2, PTL DEF Spec

\* The actor of a partition, its keys, entries and times keep their types.
THEOREM TypeCorrect == Spec => []TypeOK
BY SpecTyped, PTL

-----------------------------------------------------------------------------
(***************************************************************************)
(* Exactness.  The reports alone are not inductive: what the next event    *)
(* does depends on what the actors still hold.  An actor is faithful to    *)
(* the history of its country when it holds every event of the newest      *)
(* window (and none that did not happen), remembers the latest report, and *)
(* has forgotten it only when no report lies in the newest window.         *)
(***************************************************************************)
Faithful(a, c, S, R, t) ==
  /\ a.entries \subseteq Of(c, S)
  /\ Since(t - WindowPeriod, Of(c, S)) \subseteq a.entries
  /\ a.activationTime = ZeroTime
       => \A n \in Of(c, R) : n.ts < t - WindowPeriod
  /\ a.activationTime # ZeroTime
       => /\ \E n \in Of(c, R) : n.ts = a.activationTime
          /\ \A n \in Of(c, R) : n.ts <= a.activationTime

History ==
  /\ \A x \in seen : x.ts <= newest
  /\ \A c \in Countries : Faithful(actor.subActors[c], c, seen, notified, newest)

\* Cleaning before the newest window keeps an actor faithful, also when the
\* newest timestamp advances.
LEMMA CleanUpFaithful ==
  ASSUME NEW a \in EntryActor, NEW c \in Countries, NEW S \in SUBSET Event,
         NEW R \in SUBSET Event, NEW t \in Nat, NEW u \in Nat, NEW low \in Int,
         t <= u, low <= u - WindowPeriod, Faithful(a, c, S, R, t)
  PROVE  Faithful(EntryCleanUp(a, low), c, S, R, u)
<1> DEFINE b == EntryCleanUp(a, low)
<1>1. /\ b.entries = {x \in a.entries : x.ts >= low}
      /\ b.activationTime = IF a.activationTime < low THEN ZeroTime ELSE a.activationTime
      /\ a.activationTime \in Nat
  BY EntryCleanUpType, TimeIsInt DEF EntryActor
<1>2. \A x \in Event : x.ts \in Nat
  BY EventFields
<1> HIDE DEF b
<1>3. b.entries \subseteq Of(c, S)
  BY <1>1 DEF Faithful
<1>4. Since(u - WindowPeriod, Of(c, S)) \subseteq b.entries
  BY <1>1, <1>2, ConfigAssumption DEF Faithful, Since, Of
<1>5. ASSUME b.activationTime = ZeroTime, NEW n \in Of(c, R)
      PROVE  n.ts < u - WindowPeriod
  BY <1>1, <1>2, <1>5, ConfigAssumption DEF Faithful, Of
<1>6. ASSUME b.activationTime # ZeroTime
      PROVE  /\ \E n \in Of(c, R) : n.ts = b.activationTime
             /\ \A n \in Of(c, R) : n.ts <= b.activationTime
  BY <1>1, <1>6 DEF Faithful
<1> QED
  BY <1>3, <1>4, <1>5, <1>6 DEF Faithful, b

\* An actor faithful to its history up to t is so at any later time.
LEMMA LaterFaithful ==
  ASSUME NEW a \in EntryActor, NEW c \in Countries, NEW S \in SUBSET Event,
         NEW R \in SUBSET Event, NEW t \in Nat, NEW u \in Nat,
         t <= u, Faithful(a, c, S, R, t)
  PROVE  Faithful(a, c, S, R, u)
<1>1. \A x \in Event : x.ts \in Nat
  BY EventFields
<1> QED
  BY <1>1, ConfigAssumption DEF Faithful, Since, Of

\* The detector counts as the actors do.
LEMMA SameCardinality == \A S : Detector!Cardinality(S) = Cardinality(S)
BY DEF Detector!Cardinality, Cardinality

\* An actor faithful up to e's timestamp answers e as the detector does.
LEMMA ActivatesWhenDue ==
  ASSUME NEW a \in EntryActor, NEW e \in Event, TypeOK, Counted,
         \A x \in seen : x.ts <= e.ts,
         Faithful(a, e.country, seen, notified, e.ts)
  PROVE  Activates(a, e) <=> Detector!IsDue(e)
<1>1. \A x \in Event : x.ts \in Nat
  BY EventFields
<1>2. /\ InWindow(a, e).entries = {x \in a.entries \cup {e} : x.ts >= e.ts - WindowPeriod}
      /\ InWindow(a, e).activationTime
           = IF a.activationTime < e.ts - WindowPeriod THEN ZeroTime ELSE a.activationTime
      /\ EntryPush(a, e).entries = a.entries \cup {e}
      /\ a.activationTime \in Nat
  BY InWindowType, EntryPushType, TimeIsInt DEF EntryActor
<1>3. InWindow(a, e).entries = Detector!Window(seen \cup {e}, e)
  BY <1>1, <1>2, ConfigAssumption DEF Detector!Window, Faithful, Of, Since, TypeOK
<1>4. (InWindow(a, e).activationTime = ZeroTime) <=> (Detector!Window(notified, e) = {})
  <2>1. CASE a.activationTime = ZeroTime
    BY <1>1, <1>2, <2>1, ConfigAssumption DEF Detector!Window, Faithful, Of, TypeOK
  <2>2. CASE a.activationTime # ZeroTime /\ a.activationTime < e.ts - WindowPeriod
    BY <1>1, <1>2, <2>2, ConfigAssumption DEF Detector!Window, Faithful, Of, TypeOK
  <2>3. CASE a.activationTime # ZeroTime /\ ~(a.activationTime < e.ts - WindowPeriod)
    BY <1>1, <1>2, <2>3, ConfigAssumption DEF Detector!Window, Faithful, Of, TypeOK
  <2> QED
    BY <2>1, <2>2, <2>3
<1>5. OverThreshold(InWindow(a, e)) => OverThreshold(EntryPush(a, e))
  <2>1. a.entries \subseteq seen
    BY DEF Faithful, Of
  <2>2. IsFiniteSet(a.entries \cup {e})
    BY <2>1, FS_Subset, FS_AddElement DEF Counted
  <2>3. /\ Cardinality(InWindow(a, e).entries) <= Cardinality(EntryPush(a, e).entries)
        /\ Cardinality(InWindow(a, e).entries) \in Nat
        /\ Cardinality(EntryPush(a, e).entries) \in Nat
    BY <1>2, <2>2, FS_Subset, FS_CardinalityType
  <2> QED
    BY <2>3, ConfigAssumption DEF OverThreshold
<1>6. OverThreshold(InWindow(a, e))
        <=> Cardinality(Detector!Window(seen \cup {e}, e)) > CountThreshold
  BY <1>3 DEF OverThreshold
<1> QED
  BY <1>4, <1>5, <1>6, SameCardinality DEF Activates, Detector!IsDue

\* Adding e keeps the actor of its country faithful.
LEMMA AddEventFaithful ==
  ASSUME NEW a \in EntryActor, NEW e \in Event, TypeOK,
         \A x \in seen : x.ts <= e.ts,
         Faithful(a, e.country, seen, notified, e.ts)
  PROVE  Faithful(EntryAddEvent(a, e), e.country, seen \cup {e},
                  notified \cup {x \in {e} : Activates(a, e)}, e.ts)
<1> DEFINE c == e.country
           S == seen \cup {e}
           low == e.ts - WindowPeriod
<1>1. \A x \in Event : x.ts \in Nat
  BY EventFields
<1>2. /\ InWindow(a, e) \in EntryActor
      /\ InWindow(a, e).entries = {x \in a.entries \cup {e} : x.ts >= low}
      /\ InWindow(a, e).activationTime
           = IF a.activationTime < low THEN ZeroTime ELSE a.activationTime
  BY InWindowType
<1>3. /\ EntryPush(a, e).entries = a.entries \cup {e}
      /\ EntryPush(a, e).activationTime = a.activationTime
  BY EntryPushType
<1>4. a.activationTime \in Nat /\ e.ts # ZeroTime /\ low \in Int /\ e.ts \in Nat
  <2>1. a.activationTime \in Nat
    BY TimeIsInt DEF EntryActor
  <2>2. e.ts # ZeroTime
    BY TimeIsInt DEF Event
  <2> QED
    BY <1>1, <2>1, <2>2, ConfigAssumption
<1>5. CASE ~OverThreshold(EntryPush(a, e))
  <2>1. EntryAddEvent(a, e) = EntryPush(a, e) /\ ~Activates(a, e)
    BY <1>5 DEF EntryAddEvent, Activates
  <2>2. {x \in {e} : Activates(a, e)} = {}
    BY <2>1
  <2>3. Faithful(EntryPush(a, e), c, S, notified, e.ts)
    BY <1>1, <1>3 DEF Faithful, Of, Since
  <2> QED
    BY <2>1, <2>2, <2>3
<1>6. CASE OverThreshold(EntryPush(a, e)) /\ Activates(a, e)
  <2> DEFINE b == EntryAddEvent(a, e)
             R == notified \cup {e}
  <2>1. b = [InWindow(a, e) EXCEPT !.activationTime = e.ts]
    BY <1>6 DEF EntryAddEvent
  <2>2. b.activationTime = e.ts /\ b.entries = InWindow(a, e).entries
    BY <1>2, <2>1 DEF EntryActor
  <2> HIDE DEF b
  <2>3. b.entries \subseteq Of(c, S) /\ Since(low, Of(c, S)) \subseteq b.entries
    BY <1>2, <2>2 DEF Faithful, Of, Since
  <2>4. e \in Of(c, R) /\ \A n \in Of(c, R) : n.ts <= e.ts
    BY <1>1 DEF Of, TypeOK
  <2>5. Faithful(b, c, S, R, e.ts)
    BY <1>4, <2>2, <2>3, <2>4 DEF Faithful
  <2>6. R = notified \cup {x \in {e} : Activates(a, e)}
    BY <1>6
  <2> QED
    BY <2>5, <2>6 DEF b
<1>7. CASE OverThreshold(EntryPush(a, e)) /\ ~Activates(a, e)
  <2>1. EntryAddEvent(a, e) = InWindow(a, e)
    BY <1>7 DEF EntryAddEvent
  <2>2. {x \in {e} : Activates(a, e)} = {}
    BY <1>7
  <2>3. /\ InWindow(a, e).entries \subseteq Of(c, S)
        /\ Since(low, Of(c, S)) \subseteq InWindow(a, e).entries
    BY <1>2 DEF Faithful, Of, Since
  <2>4. InWindow(a, e).activationTime = ZeroTime
          => \A n \in Of(c, notified) : n.ts < low
    BY <1>1, <1>2, <1>4 DEF Faithful, Of, TypeOK
  <2>5. InWindow(a, e).activationTime # ZeroTime
          => InWindow(a, e).activationTime = a.activationTime
    BY <1>2
  <2>6. Faithful(InWindow(a, e), c, S, notified, e.ts)
    BY <2>3, <2>4, <2>5 DEF Faithful
  <2> QED
    BY <2>1, <2>2, <2>6
<1> QED
  BY <1>5, <1>6, <1>7

\* An event of another country changes nothing an actor is faithful to.
LEMMA OtherFaithful ==
  ASSUME NEW a \in EntryActor, NEW c \in Countries, NEW e \in Event, c # e.country,
         NEW t \in Nat, NEW P, Faithful(a, c, seen, notified, t)
  PROVE  Faithful(a, c, seen \cup {e}, notified \cup {x \in {e} : P}, t)
<1>1. /\ Of(c, seen \cup {e}) = Of(c, seen)
      /\ Of(c, notified \cup {x \in {e} : P}) = Of(c, notified)
  BY DEF Of
<1> QED
  BY <1>1 DEF Faithful

\* Receiving an event in order keeps every actor faithful to its history, and
\* reports it exactly when the detector does.
LEMMA ReceiveFaithful ==
  ASSUME skew = 0, TypeOK, Counted, History, NEW e \in Event, Receive(e)
  PROVE  History' /\ Detector!Observe(e)
<1> DEFINE p == Swept(actor, e)
<1>1. actor \in PartitionActor /\ newest \in Nat /\ e.ts \in Nat /\ e.country \in Countries
  BY EventFields DEF TypeOK, PartitionActor
<1>2. newest <= e.ts /\ newest' = e.ts
  BY <1>1 DEF Receive
<1>3. p \in PartitionActor
  BY <1>1, SweptType
<1>4. \A x \in seen : x.ts <= e.ts
  BY <1>1, <1>2, EventFields DEF History, TypeOK
<1>5. seen \in SUBSET Event /\ notified \in SUBSET Event
  BY DEF TypeOK
<1>6. ASSUME NEW c \in Countries
      PROVE  Faithful(p.subActors[c], c, seen, notified, e.ts)
  <2>1. /\ actor.subActors[c] \in EntryActor
        /\ Faithful(actor.subActors[c], c, seen, notified, newest)
        /\ actor.nextCleanup \in Nat
    BY <1>1 DEF PartitionActor, History
  <2>2. CASE p = actor
    BY <1>1, <1>2, <1>5, <2>1, <2>2, LaterFaithful
  <2>3. CASE p # actor
    <3>1. /\ actor.nextCleanup < e.ts
          /\ p.subActors[c]
               = EntryCleanUp(actor.subActors[c], actor.nextCleanup - WindowPeriod)
      BY <1>1, <2>3, SweptType
    <3> HIDE DEF p
    <3>2. /\ actor.nextCleanup - WindowPeriod \in Int
          /\ actor.nextCleanup - WindowPeriod <= e.ts - WindowPeriod
      BY <1>1, <2>1, <3>1, ConfigAssumption
    <3> QED
      BY <1>1, <1>2, <1>5, <2>1, <3>1, <3>2, CleanUpFaithful
  <2> QED
    BY <2>2, <2>3
<1> HIDE DEF p
<1>7. p.subActors[e.country] \in EntryActor
  BY <1>1, <1>3 DEF PartitionActor
<1>8. PartitionActivates(actor, e) <=> Detector!IsDue(e)
  BY <1>1, <1>4, <1>6, <1>7, ActivatesWhenDue DEF PartitionActivates, p
<1>9. Detector!Observe(e)
  BY <1>4, <1>8 DEF Receive, Detector!Observe
<1>10. /\ seen' = seen \cup {e}
       /\ notified' = notified \cup {x \in {e} : Activates(p.subActors[e.country], e)}
       /\ \A c \in Countries :
            actor'.subActors[c] = IF c = e.country THEN EntryAddEvent(p.subActors[c], e)
                                  ELSE p.subActors[c]
  BY <1>1, PartitionAddEventType DEF Receive, PartitionActivates, p
<1>11. ASSUME NEW c \in Countries
       PROVE  Faithful(actor'.subActors[c], c, seen', notified', e.ts)
  <2>1. CASE c = e.country
    BY <1>4, <1>6, <1>7, <1>10, <2>1, AddEventFaithful
  <2>2. CASE c # e.country
    <3>1. p.subActors[c] \in EntryActor
      BY <1>3 DEF PartitionActor
    <3> QED
      BY <1>1, <1>6, <1>10, <2>2, <3>1, OtherFaithful
  <2> QED
    BY <2>1, <2>2
<1>12. \A x \in seen' : x.ts <= newest'
  BY <1>1, <1>2, <1>4, <1>10
<1> QED
  BY <1>2, <1>9, <1>11, <1>12 DEF History

\* On a stream in timestamp order the actors report exactly what the detector
\* reports, whatever the threshold, the window and the cleanup period.
THEOREM Exactness == Spec => ReportsExactly
<1>1. Init => History /\ Detector!DetectorInit
  BY ConfigAssumption DEF Init, History, Faithful, Of, Since, NewPartitionActor,
     NewEntryActor, Detector!DetectorInit
<1>2. TypeOK /\ Counted /\ (skew = 0 => History) /\ [Next]_vars
        => /\ (skew = 0 => History)'
           /\ [skew = 0 => Detector!DetectorNext]_<<seen, notified>>
  <2> SUFFICES ASSUME TypeOK, Counted, skew = 0 => History, [Next]_vars
               PROVE  /\ skew' = 0 => History'
                      /\ \/ skew = 0 => Detector!DetectorNext
                         \/ UNCHANGED <<seen, notified>>
    OBVIOUS
  <2>1. CASE UNCHANGED vars
    BY <2>1 DEF vars, History
  <2>2. CASE Next
    <3>1. PICK e \in Event : Receive(e)
      BY <2>2, NextReceives
    <3>2. skew' = skew
      BY <3>1 DEF Receive
    <3> QED
      BY <3>1, <3>2, ReceiveFaithful DEF Detector!DetectorNext
  <2> QED
    BY <2>1, <2>2
<1> QED
  BY <1>1, <1>2, SpecTyped, PTL DEF Spec, ReportsExactly

-----------------------------------------------------------------------------
(***************************************************************************)
(* Streams in any order.  Whatever the skew, an actor holds every event of *)
(* the newest window and remembers a report that was made (Holds).  That   *)
(* it has forgotten a report only when no report lies in the newest window *)
(* (Rests) is lost when the skew exceeds the window, and then              *)
(* ReportsAreApart says nothing.                                           *)
(***************************************************************************)
Holds(a, c, S, R, t) ==
  /\ a.entries \subseteq Of(c, S)
  /\ Since(t - WindowPeriod, Of(c, S)) \subseteq a.entries
  /\ a.activationTime # ZeroTime => \E n \in Of(c, R) : n.ts = a.activationTime

Rests(a, c, R, t) ==
  /\ a.activationTime = ZeroTime => \A n \in Of(c, R) : n.ts < t - WindowPeriod
  /\ a.activationTime # ZeroTime => \A n \in Of(c, R) : n.ts <= a.activationTime

\* A country's report is due not only now but at any later time of the newest event.
Promised(c, S, R, t) ==
  Cardinality(Since(t - WindowPeriod, Of(c, S))) > CountThreshold
    => Since(t - 2 * WindowPeriod, Of(c, R)) # {}

Grounded(n, S) ==
  Cardinality({e \in Of(n.country, S) : n.ts - WindowPeriod <= e.ts /\ e.ts <= n.ts + skew})
    > CountThreshold

Disorder ==
  /\ \A x \in seen : x.ts <= newest
  /\ \A c \in Countries : Holds(actor.subActors[c], c, seen, notified, newest)
  /\ skew <= WindowPeriod =>
       \A c \in Countries : Rests(actor.subActors[c], c, notified, newest)
  /\ \A c \in Countries : \A t \in Nat : t >= newest => Promised(c, seen, notified, t)
  /\ \A n \in notified : Grounded(n, seen)
  /\ ReportsAreApart

\* Cleaning before the newest window keeps what an actor must hold.
LEMMA CleanUpHolds ==
  ASSUME NEW a \in EntryActor, NEW c \in Countries, NEW S \in SUBSET Event,
         NEW R \in SUBSET Event, NEW t \in Nat, NEW u \in Nat, NEW low \in Int,
         t <= u, low <= u - WindowPeriod, Holds(a, c, S, R, t)
  PROVE  Holds(EntryCleanUp(a, low), c, S, R, u)
<1> DEFINE b == EntryCleanUp(a, low)
<1>1. /\ b.entries = {x \in a.entries : x.ts >= low}
      /\ b.activationTime = IF a.activationTime < low THEN ZeroTime ELSE a.activationTime
  BY EntryCleanUpType
<1>2. \A x \in Event : x.ts \in Nat
  BY EventFields
<1> HIDE DEF b
<1>3. b.entries \subseteq Of(c, S)
  BY <1>1 DEF Holds
<1>4. Since(u - WindowPeriod, Of(c, S)) \subseteq b.entries
  BY <1>1, <1>2, ConfigAssumption DEF Holds, Since, Of
<1>5. b.activationTime # ZeroTime => \E n \in Of(c, R) : n.ts = b.activationTime
  BY <1>1 DEF Holds
<1> QED
  BY <1>3, <1>4, <1>5 DEF Holds, b

\* Cleaning before the newest window forgets a report only when it is past.
LEMMA CleanUpRests ==
  ASSUME NEW a \in EntryActor, NEW c \in Countries, NEW R \in SUBSET Event, NEW t \in Nat,
         NEW u \in Nat, NEW low \in Int, t <= u, low <= u - WindowPeriod, Rests(a, c, R, t)
  PROVE  Rests(EntryCleanUp(a, low), c, R, u)
<1> DEFINE b == EntryCleanUp(a, low)
<1>1. /\ b.activationTime = IF a.activationTime < low THEN ZeroTime ELSE a.activationTime
      /\ a.activationTime \in Nat
  BY EntryCleanUpType, TimeIsInt DEF EntryActor
<1>2. \A x \in Event : x.ts \in Nat
  BY EventFields
<1> HIDE DEF b
<1>3. ASSUME b.activationTime = ZeroTime, NEW n \in Of(c, R)
      PROVE  n.ts < u - WindowPeriod
  BY <1>1, <1>2, <1>3, ConfigAssumption DEF Rests, Of
<1>4. ASSUME b.activationTime # ZeroTime, NEW n \in Of(c, R)
      PROVE  n.ts <= b.activationTime
  BY <1>1, <1>4 DEF Rests
<1> QED
  BY <1>3, <1>4 DEF Rests, b

\* What an actor holds suffices at any later time, too.
LEMMA LaterHolds ==
  ASSUME NEW a \in EntryActor, NEW c \in Countries, NEW S \in SUBSET Event,
         NEW R \in SUBSET Event, NEW t \in Nat, NEW u \in Nat, t <= u
  PROVE  /\ Holds(a, c, S, R, t) => Holds(a, c, S, R, u)
         /\ Rests(a, c, R, t) => Rests(a, c, R, u)
<1>1. \A x \in Event : x.ts \in Nat
  BY EventFields
<1>2. Holds(a, c, S, R, t) => Holds(a, c, S, R, u)
  BY <1>1, ConfigAssumption DEF Holds, Since, Of
<1>3. Rests(a, c, R, t) => Rests(a, c, R, u)
  BY <1>1, ConfigAssumption DEF Rests, Of
<1> QED
  BY <1>2, <1>3

\* AddEvent adds the event, and forgets nothing of the newest window.
LEMMA AddEventHolds ==
  ASSUME NEW a \in EntryActor, NEW e \in Event, NEW S \in SUBSET Event,
         NEW R \in SUBSET Event, NEW t \in Nat, e.ts <= t, Holds(a, e.country, S, R, t)
  PROVE  Holds(EntryAddEvent(a, e), e.country, S \cup {e},
               R \cup {x \in {e} : Activates(a, e)}, t)
<1> DEFINE c == e.country
           low == e.ts - WindowPeriod
           b == EntryAddEvent(a, e)
           Q == R \cup {x \in {e} : Activates(a, e)}
<1>1. \A x \in Event : x.ts \in Nat
  BY EventFields
<1>2. /\ InWindow(a, e) \in EntryActor
      /\ InWindow(a, e).entries = {x \in a.entries \cup {e} : x.ts >= low}
      /\ InWindow(a, e).activationTime
           = IF a.activationTime < low THEN ZeroTime ELSE a.activationTime
      /\ EntryPush(a, e).entries = a.entries \cup {e}
      /\ EntryPush(a, e).activationTime = a.activationTime
  BY InWindowType, EntryPushType
<1>3. /\ b.entries = a.entries \cup {e} \/ b.entries = {x \in a.entries \cup {e} : x.ts >= low}
      /\ \/ b.activationTime \in {ZeroTime, a.activationTime}
         \/ b.activationTime = e.ts /\ e \in Q
  <2>1. CASE ~OverThreshold(EntryPush(a, e))
    BY <1>2, <2>1 DEF EntryAddEvent
  <2>2. CASE OverThreshold(EntryPush(a, e)) /\ Activates(a, e)
    <3>1. b = [InWindow(a, e) EXCEPT !.activationTime = e.ts]
      BY <2>2 DEF EntryAddEvent
    <3>2. b.activationTime = e.ts /\ b.entries = InWindow(a, e).entries
      BY <1>2, <3>1 DEF EntryActor
    <3> QED
      BY <1>2, <2>2, <3>2
  <2>3. CASE OverThreshold(EntryPush(a, e)) /\ ~Activates(a, e)
    BY <1>2, <2>3 DEF EntryAddEvent
  <2> QED
    BY <2>1, <2>2, <2>3
<1> HIDE DEF b
<1>4. b.entries \subseteq Of(c, S \cup {e})
  BY <1>3 DEF Holds, Of
<1>5. Since(t - WindowPeriod, Of(c, S \cup {e})) \subseteq b.entries
  <2>1. \A x \in Event : x.ts >= t - WindowPeriod => x.ts >= low
    BY <1>1, ConfigAssumption
  <2>2. Since(t - WindowPeriod, Of(c, S \cup {e})) \subseteq a.entries \cup {e}
    BY DEF Holds, Since, Of
  <2>3. \A x \in Since(t - WindowPeriod, Of(c, S \cup {e})) : x.ts >= low
    BY <2>1 DEF Since, Of
  <2> QED
    BY <1>3, <2>2, <2>3
<1>6. b.activationTime # ZeroTime => \E n \in Of(c, Q) : n.ts = b.activationTime
  BY <1>3 DEF Holds, Of
<1> QED
  BY <1>4, <1>5, <1>6 DEF Holds, b

\* AddEvent forgets a report only when it is past, and its own is the latest.
LEMMA AddEventRests ==
  ASSUME NEW a \in EntryActor, NEW e \in Event, NEW R \in SUBSET Event, NEW t \in Nat,
         e.ts <= t, Rests(a, e.country, R, t),
         a.activationTime = ZeroTime => \A n \in Of(e.country, R) : n.ts <= e.ts
  PROVE  Rests(EntryAddEvent(a, e), e.country, R \cup {x \in {e} : Activates(a, e)}, t)
<1> DEFINE c == e.country
           low == e.ts - WindowPeriod
           b == EntryAddEvent(a, e)
<1>1. \A x \in Event : x.ts \in Nat
  BY EventFields
<1>2. /\ InWindow(a, e) \in EntryActor
      /\ InWindow(a, e).activationTime
           = IF a.activationTime < low THEN ZeroTime ELSE a.activationTime
      /\ EntryPush(a, e).activationTime = a.activationTime
      /\ a.activationTime \in Nat /\ e.ts \in Nat /\ e.ts # ZeroTime
  BY InWindowType, EntryPushType, TimeIsInt DEF EntryActor, Event
<1>3. CASE ~OverThreshold(EntryPush(a, e))
  <2>1. EntryAddEvent(a, e) = EntryPush(a, e) /\ {x \in {e} : Activates(a, e)} = {}
    BY <1>3 DEF EntryAddEvent, Activates
  <2> QED
    BY <1>2, <2>1 DEF Rests
<1>4. CASE OverThreshold(EntryPush(a, e)) /\ Activates(a, e)
  <2>1. b = [InWindow(a, e) EXCEPT !.activationTime = e.ts]
    BY <1>4 DEF EntryAddEvent
  <2>2. b.activationTime = e.ts
    BY <1>2, <2>1 DEF EntryActor
  <2>3. InWindow(a, e).activationTime = ZeroTime
    BY <1>4 DEF Activates
  <2>4. \A n \in Of(c, R) : n.ts <= e.ts
    BY <1>1, <1>2, <2>3, ConfigAssumption DEF Rests, Of
  <2>5. \A n \in Of(c, R \cup {e}) : n.ts <= e.ts
    BY <1>1, <2>4 DEF Of
  <2>6. R \cup {x \in {e} : Activates(a, e)} = R \cup {e}
    BY <1>4
  <2> HIDE DEF b
  <2>7. Rests(b, c, R \cup {e}, t)
    BY <1>2, <2>2, <2>5 DEF Rests
  <2> QED
    BY <2>6, <2>7 DEF b
<1>5. CASE OverThreshold(EntryPush(a, e)) /\ ~Activates(a, e)
  <2>1. EntryAddEvent(a, e) = InWindow(a, e) /\ {x \in {e} : Activates(a, e)} = {}
    BY <1>5 DEF EntryAddEvent
  <2>2. InWindow(a, e).activationTime = ZeroTime
          => \A n \in Of(c, R) : n.ts < t - WindowPeriod
    BY <1>1, <1>2, ConfigAssumption DEF Rests, Of
  <2>3. InWindow(a, e).activationTime # ZeroTime
          => \A n \in Of(c, R) : n.ts <= InWindow(a, e).activationTime
    BY <1>2 DEF Rests
  <2>4. Rests(InWindow(a, e), c, R, t)
    BY <2>2, <2>3 DEF Rests
  <2> QED
    BY <2>1, <2>4
<1> QED
  BY <1>3, <1>4, <1>5

\* An event after which its country has more than the threshold in the newest
\* window is reported, or one at most a window older has been.
LEMMA PromiseKept ==
  ASSUME NEW a \in EntryActor, NEW e \in Event, NEW S \in SUBSET Event, IsFiniteSet(S),
         NEW R \in SUBSET Event, NEW t \in Nat, e.ts <= t, Holds(a, e.country, S, R, t),
         Promised(e.country, S, R, t)
  PROVE  Promised(e.country, S \cup {e}, R \cup {x \in {e} : Activates(a, e)}, t)
<1> DEFINE c == e.country
           low == e.ts - WindowPeriod
           Q == R \cup {x \in {e} : Activates(a, e)}
           W == Since(t - WindowPeriod, Of(c, S \cup {e}))
<1> SUFFICES ASSUME Cardinality(W) > CountThreshold
             PROVE  Since(t - 2 * WindowPeriod, Of(c, Q)) # {}
  BY DEF Promised
<1>1. \A x \in Event : x.ts \in Nat
  BY EventFields
<1>2. /\ InWindow(a, e).entries = {x \in a.entries \cup {e} : x.ts >= low}
      /\ InWindow(a, e).activationTime
           = IF a.activationTime < low THEN ZeroTime ELSE a.activationTime
      /\ EntryPush(a, e).entries = a.entries \cup {e}
      /\ a.activationTime \in Nat
  BY InWindowType, EntryPushType, TimeIsInt DEF EntryActor
<1>3. CASE e.ts < t - WindowPeriod
  <2>1. W = Since(t - WindowPeriod, Of(c, S))
    BY <1>1, <1>3, ConfigAssumption DEF Since, Of
  <2>2. Since(t - 2 * WindowPeriod, Of(c, R)) # {}
    BY <2>1 DEF Promised
  <2> QED
    BY <2>2 DEF Since, Of
<1>4. CASE e.ts >= t - WindowPeriod
  <2>1. W \subseteq InWindow(a, e).entries
    <3>1. \A x \in Event : x.ts >= t - WindowPeriod => x.ts >= low
      BY <1>1, ConfigAssumption
    <3>2. W \subseteq a.entries \cup {e}
      BY DEF Holds, Since, Of
    <3>3. \A x \in W : x.ts >= low
      BY <3>1 DEF Since, Of
    <3> QED
      BY <1>2, <3>2, <3>3
  <2>2. IsFiniteSet(a.entries \cup {e})
    <3>1. a.entries \subseteq S
      BY DEF Holds, Of
    <3> QED
      BY <3>1, FS_Subset, FS_AddElement
  <2>3. OverThreshold(InWindow(a, e)) /\ OverThreshold(EntryPush(a, e))
    <3>1. InWindow(a, e).entries \subseteq EntryPush(a, e).entries
      BY <1>2
    <3>2. IsFiniteSet(EntryPush(a, e).entries)
      BY <1>2, <2>2
    <3>3. IsFiniteSet(InWindow(a, e).entries) /\ IsFiniteSet(W)
      BY <2>1, <3>1, <3>2, FS_Subset
    <3>4. /\ Cardinality(W) <= Cardinality(InWindow(a, e).entries)
          /\ Cardinality(InWindow(a, e).entries) <= Cardinality(EntryPush(a, e).entries)
      BY <2>1, <3>1, <3>2, <3>3, FS_Subset
    <3>5. /\ Cardinality(W) \in Nat /\ Cardinality(InWindow(a, e).entries) \in Nat
          /\ Cardinality(EntryPush(a, e).entries) \in Nat
      BY <3>2, <3>3, FS_CardinalityType
    <3> HIDE DEF W
    <3> QED
      BY <3>4, <3>5, ConfigAssumption DEF OverThreshold
  <2>4. CASE InWindow(a, e).activationTime = ZeroTime
    <3>1. e \in Of(c, Q)
      BY <2>3, <2>4 DEF Activates, Of
    <3>2. e.ts >= t - 2 * WindowPeriod
      BY <1>1, <1>4, ConfigAssumption
    <3> QED
      BY <3>1, <3>2 DEF Since
  <2>5. CASE InWindow(a, e).activationTime # ZeroTime
    <3>1. a.activationTime # ZeroTime /\ a.activationTime >= low
      BY <1>1, <1>2, <2>5, ConfigAssumption
    <3>2. PICK n \in Of(c, R) : n.ts = a.activationTime
      BY <3>1 DEF Holds
    <3>3. n.ts >= t - 2 * WindowPeriod
      BY <1>1, <1>2, <1>4, <3>1, <3>2, ConfigAssumption
    <3>4. n \in Of(c, Q)
      BY <3>2 DEF Of
    <3> QED
      BY <3>3, <3>4 DEF Since
  <2> QED
    BY <2>4, <2>5
<1>5. e.ts < t - WindowPeriod \/ e.ts >= t - WindowPeriod
  BY <1>1, ConfigAssumption
<1> QED
  BY <1>3, <1>4, <1>5, Zenon

\* An event that is reported stands on events around it.
LEMMA ReportIsGrounded ==
  ASSUME NEW a \in EntryActor, NEW e \in Event, NEW S \in SUBSET Event, IsFiniteSet(S),
         NEW R, NEW t \in Nat, Holds(a, e.country, S, R, t), skew \in Nat,
         \A x \in S : x.ts <= e.ts + skew, Activates(a, e)
  PROVE  Grounded(e, S \cup {e})
<1> DEFINE around == {x \in Of(e.country, S \cup {e}) :
                        e.ts - WindowPeriod <= x.ts /\ x.ts <= e.ts + skew}
<1>1. \A x \in Event : x.ts \in Nat
  BY EventFields
<1>2. InWindow(a, e).entries = {x \in a.entries \cup {e} : x.ts >= e.ts - WindowPeriod}
  BY InWindowType
<1>3. InWindow(a, e).entries \subseteq around
  BY <1>1, <1>2, ConfigAssumption DEF Holds, Of
<1>4. IsFiniteSet(around)
  <2>1. IsFiniteSet(S \cup {e}) /\ around \subseteq S \cup {e}
    BY FS_AddElement DEF Of
  <2> QED
    BY <2>1, FS_Subset
<1>5. /\ Cardinality(InWindow(a, e).entries) <= Cardinality(around)
      /\ Cardinality(InWindow(a, e).entries) \in Nat /\ Cardinality(around) \in Nat
  BY <1>3, <1>4, FS_Subset, FS_CardinalityType
<1>6. Cardinality(InWindow(a, e).entries) > CountThreshold
  BY DEF Activates, OverThreshold
<1> HIDE DEF around
<1>7. Cardinality(around) > CountThreshold
  BY <1>5, <1>6, ConfigAssumption
<1> QED
  BY <1>7 DEF Grounded, around

\* More events ground a report all the more.
LEMMA StaysGrounded ==
  ASSUME NEW n, NEW e, NEW S, IsFiniteSet(S), Grounded(n, S)
  PROVE  Grounded(n, S \cup {e})
<1> DEFINE A == {x \in Of(n.country, S) :
                   n.ts - WindowPeriod <= x.ts /\ x.ts <= n.ts + skew}
           B == {x \in Of(n.country, S \cup {e}) :
                   n.ts - WindowPeriod <= x.ts /\ x.ts <= n.ts + skew}
<1>1. IsFiniteSet(S \cup {e})
  BY FS_AddElement
<1>2. A \subseteq B /\ B \subseteq S \cup {e}
  BY DEF Of
<1>3. Cardinality(A) > CountThreshold
  BY DEF Grounded
<1> HIDE DEF A, B
<1>4. IsFiniteSet(B)
  BY <1>1, <1>2, FS_Subset
<1>5. /\ IsFiniteSet(A) /\ Cardinality(A) <= Cardinality(B)
      /\ Cardinality(A) \in Nat /\ Cardinality(B) \in Nat
  BY <1>2, <1>4, FS_Subset, FS_CardinalityType
<1>6. Cardinality(B) > CountThreshold
  BY <1>3, <1>5, ConfigAssumption
<1> QED
  BY <1>6 DEF Grounded, B

\* After the sweep an actor still holds what it must, for the time after e.
LEMMA SweptHolds ==
  ASSUME NEW p \in PartitionActor, NEW e \in Event, NEW c \in Countries,
         NEW S \in SUBSET Event, NEW R \in SUBSET Event, NEW t \in Nat, NEW u \in Nat,
         t <= u, e.ts <= u
  PROVE  /\ Holds(p.subActors[c], c, S, R, t) => Holds(Swept(p, e).subActors[c], c, S, R, u)
         /\ Rests(p.subActors[c], c, R, t) => Rests(Swept(p, e).subActors[c], c, R, u)
<1>1. p.subActors[c] \in EntryActor /\ p.nextCleanup \in Nat /\ e.ts \in Nat
  BY EventFields DEF PartitionActor
<1>2. CASE Swept(p, e) = p
  BY <1>1, <1>2, LaterHolds
<1>3. CASE Swept(p, e) # p
  <2>1. /\ p.nextCleanup < e.ts
        /\ Swept(p, e).subActors[c]
             = EntryCleanUp(p.subActors[c], p.nextCleanup - WindowPeriod)
    BY <1>3, SweptType
  <2>2. /\ p.nextCleanup - WindowPeriod \in Int
        /\ p.nextCleanup - WindowPeriod <= u - WindowPeriod
    BY <1>1, <2>1, ConfigAssumption
  <2> QED
    BY <1>1, <2>1, <2>2, CleanUpHolds, CleanUpRests
<1> QED
  BY <1>2, <1>3

\* Receiving an event, however late it is, keeps what the actors hold and what
\* their reports stand on.
LEMMA ReceiveDisorder ==
  ASSUME TypeOK, Counted, Disorder, NEW e \in Event, Receive(e)
  PROVE  Disorder'
<1> DEFINE p == Swept(actor, e)
           a == p.subActors[e.country]
<1>1. /\ actor \in PartitionActor /\ newest \in Nat /\ e.ts \in Nat /\ e.country \in Countries
      /\ skew \in Nat /\ seen \in SUBSET Event /\ notified \in SUBSET Event
      /\ IsFiniteSet(seen)
  <2>1. skew \in Nat
    BY StreamAssumption DEF TypeOK
  <2> QED
    BY <2>1, EventFields DEF TypeOK, PartitionActor, Counted
<1>2. p \in PartitionActor /\ a \in EntryActor
  BY <1>1, SweptType DEF PartitionActor
<1>3. /\ newest' \in Nat /\ newest <= newest' /\ e.ts <= newest' /\ skew' = skew
      /\ newest' <= e.ts + skew
  BY <1>1 DEF Receive
<1>4. /\ seen' = seen \cup {e}
      /\ notified' = notified \cup {x \in {e} : Activates(a, e)}
      /\ \A c \in Countries :
           actor'.subActors[c] = IF c = e.country THEN EntryAddEvent(p.subActors[c], e)
                                 ELSE p.subActors[c]
  BY <1>1, PartitionAddEventType DEF Receive, PartitionActivates
<1>5. \A x \in Event : x.ts \in Nat
  BY EventFields
<1>6. ASSUME NEW c \in Countries, NEW t \in Nat, t >= newest'
      PROVE  Holds(p.subActors[c], c, seen, notified, t)
  <2>1. Holds(actor.subActors[c], c, seen, notified, newest)
    BY DEF Disorder
  <2>2. newest <= t /\ e.ts <= t
    BY <1>1, <1>3, <1>6
  <2> HIDE DEF p
  <2> QED
    BY <1>1, <2>1, <2>2, SweptHolds DEF p
<1>7. ASSUME NEW c \in Countries, skew <= WindowPeriod
      PROVE  Rests(p.subActors[c], c, notified, newest')
  <2>1. Rests(actor.subActors[c], c, notified, newest)
    BY <1>7 DEF Disorder
  <2> QED
    BY <1>1, <1>3, <2>1, SweptHolds
<1> HIDE DEF p
<1>8. \A c \in Countries :
         c # e.country => Of(c, seen') = Of(c, seen) /\ Of(c, notified') = Of(c, notified)
  BY <1>4 DEF Of
<1>9. ASSUME skew <= WindowPeriod, a.activationTime = ZeroTime, NEW n \in Of(e.country, notified)
      PROVE  e.ts - n.ts > WindowPeriod - skew /\ n.ts <= e.ts
  <2>1. n.ts < newest' - WindowPeriod /\ n.ts \in Nat
    BY <1>1, <1>5, <1>7, <1>9 DEF Rests, Of
  <2> QED
    BY <1>1, <1>3, <1>9, <2>1, ConfigAssumption
<1>10. \A x \in seen' : x.ts <= newest'
  <2>1. \A x \in seen : x.ts \in Nat /\ x.ts <= newest
    BY <1>1, <1>5 DEF Disorder
  <2> QED
    BY <1>1, <1>3, <1>4, <2>1
<1>11. ASSUME NEW c \in Countries
       PROVE  Holds(actor'.subActors[c], c, seen', notified', newest')
  <2>1. Holds(p.subActors[c], c, seen, notified, newest')
    BY <1>3, <1>6
  <2>2. CASE c = e.country
    <3>1. Holds(EntryAddEvent(a, e), e.country, seen \cup {e},
                notified \cup {x \in {e} : Activates(a, e)}, newest')
      BY <1>1, <1>2, <1>3, <2>1, <2>2, AddEventHolds
    <3> QED
      BY <1>4, <2>2, <3>1
  <2>3. CASE c # e.country
    BY <1>4, <1>8, <2>1, <2>3 DEF Holds
  <2> QED
    BY <2>2, <2>3
<1>12. ASSUME skew <= WindowPeriod, NEW c \in Countries
       PROVE  Rests(actor'.subActors[c], c, notified', newest')
  <2>1. Rests(p.subActors[c], c, notified, newest')
    BY <1>7, <1>12
  <2>2. CASE c = e.country
    <3>1. a.activationTime = ZeroTime => \A n \in Of(e.country, notified) : n.ts <= e.ts
      BY <1>9, <1>12
    <3>2. Rests(a, e.country, notified, newest')
      BY <2>1, <2>2
    <3>3. Rests(EntryAddEvent(a, e), e.country, notified \cup {x \in {e} : Activates(a, e)},
                newest')
      BY <1>1, <1>2, <1>3, <3>1, <3>2, AddEventRests
    <3> QED
      BY <1>4, <2>2, <3>3
  <2>3. CASE c # e.country
    BY <1>4, <1>8, <2>1, <2>3 DEF Rests
  <2> QED
    BY <2>2, <2>3
<1>13. ASSUME NEW c \in Countries, NEW t \in Nat, t >= newest'
       PROVE  Promised(c, seen', notified', t)
  <2>1. t >= newest /\ e.ts <= t
    BY <1>1, <1>3, <1>13
  <2>2. Promised(c, seen, notified, t) /\ Holds(p.subActors[c], c, seen, notified, t)
    BY <1>6, <1>13, <2>1 DEF Disorder
  <2>3. CASE c = e.country
    BY <1>1, <1>2, <1>4, <2>1, <2>2, <2>3, PromiseKept
  <2>4. CASE c # e.country
    BY <1>8, <2>2, <2>4 DEF Promised
  <2> QED
    BY <2>3, <2>4
<1>14. ASSUME NEW n \in notified'
       PROVE  Grounded(n, seen')
  <2>1. CASE n \in notified
    <3>1. Grounded(n, seen)
      BY <2>1 DEF Disorder
    <3> QED
      BY <1>1, <1>4, <3>1, StaysGrounded
  <2>2. CASE n \notin notified
    <3>1. n = e /\ Activates(a, e)
      BY <1>4, <1>14, <2>2
    <3>2. \A x \in seen : x.ts <= e.ts + skew
      BY <1>1, <1>3, <1>5 DEF Disorder
    <3>3. Holds(a, e.country, seen, notified, newest')
      BY <1>1, <1>3, <1>6
    <3>4. Grounded(e, seen \cup {e})
      BY <1>1, <1>2, <1>3, <3>1, <3>2, <3>3, ReportIsGrounded
    <3> QED
      BY <1>4, <3>1, <3>4
  <2> QED
    BY <2>1, <2>2
<1>15. ReportsAreApart'
  <2>1. CASE skew <= WindowPeriod
    <3>1. ASSUME Activates(a, e), NEW n \in notified, n.country = e.country
          PROVE  e.ts - n.ts > WindowPeriod - skew
      <4>1. n \in Of(e.country, notified) /\ n.ts \in Nat
        BY <1>1, <1>5, <3>1 DEF Of
      <4>2. CASE a.activationTime = ZeroTime
        BY <1>9, <2>1, <4>1, <4>2
      <4>3. CASE a.activationTime # ZeroTime
        <5>1. a.activationTime < e.ts - WindowPeriod /\ a.activationTime \in Nat
          <6>1. /\ InWindow(a, e).activationTime = ZeroTime
                /\ InWindow(a, e).activationTime
                     = IF a.activationTime < e.ts - WindowPeriod THEN ZeroTime
                       ELSE a.activationTime
            BY <1>2, <3>1, InWindowType DEF Activates
          <6>2. a.activationTime \in Nat
            BY <1>2, TimeIsInt DEF EntryActor
          <6> QED
            BY <4>3, <6>1, <6>2
        <5>2. n.ts <= a.activationTime
          BY <1>1, <1>7, <2>1, <4>1, <4>3 DEF Rests
        <5> QED
          BY <1>1, <4>1, <5>1, <5>2, ConfigAssumption
      <4> QED
        BY <4>2, <4>3
    <3>2. \A m, n \in notified : m # n /\ m.country = n.country
            => m.ts - n.ts > WindowPeriod - skew \/ n.ts - m.ts > WindowPeriod - skew
      BY DEF Disorder, ReportsAreApart
    <3> QED
      BY <1>3, <1>4, <3>1, <3>2 DEF ReportsAreApart
  <2>2. CASE skew > WindowPeriod
    <3>1. \A m, n \in notified' : m.ts \in Nat /\ n.ts \in Nat
      BY <1>1, <1>4, <1>5
    <3>2. \A x, y \in Nat : x - y > WindowPeriod - skew \/ y - x > WindowPeriod - skew
      BY <1>1, <2>2, ConfigAssumption
    <3> QED
      BY <1>3, <3>1, <3>2 DEF ReportsAreApart
  <2> QED
    BY <1>1, <2>1, <2>2, ConfigAssumption
<1> QED
  BY <1>3, <1>10, <1>11, <1>12, <1>13, <1>14, <1>15 DEF Disorder, Grounded

\* What the actors hold and promise is an invariant.
LEMMA DisorderInvariant == Spec => []Disorder
<1>1. Init => Disorder
  <2> SUFFICES ASSUME Init PROVE Disorder
    OBVIOUS
  <2>1. \A c \in Countries :
          /\ Of(c, seen) = {} /\ Of(c, notified) = {}
          /\ actor.subActors[c].entries = {} /\ actor.subActors[c].activationTime = ZeroTime
    BY DEF Init, Of, NewPartitionActor, NewEntryActor
  <2>2. \A c \in Countries : /\ Holds(actor.subActors[c], c, seen, notified, newest)
                             /\ Rests(actor.subActors[c], c, notified, newest)
    BY <2>1 DEF Holds, Rests, Since
  <2>3. ASSUME NEW c \in Countries, NEW t \in Nat
        PROVE  Promised(c, seen, notified, t)
    <3>1. Since(t - WindowPeriod, Of(c, seen)) = {}
      BY <2>1 DEF Since
    <3>2. Cardinality(Since(t - WindowPeriod, Of(c, seen))) = 0
      BY <3>1, FS_EmptySet
    <3> QED
      BY <3>2, ConfigAssumption DEF Promised
  <2> QED
    BY <2>2, <2>3 DEF Init, Disorder, ReportsAreApart
<1>2. TypeOK /\ Counted /\ Disorder /\ [Next]_vars => Disorder'
  <2> SUFFICES ASSUME TypeOK, Counted, Disorder, [Next]_vars PROVE Disorder'
    OBVIOUS
  <2>1. CASE UNCHANGED vars
    BY <2>1 DEF vars, Disorder, Grounded, ReportsAreApart
  <2>2. CASE Next
    BY <2>2, NextReceives, ReceiveDisorder
  <2> QED
    BY <2>1, <2>2
<1> QED
  BY <1>1, <1>2, SpecTyped, PTL DEF Spec

\* However the timestamps are disordered, no limit is missed.
THEOREM NoMiss == Spec => []LimitIsReported
<1>1. TypeOK /\ Disorder => LimitIsReported
  <2> SUFFICES ASSUME TypeOK, Disorder, NEW c \in Countries
               PROVE  Promised(c, seen, notified, newest)
    BY DEF LimitIsReported, Promised
  <2>1. newest \in Nat /\ newest >= newest
    BY DEF TypeOK
  <2> QED
    BY <2>1 DEF Disorder
<1> QED
  BY <1>1, SpecTyped, DisorderInvariant, PTL

\* However the timestamps are disordered, no report is unfounded.
THEOREM NoInvention == Spec => []NoFalseAlarm
<1>1. Disorder => NoFalseAlarm
  BY DEF Disorder, Grounded, NoFalseAlarm
<1> QED
  BY <1>1, DisorderInvariant, PTL

\* A window is not reported twice, whatever the disorder, the threshold and
\* the cleanup period.
THEOREM Separation == Spec => []ReportsAreApart
<1>1. Disorder => ReportsAreApart
  BY DEF Disorder
<1> QED
  BY <1>1, DisorderInvariant, PTL

=============================================================================
