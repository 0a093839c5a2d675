---------------------------- MODULE OutboxProofs ----------------------------
(***************************************************************************)
(* Theorems about Outbox, for any set of messages, any finite nonempty set *)
(* of workers and any bounds.                                              *)
(***************************************************************************)
EXTENDS Outbox, FiniteSetTheorems, TLAPS

USE DEF Fault, AppendToTopic, NextTick, Retry, GiveUp, Stop, producerVars, workerVars

\* Next, one action per case, for the proofs of invariance.
Step(w) ==
  \/ BeginTransaction(w)
  \/ StatementFails(w)
  \/ GetMessagesToSend(w)
  \/ SelectCutShort(w)
  \/ NextMessage(w)
  \/ SendMessage(w)
  \/ SendAttemptFails(w)
  \/ MarkedMessageAsSent(w)
  \/ DeadlockAbort(w)
  \/ UseLostConnection(w)
  \/ Commit(w)
  \/ CommitFails(w)
  \/ Crash(w)
  \/ Restart(w)

-----------------------------------------------------------------------------
(***************************************************************************)
(* Typing: TypeOK, and that a worker in the middle of an iteration has a   *)
(* message.                                                                *)
(***************************************************************************)
HasCurrent == \A w \in Workers : pc[w] \in {"send", "mark"} => current[w] \in Messages

Typed == TypeOK /\ HasCurrent

\* The initial state is well typed.
LEMMA InitTyped == Init => Typed
<1> SUFFICES ASSUME Init PROVE Typed
  OBVIOUS
<1>1. /\ insert \in [Messages -> {"none", "spawned", "running", "stored", "failed"}]
      /\ reply \in [Messages -> {"none", "RecordSent", "InternalError"}]
      /\ status \in [Messages -> {"absent", "unsent", "sent"}]
      /\ connDead \in BOOLEAN
  BY DEF Init
<1>2. /\ published \in [Messages -> Nat]
      /\ faults \in 0..MaxFaults
      /\ restarts \in 0..MaxRestarts
      /\ attempt \in [Workers -> 0..MaxAttempts]
  BY SizesAssumption DEF Init
<1>3. /\ batch \in [Workers -> SUBSET Messages]
      /\ marked \in [Workers -> SUBSET Messages]
      /\ current \in [Workers -> Messages \cup {"none"}]
  BY DEF Init
<1>4. /\ pc \in [Workers -> {"idle", "select", "loop", "send", "mark", "stopped", "down"}]
      /\ connLost \in [Workers -> BOOLEAN]
      /\ HasCurrent
  BY DEF Init, HasCurrent
<1> QED
  BY <1>1, <1>2, <1>3, <1>4 DEF Typed, TypeOK

\* A step of the producer keeps the types.
LEMMA ProducerTyped == Typed /\ Producer => Typed'
<1> SUFFICES ASSUME Typed, Producer PROVE Typed'
  OBVIOUS
<1> USE SizesAssumption DEF Typed, TypeOK, HasCurrent
<1>1. CASE ProducerRestart
  <2>1. insert' \in [Messages -> {"none", "spawned", "running", "stored", "failed"}]
    BY <1>1 DEF ProducerRestart
  <2>2. /\ faults' \in 0..MaxFaults
        /\ connDead' \in BOOLEAN
    <3>1. faults' \in 0..MaxFaults
      BY <1>1 DEF ProducerRestart
    <3> QED
      BY <3>1, <1>1 DEF ProducerRestart
  <2>3. UNCHANGED <<reply, status, published, workerVars, restarts>>
    BY <1>1 DEF ProducerRestart
  <2> QED
    BY <2>1, <2>2, <2>3
<1>2. ASSUME NEW m \in Messages, Reject(m) \/ Accept(m) \/ Respond(m)
      PROVE  Typed'
  BY <1>2 DEF Reject, Accept, Respond
<1>3. ASSUME NEW m \in Messages, InsertBegin(m) \/ InsertRefused(m)
      PROVE  Typed'
  BY <1>3 DEF InsertBegin, InsertRefused
<1>4. ASSUME NEW m \in Messages, InsertEnd(m)
      PROVE  Typed'
  BY <1>4 DEF InsertEnd
<1>5. ASSUME NEW m \in Messages, InsertFails(m)
      PROVE  Typed'
  <2>1. faults' \in 0..MaxFaults
    BY <1>5 DEF InsertFails
  <2>2. /\ insert' \in [Messages -> {"none", "spawned", "running", "stored", "failed"}]
        /\ status' \in [Messages -> {"absent", "unsent", "sent"}]
    BY <1>5 DEF InsertFails
  <2>3. connDead' = TRUE /\ UNCHANGED <<reply, published, workerVars, restarts>>
    BY <1>5 DEF InsertFails
  <2> QED
    BY <2>1, <2>2, <2>3
<1> HIDE DEF Typed
<1> QED
  BY <1>1, <1>2, <1>3, <1>4, <1>5 DEF Producer

\* A step of a worker keeps the types, and a message in hand where one is sent or marked.
LEMMA StepTyped == ASSUME NEW w \in Workers, Typed, Step(w) PROVE Typed'
<1> USE SizesAssumption DEF Typed, TypeOK, HasCurrent
<1>1. CASE BeginTransaction(w)
  BY <1>1 DEF BeginTransaction
<1>2. CASE StatementFails(w)
  BY <1>2 DEF StatementFails
<1>3. CASE GetMessagesToSend(w)
  BY <1>3 DEF GetMessagesToSend, Unsent
<1>4. CASE SelectCutShort(w)
  BY <1>4 DEF SelectCutShort, Unsent
<1>5. CASE NextMessage(w)
  BY <1>5 DEF NextMessage
<1>6. CASE SendMessage(w)
  BY <1>6 DEF SendMessage
<1>7. CASE SendAttemptFails(w)
  BY <1>7 DEF SendAttemptFails
<1>8. CASE MarkedMessageAsSent(w)
  BY <1>8 DEF MarkedMessageAsSent
<1>9. CASE DeadlockAbort(w)
  BY <1>9 DEF DeadlockAbort
<1>10. CASE UseLostConnection(w)
  BY <1>10 DEF UseLostConnection
<1>11. CASE Commit(w)
  BY <1>11 DEF Commit, Settled
<1>12. CASE CommitFails(w)
  BY <1>12 DEF CommitFails, Settled
<1>13. CASE Crash(w)
  BY <1>13 DEF Crash
<1>14. CASE Restart(w)
  BY <1>14 DEF Restart
<1> QED
  BY <1>1, <1>2, <1>3, <1>4, <1>5, <1>6, <1>7, <1>8, <1>9, <1>10, <1>11,
     <1>12, <1>13, <1>14 DEF Step

\* Next is a step of the producer or of one worker.
LEMMA NextIsSteps == Next <=> Producer \/ \E w \in Workers : Step(w)
BY DEF Next, Progress, Failure, Step

\* Every step keeps the types.
LEMMA NextTyped == Typed /\ [Next]_vars => Typed'
<1>1. Typed /\ UNCHANGED vars => Typed'
  BY DEF Typed, TypeOK, HasCurrent, vars
<1> QED
  BY <1>1, ProducerTyped, StepTyped, NextIsSteps

\* Every reachable state is well typed.
LEMMA SpecTyped == Spec => []Typed
BY InitTyped, NextTyped, PTL DEF Spec

\* Every variable of the outbox keeps its type.
THEOREM TypeCorrect == Spec => []TypeOK
<1>1. Typed => TypeOK
  BY DEF Typed
<1> QED
  BY <1>1, SpecTyped, PTL

-----------------------------------------------------------------------------
(***************************************************************************)
(* Nothing is marked before it is published, or published before it is     *)
(* stored.  The bare statement about committed rows is not inductive: a    *)
(* commit makes it true of the rows the transaction has updated, so those  *)
(* and the one about to be updated must be in the topic already.           *)
(***************************************************************************)
MarkedIsPublished ==
  \A w \in Workers : \A m \in marked[w] : published[m] > 0

MarkingIsPublished ==
  \A w \in Workers : pc[w] = "mark" => published[current[w]] > 0

PublishedIsStored ==
  \A m \in Messages : published[m] > 0 => status[m] # "absent"

BatchIsStored ==
  \A w \in Workers : \A m \in batch[w] : status[m] # "absent"

CurrentIsStored ==
  \A w \in Workers : pc[w] \in {"send", "mark"} => status[current[w]] # "absent"

RowComesFromInsert ==
  \A m \in Messages :
    insert[m] \in {"none", "spawned", "running"} => status[m] = "absent"

InOrder ==
  /\ RowComesFromInsert
  /\ SentIsPublished
  /\ MarkedIsPublished
  /\ MarkingIsPublished
  /\ PublishedIsStored
  /\ BatchIsStored
  /\ CurrentIsStored

\* The empty table and topic are in order.
LEMMA InitInOrder == Init => InOrder
BY DEF Init, InOrder, RowComesFromInsert, SentIsPublished, MarkedIsPublished, MarkingIsPublished,
       PublishedIsStored, BatchIsStored, CurrentIsStored

\* The row of m appears.
Inserts(m) == status[m] = "absent" /\ status' = [status EXCEPT ![m] = "unsent"]

\* All the producer does to the table and the topic is to insert an absent row.
LEMMA ProducerInserts ==
  ASSUME InOrder, Producer PROVE UNCHANGED status \/ \E m \in Messages : Inserts(m)
BY DEF InOrder, RowComesFromInsert, Inserts, Producer, ProducerRestart, Reject,
   Accept, Respond, InsertBegin, InsertRefused, InsertEnd, InsertFails

\* The producer keeps store, publish, mark in order.
LEMMA ProducerInOrder == Typed /\ InOrder /\ Producer => InOrder'
<1> SUFFICES ASSUME Typed, InOrder, Producer PROVE InOrder'
  OBVIOUS
<1>1. UNCHANGED <<published, workerVars>>
  BY DEF Producer, ProducerRestart, Reject, Accept, Respond, InsertBegin,
         InsertRefused, InsertEnd, InsertFails
<1>2. UNCHANGED status \/ \E m \in Messages : Inserts(m)
  BY ProducerInserts
<1>3. RowComesFromInsert'
  BY DEF Typed, TypeOK, InOrder, RowComesFromInsert, Producer, ProducerRestart,
     Reject, Accept, Respond, InsertBegin, InsertRefused, InsertEnd, InsertFails
<1> QED
  BY <1>1, <1>2, <1>3 DEF Inserts, Typed, TypeOK, HasCurrent, InOrder,
     SentIsPublished, MarkedIsPublished, MarkingIsPublished, PublishedIsStored,
     BatchIsStored, CurrentIsStored

\* A worker marks what it has published, and publishes what is stored.
LEMMA StepInOrder ==
  ASSUME NEW w \in Workers, Typed, InOrder, Step(w) PROVE InOrder'
<1> USE DEF Typed, TypeOK, HasCurrent, InOrder, RowComesFromInsert, SentIsPublished,
     MarkedIsPublished, MarkingIsPublished, PublishedIsStored, BatchIsStored,
     CurrentIsStored
<1>1. CASE BeginTransaction(w)
  BY <1>1 DEF BeginTransaction
<1>2. CASE StatementFails(w)
  BY <1>2 DEF StatementFails
<1>3. CASE GetMessagesToSend(w)
  BY <1>3 DEF GetMessagesToSend, Unsent
<1>4. CASE SelectCutShort(w)
  BY <1>4 DEF SelectCutShort, Unsent
<1>5. CASE NextMessage(w)
  BY <1>5 DEF NextMessage
<1>6. CASE SendMessage(w)
  BY <1>6 DEF SendMessage
<1>7. CASE SendAttemptFails(w)
  BY <1>7 DEF SendAttemptFails
<1>8. CASE MarkedMessageAsSent(w)
  BY <1>8 DEF MarkedMessageAsSent
<1>9. CASE DeadlockAbort(w)
  BY <1>9 DEF DeadlockAbort
<1>10. CASE UseLostConnection(w)
  BY <1>10 DEF UseLostConnection
<1>11. CASE Commit(w)
  BY <1>11 DEF Commit, Settled
<1>12. CASE CommitFails(w)
  BY <1>12 DEF CommitFails, Settled
<1>13. CASE Crash(w)
  BY <1>13 DEF Crash
<1>14. CASE Restart(w)
  BY <1>14 DEF Restart
<1> QED
  BY <1>1, <1>2, <1>3, <1>4, <1>5, <1>6, <1>7, <1>8, <1>9, <1>10, <1>11,
     <1>12, <1>13, <1>14 DEF Step

\* Every step keeps the order of store, publish, mark.
LEMMA NextInOrder == Typed /\ InOrder /\ [Next]_vars => InOrder'
<1>1. InOrder /\ UNCHANGED vars => InOrder'
  BY DEF InOrder, RowComesFromInsert, SentIsPublished, MarkedIsPublished, MarkingIsPublished,
     PublishedIsStored, BatchIsStored, CurrentIsStored, vars
<1> QED
  BY <1>1, ProducerInOrder, StepInOrder, NextIsSteps

\* In every reachable state a row is stored, published and marked in that order.
LEMMA SpecInOrder == Spec => []InOrder
BY InitInOrder, NextInOrder, SpecTyped, PTL DEF Spec

\* A row is committed as sent only after its message is in the topic.
THEOREM NothingIsLost == Spec => []SentIsPublished
<1>1. InOrder => SentIsPublished
  BY DEF InOrder
<1> QED
  BY <1>1, SpecInOrder, PTL

-----------------------------------------------------------------------------
(***************************************************************************)
(* The refinement of OutboxPromise, from the same invariant.               *)
(***************************************************************************)
LEMMA InitPromise == Init => Promise!PromiseInit
BY DEF Init, Promise!PromiseInit

\* A step of the producer stores a record, or is none of the outbox's.
LEMMA ProducerPromise ==
  ASSUME Typed, InOrder, Producer
  PROVE  [Promise!PromiseNext]_Promise!promiseVars
<1>1. UNCHANGED published
  BY DEF Producer, ProducerRestart, Reject, Accept, Respond, InsertBegin,
         InsertRefused, InsertEnd, InsertFails
<1>2. CASE UNCHANGED status
  BY <1>1, <1>2 DEF Promise!promiseVars
<1>3. ASSUME NEW m \in Messages, Inserts(m)
      PROVE  Promise!Store(m)
  BY <1>1, <1>3 DEF Inserts, Typed, TypeOK, Promise!Store
<1> QED
  BY <1>2, <1>3, ProducerInserts DEF Promise!PromiseNext

\* A worker that appends a copy of its current message delivers it.
LEMMA AppendDelivers ==
  ASSUME Typed, InOrder, NEW w \in Workers, pc[w] = "send",
         AppendToTopic(current[w]), UNCHANGED status
  PROVE  Promise!PromiseNext
<1>1. PICK m \in Messages : m = current[w]
  BY DEF Typed, HasCurrent
<1>2. Promise!Deliver(m)
  BY <1>1 DEF Typed, TypeOK, InOrder, CurrentIsStored, Promise!Deliver
<1> QED
  BY <1>2 DEF Promise!PromiseNext

\* A commit settles the rows of its transaction, all of them delivered.
LEMMA CommitSettles ==
  ASSUME Typed, InOrder, NEW w \in Workers, Settled(w), UNCHANGED published
  PROVE  Promise!PromiseNext
<1>1. PICK S \in SUBSET Messages : S = marked[w]
  BY DEF Typed, TypeOK
<1>2. Promise!Settle(S)
  <2>1. S \subseteq {m \in Messages : published[m] > 0}
    BY <1>1 DEF Typed, TypeOK, InOrder, MarkedIsPublished
  <2>2. {m \in Messages : status[m] = "sent"}'
          = {m \in Messages : status[m] = "sent"} \cup S
    BY <1>1 DEF Settled, Typed, TypeOK
  <2>3. UNCHANGED {m \in Messages : status[m] # "absent"}
    BY <1>1, <2>1 DEF Settled, Typed, TypeOK, InOrder, PublishedIsStored
  <2> QED
    BY <2>1, <2>2, <2>3 DEF Promise!Settle
<1> QED
  BY <1>2 DEF Promise!PromiseNext

\* A step of a worker delivers a record, settles a set of them or is a stutter.
LEMMA StepPromise ==
  ASSUME NEW w \in Workers, Typed, InOrder, Step(w)
  PROVE  [Promise!PromiseNext]_Promise!promiseVars
<1>1. CASE UNCHANGED <<status, published>>
  BY <1>1 DEF Promise!promiseVars
<1>2. CASE SendMessage(w) \/ SendAttemptFails(w)
  BY <1>1, <1>2, AppendDelivers DEF SendMessage, SendAttemptFails
<1>3. CASE Commit(w) \/ CommitFails(w)
  BY <1>1, <1>3, CommitSettles DEF Commit, CommitFails
<1>4. CASE ~(SendMessage(w) \/ SendAttemptFails(w) \/ Commit(w) \/ CommitFails(w))
  BY <1>1, <1>4 DEF Step, BeginTransaction, StatementFails, GetMessagesToSend,
     SelectCutShort, NextMessage, MarkedMessageAsSent, DeadlockAbort,
     UseLostConnection, Crash, Restart
<1> QED
  BY <1>2, <1>3, <1>4

\* The outbox implements its promise.
THEOREM Refinement == Spec => ImplementsPromise
<1>1. Typed /\ InOrder /\ [Next]_vars => [Promise!PromiseNext]_Promise!promiseVars
  <2>1. UNCHANGED vars => UNCHANGED Promise!promiseVars
    BY DEF vars, Promise!promiseVars
  <2> QED
    BY <2>1, ProducerPromise, StepPromise, NextIsSteps
<1> QED
  BY <1>1, InitPromise, SpecTyped, SpecInOrder, PTL DEF Spec, ImplementsPromise, Promise!PromiseSpec

-----------------------------------------------------------------------------
(***************************************************************************)
(* How often a message is published.  The invariant counts, beside the     *)
(* copies there are, the workers that may still publish the message before *)
(* they stop: each of them has one copy in the budget.                     *)
(***************************************************************************)
\* The loop of SendBatch: a message is in the batch, current, or marked.
LoopState ==
  \A w \in Workers :
    /\ pc[w] \in {"send", "mark"} => current[w] \notin batch[w]
    /\ batch[w] \cap marked[w] = {}
    /\ pc[w] \in {"idle", "select", "stopped", "down"} => marked[w] = {}

\* w has m ahead of it: selected, being sent, or unsent for all w knows.
MaySend(w, m) ==
  /\ Running(w)
  /\ \/ m \in batch[w]
     \/ pc[w] = "send" /\ current[w] = m
     \/ status[m] # "sent" /\ m \notin marked[w] /\ ~(pc[w] = "mark" /\ current[w] = m)

Senders(m) == {w \in Workers : MaySend(w, m)}

Budget ==
  \A m \in Messages :
    published[m] + Cardinality(Senders(m)) <= Cardinality(Workers) + restarts + faults

\* The worker's place in its loop agrees with its batch and its tries.
LEMMA StepLoopState ==
  ASSUME NEW w \in Workers, Typed, LoopState, Step(w) PROVE LoopState'
<1> USE DEF Typed, TypeOK, LoopState
<1>1. CASE BeginTransaction(w) \/ StatementFails(w)
  BY <1>1 DEF BeginTransaction, StatementFails
<1>2. CASE GetMessagesToSend(w) \/ SelectCutShort(w)
  BY <1>2 DEF GetMessagesToSend, SelectCutShort
<1>3. CASE NextMessage(w)
  BY <1>3 DEF NextMessage
<1>4. CASE SendMessage(w)
  BY <1>4 DEF SendMessage
<1>5. CASE SendAttemptFails(w)
  BY <1>5 DEF SendAttemptFails
<1>6. CASE MarkedMessageAsSent(w)
  BY <1>6 DEF MarkedMessageAsSent
<1>7. CASE DeadlockAbort(w) \/ UseLostConnection(w)
  BY <1>7 DEF DeadlockAbort, UseLostConnection
<1>8. CASE Commit(w) \/ CommitFails(w)
  BY <1>8 DEF Commit, CommitFails
<1>9. CASE Crash(w) \/ Restart(w)
  BY <1>9 DEF Crash, Restart
<1> QED
  BY <1>1, <1>2, <1>3, <1>4, <1>5, <1>6, <1>7, <1>8, <1>9 DEF Step

\* Only a restart makes a worker a sender again.
LEMMA StepSenders ==
  ASSUME NEW w \in Workers, NEW m \in Messages, NEW v \in Workers,
         Typed, LoopState, Step(w), ~Restart(w), MaySend(v, m)'
  PROVE  MaySend(v, m)
<1> USE DEF Typed, TypeOK, LoopState, MaySend, Running
<1>1. CASE BeginTransaction(w) \/ StatementFails(w)
  BY <1>1 DEF BeginTransaction, StatementFails
<1>2. CASE GetMessagesToSend(w) \/ SelectCutShort(w)
  BY <1>2 DEF GetMessagesToSend, SelectCutShort, Unsent
<1>3. CASE NextMessage(w)
  BY <1>3 DEF NextMessage
<1>4. CASE SendMessage(w)
  BY <1>4 DEF SendMessage
<1>5. CASE SendAttemptFails(w)
  BY <1>5 DEF SendAttemptFails
<1>6. CASE MarkedMessageAsSent(w)
  BY <1>6 DEF MarkedMessageAsSent
<1>7. CASE DeadlockAbort(w) \/ UseLostConnection(w)
  BY <1>7 DEF DeadlockAbort, UseLostConnection
<1>8. CASE Commit(w)
  BY <1>8 DEF Commit, Settled
<1>9. CASE CommitFails(w)
  BY <1>9 DEF CommitFails, Settled
<1>10. CASE Crash(w)
  BY <1>10 DEF Crash
<1> QED
  BY <1>1, <1>2, <1>3, <1>4, <1>5, <1>6, <1>7, <1>8, <1>9, <1>10 DEF Step

\* A worker that has published its message is no longer among the senders.
LEMMA SenderDone ==
  ASSUME NEW w \in Workers, NEW m \in Messages, Typed, LoopState,
         SendMessage(w), m = current[w]
  PROVE  MaySend(w, m) /\ ~MaySend(w, m)'
BY DEF Typed, TypeOK, HasCurrent, LoopState, MaySend, Running, SendMessage

\* Each step of the outbox, as the budget sees it.
LEMMA StepCounters ==
  ASSUME NEW w \in Workers, NEW m \in Messages, Typed, Step(w)
  PROVE  \/ /\ Restart(w)
            /\ published'[m] = published[m] /\ restarts' = restarts + 1 /\ faults' = faults
         \/ /\ ~Restart(w) /\ SendMessage(w) /\ m = current[w]
            /\ published'[m] = published[m] + 1 /\ restarts' = restarts /\ faults' = faults
         \/ /\ ~Restart(w)
            /\ published'[m] <= published[m] + 1 /\ restarts' = restarts /\ faults' = faults + 1
         \/ /\ ~Restart(w)
            /\ published'[m] = published[m] /\ restarts' = restarts /\ faults' = faults
<1> USE SizesAssumption DEF Typed, TypeOK, HasCurrent
<1>1. CASE Restart(w)
  BY <1>1 DEF Restart
<1>2. CASE SendMessage(w)
  BY <1>2 DEF SendMessage, Restart
<1>3. CASE SendAttemptFails(w)
  BY <1>3 DEF SendAttemptFails, Restart
<1>4. CASE StatementFails(w) \/ SelectCutShort(w) \/ CommitFails(w) \/ Crash(w)
  BY <1>4 DEF StatementFails, SelectCutShort, CommitFails, Crash, Restart
<1>5. CASE BeginTransaction(w) \/ GetMessagesToSend(w) \/ NextMessage(w)
             \/ MarkedMessageAsSent(w)
  BY <1>5 DEF BeginTransaction, GetMessagesToSend, NextMessage, MarkedMessageAsSent, Restart
<1>6. CASE DeadlockAbort(w) \/ UseLostConnection(w) \/ Commit(w)
  BY <1>6 DEF DeadlockAbort, UseLostConnection, Commit, Restart
<1> QED
  BY <1>1, <1>2, <1>3, <1>4, <1>5, <1>6 DEF Step

\* The senders of a message are finitely many, no more than the workers.
LEMMA SendersFinite ==
  ASSUME NEW m \in Messages
  PROVE  /\ IsFiniteSet(Senders(m)) /\ Cardinality(Senders(m)) \in Nat
         /\ Cardinality(Senders(m)) <= Cardinality(Workers)
         /\ Cardinality(Workers) \in Nat
<1>1. Senders(m) \subseteq Workers
  BY DEF Senders
<1> QED
  BY <1>1, FiniteAssumption, FS_Subset, FS_CardinalityType

\* A worker's step spends no more copies of a message than it may send.
LEMMA StepBudget ==
  ASSUME NEW w \in Workers, Typed, Typed', LoopState, Budget, Step(w) PROVE Budget'
<1> SUFFICES ASSUME NEW m \in Messages
             PROVE  published'[m] + Cardinality(Senders(m)')
                      <= Cardinality(Workers) + restarts' + faults'
  BY DEF Budget
<1> DEFINE before == Senders(m)
           after == Senders(m)'
<1>1. /\ IsFiniteSet(before) /\ Cardinality(before) \in Nat
      /\ Cardinality(Workers) \in Nat
      /\ published[m] \in Nat /\ published'[m] \in Nat
      /\ restarts \in Nat /\ faults \in Nat
      /\ published[m] + Cardinality(before) <= Cardinality(Workers) + restarts + faults
  BY SendersFinite, SizesAssumption DEF Budget, Typed, TypeOK
<1>2. CASE Restart(w)
  <2>1. after \subseteq before \cup {w}
    BY <1>2 DEF Senders, MaySend, Running, Restart, Typed, TypeOK
  <2>2. /\ IsFiniteSet(before \cup {w})
        /\ Cardinality(before \cup {w}) <= Cardinality(before) + 1
        /\ Cardinality(before \cup {w}) \in Nat
    <3> HIDE DEF before
    <3>1. /\ IsFiniteSet(before \cup {w})
          /\ \/ Cardinality(before \cup {w}) = Cardinality(before)
             \/ Cardinality(before \cup {w}) = Cardinality(before) + 1
      BY <1>1, FS_AddElement, Zenon
    <3> QED
      BY <1>1, <3>1
  <2>3. Cardinality(after) \in Nat /\ Cardinality(after) <= Cardinality(before) + 1
    BY <1>1, <2>1, <2>2, FS_Subset, FS_CardinalityType
  <2>4. published'[m] = published[m] /\ restarts' = restarts + 1 /\ faults' = faults
    BY <1>2, StepCounters
  <2> QED
    BY <1>1, <2>3, <2>4
<1>3. CASE ~Restart(w)
  <2>1. after \subseteq before
    BY <1>3, StepSenders DEF Senders
  <2>2. Cardinality(after) \in Nat /\ Cardinality(after) <= Cardinality(before)
    BY <1>1, <2>1, FS_Subset, FS_CardinalityType
  <2>3. CASE SendMessage(w) /\ m = current[w]
    <3>1. w \in before /\ w \notin after
      BY <2>3, SenderDone DEF Senders
    <3>2. IsFiniteSet(before \ {w}) /\ Cardinality(before \ {w}) = Cardinality(before) - 1
      BY <1>1, <3>1, FS_RemoveElement
    <3>3. Cardinality(after) <= Cardinality(before) - 1
      BY <2>1, <3>1, <3>2, FS_Subset
    <3>4. published'[m] <= published[m] + 1 /\ restarts' = restarts /\ faults' >= faults
      BY <1>1, <1>3, StepCounters
    <3> QED
      BY <1>1, <2>2, <3>3, <3>4, Typed' DEF Typed, TypeOK
  <2>4. CASE ~(SendMessage(w) /\ m = current[w])
    BY <1>1, <1>3, <2>2, <2>4, StepCounters
  <2> QED
    BY <2>3, <2>4
<1> QED
  BY <1>2, <1>3

\* A step of the producer publishes nothing.
LEMMA ProducerBudget ==
  Typed /\ InOrder /\ LoopState /\ Budget /\ Producer => LoopState' /\ Budget'
<1> SUFFICES ASSUME Typed, InOrder, LoopState, Budget, Producer
             PROVE  LoopState' /\ Budget'
  OBVIOUS
<1>1. UNCHANGED <<published, workerVars, restarts>>
  BY DEF Producer, ProducerRestart, Reject, Accept, Respond, InsertBegin,
         InsertRefused, InsertEnd, InsertFails
<1>2. faults' \in Nat /\ faults' >= faults
  BY SizesAssumption DEF Typed, TypeOK, Producer, ProducerRestart, Reject, Accept,
     Respond, InsertBegin, InsertRefused, InsertEnd, InsertFails
<1>3. \A m \in Messages : status'[m] # "sent" <=> status[m] # "sent"
  BY ProducerInserts DEF Inserts, Typed, TypeOK
<1>4. \A m \in Messages : Senders(m)' = Senders(m)
  BY <1>1, <1>3 DEF Senders, MaySend, Running
<1>5. LoopState'
  BY <1>1 DEF LoopState
<1>6. ASSUME NEW m \in Messages
      PROVE  published'[m] + Cardinality(Senders(m)')
               <= Cardinality(Workers) + restarts' + faults'
  <2>1. published[m] + Cardinality(Senders(m)) <= Cardinality(Workers) + restarts + faults
    BY DEF Budget
  <2> QED
    BY <1>1, <1>2, <1>4, <2>1, SendersFinite, SizesAssumption DEF Typed, TypeOK
<1> QED
  BY <1>5, <1>6 DEF Budget

\* Before any worker runs nothing has been published and everyone may send once.
LEMMA InitBudget == Init => LoopState /\ Budget
<1> SUFFICES ASSUME Init PROVE LoopState /\ Budget
  OBVIOUS
<1>1. LoopState
  BY DEF Init, LoopState
<1>2. ASSUME NEW m \in Messages
      PROVE  published[m] + Cardinality(Senders(m)) <= Cardinality(Workers) + restarts + faults
  <2>1. published[m] = 0 /\ restarts = 0 /\ faults = 0
    BY DEF Init
  <2> QED
    BY <2>1, SendersFinite
<1> QED
  BY <1>1, <1>2 DEF Budget

\* In every reachable state the copies of a message and those still to be sent
\* are within the workers, the restarts and the faults.
LEMMA SpecBudget == Spec => [](LoopState /\ Budget)
<1>1. LoopState /\ Budget /\ UNCHANGED vars => (LoopState /\ Budget)'
  BY DEF LoopState, Budget, Senders, MaySend, Running, vars
<1>2. Typed /\ Typed' /\ InOrder /\ LoopState /\ Budget /\ [Next]_vars
        => (LoopState /\ Budget)'
  BY <1>1, ProducerBudget, StepLoopState, StepBudget, NextIsSteps
<1> QED
  BY <1>2, InitBudget, SpecTyped, SpecInOrder, PTL DEF Spec

\* A message is published at most once by each incarnation of each worker, and
\* once more by each failure.
THEOREM BoundedDuplicates == Spec => []DuplicatesAccountedFor
<1>1. Typed /\ Budget => DuplicatesAccountedFor
  BY SendersFinite, SizesAssumption DEF Budget, Typed, TypeOK, DuplicatesAccountedFor
<1> QED
  BY <1>1, SpecTyped, SpecBudget, PTL

-----------------------------------------------------------------------------
(***************************************************************************)
(* Deadlocks never stop the last worker: the one that is aborted waits for *)
(* one that runs.                                                          *)
(***************************************************************************)
LostIsFault == faults = 0 => \A w \in Workers : ~connLost[w]

\* Without faults, a step that stops a worker leaves another one running.
LEMMA StepRuns ==
  ASSUME NEW w \in Workers, Typed, LostIsFault, SomeWorkerRuns, Step(w)
  PROVE  LostIsFault' /\ SomeWorkerRuns'
<1> USE SizesAssumption DEF Typed, TypeOK, LostIsFault, SomeWorkerRuns, Running
<1>1. CASE DeadlockAbort(w)
  <2>1. PICK u \in Workers : u # w /\ Running(u)
    BY <1>1 DEF DeadlockAbort, WaitsFor
  <2> QED
    BY <1>1, <2>1 DEF DeadlockAbort
<1>2. CASE StatementFails(w) \/ SelectCutShort(w) \/ SendAttemptFails(w)
             \/ CommitFails(w) \/ Crash(w)
  <2>1. faults' # 0
    BY <1>2 DEF StatementFails, SelectCutShort, SendAttemptFails, CommitFails, Crash
  <2> QED
    BY <2>1
<1>3. CASE UseLostConnection(w)
  BY <1>3 DEF UseLostConnection
<1>4. CASE Restart(w)
  BY <1>4 DEF Restart
<1>5. CASE BeginTransaction(w) \/ GetMessagesToSend(w) \/ NextMessage(w) \/ SendMessage(w)
  BY <1>5 DEF BeginTransaction, GetMessagesToSend, NextMessage, SendMessage
<1>6. CASE MarkedMessageAsSent(w) \/ Commit(w)
  BY <1>6 DEF MarkedMessageAsSent, Commit
<1> QED
  BY <1>1, <1>2, <1>3, <1>4, <1>5, <1>6 DEF Step

\* The producer stops no worker.
LEMMA ProducerRuns ==
  Typed /\ LostIsFault /\ SomeWorkerRuns /\ Producer => LostIsFault' /\ SomeWorkerRuns'
<1> SUFFICES ASSUME Typed, LostIsFault, SomeWorkerRuns, Producer
             PROVE  LostIsFault' /\ SomeWorkerRuns'
  OBVIOUS
<1>1. UNCHANGED workerVars
  BY DEF Producer, ProducerRestart, Reject, Accept, Respond, InsertBegin,
         InsertRefused, InsertEnd, InsertFails
<1>2. faults' = 0 => faults = 0
  BY SizesAssumption DEF Typed, TypeOK, Producer, ProducerRestart, Reject, Accept,
     Respond, InsertBegin, InsertRefused, InsertEnd, InsertFails
<1> QED
  BY <1>1, <1>2 DEF LostIsFault, SomeWorkerRuns, Running

\* As long as nothing fails, some worker keeps running.
THEOREM LastWorkerRuns == Spec => []SomeWorkerRuns
<1>1. Init => LostIsFault /\ SomeWorkerRuns
  BY FiniteAssumption DEF Init, LostIsFault, SomeWorkerRuns, Running
<1>2. LostIsFault /\ SomeWorkerRuns /\ UNCHANGED vars => (LostIsFault /\ SomeWorkerRuns)'
  BY DEF LostIsFault, SomeWorkerRuns, Running, vars
<1>3. Typed /\ LostIsFault /\ SomeWorkerRuns /\ [Next]_vars
        => (LostIsFault /\ SomeWorkerRuns)'
  BY <1>2, ProducerRuns, StepRuns, NextIsSteps
<1> QED
  BY <1>1, <1>3, SpecTyped, PTL DEF Spec

=============================================================================
