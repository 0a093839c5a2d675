----------------------- MODULE EmulatedRepositoryProofs -----------------------
(***************************************************************************)
(* Proofs about EmulatedRepository, for any threads, tables and bound.     *)
(***************************************************************************)
EXTENDS EmulatedRepository, TLAPS

\* A new transaction's state is a database state.
LEMMA EmptyType == NewDatabaseState \in DatabaseState
  BY DEF NewDatabaseState, DatabaseState

\* Merging a transaction's changes into the copied tables yields a database state.
LEMMA MergedType ==
  ASSUME NEW s \in DatabaseState, NEW u \in DatabaseState
  PROVE  Merged(s, u) \in DatabaseState
  <1>1. [a \in Actions |-> s.counts[a] + u.counts[a]] \in [Actions -> Nat]
    BY DEF DatabaseState
  <1>2. [p \in Partitions |-> IF u.offsets[p] = NoOffset THEN s.offsets[p] ELSE u.offsets[p]]
          \in [Partitions -> Offsets \cup {NoOffset}]
    BY DEF DatabaseState
  <1> QED  BY <1>1, <1>2 DEF Merged, DatabaseState

\* Counting one more invocation of an action yields a database state.
LEMMA CountedType ==
  ASSUME NEW s \in DatabaseState, NEW a \in Actions
  PROVE  [s EXCEPT !.counts[a] = @ + 1] \in DatabaseState
  <1>1. s.counts \in [Actions -> Nat] /\ s.counts[a] \in Nat
    BY DEF DatabaseState
  <1>2. [s.counts EXCEPT ![a] = @ + 1] \in [Actions -> Nat]
    BY <1>1
  <1>3. [s EXCEPT !.counts = [s.counts EXCEPT ![a] = @ + 1]] \in DatabaseState
    BY <1>2 DEF DatabaseState
  <1> QED  BY <1>3

\* The type invariant of EmulatedRepository: the tables, the transactions and
\* the half-built state of every commit() stay what they are declared to be.
THEOREM TypeCorrect == Spec => []TypeOK
<1>1. Init => TypeOK
  BY EmptyType, CallsAssumption DEF Init, TypeOK, Steps
<1>2. TypeOK /\ [Next]_vars => TypeOK'
  <2> SUFFICES ASSUME TypeOK, [Next]_vars PROVE TypeOK'
    OBVIOUS
  <2> USE CallsAssumption DEF TypeOK, Steps
  <2>1. CASE UNCHANGED vars
    BY <2>1 DEF vars
  <2>2. CASE Next
    <3>0. PICK t \in Threads :
            \/ StartTransaction(t) \/ Rollback(t)
            \/ \E a \in Actions : AddActionInvocation(t, a)
            \/ \E p \in Partitions, o \in Offsets : WriteOffset(t, p, o)
            \/ CommitCalled(t) \/ CommitStep(t)
      BY <2>2 DEF Next
    <3>1. CASE StartTransaction(t)
      BY <3>1, EmptyType DEF StartTransaction
    <3>2. CASE Rollback(t)
      BY <3>2 DEF Rollback
    <3>3. CASE \E a \in Actions : AddActionInvocation(t, a)
      <4>1. PICK a \in Actions : AddActionInvocation(t, a)
        BY <3>3
      <4>2. uncommittedState[t] \in DatabaseState
        BY <4>1 DEF AddActionInvocation
      <4>3. [uncommittedState[t] EXCEPT !.counts[a] = @ + 1] \in DatabaseState
        BY <4>2, CountedType
      <4>4. uncommittedState' \in [Threads -> DatabaseState \cup {null}]
        BY <4>1, <4>3 DEF AddActionInvocation
      <4> QED  BY <4>1, <4>4 DEF AddActionInvocation
    <3>4. CASE \E p \in Partitions, o \in Offsets : WriteOffset(t, p, o)
      <4>1. PICK p \in Partitions, o \in Offsets : WriteOffset(t, p, o)
        BY <3>4
      <4>2. uncommittedState[t] \in DatabaseState
        BY <4>1 DEF WriteOffset
      <4>3. [uncommittedState[t] EXCEPT !.offsets[p] = o] \in DatabaseState
        BY <4>2 DEF DatabaseState
      <4> QED  BY <4>1, <4>3 DEF WriteOffset, OffsetWritten
    <3>5. CASE CommitCalled(t)
      BY <3>5, EmptyType DEF CommitCalled, Goto
    <3>6. CASE CommitStep(t)
      <4>1. CASE EnterSynchronized(t)
        BY <4>1 DEF EnterSynchronized, Lock, Goto
      <4>2. CASE CopyOffsets(t)
        <5>1. [newGlobalState[t] EXCEPT !.offsets = globalState.offsets] \in DatabaseState
          BY DEF DatabaseState
        <5> QED  BY <4>2, <5>1 DEF CopyOffsets, Goto
      <4>3. CASE CopyInvocations(t)
        <5>1. [newGlobalState[t] EXCEPT !.counts = globalState.counts] \in DatabaseState
          BY DEF DatabaseState
        <5> QED  BY <4>3, <5>1 DEF CopyInvocations, Goto
      <4>4. CASE Merge(t)
        <5>1. Merged(newGlobalState[t], uncommittedState[t]) \in DatabaseState
          BY <4>4, MergedType DEF Merge
        <5> QED  BY <4>4, <5>1 DEF Merge, Goto
      <4>5. CASE MergeThrows(t)
        BY <4>5 DEF MergeThrows, Unlock, Goto
      <4>6. CASE Publish(t)
        BY <4>6 DEF Publish, Goto
      <4>7. CASE CommitReturns(t)
        BY <4>7, EmptyType DEF CommitReturns, FreshTransaction, Goto
      <4> QED  BY <3>6, <4>1, <4>2, <4>3, <4>4, <4>5, <4>6, <4>7 DEF CommitStep
    <3> QED  BY <3>0, <3>1, <3>2, <3>3, <3>4, <3>5, <3>6
  <2> QED  BY <2>1, <2>2
<1> QED  BY <1>1, <1>2, PTL DEF Spec

-----------------------------------------------------------------------------
(***************************************************************************)
(* Mutual exclusion.                                                       *)
(***************************************************************************)
LEMMA LockStep ==
  ASSUME TypeOK, LockIsHeldInside, [Next]_vars
  PROVE  LockIsHeldInside'
<1> USE NullAssumption DEF TypeOK, LockIsHeldInside, Synchronized, Steps
<1>1. CASE UNCHANGED vars
  BY <1>1 DEF vars
<1>2. CASE Next
  <2>0. PICK t \in Threads :
          \/ StartTransaction(t) \/ Rollback(t)
          \/ \E a \in Actions : AddActionInvocation(t, a)
          \/ \E p \in Partitions, o \in Offsets : WriteOffset(t, p, o)
          \/ CommitCalled(t) \/ CommitStep(t)
    BY <1>2 DEF Next
  <2>1. CASE UNCHANGED <<commitLock, pc>>
    BY <2>1
  <2>2. CASE CommitCalled(t)
    BY <2>2 DEF CommitCalled, Goto
  <2>3. CASE EnterSynchronized(t)
    BY <2>3 DEF EnterSynchronized, Lock, Goto
  <2>4. CASE CopyOffsets(t)
    BY <2>4 DEF CopyOffsets, Goto
  <2>5. CASE CopyInvocations(t)
    BY <2>5 DEF CopyInvocations, Goto
  <2>6. CASE Merge(t)
    BY <2>6 DEF Merge, Goto
  <2>7. CASE MergeThrows(t)
    BY <2>7 DEF MergeThrows, Unlock, Goto
  <2>8. CASE Publish(t)
    BY <2>8 DEF Publish, Goto
  <2>9. CASE CommitReturns(t)
    BY <2>9 DEF CommitReturns, Goto
  <2> QED
    BY <2>0, <2>1, <2>2, <2>3, <2>4, <2>5, <2>6, <2>7, <2>8, <2>9
    DEF StartTransaction, Rollback, AddActionInvocation, WriteOffset, CommitStep
<1> QED  BY <1>1, <1>2

\* At most one thread is inside the synchronized block of commit(), and the
\* lock is never held by a thread that has left it.
THEOREM MutualExclusion == Spec => []LockIsHeldInside
<1>1. Init => LockIsHeldInside
  BY NullAssumption DEF Init, LockIsHeldInside, Synchronized
<1>2. TypeOK /\ LockIsHeldInside /\ [Next]_vars => LockIsHeldInside'
  BY LockStep
<1> QED  BY <1>1, <1>2, TypeCorrect, PTL DEF Spec

-----------------------------------------------------------------------------
(***************************************************************************)
(* Atomicity.  What a commit() has built up so far is the committed state, *)
(* which nobody else can replace while it holds the lock.                  *)
(***************************************************************************)
Draft ==
  \A t \in Threads :
    /\ pc[t] = "copyInvocations" => newGlobalState[t].offsets = globalState.offsets
    /\ pc[t] = "merge" => newGlobalState[t] = globalState
    /\ pc[t] = "publish" => /\ uncommittedState[t] # null
                            /\ newGlobalState[t] = Merged(globalState, uncommittedState[t])

\* Two states with the same offsets are equal once they have the same counts.
LEMMA SameState ==
  ASSUME NEW r \in DatabaseState, NEW s \in DatabaseState, r.offsets = s.offsets
  PROVE  [r EXCEPT !.counts = s.counts] = s
  BY DEF DatabaseState

\* Every statement of a commit keeps the copy it builds up to date with the
\* tables: the lock keeps the others out from copying to publishing.
LEMMA DraftStep ==
  ASSUME TypeOK, LockIsHeldInside, Draft, [Next]_vars
  PROVE  Draft'
<1> USE DEF TypeOK, Draft, Steps
<1>1. CASE UNCHANGED vars
  BY <1>1 DEF vars
<1>2. CASE Next
  <2>0. PICK t \in Threads :
          \/ StartTransaction(t) \/ Rollback(t)
          \/ \E a \in Actions : AddActionInvocation(t, a)
          \/ \E p \in Partitions, o \in Offsets : WriteOffset(t, p, o)
          \/ CommitCalled(t) \/ CommitStep(t)
    BY <1>2 DEF Next
  <2>1. CASE StartTransaction(t)
    BY <2>1 DEF StartTransaction
  <2>2. CASE Rollback(t)
    BY <2>2 DEF Rollback
  <2>3. CASE \E a \in Actions : AddActionInvocation(t, a)
    <3>1. /\ pc[t] = "outside" /\ UNCHANGED <<globalState, pc, newGlobalState>>
          /\ \A u \in Threads \ {t} : uncommittedState'[u] = uncommittedState[u]
      BY <2>3 DEF AddActionInvocation
    <3> QED  BY <3>1
  <2>4. CASE \E p \in Partitions, o \in Offsets : WriteOffset(t, p, o)
    <3>1. /\ pc[t] = "outside" /\ UNCHANGED <<globalState, pc, newGlobalState>>
          /\ \A u \in Threads \ {t} : uncommittedState'[u] = uncommittedState[u]
      BY <2>4 DEF WriteOffset
    <3> QED  BY <3>1
  <2>5. CASE CommitCalled(t)
    BY <2>5 DEF CommitCalled, Goto
  <2>6. CASE EnterSynchronized(t)
    BY <2>6 DEF EnterSynchronized, Goto
  <2>7. CASE CopyOffsets(t)
    <3>1. newGlobalState'[t].offsets = globalState'.offsets
      BY <2>7 DEF CopyOffsets, DatabaseState
    <3>2. \A u \in Threads \ {t} : newGlobalState'[u] = newGlobalState[u] /\ pc'[u] = pc[u]
      BY <2>7 DEF CopyOffsets, Goto
    <3> QED  BY <2>7, <3>1, <3>2 DEF CopyOffsets, Goto
  <2>8. CASE CopyInvocations(t)
    <3>1. newGlobalState'[t] = globalState'
      BY <2>8, SameState DEF CopyInvocations
    <3>2. \A u \in Threads \ {t} : newGlobalState'[u] = newGlobalState[u] /\ pc'[u] = pc[u]
      BY <2>8 DEF CopyInvocations, Goto
    <3> QED  BY <2>8, <3>1, <3>2 DEF CopyInvocations, Goto
  <2>9. CASE Merge(t)
    <3>1. newGlobalState'[t] = Merged(globalState', uncommittedState'[t])
      BY <2>9 DEF Merge
    <3>2. \A u \in Threads \ {t} : newGlobalState'[u] = newGlobalState[u] /\ pc'[u] = pc[u]
      BY <2>9 DEF Merge, Goto
    <3> QED  BY <2>9, <3>1, <3>2 DEF Merge, Goto
  <2>10. CASE MergeThrows(t)
    BY <2>10 DEF MergeThrows, Goto
  <2>11. CASE Publish(t)
    <3>1. \A u \in Threads \ {t} : pc'[u] = pc[u] /\ pc[u] \notin Synchronized
      BY <2>11 DEF Publish, Goto, LockIsHeldInside, Synchronized
    <3>2. pc'[t] = "reset"
      BY <2>11 DEF Publish, Goto
    <3> QED  BY <3>1, <3>2 DEF Synchronized
  <2>12. CASE CommitReturns(t)
    BY <2>12 DEF CommitReturns, FreshTransaction, Goto
  <2> QED
    BY <2>0, <2>1, <2>2, <2>3, <2>4, <2>5, <2>6, <2>7, <2>8, <2>9, <2>10, <2>11, <2>12
    DEF CommitStep
<1> QED  BY <1>1, <1>2

Spent == [t \in Threads |->
            IF pc[t] = "reset" THEN NewDatabaseState ELSE uncommittedState[t]]

\* The operators of RepositoryPromise, under the refinement, are those of the code.
LEMMA PromiseOperators ==
  /\ Promise!Empty = NewDatabaseState
  /\ \A s, u : Promise!Apply(s, u) = Merged(s, u)
  BY DEF Promise!Empty, NewDatabaseState, Promise!Apply, Merged, NoOffset, Promise!NoOffset

\* Every step of a thread is a step of RepositoryPromise or changes nothing it sees.
LEMMA PromiseStep ==
  ASSUME TypeOK, Draft, [Next]_vars
  PROVE  [Promise!PromiseNext]_(Promise!promiseVars)
<1> USE DEF TypeOK, Steps
<1>1. CASE UNCHANGED vars
  BY <1>1 DEF vars, Promise!promiseVars
<1>2. CASE Next
  <2>0. PICK t \in Threads :
          \/ StartTransaction(t) \/ Rollback(t)
          \/ \E a \in Actions : AddActionInvocation(t, a)
          \/ \E p \in Partitions, o \in Offsets : WriteOffset(t, p, o)
          \/ CommitCalled(t) \/ CommitStep(t)
    BY <1>2 DEF Next
  <2>1. CASE StartTransaction(t)
    <3>1. Spent' = [Spent EXCEPT ![t] = NewDatabaseState]
      BY <2>1 DEF StartTransaction, Spent
    <3>2. Promise!Begin(t)
      BY <2>1, <3>1, PromiseOperators DEF Promise!Begin, StartTransaction, Spent
    <3> QED  BY <3>2 DEF Promise!PromiseNext
  <2>2. CASE Rollback(t)
    <3>1. Spent' = [Spent EXCEPT ![t] = null]
      BY <2>2 DEF Rollback, Spent
    <3>2. Promise!Discard(t)
      BY <2>2, <3>1 DEF Promise!Discard, Rollback, Spent
    <3> QED  BY <3>2 DEF Promise!PromiseNext
  <2>3. CASE \E a \in Actions : AddActionInvocation(t, a)
    <3>0. PICK a \in Actions : AddActionInvocation(t, a)
      BY <2>3
    <3>1. Spent[t] = uncommittedState[t] /\ Spent[t] # null
      BY <3>0 DEF AddActionInvocation, Spent
    <3>2. Spent' = [Spent EXCEPT ![t].counts[a] = @ + 1]
      BY <3>0, <3>1 DEF AddActionInvocation, Spent
    <3>3. Promise!Count(t, a)
      BY <3>0, <3>1, <3>2 DEF Promise!Count, AddActionInvocation, Spent
    <3> QED  BY <3>3 DEF Promise!PromiseNext
  <2>4. CASE \E p \in Partitions, o \in Offsets : WriteOffset(t, p, o)
    <3>0. PICK p \in Partitions, o \in Offsets : WriteOffset(t, p, o)
      BY <2>4
    <3>1. Spent[t] = uncommittedState[t] /\ Spent[t] # null
      BY <3>0 DEF WriteOffset, Spent
    <3>2. Spent' = [Spent EXCEPT ![t].offsets[p] = o]
      BY <3>0, <3>1 DEF WriteOffset, OffsetWritten, Spent
    <3>3. Promise!SetOffset(t, p, o)
      BY <3>0, <3>1, <3>2 DEF Promise!SetOffset, WriteOffset, Spent
    <3> QED  BY <3>3 DEF Promise!PromiseNext
  <2>5. CASE CommitCalled(t) \/ EnterSynchronized(t) \/ CopyOffsets(t) \/ CopyInvocations(t)
               \/ Merge(t) \/ MergeThrows(t)
    <3>1. UNCHANGED <<globalState, uncommittedState>>
          /\ \A u \in Threads : pc'[u] = "reset" <=> pc[u] = "reset"
      BY <2>5 DEF CommitCalled, EnterSynchronized, CopyOffsets, CopyInvocations, Merge,
                  MergeThrows, Goto
    <3>2. Spent' = Spent
      BY <3>1 DEF Spent
    <3> QED  BY <3>1, <3>2 DEF Promise!promiseVars, Spent
  <2>6. CASE Publish(t)
    <3>1. Spent[t] = uncommittedState[t] /\ Spent[t] # null
      BY <2>6 DEF Publish, Spent, Draft
    <3>2. globalState' = Merged(globalState, Spent[t])
      BY <2>6, <3>1 DEF Publish, Draft
    <3>3. Spent' = [Spent EXCEPT ![t] = NewDatabaseState]
      BY <2>6 DEF Publish, Goto, Spent
    <3>4. Promise!CommitAll(t)
      BY <3>1, <3>2, <3>3, PromiseOperators DEF Promise!CommitAll, Spent
    <3> QED  BY <3>4 DEF Promise!PromiseNext
  <2>7. CASE CommitReturns(t)
    <3>1. Spent' = Spent /\ UNCHANGED globalState
      BY <2>7 DEF CommitReturns, FreshTransaction, Goto, Spent
    <3> QED  BY <3>1 DEF Promise!promiseVars, Spent
  <2> QED  BY <2>0, <2>1, <2>2, <2>3, <2>4, <2>5, <2>6, <2>7 DEF CommitStep
<1> QED  BY <1>1, <1>2

\* commit() is atomic: under any interleaving of threads, readers of the volatile
\* reference included, the repository implements RepositoryPromise.
THEOREM Atomicity == Spec => ImplementsPromise
<1>1. Init => Draft
  BY DEF Init, Draft
<1>2. Init => Promise!PromiseInit
  BY PromiseOperators DEF Init, Promise!PromiseInit
<1>3. TypeOK /\ LockIsHeldInside /\ Draft /\ [Next]_vars => Draft'
  BY DraftStep
<1>4. TypeOK /\ Draft /\ [Next]_vars => [Promise!PromiseNext]_(Promise!promiseVars)
  BY PromiseStep
<1> QED
  BY <1>1, <1>2, <1>3, <1>4, TypeCorrect, MutualExclusion, PTL
  DEF Spec, ImplementsPromise, Promise!PromiseSpec

=============================================================================
