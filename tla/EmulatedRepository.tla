-------------------------- MODULE EmulatedRepository --------------------------
(***************************************************************************)
(* The in-memory database of java/lecture6: two tables, counts of action   *)
(* invocations and offsets of partitions, behind one volatile reference    *)
(* that commit() replaces under a lock and readers read without it.  A     *)
(* thread's transaction is a DatabaseState of its own in a ThreadLocal.    *)
(*                                                                         *)
(* An absent key of the first table counts 0.  Threads call the methods in *)
(* any order, those calls included that end in a NullPointerException.     *)
(***************************************************************************)
EXTENDS Integers

CONSTANTS
  Threads,     \* consumer threads that use the repository
  Actions,     \* ActionTypeIds
  Partitions,  \* TopicPartitions
  Offsets,     \* offsets that are written
  null,        \* Java's null: a thread without a transaction
  MaxCalls     \* bound: calls that add something to a transaction

ASSUME CallsAssumption ==
  /\ MaxCalls \in Nat
  /\ Offsets \subseteq Nat

VARIABLES
  globalState,       \* the committed DatabaseState
  uncommittedState,  \* uncommittedState[t]: t's transaction, or null
  commitLock,        \* the thread inside the synchronized block, or "free"
  pc,                \* pc[t]: the next step of t's commit(), "outside" of it
  newGlobalState,    \* newGlobalState[t]: the local variable of t's commit()
  calls              \* additions so far

vars == <<globalState, uncommittedState, commitLock, pc, newGlobalState, calls>>

NoOffset == -1   \* the partition is not a key of the offsets table

NewDatabaseState == [counts  |-> [a \in Actions |-> 0],
                     offsets |-> [p \in Partitions |-> NoOffset]]

DatabaseState == [counts : [Actions -> Nat], offsets : [Partitions -> Offsets \cup {NoOffset}]]

ASSUME NullAssumption == null \notin DatabaseState /\ "free" \notin Threads

Steps == {"outside", "lock", "copyOffsets", "copyInvocations", "merge", "publish", "reset"}

TypeOK ==
  /\ globalState \in DatabaseState
  /\ uncommittedState \in [Threads -> DatabaseState \cup {null}]
  /\ commitLock \in Threads \cup {"free"}
  /\ pc \in [Threads -> Steps]
  /\ newGlobalState \in [Threads -> DatabaseState]
  /\ calls \in 0..MaxCalls

Init ==
  /\ globalState = NewDatabaseState
  /\ uncommittedState = [t \in Threads |-> null]
  /\ commitLock = "free"
  /\ pc = [t \in Threads |-> "outside"]
  /\ newGlobalState = [t \in Threads |-> NewDatabaseState]
  /\ calls = 0

-----------------------------------------------------------------------------
(***************************************************************************)
(* The methods that touch only the thread's own transaction.               *)
(***************************************************************************)
StartTransaction(t) ==
  /\ pc[t] = "outside"
  /\ uncommittedState' = [uncommittedState EXCEPT ![t] = NewDatabaseState]
  /\ UNCHANGED <<globalState, commitLock, pc, newGlobalState, calls>>

Rollback(t) ==
  /\ pc[t] = "outside"
  /\ uncommittedState' = [uncommittedState EXCEPT ![t] = null]
  /\ UNCHANGED <<globalState, commitLock, pc, newGlobalState, calls>>

\* Without a transaction this and WriteOffset throw and change nothing.
AddActionInvocation(t, action) ==
  /\ pc[t] = "outside" /\ uncommittedState[t] # null
  /\ calls < MaxCalls
  /\ calls' = calls + 1
  /\ uncommittedState' = [uncommittedState EXCEPT ![t].counts[action] = @ + 1]
  /\ UNCHANGED <<globalState, commitLock, pc, newGlobalState>>

OffsetWritten(offset) == offset

WriteOffset(t, partition, offset) ==
  /\ pc[t] = "outside" /\ uncommittedState[t] # null
  /\ calls < MaxCalls
  /\ calls' = calls + 1
  /\ uncommittedState' = [uncommittedState EXCEPT ![t].offsets[partition] = OffsetWritten(offset)]
  /\ UNCHANGED <<globalState, commitLock, pc, newGlobalState>>

-----------------------------------------------------------------------------
(***************************************************************************)
(* commit(), step by step.                                                 *)
(***************************************************************************)
Goto(t, step) == pc' = [pc EXCEPT ![t] = step]

\* newGlobalState = new DatabaseState(), uncommitted = uncommittedState.get().
CommitCalled(t) ==
  /\ pc[t] = "outside"
  /\ newGlobalState' = [newGlobalState EXCEPT ![t] = NewDatabaseState]
  /\ Goto(t, "lock")
  /\ UNCHANGED <<globalState, uncommittedState, commitLock, calls>>

Lock(t) == commitLock = "free" /\ commitLock' = t

EnterSynchronized(t) ==
  /\ pc[t] = "lock"
  /\ Lock(t)
  /\ Goto(t, "copyOffsets")
  /\ UNCHANGED <<globalState, uncommittedState, newGlobalState, calls>>

CopyOffsets(t) ==
  /\ pc[t] = "copyOffsets"
  /\ newGlobalState' = [newGlobalState EXCEPT ![t].offsets = globalState.offsets]
  /\ Goto(t, "copyInvocations")
  /\ UNCHANGED <<globalState, uncommittedState, commitLock, calls>>

CopyInvocations(t) ==
  /\ pc[t] = "copyInvocations"
  /\ newGlobalState' = [newGlobalState EXCEPT ![t].counts = globalState.counts]
  /\ Goto(t, "merge")
  /\ UNCHANGED <<globalState, uncommittedState, commitLock, calls>>

\* actionInvocationTable.merge for each entry, then offsetsTable.putAll.
Merged(state, uncommitted) ==
  [counts  |-> [a \in Actions |-> state.counts[a] + uncommitted.counts[a]],
   offsets |-> [p \in Partitions |-> IF uncommitted.offsets[p] = NoOffset
                                     THEN state.offsets[p] ELSE uncommitted.offsets[p]]]

Merge(t) ==
  /\ pc[t] = "merge" /\ uncommittedState[t] # null
  /\ newGlobalState' = [newGlobalState EXCEPT ![t] = Merged(@, uncommittedState[t])]
  /\ Goto(t, "publish")
  /\ UNCHANGED <<globalState, uncommittedState, commitLock, calls>>

\* A commit without a transaction: the exception leaves the block and the
\* method.
Mutant_KeepLock(t) == commitLock' = commitLock
Unlock(t) == commitLock' = "free"

MergeThrows(t) ==
  /\ pc[t] = "merge" /\ uncommittedState[t] = null
  /\ Unlock(t)
  /\ Goto(t, "outside")
  /\ UNCHANGED <<globalState, uncommittedState, newGlobalState, calls>>

\* globalState = newGlobalState, and the end of the synchronized block.
Publish(t) ==
  /\ pc[t] = "publish"
  /\ globalState' = newGlobalState[t]
  /\ commitLock' = "free"
  /\ Goto(t, "reset")
  /\ UNCHANGED <<uncommittedState, newGlobalState, calls>>

Mutant_KeepsChanges(t) == UNCHANGED uncommittedState
FreshTransaction(t) ==
  uncommittedState' = [uncommittedState EXCEPT ![t] = NewDatabaseState]

CommitReturns(t) ==
  /\ pc[t] = "reset"
  /\ FreshTransaction(t)
  /\ Goto(t, "outside")
  /\ UNCHANGED <<globalState, commitLock, newGlobalState, calls>>

CommitStep(t) ==
  \/ EnterSynchronized(t)
  \/ CopyOffsets(t)
  \/ CopyInvocations(t)
  \/ Merge(t)
  \/ MergeThrows(t)
  \/ Publish(t)
  \/ CommitReturns(t)

Next ==
  \E t \in Threads :
    \/ StartTransaction(t)
    \/ Rollback(t)
    \/ \E a \in Actions : AddActionInvocation(t, a)
    \/ \E p \in Partitions, o \in Offsets : WriteOffset(t, p, o)
    \/ CommitCalled(t)
    \/ CommitStep(t)

Spec == Init /\ [][Next]_vars

-----------------------------------------------------------------------------
(***************************************************************************)
(* Properties.                                                             *)
(***************************************************************************)

\* Whatever the interleaving of commits, a transaction's changes appear in the
\* tables once, all together, and nobody else's are lost: a reader of the
\* volatile reference sees a state between two transactions.  After Publish
\* the thread's old changes are spent.
Promise == INSTANCE RepositoryPromise WITH
  tables <- globalState,
  tx     <- [t \in Threads |->
               IF pc[t] = "reset" THEN NewDatabaseState ELSE uncommittedState[t]]

ImplementsPromise == Promise!PromiseSpec

\* At most one thread is inside the synchronized block, and nobody keeps the
\* lock outside of it, not even a commit() that throws.
Synchronized == {"copyOffsets", "copyInvocations", "merge", "publish"}

LockIsHeldInside == \A t \in Threads : commitLock = t <=> pc[t] \in Synchronized

=============================================================================
