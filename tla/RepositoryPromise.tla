-------------------------- MODULE RepositoryPromise --------------------------
(***************************************************************************)
(* What a transactional repository promises its threads: a transaction's   *)
(* changes are its own until it commits, and then they are applied to the  *)
(* tables all at once: counts are added, offsets replaced.                 *)
(***************************************************************************)
EXTENDS Integers

CONSTANTS Threads, Actions, Partitions, Offsets, null

VARIABLES
  tables,  \* the committed tables
  tx       \* tx[t]: t's uncommitted changes, or null

promiseVars == <<tables, tx>>

NoOffset == -1

Empty == [counts  |-> [a \in Actions |-> 0],
          offsets |-> [p \in Partitions |-> NoOffset]]

Apply(state, changes) ==
  [counts  |-> [a \in Actions |-> state.counts[a] + changes.counts[a]],
   offsets |-> [p \in Partitions |-> IF changes.offsets[p] = NoOffset
                                     THEN state.offsets[p] ELSE changes.offsets[p]]]

PromiseInit ==
  /\ tables = Empty
  /\ tx = [t \in Threads |-> null]

Begin(t) ==
  /\ tx' = [tx EXCEPT ![t] = Empty]
  /\ UNCHANGED tables

Discard(t) ==
  /\ tx' = [tx EXCEPT ![t] = null]
  /\ UNCHANGED tables

Count(t, a) ==
  /\ tx[t] # null
  /\ tx' = [tx EXCEPT ![t].counts[a] = @ + 1]
  /\ UNCHANGED tables

SetOffset(t, p, o) ==
  /\ tx[t] # null
  /\ tx' = [tx EXCEPT ![t].offsets[p] = o]
  /\ UNCHANGED tables

\* The whole transaction, in one step; the next one begins empty.
CommitAll(t) ==
  /\ tx[t] # null
  /\ tables' = Apply(tables, tx[t])
  /\ tx' = [tx EXCEPT ![t] = Empty]

PromiseNext ==
  \E t \in Threads :
    \/ Begin(t)
    \/ Discard(t)
    \/ \E a \in Actions : Count(t, a)
    \/ \E p \in Partitions, o \in Offsets : SetOffset(t, p, o)
    \/ CommitAll(t)

PromiseSpec == PromiseInit /\ [][PromiseNext]_promiseVars

=============================================================================
