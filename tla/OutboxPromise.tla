---------------------------- MODULE OutboxPromise ----------------------------
(***************************************************************************)
(* What an outbox promises: records are stored, a stored record may be     *)
(* delivered to the topic, and a set of records is settled, in one step,   *)
(* only once every one of them has been delivered.  Nothing is undone.     *)
(***************************************************************************)
CONSTANT Messages

VARIABLES
  stored,     \* records in the table
  delivered,  \* records in the topic, once or several times
  settled     \* records nobody will deliver again of its own accord

promiseVars == <<stored, delivered, settled>>

PromiseInit ==
  /\ stored = {}
  /\ delivered = {}
  /\ settled = {}

Store(m) ==
  /\ stored' = stored \cup {m}
  /\ UNCHANGED <<delivered, settled>>

Deliver(m) ==
  /\ m \in stored
  /\ delivered' = delivered \cup {m}
  /\ UNCHANGED <<stored, settled>>

Settle(S) ==
  /\ S \subseteq delivered
  /\ settled' = settled \cup S
  /\ UNCHANGED <<stored, delivered>>

PromiseNext ==
  \/ \E m \in Messages : Store(m) \/ Deliver(m)
  \/ \E S \in SUBSET Messages : Settle(S)

PromiseSpec == PromiseInit /\ [][PromiseNext]_promiseVars

=============================================================================
