------------------------------- MODULE Outbox -------------------------------
(***************************************************************************)
(* The transactional outbox of examples_go/Outbox-worker: an HTTP producer *)
(* that inserts each accepted record into the table messages, and worker   *)
(* processes that every 30 seconds, in one database transaction, select up *)
(* to a limit of unsent rows, publish each to Kafka and mark it sent.      *)
(*                                                                         *)
(* PostgreSQL and Kafka are external.  Of PostgreSQL the model keeps the   *)
(* READ COMMITTED isolation the code asks for (empty pgx.TxOptions): a     *)
(* SELECT sees committed rows and takes no lock, an UPDATE locks its row   *)
(* until the end of the transaction, a deadlock aborts one of the          *)
(* transactions on the cycle.  Of Kafka it keeps the number of copies of a *)
(* message in the topic, and that an append may be acknowledged, be        *)
(* performed with its acknowledgement lost, or not be performed.           *)
(***************************************************************************)
EXTENDS Naturals, FiniteSets

CONSTANTS
  Messages,     \* the records clients POST to /send; one row each
  Workers,      \* the running outbox-worker processes
  BatchLimit,   \* LIMIT of GetMessagesToSend (100 in the code)
  MaxAttempts,  \* MaxAttempts of the kafka.Writer (2 in the code)
  MaxFaults,    \* bound: failures of the database, of Kafka or of a process
  MaxRestarts   \* bound: worker processes restarted by hand

ASSUME SizesAssumption ==
  /\ BatchLimit \in Nat \ {0}
  /\ MaxAttempts \in Nat \ {0}
  /\ MaxFaults \in Nat
  /\ MaxRestarts \in Nat

ASSUME FiniteAssumption ==
  /\ IsFiniteSet(Messages)
  /\ IsFiniteSet(Workers)
  /\ Workers # {}

VARIABLES
  insert,     \* insert[m]: the goroutine that inserts m
  reply,      \* reply[m]: what the handler answered to m's request
  connDead,   \* the producer's one pgx connection is closed
  status,     \* status[m]: the committed row of m in table messages
  published,  \* published[m]: copies of m in the topic
  pc,         \* pc[w]: where worker w's goroutine is
  batch,      \* batch[w]: the selected messages w's loop has not reached
  current,    \* current[w]: the message of w's loop iteration
  attempt,    \* attempt[w]: the running attempt of w's WriteMessages call
  marked,     \* marked[w]: rows w's transaction has updated, and locks
  connLost,   \* connLost[w]: w's connection broke and w has not noticed
  faults,     \* failures so far
  restarts    \* worker restarts so far

producerVars == <<insert, reply, connDead>>
workerVars == <<pc, batch, current, attempt, marked, connLost>>
vars == <<insert, reply, connDead, status, published, pc, batch, current,
          attempt, marked, connLost, faults, restarts>>

TypeOK ==
  /\ insert \in [Messages -> {"none", "spawned", "running", "stored", "failed"}]
  /\ reply \in [Messages -> {"none", "RecordSent", "InternalError"}]
  /\ connDead \in BOOLEAN
  /\ status \in [Messages -> {"absent", "unsent", "sent"}]
  /\ published \in [Messages -> Nat]
  /\ pc \in [Workers -> {"idle", "select", "loop", "send", "mark", "stopped", "down"}]
  /\ batch \in [Workers -> SUBSET Messages]
  /\ current \in [Workers -> Messages \cup {"none"}]
  /\ attempt \in [Workers -> 0..MaxAttempts]
  /\ marked \in [Workers -> SUBSET Messages]
  /\ connLost \in [Workers -> BOOLEAN]
  /\ faults \in 0..MaxFaults
  /\ restarts \in 0..MaxRestarts

Init ==
  /\ insert = [m \in Messages |-> "none"]
  /\ reply = [m \in Messages |-> "none"]
  /\ connDead = FALSE
  /\ status = [m \in Messages |-> "absent"]
  /\ published = [m \in Messages |-> 0]
  /\ pc = [w \in Workers |-> "idle"]
  /\ batch = [w \in Workers |-> {}]
  /\ current = [w \in Workers |-> "none"]
  /\ attempt = [w \in Workers |-> 0]
  /\ marked = [w \in Workers |-> {}]
  /\ connLost = [w \in Workers |-> FALSE]
  /\ faults = 0
  /\ restarts = 0

\* Every step in which the environment fails something spends one fault.
Fault ==
  /\ faults < MaxFaults
  /\ faults' = faults + 1

-----------------------------------------------------------------------------
(***************************************************************************)
(* The producer.  The handler answers without waiting for the goroutine it *)
(* spawns, and every goroutine uses the same pgx connection, which refuses *)
(* ("conn busy") a query while another is in progress and stays closed for *)
(* ever once it has failed.                                                *)
(***************************************************************************)

\* A POST whose body cannot be read or deserialized: 500, nothing inserted.
Reject(m) ==
  /\ insert[m] = "none" /\ reply[m] = "none"
  /\ reply' = [reply EXCEPT ![m] = "InternalError"]
  /\ UNCHANGED <<insert, connDead, status, published, workerVars, faults, restarts>>

\* A valid POST: the handler starts the goroutine of AddMessage.
Accept(m) ==
  /\ insert[m] = "none" /\ reply[m] = "none"
  /\ insert' = [insert EXCEPT ![m] = "spawned"]
  /\ UNCHANGED <<reply, connDead, status, published, workerVars, faults, restarts>>

\* The handler goes on to answer, whatever the goroutine has done so far.
Respond(m) ==
  /\ insert[m] # "none" /\ reply[m] = "none"
  /\ reply' = [reply EXCEPT ![m] = "RecordSent"]
  /\ UNCHANGED <<insert, connDead, status, published, workerVars, faults, restarts>>

ConnBusy == \E m \in Messages : insert[m] = "running"

\* AddMessage sends its INSERT on an open connection nobody is using.
InsertBegin(m) ==
  /\ insert[m] = "spawned"
  /\ ~connDead /\ ~ConnBusy
  /\ insert' = [insert EXCEPT ![m] = "running"]
  /\ UNCHANGED <<reply, connDead, status, published, workerVars, faults, restarts>>

\* The connection is busy or closed: AddMessage's error is logged, the record
\* is gone.
InsertRefused(m) ==
  /\ insert[m] = "spawned"
  /\ connDead \/ ConnBusy
  /\ insert' = [insert EXCEPT ![m] = "failed"]
  /\ UNCHANGED <<reply, connDead, status, published, workerVars, faults, restarts>>

InsertEnd(m) ==
  /\ insert[m] = "running"
  /\ insert' = [insert EXCEPT ![m] = "stored"]
  /\ status' = [status EXCEPT ![m] = "unsent"]
  /\ UNCHANGED <<reply, connDead, published, workerVars, faults, restarts>>

\* The connection fails under an INSERT, before or after the server has
\* performed it.  The goroutine sees an error either way.
InsertFails(m) ==
  /\ insert[m] = "running"
  /\ Fault
  /\ insert' = [insert EXCEPT ![m] = "failed"]
  /\ connDead' = TRUE
  /\ \/ status' = [status EXCEPT ![m] = "unsent"]
     \/ UNCHANGED status
  /\ UNCHANGED <<reply, published, workerVars, restarts>>

\* The producer process dies with its goroutines and is started again, with
\* a new connection.  A handler that had not answered never does.
ProducerRestart ==
  /\ Fault
  /\ insert' = [m \in Messages |->
                  IF insert[m] \in {"spawned", "running"} THEN "failed" ELSE insert[m]]
  /\ connDead' = FALSE
  /\ UNCHANGED <<reply, status, published, workerVars, restarts>>

Producer ==
  \/ ProducerRestart
  \/ \E m \in Messages :
       Reject(m) \/ Accept(m) \/ Respond(m) \/ InsertBegin(m) \/ InsertRefused(m)
         \/ InsertEnd(m) \/ InsertFails(m)

-----------------------------------------------------------------------------
(***************************************************************************)
(* A worker.  Its goroutine calls SendBatch at each tick; the first error  *)
(* SendBatch returns ends the goroutine while the process stays up.        *)
(***************************************************************************)
Mutant_EveryRow == {m \in Messages : status[m] # "absent"}  \* no WHERE clause
Unsent == {m \in Messages : status[m] = "unsent"}

\* The goroutine returns.  Whatever its transaction had updated is undone:
\* by Rollback, or because the transaction can no longer commit.
Mutant_NoRollback(w) ==
  /\ pc' = [pc EXCEPT ![w] = "stopped"]
  /\ batch' = [batch EXCEPT ![w] = {}]
  /\ UNCHANGED <<current, attempt, marked, connLost>>
Stop(w) ==
  /\ pc' = [pc EXCEPT ![w] = "stopped"]
  /\ marked' = [marked EXCEPT ![w] = {}]
  /\ batch' = [batch EXCEPT ![w] = {}]
  /\ UNCHANGED <<current, attempt, connLost>>

\* SendBatch returned nil: the goroutine waits for the next tick.
Mutant_ReturnAfterBatch(w) == pc' = [pc EXCEPT ![w] = "stopped"]
NextTick(w) == pc' = [pc EXCEPT ![w] = "idle"]

BeginTransaction(w) ==
  /\ pc[w] = "idle"
  /\ pc' = [pc EXCEPT ![w] = "select"]
  /\ UNCHANGED <<producerVars, status, published, batch, current, attempt,
                 marked, connLost, faults, restarts>>

\* BeginTx, the SELECT, or an UPDATE returns an error: SendBatch returns it.
\* After a failed SELECT it does so without a Rollback; that transaction has
\* updated nothing.
StatementFails(w) ==
  /\ pc[w] \in {"idle", "select", "mark"}
  /\ Fault
  /\ Stop(w)
  /\ UNCHANGED <<producerVars, status, published, restarts>>

\* SELECT ... WHERE status = 0 LIMIT: any unsent rows, as many as the limit
\* admits, in no particular order.
GetMessagesToSend(w) ==
  /\ pc[w] = "select"
  /\ \E S \in SUBSET Unsent :
       /\ Cardinality(S) <= BatchLimit
       /\ Cardinality(S) = BatchLimit \/ S = Unsent
       /\ batch' = [batch EXCEPT ![w] = S]
  /\ pc' = [pc EXCEPT ![w] = "loop"]
  /\ UNCHANGED <<producerVars, status, published, current, attempt, marked,
                 connLost, faults, restarts>>

\* The connection breaks while rows are read.  rows.Next() returns false and
\* rows.Err() is never asked: SendBatch goes on with the rows it has.
SelectCutShort(w) ==
  /\ pc[w] = "select"
  /\ Fault
  /\ \E S \in SUBSET Unsent :
       /\ Cardinality(S) < BatchLimit
       /\ batch' = [batch EXCEPT ![w] = S]
  /\ pc' = [pc EXCEPT ![w] = "loop"]
  /\ connLost' = [connLost EXCEPT ![w] = TRUE]
  /\ UNCHANGED <<producerVars, status, published, current, attempt, marked, restarts>>

\* The next iteration of SendBatch's loop enters SendMessage.
NextMessage(w) ==
  /\ pc[w] = "loop"
  /\ \E m \in batch[w] :
       /\ batch' = [batch EXCEPT ![w] = @ \ {m}]
       /\ current' = [current EXCEPT ![w] = m]
  /\ attempt' = [attempt EXCEPT ![w] = 1]
  /\ pc' = [pc EXCEPT ![w] = "send"]
  /\ UNCHANGED <<producerVars, status, published, marked, connLost, faults, restarts>>

AppendToTopic(m) == published' = [published EXCEPT ![m] = @ + 1]

\* The partition leader appends the message and acknowledges it.
SendMessage(w) ==
  /\ pc[w] = "send"
  /\ AppendToTopic(current[w])
  /\ pc' = [pc EXCEPT ![w] = "mark"]
  /\ UNCHANGED <<producerVars, status, batch, current, attempt, marked,
                 connLost, faults, restarts>>

\* The writer tries once more while attempts remain.
Retry(w) ==
  /\ attempt[w] < MaxAttempts
  /\ attempt' = [attempt EXCEPT ![w] = @ + 1]
  /\ UNCHANGED <<pc, batch, current, marked, connLost>>

\* SendMessage returns the writer's error: SendBatch rolls back and returns.
Mutant_IgnoreSendError(w) ==
  /\ pc' = [pc EXCEPT ![w] = "mark"]
  /\ UNCHANGED <<batch, current, attempt, marked, connLost>>
GiveUp(w) == Stop(w)

\* An attempt fails, with the message appended or not.  A temporary error is
\* retried, any other and the last one end SendMessage.
SendAttemptFails(w) ==
  /\ pc[w] = "send"
  /\ Fault
  /\ AppendToTopic(current[w]) \/ UNCHANGED published
  /\ Retry(w) \/ GiveUp(w)
  /\ UNCHANGED <<producerVars, status, restarts>>

\* v's transaction has updated the row w wants to update.
WaitsFor(w, v) ==
  /\ pc[w] = "mark"
  /\ v # w
  /\ current[w] \in marked[v]

\* UPDATE messages SET status = 1 WHERE id = $1, once nobody else has the row.
MarkedMessageAsSent(w) ==
  /\ pc[w] = "mark"
  /\ ~connLost[w]
  /\ \A v \in Workers : ~WaitsFor(w, v)
  /\ marked' = [marked EXCEPT ![w] = @ \cup {current[w]}]
  /\ pc' = [pc EXCEPT ![w] = "loop"]
  /\ UNCHANGED <<producerVars, status, published, batch, current, attempt,
                 connLost, faults, restarts>>

\* PostgreSQL finds w on a cycle of transactions that wait for each other and
\* aborts w's: the UPDATE returns an error.
DeadlockAbort(w) ==
  /\ pc[w] = "mark"
  /\ \E S \in SUBSET Workers :
       /\ w \in S
       /\ \A v \in S : (\E u \in S : WaitsFor(v, u)) /\ (\E u \in S : WaitsFor(u, v))
  /\ Stop(w)
  /\ UNCHANGED <<producerVars, status, published, faults, restarts>>

\* The UPDATE or the COMMIT on a connection that broke earlier.
UseLostConnection(w) ==
  /\ connLost[w]
  /\ pc[w] = "mark" \/ (pc[w] = "loop" /\ batch[w] = {})
  /\ Stop(w)
  /\ UNCHANGED <<producerVars, status, published, faults, restarts>>

\* The server commits w's transaction.
Mutant_TableSettled(w) ==                                \* UPDATE without WHERE
  status' = [m \in Messages |-> IF status[m] = "unsent" THEN "sent" ELSE status[m]]
Settled(w) ==
  status' = [m \in Messages |-> IF m \in marked[w] THEN "sent" ELSE status[m]]

Commit(w) ==
  /\ pc[w] = "loop" /\ batch[w] = {}
  /\ ~connLost[w]
  /\ Settled(w)
  /\ marked' = [marked EXCEPT ![w] = {}]
  /\ NextTick(w)
  /\ UNCHANGED <<producerVars, published, batch, current, attempt, connLost,
                 faults, restarts>>

\* COMMIT returns an error, before or after the server has performed it.
CommitFails(w) ==
  /\ pc[w] = "loop" /\ batch[w] = {}
  /\ ~connLost[w]
  /\ Fault
  /\ Settled(w) \/ UNCHANGED status
  /\ Stop(w)
  /\ UNCHANGED <<producerVars, published, restarts>>

\* The process dies; PostgreSQL aborts the transaction of its connection.
Crash(w) ==
  /\ pc[w] # "down"
  /\ Fault
  /\ pc' = [pc EXCEPT ![w] = "down"]
  /\ marked' = [marked EXCEPT ![w] = {}]
  /\ batch' = [batch EXCEPT ![w] = {}]
  /\ UNCHANGED <<producerVars, status, published, current, attempt, connLost, restarts>>

\* An operator starts the worker again: a process that has died, or one whose
\* goroutine has stopped.
Restart(w) ==
  /\ pc[w] \in {"stopped", "down"}
  /\ restarts < MaxRestarts
  /\ restarts' = restarts + 1
  /\ pc' = [pc EXCEPT ![w] = "idle"]
  /\ connLost' = [connLost EXCEPT ![w] = FALSE]
  /\ UNCHANGED <<producerVars, status, published, batch, current, attempt, marked, faults>>

\* What a worker does when nothing fails.
Progress(w) ==
  \/ BeginTransaction(w)
  \/ GetMessagesToSend(w)
  \/ NextMessage(w)
  \/ SendMessage(w)
  \/ MarkedMessageAsSent(w)
  \/ DeadlockAbort(w)
  \/ UseLostConnection(w)
  \/ Commit(w)

Failure(w) ==
  \/ StatementFails(w)
  \/ SelectCutShort(w)
  \/ SendAttemptFails(w)
  \/ CommitFails(w)
  \/ Crash(w)

Next ==
  \/ Producer
  \/ \E w \in Workers : Progress(w) \/ Failure(w) \/ Restart(w)

Spec == Init /\ [][Next]_vars

\* A ticker, an unblocked goroutine and the database's deadlock detector get
\* on with their next step; nothing makes a fault or a restart happen.
FairSpec ==
  /\ Spec
  /\ \A w \in Workers : WF_vars(Progress(w))
  /\ \A m \in Messages : WF_vars(Respond(m))
  /\ \A m \in Messages : WF_vars(InsertBegin(m) \/ InsertRefused(m) \/ InsertEnd(m))

-----------------------------------------------------------------------------
(***************************************************************************)
(* Properties.                                                             *)
(***************************************************************************)
Running(w) == pc[w] \notin {"stopped", "down"}

\* No message is lost between the table and the topic: a row committed as
\* sent is in the topic, whatever failed, was retried, rolled back or raced.
SentIsPublished ==
  \A m \in Messages : status[m] = "sent" => published[m] > 0

\* The outbox implements OutboxPromise: rows and topic only grow, a copy in the
\* topic comes from a stored row, a commit settles only delivered rows.
Promise == INSTANCE OutboxPromise WITH
  stored    <- {m \in Messages : status[m] # "absent"},
  delivered <- {m \in Messages : published[m] > 0},
  settled   <- {m \in Messages : status[m] = "sent"}

ImplementsPromise == Promise!PromiseSpec

\* How often a message can be published: once by each incarnation of each
\* worker, and once more by each attempt that failed.  With one worker, no
\* restart and no fault this is exactly-once.
DuplicatesAccountedFor ==
  \A m \in Messages : published[m] <= Cardinality(Workers) + restarts + faults

\* Deadlocks between workers stop some of them, never the last: as long as
\* nothing else fails somebody keeps draining the table.
SomeWorkerRuns ==
  faults = 0 => \E w \in Workers : Running(w)

\* A row that is stored is eventually marked sent, unless every worker stops.
Drained ==
  \A m \in Messages :
    status[m] = "unsent" ~> status[m] = "sent" \/ \A w \in Workers : ~Running(w)

\* The answer to a client and the insertion of its record are unrelated: this
\* states what the answer says, and the model refutes it without any fault.
RecordSentIsStored ==
  \A m \in Messages : reply[m] = "RecordSent" /\ insert[m] = "failed" => status[m] # "absent"

=============================================================================
