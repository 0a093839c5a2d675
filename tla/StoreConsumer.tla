---------------------------- MODULE StoreConsumer ----------------------------
(***************************************************************************)
(* The consumers that copy a topic into the table input and list it over   *)
(* HTTP.  In lecture3go, serialisation and Outbox-worker the client is     *)
(* kafka-go, whose ReadMessage commits the offset before it returns the    *)
(* message; in lecture3goConfluent it is librdkafka, which commits in the  *)
(* background what Poll has handed out (AutoCommit).  Either way a message *)
(* is committed without regard to whether it has been stored, every error  *)
(* is logged and the loop goes on.                                         *)
(*                                                                         *)
(* One process, one partition.  The loop and the handlers of /list share   *)
(* one pgx connection: a second query gets the error "conn busy", and a    *)
(* query whose request is cancelled closes the connection for good.        *)
(***************************************************************************)
EXTENDS LoopState

CONSTANT Requests   \* GET /list requests

ASSUME ConsumerAssumption ==
  /\ IsFiniteSet(Requests)
  /\ MaxLog \in Nat
  /\ MaxFaults \in Nat
  /\ MaxRestarts \in Nat

VARIABLES
  logEnd,      \* offset of the next message that is produced
  rows,        \* rows[o]: copies of message o in the table
  strayRows,   \* rows that no message stands behind
  listing,     \* listing[r]: "none", "querying" or "done"
  connDead,    \* the connection is closed
  storeErrors  \* errors of AddValue that were logged

tableVars == <<rows, strayRows>>
errorVars == <<readErrors, storeErrors, crashes>>
vars == <<program, logEnd, committed, fetched, pc, msg, rows, strayRows, listing, connDead,
          readErrors, storeErrors, crashes, faults, restarts>>

Offset == 0..(MaxLog - 1)
Nothing == -1   \* a nil message: stored as '', like the value of an empty message

\* Read of the kafka-go clients is ReadMessage; Poll of the other is librdkafka's.
Lecture3Client == "kafka-go"
SerialisationClient == "kafka-go"
OutboxClient == "kafka-go"
ConfluentClient == "librdkafka"

\* What each loop does after an error of Read: the kafka-go loops store the nil
\* message, the other asks msg != nil first and reads again.
Lecture3Main == [client |-> Lecture3Client, afterError |-> "store"]
SerialisationMain == [client |-> SerialisationClient, afterError |-> "store"]
OutboxMain == [client |-> OutboxClient, afterError |-> "store"]
ConfluentMain == [client |-> ConfluentClient, afterError |-> "read"]
Programs == {Lecture3Main, SerialisationMain, OutboxMain, ConfluentMain}

AutoCommit == program.client = "librdkafka"

TypeOK ==
  /\ program \in Programs
  /\ logEnd \in 0..MaxLog
  /\ committed \in 0..logEnd
  /\ fetched \in 0..logEnd
  /\ pc \in {"read", "commit", "store", "storing", "down"}
  /\ msg \in Offset \cup {Nothing}
  /\ rows \in [Offset -> Nat]
  /\ strayRows \in Nat
  /\ listing \in [Requests -> {"none", "querying", "done"}]
  /\ connDead \in BOOLEAN
  /\ readErrors \in Nat /\ storeErrors \in Nat /\ crashes \in Nat
  /\ faults \in 0..MaxFaults
  /\ restarts \in 0..MaxRestarts

Init ==
  /\ program \in Programs
  /\ logEnd = 0 /\ committed = 0 /\ fetched = 0
  /\ pc = "read" /\ msg = Nothing
  /\ rows = [o \in Offset |-> 0] /\ strayRows = 0
  /\ listing = [r \in Requests |-> "none"]
  /\ connDead = FALSE
  /\ readErrors = 0 /\ storeErrors = 0 /\ crashes = 0
  /\ faults = 0 /\ restarts = 0

Produce ==
  /\ logEnd < MaxLog
  /\ logEnd' = logEnd + 1
  /\ UNCHANGED <<program, committed, fetched, pc, msg, tableVars, listing, connDead,
                 errorVars, faults, restarts>>

-----------------------------------------------------------------------------
(***************************************************************************)
(* The loop: Read, then AddValue, whatever Read returned.                  *)
(***************************************************************************)

\* The client has a message: ReadMessage goes on to commit it, Poll returns it.
Mutant_StoreFirst == "store"
AfterFetch == IF AutoCommit THEN "store" ELSE "commit"

Fetch ==
  /\ pc = "read" /\ fetched < logEnd
  /\ msg' = fetched
  /\ fetched' = fetched + 1
  /\ pc' = AfterFetch
  /\ UNCHANGED <<program, logEnd, committed, tableVars, listing, connDead, errorVars,
                 faults, restarts>>

\* Read returns an error and a nil message.
Mutant_ReturnOnError == "down"
AfterReadError == program.afterError

FetchFails ==
  /\ pc = "read"
  /\ Fault
  /\ msg' = Nothing
  /\ readErrors' = readErrors + 1
  /\ pc' = AfterReadError
  /\ UNCHANGED <<program, logEnd, committed, fetched, tableVars, listing, connDead,
                 storeErrors, crashes, restarts>>

\* CommitMessages inside ReadMessage.
CommitOffset ==
  /\ pc = "commit"
  /\ committed' = msg + 1
  /\ pc' = "store"
  /\ UNCHANGED <<program, logEnd, fetched, msg, tableVars, listing, connDead,
                 errorVars, faults, restarts>>

\* The commit fails, at the broker or on the way back: ReadMessage returns the
\* error and not the message, and the reader is past it.
CommitFails ==
  /\ pc = "commit"
  /\ Fault
  /\ \/ committed' = msg + 1
     \/ UNCHANGED committed
  /\ msg' = Nothing
  /\ readErrors' = readErrors + 1
  /\ pc' = AfterReadError
  /\ UNCHANGED <<program, logEnd, fetched, tableVars, listing, connDead, storeErrors,
                 crashes, restarts>>

\* librdkafka commits what Poll has returned, at some time of its own.
BackgroundCommit ==
  /\ AutoCommit /\ pc # "down"
  /\ committed' = fetched
  /\ UNCHANGED <<program, logEnd, fetched, pc, msg, tableVars, listing, connDead,
                 errorVars, faults, restarts>>

ConnBusy == pc = "storing" \/ \E r \in Requests : listing[r] = "querying"

StoreBegin ==
  /\ pc = "store" /\ ~connDead /\ ~ConnBusy
  /\ pc' = "storing"
  /\ UNCHANGED <<program, logEnd, committed, fetched, msg, tableVars, listing,
                 connDead, errorVars, faults, restarts>>

\* AddValue finds the connection busy or closed; the message is not tried again.
Mutant_RetryWithoutMessage == "store"
AfterRefusal == "read"

StoreRefused ==
  /\ pc = "store" /\ (connDead \/ ConnBusy)
  /\ storeErrors' = storeErrors + 1
  /\ pc' = AfterRefusal /\ msg' = Nothing
  /\ UNCHANGED <<program, logEnd, committed, fetched, tableVars, listing, connDead,
                 readErrors, crashes, faults, restarts>>

\* The row of a message is its row whether its value is empty or not; the table
\* does not tell the row of an empty message from that of the nil message.
InsertRow ==
  IF msg = Nothing
  THEN strayRows' = strayRows + 1 /\ UNCHANGED rows
  ELSE rows' = [rows EXCEPT ![msg] = @ + 1] /\ UNCHANGED strayRows

StoreEnd ==
  /\ pc = "storing"
  /\ InsertRow
  /\ pc' = "read" /\ msg' = Nothing
  /\ UNCHANGED <<program, logEnd, committed, fetched, listing, connDead, errorVars,
                 faults, restarts>>

\* The connection fails under the INSERT, before or after it is performed, or the
\* database rejects the statement and the connection stays.
StoreFails ==
  /\ pc = "storing"
  /\ Fault
  /\ \/ (InsertRow \/ UNCHANGED tableVars) /\ connDead' = TRUE
     \/ UNCHANGED <<tableVars, connDead>>
  /\ storeErrors' = storeErrors + 1
  /\ pc' = "read" /\ msg' = Nothing
  /\ UNCHANGED <<program, logEnd, committed, fetched, listing, readErrors, crashes,
                 restarts>>

-----------------------------------------------------------------------------
(***************************************************************************)
(* GET /list, and the process.                                             *)
(***************************************************************************)
ListBegin(r) ==
  /\ listing[r] = "none" /\ pc # "down" /\ ~connDead /\ ~ConnBusy
  /\ listing' = [listing EXCEPT ![r] = "querying"]
  /\ UNCHANGED <<program, logEnd, committed, fetched, pc, msg, tableVars, connDead,
                 errorVars, faults, restarts>>

\* The query ends, or never starts because the connection is busy or closed.
ListEnd(r) ==
  /\ \/ listing[r] = "querying"
     \/ listing[r] = "none" /\ pc # "down" /\ (connDead \/ ConnBusy)
  /\ listing' = [listing EXCEPT ![r] = "done"]
  /\ UNCHANGED <<program, logEnd, committed, fetched, pc, msg, tableVars, connDead,
                 errorVars, faults, restarts>>

\* The client goes away while its query runs: request.Context() is cancelled
\* and with it the query, and pgx closes the connection.
ListCancelled(r) ==
  /\ listing[r] = "querying"
  /\ listing' = [listing EXCEPT ![r] = "done"]
  /\ connDead' = TRUE
  /\ UNCHANGED <<program, logEnd, committed, fetched, pc, msg, tableVars, errorVars,
                 faults, restarts>>

Crash ==
  /\ pc # "down"
  /\ Fault
  /\ crashes' = crashes + 1
  /\ pc' = "down" /\ msg' = Nothing
  /\ listing' = [r \in Requests |-> IF listing[r] = "querying" THEN "done" ELSE listing[r]]
  /\ UNCHANGED <<program, logEnd, committed, fetched, tableVars, connDead,
                 readErrors, storeErrors, restarts>>

\* A new process starts at the group's offset, with a new connection.
Mutant_LatestOffset == logEnd
StartOffset == committed

Restart ==
  /\ pc = "down"
  /\ restarts < MaxRestarts
  /\ restarts' = restarts + 1
  /\ pc' = "read"
  /\ fetched' = StartOffset
  /\ connDead' = FALSE
  /\ UNCHANGED <<program, logEnd, committed, msg, tableVars, listing, errorVars,
                 faults>>

LoopStep ==
  \/ Fetch
  \/ CommitOffset
  \/ StoreBegin
  \/ StoreRefused
  \/ StoreEnd

Next ==
  \/ Produce
  \/ LoopStep
  \/ FetchFails
  \/ CommitFails
  \/ BackgroundCommit
  \/ StoreFails
  \/ \E r \in Requests : ListBegin(r) \/ ListEnd(r) \/ ListCancelled(r)
  \/ Crash
  \/ Restart

Spec == Init /\ [][Next]_vars

\* The loop's timer fires, the client fetches and commits.
FairSpec == Spec /\ WF_vars(LoopStep) /\ WF_vars(BackgroundCommit)

-----------------------------------------------------------------------------
(***************************************************************************)
(* Properties.                                                             *)
(***************************************************************************)

\* kafka-go's ReadMessage commits before the message is stored, so no message
\* is stored twice, whatever fails.  (The librdkafka consumer stores again what
\* it had not committed when it died.)
StoredAtMostOnce == ~AutoCommit => \A o \in Offset : rows[o] <= 1

\* Messages that will not be read again, are not in hand and are in no row.
Lost == {o \in Offset : o < committed /\ o < fetched /\ rows[o] = 0 /\ o # msg}

\* The price of committing first is bounded: every message that is lost has a
\* line in the log, or was in hand when the process died.
NoSilentLoss == Cardinality(Lost) <= readErrors + storeErrors + crashes

\* Every row stands for a message, but for one empty row where kafka-go's Read
\* failed and the loop stored the nil message.  (The row of a message that is
\* itself empty looks the same, and is none of these.)
StrayRowsAreFailedReads ==
  strayRows <= IF AutoCommit THEN 0 ELSE readErrors

\* Errors never stop the loop: while the process lives, every message that is
\* produced gets its row or is read and given up with a line in the log.
EveryMessageIsHandled ==
  \A o \in Offset :
    (o < logEnd) ~> (rows[o] > 0 \/ (o < fetched /\ o # msg) \/ crashes > restarts)

=============================================================================
