# Kafka for developers: formal models

TLA+ models, TLC runs and TLAPS proofs of the programs of this repository: the
Go and Java examples of a course on Apache Kafka. Each example is a small
distributed program around a Kafka topic, and each is correct or not for reasons
a unit test hardly reaches: what happens when two workers read the same rows,
when a partition moves to another consumer in the middle of a window, when an
answer is lost.

## 1. Inventory

| Part | Code | State | Operations | Talks to | What is hard |
|---|---|---|---|---|---|
| Outbox producer | `examples_go/Outbox-worker/producer` | one pgx connection | POST /send | table `messages` | goroutines of concurrent requests share the connection; the client is answered first |
| Outbox worker | `examples_go/Outbox-worker/outbox-worker` | a transaction, a ticker | SendBatch | `messages`, topic | no row locks on SELECT, rollback after publishing, deadlocks, lost acknowledgements, the goroutine that ends at the first error |
| Store consumers | `examples_go/{lecture3go, serialisation, Outbox-worker}/consumer`, `lecture3goConfluent/consumer` | one pgx connection, the group's offset | poll loop, GET /list | topic, table `input` | the offset is committed before the row is stored; errors are logged and the loop goes on; `/list` and the loop share the connection |
| Batch consumer | `examples_go/lecture5/consumer` | a batch in memory | ReadBatch, ProcessEntry | topic | timeout racing a read; goroutines keep pointers into a growing slice |
| Offset reader | `examples_go/lecture6offsets/consumer`, `go/lecture6/consumer` | the loop | ReadFromOffset | topic | always reads offset 0; the loop ends at the first message that does not decode, the nil message of a failed read included |
| Send producers | `*/producer/main.go` of Go, the `UserActionController`s and services of Java: twelve programs | requests, the client's queue and batches, delivery reports | POST /send, /entryList | topic | the answer is given before the message is sent; `err` is shared by handler and goroutine; batches are retried and copies arrive late; lists spread over partitions; the process may end with a full queue |
| Limit actors | `examples_go/lecture7balancer/consumer/actor` (= `go/lecture7/consumer/actor`) | counting windows per country and partition | AddEvent, CleanUp | the poll loop | boundaries of windows, lazy cleaning, timestamps out of order |
| Limit consumer group | `examples_go/lecture7balancer/consumer/main.go`, `client` | assignment, positions, actors | rebalance callback, Poll | topic, group coordinator | in-memory state that moves with partitions; rewind and replay; late owners; failed lookups |
| Emulated repository | `java/lecture6/.../database/EmulatedRepository.java` | committed tables, a transaction per thread | start, add, writeOffset, commit, rollback | consumer threads | copy-on-write commit under a lock, reads without it |
| Consumer life cycle | `java/lecture{5,6,7}/.../UserActionKafkaConsumer.java`, `java/utils/.../GracefullyShutdownApplication.java` | exitFlag, the running batch, commits | consumer thread, shutdown hook | Kafka consumer | retries against exit, wakeup against a batch in progress, exit from a hook |
| Pipelines | `examples_go/lecture7go/pipelines` | the loop, the group's offset | read, filter, write | two topics | the offset is committed before the measure is written; errors are logged and the loop goes on with what was decoded so far |
| Streams | `examples_go/lecture7streams` | five topologies, the counts-store, a latch | stream thread, main, shutdown hook | source, repartition and sink topics | what was not committed is repeated; `System.exit` from main against the hook |
| Serializers | `*/common/serializer` | none | Serialize, Deserialize | all of the above | pure conversions |
| Exercise stubs | `go/lecture4`, `go/lecture5/consumer`, `java/lecture4` | | | | starting points of exercises, mostly `FIXME` |
| Course starting points | `go/lecture7/consumer/main.go`, consumers and actors of `java/lecture6`, `java/lecture7` | | | | what is left of them is in the solutions |

How the parts meet: programs of different directories share nothing but a topic
or a table. Inside a program, goroutines or threads share a database connection
(outbox producer, store consumers), a slice (batch consumer), an error variable
(send producers), a volatile
reference and a lock (emulated repository), flags and a Kafka client (consumer
life cycle) or a latch (streams); the limit consumer calls its actors from the poll loop and from the
rebalance callback, which `Poll` runs on the same goroutine.

Kafka, PostgreSQL, the client libraries and the JVM are outside of this
repository. The models keep of them only what the code relies on; those
definitions are marked external in `PROJECT.json`.

## 2. Modules

| Module | Models | Extends or uses |
|---|---|---|
| `Outbox` | outbox producer and workers, with their transactions | `OutboxPromise` (refinement) |
| `OutboxPromise` | abstract: store, deliver, settle | |
| `LimitActors` | `EntryActor` and `PartitionActor` as operators | |
| `LimitDetector` | abstract: when an event of an ordered stream is due for a report | |
| `PartitionStream` | one `PartitionActor` fed with a stream of events | `LimitActors`, `LimitDetector` (refinement) |
| `Balancer` | the consumer group: rebalance, rewind, poll | `LimitActors` |
| `EmulatedRepository` | the transactional repository, statement by statement | `RepositoryPromise` (refinement) |
| `RepositoryPromise` | abstract: transactions with atomic commits | |
| `StoreConsumer` | the consumers that copy a topic into a table, with `/list` | `LoopState` |
| `BatchConsumer` | the consumer of ten-second batches | `BatchReaderState` |
| `ConsumerLifecycle` | the Java consumer thread and the shutdown hook | `BatchState` |
| `SendProducer` | handlers, sending goroutines and client batches of the twelve producers | |
| `ReaderLoop` | the pipeline and the offset readers | `ReaderState` |
| `LoopState`, `ReaderState` | what the two loops over single messages share; programs, variables and safety properties of `ReaderLoop` | |
| `BatchState`, `BatchReaderState` | what the two consumers of batches share; variables and safety properties of `BatchConsumer` | |
| `Streams` | the topologies, the stream thread, the end of the process | |
| `MessageLoopProofs` | theorems about `StoreConsumer` and, as `Loop`, `ReaderLoop` | both, `TLAPS` |
| `BatchLoopProofs` | theorems about `ConsumerLifecycle` and, as `Batch`, `BatchConsumer` | both, `TLAPS` |
| other `*Proofs` | the theorems about the module of that name | the module, `TLAPS` |

A configuration `<Module>.cfg` or `<Module>_<question>.cfg` gives the constants
small values. Definitions named `Mutant_...` are not part of a model: each is a
plausible mistake in the definition after it, and the property it stands for is
violated when it takes that definition's place.

### How the models correspond to the code

**Outbox.** `status[m]` is the committed row, `insert[m]`/`reply[m]` the goroutine
and the HTTP answer of one POST, `pc`, `batch`, `current`, `marked`, `tries`,
`connLost` a worker inside `SendBatch`, `published[m]` the copies in the topic.
`Accept`, `Respond`, `InsertBegin/Refused/End/Fails` are the handler of `/send`
and its goroutine, which the producer's process may outlive or not
(`ProducerRestart`). `BeginTransaction`, `GetMessagesToSend`, `NextMessage`,
`SendMessage`, `MarkedMessageAsSent`, `Commit` are the calls of `SendBatch` in
its order. A worker that meets an error goes to `stopped`: `SendBatch` returns
it and the goroutine in `main` ends, while the process stays up. An UPDATE blocks
while another transaction holds the row (`WaitsFor`); a cycle of two is broken by
`DeadlockAbort`. `Retry` is the kafka.Writer's second attempt after an attempt
that may or may not have been written.

**Limit actors.** `EntryCleanUp`, `EntryPush`, `EntryAddEvent` translate
`entry.go`; `Swept` and `PartitionAddEvent` translate `partition.go`, its
`nextCleanup` and its map included. The list of an entry actor is only counted
and filtered, so it is a set of events, told apart by their offset. `PartitionStream.Receive`
feeds one event; `skew` bounds how far a timestamp may lie behind the newest. The limit
is the code's: an actor reports when it holds more than `CountThreshold` events (finding 3).

**Balancer.** `position[c]`, `partitionMap[c]` are what consumer `c` owns: where
it reads and its actors. `OnPartitionsAssigned` is the callback of `main.go`: it
looks up the offset two windows ago (`OffsetsForTimes`), creates actors and
assigns; `OnPartitionsRevoked` drops both. `AssignedNothing` is the callback whose
lookup failed, which assigns an empty list, or whose `Assign` failed after a lookup that
did not. `ResolveEnd` is the client turning "end" into an offset, some time
after the lookup answered it. `Poll` handles a message in `RootActor.AddEvent`.
`CompleteWithout` expels a member that does not answer; it goes on with what it
has. `highWater` and `reports` are history: what has been processed by anybody,
and what was reported. `gap[p]` records that a handover came later than the rewind
reaches, or that messages fell between a lookup and its resolution, so that no
owner's actors hold all messages of some window; what is said of limits excepts these.

**Emulated repository.** Every statement of `commit()` is a step of its thread,
between `Lock` and `Unlock` where the code has its synchronized block; the calls
that touch only thread-local state are one step. `MergeThrows` is the
NullPointerException of a commit without a transaction.

**Store consumers.** `program` chooses one of the four: its client and what its loop
does after an error. With kafka-go `Fetch`, `CommitOffset` (or a failing commit) and
the store follow each other; with librdkafka `BackgroundCommit` commits what was
handed out. `StoreBegin`, `InsertRow`, `StoreEnd`, `StoreFails`, `StoreRefused` are
`AddValue` on the shared pgx connection; `ListBegin/End/Cancelled` the handler of
`/list`. After a read error the kafka-go loops store the nil message, as the code
does: `strayRows` counts the rows that stand for no message (those of empty messages, which
look the same, are in `rows`); the librdkafka loop reads again. After `StoreFails` the
connection is down, or usable where the error was one of SQL.

**Batch consumer.** `Fetch` and `CommitOffset` are the halves of kafka-go's
`ReadMessage`; `TimerFires` cancels the context, `ReadCancelled` and
`CommitCancelled` are what that does to either half. `Spawn`, `ProcessEntry`,
`LogResult` are the goroutine per entry and the wait group; `Run` starts the
program again, as whoever uses it does. A message is its offset, so the log is the
counter `logEnd`.

**Consumer life cycle.** `pc` is the consumer thread, `hook` the shutdown hook.
`TestExitFlag`, `PollBegins`, `PollReturns`, `ProcessMessages`, `ProcessingThrows`,
`SleepEnds`, `CommitAsync` are `runConsumer`; the catch clauses are `PollIsWokenUp`,
`OnKafkaError`, `ProcessingDies`. `ClearExitFlag`, `Wakeup`, `WaitEnds`,
`CloseContext` are `GracefullyShutdownApplication` and `preShutdown`. `System.exit`
never returns to its caller, runs the hook, and `Halt` ends the JVM when the hook
is done. What `processMessages` would do is left open in the repository: it may
succeed, throw an exception or throw an Error.

**Send producers.** `program` is a handler and a client, chosen among the twelve.
`Reject`, `Accept`, `Answer`, `AnswerCheck`, `AnswerCompleted` are the handler;
`Send`, `SendRefused`, `SendReturns`, `SendCheck` the goroutine that goes through the
entries; where it assigns the handler's `err`, the assignment and the test are two
steps of each, and `wiped` records the requests whose handler assigned over an error.
`SendThrows` is a Java `send` that throws: it ends the list and the request. `Enqueue`, `CloseBatch`, `WriteBatch`, `WriteFails`,
`WriteUnacknowledged`, `LateArrival` are the client's batches: a failed attempt may be
repeated, and may reach the broker after all. `PrintReports` stands for the goroutines
that range over the events channel, one more for each `SendMessage`: whichever of them
takes a report prints it. `ServerEnds` and `Close` end the process. `reported` and
`told` are history: the verdicts somebody has received, the failures somebody wrote
down.

**Reader loops.** `Fetch` and `CommitOffset` are the halves of `ReadMessage`,
`ReadFromOffset` the client that sets the offset before each read, `ReadNothing` the
client of the exercise, which returns nil and no error. `DecodeEntry` returns from the
goroutine on an error; `DecodeMeasure` logs it and goes on with the measure as far as
it was decoded, which a later field may have spoiled (`"broken"`). `WriteMeasure` and
`WriteFails` are `WriteMessages` with its second attempt, which only a temporary error gets.

**Streams.** A topology is a function from a record to the records that leave it.
`Process`, `Count`, `Commit` are the stream thread; a record that throws ends it: one that
cannot be deserialized or, where lines are split, one without a value (`Fatal`). `Start` and `MainExits` are `main`, `Signal` a signal, `HookCloses` and
`HookCountsDown` the shutdown hook, `Halt` the JVM after it. After a `Kill` the program
starts from the last commit, and any part of what was sent or stored since may be there
(`Survivors`).

## 3. What the runs check

Bounds are constants of each module and appear in guards only. Deadlock checking
is off where a bounded model ends (all messages produced, no fault left); it is on
for `EmulatedRepository`, where a thread can always roll back.

| Run | Instance | Distinct states | Question |
|---|---|---|---|
| `Outbox` | 2 messages, 2 workers, batches of 2, 2 attempts, 1 fault, 1 restart | 151k | safety, the promise, liveness |
| `Outbox_record_sent` | 2 messages, no fault | violated | finding 1 |
| `PartitionStream` | 6 events of 2 countries in 7 instants, threshold 2, window 2, sweep period 1, skew 0 or 1 | 483k | reports |
| `PartitionStream_sweep` | timestamps from 10 | violated | finding 2 |
| `Balancer` | 2 consumers, 1 partition, 3 messages in 4 instants, 2 rebalances, 1 fault, threshold 1, window 1 | 214k | handover of actors |
| `EmulatedRepository` | 3 threads of up to 3 calls in all, 2 offsets | 403k | atomic commits |
| `StoreConsumer` | four programs, 3 messages, 2 `/list` requests, 2 faults, 1 restart | 56k | loss and duplication |
| `BatchConsumer` | 4 runs, 5 messages, 2 faults | 34k | timeout, goroutines, liveness |
| `ConsumerLifecycle` | 2 runs, 2 messages, 1 retry, 2 faults | 363k | retries, shutdown, liveness |
| `SendProducer` | 12 programs, 2 requests, lists of 2, 2 partitions, batches of 2, 2 faults | 513k | loss, order, liveness |
| `ReaderLoop` | 3 programs, 3 messages, 3 faults, 1 restart | 91k | loss, the end of a loop |
| `Streams` | 5 topologies, 2 records, 1 kill, 1 restart | 268k | exactly once at clean stops, shutdown |

What they show:

- **Outbox.** `SentIsPublished`: a row committed as sent is in the topic, whatever
  raced, failed or was rolled back. `DuplicatesAccountedFor`: copies of a message
  are at most workers + restarts + faults; each further copy needs one of these.
  `SomeWorkerRuns`: deadlocks alone never stop the last worker. `Drained`: a
  stored row is sent or every worker has stopped; the latter really happens,
  because the first error of a worker ends its goroutine for good. Two workers,
  two messages and batches of two are the least with a deadlock of crossed
  UPDATEs.
- **Limit actors.** On a stream in timestamp order the actors report exactly what
  `LimitDetector` reports (`ReportsExactly`): the event after the `CountThreshold`-th of a
  closed window, in spite of lazy cleaning and of sweeps. Disordered, no limit is missed
  (`LimitIsReported`), none is unfounded (`NoFalseAlarm`), no window is reported twice (`ReportsAreApart`). Six events
  let a country be reported twice with another country's events between; the
  window spans three instants and the stream two windows and more.
- **Balancer.** `ReportsAreJustified`: a replayed message is never counted twice.
  `NoLimitIsLost`: a rewind of two windows rebuilds what was known.
  `EveryLimitIsReported`: it is reported eventually, a failed lookup being made up for by
  the owner after the next rebalance. It goes without a report only if the handover left a
  gap, or if no rebalance comes any more: after a failed lookup or `Assign` the partition
  stays with an owner that does not read it. The clock has four instants and the rewind
  goes back two, so a handover at the last instant starts after the messages of the
  first and the actors are rebuilt from a part of the log; with a clock of three every
  rewind would read everything again. Limits are counted per partition: records have no
  key, so a country spread over partitions has a window in each.
- **Emulated repository.** `ImplementsPromise`: nobody sees half a commit, no update
  is lost. Three threads are two committers and one reader of what they publish.
- **Store consumers.** `NoSilentLoss`: each message lost is answered for by a logged
  error or a crash; `StrayRowsAreFailedReads`: each row that stands for no message is a read
  that failed in a kafka-go loop. A row without a value may also be that of an empty message,
  which the producers send for an empty body; the table does not tell them apart. The bound
  is not idle: refused INSERTs lose messages without any failure of Kafka or the
  database, and a cancelled `/list` closes the shared connection, after which the
  consumer commits every message and stores none.
- **Batch consumer.** The timeout between fetch and commit-answer loses one message
  a run at most (`OneLossPerRun`); a result is logged only when each entry of the batch
  has been processed exactly once, although goroutines keep pointers into a slice that
  grows (`ResultIsComplete`); every batch ends. Five messages in four runs let a message
  be lost in one run and the batch of the next still have two entries. Within a batch
  the entries are processed in any order, those of one user too.
- **Consumer life cycle.** Commits follow processing whatever throws
  (`CommittedIsProcessed`), retries process nothing twice (`RedeliveryIsBounded`), a
  thread that ends by itself has asked to commit all it read
  (`GracefulStopCommits`), and a shutdown ends even when begun by the thread it
  waits for (`ShutdownEnds`). A group without an offset begins at the end of the
  log, so messages before its first commit may be `skipped`; the properties say so.
- **Send producers.** `LossIsTold`: an entry whose fate is sealed is in the topic, or
  somebody was told, and a success of the Java controller means the whole list is in the
  topic. Two cases are excepted because the program cannot know: a client without
  acknowledgements (`lecture3go`), and a refusal in the shared `err` of a request in `wiped`,
  whose handler assigned over it before it was tested (`lecture3goConfluent`); every other
  refusal is in the log. `ListOrder`: the goroutine of
  `/entryList` waits for each entry, so its list keeps its order across partitions,
  retries and late copies. `EveryEntryIsSettled`: what was accepted is settled and the
  program learns it. Batches hold 5 or 100 messages in the code and two here, so that
  lists fill them, overfill them, and leave them to the timer. Only where order is
  claimed do the partitions matter; the asynchronous clients have one.
- **Reader loops.** `ForwardedOrTold`: a measure the pipeline committed and did not write
  has a line in the log or was in hand at a crash. `EndedForCause`, `LoopGoesOn`: no
  error stops the pipeline; the offset reader prints the first message or ends, the
  latter only for a failed read or a first message that does not decode. Three faults
  are two failed attempts of one write and a crash.
- **Streams.** `CleanStopsCountOnce`: nothing is lost, whatever happens, and as long as
  the hook alone stops the program nothing is delivered or counted twice. A record that
  throws ends the stream thread while the process stays up.
  `ShutdownEnds`: the hook opens the latch and main's `System.exit` does not keep the
  JVM from halting.

### Fairness

Weak fairness only, and only of steps that a scheduler, a ticker, a timer, the
database's deadlock detector or a client library takes by itself: a worker's
progress, a running handler, the poll loop and the coordinator's answers, the
timer of a batch, threads of the JVM. In `SendProducer` it is one condition on all
steps of goroutines and of the client's batches (`ProgramStep`), each of which brings a
request or a batch forward; in `ReaderLoop` on the loop and the broker's answers; in
`Streams` on the hook and the halt after it, which the JVM guarantees. Nothing makes a
client POST, a message be produced, a clock tick, a rebalance start, a call fail, a
late copy arrive, a process crash or be started again. A processing that throws every
time is allowed in `ConsumerLifecycle`: the retry limit, not fairness, ends it.
`EmulatedRepository` and `PartitionStream` check safety without fairness.

## 4. Findings

1. `Outbox_record_sent`: `/send` answers "Record sent" before and whether or not
   the INSERT succeeds; of two concurrent POSTs one can be refused by the busy
   connection and be in no table.
2. `PartitionStream_sweep`: `partition.go:24` sweeps at the time the sweep was due
   rather than at the event's, where the Java original uses the event's time.
   `nextCleanup` starts at the zero time, so with real timestamps no sweep clears
   anything.
3. `PartitionStream`: `README.md:1` and `java/lecture7/README.md:1` ask for a notification
   when a user has been shown the banners five times. `CountThreshold` is 5 (`main.go:28`)
   and `entry.go:26` activates when `Len() > CountThreshold`, so the fifth display is not
   reported and the sixth is. `ReportsExactly`, which holds, says when the code reports:
   with the event after the `CountThreshold`-th. The properties of limits speak of the
   code's threshold, "more than `CountThreshold`"; with `CountThreshold` 4 they would be
   about the fifth.

## 5. Proofs

Every theorem holds for all values of the constants that satisfy the assumptions
named in the modules: bounds are natural numbers; batch limits, attempts, runs and
the cleanup period are positive; the sets of messages, workers and requests are
finite, and there is a worker and a partition to send to; timestamps come after the zero
time; `null` and `"free"` are no states and threads.

| Module | Theorems | Inductive invariant |
|---|---|---|
| `OutboxProofs` | `TypeCorrect`, `NothingIsLost`, `BoundedDuplicates`, `LastWorkerRuns`, `Refinement` | below |
| `PartitionStreamProofs` | `TypeCorrect`, `Exactness`, `NoMiss`, `NoInvention`, `Separation` | `History`, `Disorder` |
| `EmulatedRepositoryProofs` | `TypeCorrect`, `MutualExclusion`, `Atomicity` | `LockIsHeldInside`, `Draft` |
| `BalancerProofs` | `TypeCorrect`, `ReportsAreJustifiedAlways`, `NoLimitIsLostAlways` | `InOrder`, `IdleOwnsNothing`, `Owners` (`Genuine`, `Remembers`, `Complete`) |
| `SendProducerProofs` | `TypeCorrect`, `LossIsToldAlways`, `ListOrderAlways` | `Batched`, `Written`, `Progress`, `SharedErr`, `Delivered`, `Known`, `Ended`, `Answered` |
| `MessageLoopProofs`, of `StoreConsumer` | `TypeCorrect`, `AtMostOnce`, `LossIsLogged`, `StrayRows` | `CommittedInHand`, `StoredIsCommitted`, `NothingForgotten`, `StrayRowsDue` |
| `MessageLoopProofs`, of `ReaderLoop` | `LoopTypeCorrect`, `EndsForCause`, `PipelineLossIsLogged` | `LoopInHand`, `FirstOnly`, `LoopNothingForgotten` |
| `BatchLoopProofs`, of `ConsumerLifecycle` | `TypeCorrect`, `AtLeastOnce`, `BoundedRedelivery`, `GracefulStop`, `ConsumerLives` | `BatchInHand`, `NothingInHand`, `Done`, `Frontier`, `OnlyHookStops` |
| `BatchLoopProofs`, of `BatchConsumer` | `BatchTypeCorrect`, `CompleteResults`, `BoundedLoss` | `BatchFrontier`, `Fresh`, `Exact`, `LossSoFar` |
| `StreamsProofs` | `TypeCorrect`, `CleanStops` | `SavedIsPast`, `ClosedIsSaved`, `Kept` |

- **Outbox.** `SentIsPublished` speaks of committed rows, which say nothing of
  transactions in flight; `InOrder` adds that what a worker has marked or is about to
  mark is published and that what it holds is stored. For the duplicates, `Budget`
  counts with the copies already published those workers that may still publish
  another (`MaySend`, `Senders`): a crash or a fault is what puts a worker back among
  them. `LastWorkerRuns` rests on `LostIsFault` and on a deadlock having two sides.
  `Refinement` follows from the same facts step by step: an append delivers, a COMMIT
  settles, everything else stutters.
- **Limit actors.** An actor does not hold what has happened: it has forgotten.
  `Faithful` says that what it forgot does not matter: it holds every event of the
  newest window and none that did not happen, and its activation time is the latest
  report's or lies out of the window. Cleaning and sweeping keep that
  (`CleanUpFaithful`, `OtherFaithful`); a faithful actor answers as the detector
  (`ActivatesWhenDue`). With disordered timestamps the actor has forgotten at the pace
  of the newest event and is asked about an older one, so `Disorder` is weaker and about
  the newest timestamp: the actor holds the events of the newest window (`Holds`), has
  forgotten a report only when it left that window (`Rests`), whoever has enough events in a window that is still to
  come has been reported (`Promised`), and every report had its events (`Grounded`).
- **Balancer.** Several members may believe they own a partition, each with actors of its
  own: an expelled one goes on with what it has. So the invariant speaks of every owner,
  and of the log rather than of other owners. What an actor holds is in the log, before
  the owner's position and once (`Genuine`): a replayed message is a message of the log, and
  a report therefore stands on as many of them as the actor counted. A message that
  reaches the limit must be reported by whoever processes it first (`highWater`). That
  owner must hold all of the message's window (`Complete`), and if it is silent because
  of an activation in that window, the activation is that of a report that was made
  (`Remembers`), which is the one the property asks for. `Complete` is kept by a
  handover because the rewind goes back two windows from the clock, and by forgetting
  because the log is in timestamp order (`InOrder`): what leaves the window of
  one message is in the window of no later one.
- **Send producers.** An entry that is queued lies in one batch and in no other
  (`Batched`), so it gets one verdict and keeps it. `Delivered` and `Known` say what a
  verdict means: "ok" that the entry is in the topic, unless nobody waits for the broker,
  and what the program has acted on agrees with it. `SharedErr` carries this through the
  two steps in which handler and goroutine assign and test one variable: an error that is
  still in it, or recorded as wiped, is that of the request's only entry. `LossIsTold` follows, with `Ended` for
  the flush at the end. For `ListOrder` a sender that waits has the verdicts on all earlier
  entries before it sends the next (`Progress`); a late copy is of an entry that was sent
  (`Written`): whatever arrives, the entries before it have their verdicts, and those with
  "ok" are already in the topic.
- **Emulated repository.** `Draft`: what a commit has built so far is the committed
  state, which nobody can replace while the lock is held. The refinement linearises
  a commit at the assignment of the volatile reference; a thread between that and its
  new transaction is mapped to one with an empty transaction (`Spent`).
- **Store consumers.** `NothingForgotten` counts every message that has been read,
  is in no row and not in hand, and so is stronger than the property, which asks only
  for the committed ones: a message may be committed after it was dropped.
  `StrayRowsDue` counts the nil message in hand with the rows.
- **Batch consumer.** `BatchFrontier` says where in the loop the group's offset may lag by
  the message in hand, `Fresh` that the batch holds distinct committed messages, `Exact`
  that the goroutines that ended are those that processed their entry. A run that still
  reads may yet lose a message of its own, so `LossSoFar` grants it the allowance only
  when its reading has ended.
- **Consumer life cycle.** Where the thread is in its loop says how far its
  position is from what it asked to commit: equal outside a batch, apart by the batch
  in one. What is up to the commit is processed (`Done`); what is beyond the reader
  has been processed in earlier starts only (`Frontier`).
- **Reader loops.** As for the store consumers, `LoopNothingForgotten` counts every measure
  that has been fetched, was not written and is not in hand: a step that leaves one
  behind logs an error or is a crash (`LeftBehind`). `FirstOnly`: the offset reader never
  holds another message than the first.
- **Streams.** The records of a prefix of the source have a number of outputs for each
  key; `Kept` says that what was delivered, now and as of the last commit, is at least
  that, and equal while nothing has died. `ClosedIsSaved`: when the hook has closed the
  streams the last commit is the present, so that a restart repeats nothing.

`TypeOK` of `Outbox`, `PartitionStream`, `EmulatedRepository`, `StoreConsumer`,
`ReaderLoop` and `BatchConsumer` is proved and therefore not a property of their runs.

`MessageLoopProofs` and `BatchLoopProofs` prove about two components each, of the same
kind: one is extended, the other an instance over the same state. What two such components
have in common is in `LoopState` and `BatchState`; a specification constrains its own
variables and leaves the other's open.

Only model-checked: all liveness, which are the only properties no theorem states
(`Drained`, `EveryLimitIsReported`, `EveryMessageIsHandled`, `BatchIsProcessed`,
`ShutdownEnds` of both modules, `EveryMessageIsSettled`, `EveryEntryIsSettled`, `LoopGoesOn`): the proof system cannot
take on fairness.

## 6. Not modelled, and the plan

Not modelled:

- Serializers: pure conversions by libraries. A conversion that fails is a failure of
  the handler or loop that calls it.
- The course's starting points: `go/lecture7/consumer/main.go`, which does not compile,
  and the consumers and actors of `java/lecture6` and `java/lecture7`, whose handling of
  a message, an assignment or a revocation is a `FIXME` or `TODO`. What is complete in
  them equals the solution or the consumer of `java/lecture5`.
- Exercise stubs (`go/lecture4`, `java/lecture4`, `go/lecture5/consumer`): HTTP wiring.
- The two repositories of the offset reader: `main.go` has their calls in comments, and
  the columns of their SQL are not those of the migrations. Nothing calls them.
- `Outbox-worker/producer/client.go`: a copy of the worker's client that the producer
  never calls.
- HTTP parsing, logging, configuration, database migrations; a response that cannot be
  written (`lecture3go/producer/main.go:35`), after which the handler only logs.
- Messages that are no JSON in `Balancer` and `PartitionStream`: the loop logs and skips
  them, and no actor sees them.
- Producers with clocks of their own in `Balancer`, whose timestamps follow the broker's
  clock; timestamps that step back are in `PartitionStream`.
- A delivery report that a goroutine has taken and not printed yet when the process ends:
  `PrintReports` is one step.
- More than one partition in `StoreConsumer`, `BatchConsumer`, `ReaderLoop`, `Streams`
  and `ConsumerLifecycle`, whose partitions do not interact.

Every hazard listed in `PROJECT.json` has a property but one: the messages that fall between
a lookup that answers END and its resolution are skipped by their owner, which cannot know
of them. The model records such handovers in `gap`.

Plan: every safety and action property the runs check is a theorem. What is left to
state and prove are facts about the operators that two components share, such as that
the actors of `Balancer` without handovers are those of `PartitionStream`.
