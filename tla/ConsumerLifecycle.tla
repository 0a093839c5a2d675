-------------------------- MODULE ConsumerLifecycle --------------------------
(***************************************************************************)
(* The Java consumer of java/lecture5, an application of java/utils         *)
(* (GracefullyShutdownApplication): a consumer thread that polls a batch,  *)
(* processes it until it succeeds or has failed too often, and commits it  *)
(* asynchronously; and the JVM's shutdown hook, which a signal or the      *)
(* consumer thread's own System.exit starts.  The consumers of lecture6    *)
(* and lecture7 have the same loop without the commit.                     *)
(*                                                                         *)
(* What a batch's processing does is not in the repository: it succeeds or *)
(* throws.  KafkaConsumer is external: wakeup is remembered until a poll   *)
(* throws WakeupException, a poll that has records returns them even then, *)
(* close fails while another thread is inside poll, and a group without an *)
(* offset begins at the end of the log (auto.offset.reset is not set).     *)
(* System.exit does not return, and the JVM halts when the hook has ended, *)
(* whoever still runs.                                                     *)
(*                                                                         *)
(* Of the state in BatchState, committed may be None, pc is the consumer   *)
(* thread, batch is the set of messages of the last poll, and processed    *)
(* counts the batches that succeeded.                                      *)
(***************************************************************************)
EXTENDS BatchState

CONSTANT MaxRetry   \* MAX_MESSAGE_PROCESS_RETRY (600 in the code)

ASSUME LifecycleAssumption ==
  /\ MaxRetry \in Nat
  /\ MaxLog \in Nat
  /\ MaxFaults \in Nat
  /\ MaxRuns \in Nat \ {0}

VARIABLES
  pending,     \* the commit request under way, or None
  position,    \* messages before the consumer's position, None if unassigned
  issued,      \* the last position this process asked to commit, or began at
  failCount,   \* failures of the batch in hand
  exitFlag,    \* TRUE while the loop is to go on, as in the code
  wokenUp,     \* wakeup() was called and no poll has thrown since
  closed,      \* the context has closed the consumer
  stopFlag,    \* of GracefullyShutdownApplication
  hook,        \* the shutdown hook's thread, "none" before a shutdown
  uncaught,    \* an Error has ended the consumer thread
  skipped,     \* messages before the latest start at the end of the log
  rebalances

brokerVars == <<logEnd, committed, pending>>
readVars == <<position, issued, batch, skipped>>
flagVars == <<exitFlag, wokenUp, closed, stopFlag>>
countVars == <<rebalances, faults, runs>>
vars == <<logEnd, committed, pending, position, issued, batch, pc, failCount, exitFlag,
          wokenUp, closed, stopFlag, hook, uncaught, skipped, processed,
          rebalances, faults, runs>>

None == -1
Message == 1..MaxLog

ConsumerSteps ==
  {"new", "while", "poll", "fetching", "process", "sleep", "commit", "exiting", "ended"}
HookSteps == {"none", "started", "clearFlag", "wakeup", "waiting", "closing", "done"}

TypeOK ==
  /\ logEnd \in 0..MaxLog
  /\ committed \in {None} \cup 0..logEnd /\ pending \in {None} \cup 0..logEnd
  /\ position \in {None} \cup 0..logEnd /\ issued \in {None} \cup 0..position
  /\ skipped \in 0..logEnd
  /\ batch \subseteq Message
  /\ pc \in ConsumerSteps \cup {"down"}
  /\ failCount \in 0..(MaxRetry + 1)
  /\ exitFlag \in BOOLEAN /\ wokenUp \in BOOLEAN
  /\ closed \in BOOLEAN /\ stopFlag \in BOOLEAN
  /\ hook \in HookSteps
  /\ uncaught \in BOOLEAN
  /\ processed \in [Message -> Nat]
  /\ rebalances \in 0..faults /\ faults \in 0..MaxFaults
  /\ runs \in 1..MaxRuns

Init ==
  /\ logEnd = 0 /\ committed = None /\ pending = None
  /\ position = None /\ issued = None /\ batch = {} /\ skipped = 0
  /\ pc = "new" /\ failCount = 0
  /\ exitFlag = TRUE /\ wokenUp = FALSE /\ closed = FALSE /\ stopFlag = FALSE
  /\ hook = "none"
  /\ uncaught = FALSE
  /\ processed = [m \in Message |-> 0]
  /\ rebalances = 0 /\ faults = 0 /\ runs = 1

-----------------------------------------------------------------------------
(***************************************************************************)
(* Kafka.                                                                  *)
(***************************************************************************)
Produce ==
  /\ logEnd < MaxLog
  /\ logEnd' = logEnd + 1
  /\ UNCHANGED <<committed, pending, readVars, pc, failCount, flagVars, hook, uncaught,
                 processed, countVars>>

\* The broker performs the commit.
BrokerCommits ==
  /\ pending # None
  /\ committed' = pending
  /\ pending' = None
  /\ UNCHANGED <<logEnd, readVars, pc, failCount, flagVars, hook, uncaught, processed,
                 countVars>>

\* It fails or gets lost; commitAsync does not retry.
CommitLost ==
  /\ pending # None
  /\ Fault
  /\ pending' = None
  /\ UNCHANGED <<logEnd, committed, readVars, pc, failCount, flagVars, hook, uncaught,
                 processed, rebalances, runs>>

-----------------------------------------------------------------------------
(***************************************************************************)
(* The consumer thread: runConsumer.                                       *)
(***************************************************************************)
Goto(step) == pc' = step

\* The caller stays in System.exit while the hook runs.
SystemExit ==
  /\ Goto("exiting")
  /\ hook' = IF hook = "none" THEN "started" ELSE hook

\* ContextRefreshedEvent, published before refresh() has returned.
StartEventCycle ==
  /\ pc = "new"
  /\ Goto("while")
  /\ UNCHANGED <<brokerVars, readVars, failCount, flagVars, hook, uncaught, processed,
                 countVars>>

\* The test of exitFlag; a loop that is left unsubscribes and the thread ends.
TestExitFlag ==
  /\ pc = "while"
  /\ Goto(IF exitFlag THEN "poll" ELSE "ended")
  /\ UNCHANGED <<brokerVars, readVars, failCount, flagVars, hook, uncaught, processed,
                 countVars>>

PollBegins ==
  /\ pc = "poll" /\ ~wokenUp /\ ~closed
  /\ Goto("fetching")
  /\ UNCHANGED <<brokerVars, readVars, failCount, flagVars, hook, uncaught, processed,
                 countVars>>

\* WakeupException ends the thread.
PollIsWokenUp ==
  /\ pc \in {"poll", "fetching"} /\ wokenUp /\ ~closed
  /\ wokenUp' = FALSE
  /\ Goto("ended")
  /\ UNCHANGED <<brokerVars, readVars, failCount, exitFlag, closed, stopFlag, hook,
                 uncaught, processed, countVars>>

\* Inside poll the partition is assigned and its offset looked up.  (Polls that
\* return before that have nothing to process or commit.)
Start == IF committed = None THEN logEnd ELSE committed

FindPosition ==
  /\ pc = "fetching" /\ position = None
  /\ position' = Start /\ issued' = Start
  /\ skipped' = IF committed = None THEN logEnd ELSE skipped
  /\ UNCHANGED <<brokerVars, batch, pc, failCount, flagVars, hook, uncaught, processed,
                 countVars>>

\* The records there are, or none after the timeout.
PollReturns ==
  /\ pc = "fetching" /\ position # None
  /\ \E n \in position..logEnd :
       /\ n > position \/ position = logEnd
       /\ batch' = (position + 1)..n
       /\ position' = n
  /\ failCount' = 0
  /\ Goto("process")
  /\ UNCHANGED <<brokerVars, issued, skipped, flagVars, hook, uncaught, processed,
                 countVars>>

\* Inside poll the group rebalances, the consumer loses the partition and gets it
\* again.  A commit of the old generation is refused.
Rebalance ==
  /\ pc = "fetching" /\ position # None
  /\ Fault
  /\ rebalances' = rebalances + 1
  /\ position' = None /\ issued' = None
  /\ pending' = None
  /\ UNCHANGED <<logEnd, committed, batch, skipped, pc, failCount, flagVars, hook,
                 uncaught, processed, runs>>

\* poll or commitAsync throws: the application exits.
Mutant_LogOnly == Goto("ended") /\ UNCHANGED hook
OnKafkaError == SystemExit

PollFails ==
  /\ pc \in {"poll", "fetching", "commit"}
  /\ Fault
  /\ OnKafkaError
  /\ UNCHANGED <<brokerVars, readVars, failCount, flagVars, uncaught, processed,
                 rebalances, runs>>

\* The hook has closed the consumer under the thread: IllegalStateException.
ConsumerIsClosed ==
  /\ pc \in {"poll", "commit"} /\ closed
  /\ OnKafkaError
  /\ UNCHANGED <<brokerVars, readVars, failCount, flagVars, uncaught, processed,
                 countVars>>

\* messageProcessingNotFinished = false.
Mutant_StillNotFinished == "process"
Mutant_LeaveAtOnce == IF exitFlag THEN "commit" ELSE "ended"
AfterSuccess == "commit"

ProcessMessages ==
  /\ pc = "process"
  /\ processed' = [m \in Message |-> IF m \in batch THEN processed[m] + 1 ELSE processed[m]]
  /\ Goto(AfterSuccess)
  /\ UNCHANGED <<brokerVars, readVars, failCount, flagVars, hook, uncaught, countVars>>

Mutant_NotCounted == failCount
CountFailure == failCount + 1

Mutant_OneTooMany(n) == n > MaxRetry + 1
TooOften(n) == n > MaxRetry

\* After the sleep the loop's condition sends the batch through again.
Mutant_GoOn == "commit"
AfterSleep == "process"

ProcessingThrows ==
  /\ pc = "process"
  /\ failCount' = CountFailure
  /\ IF TooOften(failCount') THEN SystemExit ELSE Goto("sleep") /\ UNCHANGED hook
  /\ UNCHANGED <<brokerVars, readVars, flagVars, uncaught, processed, countVars>>

SleepEnds ==
  /\ pc = "sleep"
  /\ Goto(AfterSleep)
  /\ UNCHANGED <<brokerVars, readVars, failCount, flagVars, hook, uncaught, processed,
                 countVars>>

\* An Error is no Exception: nothing catches it and the thread ends.
ProcessingDies ==
  /\ pc = "process"
  /\ Fault
  /\ uncaught' = TRUE
  /\ Goto("ended")
  /\ UNCHANGED <<brokerVars, readVars, failCount, flagVars, hook, processed, rebalances,
                 runs>>

CommitAsync ==
  /\ pc = "commit" /\ ~closed
  /\ pending' = position /\ issued' = position
  /\ Goto("while")
  /\ UNCHANGED <<logEnd, committed, position, batch, skipped, failCount, flagVars, hook,
                 uncaught, processed, countVars>>

-----------------------------------------------------------------------------
(***************************************************************************)
(* The application: refresh, gracefullyShutdown, and the JVM around it.    *)
(***************************************************************************)

\* The end of refresh().
Refreshed ==
  /\ pc \notin {"new", "down"} /\ hook = "none" /\ ~stopFlag
  /\ stopFlag' = TRUE
  /\ UNCHANGED <<brokerVars, readVars, pc, failCount, exitFlag, wokenUp, closed, hook,
                 uncaught, processed, countVars>>

Signal ==
  /\ pc # "down" /\ hook = "none"
  /\ hook' = "started"
  /\ UNCHANGED <<brokerVars, readVars, pc, failCount, flagVars, uncaught, processed,
                 countVars>>

\* compareAndSet: before refresh() has ended there is nothing to stop.
HookBegins ==
  /\ hook = "started"
  /\ hook' = IF stopFlag THEN "clearFlag" ELSE "done"
  /\ stopFlag' = FALSE
  /\ UNCHANGED <<brokerVars, readVars, pc, failCount, exitFlag, wokenUp, closed, uncaught,
                 processed, countVars>>

\* The two statements of gracefullyShutdownStart.
ClearExitFlag ==
  /\ hook = "clearFlag"
  /\ exitFlag' = FALSE
  /\ hook' = "wakeup"
  /\ UNCHANGED <<brokerVars, readVars, pc, failCount, wokenUp, closed, stopFlag, uncaught,
                 processed, countVars>>

Wakeup ==
  /\ hook = "wakeup"
  /\ wokenUp' = TRUE
  /\ hook' = "waiting"
  /\ UNCHANGED <<brokerVars, readVars, pc, failCount, exitFlag, closed, stopFlag, uncaught,
                 processed, countVars>>

\* Five seconds pass, whatever the consumer thread does.
Mutant_Join == pc = "ended"
PreShutdownOver == TRUE

WaitEnds ==
  /\ hook = "waiting" /\ PreShutdownOver
  /\ hook' = "closing"
  /\ UNCHANGED <<brokerVars, readVars, pc, failCount, flagVars, uncaught, processed,
                 countVars>>

\* gracefullyShutdownFinish ends the worker threads, the context closes the
\* consumer, unless the consumer thread is using it.
CloseContext ==
  /\ hook = "closing"
  /\ closed' = (pc # "fetching")
  /\ hook' = "done"
  /\ UNCHANGED <<brokerVars, readVars, pc, failCount, exitFlag, wokenUp, stopFlag,
                 uncaught, processed, countVars>>

\* The hook has ended, or the process is killed: every thread is gone.
Halt ==
  /\ pc # "down"
  /\ \/ hook = "done" /\ UNCHANGED faults
     \/ Fault
  /\ Goto("down")
  /\ hook' = "none"
  /\ UNCHANGED <<brokerVars, readVars, failCount, flagVars, uncaught, processed,
                 rebalances, runs>>

\* The application is run again.
Run ==
  /\ pc = "down" /\ runs < MaxRuns
  /\ runs' = runs + 1
  /\ Goto("new")
  /\ position' = None /\ issued' = None /\ batch' = {} /\ failCount' = 0
  /\ pending' = None
  /\ exitFlag' = TRUE /\ wokenUp' = FALSE /\ closed' = FALSE /\ stopFlag' = FALSE
  /\ uncaught' = FALSE
  /\ UNCHANGED <<logEnd, committed, skipped, hook, processed, rebalances, faults>>

ConsumerStep ==
  \/ StartEventCycle
  \/ TestExitFlag
  \/ PollBegins
  \/ PollIsWokenUp
  \/ FindPosition
  \/ PollReturns
  \/ ConsumerIsClosed
  \/ ProcessMessages
  \/ ProcessingThrows
  \/ SleepEnds
  \/ CommitAsync

HookStep ==
  \/ HookBegins
  \/ ClearExitFlag
  \/ Wakeup
  \/ WaitEnds
  \/ CloseContext

Next ==
  \/ Produce
  \/ BrokerCommits
  \/ CommitLost
  \/ ConsumerStep
  \/ Rebalance
  \/ PollFails
  \/ ProcessingDies
  \/ Refreshed
  \/ Signal
  \/ HookStep
  \/ Halt
  \/ Run

Spec == Init /\ [][Next]_vars

\* Threads are scheduled, sleeps and polls end, and a JVM whose hook has ended
\* halts.  Processing may throw every time, and nothing makes a signal come.
FairSpec ==
  /\ Spec
  /\ WF_vars(ConsumerStep)
  /\ WF_vars(HookStep)
  /\ WF_vars(hook = "done" /\ Halt)

-----------------------------------------------------------------------------
(***************************************************************************)
(* Properties.                                                             *)
(***************************************************************************)

\* At least once: whatever throws, is retried, woken up, closed, killed or run
\* again, no message is committed that has not been processed, except for those
\* before a start at the end of the log, when the group had no offset.
CommittedIsProcessed ==
  \A m \in Message : m <= committed => processed[m] > 0 \/ m <= skipped

\* A message is processed again only from the committed offset, by a new process
\* or after a rebalance: retries process nothing twice.
RedeliveryIsBounded == \A m \in Message : processed[m] <= runs + rebalances

\* A consumer thread that ends by itself leaves nothing in hand: everything it
\* has read was processed and a commit of it was sent.
GracefulStopCommits == pc = "ended" /\ ~uncaught => issued = position

\* No application that is up and has no consumer thread: the thread ends only
\* in a shutdown, or by an Error.
ConsumerLivesWhileUp == pc = "ended" => hook # "none" \/ uncaught

\* A shutdown ends, the one included that the consumer thread itself began and
\* waits for.
ShutdownEnds == hook # "none" ~> pc = "down"

\* Failures are retried or end the application: no message waits for ever on a
\* consumer that keeps failing.
EveryMessageIsSettled ==
  \A m \in Message :
    m <= logEnd ~> (processed[m] > 0 \/ m <= skipped \/ pc \in {"exiting", "ended", "down"})

=============================================================================
