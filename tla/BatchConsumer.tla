---------------------------- MODULE BatchConsumer ----------------------------
(***************************************************************************)
(* examples_go/lecture5/consumer: a program that reads the messages of ten *)
(* seconds into a batch, gives each one to a goroutine of its own, waits   *)
(* for all of them and ends.  Whoever starts it again gets the next batch. *)
(*                                                                         *)
(* ReadBatch calls kafka-go's ReadMessage with a context that the timer    *)
(* cancels.  ReadMessage fetches a message and commits its offset before   *)
(* it returns, and may be cancelled in either half.  Variables and safety  *)
(* properties are in BatchReaderState; batch is a sequence of offsets, pc  *)
(* is main's.                                                              *)
(***************************************************************************)
EXTENDS BatchReaderState

ASSUME BatchAssumption ==
  /\ MaxLog \in Nat
  /\ MaxFaults \in Nat
  /\ MaxRuns \in Nat \ {0}

vars == <<logEnd, committed, fetched, pc, cancelled, batch, running, spawned, processed,
          results, faults, runs>>
readerVars == <<committed, fetched>>
workVars == <<running, spawned, processed>>

TypeOK ==
  /\ logEnd \in 0..MaxLog
  /\ committed \in 0..logEnd
  /\ fetched \in 0..logEnd
  /\ pc \in {"reading", "committing", "spawning", "waiting", "down"}
  /\ cancelled \in BOOLEAN
  /\ batch \in Seq(Offset)
  /\ spawned \in 0..Len(batch)
  /\ running \subseteq 1..spawned
  /\ processed \in [Offset -> Nat]
  /\ results \in Nat
  /\ faults \in 0..MaxFaults
  /\ runs \in 1..MaxRuns

Init ==
  /\ logEnd = 0
  /\ committed = 0 /\ fetched = 0
  /\ pc = "reading" /\ cancelled = FALSE
  /\ batch = <<>> /\ running = {} /\ spawned = 0
  /\ processed = [o \in Offset |-> 0]
  /\ results = 0 /\ faults = 0 /\ runs = 1

Produce ==
  /\ logEnd < MaxLog
  /\ logEnd' = logEnd + 1
  /\ UNCHANGED <<readerVars, pc, cancelled, batch, workVars, results, faults, runs>>

-----------------------------------------------------------------------------
(***************************************************************************)
(* ReadBatch.                                                              *)
(***************************************************************************)
Reading == pc \in {"reading", "committing"}

\* The goroutine that waits for the timeout cancels the context of Read.
TimerFires ==
  /\ Reading /\ ~cancelled
  /\ cancelled' = TRUE
  /\ UNCHANGED <<logEnd, readerVars, pc, batch, workVars, results, faults, runs>>

\* FetchMessage chooses at random when a message is there and the context done.
Fetch ==
  /\ pc = "reading" /\ fetched < logEnd
  /\ fetched' = fetched + 1
  /\ pc' = "committing"
  /\ UNCHANGED <<logEnd, committed, cancelled, batch, workVars, results, faults, runs>>

CommitOffset ==
  /\ pc = "committing"
  /\ committed' = fetched
  /\ batch' = Append(batch, fetched)
  /\ pc' = "reading"
  /\ UNCHANGED <<logEnd, fetched, cancelled, workVars, results, faults, runs>>

\* The batch ends where the error is context.Canceled.
Mutant_TimeoutIsError == "down"
AfterCancel == "spawning"

ReadCancelled ==
  /\ pc = "reading" /\ cancelled
  /\ pc' = AfterCancel
  /\ UNCHANGED <<logEnd, readerVars, cancelled, batch, workVars, results, faults, runs>>

\* Cancelled while it waits for the commit, ReadMessage returns the error and
\* not the message.  The commit may have been sent, then the broker performs it.
CommitCancelled ==
  /\ pc = "committing" /\ cancelled
  /\ committed' \in {committed, fetched}
  /\ pc' = AfterCancel
  /\ UNCHANGED <<logEnd, fetched, cancelled, batch, workVars, results, faults, runs>>

\* Any other error: ReadBatch returns no batch, and main dies of log.Fatal.
ReadFails ==
  /\ Reading
  /\ Fault
  /\ committed' \in {committed} \cup (IF pc = "committing" THEN {fetched} ELSE {})
  /\ pc' = "down"
  /\ UNCHANGED <<logEnd, fetched, cancelled, batch, workVars, results, runs>>

-----------------------------------------------------------------------------
(***************************************************************************)
(* main: a goroutine for every entry, and wg.Wait.                         *)
(***************************************************************************)

\* &result[index]: append may move the slice, but what was appended stays.
Mutant_LoopVariable(i) == batch[spawned]
Argument(i) == batch[i]

Spawn ==
  /\ pc = "spawning" /\ spawned < Len(batch)
  /\ spawned' = spawned + 1
  /\ running' = running \cup {spawned + 1}
  /\ UNCHANGED <<logEnd, readerVars, pc, cancelled, batch, processed, results, faults, runs>>

AllSpawned ==
  /\ pc = "spawning" /\ spawned = Len(batch)
  /\ pc' = "waiting"
  /\ UNCHANGED <<logEnd, readerVars, cancelled, batch, workVars, results, faults, runs>>

ProcessEntry(i) ==
  /\ i \in running
  /\ processed' = [processed EXCEPT ![Argument(i)] = @ + 1]
  /\ running' = running \ {i}
  /\ UNCHANGED <<logEnd, readerVars, pc, cancelled, batch, spawned, results, faults, runs>>

WaitGroupDone == running = {}

\* The result is logged, and the program waits for the Enter key to end.
LogResult ==
  /\ pc = "waiting" /\ WaitGroupDone
  /\ results' = results + 1
  /\ pc' = "down"
  /\ running' = {}
  /\ UNCHANGED <<logEnd, readerVars, cancelled, batch, spawned, processed, faults, runs>>

Kill ==
  /\ pc # "down"
  /\ Fault
  /\ pc' = "down"
  /\ running' = {}
  /\ UNCHANGED <<logEnd, readerVars, cancelled, batch, spawned, processed, results, runs>>

\* The program is run again: a new reader starts at the group's offset.
StartOffset == committed

Run ==
  /\ pc = "down" /\ runs < MaxRuns
  /\ runs' = runs + 1
  /\ fetched' = StartOffset
  /\ pc' = "reading" /\ cancelled' = FALSE
  /\ batch' = <<>> /\ spawned' = 0
  /\ UNCHANGED <<logEnd, committed, running, processed, results, faults>>

MainStep ==
  \/ CommitOffset
  \/ ReadCancelled
  \/ CommitCancelled
  \/ Spawn
  \/ AllSpawned
  \/ LogResult

Next ==
  \/ Produce
  \/ TimerFires
  \/ Fetch
  \/ MainStep
  \/ \E i \in Offset : ProcessEntry(i)
  \/ ReadFails
  \/ Kill
  \/ Run

Spec == Init /\ [][Next]_vars

\* The timer fires, main goes on and goroutines are scheduled.  Fetching needs
\* no fairness: nothing below depends on a message being there.
FairSpec ==
  /\ Spec
  /\ WF_vars(TimerFires)
  /\ WF_vars(MainStep)
  /\ \A i \in Offset : WF_vars(ProcessEntry(i))

-----------------------------------------------------------------------------
(***************************************************************************)
(* Liveness.                                                               *)
(***************************************************************************)

\* Ten seconds end every batch, commits that are never answered included, and
\* unless the program dies of an error its result is logged.
BatchIsProcessed ==
  \A n \in 1..MaxRuns :
    (runs = n /\ pc = "reading") ~> (pc = "down" /\ results + faults >= n)

=============================================================================
