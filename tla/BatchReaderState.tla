-------------------------- MODULE BatchReaderState --------------------------
(***************************************************************************)
(* What the program of BatchConsumer keeps and what it promises.  Its      *)
(* actions are in BatchConsumer.                                           *)
(***************************************************************************)
EXTENDS BatchState, FiniteSets, Sequences

VARIABLES
  fetched,    \* offset of the next message the reader returns
  cancelled,  \* the timer has cancelled the context
  running,    \* indices of the batch whose goroutine has not finished
  spawned,    \* goroutines started
  results     \* batches whose result was logged

Offset == 1..MaxLog   \* message o is the o-th of the log

-----------------------------------------------------------------------------
(***************************************************************************)
(* Properties.                                                             *)
(***************************************************************************)

InBatch(o) == \E i \in 1..Len(batch) : batch[i] = o

\* Messages no run will see again, processed by none and in no batch at work.
Lost ==
  {o \in Offset : o <= committed /\ processed[o] = 0
                  /\ ~(InBatch(o) /\ pc # "down") /\ ~(o = fetched /\ pc = "committing")}

\* As long as nothing fails, a run loses one message at most: the one whose
\* commit the timer interrupted.
OneLossPerRun == faults = 0 => Cardinality(Lost) <= runs

\* A result is logged only when every entry of its batch has been processed.
ResultIsComplete ==
  [][results' > results => \A i \in 1..Len(batch) : processed[batch[i]] = 1]_results

=============================================================================
