-------------------------- MODULE BatchLoopProofs --------------------------
(***************************************************************************)
(* Proofs about ConsumerLifecycle and BatchConsumer, the consumers that    *)
(* read a batch before they act on it, for any number of messages,         *)
(* retries, failures and runs.                                             *)
(*                                                                         *)
(* ConsumerLifecycle: the thread's place in its loop says how position and *)
(* issued, the last offset it asked to commit, lie to each other: equal    *)
(* outside of a batch, and apart by the batch inside of one (BatchInHand,  *)
(* NothingInHand).  With that, everything up to issued, and to position    *)
(* once the batch is processed, has been processed (Done), and nothing     *)
(* beyond has been in this start of the reader (Frontier).                 *)
(*                                                                         *)
(* BatchConsumer, as Batch: the reader is never more than one message      *)
(* beyond the group's offset (BatchFrontier), so a batch holds messages    *)
(* that nobody has processed before, in ascending order (Fresh), and each  *)
(* is processed once, by its own goroutine (Exact).  The bound on losses   *)
(* is not inductive because a run may still lose a message of its own:     *)
(* LossSoFar grants the allowance of a run only when its reading has       *)
(* ended.                                                                  *)
(***************************************************************************)
EXTENDS ConsumerLifecycle, BatchReaderState, FiniteSetTheorems, TLAPS

Batch == INSTANCE BatchConsumer

HoldsBatch == pc \in {"process", "sleep"}

BatchInHand ==
  /\ HoldsBatch => /\ position # None /\ issued # None
                /\ batch = (issued + 1)..position
                /\ failCount <= MaxRetry
  /\ pc = "commit" => position # None

NothingInHand ==
  /\ pc \in {"new", "while", "poll", "fetching"} => issued = position
  /\ pc = "ended" /\ ~uncaught => issued = position
  /\ pc = "new" => position = None

TypeInv == TypeOK /\ BatchInHand /\ NothingInHand

-----------------------------------------------------------------------------
(***************************************************************************)
(* Types, and what is in hand.                                             *)
(***************************************************************************)

\* The initial state is well typed, with nothing in hand.
LEMMA InitTyped == Init => TypeInv
<1>1. Init => /\ exitFlag \in BOOLEAN /\ wokenUp \in BOOLEAN
              /\ closed \in BOOLEAN /\ stopFlag \in BOOLEAN /\ uncaught \in BOOLEAN
  BY Zenon DEF Init
<1>. QED
  BY <1>1, LifecycleAssumption DEF Init, TypeInv, TypeOK, BatchInHand, NothingInHand, HoldsBatch,
     None, Message, ConsumerSteps, HookSteps

\* The flags stay Boolean.
FlagsTyped ==
  /\ exitFlag \in BOOLEAN /\ wokenUp \in BOOLEAN
  /\ closed \in BOOLEAN /\ stopFlag \in BOOLEAN /\ uncaught \in BOOLEAN

\* No step of either thread takes a flag out of BOOLEAN.
LEMMA NextFlags == FlagsTyped /\ [Next]_vars => FlagsTyped'
<1>. SUFFICES ASSUME FlagsTyped, [Next]_vars
              PROVE  FlagsTyped'
  OBVIOUS
<1>. USE DEF FlagsTyped, flagVars
<1>1. CASE Produce
  BY <1>1 DEF Produce
<1>2. CASE BrokerCommits
  BY <1>2 DEF BrokerCommits
<1>3. CASE CommitLost
  BY <1>3 DEF CommitLost, Fault
<1>4. CASE StartEventCycle
  BY <1>4 DEF StartEventCycle, Goto
<1>5. CASE TestExitFlag
  BY <1>5 DEF TestExitFlag, Goto
<1>6. CASE PollBegins
  BY <1>6 DEF PollBegins, Goto
<1>7. CASE PollIsWokenUp
  BY <1>7, Zenon DEF PollIsWokenUp
<1>8. CASE FindPosition
  BY <1>8 DEF FindPosition, Start
<1>9. CASE PollReturns
  BY <1>9 DEF PollReturns, Goto
<1>10. CASE ConsumerIsClosed
  BY <1>10 DEF ConsumerIsClosed, Goto, OnKafkaError, SystemExit
<1>11. CASE ProcessMessages
  BY <1>11 DEF ProcessMessages, Goto, AfterSuccess
<1>12. CASE ProcessingThrows
  BY <1>12 DEF ProcessingThrows, Goto, CountFailure, TooOften, SystemExit
<1>13. CASE SleepEnds
  BY <1>13 DEF SleepEnds, Goto, AfterSleep
<1>14. CASE CommitAsync
  BY <1>14 DEF CommitAsync, Goto
<1>15. CASE Rebalance
  BY <1>15 DEF Rebalance, Fault
<1>16. CASE PollFails
  BY <1>16 DEF PollFails, Fault, Goto, OnKafkaError, SystemExit
<1>17. CASE ProcessingDies
  BY <1>17, Zenon DEF ProcessingDies
<1>18. CASE Refreshed
  BY <1>18, Zenon DEF Refreshed
<1>19. CASE Signal
  BY <1>19 DEF Signal
<1>20. CASE HookBegins
  BY <1>20, Zenon DEF HookBegins
<1>21. CASE ClearExitFlag
  BY <1>21, Zenon DEF ClearExitFlag
<1>22. CASE Wakeup
  BY <1>22, Zenon DEF Wakeup
<1>23. CASE WaitEnds
  BY <1>23 DEF WaitEnds, PreShutdownOver
<1>24. CASE CloseContext
  <2>1. (pc # "fetching") \in BOOLEAN
    OBVIOUS
  <2>. QED
    BY <1>24, <2>1, Zenon DEF CloseContext
<1>25. CASE Halt
  BY <1>25 DEF Halt, Fault, Goto
<1>26. CASE Run
  BY <1>26, Zenon DEF Run
<1>27. CASE UNCHANGED vars
  BY <1>27 DEF vars
<1>. QED
  BY <1>1, <1>2, <1>3, <1>4, <1>5, <1>6, <1>7, <1>8, <1>9, <1>10, <1>11, <1>12, <1>13,
     <1>14, <1>15, <1>16, <1>17, <1>18, <1>19, <1>20, <1>21, <1>22, <1>23, <1>24, <1>25,
     <1>26, <1>27 DEF Next, ConsumerStep, HookStep

\* Every step keeps the types, and the batch in hand between issued and position.
LEMMA NextTyped == TypeInv /\ [Next]_vars => TypeInv'
<1>. SUFFICES ASSUME TypeInv, [Next]_vars
              PROVE  TypeInv'
  OBVIOUS
<1>0. FlagsTyped'
  BY NextFlags DEF TypeInv, TypeOK, FlagsTyped
<1>. USE <1>0, LifecycleAssumption DEF FlagsTyped, TypeInv, TypeOK, BatchInHand, NothingInHand,
     HoldsBatch, None, Message, ConsumerSteps, HookSteps, brokerVars, readVars, flagVars, countVars
<1>1. CASE Produce
  BY <1>1 DEF Produce
<1>2. CASE BrokerCommits
  BY <1>2 DEF BrokerCommits
<1>3. CASE CommitLost
  BY <1>3 DEF CommitLost, Fault
<1>4. CASE StartEventCycle
  BY <1>4 DEF StartEventCycle, Goto
<1>5. CASE TestExitFlag
  BY <1>5 DEF TestExitFlag, Goto
<1>6. CASE PollBegins
  BY <1>6 DEF PollBegins, Goto
<1>7. CASE PollIsWokenUp
  BY <1>7 DEF PollIsWokenUp, Goto
<1>8. CASE FindPosition
  BY <1>8 DEF FindPosition, Start
<1>9. CASE PollReturns
  BY <1>9 DEF PollReturns, Goto
<1>10. CASE ConsumerIsClosed
  BY <1>10 DEF ConsumerIsClosed, Goto, OnKafkaError, SystemExit
<1>11. CASE ProcessMessages
  BY <1>11 DEF ProcessMessages, Goto, AfterSuccess
<1>12. CASE ProcessingThrows
  BY <1>12 DEF ProcessingThrows, Goto, CountFailure, TooOften, SystemExit
<1>13. CASE SleepEnds
  BY <1>13 DEF SleepEnds, Goto, AfterSleep
<1>14. CASE CommitAsync
  BY <1>14 DEF CommitAsync, Goto
<1>15. CASE Rebalance
  BY <1>15 DEF Rebalance, Fault
<1>16. CASE PollFails
  BY <1>16 DEF PollFails, Fault, Goto, OnKafkaError, SystemExit
<1>17. CASE ProcessingDies
  BY <1>17 DEF ProcessingDies, Fault, Goto
<1>18. CASE Refreshed
  BY <1>18 DEF Refreshed
<1>19. CASE Signal
  BY <1>19 DEF Signal
<1>20. CASE HookBegins
  BY <1>20 DEF HookBegins
<1>21. CASE ClearExitFlag
  BY <1>21 DEF ClearExitFlag
<1>22. CASE Wakeup
  BY <1>22 DEF Wakeup
<1>23. CASE WaitEnds
  BY <1>23 DEF WaitEnds, PreShutdownOver
<1>24. CASE CloseContext
  BY <1>24 DEF CloseContext
<1>25. CASE Halt
  BY <1>25 DEF Halt, Fault, Goto
<1>26. CASE Run
  BY <1>26 DEF Run, Goto
<1>27. CASE UNCHANGED vars
  BY <1>27 DEF vars
<1>. QED
  BY <1>1, <1>2, <1>3, <1>4, <1>5, <1>6, <1>7, <1>8, <1>9, <1>10, <1>11, <1>12, <1>13,
     <1>14, <1>15, <1>16, <1>17, <1>18, <1>19, <1>20, <1>21, <1>22, <1>23, <1>24, <1>25,
     <1>26, <1>27 DEF Next, ConsumerStep, HookStep

\* Every state of the consumer, of its hook and of the broker has the right
\* types, for any number of retries, failures and runs.
THEOREM TypeCorrect == Spec => []TypeOK
<1>1. TypeInv => TypeOK
  BY DEF TypeInv
<1>. QED
  BY InitTyped, NextTyped, <1>1, PTL DEF Spec

\* A consumer thread that ends by itself has sent a commit of all it has read,
\* wherever in its loop the shutdown has reached it.
THEOREM GracefulStop == Spec => []GracefulStopCommits
<1>1. TypeInv => GracefulStopCommits
  BY DEF TypeInv, NothingInHand, GracefulStopCommits
<1>. QED
  BY InitTyped, NextTyped, <1>1, PTL DEF Spec

-----------------------------------------------------------------------------
(***************************************************************************)
(* At least once.                                                          *)
(***************************************************************************)
Settled(m) == processed[m] > 0 \/ m <= skipped

Done ==
  \A m \in Message :
    /\ m <= committed => Settled(m)
    /\ m <= pending => Settled(m)
    /\ m <= issued => Settled(m)
    /\ pc = "commit" /\ m <= position => Settled(m)

\* Offsets are committed in the order broker, request, issued, position, each
\* one only when everything before it is settled.
LEMMA NextDone == TypeInv /\ Done /\ [Next]_vars => Done'
<1>. SUFFICES ASSUME TypeInv, Done, [Next]_vars
              PROVE  Done'
  OBVIOUS
<1>. USE LifecycleAssumption DEF Done, Settled, TypeInv, TypeOK, BatchInHand, NothingInHand,
     HoldsBatch, None, Message, brokerVars, readVars, flagVars, countVars
<1>1. CASE Produce
  BY <1>1 DEF Produce
<1>2. CASE BrokerCommits
  BY <1>2 DEF BrokerCommits
<1>3. CASE CommitLost
  BY <1>3 DEF CommitLost, Fault
<1>4. CASE StartEventCycle
  BY <1>4 DEF StartEventCycle, Goto
<1>5. CASE TestExitFlag
  BY <1>5 DEF TestExitFlag, Goto
<1>6. CASE PollBegins
  BY <1>6 DEF PollBegins, Goto
<1>7. CASE PollIsWokenUp
  BY <1>7 DEF PollIsWokenUp, Goto
<1>8. CASE FindPosition
  BY <1>8 DEF FindPosition, Start
<1>9. CASE PollReturns
  BY <1>9 DEF PollReturns, Goto
<1>10. CASE ConsumerIsClosed
  BY <1>10 DEF ConsumerIsClosed, Goto, OnKafkaError, SystemExit
<1>11. CASE ProcessMessages
  BY <1>11 DEF ProcessMessages, Goto, AfterSuccess
<1>12. CASE ProcessingThrows
  BY <1>12 DEF ProcessingThrows, Goto, CountFailure, TooOften, SystemExit
<1>13. CASE SleepEnds
  BY <1>13 DEF SleepEnds, Goto, AfterSleep
<1>14. CASE CommitAsync
  BY <1>14 DEF CommitAsync, Goto
<1>15. CASE Rebalance
  BY <1>15 DEF Rebalance, Fault
<1>16. CASE PollFails
  BY <1>16 DEF PollFails, Fault, Goto, OnKafkaError, SystemExit
<1>17. CASE ProcessingDies
  BY <1>17 DEF ProcessingDies, Fault, Goto
<1>18. CASE Refreshed
  BY <1>18 DEF Refreshed
<1>19. CASE Signal
  BY <1>19 DEF Signal
<1>20. CASE HookBegins
  BY <1>20 DEF HookBegins
<1>21. CASE ClearExitFlag
  BY <1>21 DEF ClearExitFlag
<1>22. CASE Wakeup
  BY <1>22 DEF Wakeup
<1>23. CASE WaitEnds
  BY <1>23 DEF WaitEnds, PreShutdownOver
<1>24. CASE CloseContext
  BY <1>24 DEF CloseContext
<1>25. CASE Halt
  BY <1>25 DEF Halt, Fault, Goto
<1>26. CASE Run
  BY <1>26 DEF Run, Goto
<1>27. CASE UNCHANGED vars
  BY <1>27 DEF vars
<1>. QED
  BY <1>1, <1>2, <1>3, <1>4, <1>5, <1>6, <1>7, <1>8, <1>9, <1>10, <1>11, <1>12, <1>13,
     <1>14, <1>15, <1>16, <1>17, <1>18, <1>19, <1>20, <1>21, <1>22, <1>23, <1>24, <1>25,
     <1>26, <1>27 DEF Next, ConsumerStep, HookStep

\* No message is committed before it has been processed, whatever was retried,
\* woken up, closed, rebalanced, killed or run again.
THEOREM AtLeastOnce == Spec => []CommittedIsProcessed
<1>1. Init => Done
  BY DEF Init, Done, Settled, None, Message
<1>2. Done => CommittedIsProcessed
  BY DEF Done, Settled, CommittedIsProcessed
<1>. QED
  BY InitTyped, NextTyped, NextDone, <1>1, <1>2, PTL DEF Spec

-----------------------------------------------------------------------------
(***************************************************************************)
(* Redelivery.  A start is a run or a return from a rebalance.             *)
(***************************************************************************)
Starts == runs + rebalances
Reached == IF HoldsBatch THEN issued ELSE position

Frontier ==
  \A m \in Message :
    /\ processed[m] <= Starts
    /\ m > Reached => processed[m] < Starts

\* A start of the reader processes each message once, in the order of offsets.
LEMMA NextFrontier == TypeInv /\ Frontier /\ [Next]_vars => Frontier'
<1>. SUFFICES ASSUME TypeInv, Frontier, [Next]_vars
              PROVE  Frontier'
  OBVIOUS
<1>. USE LifecycleAssumption DEF Frontier, Starts, Reached, TypeInv, TypeOK, BatchInHand,
     NothingInHand, HoldsBatch, None, Message, brokerVars, readVars, flagVars, countVars
<1>1. CASE Produce
  BY <1>1 DEF Produce
<1>2. CASE BrokerCommits
  BY <1>2 DEF BrokerCommits
<1>3. CASE CommitLost
  BY <1>3 DEF CommitLost, Fault
<1>4. CASE StartEventCycle
  BY <1>4 DEF StartEventCycle, Goto
<1>5. CASE TestExitFlag
  BY <1>5 DEF TestExitFlag, Goto
<1>6. CASE PollBegins
  BY <1>6 DEF PollBegins, Goto
<1>7. CASE PollIsWokenUp
  BY <1>7 DEF PollIsWokenUp, Goto
<1>8. CASE FindPosition
  BY <1>8 DEF FindPosition, Start
<1>9. CASE PollReturns
  BY <1>9 DEF PollReturns, Goto
<1>10. CASE ConsumerIsClosed
  BY <1>10 DEF ConsumerIsClosed, Goto, OnKafkaError, SystemExit
<1>11. CASE ProcessMessages
  BY <1>11 DEF ProcessMessages, Goto, AfterSuccess
<1>12. CASE ProcessingThrows
  BY <1>12 DEF ProcessingThrows, Goto, CountFailure, TooOften, SystemExit
<1>13. CASE SleepEnds
  BY <1>13 DEF SleepEnds, Goto, AfterSleep
<1>14. CASE CommitAsync
  BY <1>14 DEF CommitAsync, Goto
<1>15. CASE Rebalance
  BY <1>15 DEF Rebalance, Fault
<1>16. CASE PollFails
  BY <1>16 DEF PollFails, Fault, Goto, OnKafkaError, SystemExit
<1>17. CASE ProcessingDies
  BY <1>17 DEF ProcessingDies, Fault, Goto
<1>18. CASE Refreshed
  BY <1>18 DEF Refreshed
<1>19. CASE Signal
  BY <1>19 DEF Signal
<1>20. CASE HookBegins
  BY <1>20 DEF HookBegins
<1>21. CASE ClearExitFlag
  BY <1>21 DEF ClearExitFlag
<1>22. CASE Wakeup
  BY <1>22 DEF Wakeup
<1>23. CASE WaitEnds
  BY <1>23 DEF WaitEnds, PreShutdownOver
<1>24. CASE CloseContext
  BY <1>24 DEF CloseContext
<1>25. CASE Halt
  BY <1>25 DEF Halt, Fault, Goto
<1>26. CASE Run
  BY <1>26 DEF Run, Goto
<1>27. CASE UNCHANGED vars
  BY <1>27 DEF vars
<1>. QED
  BY <1>1, <1>2, <1>3, <1>4, <1>5, <1>6, <1>7, <1>8, <1>9, <1>10, <1>11, <1>12, <1>13,
     <1>14, <1>15, <1>16, <1>17, <1>18, <1>19, <1>20, <1>21, <1>22, <1>23, <1>24, <1>25,
     <1>26, <1>27 DEF Next, ConsumerStep, HookStep

\* A message is processed at most once per run and per rebalance: retries and
\* shutdowns add nothing.
THEOREM BoundedRedelivery == Spec => []RedeliveryIsBounded
<1>1. Init => Frontier
  BY LifecycleAssumption DEF Init, Frontier, Starts, Reached, HoldsBatch, None, Message
<1>2. Frontier => RedeliveryIsBounded
  BY DEF Frontier, Starts, RedeliveryIsBounded
<1>. QED
  BY InitTyped, NextTyped, NextFrontier, <1>1, <1>2, PTL DEF Spec

-----------------------------------------------------------------------------
(***************************************************************************)
(* No application without its consumer.                                    *)
(***************************************************************************)
OnlyHookStops ==
  /\ pc # "down" /\ (~exitFlag \/ wokenUp) => hook # "none"
  /\ pc = "exiting" => hook # "none"

\* The loop is left only after the hook has cleared the flag or woken it up.
LEMMA NextStops ==
  TypeInv /\ OnlyHookStops /\ ConsumerLivesWhileUp /\ [Next]_vars
    => OnlyHookStops' /\ ConsumerLivesWhileUp'
<1>. SUFFICES ASSUME TypeInv, OnlyHookStops, ConsumerLivesWhileUp, [Next]_vars
              PROVE  OnlyHookStops' /\ ConsumerLivesWhileUp'
  OBVIOUS
<1>. USE DEF OnlyHookStops, ConsumerLivesWhileUp, TypeInv, TypeOK, ConsumerSteps, HookSteps,
     brokerVars, readVars, flagVars, countVars
<1>1. CASE Produce
  BY <1>1 DEF Produce
<1>2. CASE BrokerCommits
  BY <1>2 DEF BrokerCommits
<1>3. CASE CommitLost
  BY <1>3 DEF CommitLost, Fault
<1>4. CASE StartEventCycle
  BY <1>4 DEF StartEventCycle, Goto
<1>5. CASE TestExitFlag
  BY <1>5 DEF TestExitFlag, Goto
<1>6. CASE PollBegins
  BY <1>6 DEF PollBegins, Goto
<1>7. CASE PollIsWokenUp
  BY <1>7 DEF PollIsWokenUp, Goto
<1>8. CASE FindPosition
  BY <1>8 DEF FindPosition, Start
<1>9. CASE PollReturns
  BY <1>9 DEF PollReturns, Goto
<1>10. CASE ConsumerIsClosed
  BY <1>10 DEF ConsumerIsClosed, Goto, OnKafkaError, SystemExit
<1>11. CASE ProcessMessages
  BY <1>11 DEF ProcessMessages, Goto, AfterSuccess
<1>12. CASE ProcessingThrows
  BY <1>12 DEF ProcessingThrows, Goto, CountFailure, TooOften, SystemExit
<1>13. CASE SleepEnds
  BY <1>13 DEF SleepEnds, Goto, AfterSleep
<1>14. CASE CommitAsync
  BY <1>14 DEF CommitAsync, Goto
<1>15. CASE Rebalance
  BY <1>15 DEF Rebalance, Fault
<1>16. CASE PollFails
  BY <1>16 DEF PollFails, Fault, Goto, OnKafkaError, SystemExit
<1>17. CASE ProcessingDies
  BY <1>17 DEF ProcessingDies, Fault, Goto
<1>18. CASE Refreshed
  BY <1>18 DEF Refreshed
<1>19. CASE Signal
  BY <1>19 DEF Signal
<1>20. CASE HookBegins
  BY <1>20 DEF HookBegins
<1>21. CASE ClearExitFlag
  BY <1>21 DEF ClearExitFlag
<1>22. CASE Wakeup
  BY <1>22 DEF Wakeup
<1>23. CASE WaitEnds
  BY <1>23 DEF WaitEnds, PreShutdownOver
<1>24. CASE CloseContext
  BY <1>24 DEF CloseContext
<1>25. CASE Halt
  BY <1>25 DEF Halt, Fault, Goto
<1>26. CASE Run
  BY <1>26 DEF Run, Goto
<1>27. CASE UNCHANGED vars
  BY <1>27 DEF vars
<1>. QED
  BY <1>1, <1>2, <1>3, <1>4, <1>5, <1>6, <1>7, <1>8, <1>9, <1>10, <1>11, <1>12, <1>13,
     <1>14, <1>15, <1>16, <1>17, <1>18, <1>19, <1>20, <1>21, <1>22, <1>23, <1>24, <1>25,
     <1>26, <1>27 DEF Next, ConsumerStep, HookStep

\* As long as the application is up its consumer thread lives, unless an Error
\* has ended it.
THEOREM ConsumerLives == Spec => []ConsumerLivesWhileUp
<1>1. Init => OnlyHookStops /\ ConsumerLivesWhileUp
  BY DEF Init, OnlyHookStops, ConsumerLivesWhileUp
<1>. QED
  BY InitTyped, NextTyped, NextStops, <1>1, PTL DEF Spec

-----------------------------------------------------------------------------
(***************************************************************************)
(* BatchConsumer: the invariants.                                          *)
(***************************************************************************)
BatchFrontier ==
  /\ pc = "reading" => fetched = committed
  /\ pc = "committing" => fetched = committed + 1
  /\ pc \in {"reading", "committing"} => spawned = 0
  /\ pc \in {"reading", "committing", "down"} => running = {}
  /\ pc = "waiting" => spawned = Len(batch)

Fresh ==
  /\ \A i \in 1..Len(batch) : batch[i] <= committed
  /\ \A i, j \in 1..Len(batch) : i < j => batch[i] < batch[j]
  /\ \A o \in Batch!Offset : processed[o] > 0 => o <= committed

\* The goroutines that have finished are those that have processed their entry.
Exact ==
  pc # "down" =>
    \A i \in 1..Len(batch) :
      processed[batch[i]] = IF i <= spawned /\ i \notin running THEN 1 ELSE 0

BatchInv == Batch!TypeOK /\ BatchFrontier /\ Fresh /\ Exact

-----------------------------------------------------------------------------
\* The first run has read nothing.
LEMMA BatchInitInv == Batch!Init => BatchInv
<1>. SUFFICES ASSUME Batch!Init PROVE BatchInv
  OBVIOUS
<1>1. cancelled \in BOOLEAN
  BY Zenon DEF Batch!Init
<1>2. Len(batch) = 0
  BY DEF Batch!Init
<1>. QED
  BY <1>1, <1>2, LifecycleAssumption DEF Batch!Init, BatchInv, Batch!TypeOK, BatchFrontier,
     Fresh, Exact, Batch!Offset

\* Counting one more keeps the counts numbers.
LEMMA CountedUp ==
  ASSUME NEW f \in [Batch!Offset -> Nat], NEW o \in Batch!Offset
  PROVE  [f EXCEPT ![o] = @ + 1] \in [Batch!Offset -> Nat]
OBVIOUS

\* Every step keeps the types.
LEMMA BatchNextTyped ==
  Batch!TypeOK /\ BatchFrontier /\ [Batch!Next]_(Batch!vars) => Batch!TypeOK'
<1>. SUFFICES ASSUME Batch!TypeOK, BatchFrontier, [Batch!Next]_(Batch!vars)
              PROVE  Batch!TypeOK'
  OBVIOUS
<1>. USE LifecycleAssumption DEF Batch!TypeOK, BatchFrontier, Batch!readerVars, Batch!workVars
<1>1. CASE Batch!Produce
  BY <1>1 DEF Batch!Produce
<1>2. CASE Batch!TimerFires
  BY <1>2 DEF Batch!TimerFires
<1>3. CASE Batch!Fetch
  BY <1>3 DEF Batch!Fetch
<1>4. CASE Batch!CommitOffset
  BY <1>4 DEF Batch!CommitOffset, Batch!Offset
<1>5. CASE Batch!ReadCancelled
  BY <1>5 DEF Batch!ReadCancelled, Batch!AfterCancel
<1>6. CASE Batch!CommitCancelled
  BY <1>6 DEF Batch!CommitCancelled, Batch!AfterCancel
<1>7. CASE Batch!Spawn
  BY <1>7 DEF Batch!Spawn
<1>8. CASE Batch!AllSpawned
  BY <1>8 DEF Batch!AllSpawned
<1>9. CASE Batch!LogResult
  BY <1>9 DEF Batch!LogResult
<1>10. ASSUME NEW i \in Batch!Offset, Batch!ProcessEntry(i)
       PROVE  Batch!TypeOK'
  <2>1. /\ i \in running /\ running \subseteq 1..spawned /\ spawned \in 0..Len(batch)
        /\ batch \in Seq(Batch!Offset) /\ processed \in [Batch!Offset -> Nat]
        /\ processed' = [processed EXCEPT ![batch[i]] = @ + 1]
        /\ running' = running \ {i}
        /\ UNCHANGED <<logEnd, committed, fetched, pc, cancelled, batch, spawned, results,
                       faults, runs>>
    BY <1>10 DEF Batch!ProcessEntry, Batch!Argument
  <2>2. i \in 1..Len(batch) /\ batch[i] \in Batch!Offset
    <3>1. Len(batch) \in Nat /\ \A j \in 1..Len(batch) : batch[j] \in Batch!Offset
      BY <2>1
    <3>2. i \in 1..spawned /\ spawned \in 0..Len(batch)
      BY <2>1, Zenon
    <3>3. i \in 1..Len(batch)
      BY <3>1, <3>2
    <3>. QED
      BY <3>1, <3>3
  <2>3. processed' \in [Batch!Offset -> Nat]
    BY <2>1, <2>2, CountedUp, Zenon
  <2>4. running' \subseteq 1..spawned
    BY <2>1
  <2>. QED
    BY <2>1, <2>3, <2>4, Zenon
<1>11. CASE Batch!ReadFails
  BY <1>11 DEF Batch!ReadFails, Batch!Fault, Batch!Reading
<1>12. CASE Batch!Kill
  BY <1>12 DEF Batch!Kill, Batch!Fault
<1>13. CASE Batch!Run
  <2>1. batch' = <<>> /\ spawned' = 0 /\ running' = {}
    BY <1>13 DEF Batch!Run
  <2>2. /\ batch' \in Seq(Batch!Offset) /\ spawned' \in 0..Len(batch')
        /\ running' \subseteq 1..spawned'
    BY <2>1
  <2>3. cancelled' \in BOOLEAN
    BY <1>13, Zenon DEF Batch!Run
  <2>4. runs' \in 1..MaxRuns
    BY <1>13 DEF Batch!Run
  <2>. HIDE DEF BatchFrontier
  <2>. QED
    BY <1>13, <2>2, <2>3, <2>4, Zenon DEF Batch!Run, Batch!StartOffset
<1>14. CASE UNCHANGED Batch!vars
  BY <1>14 DEF Batch!vars
<1>. QED
  BY <1>1, <1>2, <1>3, <1>4, <1>5, <1>6, <1>7, <1>8, <1>9, <1>10, <1>11, <1>12, <1>13,
     <1>14 DEF Batch!Next, Batch!MainStep

\* Every step keeps the reader at the group's offset or one beyond.
LEMMA BatchNextFrontier ==
  Batch!TypeOK /\ BatchFrontier /\ [Batch!Next]_(Batch!vars) => BatchFrontier'
<1>. SUFFICES ASSUME Batch!TypeOK, BatchFrontier, [Batch!Next]_(Batch!vars)
              PROVE  BatchFrontier'
  OBVIOUS
<1>. USE DEF BatchFrontier, Batch!readerVars, Batch!workVars
<1>1. CASE Batch!Produce \/ Batch!TimerFires \/ UNCHANGED Batch!vars
  BY <1>1 DEF Batch!Produce, Batch!TimerFires, Batch!vars
<1>2. CASE Batch!Fetch
  BY <1>2 DEF Batch!Fetch
<1>3. CASE Batch!CommitOffset
  BY <1>3 DEF Batch!CommitOffset
<1>4. CASE Batch!ReadCancelled \/ Batch!CommitCancelled
  BY <1>4 DEF Batch!ReadCancelled, Batch!CommitCancelled, Batch!AfterCancel
<1>5. CASE Batch!Spawn \/ Batch!AllSpawned \/ Batch!LogResult
  BY <1>5 DEF Batch!Spawn, Batch!AllSpawned, Batch!LogResult
<1>6. ASSUME NEW i \in Batch!Offset, Batch!ProcessEntry(i)
      PROVE  BatchFrontier'
  BY <1>6 DEF Batch!ProcessEntry
<1>7. CASE Batch!ReadFails \/ Batch!Kill
  BY <1>7 DEF Batch!ReadFails, Batch!Kill, Batch!Reading
<1>8. CASE Batch!Run
  <2>1. running \subseteq 1..0 => running = {}
    OBVIOUS
  <2>. QED
    BY <1>8, <2>1 DEF Batch!Run, Batch!StartOffset
<1>. QED
  BY <1>1, <1>2, <1>3, <1>4, <1>5, <1>6, <1>7, <1>8 DEF Batch!Next, Batch!MainStep

\* Every step keeps the batch fresh, and processes each entry once.
LEMMA NextFresh == BatchInv /\ [Batch!Next]_(Batch!vars) => Fresh' /\ Exact'
<1>. SUFFICES ASSUME Batch!TypeOK, BatchFrontier, Fresh, Exact, [Batch!Next]_(Batch!vars)
              PROVE  Fresh' /\ Exact'
  BY DEF BatchInv
<1>0. /\ batch \in Seq(Batch!Offset) /\ Len(batch) \in Nat
      /\ \A i \in 1..Len(batch) : batch[i] \in Batch!Offset
      /\ \A o \in Batch!Offset : o \in Nat
      /\ \A i \in 1..Len(batch) : batch[i] \in Nat
      /\ processed \in [Batch!Offset -> Nat] /\ committed \in Nat /\ fetched \in Nat
      /\ spawned \in 0..Len(batch) /\ running \subseteq 1..Len(batch)
  <2>1. /\ batch \in Seq(Batch!Offset) /\ processed \in [Batch!Offset -> Nat]
        /\ spawned \in 0..Len(batch) /\ running \subseteq 1..spawned
    BY DEF Batch!TypeOK
  <2>2. \A o \in Batch!Offset : o \in Nat
    BY DEF Batch!Offset
  <2>3. committed \in Nat /\ fetched \in Nat
    BY LifecycleAssumption DEF Batch!TypeOK
  <2>4. Len(batch) \in Nat /\ \A i \in 1..Len(batch) : batch[i] \in Batch!Offset
    BY <2>1
  <2>5. running \subseteq 1..Len(batch)
    BY <2>1, <2>4
  <2>. QED
    BY <2>1, <2>2, <2>3, <2>4, <2>5
<1>1. CASE \/ Batch!Produce \/ Batch!TimerFires \/ Batch!ReadCancelled
           \/ Batch!AllSpawned \/ UNCHANGED Batch!vars
  BY <1>1 DEF Batch!Produce, Batch!TimerFires, Batch!ReadCancelled, Batch!AllSpawned,
     Batch!vars, Batch!readerVars, Batch!workVars,
     Fresh, Exact
<1>2. CASE Batch!Fetch
  BY <1>2 DEF Batch!Fetch, Batch!workVars, Fresh, Exact
<1>3. CASE Batch!CommitOffset
  <2>1. /\ committed' = fetched /\ fetched = committed + 1 /\ batch' = Append(batch, fetched)
        /\ spawned = 0 /\ running = {} /\ UNCHANGED <<spawned, running, processed>>
        /\ fetched \in Batch!Offset
    <3>1. fetched = committed + 1 /\ fetched <= MaxLog
      BY <1>3, LifecycleAssumption DEF Batch!CommitOffset, BatchFrontier, Batch!TypeOK
    <3>2. fetched \in Batch!Offset
      BY <1>0, <3>1, LifecycleAssumption DEF Batch!Offset
    <3>. QED
      BY <1>3, <3>1, <3>2 DEF Batch!CommitOffset, BatchFrontier, Batch!workVars
  <2>2. /\ Len(batch') = Len(batch) + 1 /\ batch'[Len(batch) + 1] = fetched
        /\ \A i \in 1..Len(batch) : batch'[i] = batch[i] /\ batch[i] \in Batch!Offset
        /\ Len(batch) \in Nat
    BY <1>0, <2>1
  <2>3. processed[fetched] = 0
    BY <1>0, <2>1 DEF Fresh
  <2>4. Fresh'
    BY <1>0, <2>1, <2>2 DEF Fresh
  <2>5. \A i \in 1..Len(batch) : processed[batch[i]] = 0
    BY <1>0, <1>3, <2>1 DEF Exact, Batch!CommitOffset
  <2>6. \A i \in 1..(Len(batch) + 1) : i = Len(batch) + 1 \/ i \in 1..Len(batch)
    BY <2>2
  <2>7. \A i \in 1..Len(batch') : processed'[batch'[i]] = 0 /\ ~(i <= spawned')
    BY <2>1, <2>2, <2>3, <2>5, <2>6
  <2>8. Exact'
    BY <2>7 DEF Exact
  <2>. QED
    BY <2>4, <2>8
<1>4. CASE Batch!CommitCancelled
  <2>1. committed' >= committed /\ UNCHANGED <<batch, spawned, running, processed>>
        /\ committed \in Nat /\ committed' \in Nat
    BY <1>4 DEF Batch!CommitCancelled, BatchFrontier, Batch!TypeOK, Batch!workVars
  <2>. QED
    BY <1>0, <1>4, <2>1 DEF Batch!CommitCancelled, Fresh, Exact
<1>5. CASE Batch!Spawn
  BY <1>5 DEF Batch!Spawn, Fresh, Exact, Batch!TypeOK, Batch!readerVars
<1>6. ASSUME NEW i \in Batch!Offset, Batch!ProcessEntry(i)
      PROVE  Fresh' /\ Exact'
  <2>1. /\ i \in 1..Len(batch) /\ i <= spawned /\ i \in running
        /\ batch[i] \in Batch!Offset /\ batch \in Seq(Batch!Offset)
        /\ processed \in [Batch!Offset -> Nat]
        /\ processed' = [processed EXCEPT ![batch[i]] = @ + 1]
        /\ running' = running \ {i}
        /\ UNCHANGED <<committed, batch, spawned, pc>> /\ pc # "down"
    BY <1>6 DEF Batch!ProcessEntry, Batch!Argument, Batch!TypeOK, Batch!readerVars,
       BatchFrontier
  <2>2. Fresh'
    BY <1>0, <2>1 DEF Fresh
  <2>3. \A j \in 1..Len(batch) : j # i => batch[j] # batch[i] /\ batch[j] \in Batch!Offset
    BY <1>0, <2>1 DEF Fresh
  <2>4. Exact'
    BY <1>0, <2>1, <2>3 DEF Exact
  <2>. QED
    BY <2>2, <2>4
<1>7. CASE Batch!LogResult \/ Batch!Kill
  BY <1>7 DEF Batch!LogResult, Batch!Kill, Batch!readerVars, Fresh, Exact
<1>8. CASE Batch!ReadFails
  <2>1. committed' >= committed /\ UNCHANGED <<batch, spawned, running, processed>>
        /\ committed \in Nat /\ committed' \in Nat
    BY <1>8 DEF Batch!ReadFails, BatchFrontier, Batch!TypeOK, Batch!workVars
  <2>2. pc' = "down"
    BY <1>8 DEF Batch!ReadFails
  <2>. QED
    BY <1>0, <2>1, <2>2 DEF Fresh, Exact
<1>9. CASE Batch!Run
  <2>1. batch' = <<>> /\ UNCHANGED <<committed, processed>>
    BY <1>9 DEF Batch!Run
  <2>. QED
    BY <2>1 DEF Fresh, Exact
<1>. QED
  BY <1>1, <1>2, <1>3, <1>4, <1>5, <1>6, <1>7, <1>8, <1>9 DEF Batch!Next, Batch!MainStep

\* The invariant holds in every state.
LEMMA BatchInvariance == Batch!Spec => []BatchInv
<1>1. BatchInv /\ [Batch!Next]_(Batch!vars) => BatchInv'
  BY BatchNextTyped, BatchNextFrontier, NextFresh DEF BatchInv
<1>. QED
  BY BatchInitInv, <1>1, PTL DEF Batch!Spec

\* Every state of the batch consumer has the right types.
THEOREM BatchTypeCorrect == Batch!Spec => []Batch!TypeOK
<1>1. BatchInv => Batch!TypeOK
  BY DEF BatchInv
<1>. QED
  BY BatchInvariance, <1>1, PTL

\* A result that is logged stands for a batch whose entries have each been
\* processed once, by this run or any.
THEOREM CompleteResults == Batch!Spec => ResultIsComplete
<1>1. BatchInv /\ [Batch!Next]_(Batch!vars) =>
        [results' > results => \A i \in 1..Len(batch) : processed[batch[i]] = 1]_results
  <2>. SUFFICES ASSUME BatchInv, [Batch!Next]_(Batch!vars), results' > results
                PROVE  \A i \in 1..Len(batch) : processed[batch[i]] = 1
    OBVIOUS
  <2>1. results \in Nat
    BY DEF BatchInv, Batch!TypeOK
  <2>2. ~(results' = results)
    BY <2>1
  <2>3. Batch!LogResult
    BY <2>2, Zenon DEF Batch!Next, Batch!MainStep, Batch!Produce, Batch!TimerFires,
       Batch!Fetch, Batch!CommitOffset, Batch!ReadCancelled,
       Batch!CommitCancelled, Batch!Spawn, Batch!AllSpawned, Batch!ProcessEntry,
       Batch!ReadFails, Batch!Kill, Batch!Run, Batch!vars
  <2>4. \A i \in 1..Len(batch) : i <= spawned /\ i \notin running
    BY <2>3 DEF Batch!LogResult, Batch!WaitGroupDone, BatchInv, BatchFrontier, Batch!TypeOK
  <2>. QED
    BY <2>3, <2>4 DEF Batch!LogResult, BatchInv, Exact
<1>. QED
  BY BatchInvariance, <1>1, PTL DEF ResultIsComplete, Batch!Spec

-----------------------------------------------------------------------------
(***************************************************************************)
(* BatchConsumer: a run loses one message at most.                         *)
(***************************************************************************)

\* Messages up to the group's offset that are processed by none and not in hand.
Gone ==
  {o \in Batch!Offset : o <= committed /\ processed[o] = 0 /\ ~Batch!InBatch(o)
                  /\ ~(o = fetched /\ pc = "committing")}

Allowance == IF pc \in {"reading", "committing"} THEN runs - 1 ELSE runs

LossSoFar ==
  faults = 0 =>
    /\ Cardinality(Gone) <= Allowance
    /\ pc = "down" => \A i \in 1..Len(batch) : processed[batch[i]] > 0

\* What is gone are finitely many messages.
LEMMA GoneFinite ==
  /\ IsFiniteSet(Gone) /\ Cardinality(Gone) \in Nat
  /\ IsFiniteSet(Gone') /\ Cardinality(Gone') \in Nat
<1>1. IsFiniteSet(Batch!Offset)
  <2>1. 1 \in Int /\ MaxLog \in Int
    BY LifecycleAssumption
  <2>. QED
    BY <2>1, FS_Interval, Zenon DEF Batch!Offset
<1>2. Gone \subseteq Batch!Offset /\ Gone' \subseteq Batch!Offset
  BY DEF Gone
<1>. QED
  BY <1>1, <1>2, FS_Subset, FS_CardinalityType

\* A step that adds nothing to what is gone keeps the bound.
LEMMA GoneShrinks ==
  ASSUME Gone' \subseteq Gone
  PROVE  Cardinality(Gone') <= Cardinality(Gone)
BY GoneFinite, FS_Subset

\* Nothing is gone at first.
LEMMA InitLoss == Batch!Init => LossSoFar
<1>. SUFFICES ASSUME Batch!Init PROVE LossSoFar
  OBVIOUS
<1>1. Gone = {}
  BY DEF Batch!Init, Gone, Batch!Offset
<1>2. Cardinality(Gone) = 0
  BY <1>1, FS_EmptySet
<1>. QED
  BY <1>2 DEF Batch!Init, LossSoFar, Allowance

\* Only the commit that the timer interrupts loses a message, and ends the
\* reading of its run.
LEMMA NextLoss == BatchInv /\ LossSoFar /\ [Batch!Next]_(Batch!vars) => LossSoFar'
<1>. SUFFICES ASSUME Batch!TypeOK, BatchFrontier, Fresh, Exact, LossSoFar,
                     [Batch!Next]_(Batch!vars), faults' = 0
              PROVE  /\ Cardinality(Gone') <= Allowance'
                     /\ pc' = "down" => \A i \in 1..Len(batch') : processed'[batch'[i]] > 0
  BY DEF BatchInv, LossSoFar
<1>0. /\ runs \in Nat /\ faults \in Nat
      /\ Cardinality(Gone) \in Nat /\ Cardinality(Gone') \in Nat
  BY GoneFinite, LifecycleAssumption DEF Batch!TypeOK
<1>1. CASE Batch!Produce \/ Batch!TimerFires \/ UNCHANGED Batch!vars
  <2>1. UNCHANGED <<committed, fetched, pc, batch, processed, runs, faults>>
    BY <1>1 DEF Batch!Produce, Batch!TimerFires, Batch!vars, Batch!readerVars, Batch!workVars
  <2>2. Gone' = Gone /\ Allowance' = Allowance
    BY <2>1 DEF Gone, Batch!InBatch, Allowance
  <2>. QED
    BY <2>1, <2>2 DEF LossSoFar
<1>2. CASE Batch!Fetch
  <2>1. /\ pc = "reading" /\ pc' = "committing" /\ fetched' = fetched + 1 /\ fetched = committed
        /\ UNCHANGED <<committed, batch, processed, runs, faults>>
    BY <1>2 DEF Batch!Fetch, Batch!workVars, BatchFrontier
  <2>2. Gone' \subseteq Gone /\ Allowance' = Allowance
    BY <2>1 DEF Gone, Batch!InBatch, Allowance
  <2>. QED
    BY <1>0, <2>1, <2>2, GoneShrinks DEF LossSoFar, Allowance
<1>3. CASE Batch!CommitOffset
  <2>1. /\ pc = "committing" /\ pc' = "reading"
        /\ committed' = fetched /\ fetched = committed + 1
        /\ batch' = Append(batch, fetched)
        /\ UNCHANGED <<fetched, processed, runs, faults>>
    BY <1>3 DEF Batch!CommitOffset, Batch!workVars, BatchFrontier
  <2>2. ASSUME NEW o \in Gone' PROVE o \in Gone
    <3>1. batch \in Seq(Batch!Offset) /\ committed \in Nat
      BY LifecycleAssumption DEF Batch!TypeOK
    <3>2. Len(batch') = Len(batch) + 1 /\ batch'[Len(batch) + 1] = fetched
          /\ Len(batch) \in Nat
      BY <2>1, <3>1
    <3>3. \A i \in 1..Len(batch) : i \in 1..Len(batch') /\ batch'[i] = batch[i]
      BY <2>1, <3>1, <3>2
    <3>4. Len(batch) + 1 \in 1..Len(batch')
      BY <3>2
    <3>5. o \in Batch!Offset /\ o <= fetched /\ processed[o] = 0 /\ ~Batch!InBatch(o)'
      BY <2>1, <2>2 DEF Gone
    <3>6. o # fetched /\ ~Batch!InBatch(o)
      BY <3>2, <3>3, <3>4, <3>5 DEF Batch!InBatch
    <3>7. o <= committed
      BY <2>1, <3>1, <3>5, <3>6 DEF Batch!Offset
    <3>. QED
      BY <3>5, <3>6, <3>7 DEF Gone
  <2>3. Allowance' = Allowance
    BY <2>1 DEF Allowance
  <2>. QED
    BY <1>0, <2>1, <2>2, <2>3, GoneShrinks DEF LossSoFar, Allowance
<1>4. CASE Batch!ReadCancelled
  <2>1. /\ pc = "reading" /\ pc' = "spawning"
        /\ UNCHANGED <<committed, fetched, batch, processed, runs, faults>>
    BY <1>4 DEF Batch!ReadCancelled, Batch!AfterCancel, Batch!workVars, Batch!readerVars
  <2>2. Gone' = Gone
    BY <2>1 DEF Gone, Batch!InBatch
  <2>. QED
    BY <1>0, <2>1, <2>2 DEF LossSoFar, Allowance
<1>5. CASE Batch!CommitCancelled
  <2>1. /\ pc = "committing" /\ pc' = "spawning" /\ fetched = committed + 1
        /\ committed' \in {committed, fetched}
        /\ UNCHANGED <<fetched, batch, processed, runs, faults>>
    BY <1>5 DEF Batch!CommitCancelled, Batch!AfterCancel, Batch!workVars, BatchFrontier
  <2>2. Gone' \subseteq Gone \cup {fetched}
    <3>1. committed \in Nat
      BY LifecycleAssumption DEF Batch!TypeOK
    <3>. QED
      BY <2>1, <3>1 DEF Gone, Batch!InBatch, Batch!Offset
  <2>3. Cardinality(Gone') <= Cardinality(Gone) + 1
    <3>. DEFINE G == Gone
    <3>0. IsFiniteSet(G) /\ Cardinality(G) \in Nat /\ G = Gone
      BY GoneFinite
    <3>. HIDE DEF G
    <3>1. IsFiniteSet(G \cup {fetched}) /\ Cardinality(G \cup {fetched}) <= Cardinality(G) + 1
      <4>1. /\ IsFiniteSet(G \cup {fetched})
            /\ \/ Cardinality(G \cup {fetched}) = Cardinality(G)
               \/ Cardinality(G \cup {fetched}) = Cardinality(G) + 1
        BY <3>0, FS_AddElement, Zenon
      <4>. QED
        BY <3>0, <4>1
    <3>2. Cardinality(Gone') <= Cardinality(G \cup {fetched})
      BY <2>2, <3>0, <3>1, FS_Subset
    <3>3. Cardinality(G \cup {fetched}) \in Nat
      BY <3>1, FS_CardinalityType
    <3>. QED
      BY <1>0, <3>0, <3>1, <3>2, <3>3
  <2>. QED
    BY <1>0, <2>1, <2>3 DEF LossSoFar, Allowance
<1>6. CASE Batch!Spawn \/ Batch!AllSpawned
  <2>1. /\ pc = "spawning" /\ pc' \in {"spawning", "waiting"}
        /\ UNCHANGED <<committed, fetched, batch, processed, runs, faults>>
    BY <1>6 DEF Batch!Spawn, Batch!AllSpawned, Batch!workVars, Batch!readerVars
  <2>2. Gone' = Gone
    BY <2>1 DEF Gone, Batch!InBatch
  <2>. QED
    BY <1>0, <2>1, <2>2 DEF LossSoFar, Allowance
<1>7. ASSUME NEW i \in Batch!Offset, Batch!ProcessEntry(i)
      PROVE  /\ Cardinality(Gone') <= Allowance'
             /\ pc' = "down" => \A j \in 1..Len(batch') : processed'[batch'[j]] > 0
  <2>1. /\ processed' = [processed EXCEPT ![batch[i]] = @ + 1] /\ pc' # "down"
        /\ UNCHANGED <<committed, fetched, pc, batch, runs, faults>>
    BY <1>7 DEF Batch!ProcessEntry, Batch!Argument, Batch!readerVars, BatchFrontier
  <2>2. Gone' \subseteq Gone
    <3>1. processed \in [Batch!Offset -> Nat]
      BY DEF Batch!TypeOK
    <3>2. \A o \in Batch!Offset : processed'[o] = 0 => processed[o] = 0
      BY <2>1, <3>1
    <3>. QED
      BY <2>1, <3>2 DEF Gone, Batch!InBatch
  <2>3. Allowance' = Allowance
    BY <2>1 DEF Allowance
  <2>4. Allowance \in Int
    BY <1>0 DEF Allowance
  <2>. QED
    BY <1>0, <2>1, <2>2, <2>3, <2>4, GoneShrinks DEF LossSoFar
<1>8. CASE Batch!LogResult
  <2>1. /\ pc = "waiting" /\ pc' = "down"
        /\ UNCHANGED <<committed, fetched, batch, processed, runs, faults>>
    BY <1>8 DEF Batch!LogResult, Batch!readerVars
  <2>2. Gone' = Gone
    BY <2>1 DEF Gone, Batch!InBatch
  <2>3. \A i \in 1..Len(batch) : processed[batch[i]] = 1
    <3>1. \A i \in 1..Len(batch) : i <= spawned /\ i \notin running
      BY <1>8 DEF Batch!LogResult, Batch!WaitGroupDone, BatchFrontier, Batch!TypeOK
    <3>. QED
      BY <2>1, <3>1 DEF Exact
  <2>. QED
    BY <1>0, <2>1, <2>2, <2>3 DEF LossSoFar, Allowance
<1>9. CASE Batch!ReadFails \/ Batch!Kill
  BY <1>0, <1>9 DEF Batch!ReadFails, Batch!Kill, Batch!Fault
<1>10. CASE Batch!Run
  <2>1. /\ pc = "down" /\ pc' = "reading" /\ runs' = runs + 1 /\ batch' = <<>>
        /\ UNCHANGED <<committed, processed, faults>>
    BY <1>10 DEF Batch!Run
  <2>2. \A i \in 1..Len(batch) : processed[batch[i]] > 0
    BY <2>1 DEF LossSoFar
  <2>3. Gone' \subseteq Gone
    <3>1. \A o \in Batch!Offset : Batch!InBatch(o) => processed[o] # 0
      BY <2>2 DEF Batch!InBatch, Batch!TypeOK
    <3>. QED
      BY <2>1, <3>1 DEF Gone
  <2>. QED
    BY <1>0, <2>1, <2>3, GoneShrinks DEF LossSoFar, Allowance
<1>. QED
  BY <1>1, <1>2, <1>3, <1>4, <1>5, <1>6, <1>7, <1>8, <1>9, <1>10 DEF Batch!Next, Batch!MainStep

\* As long as nothing fails, each run loses one message at most, to its timer.
THEOREM BoundedLoss == Batch!Spec => []OneLossPerRun
<1>1. BatchInv /\ LossSoFar => OneLossPerRun
  <2>. SUFFICES ASSUME BatchInv, LossSoFar, faults = 0
                PROVE  Cardinality(Lost) <= runs
    BY DEF OneLossPerRun
  <2>1. Lost \subseteq Gone
    BY DEF Lost, Gone, InBatch, Batch!InBatch, Offset, Batch!Offset, LossSoFar
  <2>2. Cardinality(Lost) <= Cardinality(Gone) /\ Cardinality(Lost) \in Nat
    BY <2>1, GoneFinite, FS_Subset, FS_CardinalityType
  <2>3. Cardinality(Gone) <= runs /\ runs \in Nat /\ Cardinality(Gone) \in Nat
    BY GoneFinite, LifecycleAssumption DEF LossSoFar, Allowance, BatchInv, Batch!TypeOK
  <2>. QED
    BY <2>2, <2>3
<1>2. BatchInv /\ LossSoFar /\ [Batch!Next]_(Batch!vars) => LossSoFar'
  BY NextLoss
<1>. QED
  BY BatchInvariance, InitLoss, <1>1, <1>2, PTL DEF Batch!Spec

=============================================================================
