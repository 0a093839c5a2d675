------------------------------- MODULE Streams -------------------------------
(***************************************************************************)
(* examples_go/lecture7streams: five Kafka Streams programs that differ in *)
(* their topology and share the way they start and stop.  main waits on a  *)
(* latch that the shutdown hook opens after it has closed the streams, and *)
(* then calls System.exit, which blocks while a shutdown is in progress.   *)
(*                                                                         *)
(* The library (3.1, at-least-once) is modelled from its use: one stream   *)
(* thread takes records from the source topic and, behind a groupBy, from  *)
(* a repartition topic; from time to time it flushes what it has sent and  *)
(* commits its offsets; closing the streams commits, dying does not.       *)
(***************************************************************************)
EXTENDS Integers, FiniteSets, Sequences

CONSTANTS
  MaxLog,      \* bound: records in the source topic
  MaxKills,    \* bound: times the process is killed
  MaxRestarts  \* bound: times the program is started again

ASSUME StreamsAssumption ==
  /\ MaxLog \in Nat
  /\ MaxKills \in Nat
  /\ MaxRestarts \in Nat

-----------------------------------------------------------------------------
(***************************************************************************)
(* The topologies: what becomes of one record of the source topic.         *)
(***************************************************************************)

\* Lines: an empty one, one of blanks, two with words, and a record whose value
\* is null.
Lines == {"empty", "blank", "Ab", "ab ba", "null"}

\* value.split("\\W+"): an empty line is one empty word, blanks are none, and
\* null leads to no words (see Fatal).
Split(line) ==
  CASE line = "empty" -> <<"">>
    [] line = "blank" -> <<>>
    [] line = "Ab" -> <<"Ab">>
    [] line = "ab ba" -> <<"ab", "ba">>
    [] line = "null" -> <<>>
ToLowerCase(word) == IF word = "Ab" THEN "ab" ELSE word

\* Measures by their device; "garbage" is no measure.
Measures == {"dev42", "dev7", "no device", "garbage"}

Pipe == [line \in Lines |-> <<line>>]
LineSplit == [line \in Lines |-> Split(line)]
WordCount ==
  [line \in Lines |-> [i \in DOMAIN Split(line) |-> ToLowerCase(Split(line)[i])]]
Filter == [m \in Measures |-> IF m = "dev42" THEN <<m>> ELSE <<>>]
\* A record whose new key is null is dropped.
CountBy == [m \in Measures |-> IF m = "no device" THEN <<>> ELSE <<m>>]

Topologies == {Pipe, LineSplit, WordCount, Filter, CountBy}
Counting == {WordCount, CountBy}
Key == Lines \cup Measures \cup {"", "ab", "ba"}

VARIABLES
  topology,  \* the program: chosen in Init and fixed
  input,     \* the source topic
  position,  \* records of it that the stream thread has taken
  sent,      \* sent[k]: records sent to the sink, or the repartition topic
  taken,     \* taken[k]: records of the repartition topic that were counted
  count,     \* count[k]: the counts-store
  saved,     \* the four as of the last commit
  thread,    \* the stream thread: "created", "running", "closed" or "dead"
  main,      \* the main thread: "starting", "awaiting" or "exiting"
  hook,      \* the shutdown hook: "none", "closing", "counting down" or "done"
  latch,     \* latch.getCount()
  jvm,       \* "up" or "down"
  unclean,   \* a stream thread has died, or the process was killed
  kills, restarts

progress == [position |-> position, sent |-> sent, taken |-> taken, count |-> count]
progressVars == <<position, sent, taken, count>>
processVars == <<thread, main, hook, latch, jvm>>
vars == <<topology, input, progressVars, saved, processVars, unclean, kills, restarts>>

Counts == [Key -> Nat]

TypeOK ==
  /\ topology \in Topologies
  /\ input \in Seq(DOMAIN topology) /\ Len(input) <= MaxLog
  /\ position \in 0..Len(input)
  /\ sent \in Counts /\ taken \in Counts /\ count \in Counts
  /\ \A k \in Key : taken[k] <= sent[k]
  /\ saved \in [position : 0..position, sent : Counts, taken : Counts, count : Counts]
  /\ thread \in {"created", "running", "closed", "dead"}
  /\ main \in {"starting", "awaiting", "exiting"}
  /\ hook \in {"none", "closing", "counting down", "done"}
  /\ latch \in 0..1
  /\ jvm \in {"up", "down"}
  /\ unclean \in BOOLEAN
  /\ kills \in 0..MaxKills
  /\ restarts \in 0..MaxRestarts

NoCounts == [k \in Key |-> 0]

Init ==
  /\ topology \in Topologies
  /\ input = <<>> /\ position = 0
  /\ sent = NoCounts /\ taken = NoCounts /\ count = NoCounts
  /\ saved = progress
  /\ thread = "created" /\ main = "starting" /\ hook = "none" /\ latch = 1
  /\ jvm = "up" /\ unclean = FALSE /\ kills = 0 /\ restarts = 0

\* The generator sends measures one after another; lines come from elsewhere.
Generate(value) ==
  /\ Len(input) < MaxLog
  /\ input' = Append(input, value)
  /\ UNCHANGED <<topology, progressVars, saved, processVars, unclean, kills, restarts>>

-----------------------------------------------------------------------------
(***************************************************************************)
(* The stream thread.                                                      *)
(***************************************************************************)
Working == jvm = "up" /\ thread = "running"
Occurrences(k, outputs) == Cardinality({i \in DOMAIN outputs : outputs[i] = k})

\* What throws: the deserializer of measures, and split on a value that is null.
Fatal(value) ==
  \/ value = "garbage"
  \/ value = "null" /\ topology \in {LineSplit, WordCount}

\* A record that throws ends the thread, and nothing else.
Process ==
  /\ Working /\ position < Len(input)
  /\ LET value == input[position + 1] IN
     IF Fatal(value)
     THEN /\ thread' = "dead"
          /\ unclean' = TRUE
          /\ UNCHANGED <<position, sent>>
     ELSE /\ position' = position + 1
          /\ sent' = [k \in Key |-> sent[k] + Occurrences(k, topology[value])]
          /\ UNCHANGED <<thread, unclean>>
  /\ UNCHANGED <<topology, input, taken, count, saved, main, hook, latch, jvm, kills,
                 restarts>>

\* count(): a record of the repartition topic.
Count(k) ==
  /\ Working /\ topology \in Counting /\ taken[k] < sent[k]
  /\ taken' = [taken EXCEPT ![k] = @ + 1]
  /\ count' = [count EXCEPT ![k] = @ + 1]
  /\ UNCHANGED <<topology, input, position, sent, saved, processVars, unclean, kills,
                 restarts>>

Commit ==
  /\ Working
  /\ saved' = progress
  /\ UNCHANGED <<topology, input, progressVars, processVars, unclean, kills, restarts>>

-----------------------------------------------------------------------------
(***************************************************************************)
(* main and the shutdown hook.                                             *)
(***************************************************************************)

\* streams.start() throws when it fails or the hook has been faster; then main
\* exits with 1, which starts the hook.
Start ==
  /\ jvm = "up" /\ main = "starting"
  /\ \/ /\ hook \in {"none", "closing"}
        /\ thread' = "running"
        /\ main' = "awaiting"
        /\ UNCHANGED hook
     \/ /\ main' = "exiting"
        /\ hook' = IF hook = "none" THEN "closing" ELSE hook
        /\ UNCHANGED thread
  /\ UNCHANGED <<topology, input, progressVars, saved, latch, jvm, unclean, kills,
                 restarts>>

Signal ==
  /\ jvm = "up" /\ hook = "none"
  /\ hook' = "closing"
  /\ UNCHANGED <<topology, input, progressVars, saved, thread, main, latch, jvm, unclean,
                 kills, restarts>>

\* streams.close() waits for the stream thread, which commits on its way out.
Mutant_NotClosed == UNCHANGED <<saved, thread>>
CloseStreams ==
  IF thread = "running"
  THEN thread' = "closed" /\ saved' = progress
  ELSE UNCHANGED <<saved, thread>>

HookCloses ==
  /\ jvm = "up" /\ hook = "closing"
  /\ CloseStreams
  /\ hook' = "counting down"
  /\ UNCHANGED <<topology, input, progressVars, main, latch, jvm, unclean, kills, restarts>>

HookCountsDown ==
  /\ jvm = "up" /\ hook = "counting down"
  /\ latch' = 0
  /\ hook' = "done"
  /\ UNCHANGED <<topology, input, progressVars, saved, thread, main, jvm, unclean, kills,
                 restarts>>

\* latch.await() returns and System.exit(0) waits for the shutdown to end.
MainExits ==
  /\ jvm = "up" /\ main = "awaiting" /\ latch = 0
  /\ main' = "exiting"
  /\ UNCHANGED <<topology, input, progressVars, saved, thread, hook, latch, jvm, unclean,
                 kills, restarts>>

\* The JVM waits for its hooks, not for the threads that called System.exit.
Mutant_HookJoinsMain == hook = "done" /\ main = "ended"
HookHasRun == hook = "done"

Halt ==
  /\ jvm = "up" /\ HookHasRun
  /\ jvm' = "down"
  /\ UNCHANGED <<topology, input, progressVars, saved, thread, main, hook, latch, unclean,
                 kills, restarts>>

Kill ==
  /\ jvm = "up" /\ kills < MaxKills
  /\ kills' = kills + 1
  /\ jvm' = "down"
  /\ unclean' = TRUE
  /\ UNCHANGED <<topology, input, progressVars, saved, thread, main, hook, latch, restarts>>

\* What was sent or stored after the last commit may have survived or not.
Between(low, high) ==
  {f \in [{k \in Key : low[k] # high[k]} -> 0..(2 * MaxLog * (MaxRestarts + 1))] :
     \A k \in DOMAIN f : low[k] <= f[k] /\ f[k] <= high[k]}
Survivors(low, high) ==
  {[k \in Key |-> IF k \in DOMAIN f THEN f[k] ELSE low[k]] : f \in Between(low, high)}

Mutant_SkipOne == saved.position + 1
StartPosition == saved.position

Restart ==
  /\ jvm = "down" /\ restarts < MaxRestarts
  /\ restarts' = restarts + 1
  /\ position' = StartPosition
  /\ taken' = saved.taken
  /\ sent' \in Survivors(saved.sent, sent)
  /\ count' \in Survivors(saved.count, count)
  /\ saved' = [saved EXCEPT !.sent = sent', !.count = count']
  /\ thread' = "created" /\ main' = "starting" /\ hook' = "none" /\ latch' = 1
  /\ jvm' = "up"
  /\ UNCHANGED <<topology, input, unclean, kills>>

ThreadStep == Process \/ \E k \in Key : Count(k)
ShutdownStep == HookCloses \/ HookCountsDown \/ Halt

Next ==
  \/ \E value \in DOMAIN topology : Generate(value)
  \/ ThreadStep
  \/ Commit
  \/ Start \/ Signal
  \/ ShutdownStep
  \/ MainExits
  \/ Kill
  \/ Restart

Spec == Init /\ [][Next]_vars

\* The JVM runs the hook and halts after it.
FairSpec == Spec /\ WF_vars(ShutdownStep)

-----------------------------------------------------------------------------
(***************************************************************************)
(* Properties.                                                             *)
(***************************************************************************)

\* What the records taken so far should have led to, and what they have led to:
\* records in the sink, or counts and records that are still to be counted.
Expected(k) ==
  Cardinality({x \in (1..position) \X (1..2) :
                 x[2] \in DOMAIN topology[input[x[1]]] /\ topology[input[x[1]]][x[2]] = k})
Delivered(k) == IF topology \in Counting THEN count[k] + sent[k] - taken[k] ELSE sent[k]

\* Nothing is lost, whatever happens; and as long as the streams are stopped by
\* the hook alone, nothing is delivered or counted twice either.
CleanStopsCountOnce ==
  \A k \in Key : /\ Delivered(k) >= Expected(k)
                 /\ ~unclean => Delivered(k) = Expected(k)

\* A shutdown ends, begun by a signal or by main itself, although main blocks in
\* System.exit until the hook has run.
ShutdownEnds == (hook # "none") ~> (jvm = "down")

=============================================================================
