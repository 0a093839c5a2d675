---------------------------- MODULE SendProducer ----------------------------
(***************************************************************************)
(* The programs that turn HTTP requests into messages.  A program is a     *)
(* handler and a client:                                                   *)
(*  - the Go handlers answer "Record sent" while a goroutine is sending,   *)
(*    one entry (/send) or the entries of a list one after another         *)
(*    (/entryList); the Java controller sends the whole list and answers   *)
(*    when every send has completed;                                       *)
(*  - kafka-go's WriteMessages returns when the batch of the message has   *)
(*    been written or given up; librdkafka's Produce and Java's send only  *)
(*    enqueue, and report to an events channel or to a callback.           *)
(* Nothing is persisted: what a program has not written when it ends is    *)
(* gone.                                                                   *)
(***************************************************************************)
EXTENDS Integers, FiniteSets, Sequences, SequencesExt

CONSTANTS
  Requests,    \* POST requests
  Partitions,  \* partitions of the topic
  ListLength,  \* entries in the body of a list request
  BatchSize,   \* messages in a full batch: 5 (100 in lecture3go), scaled down
  MaxFaults    \* bound: failures of the broker, refusals and ends of the process

ASSUME SendAssumption ==
  /\ IsFiniteSet(Requests) /\ IsFiniteSet(Partitions) /\ Partitions # {}
  /\ ListLength \in Nat \ {0}
  /\ BatchSize \in Nat \ {0}
  /\ MaxFaults \in Nat

VARIABLES
  program,   \* its handler and its client: chosen in Init and fixed
  proc,      \* "starting", "up", "closing" (in Close), "closed" or "dead"
  http,      \* http[r]: "none", "answering", "checking", "ok" or "error"
  sender,    \* sender[r], who sends: "idle", "sending", "waiting", "checking", "done"
  pos,       \* pos[r]: the entry of r that is being sent
  err,       \* err[r]: whether the err that handler and sender share is not nil
  wiped,     \* requests whose handler has assigned nil over the sender's error
  status,    \* status[e]: "new", "queued", then the client's verdict on the entry
  open,      \* open[p]: the batch of partition p that is being filled
  batches,   \* batches[p]: closed batches that are not settled, oldest first
  late,      \* batches whose request timed out and may still reach the broker
  topic,     \* the entries in the topic, in the order of their first copies
  reported,  \* entries whose verdict has been received, or the answer to their list
  told,      \* entries whose failure was logged, printed or answered
  faults

handler == program[1]
client == program[2]
requestVars == <<http, sender, pos, err, wiped>>
clientVars == <<status, open, batches>>
vars == <<program, proc, requestVars, clientVars, late, topic, reported, told, faults>>

-----------------------------------------------------------------------------
(***************************************************************************)
(* The programs.                                                           *)
(***************************************************************************)
Lecture3Main == {"sharesErr"}            \* the goroutine assigns the handler's err
ConfluentMain == {"sharesErr", "closes"} \* defer kafkaClient.Close()
SerialisationMain == {"createsTopic"}
OffsetsMain == {"createsTopic"}
Exercise6Main == {"createsTopic"}
Lecture5Main == {"list"}
Exercise5Main == {"list"}
BalancerMain == {"list", "closes"}
Exercise7Main == {"list", "closes"}
Controller5 == {"list", "waits", "closes"} \* Spring closes the producer
Controller6 == {"list", "waits", "closes"}
Controller7 == {"list", "waits", "closes"}

\* attempts = 0: until a timeout.  acks = 0: nobody waits for the broker.
Lecture3Client == [kind |-> "kafka-go", acks |-> 0, attempts |-> 10]
ConfluentClient == [kind |-> "librdkafka", acks |-> -1, attempts |-> 0]
SerialisationClient == [kind |-> "kafka-go", acks |-> 1, attempts |-> 2]
OffsetsClient == [kind |-> "kafka-go", acks |-> 1, attempts |-> 2]
Exercise6Client == [kind |-> "kafka-go", acks |-> 1, attempts |-> 2]
Lecture5Client == [kind |-> "kafka-go", acks |-> 1, attempts |-> 2]
Exercise5Client == [kind |-> "kafka-go", acks |-> 1, attempts |-> 2]
BalancerClient == [kind |-> "librdkafka", acks |-> 1, attempts |-> 0]
Exercise7Client == [kind |-> "librdkafka", acks |-> 1, attempts |-> 0]
Service5 == [kind |-> "java", acks |-> -1, attempts |-> 0]
Service6 == [kind |-> "java", acks |-> -1, attempts |-> 0]
Service7 == [kind |-> "java", acks |-> -1, attempts |-> 0]

Programs ==
  { <<Lecture3Main, Lecture3Client>>, <<ConfluentMain, ConfluentClient>>,
    <<SerialisationMain, SerialisationClient>>, <<OffsetsMain, OffsetsClient>>,
    <<Exercise6Main, Exercise6Client>>, <<Lecture5Main, Lecture5Client>>,
    <<Exercise5Main, Exercise5Client>>, <<BalancerMain, BalancerClient>>,
    <<Exercise7Main, Exercise7Client>>, <<Controller5, Service5>>,
    <<Controller6, Service6>>, <<Controller7, Service7>> }

Entry == Requests \X (1..ListLength)
Length == IF "list" \in handler THEN ListLength ELSE 1
Current(r) == <<r, pos[r]>>
Verdicts == {"ok", "failed", "refused"}
InTopic(e) == \E i \in DOMAIN topic : topic[i] = e
Running == proc \in {"up", "closing"}

Batch == [entries : Seq(Entry), tries : Nat]

TypeOK ==
  /\ program \in Programs
  /\ proc \in {"starting", "up", "closing", "closed", "dead"}
  /\ http \in [Requests -> {"none", "answering", "checking", "ok", "error"}]
  /\ sender \in [Requests -> {"idle", "sending", "waiting", "checking", "done"}]
  /\ pos \in [Requests -> 1..ListLength]
  /\ err \in [Requests -> BOOLEAN]
  /\ wiped \subseteq Requests
  /\ status \in [Entry -> {"new", "queued"} \cup Verdicts]
  /\ open \in [Partitions -> Seq(Entry)]
  /\ batches \in [Partitions -> Seq(Batch)]
  /\ late \subseteq Seq(Entry)
  /\ topic \in Seq(Entry)
  /\ reported \subseteq Entry /\ told \subseteq reported
  /\ faults \in 0..MaxFaults
  /\ \A p \in Partitions : Len(open[p]) < BatchSize

Init ==
  /\ program \in Programs
  /\ proc = IF "createsTopic" \in handler THEN "starting" ELSE "up"
  /\ http = [r \in Requests |-> "none"]
  /\ sender = [r \in Requests |-> "idle"]
  /\ pos = [r \in Requests |-> 1]
  /\ err = [r \in Requests |-> FALSE]
  /\ wiped = {}
  /\ status = [e \in Entry |-> "new"]
  /\ open = [p \in Partitions |-> <<>>]
  /\ batches = [p \in Partitions |-> <<>>]
  /\ late = {} /\ topic = <<>> /\ reported = {} /\ told = {} /\ faults = 0

Fault ==
  /\ faults < MaxFaults
  /\ faults' = faults + 1

\* The program creates its topic before it serves, and panics if it cannot.
CreateTopic ==
  /\ proc = "starting"
  /\ \/ proc' = "up" /\ UNCHANGED faults
     \/ proc' = "dead" /\ Fault
  /\ UNCHANGED <<program, requestVars, clientVars, late, topic, reported, told>>

-----------------------------------------------------------------------------
(***************************************************************************)
(* The handler.                                                            *)
(***************************************************************************)

\* The body cannot be read or decoded.
Reject(r) ==
  /\ proc = "up" /\ http[r] = "none"
  /\ http' = [http EXCEPT ![r] = "error"]
  /\ UNCHANGED <<program, proc, sender, pos, err, wiped, clientVars, late, topic,
                 reported, told, faults>>

Accept(r) ==
  /\ proc = "up" /\ http[r] = "none"
  /\ http' = [http EXCEPT ![r] = "answering"]
  /\ sender' = [sender EXCEPT ![r] = "sending"]
  /\ UNCHANGED <<program, proc, pos, err, wiped, clientVars, late, topic, reported, told,
                 faults>>

\* The handler's own err matters only where the sender's is the same variable,
\* which neither locks: the assignment and the test are then two steps.
SharesErr == "sharesErr" \in handler

\* _, err = writer.Write("Record sent").  (A write that fails is logged, and left
\* out.)
Answer(r) ==
  /\ Running /\ http[r] = "answering" /\ "waits" \notin handler
  /\ http' = [http EXCEPT ![r] = IF SharesErr THEN "checking" ELSE "ok"]
  /\ err' = [err EXCEPT ![r] = FALSE]
  /\ wiped' = IF err[r] THEN wiped \cup {r} ELSE wiped
  /\ UNCHANGED <<program, proc, sender, pos, clientVars, late, topic, reported, told,
                 faults>>

\* if err != nil: what the handler logs is then the error of the sender.
AnswerCheck(r) ==
  /\ Running /\ http[r] = "checking"
  /\ http' = [http EXCEPT ![r] = "ok"]
  /\ IF err[r]
     THEN /\ told' = told \cup {Current(r)}
          /\ reported' = reported \cup {Current(r)}
     ELSE UNCHANGED <<told, reported>>
  /\ UNCHANGED <<program, proc, sender, pos, err, wiped, clientVars, late, topic, faults>>

\* The Java controller: allOf(futures).get().
Sent(r) == {<<r, i>> : i \in 1..Length}
Mutant_AnyOf(r) == \E e \in Sent(r) : status[e] \in Verdicts
AllCompleted(r) == \A e \in Sent(r) : status[e] \in Verdicts

AnswerCompleted(r) ==
  /\ Running /\ http[r] = "answering" /\ "waits" \in handler
  /\ sender[r] = "done" /\ AllCompleted(r)
  /\ LET failed == {e \in Sent(r) : status[e] \in {"failed", "refused"}} IN
     /\ http' = [http EXCEPT ![r] = IF failed = {} THEN "ok" ELSE "error"]
     /\ told' = told \cup failed
     /\ reported' = reported \cup Sent(r)
  /\ UNCHANGED <<program, proc, sender, pos, err, wiped, clientVars, late, topic, faults>>

-----------------------------------------------------------------------------
(***************************************************************************)
(* The sender: SendMessage for one entry after the other.                  *)
(***************************************************************************)
Waits == client.kind = "kafka-go"       \* WriteMessages blocks
ClientLogs == client.kind = "kafka-go"  \* and SendMessage logs its error itself

\* The balancer takes any partition.  The clients that reorder the batches of
\* one partition need no second one.
PartitionsOf == IF Waits THEN Partitions ELSE {CHOOSE p \in Partitions : TRUE}

\* The entry joins the open batch of its partition, which closes when full.
Mutant_Overfull(e, p) ==
  /\ open' = [open EXCEPT ![p] = Append(@, e)]
  /\ UNCHANGED batches
Enqueue(e, p) ==
  LET batch == Append(open[p], e) IN
  IF Len(batch) = BatchSize
  THEN /\ open' = [open EXCEPT ![p] = <<>>]
       /\ batches' = [batches EXCEPT ![p] = Append(@, [entries |-> batch, tries |-> 0])]
  ELSE /\ open' = [open EXCEPT ![p] = batch]
       /\ UNCHANGED batches

Advance(r) ==
  IF pos[r] < Length
  THEN /\ pos' = [pos EXCEPT ![r] = @ + 1]
       /\ sender' = [sender EXCEPT ![r] = "sending"]
  ELSE /\ sender' = [sender EXCEPT ![r] = "done"]
       /\ UNCHANGED pos

\* err = SendMessage(...): the sender tests it and goes on to the next entry.
Return(r, failed) ==
  IF SharesErr
  THEN /\ err' = [err EXCEPT ![r] = failed]
       /\ sender' = [sender EXCEPT ![r] = "checking"]
       /\ UNCHANGED pos
  ELSE Advance(r) /\ UNCHANGED err

Mutant_Fork(r, p) ==
  /\ Enqueue(Current(r), p)
  /\ Return(r, FALSE)
SendMessage(r, p) ==
  /\ Enqueue(Current(r), p)
  /\ IF Waits
     THEN sender' = [sender EXCEPT ![r] = "waiting"] /\ UNCHANGED <<pos, err>>
     ELSE Return(r, FALSE)

Send(r, p) ==
  /\ Running /\ sender[r] = "sending"
  /\ SendMessage(r, p)
  /\ status' = [status EXCEPT ![Current(r)] = "queued"]
  /\ UNCHANGED <<program, proc, http, wiped, late, topic, reported, told, faults>>

\* The error is logged by the client, or by the sender that tests its own err.
Tells == ClientLogs \/ (client.kind = "librdkafka" /\ ~SharesErr)

Tell(e) == told' = IF Tells THEN told \cup {e} ELSE told

\* The call fails at once: a full queue, or no metadata.  In Java it is mostly
\* the callback that gets the exception.
SendRefused(r) ==
  /\ Running /\ sender[r] = "sending"
  /\ Fault
  /\ status' = [status EXCEPT ![Current(r)] = "refused"]
  /\ Return(r, client.kind # "java")
  /\ Tell(Current(r))
  /\ reported' = IF Tells THEN reported \cup {Current(r)} ELSE reported
  /\ UNCHANGED <<program, proc, http, wiped, open, batches, late, topic>>

\* Java's send throws, at a producer that is closed or a value it cannot
\* serialize: the exception ends the list and is the answer to the request.
SendThrows(r) ==
  /\ Running /\ sender[r] = "sending" /\ client.kind = "java"
  /\ Fault
  /\ status' = [status EXCEPT ![Current(r)] = "refused"]
  /\ sender' = [sender EXCEPT ![r] = "done"]
  /\ http' = [http EXCEPT ![r] = "error"]
  /\ told' = told \cup Sent(r)
  /\ reported' = reported \cup Sent(r)
  /\ UNCHANGED <<program, proc, pos, err, wiped, open, batches, late, topic>>

\* WriteMessages returns with the verdict on the batch.
SendReturns(r) ==
  /\ Running /\ sender[r] = "waiting" /\ status[Current(r)] \in Verdicts
  /\ Return(r, status[Current(r)] # "ok")
  /\ reported' = reported \cup {Current(r)}
  /\ IF status[Current(r)] = "ok" THEN UNCHANGED told ELSE Tell(Current(r))
  /\ UNCHANGED <<program, proc, http, wiped, clientVars, late, topic, faults>>

\* if err != nil, where the handler may have assigned nil in between.
SendCheck(r) ==
  /\ Running /\ sender[r] = "checking"
  /\ told' = IF err[r] THEN told \cup {Current(r)} ELSE told
  /\ reported' = IF err[r] \/ status[Current(r)] = "refused"
                 THEN reported \cup {Current(r)} ELSE reported
  /\ Advance(r)
  /\ UNCHANGED <<program, proc, http, err, wiped, clientVars, late, topic, faults>>

-----------------------------------------------------------------------------
(***************************************************************************)
(* The client's batches.                                                   *)
(***************************************************************************)

\* The timer closes a batch that is not full.
Mutant_OnlyWhenFull(p) == Len(open[p]) = BatchSize
BatchTimeout(p) == open[p] # <<>>

CloseBatch(p) ==
  /\ Running /\ BatchTimeout(p)
  /\ open' = [open EXCEPT ![p] = <<>>]
  /\ batches' = [batches EXCEPT ![p] = Append(@, [entries |-> open[p], tries |-> 0])]
  /\ UNCHANGED <<program, proc, requestVars, status, late, topic, reported, told, faults>>

\* kafka-go writes the batches of a partition one after another; the others
\* have several in flight and retry them in any order.
InFlight(p) == IF client.kind = "kafka-go" THEN DOMAIN batches[p] \cap {1} ELSE DOMAIN batches[p]

Settle(p, i, verdict) ==
  /\ batches' = [batches EXCEPT ![p] = RemoveAt(@, i)]
  /\ status' = [e \in Entry |-> IF e \in ToSet(batches[p][i].entries) THEN verdict ELSE status[e]]
  /\ UNCHANGED open

\* A batch arrives as a whole; a further copy of it changes nothing here.
Arrive(entries) ==
  /\ topic' = IF \A e \in ToSet(entries) : InTopic(e) THEN topic ELSE topic \o entries
  /\ late' = {l \in late : \E e \in ToSet(l) : ~InTopic(e) /\ e \notin ToSet(entries)}

WriteBatch(p, i) ==
  /\ Running
  /\ Arrive(batches[p][i].entries)
  /\ Settle(p, i, "ok")
  /\ UNCHANGED <<program, proc, requestVars, reported, told, faults>>

\* Without acknowledgements a batch that the broker drops is taken for written.
WriteUnacknowledged(p, i) ==
  /\ Running /\ client.acks = 0
  /\ Fault
  /\ Settle(p, i, "ok")
  /\ UNCHANGED <<program, proc, requestVars, late, topic, reported, told>>

\* The attempt fails, or times out and may reach the broker yet.  It is
\* repeated until the attempts are used up, the message times out or the error is
\* one that does not pass.
GivesUp(batch) ==
  IF client.attempts = 0 THEN BOOLEAN ELSE {TRUE, batch.tries + 1 >= client.attempts}

WriteFails(p, i) ==
  /\ Running
  /\ Fault
  /\ late' \in {late, late \cup {batches[p][i].entries}}
  /\ \E over \in GivesUp(batches[p][i]) :
       IF over
       THEN Settle(p, i, "failed")
       ELSE /\ batches' = [batches EXCEPT ![p][i].tries = @ + 1]
            /\ UNCHANGED <<status, open>>
  /\ UNCHANGED <<program, proc, requestVars, topic, reported, told>>

LateArrival(entries) ==
  /\ Running
  /\ Arrive(entries)
  /\ UNCHANGED <<program, proc, requestVars, clientVars, reported, told, faults>>

\* Delivery reports go to the events channel.  The goroutines that SendMessage
\* starts, one for every call, print them in no particular order.  Taking a report
\* and printing it are one step here.
Prints == client.kind = "librdkafka"
Unread == {e \in Entry : Prints /\ status[e] \in {"ok", "failed"} /\ e \notin reported}

PrintReports ==
  /\ Running /\ Unread # {}
  /\ reported' = reported \cup Unread
  /\ told' = told \cup {e \in Unread : status[e] = "failed"}
  /\ UNCHANGED <<program, proc, requestVars, clientVars, late, topic, faults>>

-----------------------------------------------------------------------------
(***************************************************************************)
(* The end of the process.  (A kill freezes the state it strikes.)         *)
(***************************************************************************)
\* ListenAndServe returns, or the application context is closed.
ServerEnds ==
  /\ proc = "up"
  /\ Fault
  /\ proc' = IF "closes" \in handler THEN "closing" ELSE "dead"
  /\ UNCHANGED <<program, requestVars, clientVars, late, topic, reported, told>>

\* Flush waits for the queue and the reports, 15 seconds at most.
Flushed == Unread = {} /\ \A e \in Entry : status[e] # "queued"

Close ==
  /\ proc = "closing"
  /\ \/ Flushed /\ proc' = "closed" /\ UNCHANGED faults
     \/ proc' = "dead" /\ Fault
  /\ UNCHANGED <<program, requestVars, clientVars, late, topic, reported, told>>

-----------------------------------------------------------------------------
RequestStep(r) ==
  \/ Answer(r) \/ AnswerCheck(r) \/ AnswerCompleted(r)
  \/ SendReturns(r) \/ SendCheck(r)
  \/ \E p \in PartitionsOf : Send(r, p)

ClientStep ==
  \/ \E p \in Partitions : CloseBatch(p) \/ \E i \in InFlight(p) : WriteBatch(p, i)
  \/ PrintReports

Disturbance ==
  \/ \E r \in Requests : Reject(r) \/ Accept(r) \/ SendRefused(r) \/ SendThrows(r)
  \/ \E p \in Partitions : \E i \in InFlight(p) : WriteUnacknowledged(p, i) \/ WriteFails(p, i)
  \/ \E entries \in late : LateArrival(entries)
  \/ ServerEnds
  \/ Close

Next ==
  \/ CreateTopic
  \/ \E r \in Requests : RequestStep(r)
  \/ ClientStep
  \/ Disturbance

Spec == Init /\ [][Next]_vars

\* Goroutines are scheduled, timers fire and a broker that works answers.  Every
\* one of these steps brings a request or a batch forward, so one fairness
\* condition on all of them starves none.
ProgramStep == ClientStep \/ \E r \in Requests : RequestStep(r)
FairSpec == Spec /\ WF_vars(ProgramStep)

-----------------------------------------------------------------------------
(***************************************************************************)
(* Properties.                                                             *)
(***************************************************************************)

\* Entries whose fate is sealed: the program knows the verdict and has done
\* what it does with it, or has flushed its queue and ended.
Sealed(e) ==
  \/ e \in reported
  \/ proc = "closed" /\ (status[e] = "queued" \/ e \in Unread)

\* What the programs cannot know: a batch that nobody acknowledges, and an
\* error of the sender that the handler's own assignment to the shared err has
\* wiped out before the sender tested it.
Unknown(e) ==
  \/ client.acks = 0 /\ status[e] = "ok"
  \/ status[e] = "refused" /\ e[1] \in wiped

\* An entry that will not be in the topic has been told of: a line in the log,
\* a delivery report or an error response.  In particular the Java controller's
\* success means that the whole list is in the topic.
LossIsTold ==
  /\ \A e \in Entry : Sealed(e) => InTopic(e) \/ e \in told \/ Unknown(e)
  /\ \A r \in Requests : "waits" \in handler /\ http[r] = "ok" => \A e \in Sent(r) : InTopic(e)

\* The goroutine of /entryList waits for each entry: one that was sent is in
\* the topic before any later entry of its list, in whatever partition, however
\* often and however late batches are repeated.
ListOrder ==
  handler = Lecture5Main =>
    \A n \in DOMAIN topic : \A i \in 1..(topic[n][2] - 1) :
      status[<<topic[n][1], i>>] = "ok" => \E k \in 1..n : topic[k] = <<topic[n][1], i>>

\* Again and again all entries of the requests accepted so far are written or
\* given up and the program has learnt which, unless it has ended.
EveryEntryIsSettled ==
  []<>(~Running \/ \A r \in Requests : sender[r] # "idle" => Sent(r) \subseteq reported)

=============================================================================
