-------------------------- MODULE SendProducerProofs --------------------------
(***************************************************************************)
(* Theorems about the twelve producers, for any requests, partitions,      *)
(* lengths and bounds.                                                     *)
(*                                                                         *)
(* An entry that is queued lies in one batch, filling or closed, and in no *)
(* other (Batched): so it gets one verdict, and keeps it.  "ok" means that *)
(* it is in the topic, unless nobody waits for the broker (Delivered), and *)
(* what a program knows of it agrees with the verdict (Known).  A sender   *)
(* that waits has the verdicts on all earlier entries of its list before   *)
(* it sends the next (Progress), which is what orders a list in the topic. *)
(***************************************************************************)
EXTENDS SendProducer, TLAPS

\* The batch that p is filling is slot 0, the closed ones are slots 1, 2, ...
Slot(p, i) == IF i = 0 THEN open[p] ELSE batches[p][i].entries
Holds(p, i, e) ==
  i \in 0..Len(batches[p]) /\ \E n \in 1..Len(Slot(p, i)) : Slot(p, i)[n] = e

Batched ==
  \A p \in Partitions, i \in Nat, e \in Entry :
    Holds(p, i, e) => /\ status[e] = "queued"
                      /\ \A q \in Partitions, j \in Nat : Holds(q, j, e) => q = p /\ j = i

\* Only what has been sent can arrive.
Written ==
  /\ \A l \in late : \A n \in 1..Len(l) : status[l[n]] # "new"
  /\ \A n \in 1..Len(topic) : status[topic[n]] # "new"

Progress ==
  \A r \in Requests :
    /\ http[r] = "none" => sender[r] = "idle"
    /\ sender[r] = "idle" => pos[r] = 1
    /\ \A i \in 1..ListLength :
         /\ i > pos[r] => status[<<r, i>>] = "new"
         /\ i = pos[r] /\ sender[r] \in {"idle", "sending"} => status[<<r, i>>] = "new"
         /\ Waits /\ i < pos[r] => status[<<r, i>>] \in Verdicts
    /\ sender[r] = "waiting" => Waits

\* The err that is shared is the error of the one entry of the request.
SharedErr ==
  \A r \in Requests :
    /\ sender[r] = "checking" \/ http[r] = "checking" => SharesErr
    /\ err[r] => SharesErr /\ status[Current(r)] \in {"failed", "refused"}
    /\ sender[r] = "checking" /\ status[Current(r)] = "refused" => err[r] \/ r \in wiped

Delivered == \A e \in Entry : status[e] = "ok" => InTopic(e) \/ client.acks = 0

Known ==
  /\ \A e \in reported : \/ e \in told
                         \/ status[e] = "ok"
                         \/ status[e] = "refused" /\ e[1] \in wiped
  /\ \A e \in Entry : status[e] = "refused" /\ Tells => e \in told

Ended == proc = "closed" => Flushed

Answered ==
  \A r \in Requests : "waits" \in handler /\ http[r] = "ok" => \A e \in Sent(r) : InTopic(e)

Inv ==
  /\ TypeOK /\ Batched /\ Written /\ Progress /\ SharedErr
  /\ Delivered /\ Known /\ Ended /\ Answered

-----------------------------------------------------------------------------
(***************************************************************************)
(* Programs and sequences.                                                 *)
(***************************************************************************)

\* What the code of the twelve programs has in common.
LEMMA ProgramFacts ==
  ASSUME program \in Programs
  PROVE  /\ SharesErr => /\ "list" \notin handler /\ "waits" \notin handler
                         /\ client.kind # "java"
         /\ "waits" \in handler => client.acks # 0
         /\ handler = Lecture5Main => Waits /\ client.acks # 0
<1>. USE DEF handler, client, SharesErr, Waits
<1>1. CASE program \in {<<Lecture3Main, Lecture3Client>>, <<ConfluentMain, ConfluentClient>>}
  BY <1>1 DEF Lecture3Main, Lecture3Client, ConfluentMain, ConfluentClient, Lecture5Main
<1>2. CASE program \in {<<SerialisationMain, SerialisationClient>>,
                        <<OffsetsMain, OffsetsClient>>, <<Exercise6Main, Exercise6Client>>}
  BY <1>2 DEF SerialisationMain, SerialisationClient, OffsetsMain, OffsetsClient,
              Exercise6Main, Exercise6Client, Lecture5Main
<1>3. CASE program \in {<<Lecture5Main, Lecture5Client>>, <<Exercise5Main, Exercise5Client>>}
  BY <1>3 DEF Lecture5Main, Lecture5Client, Exercise5Main, Exercise5Client
<1>4. CASE program \in {<<BalancerMain, BalancerClient>>, <<Exercise7Main, Exercise7Client>>}
  BY <1>4 DEF BalancerMain, BalancerClient, Exercise7Main, Exercise7Client, Lecture5Main
<1>5. CASE program \in {<<Controller5, Service5>>, <<Controller6, Service6>>,
                        <<Controller7, Service7>>}
  BY <1>5 DEF Controller5, Service5, Controller6, Service6, Controller7, Service7, Lecture5Main
<1>. QED
  BY <1>1, <1>2, <1>3, <1>4, <1>5 DEF Programs

\* A list has at most ListLength entries; entries are pairs.
LEMMA EntryType ==
  /\ Length \in 1..ListLength /\ ListLength \in Nat \ {0} /\ BatchSize \in Nat \ {0}
  /\ MaxFaults \in Nat
  /\ \A r \in Requests : Sent(r) \subseteq Entry
  /\ \A r \in Requests, i \in 1..ListLength : <<r, i>> \in Entry
  /\ TypeOK => \A r \in Requests : Current(r) \in Entry /\ pos[r] \in 1..ListLength
<1>1. Length \in 1..ListLength /\ ListLength \in Nat \ {0} /\ BatchSize \in Nat \ {0}
      /\ MaxFaults \in Nat
  BY SendAssumption DEF Length
<1>2. \A r \in Requests, i \in 1..ListLength : <<r, i>> \in Entry
  BY DEF Entry
<1>3. \A i \in 1..Length : i \in 1..ListLength
  BY <1>1
<1>4. \A r \in Requests : Sent(r) \subseteq Entry
  BY <1>2, <1>3 DEF Sent
<1>5. TypeOK => \A r \in Requests : Current(r) \in Entry /\ pos[r] \in 1..ListLength
  BY <1>2 DEF TypeOK, Current
<1>. QED
  BY <1>1, <1>2, <1>4, <1>5

\* Append puts an element at the end.
LEMMA AppendType ==
  ASSUME NEW S, NEW s \in Seq(S), NEW e \in S
  PROVE  /\ Append(s, e) \in Seq(S) /\ Len(Append(s, e)) = Len(s) + 1 /\ Len(s) \in Nat
         /\ \A n \in 1..(Len(s) + 1) : Append(s, e)[n] = IF n = Len(s) + 1 THEN e ELSE s[n]
  OBVIOUS

\* \o puts a sequence after another.
LEMMA ConcatType ==
  ASSUME NEW S, NEW s \in Seq(S), NEW t \in Seq(S)
  PROVE  /\ s \o t \in Seq(S) /\ Len(s \o t) = Len(s) + Len(t)
         /\ Len(s) \in Nat /\ Len(t) \in Nat
         /\ \A n \in 1..(Len(s) + Len(t)) :
              (s \o t)[n] = IF n <= Len(s) THEN s[n] ELSE t[n - Len(s)]
<1>1. Len(s) \in Nat /\ Len(t) \in Nat
  OBVIOUS
<1>2. s \o t \in Seq(S)
  OBVIOUS
<1>3. Len(s \o t) = Len(s) + Len(t)
  OBVIOUS
<1>4. ASSUME NEW n \in 1..(Len(s) + Len(t))
      PROVE  (s \o t)[n] = IF n <= Len(s) THEN s[n] ELSE t[n - Len(s)]
  BY <1>1
<1>. QED
  BY <1>1, <1>2, <1>3, <1>4

\* RemoveAt closes the hole it leaves.
LEMMA RemoveAtType ==
  ASSUME NEW S, NEW s \in Seq(S), NEW i \in 1..Len(s)
  PROVE  /\ RemoveAt(s, i) \in Seq(S) /\ Len(RemoveAt(s, i)) = Len(s) - 1 /\ Len(s) \in Nat
         /\ \A j \in 1..(Len(s) - 1) : RemoveAt(s, i)[j] = IF j < i THEN s[j] ELSE s[j + 1]
<1>. DEFINE a == SubSeq(s, 1, i - 1)
            b == SubSeq(s, i + 1, Len(s))
<1>1. Len(s) \in Nat /\ i \in 1..Len(s)
  OBVIOUS
<1>2. a \in Seq(S) /\ Len(a) = i - 1 /\ \A j \in 1..(i - 1) : a[j] = s[j]
  BY <1>1
<1>3. b \in Seq(S) /\ Len(b) = Len(s) - i /\ \A j \in 1..(Len(s) - i) : b[j] = s[i + j]
  BY <1>1
<1>4. RemoveAt(s, i) = a \o b
  BY DEF RemoveAt
<1>. HIDE DEF a, b
<1>5. a \o b \in Seq(S) /\ Len(a \o b) = Len(s) - 1
  <2>1. a \o b \in Seq(S) /\ Len(a \o b) = Len(a) + Len(b)
    BY <1>2, <1>3, ConcatType
  <2>. QED
    BY <1>1, <1>2, <1>3, <2>1
<1>6. ASSUME NEW j \in 1..(Len(s) - 1)
      PROVE  (a \o b)[j] = IF j < i THEN s[j] ELSE s[j + 1]
  <2>1. (a \o b)[j] = IF j <= Len(a) THEN a[j] ELSE b[j - Len(a)]
    <3>1. j \in 1..(Len(a) + Len(b))
      BY <1>1, <1>2, <1>3
    <3>. QED
      BY <1>2, <1>3, <3>1, ConcatType
  <2>2. CASE j < i
    BY <1>1, <1>2, <2>1, <2>2
  <2>3. CASE ~(j < i)
    <3> DEFINE k == j - (i - 1)
    <3>1. (a \o b)[j] = b[k] /\ k \in 1..(Len(s) - i) /\ i + k = j + 1
      BY <1>1, <1>2, <2>1, <2>3
    <3>. HIDE DEF k
    <3>2. b[k] = s[i + k]
      BY <1>3, <3>1
    <3>. QED
      BY <2>3, <3>1, <3>2
  <2>. QED
    BY <2>2, <2>3
<1>. QED
  BY <1>1, <1>4, <1>5, <1>6

-----------------------------------------------------------------------------
(***************************************************************************)
(* What the steps do.                                                      *)
(***************************************************************************)

\* The sender goes on: to the test of the shared err, or to the next entry.
LEMMA ReturnStep ==
  ASSUME TypeOK, NEW r \in Requests, NEW failed \in BOOLEAN, Return(r, failed)
  PROVE  /\ sender' \in [Requests -> {"idle", "sending", "waiting", "checking", "done"}]
         /\ pos' \in [Requests -> 1..ListLength] /\ err' \in [Requests -> BOOLEAN]
         /\ \A q \in Requests \ {r} :
              sender'[q] = sender[q] /\ pos'[q] = pos[q] /\ err'[q] = err[q]
         /\ \/ SharesErr /\ sender'[r] = "checking" /\ pos'[r] = pos[r] /\ err'[r] = failed
            \/ ~SharesErr /\ sender'[r] = "sending" /\ pos'[r] = pos[r] + 1 /\ err' = err
            \/ ~SharesErr /\ sender'[r] = "done" /\ pos'[r] = pos[r] /\ err' = err
<1>1. /\ sender \in [Requests -> {"idle", "sending", "waiting", "checking", "done"}]
      /\ pos \in [Requests -> 1..ListLength] /\ err \in [Requests -> BOOLEAN]
  BY DEF TypeOK
<1>2. CASE SharesErr
  BY <1>1, <1>2 DEF Return
<1>3. CASE ~SharesErr /\ pos[r] < Length
  <2>1. pos[r] + 1 \in 1..ListLength
    BY <1>1, <1>3, EntryType
  <2>2. /\ pos' = [pos EXCEPT ![r] = pos[r] + 1]
        /\ sender' = [sender EXCEPT ![r] = "sending"] /\ err' = err
    BY <1>3 DEF Return, Advance
  <2>. QED
    BY <1>1, <1>3, <2>1, <2>2
<1>4. CASE ~SharesErr /\ ~(pos[r] < Length)
  BY <1>1, <1>4 DEF Return, Advance
<1>. QED
  BY <1>2, <1>3, <1>4

\* After the test of the shared err the request, which has one entry, is done.
LEMMA CheckStep ==
  ASSUME TypeOK, SharedErr, NEW r \in Requests, SendCheck(r)
  PROVE  sender' = [sender EXCEPT ![r] = "done"] /\ pos' = pos /\ SharesErr
<1>1. SharesErr
  BY DEF SendCheck, SharedErr
<1>2. Length = 1
  BY <1>1, ProgramFacts DEF TypeOK, Length
<1>3. ~(pos[r] < Length)
  BY <1>2, EntryType
<1>. QED
  BY <1>1, <1>3 DEF SendCheck, Advance

\* A program sends to partitions of its topic.
LEMMA PartitionsOfType == PartitionsOf \subseteq Partitions
  BY SendAssumption DEF PartitionsOf

\* The program stays the same.
LEMMA SameProgram == [Next]_vars => program' = program
  BY DEF Next, vars, CreateTopic, RequestStep, ClientStep, Disturbance, Answer, AnswerCheck,
         AnswerCompleted, SendReturns, SendCheck, Send, CloseBatch, WriteBatch, PrintReports,
         Reject, Accept, SendRefused, SendThrows, WriteUnacknowledged, WriteFails, LateArrival,
         ServerEnds, Close

\* Only the handler's assignment wipes out an error.
LEMMA WipedStep ==
  [Next]_vars => wiped' = wiped \/ \E r \in Requests : Answer(r)
  BY DEF Next, vars, requestVars, CreateTopic, RequestStep, ClientStep, Disturbance, AnswerCheck,
         AnswerCompleted, SendReturns, SendCheck, Send, CloseBatch, WriteBatch, PrintReports,
         Reject, Accept, SendRefused, SendThrows, WriteUnacknowledged, WriteFails, LateArrival,
         ServerEnds, Close

\* What has been wiped out stays so.
LEMMA WipedGrows ==
  [Next]_vars => wiped \subseteq wiped' /\ wiped' \subseteq wiped \cup Requests
  BY WipedStep DEF Answer

-----------------------------------------------------------------------------
(***************************************************************************)
(* The client's batches.                                                   *)
(***************************************************************************)
OpenType(o) ==
  o \in [Partitions -> Seq(Entry)] /\ \A p \in Partitions : Len(o[p]) < BatchSize

\* Where what is in the slots after a step was before: what is new is in slot
\* t of p, which may also have taken over all of slot 0.
Moved(p, t, new) ==
  \A q \in Partitions, j \in Nat, d \in Entry :
    Holds(q, j, d)' =>
      \/ d \in new /\ q = p /\ j = t
      \/ /\ Holds(q, IF q = p /\ j = t THEN 0 ELSE j, d)
         /\ ~(q = p /\ j = 0 /\ t # 0)

\* A batch is closed: slot 0 becomes the last slot.
LEMMA ClosesStep ==
  ASSUME TypeOK, NEW p \in Partitions, NEW s \in Seq(Entry), NEW new,
         \A n \in 1..Len(s) : s[n] \in new \/ \E k \in 1..Len(open[p]) : s[n] = open[p][k],
         open' = [open EXCEPT ![p] = <<>>],
         batches' = [batches EXCEPT ![p] = Append(@, [entries |-> s, tries |-> 0])]
  PROVE  /\ OpenType(open') /\ batches' \in [Partitions -> Seq(Batch)]
         /\ Moved(p, Len(batches[p]) + 1, new)
<1>. DEFINE t == Len(batches[p]) + 1
            b == [entries |-> s, tries |-> 0]
<1>1. /\ open \in [Partitions -> Seq(Entry)] /\ batches \in [Partitions -> Seq(Batch)]
      /\ \A q \in Partitions : Len(open[q]) < BatchSize
  BY DEF TypeOK
<1>2. b \in Batch /\ b.entries = s
  BY DEF Batch
<1>. HIDE DEF b
<1>3. /\ Append(batches[p], b) \in Seq(Batch)
      /\ Len(Append(batches[p], b)) = t /\ t \in Nat /\ t # 0
      /\ \A n \in 1..t : Append(batches[p], b)[n] = IF n = t THEN b ELSE batches[p][n]
  BY <1>1, <1>2, AppendType
<1>4. batches' = [batches EXCEPT ![p] = Append(batches[p], b)]
  BY DEF b
<1>5. OpenType(open')
  <2>1. open' \in [Partitions -> Seq(Entry)]
    BY <1>1
  <2>2. \A q \in Partitions : Len(open'[q]) < BatchSize
    BY <1>1, EntryType
  <2>. QED
    BY <2>1, <2>2 DEF OpenType
<1>6. batches' \in [Partitions -> Seq(Batch)]
  BY <1>1, <1>3, <1>4
<1>7. ASSUME NEW q \in Partitions, NEW j \in Nat, NEW d \in Entry, Holds(q, j, d)'
      PROVE  \/ d \in new /\ q = p /\ j = t
             \/ /\ Holds(q, IF q = p /\ j = t THEN 0 ELSE j, d)
                /\ ~(q = p /\ j = 0 /\ t # 0)
  <2>1. /\ j \in 0..Len(batches'[q])
        /\ \E n \in 1..Len(Slot(q, j)') : Slot(q, j)'[n] = d
    BY <1>7 DEF Holds
  <2>2. Slot(q, j)' = IF j = 0 THEN open'[q] ELSE batches'[q][j].entries
    BY DEF Slot
  <2>3. CASE q # p
    <3>1. Slot(q, j)' = Slot(q, j) /\ batches'[q] = batches[q]
      BY <1>1, <1>4, <2>2, <2>3 DEF Slot
    <3>. QED
      BY <2>1, <2>3, <3>1 DEF Holds
  <2>4. CASE q = p /\ j = 0
    <3>1. Slot(q, j)' = <<>>
      BY <1>1, <2>2, <2>4
    <3>. QED
      BY <2>1, <3>1
  <2>5. CASE q = p /\ j = t
    <3>1. Slot(q, j)' = s
      BY <1>1, <1>2, <1>3, <1>4, <2>2, <2>5
    <3>2. d \in new \/ \E k \in 1..Len(open[p]) : open[p][k] = d
      BY <2>1, <3>1
    <3>3. (\E k \in 1..Len(open[p]) : open[p][k] = d) => Holds(p, 0, d)
      BY <1>1 DEF Holds, Slot
    <3>. QED
      BY <1>3, <2>5, <3>2, <3>3
  <2>6. CASE q = p /\ j # 0 /\ j # t
    <3>1. j \in 1..t
      BY <1>1, <1>3, <1>4, <2>1, <2>6
    <3>2. Slot(q, j)' = Slot(q, j) /\ j \in 0..Len(batches[q])
      BY <1>1, <1>3, <1>4, <2>2, <2>6, <3>1 DEF Slot
    <3>. QED
      BY <2>1, <2>6, <3>2 DEF Holds
  <2>. QED
    BY <2>3, <2>4, <2>5, <2>6
<1>. HIDE DEF t
<1>8. Moved(p, t, new)
  BY <1>7 DEF Moved
<1>. QED
  BY <1>5, <1>6, <1>8 DEF t

\* An entry is queued: it is in one slot more.
LEMMA EnqueueStep ==
  ASSUME TypeOK, NEW e \in Entry, NEW p \in Partitions, Enqueue(e, p)
  PROVE  /\ OpenType(open') /\ batches' \in [Partitions -> Seq(Batch)]
         /\ \E t \in Nat : t \in {0, Len(batches[p]) + 1} /\ Moved(p, t, {e})
<1>. DEFINE batch == Append(open[p], e)
<1>1. /\ open \in [Partitions -> Seq(Entry)] /\ batches \in [Partitions -> Seq(Batch)]
      /\ \A q \in Partitions : Len(open[q]) < BatchSize /\ Len(open[q]) \in Nat
      /\ Len(batches[p]) + 1 \in Nat /\ BatchSize \in Nat
  BY EntryType DEF TypeOK
<1>2. /\ batch \in Seq(Entry) /\ Len(batch) = Len(open[p]) + 1
      /\ \A n \in 1..(Len(open[p]) + 1) : batch[n] = IF n = Len(open[p]) + 1 THEN e ELSE open[p][n]
  BY <1>1, AppendType
<1>3. CASE Len(batch) = BatchSize
  <2>1. /\ open' = [open EXCEPT ![p] = <<>>]
        /\ batches' = [batches EXCEPT ![p] = Append(@, [entries |-> batch, tries |-> 0])]
    BY <1>3 DEF Enqueue
  <2>. HIDE DEF batch
  <2>2. \A n \in 1..Len(batch) : batch[n] \in {e} \/ \E k \in 1..Len(open[p]) : batch[n] = open[p][k]
    <3>1. ASSUME NEW n \in 1..Len(batch), n # Len(open[p]) + 1
          PROVE  n \in 1..Len(open[p]) /\ batch[n] = open[p][n]
      BY <1>1, <1>2, <3>1
    <3>. QED
      BY <1>1, <1>2, <3>1
  <2>3. batch \in Seq(Entry)
    BY <1>2 DEF batch
  <2>4. /\ OpenType(open') /\ batches' \in [Partitions -> Seq(Batch)]
        /\ Moved(p, Len(batches[p]) + 1, {e})
    BY <2>1, <2>2, <2>3, ClosesStep
  <2>. QED
    BY <1>1, <2>4
<1>4. CASE Len(batch) # BatchSize
  <2>1. open' = [open EXCEPT ![p] = batch] /\ batches' = batches
    BY <1>4 DEF Enqueue
  <2>. HIDE DEF batch
  <2>2. OpenType(open')
    BY <1>1, <1>2, <1>4, <2>1 DEF OpenType
  <2>3. ASSUME NEW q \in Partitions, NEW j \in Nat, NEW d \in Entry, Holds(q, j, d)'
        PROVE  (d \in {e} /\ q = p /\ j = 0) \/ Holds(q, j, d)
    <3>1. /\ j \in 0..Len(batches[q])
          /\ \E n \in 1..Len(Slot(q, j)') : Slot(q, j)'[n] = d
      BY <2>1, <2>3 DEF Holds
    <3>2. CASE q = p /\ j = 0
      <4>1. Slot(q, j)' = batch /\ Slot(q, j) = open[p]
        BY <1>1, <2>1, <3>2 DEF Slot
      <4>2. PICK n \in 1..Len(batch) : batch[n] = d
        BY <3>1, <4>1
      <4>3. CASE n = Len(open[p]) + 1
        BY <1>1, <1>2, <3>2, <4>2, <4>3
      <4>4. CASE n # Len(open[p]) + 1
        <5>1. n \in 1..Len(open[p]) /\ open[p][n] = d
          BY <1>1, <1>2, <4>2, <4>4
        <5>. QED
          BY <3>1, <4>1, <5>1 DEF Holds
      <4>. QED
        BY <4>3, <4>4
    <3>3. CASE ~(q = p /\ j = 0)
      <4>1. Slot(q, j)' = Slot(q, j)
        BY <1>1, <2>1, <3>3 DEF Slot
      <4>. QED
        BY <3>1, <4>1 DEF Holds
    <3>. QED
      BY <3>2, <3>3
  <2>4. Moved(p, 0, {e})
    BY <2>3 DEF Moved
  <2>. QED
    BY <1>1, <2>1, <2>2, <2>4
<1>. QED
  BY <1>3, <1>4

\* A batch leaves its slot with a verdict: those behind it move up.
LEMMA SettleStep ==
  ASSUME TypeOK, NEW p \in Partitions, NEW i \in DOMAIN batches[p], NEW v \in {"ok", "failed"},
         Settle(p, i, v)
  PROVE  /\ open' = open /\ batches' \in [Partitions -> Seq(Batch)]
         /\ i \in 1..Len(batches[p]) /\ Len(batches[p]) \in Nat
         /\ \A e \in Entry : status'[e] = IF Holds(p, i, e) THEN v ELSE status[e]
         /\ status' \in [Entry -> {"new", "queued"} \cup Verdicts]
         /\ \A q \in Partitions, j \in Nat, d \in Entry :
              Holds(q, j, d)' => Holds(q, IF q = p /\ j >= i THEN j + 1 ELSE j, d)
<1>1. /\ open \in [Partitions -> Seq(Entry)] /\ batches \in [Partitions -> Seq(Batch)]
      /\ batches[p] \in Seq(Batch) /\ Len(batches[p]) \in Nat /\ i \in 1..Len(batches[p])
      /\ status \in [Entry -> {"new", "queued"} \cup Verdicts]
  BY DEF TypeOK
<1>2. /\ batches' = [batches EXCEPT ![p] = RemoveAt(batches[p], i)]
      /\ status' = [e \in Entry |-> IF e \in ToSet(batches[p][i].entries) THEN v ELSE status[e]]
      /\ open' = open
  BY DEF Settle
<1>3. /\ RemoveAt(batches[p], i) \in Seq(Batch)
      /\ Len(RemoveAt(batches[p], i)) = Len(batches[p]) - 1
      /\ \A j \in 1..(Len(batches[p]) - 1) :
           RemoveAt(batches[p], i)[j] = IF j < i THEN batches[p][j] ELSE batches[p][j + 1]
  BY <1>1, RemoveAtType
<1>4. batches' \in [Partitions -> Seq(Batch)]
  BY <1>1, <1>2, <1>3
<1>5. ASSUME NEW e \in Entry PROVE e \in ToSet(batches[p][i].entries) <=> Holds(p, i, e)
  <2>1. batches[p][i] \in Batch
    BY <1>1
  <2>2. batches[p][i].entries \in Seq(Entry)
    BY <2>1 DEF Batch
  <2>3. DOMAIN batches[p][i].entries = 1..Len(batches[p][i].entries)
    BY <2>2
  <2>4. i # 0 /\ i \in 0..Len(batches[p])
    BY <1>1
  <2>. QED
    BY <2>3, <2>4 DEF ToSet, Holds, Slot
<1>6. \A e \in Entry : status'[e] = IF Holds(p, i, e) THEN v ELSE status[e]
  BY <1>2, <1>5
<1>7. status' \in [Entry -> {"new", "queued"} \cup Verdicts]
  BY <1>1, <1>2 DEF Verdicts
<1>8. ASSUME NEW q \in Partitions, NEW j \in Nat, NEW d \in Entry, Holds(q, j, d)'
      PROVE  Holds(q, IF q = p /\ j >= i THEN j + 1 ELSE j, d)
  <2>1. /\ j \in 0..Len(batches'[q])
        /\ \E n \in 1..Len(Slot(q, j)') : Slot(q, j)'[n] = d
    BY <1>8 DEF Holds
  <2>2. Slot(q, j)' = IF j = 0 THEN open[q] ELSE batches'[q][j].entries
    BY <1>2 DEF Slot
  <2>3. CASE q # p \/ j = 0
    <3>1. Slot(q, j)' = Slot(q, j) /\ j \in 0..Len(batches[q]) /\ ~(q = p /\ j >= i)
      BY <1>1, <1>2, <2>1, <2>2, <2>3 DEF Slot
    <3>. QED
      BY <2>1, <3>1 DEF Holds
  <2>4. CASE q = p /\ j # 0
    <3>1. j \in 1..(Len(batches[p]) - 1) /\ batches'[q] = RemoveAt(batches[p], i)
      BY <1>1, <1>2, <1>3, <2>1, <2>4
    <3>2. CASE j < i
      <4>1. Slot(q, j)' = Slot(q, j) /\ j \in 0..Len(batches[q])
        <5>1. j \in 0..Len(batches[p])
          BY <1>1, <3>1
        <5>2. batches'[q][j] = batches[p][j]
          BY <1>3, <3>1, <3>2
        <5>. QED
          BY <2>2, <2>4, <5>1, <5>2 DEF Slot
      <4>. QED
        BY <1>1, <2>1, <3>2, <4>1 DEF Holds
    <3>3. CASE ~(j < i)
      <4>1. Slot(q, j)' = Slot(q, j + 1) /\ j + 1 \in 0..Len(batches[q])
        <5>1. j + 1 \in 0..Len(batches[p]) /\ j + 1 # 0
          BY <1>1, <3>1
        <5>2. batches'[q][j] = batches[p][j + 1]
          BY <1>3, <3>1, <3>3
        <5>3. Slot(q, j + 1) = batches[p][j + 1].entries
          BY <2>4, <5>1 DEF Slot
        <5>. QED
          BY <2>2, <2>4, <5>1, <5>2, <5>3
      <4>2. q = p /\ j >= i
        BY <1>1, <2>4, <3>3
      <4>. QED
        BY <2>1, <4>1, <4>2 DEF Holds
    <3>. QED
      BY <3>2, <3>3
  <2>. QED
    BY <2>3, <2>4
<1>. QED
  BY <1>1, <1>2, <1>4, <1>6, <1>7, <1>8

\* A batch is tried again: only its counter changes.
LEMMA RetryStep ==
  ASSUME TypeOK, NEW p \in Partitions, NEW i \in DOMAIN batches[p],
         batches' = [batches EXCEPT ![p][i].tries = @ + 1], open' = open
  PROVE  batches' \in [Partitions -> Seq(Batch)] /\ Moved(p, 0, {})
<1>. DEFINE b == batches[p][i]
            c == [entries |-> b.entries, tries |-> b.tries + 1]
            s == [batches[p] EXCEPT ![i] = c]
<1>1. /\ batches \in [Partitions -> Seq(Batch)] /\ batches[p] \in Seq(Batch)
      /\ Len(batches[p]) \in Nat /\ i \in 1..Len(batches[p]) /\ b \in Batch
  BY DEF TypeOK
<1>2. c \in Batch /\ c.entries = b.entries /\ [b EXCEPT !.tries = @ + 1] = c
  BY <1>1 DEF Batch
<1>3. batches' = [batches EXCEPT ![p] = s]
  <2>. HIDE DEF c
  <2>1. batches' = [batches EXCEPT ![p] = [batches[p] EXCEPT ![i] = [b EXCEPT !.tries = @ + 1]]]
    BY <1>1
  <2>. QED
    BY <1>2, <2>1
<1>. HIDE DEF c
<1>4. /\ s \in Seq(Batch) /\ Len(s) = Len(batches[p])
      /\ \A j \in 1..Len(batches[p]) : s[j] = IF j = i THEN c ELSE batches[p][j]
  BY <1>1, <1>2
<1>. HIDE DEF s
<1>5. batches' \in [Partitions -> Seq(Batch)]
  BY <1>1, <1>3, <1>4
<1>6. ASSUME NEW q \in Partitions, NEW j \in Nat, NEW d \in Entry, Holds(q, j, d)'
      PROVE  Holds(q, j, d)
  <2>1. Len(batches'[q]) = Len(batches[q])
    BY <1>1, <1>3, <1>4
  <2>2. j \in 0..Len(batches[q]) => Slot(q, j)' = Slot(q, j)
    <3>1. CASE j = 0 \/ q # p
      BY <1>1, <1>3, <3>1 DEF Slot
    <3>2. CASE q = p /\ j \in 1..Len(batches[q])
      BY <1>1, <1>2, <1>3, <1>4, <3>2 DEF Slot, b
    <3>. QED
      BY <3>1, <3>2
  <2>. QED
    BY <1>6, <2>1, <2>2 DEF Holds
<1>7. Moved(p, 0, {})
  BY <1>6 DEF Moved
<1>. QED
  BY <1>5, <1>7

\* A batch reaches the topic: it is there afterwards, behind what was there.
LEMMA ArriveStep ==
  ASSUME TypeOK, NEW s \in Seq(Entry), Arrive(s)
  PROVE  /\ topic' \in Seq(Entry) /\ late' \subseteq late
         /\ Len(topic) \in Nat /\ Len(topic') \in Nat /\ Len(topic) <= Len(topic')
         /\ \A n \in 1..Len(topic) : topic'[n] = topic[n]
         /\ \A n \in (Len(topic) + 1)..Len(topic') : \E k \in 1..Len(s) : topic'[n] = s[k]
         /\ \A k \in 1..Len(s) : \E n \in 1..Len(topic') : topic'[n] = s[k]
<1>1. topic \in Seq(Entry) /\ Len(topic) \in Nat /\ Len(s) \in Nat
  BY DEF TypeOK
<1>2. late' \subseteq late
  BY DEF Arrive
<1>3. CASE \A e \in ToSet(s) : InTopic(e)
  <2>1. topic' = topic
    BY <1>3 DEF Arrive
  <2>2. \A k \in 1..Len(s) : s[k] \in ToSet(s)
    BY DEF ToSet
  <2>3. \A k \in 1..Len(s) : \E n \in 1..Len(topic') : topic'[n] = s[k]
    BY <1>1, <1>3, <2>1, <2>2 DEF InTopic
  <2>. QED
    BY <1>1, <1>2, <2>1, <2>3
<1>4. CASE ~(\A e \in ToSet(s) : InTopic(e))
  <2>1. topic' = topic \o s
    BY <1>4 DEF Arrive
  <2>2. /\ topic' \in Seq(Entry) /\ Len(topic') = Len(topic) + Len(s)
        /\ \A n \in 1..(Len(topic) + Len(s)) :
             topic'[n] = IF n <= Len(topic) THEN topic[n] ELSE s[n - Len(topic)]
    BY <1>1, <2>1, ConcatType
  <2>3. ASSUME NEW n \in (Len(topic) + 1)..Len(topic')
        PROVE  \E k \in 1..Len(s) : topic'[n] = s[k]
    <3>1. n - Len(topic) \in 1..Len(s) /\ topic'[n] = s[n - Len(topic)]
      BY <1>1, <2>2
    <3>. QED
      BY <3>1
  <2>4. ASSUME NEW k \in 1..Len(s)
        PROVE  \E n \in 1..Len(topic') : topic'[n] = s[k]
    <3> DEFINE n == Len(topic) + k
    <3>1. n \in 1..(Len(topic) + Len(s)) /\ ~(n <= Len(topic)) /\ n - Len(topic) = k
      BY <1>1
    <3>. HIDE DEF n
    <3>2. topic'[n] = s[n - Len(topic)]
      BY <2>2, <3>1
    <3>. QED
      BY <2>2, <3>1, <3>2
  <2>5. ASSUME NEW n \in 1..Len(topic)
        PROVE  topic'[n] = topic[n]
    <3>1. n \in 1..(Len(topic) + Len(s)) /\ n <= Len(topic)
      BY <1>1
    <3>. QED
      BY <2>2, <3>1
  <2>6. Len(topic') \in Nat /\ Len(topic) <= Len(topic')
    BY <1>1, <2>2
  <2>. QED
    BY <1>1, <1>2, <2>2, <2>3, <2>4, <2>5, <2>6
<1>. QED
  BY <1>3, <1>4

-----------------------------------------------------------------------------
(***************************************************************************)
(* Types.                                                                  *)
(***************************************************************************)

\* Nothing has been requested.
LEMMA InitInv == Init => Inv
<1>. SUFFICES ASSUME Init PROVE Inv
  OBVIOUS
<1>1. TypeOK
  BY EntryType DEF Init, TypeOK
<1>2. \A p \in Partitions, i \in Nat, e \in Entry : ~Holds(p, i, e)
  BY DEF Init, Holds, Slot
<1>3. \A r \in Requests, i \in 1..ListLength : status[<<r, i>>] = "new"
  BY EntryType DEF Init
<1>4. Progress
  BY <1>3, EntryType DEF Init, Progress
<1>5. Known /\ Delivered /\ Written /\ SharedErr /\ Ended /\ Answered
  BY DEF Init, Known, Delivered, Written, SharedErr, Ended, Answered
<1>. QED
  BY <1>1, <1>2, <1>4, <1>5 DEF Inv, Batched

\* Each action preserves the types.
LEMMA NextTyped == TypeOK /\ SharedErr /\ [Next]_vars => TypeOK'
<1>. SUFFICES ASSUME TypeOK, SharedErr, [Next]_vars PROVE TypeOK'
  OBVIOUS
<1>. DEFINE Ends == /\ proc' \in {"starting", "up", "closing", "closed", "dead"}
                    /\ faults' \in 0..MaxFaults
            Http == http' \in [Requests -> {"none", "answering", "checking", "ok", "error"}]
            Sends == /\ sender' \in [Requests -> {"idle", "sending", "waiting", "checking", "done"}]
                     /\ pos' \in [Requests -> 1..ListLength] /\ err' \in [Requests -> BOOLEAN]
            Client == /\ status' \in [Entry -> {"new", "queued"} \cup Verdicts]
                      /\ OpenType(open') /\ batches' \in [Partitions -> Seq(Batch)]
            Broker == late' \subseteq Seq(Entry) /\ topic' \in Seq(Entry)
            Knows == reported' \subseteq Entry /\ told' \subseteq reported'
            Typed == Ends /\ Http /\ Sends /\ Client /\ Broker /\ Knows
<1>1. /\ program \in Programs
      /\ proc \in {"starting", "up", "closing", "closed", "dead"}
      /\ http \in [Requests -> {"none", "answering", "checking", "ok", "error"}]
      /\ sender \in [Requests -> {"idle", "sending", "waiting", "checking", "done"}]
      /\ pos \in [Requests -> 1..ListLength] /\ err \in [Requests -> BOOLEAN]
      /\ status \in [Entry -> {"new", "queued"} \cup Verdicts]
      /\ OpenType(open) /\ batches \in [Partitions -> Seq(Batch)]
      /\ late \subseteq Seq(Entry) /\ topic \in Seq(Entry)
      /\ reported \subseteq Entry /\ told \subseteq reported
      /\ faults \in 0..MaxFaults
  BY DEF TypeOK, OpenType
<1>2. UNCHANGED <<proc, faults>> => Ends
  BY <1>1
<1>3. Fault /\ proc' \in {proc, "up", "closing", "dead"} => Ends
  BY <1>1, EntryType DEF Fault
<1>4. UNCHANGED http => Http
  BY <1>1
<1>5. \A r \in Requests, h \in {"answering", "checking", "ok", "error"} :
        http' = [http EXCEPT ![r] = h] => Http
  BY <1>1
<1>6. UNCHANGED <<sender, pos, err>> => Sends
  BY <1>1
<1>7. \A r \in Requests, f \in BOOLEAN : Return(r, f) => Sends
  BY ReturnStep
<1>8. \A r \in Requests, s \in {"sending", "waiting", "done"} :
        sender' = [sender EXCEPT ![r] = s] /\ UNCHANGED <<pos, err>> => Sends
  BY <1>1
<1>9. UNCHANGED clientVars => Client
  BY <1>1 DEF clientVars
<1>10. UNCHANGED <<late, topic>> => Broker
  BY <1>1
<1>11. \A s \in Seq(Entry) : Arrive(s) => Broker
  BY <1>1, ArriveStep
<1>12. UNCHANGED <<reported, told>> => Knows
  BY <1>1
<1>13. \A r \in Requests : Current(r) \in Entry /\ Sent(r) \subseteq Entry
  BY EntryType
<1>14. \A p \in Partitions : \A i \in DOMAIN batches[p], v \in {"ok", "failed"} :
         Settle(p, i, v) => Client
  BY <1>1, SettleStep
<1>15. \A p \in Partitions : \A i \in DOMAIN batches[p] : batches[p][i].entries \in Seq(Entry)
  <2>1. ASSUME NEW p \in Partitions, NEW i \in DOMAIN batches[p]
        PROVE  batches[p][i].entries \in Seq(Entry)
    <3>1. batches[p][i] \in Batch
      BY <1>1
    <3>. QED
      BY <3>1 DEF Batch
  <2>. QED
    BY <2>1
<1>. HIDE DEF Ends, Http, Sends, Client, Broker, Knows
<1>16. ASSUME CreateTopic PROVE Typed
  <2>1. Ends
    BY <1>1, <1>3, <1>16 DEF CreateTopic, Ends
  <2>. QED
    BY <2>1, <1>4, <1>6, <1>9, <1>10, <1>12, <1>16 DEF CreateTopic, requestVars
<1>17. ASSUME NEW r \in Requests, Reject(r) \/ Accept(r) PROVE Typed
  <2>1. Sends
    BY <1>6, <1>8, <1>17 DEF Reject, Accept
  <2>2. Http
    BY <1>5, <1>17 DEF Reject, Accept
  <2>. QED
    BY <2>1, <2>2, <1>2, <1>9, <1>10, <1>12, <1>17 DEF Reject, Accept
<1>18. ASSUME NEW r \in Requests, Answer(r) PROVE Typed
  <2>1. Http
    BY <1>5, <1>18 DEF Answer
  <2>2. Sends
    BY <1>1, <1>18 DEF Answer, Sends
  <2>. QED
    BY <2>1, <2>2, <1>2, <1>9, <1>10, <1>12, <1>18 DEF Answer
<1>19. ASSUME NEW r \in Requests, AnswerCheck(r) PROVE Typed
  <2>1. Knows
    BY <1>1, <1>13, <1>19 DEF AnswerCheck, Knows
  <2>. QED
    BY <2>1, <1>2, <1>5, <1>6, <1>9, <1>10, <1>19 DEF AnswerCheck
<1>20. ASSUME NEW r \in Requests, AnswerCompleted(r) PROVE Typed
  <2>1. Knows
    BY <1>1, <1>13, <1>20 DEF AnswerCompleted, Knows
  <2>2. Http
    BY <1>5, <1>20 DEF AnswerCompleted
  <2>. QED
    BY <2>1, <2>2, <1>2, <1>6, <1>9, <1>10, <1>20 DEF AnswerCompleted
<1>21. ASSUME NEW r \in Requests, NEW p \in PartitionsOf, Send(r, p) PROVE Typed
  <2>1. OpenType(open') /\ batches' \in [Partitions -> Seq(Batch)]
    <3>1. Enqueue(Current(r), p) /\ p \in Partitions
      BY <1>21, PartitionsOfType DEF Send, SendMessage
    <3>. QED
      BY <1>13, <3>1, EnqueueStep
  <2>2. status' \in [Entry -> {"new", "queued"} \cup Verdicts]
    BY <1>1, <1>21 DEF Send
  <2>3. Sends
    BY <1>7, <1>8, <1>21 DEF Send, SendMessage
  <2>4. Client
    BY <2>1, <2>2 DEF Client
  <2>. QED
    BY <2>3, <2>4, <1>2, <1>4, <1>10, <1>12, <1>21 DEF Send
<1>22. ASSUME NEW r \in Requests, SendRefused(r) PROVE Typed
  <2>1. Client
    BY <1>1, <1>22 DEF SendRefused, Client, Verdicts
  <2>2. Knows
    BY <1>1, <1>13, <1>22 DEF SendRefused, Tell, Knows
  <2>3. Sends
    BY <1>7, <1>22 DEF SendRefused
  <2>. QED
    BY <2>1, <2>2, <2>3, <1>3, <1>4, <1>10, <1>22 DEF SendRefused
<1>22a. ASSUME NEW r \in Requests, SendThrows(r) PROVE Typed
  <2>1. Client
    BY <1>1, <1>22a DEF SendThrows, Client, Verdicts
  <2>2. Knows
    BY <1>1, <1>13, <1>22a DEF SendThrows, Knows
  <2>3. Sends /\ Http
    BY <1>5, <1>8, <1>22a DEF SendThrows
  <2>. QED
    BY <2>1, <2>2, <2>3, <1>3, <1>10, <1>22a DEF SendThrows
<1>23. ASSUME NEW r \in Requests, SendReturns(r) PROVE Typed
  <2>1. Knows
    BY <1>1, <1>13, <1>23 DEF SendReturns, Tell, Knows
  <2>2. Sends
    BY <1>7, <1>23 DEF SendReturns
  <2>. QED
    BY <2>1, <2>2, <1>2, <1>4, <1>9, <1>10, <1>23 DEF SendReturns
<1>24. ASSUME NEW r \in Requests, SendCheck(r) PROVE Typed
  <2>1. Knows
    BY <1>1, <1>13, <1>24 DEF SendCheck, Knows
  <2>2. Sends
    <3>1. sender' = [sender EXCEPT ![r] = "done"] /\ pos' = pos
      BY <1>24, CheckStep
    <3>. QED
      BY <3>1, <1>8, <1>24 DEF SendCheck
  <2>. QED
    BY <2>1, <2>2, <1>2, <1>4, <1>9, <1>10, <1>24 DEF SendCheck
<1>25. ASSUME NEW p \in Partitions, CloseBatch(p) PROVE Typed
  <2>1. /\ open[p] \in Seq(Entry)
        /\ open' = [open EXCEPT ![p] = <<>>]
        /\ batches' = [batches EXCEPT ![p] = Append(@, [entries |-> open[p], tries |-> 0])]
        /\ status' = status
    BY <1>1, <1>25 DEF CloseBatch, OpenType
  <2>2. OpenType(open') /\ batches' \in [Partitions -> Seq(Batch)]
    BY <2>1, ClosesStep
  <2>3. Client
    BY <1>1, <2>1, <2>2 DEF Client
  <2>. QED
    BY <2>3, <1>2, <1>4, <1>6, <1>10, <1>12, <1>25 DEF CloseBatch, requestVars
<1>26. ASSUME NEW p \in Partitions, NEW i \in DOMAIN batches[p], WriteBatch(p, i) PROVE Typed
  BY <1>2, <1>4, <1>6, <1>11, <1>12, <1>14, <1>15, <1>26 DEF WriteBatch, requestVars
<1>27. ASSUME NEW p \in Partitions, NEW i \in DOMAIN batches[p], WriteUnacknowledged(p, i)
       PROVE  Typed
  BY <1>3, <1>4, <1>6, <1>10, <1>12, <1>14, <1>27 DEF WriteUnacknowledged, requestVars
<1>28. ASSUME NEW p \in Partitions, NEW i \in DOMAIN batches[p], WriteFails(p, i) PROVE Typed
  <2>1. Broker
    BY <1>1, <1>15, <1>28 DEF WriteFails, Broker
  <2>2. Client
    <3>1. \/ Settle(p, i, "failed")
          \/ /\ batches' = [batches EXCEPT ![p][i].tries = @ + 1]
             /\ status' = status /\ open' = open
      BY <1>28 DEF WriteFails
    <3>2. CASE Settle(p, i, "failed")
      BY <1>14, <3>2
    <3>3. CASE /\ batches' = [batches EXCEPT ![p][i].tries = @ + 1]
               /\ status' = status /\ open' = open
      <4>1. batches' \in [Partitions -> Seq(Batch)]
        BY <3>3, RetryStep
      <4>. QED
        BY <1>1, <3>3, <4>1 DEF Client
    <3>. QED
      BY <3>1, <3>2, <3>3
  <2>. QED
    BY <2>1, <2>2, <1>3, <1>4, <1>6, <1>12, <1>28 DEF WriteFails, requestVars
<1>29. ASSUME NEW s \in late, LateArrival(s) PROVE Typed
  <2>1. s \in Seq(Entry)
    BY <1>1
  <2>. QED
    BY <2>1, <1>2, <1>4, <1>6, <1>9, <1>11, <1>12, <1>29 DEF LateArrival, requestVars
<1>30. ASSUME PrintReports PROVE Typed
  <2>1. Knows
    BY <1>1, <1>30 DEF PrintReports, Unread, Knows
  <2>. QED
    BY <2>1, <1>2, <1>4, <1>6, <1>9, <1>10, <1>30 DEF PrintReports, requestVars
<1>31. ASSUME ServerEnds \/ Close PROVE Typed
  <2>1. Ends
    BY <1>1, <1>3, <1>31 DEF ServerEnds, Close, Ends
  <2>. QED
    BY <2>1, <1>4, <1>6, <1>9, <1>10, <1>12, <1>31 DEF ServerEnds, Close, requestVars
<1>32. ASSUME UNCHANGED vars PROVE Typed
  BY <1>2, <1>4, <1>6, <1>9, <1>10, <1>12, <1>32 DEF vars, requestVars
<1>33. \A p \in Partitions : InFlight(p) \subseteq DOMAIN batches[p]
  BY DEF InFlight
<1>34. Typed
  <2>. HIDE DEF Typed
  <2>. QED
    BY <1>16, <1>17, <1>18, <1>19, <1>20, <1>21, <1>22, <1>22a, <1>23, <1>24, <1>25, <1>26, <1>27,
       <1>28, <1>29, <1>30, <1>31, <1>32, <1>33
       DEF Next, RequestStep, ClientStep, Disturbance
<1>35. wiped' \subseteq Requests
  BY WipedGrows DEF TypeOK
<1>. QED
  BY <1>1, <1>34, <1>35, SameProgram DEF TypeOK, OpenType, Ends, Http, Sends, Client, Broker, Knows

-----------------------------------------------------------------------------
(***************************************************************************)
(* Verdicts.                                                               *)
(***************************************************************************)

\* The steps that take a new entry from the sender.
Starts(r) ==
  SendRefused(r) \/ SendThrows(r) \/ \E p \in PartitionsOf : Send(r, p)

\* A step changes the status of new entries, or of those that it settles.
LEMMA StatusStep ==
  ASSUME TypeOK, [Next]_vars
  PROVE  \/ UNCHANGED status
         \/ \E r \in Requests : Starts(r)
         \/ \E p \in Partitions : \E i \in DOMAIN batches[p] :
              /\ WriteBatch(p, i) \/ WriteUnacknowledged(p, i) \/ WriteFails(p, i)
              /\ \E v \in {"ok", "failed"} : Settle(p, i, v)
<1>1. \A p \in Partitions : InFlight(p) \subseteq DOMAIN batches[p]
  BY DEF InFlight
<1>2. ASSUME NEW p \in Partitions, NEW i \in InFlight(p),
             WriteBatch(p, i) \/ WriteUnacknowledged(p, i) \/ WriteFails(p, i)
      PROVE  \/ UNCHANGED status
             \/ \E v \in {"ok", "failed"} : Settle(p, i, v)
  BY <1>2 DEF WriteBatch, WriteUnacknowledged, WriteFails
<1>3. \/ UNCHANGED status
      \/ \E r \in Requests : Starts(r)
      \/ \E p \in Partitions : \E i \in InFlight(p) :
           WriteBatch(p, i) \/ WriteUnacknowledged(p, i) \/ WriteFails(p, i)
  BY DEF Next, vars, clientVars, Starts, CreateTopic, RequestStep, ClientStep, Disturbance, Answer,
         AnswerCheck, AnswerCompleted, SendReturns, SendCheck, CloseBatch, PrintReports, Reject,
         Accept, LateArrival, ServerEnds, Close
<1>. QED
  BY <1>1, <1>2, <1>3

\* The entry that is being sent is new, and gets a status.
LEMMA StartsStep ==
  ASSUME TypeOK, Progress, NEW r \in Requests, Starts(r)
  PROVE  /\ status[Current(r)] = "new" /\ sender[r] = "sending"
         /\ \E s \in {"queued", "refused"} : status' = [status EXCEPT ![Current(r)] = s]
<1>1. sender[r] = "sending"
  BY DEF Starts, Send, SendRefused, SendThrows
<1>2. pos[r] \in 1..ListLength
  BY DEF TypeOK
<1>3. status[Current(r)] = "new"
  BY <1>1, <1>2 DEF Progress, Current
<1>4. \E s \in {"queued", "refused"} : status' = [status EXCEPT ![Current(r)] = s]
  BY DEF Starts, Send, SendRefused, SendThrows
<1>. QED
  BY <1>1, <1>3, <1>4

\* An entry gets a verdict once, and no other afterwards.
LEMMA StatusKept ==
  ASSUME TypeOK, Batched, Progress, [Next]_vars, NEW e \in Entry
  PROVE  /\ status[e] \in Verdicts => status'[e] = status[e]
         /\ status[e] # "new" => status'[e] # "new"
         /\ status[e] = "queued" => status'[e] \in {"queued", "ok", "failed"}
         /\ status'[e] # status[e] /\ status[e] = "new" =>
              \E r \in Requests : Starts(r) /\ e = Current(r)
<1>1. CASE UNCHANGED status
  BY <1>1
<1>2. ASSUME NEW r \in Requests, Starts(r)
      PROVE  e # Current(r) => status'[e] = status[e]
  <2>1. PICK s : status' = [status EXCEPT ![Current(r)] = s]
    BY <1>2, StartsStep
  <2>. QED
    BY <2>1 DEF TypeOK
<1>3. ASSUME NEW r \in Requests, Starts(r)
      PROVE  status[Current(r)] = "new" /\ status'[Current(r)] # "new"
  <2>1. PICK s \in {"queued", "refused"} : status' = [status EXCEPT ![Current(r)] = s]
    BY <1>3, StartsStep
  <2>2. Current(r) \in Entry /\ status \in [Entry -> {"new", "queued"} \cup Verdicts]
    BY EntryType DEF TypeOK
  <2>3. status[Current(r)] = "new"
    BY <1>3, StartsStep
  <2>4. status'[Current(r)] = s
    BY <2>1, <2>2
  <2>. QED
    BY <2>3, <2>4
<1>4. ASSUME NEW r \in Requests, Starts(r)
      PROVE  /\ status[e] \in Verdicts => status'[e] = status[e]
             /\ status[e] # "new" => status'[e] # "new"
             /\ status[e] = "queued" => status'[e] \in {"queued", "ok", "failed"}
             /\ status'[e] # status[e] /\ status[e] = "new" =>
                  \E q \in Requests : Starts(q) /\ e = Current(q)
  <2>1. CASE e = Current(r)
    <3>1. status[e] = "new" /\ status'[e] # "new"
      BY <1>3, <1>4, <2>1
    <3>. QED
      BY <1>4, <2>1, <3>1 DEF Verdicts
  <2>2. CASE e # Current(r)
    BY <1>2, <1>4, <2>2
  <2>. QED
    BY <2>1, <2>2
<1>5. ASSUME NEW p \in Partitions, NEW i \in DOMAIN batches[p], NEW v \in {"ok", "failed"},
             Settle(p, i, v)
      PROVE  /\ status[e] \in Verdicts => status'[e] = status[e]
             /\ status[e] # "new" => status'[e] # "new"
             /\ status[e] = "queued" => status'[e] \in {"queued", "ok", "failed"}
             /\ status[e] = "new" => status'[e] = status[e]
  <2>1. /\ status'[e] = IF Holds(p, i, e) THEN v ELSE status[e]
        /\ i \in Nat
    BY <1>5, SettleStep
  <2>2. Holds(p, i, e) => status[e] = "queued"
    BY <2>1 DEF Batched
  <2>. QED
    BY <2>1, <2>2 DEF Verdicts
<1>. QED
  BY <1>1, <1>4, <1>5, StatusStep

\* What is moved within the queue stays where only one batch holds it.
LEMMA MovedKeeps ==
  ASSUME TypeOK, Batched, NEW p \in Partitions, NEW t \in Nat, NEW new \in SUBSET Entry,
         t \in {0, Len(batches[p]) + 1}, Moved(p, t, new),
         \A d \in Entry \ new : status[d] = "queued" => status'[d] = "queued",
         \A d \in new : status[d] # "queued" /\ status'[d] = "queued"
  PROVE  Batched'
<1>. DEFINE Before(q, j) == IF q = p /\ j = t THEN 0 ELSE j
<1>1. ASSUME NEW q \in Partitions, NEW j \in Nat, NEW d \in Entry, Holds(q, j, d)'
      PROVE  \/ d \in new /\ q = p /\ j = t
             \/ Holds(q, Before(q, j), d) /\ ~(q = p /\ j = 0 /\ t # 0)
  BY <1>1 DEF Moved
<1>2. \A q \in Partitions, j \in Nat : Before(q, j) \in Nat
  OBVIOUS
<1>3. \A q \in Partitions, j \in Nat, d \in Entry :
        Holds(q, Before(q, j), d) => status[d] = "queued"
  BY <1>2 DEF Batched
<1>4. ASSUME NEW q \in Partitions, NEW i \in Nat, NEW d \in Entry, Holds(q, i, d)'
      PROVE  status'[d] = "queued"
  <2>1. CASE d \in new
    BY <2>1
  <2>2. CASE d \notin new
    <3>1. Holds(q, Before(q, i), d)
      BY <1>1, <1>4, <2>2
    <3>2. status[d] = "queued"
      BY <1>3, <3>1
    <3>. QED
      BY <2>2, <3>2
  <2>. QED
    BY <2>1, <2>2
<1>5. ASSUME NEW d \in Entry, NEW q \in Partitions, NEW i \in Nat, Holds(q, i, d)',
             NEW r \in Partitions, NEW j \in Nat, Holds(r, j, d)'
      PROVE  r = q /\ j = i
  <2>1. CASE d \in new
    <3>1. ~Holds(q, Before(q, i), d) /\ ~Holds(r, Before(r, j), d)
      BY <1>3, <2>1
    <3>. QED
      BY <1>1, <1>5, <3>1
  <2>2. CASE d \notin new
    <3>1. /\ Holds(q, Before(q, i), d) /\ ~(q = p /\ i = 0 /\ t # 0)
          /\ Holds(r, Before(r, j), d) /\ ~(r = p /\ j = 0 /\ t # 0)
      BY <1>1, <1>5, <2>2
    <3>2. r = q /\ Before(r, j) = Before(q, i)
      BY <1>2, <3>1 DEF Batched
    <3>. QED
      BY <3>1, <3>2
  <2>. QED
    BY <2>1, <2>2
<1>. QED
  BY <1>4, <1>5 DEF Batched

\* An entry that is queued stays in one batch.
LEMMA NextBatched ==
  ASSUME TypeOK, Batched, Progress, [Next]_vars
  PROVE  Batched'
<1>1. ASSUME UNCHANGED <<open, batches>>,
             \A d \in Entry : status[d] = "queued" => status'[d] = "queued"
      PROVE  Batched'
  <2>1. \A p \in Partitions, i \in Nat, d \in Entry : Holds(p, i, d)' <=> Holds(p, i, d)
    BY <1>1 DEF Holds, Slot
  <2>. QED
    BY <1>1, <2>1 DEF Batched
<1>2. ASSUME NEW p \in Partitions, NEW i \in DOMAIN batches[p], NEW v \in {"ok", "failed"},
             Settle(p, i, v)
      PROVE  Batched'
  <2> DEFINE Before(q, j) == IF q = p /\ j >= i THEN j + 1 ELSE j
  <2>1. /\ \A e \in Entry : status'[e] = IF Holds(p, i, e) THEN v ELSE status[e]
        /\ i \in Nat
    BY <1>2, SettleStep
  <2>2. \A q \in Partitions, j \in Nat, d \in Entry :
          Holds(q, j, d)' => Holds(q, Before(q, j), d)
    BY <1>2, SettleStep
  <2>3. \A q \in Partitions, j \in Nat : Before(q, j) \in Nat /\ ~(q = p /\ Before(q, j) = i)
    BY <2>1
  <2>4. \A q \in Partitions, j, k \in Nat : Before(q, j) = Before(q, k) => j = k
    BY <2>1
  <2>. HIDE DEF Before
  <2>5. ASSUME NEW q \in Partitions, NEW j \in Nat, NEW d \in Entry, Holds(q, j, d)'
        PROVE  status'[d] = "queued"
    <3>1. Holds(q, Before(q, j), d)
      BY <2>2, <2>5
    <3>2. ~Holds(p, i, d) /\ status[d] = "queued"
      BY <2>1, <2>3, <3>1 DEF Batched
    <3>. QED
      BY <2>1, <3>2
  <2>6. ASSUME NEW d \in Entry, NEW q \in Partitions, NEW j \in Nat, Holds(q, j, d)',
               NEW r \in Partitions, NEW k \in Nat, Holds(r, k, d)'
        PROVE  r = q /\ k = j
    <3>1. Holds(q, Before(q, j), d) /\ Holds(r, Before(r, k), d)
      BY <2>2, <2>6
    <3>2. r = q /\ Before(r, k) = Before(q, j)
      BY <2>3, <3>1 DEF Batched
    <3>. QED
      BY <2>4, <3>2
  <2>. QED
    BY <2>5, <2>6 DEF Batched
<1>3. ASSUME NEW r \in Requests, NEW p \in PartitionsOf, Send(r, p)
      PROVE  Batched'
  <2>1. Starts(r) /\ p \in Partitions /\ Current(r) \in Entry
    BY <1>3, PartitionsOfType, EntryType DEF Starts
  <2>2. PICK t \in Nat : t \in {0, Len(batches[p]) + 1} /\ Moved(p, t, {Current(r)})
    BY <1>3, <2>1, EnqueueStep DEF Send, SendMessage
  <2>3. status[Current(r)] = "new" /\ status' = [status EXCEPT ![Current(r)] = "queued"]
    BY <1>3, <2>1, StartsStep DEF Send
  <2>4. status \in [Entry -> {"new", "queued"} \cup Verdicts]
    BY DEF TypeOK
  <2>5. /\ \A d \in Entry \ {Current(r)} : status[d] = "queued" => status'[d] = "queued"
        /\ \A d \in {Current(r)} : status[d] # "queued" /\ status'[d] = "queued"
    BY <2>1, <2>3, <2>4
  <2>. QED
    BY <2>1, <2>2, <2>5, MovedKeeps
<1>4. ASSUME NEW r \in Requests, SendRefused(r) \/ SendThrows(r)
      PROVE  Batched'
  <2>1. status[Current(r)] = "new" /\ status' = [status EXCEPT ![Current(r)] = "refused"]
    BY <1>4, StartsStep DEF SendRefused, SendThrows, Starts
  <2>2. \A d \in Entry : status[d] = "queued" => status'[d] = "queued"
    BY <2>1 DEF TypeOK
  <2>. QED
    BY <1>1, <1>4, <2>2 DEF SendRefused, SendThrows
<1>5. ASSUME NEW p \in Partitions, CloseBatch(p)
      PROVE  Batched'
  <2>1. /\ open[p] \in Seq(Entry)
        /\ open' = [open EXCEPT ![p] = <<>>]
        /\ batches' = [batches EXCEPT ![p] = Append(@, [entries |-> open[p], tries |-> 0])]
        /\ status' = status
    BY <1>5 DEF CloseBatch, TypeOK
  <2>2. Moved(p, Len(batches[p]) + 1, {})
    BY <2>1, ClosesStep
  <2>3. Len(batches[p]) + 1 \in Nat
    BY DEF TypeOK
  <2>. QED
    BY <2>1, <2>2, <2>3, MovedKeeps
<1>6. ASSUME NEW p \in Partitions, NEW i \in DOMAIN batches[p],
             batches' = [batches EXCEPT ![p][i].tries = @ + 1], UNCHANGED <<status, open>>
      PROVE  Batched'
  <2>1. Moved(p, 0, {})
    BY <1>6, RetryStep
  <2>2. 0 \in Nat /\ 0 \in {0, Len(batches[p]) + 1} /\ {} \in SUBSET Entry
    OBVIOUS
  <2>3. /\ \A d \in Entry \ {} : status[d] = "queued" => status'[d] = "queued"
        /\ \A d \in {} : status[d] # "queued" /\ status'[d] = "queued"
    BY <1>6
  <2>. QED
    BY <2>1, <2>2, <2>3, MovedKeeps
<1>7. ASSUME NEW p \in Partitions, NEW i \in DOMAIN batches[p],
             WriteBatch(p, i) \/ WriteUnacknowledged(p, i) \/ WriteFails(p, i)
      PROVE  Batched'
  <2>1. \/ Settle(p, i, "ok") \/ Settle(p, i, "failed")
        \/ batches' = [batches EXCEPT ![p][i].tries = @ + 1] /\ UNCHANGED <<status, open>>
    BY <1>7 DEF WriteBatch, WriteUnacknowledged, WriteFails
  <2>. QED
    BY <1>2, <1>6, <2>1
<1>8. \A p \in Partitions : InFlight(p) \subseteq DOMAIN batches[p]
  BY DEF InFlight
<1>9. \/ UNCHANGED <<open, batches, status>>
      \/ \E r \in Requests : Starts(r)
      \/ \E p \in Partitions : CloseBatch(p)
      \/ \E p \in Partitions : \E i \in InFlight(p) :
           WriteBatch(p, i) \/ WriteUnacknowledged(p, i) \/ WriteFails(p, i)
  BY DEF Next, vars, clientVars, CreateTopic, RequestStep, ClientStep, Disturbance, Answer,
         AnswerCheck, AnswerCompleted, SendReturns, SendCheck, PrintReports, Reject,
         Accept, LateArrival, ServerEnds, Close, Starts
<1>. QED
  BY <1>1, <1>3, <1>4, <1>5, <1>7, <1>8, <1>9 DEF Starts

-----------------------------------------------------------------------------
(***************************************************************************)
(* The topic.                                                              *)
(***************************************************************************)

\* The batches that may arrive: those of the queue, and those that are late.
Underway(s) ==
  s \in late \/ \E p \in Partitions : \E i \in DOMAIN batches[p] : s = batches[p][i].entries

\* A step lets one batch arrive, or makes it late, or does neither.
LEMMA TopicStep ==
  ASSUME TypeOK, [Next]_vars
  PROVE  \/ UNCHANGED <<late, topic>>
         \/ \E s \in Seq(Entry) :
              /\ Underway(s)
              /\ Arrive(s) \/ (topic' = topic /\ late' \subseteq late \cup {s})
<1>1. \A p \in Partitions : InFlight(p) \subseteq DOMAIN batches[p]
  BY DEF InFlight
<1>2. ASSUME NEW p \in Partitions, NEW i \in DOMAIN batches[p]
      PROVE  batches[p][i].entries \in Seq(Entry)
  <2>1. batches[p] \in Seq(Batch)
    BY DEF TypeOK
  <2>2. batches[p][i] \in Batch
    BY <2>1
  <2>. QED
    BY <2>2 DEF Batch
<1>3. \A l \in late : l \in Seq(Entry)
  BY DEF TypeOK
<1>4. ASSUME NEW p \in Partitions, NEW i \in InFlight(p), WriteBatch(p, i)
      PROVE  \E s \in Seq(Entry) : Underway(s) /\ Arrive(s)
  BY <1>1, <1>2, <1>4 DEF WriteBatch, Underway
<1>5. ASSUME NEW p \in Partitions, NEW i \in InFlight(p), WriteFails(p, i)
      PROVE  \E s \in Seq(Entry) : Underway(s) /\ topic' = topic /\ late' \subseteq late \cup {s}
  BY <1>1, <1>2, <1>5 DEF WriteFails, Underway
<1>6. ASSUME NEW s \in late, LateArrival(s)
      PROVE  \E l \in Seq(Entry) : Underway(l) /\ Arrive(l)
  BY <1>3, <1>6 DEF LateArrival, Underway
<1>7. \/ UNCHANGED <<late, topic>>
      \/ \E p \in Partitions : \E i \in InFlight(p) : WriteBatch(p, i) \/ WriteFails(p, i)
      \/ \E s \in late : LateArrival(s)
  BY DEF Next, vars, clientVars, CreateTopic, RequestStep, ClientStep, Disturbance, Answer,
         AnswerCheck, AnswerCompleted, SendReturns, SendCheck, Send, CloseBatch, PrintReports,
         Reject, Accept, SendRefused, SendThrows, WriteUnacknowledged, ServerEnds, Close
<1>. QED
  BY <1>4, <1>5, <1>6, <1>7

\* What is under way has been sent.
LEMMA UnderwaySent ==
  ASSUME TypeOK, Batched, Written, NEW s \in Seq(Entry), Underway(s), NEW k \in 1..Len(s)
  PROVE  s[k] \in Entry /\ status[s[k]] # "new"
<1>1. s[k] \in Entry
  OBVIOUS
<1>2. CASE s \in late
  BY <1>1, <1>2 DEF Written
<1>3. ASSUME NEW p \in Partitions, NEW i \in DOMAIN batches[p], s = batches[p][i].entries
      PROVE  status[s[k]] = "queued"
  <2>1. batches[p] \in Seq(Batch)
    BY DEF TypeOK
  <2>2. i \in 1..Len(batches[p]) /\ Len(batches[p]) \in Nat
    BY <2>1
  <2>3. i \in Nat /\ i # 0 /\ i \in 0..Len(batches[p])
    BY <2>2
  <2>4. Slot(p, i) = s
    BY <1>3, <2>3 DEF Slot
  <2>5. Holds(p, i, s[k])
    BY <2>3, <2>4 DEF Holds
  <2>. QED
    BY <1>1, <2>3, <2>5 DEF Batched
<1>. QED
  BY <1>1, <1>2, <1>3 DEF Underway

\* The topic only grows, and by entries that have been sent.
LEMMA TopicGrows ==
  ASSUME TypeOK, Batched, Written, [Next]_vars
  PROVE  /\ topic \in Seq(Entry) /\ topic' \in Seq(Entry)
         /\ Len(topic) \in Nat /\ Len(topic') \in Nat /\ Len(topic) <= Len(topic')
         /\ \A n \in 1..Len(topic) : topic'[n] = topic[n]
         /\ \A n \in (Len(topic) + 1)..Len(topic') : status[topic'[n]] # "new"
<1>1. topic \in Seq(Entry) /\ Len(topic) \in Nat
  BY DEF TypeOK
<1>2. CASE topic' = topic
  <2>1. \A n \in (Len(topic) + 1)..Len(topic') : FALSE
    BY <1>1, <1>2
  <2>. QED
    BY <1>1, <1>2, <2>1
<1>3. ASSUME NEW s \in Seq(Entry), Underway(s), Arrive(s)
      PROVE  /\ topic' \in Seq(Entry) /\ Len(topic') \in Nat /\ Len(topic) <= Len(topic')
             /\ \A n \in 1..Len(topic) : topic'[n] = topic[n]
             /\ \A n \in (Len(topic) + 1)..Len(topic') : status[topic'[n]] # "new"
  <2>1. ASSUME NEW n \in (Len(topic) + 1)..Len(topic')
        PROVE  status[topic'[n]] # "new"
    <3>1. PICK k \in 1..Len(s) : topic'[n] = s[k]
      BY <1>3, ArriveStep
    <3>. QED
      BY <1>3, <3>1, UnderwaySent
  <2>. QED
    BY <1>3, <2>1, ArriveStep
<1>. QED
  BY <1>1, <1>2, <1>3, TopicStep

\* What is in the topic stays there.
LEMMA InTopicKept ==
  ASSUME TypeOK, Batched, Written, [Next]_vars, NEW e \in Entry, InTopic(e)
  PROVE  InTopic(e)'
<1>1. PICK n \in 1..Len(topic) : topic[n] = e
  BY DEF InTopic, TypeOK
<1>2. topic' \in Seq(Entry) /\ n \in 1..Len(topic') /\ topic'[n] = e
  BY <1>1, TopicGrows
<1>. QED
  BY <1>2 DEF InTopic

\* Only what has been sent arrives.
LEMMA NextWritten ==
  ASSUME TypeOK, Batched, Written, Progress, [Next]_vars
  PROVE  Written'
<1>1. ASSUME NEW n \in 1..Len(topic')
      PROVE  status'[topic'[n]] # "new"
  <2>1. topic'[n] \in Entry
    BY TopicGrows
  <2>2. CASE n \in 1..Len(topic)
    BY <2>1, <2>2, TopicGrows, StatusKept DEF Written
  <2>3. CASE n \notin 1..Len(topic)
    <3>1. n \in (Len(topic) + 1)..Len(topic')
      BY <2>3, TopicGrows
    <3>2. status[topic'[n]] # "new"
      BY <3>1, TopicGrows
    <3>. QED
      BY <2>1, <3>2, StatusKept
  <2>. QED
    BY <2>2, <2>3
<1>2. ASSUME NEW l \in late', NEW n \in 1..Len(l)
      PROVE  status'[l[n]] # "new"
  <2>1. l \in late \/ (l \in Seq(Entry) /\ Underway(l))
    BY <1>2, TopicStep DEF Arrive
  <2>2. l \in Seq(Entry) /\ Underway(l)
    BY <2>1 DEF TypeOK, Underway
  <2>3. l[n] \in Entry /\ status[l[n]] # "new"
    BY <1>2, <2>2, UnderwaySent
  <2>. QED
    BY <2>3, StatusKept
<1>. QED
  BY <1>1, <1>2 DEF Written

-----------------------------------------------------------------------------
(***************************************************************************)
(* Requests.                                                               *)
(***************************************************************************)

\* The steps that change the state of a request.
LEMMA RequestCases ==
  ASSUME [Next]_vars
  PROVE  \/ UNCHANGED requestVars
         \/ \E r \in Requests : \/ Reject(r) \/ Accept(r) \/ Answer(r) \/ AnswerCheck(r)
                                \/ AnswerCompleted(r)
         \/ \E r \in Requests : Starts(r) \/ SendReturns(r) \/ SendCheck(r)
  BY DEF Next, vars, Starts, CreateTopic, RequestStep, ClientStep, Disturbance, CloseBatch,
         WriteBatch, PrintReports, WriteUnacknowledged, WriteFails, LateArrival, ServerEnds, Close

\* The sender of r waits for the verdict, or goes on.
LEMMA StartsMoves ==
  ASSUME TypeOK, Progress, NEW r \in Requests, Starts(r)
  PROVE  /\ \A q \in Requests \ {r} :
              sender'[q] = sender[q] /\ pos'[q] = pos[q] /\ err'[q] = err[q]
         /\ \/ http' = http
            \/ http' = [http EXCEPT ![r] = "error"] /\ sender'[r] = "done"
         /\ status'[Current(r)] \in {"queued", "refused"}
         /\ \/ /\ Waits /\ sender'[r] = "waiting" /\ pos'[r] = pos[r] /\ err'[r] = err[r]
            \/ /\ SharesErr /\ sender'[r] = "checking" /\ pos'[r] = pos[r]
               /\ err'[r] <=> status'[Current(r)] = "refused"
            \/ /\ ~SharesErr /\ sender'[r] = "sending" /\ pos'[r] = pos[r] + 1
               /\ err'[r] = err[r]
               /\ Waits => status'[Current(r)] = "refused"
            \/ ~SharesErr /\ sender'[r] = "done" /\ pos'[r] = pos[r] /\ err'[r] = err[r]
<1>1. /\ sender \in [Requests -> {"idle", "sending", "waiting", "checking", "done"}]
      /\ status \in [Entry -> {"new", "queued"} \cup Verdicts] /\ Current(r) \in Entry
  BY EntryType DEF TypeOK
<1>2. ASSUME NEW p \in PartitionsOf, Send(r, p), Waits
      PROVE  /\ sender' = [sender EXCEPT ![r] = "waiting"] /\ pos' = pos /\ err' = err
             /\ http' = http /\ status'[Current(r)] = "queued"
  BY <1>1, <1>2 DEF Send, SendMessage
<1>3. ASSUME NEW p \in PartitionsOf, Send(r, p), ~Waits
      PROVE  Return(r, FALSE) /\ http' = http /\ status'[Current(r)] = "queued"
  BY <1>1, <1>3 DEF Send, SendMessage
<1>4. ASSUME SendRefused(r)
      PROVE  /\ Return(r, client.kind # "java") /\ http' = http
             /\ status'[Current(r)] = "refused"
  BY <1>1, <1>4 DEF SendRefused
<1>4a. SharesErr => client.kind # "java"
  BY ProgramFacts DEF TypeOK
<1>5. \/ \E p \in PartitionsOf : Send(r, p) /\ Waits
      \/ \E p \in PartitionsOf : Send(r, p) /\ ~Waits
      \/ SendRefused(r) \/ SendThrows(r)
  BY DEF Starts
<1>6. CASE \E p \in PartitionsOf : Send(r, p) /\ Waits
  BY <1>1, <1>2, <1>6
<1>7. CASE \E p \in PartitionsOf : Send(r, p) /\ ~Waits
  BY <1>3, <1>7, ReturnStep
<1>8. CASE SendRefused(r)
  BY <1>4, <1>4a, <1>8, ReturnStep
<1>9. CASE SendThrows(r)
  <2>1. /\ sender' = [sender EXCEPT ![r] = "done"] /\ http' = [http EXCEPT ![r] = "error"]
        /\ pos' = pos /\ err' = err /\ status' = [status EXCEPT ![Current(r)] = "refused"]
        /\ ~SharesErr
    BY <1>4a, <1>9 DEF SendThrows
  <2>. QED
    BY <1>1, <2>1
<1>. QED
  BY <1>5, <1>6, <1>7, <1>8, <1>9

\* WriteMessages returns: the sender of r knows the verdict, and goes on.
LEMMA ReturnsMoves ==
  ASSUME TypeOK, NEW r \in Requests, SendReturns(r)
  PROVE  /\ \A q \in Requests \ {r} :
              sender'[q] = sender[q] /\ pos'[q] = pos[q] /\ err'[q] = err[q]
         /\ http' = http /\ status' = status
         /\ sender[r] = "waiting" /\ status[Current(r)] \in Verdicts
         /\ \/ /\ SharesErr /\ sender'[r] = "checking" /\ pos'[r] = pos[r]
               /\ err'[r] <=> status[Current(r)] \in {"failed", "refused"}
            \/ /\ ~SharesErr /\ sender'[r] = "sending" /\ pos'[r] = pos[r] + 1
               /\ err'[r] = err[r]
            \/ ~SharesErr /\ sender'[r] = "done" /\ pos'[r] = pos[r] /\ err'[r] = err[r]
<1>1. /\ Return(r, status[Current(r)] # "ok") /\ http' = http /\ status' = status
      /\ sender[r] = "waiting" /\ status[Current(r)] \in Verdicts
  BY DEF SendReturns, clientVars
<1>2. (status[Current(r)] # "ok") \in BOOLEAN
  OBVIOUS
<1>. QED
  BY <1>1, <1>2, ReturnStep DEF Verdicts

\* What a step makes of the sender of a request.
LEMMA SenderStep ==
  ASSUME TypeOK, Batched, Progress, SharedErr, [Next]_vars, NEW r \in Requests
  PROVE  /\ Starts(r) => sender'[r] # "idle" /\ (sender'[r] = "sending" => pos'[r] = pos[r] + 1)
         /\ http'[r] = "none" => http[r] = "none" /\ sender'[r] = sender[r] /\ pos'[r] = pos[r]
         /\ \/ sender'[r] = sender[r] /\ pos'[r] = pos[r]
            \/ sender[r] = "idle" /\ sender'[r] = "sending" /\ pos'[r] = pos[r]
            \/ Waits /\ sender'[r] = "waiting" /\ pos'[r] = pos[r]
            \/ sender'[r] \in {"checking", "done"} /\ pos'[r] = pos[r]
            \/ /\ sender'[r] = "sending" /\ pos'[r] = pos[r] + 1
               /\ Waits => status'[Current(r)] \in Verdicts
         /\ sender'[r] = "checking" \/ http'[r] = "checking" => SharesErr
         /\ SharesErr => pos'[r] = pos[r]
         /\ err'[r] => \/ err[r]
                       \/ SharesErr /\ status'[Current(r)] \in {"failed", "refused"}
<1>. DEFINE OK ==
         /\ Starts(r) => sender'[r] # "idle" /\ (sender'[r] = "sending" => pos'[r] = pos[r] + 1)
         /\ http'[r] = "none" => http[r] = "none" /\ sender'[r] = sender[r] /\ pos'[r] = pos[r]
         /\ \/ sender'[r] = sender[r] /\ pos'[r] = pos[r]
            \/ sender[r] = "idle" /\ sender'[r] = "sending" /\ pos'[r] = pos[r]
            \/ Waits /\ sender'[r] = "waiting" /\ pos'[r] = pos[r]
            \/ sender'[r] \in {"checking", "done"} /\ pos'[r] = pos[r]
            \/ /\ sender'[r] = "sending" /\ pos'[r] = pos[r] + 1
               /\ Waits => status'[Current(r)] \in Verdicts
         /\ sender'[r] = "checking" \/ http'[r] = "checking" => SharesErr
         /\ SharesErr => pos'[r] = pos[r]
         /\ err'[r] => \/ err[r]
                       \/ SharesErr /\ status'[Current(r)] \in {"failed", "refused"}
<1>1. /\ http \in [Requests -> {"none", "answering", "checking", "ok", "error"}]
      /\ sender \in [Requests -> {"idle", "sending", "waiting", "checking", "done"}]
      /\ err \in [Requests -> BOOLEAN]
  BY DEF TypeOK
<1>2. /\ sender[r] = "checking" \/ http[r] = "checking" => SharesErr
      /\ http[r] = "none" => sender[r] = "idle"
  BY DEF SharedErr, Progress
<1>3. Starts(r) => sender[r] = "sending"
  BY StartsStep
<1>4. CASE Starts(r)
  <2>1. http[r] # "none" /\ http'[r] \in {http[r], "error"}
    BY <1>1, <1>2, <1>3, <1>4, StartsMoves
  <2>2. Waits /\ status'[Current(r)] = "refused" => status'[Current(r)] \in Verdicts
    BY DEF Verdicts
  <2>. QED
    BY <1>2, <1>4, <2>1, <2>2, StartsMoves
<1>5. CASE ~Starts(r) /\ UNCHANGED requestVars
  BY <1>2, <1>5 DEF requestVars
<1>6. ASSUME NEW q \in Requests, Reject(q) \/ Accept(q) \/ Answer(q) \/ AnswerCheck(q)
                                 \/ AnswerCompleted(q), ~Starts(r)
      PROVE  OK
  <2>1. CASE Reject(q) \/ AnswerCheck(q) \/ AnswerCompleted(q)
    BY <1>1, <1>2, <1>6, <2>1 DEF Reject, AnswerCheck, AnswerCompleted
  <2>2. CASE Accept(q)
    BY <1>1, <1>2, <1>6, <2>2 DEF Accept
  <2>3. CASE Answer(q)
    BY <1>1, <1>2, <1>6, <2>3 DEF Answer
  <2>. QED
    BY <1>6, <2>1, <2>2, <2>3
<1>7. ASSUME NEW q \in Requests, Starts(q), ~Starts(r)
      PROVE  OK
  <2>1. http'[r] = http[r]
    BY <1>1, <1>7, StartsMoves
  <2>. QED
    BY <1>2, <1>7, <2>1, StartsMoves
<1>8. ASSUME NEW q \in Requests, SendReturns(q), ~Starts(r)
      PROVE  OK
  BY <1>2, <1>8, ReturnsMoves
<1>9. ASSUME NEW q \in Requests, SendCheck(q), ~Starts(r)
      PROVE  OK
  <2>1. sender' = [sender EXCEPT ![q] = "done"] /\ pos' = pos /\ err' = err /\ http' = http
        /\ sender[q] = "checking"
    BY <1>9, CheckStep DEF SendCheck
  <2>. QED
    BY <1>1, <1>2, <1>9, <2>1
<1>. HIDE DEF OK
<1>10. OK
  BY <1>4, <1>5, <1>6, <1>7, <1>8, <1>9, RequestCases DEF OK
<1>. QED
  BY <1>10 DEF OK

\* Senders send entry after entry; kafka-go's have the verdicts on those before.
LEMMA NextProgress ==
  ASSUME TypeOK, Batched, Progress, SharedErr, [Next]_vars
  PROVE  Progress'
<1>1. program' = program
  BY SameProgram
<1>2. Waits' <=> Waits
  BY <1>1 DEF Waits, client
<1>3. ASSUME NEW r \in Requests
      PROVE  /\ http'[r] = "none" => sender'[r] = "idle"
             /\ sender'[r] = "idle" => pos'[r] = 1
             /\ sender'[r] = "waiting" => Waits
  BY SenderStep DEF Progress
<1>4. ASSUME NEW r \in Requests, NEW i \in 1..ListLength
      PROVE  /\ i > pos'[r] => status'[<<r, i>>] = "new"
             /\ i = pos'[r] /\ sender'[r] \in {"idle", "sending"} => status'[<<r, i>>] = "new"
             /\ Waits /\ i < pos'[r] => status'[<<r, i>>] \in Verdicts
  <2>1. <<r, i>> \in Entry /\ i \in Nat /\ pos[r] \in Nat /\ pos'[r] \in {pos[r], pos[r] + 1}
    <3>1. pos[r] \in 1..ListLength /\ ListLength \in Nat
      BY EntryType
    <3>. QED
      BY <3>1, EntryType, SenderStep
  <2>2. /\ i > pos[r] => status[<<r, i>>] = "new"
        /\ i = pos[r] /\ sender[r] \in {"idle", "sending"} => status[<<r, i>>] = "new"
        /\ Waits /\ i < pos[r] => status[<<r, i>>] \in Verdicts
    BY DEF Progress
  <2>3. ASSUME status[<<r, i>>] = "new", status'[<<r, i>>] # "new"
        PROVE  Starts(r) /\ i = pos[r]
    <3>1. PICK q \in Requests : Starts(q) /\ <<r, i>> = Current(q)
      BY <2>1, <2>3, StatusKept
    <3>. QED
      BY <3>1 DEF Current
  <2>4. status[<<r, i>>] \in Verdicts => status'[<<r, i>>] \in Verdicts
    BY <2>1, StatusKept
  <2>5. i > pos'[r] => status'[<<r, i>>] = "new"
    <3>1. i > pos'[r] => i > pos[r] /\ i # pos[r]
      BY <2>1
    <3>. QED
      BY <2>2, <2>3, <3>1
  <2>6. ASSUME i = pos'[r], sender'[r] \in {"idle", "sending"}
        PROVE  status'[<<r, i>>] = "new"
    <3>1. CASE pos'[r] = pos[r]
      <4>1. ~Starts(r)
        <5>1. pos[r] # pos[r] + 1
          BY <2>1
        <5>. QED
          BY <2>6, <3>1, <5>1, SenderStep
      <4>2. sender[r] \in {"idle", "sending"}
        <5>1. pos[r] # pos[r] + 1
          BY <2>1
        <5>. QED
          BY <2>6, <3>1, <5>1, SenderStep
      <4>. QED
        BY <2>2, <2>3, <2>6, <3>1, <4>1, <4>2
    <3>2. CASE pos'[r] = pos[r] + 1
      <4>1. i > pos[r] /\ i # pos[r]
        BY <2>1, <2>6, <3>2
      <4>. QED
        BY <2>2, <2>3, <4>1
    <3>. QED
      BY <2>1, <3>1, <3>2
  <2>7. ASSUME Waits, i < pos'[r]
        PROVE  status'[<<r, i>>] \in Verdicts
    <3>1. CASE i < pos[r]
      BY <2>2, <2>4, <2>7, <3>1
    <3>2. CASE ~(i < pos[r])
      <4>1. i = pos[r] /\ pos'[r] = pos[r] + 1 /\ pos[r] # pos[r] + 1
        BY <2>1, <2>7, <3>2
      <4>2. status'[Current(r)] \in Verdicts
        BY <2>7, <4>1, SenderStep
      <4>. QED
        BY <4>1, <4>2 DEF Current
    <3>. QED
      BY <3>1, <3>2
  <2>. QED
    BY <2>5, <2>6, <2>7
<1>. QED
  BY <1>2, <1>3, <1>4 DEF Progress

\* The shared err is that of the one entry.
LEMMA NextSharedErr ==
  ASSUME TypeOK, Batched, Progress, SharedErr, [Next]_vars
  PROVE  SharedErr'
<1>1. SharesErr' <=> SharesErr
  BY SameProgram DEF SharesErr, handler
<1>2. ASSUME NEW r \in Requests
      PROVE  sender'[r] = "checking" \/ http'[r] = "checking" => SharesErr
  BY SenderStep
<1>3. ASSUME NEW r \in Requests, err'[r]
      PROVE  SharesErr /\ status'[<<r, pos'[r]>>] \in {"failed", "refused"}
  <2>1. err[r] => SharesErr /\ status[Current(r)] \in {"failed", "refused"}
    BY DEF SharedErr
  <2>2. SharesErr
    BY <1>3, <2>1, SenderStep
  <2>3. pos'[r] = pos[r]
    BY <2>2, SenderStep
  <2>4. status[Current(r)] \in {"failed", "refused"} =>
          status'[Current(r)] \in {"failed", "refused"}
    BY EntryType, StatusKept DEF Verdicts
  <2>5. status'[Current(r)] \in {"failed", "refused"}
    BY <1>3, <2>1, <2>4, SenderStep
  <2>. QED
    BY <2>2, <2>3, <2>5 DEF Current
<1>4. ASSUME NEW r \in Requests, sender'[r] = "checking", status'[<<r, pos'[r]>>] = "refused"
      PROVE  err'[r] \/ r \in wiped'
  <2>1. SharesErr /\ pos'[r] = pos[r]
    BY <1>4, SenderStep
  <2>2. status'[Current(r)] = "refused"
    BY <1>4, <2>1 DEF Current
  <2>3. /\ sender \in [Requests -> {"idle", "sending", "waiting", "checking", "done"}]
        /\ err \in [Requests -> BOOLEAN] /\ Current(r) \in Entry
        /\ status \in [Entry -> {"new", "queued"} \cup Verdicts]
    BY EntryType DEF TypeOK
  <2>4. ~Starts(r) => status[Current(r)] = "refused"
    <3>1. status[Current(r)] = "new" => \E q \in Requests : Starts(q) /\ Current(r) = Current(q)
      BY <2>2, <2>3, StatusKept
    <3>2. status[Current(r)] \in {"queued"} \cup Verdicts => status[Current(r)] = "refused"
      BY <2>2, <2>3, StatusKept
    <3>. QED
      BY <2>3, <3>1, <3>2 DEF Current
  <2>5. ~Starts(r) /\ sender[r] = "checking" => err[r] \/ r \in wiped'
    BY <2>4, WipedGrows DEF SharedErr
  <2>6. CASE Starts(r)
    BY <1>4, <2>1, <2>2, <2>6, StartsMoves
  <2>7. CASE ~Starts(r) /\ UNCHANGED requestVars
    BY <1>4, <2>5, <2>7 DEF requestVars
  <2>8. ASSUME NEW q \in Requests, Answer(q), ~Starts(r)
        PROVE  err'[r] \/ r \in wiped'
    BY <1>4, <2>3, <2>5, <2>8 DEF Answer
  <2>9. ASSUME NEW q \in Requests, ~Starts(r),
               Reject(q) \/ Accept(q) \/ AnswerCheck(q) \/ AnswerCompleted(q)
        PROVE  err'[r] \/ r \in wiped'
    BY <1>4, <2>3, <2>5, <2>9 DEF Reject, Accept, AnswerCheck, AnswerCompleted
  <2>10. ASSUME NEW q \in Requests, ~Starts(r), Starts(q) \/ SendReturns(q)
         PROVE  err'[r] \/ r \in wiped'
    <3>1. CASE q = r
      BY <1>4, <2>1, <2>2, <2>10, <3>1, ReturnsMoves
    <3>2. CASE q # r
      BY <1>4, <2>5, <2>10, <3>2, StartsMoves, ReturnsMoves
    <3>. QED
      BY <3>1, <3>2
  <2>11. ASSUME NEW q \in Requests, ~Starts(r), SendCheck(q)
         PROVE  err'[r] \/ r \in wiped'
    <3>1. sender' = [sender EXCEPT ![q] = "done"] /\ err' = err
      BY <2>11, CheckStep DEF SendCheck
    <3>. QED
      BY <1>4, <2>3, <2>5, <2>11, <3>1
  <2>. QED
    BY <2>6, <2>7, <2>8, <2>9, <2>10, <2>11, RequestCases
<1>. QED
  BY <1>1, <1>2, <1>3, <1>4 DEF SharedErr, Current

-----------------------------------------------------------------------------
(***************************************************************************)
(* What is known of the entries.                                           *)
(***************************************************************************)

\* What is written to a broker that acknowledges is in the topic.
LEMMA NextDelivered ==
  ASSUME TypeOK, Batched, Written, Progress, Delivered, [Next]_vars
  PROVE  Delivered'
<1>1. client' = client
  BY SameProgram DEF client
<1>2. ASSUME NEW e \in Entry, status'[e] = "ok", status[e] = "ok"
      PROVE  InTopic(e)' \/ client.acks = 0
  BY <1>2, InTopicKept DEF Delivered
<1>3. ASSUME NEW e \in Entry, NEW p \in Partitions, NEW i \in DOMAIN batches[p],
             WriteBatch(p, i), status'[e] = "ok", status[e] # "ok"
      PROVE  InTopic(e)'
  <2>1. Settle(p, i, "ok") /\ Arrive(batches[p][i].entries)
    BY <1>3 DEF WriteBatch
  <2>2. /\ status'[e] = IF Holds(p, i, e) THEN "ok" ELSE status[e]
        /\ i \in 1..Len(batches[p]) /\ Len(batches[p]) \in Nat
    BY <2>1, SettleStep
  <2>3. Holds(p, i, e) /\ i # 0
    BY <1>3, <2>2
  <2>4. PICK k \in 1..Len(batches[p][i].entries) : batches[p][i].entries[k] = e
    BY <2>3 DEF Holds, Slot
  <2>5. batches[p][i].entries \in Seq(Entry)
    <3>1. batches[p] \in Seq(Batch)
      BY DEF TypeOK
    <3>2. batches[p][i] \in Batch
      BY <3>1
    <3>. QED
      BY <3>2 DEF Batch
  <2>6. /\ topic' \in Seq(Entry)
        /\ \E n \in 1..Len(topic') : topic'[n] = e
    BY <2>1, <2>4, <2>5, ArriveStep
  <2>. QED
    BY <2>6 DEF InTopic
<1>4. ASSUME NEW e \in Entry, NEW p \in Partitions, NEW i \in DOMAIN batches[p],
             WriteFails(p, i), status'[e] = "ok"
      PROVE  status[e] = "ok"
  <2>1. Settle(p, i, "failed") \/ status' = status
    BY <1>4 DEF WriteFails
  <2>2. CASE Settle(p, i, "failed")
    <3>1. status'[e] = IF Holds(p, i, e) THEN "failed" ELSE status[e]
      BY <2>2, SettleStep
    <3>. QED
      BY <1>4, <3>1
  <2>3. CASE status' = status
    BY <1>4, <2>3
  <2>. QED
    BY <2>1, <2>2, <2>3
<1>5. ASSUME NEW e \in Entry, NEW r \in Requests, Starts(r), status'[e] = "ok"
      PROVE  status[e] = "ok"
  <2>1. PICK s \in {"queued", "refused"} : status' = [status EXCEPT ![Current(r)] = s]
    BY <1>5, StartsStep
  <2>. QED
    BY <1>5, <2>1 DEF TypeOK
<1>6. ASSUME NEW e \in Entry, status'[e] = "ok", status[e] # "ok"
      PROVE  InTopic(e)' \/ client.acks = 0
  <2>1. \E p \in Partitions : \E i \in DOMAIN batches[p] :
          WriteBatch(p, i) \/ WriteUnacknowledged(p, i)
    BY <1>4, <1>5, <1>6, StatusStep
  <2>2. PICK p \in Partitions : \E i \in DOMAIN batches[p] :
          WriteBatch(p, i) \/ WriteUnacknowledged(p, i)
    BY <2>1
  <2>3. PICK i \in DOMAIN batches[p] : WriteBatch(p, i) \/ WriteUnacknowledged(p, i)
    BY <2>2
  <2>4. CASE WriteBatch(p, i)
    BY <1>3, <1>6, <2>4
  <2>5. CASE WriteUnacknowledged(p, i)
    BY <2>5 DEF WriteUnacknowledged
  <2>. QED
    BY <2>3, <2>4, <2>5
<1>. QED
  BY <1>1, <1>2, <1>6 DEF Delivered

\* The steps in which a program gets to know of entries.
LEMMA KnowCases ==
  ASSUME [Next]_vars
  PROVE  \/ UNCHANGED <<reported, told>>
         \/ \E r \in Requests : \/ AnswerCheck(r) \/ AnswerCompleted(r) \/ SendRefused(r)
                                \/ SendThrows(r) \/ SendReturns(r) \/ SendCheck(r)
         \/ PrintReports
  BY DEF Next, vars, CreateTopic, RequestStep, ClientStep, Disturbance, Answer, Send, CloseBatch,
         WriteBatch, Reject, Accept, WriteUnacknowledged, WriteFails, LateArrival, ServerEnds, Close

\* What has been told has been told.
LEMMA ToldKept == [Next]_vars => told \subseteq told'
  BY KnowCases DEF AnswerCheck, AnswerCompleted, SendRefused, SendThrows, SendReturns, SendCheck,
                   PrintReports, Tell

\* Every failure that the program hears of is told, but for the error of the
\* shared err.
LEMMA NextKnown ==
  ASSUME TypeOK, Batched, Progress, SharedErr, Known, [Next]_vars
  PROVE  Known'
<1>1. Tells' <=> Tells
  BY SameProgram DEF Tells, SharesErr, ClientLogs, handler, client
<1>. DEFINE Fine(e) == \/ e \in told'
                       \/ status[e] = "ok"
                       \/ status[e] = "refused" /\ e[1] \in wiped
<1>2. told \subseteq told'
  BY ToldKept
<1>3. ASSUME NEW e \in reported
      PROVE  Fine(e)
  BY <1>2 DEF Known
<1>4. ASSUME NEW r \in Requests, AnswerCheck(r)
      PROVE  \A e \in reported' : Fine(e)
  BY <1>3, <1>4 DEF AnswerCheck
<1>5. ASSUME NEW r \in Requests, AnswerCompleted(r)
      PROVE  \A e \in reported' : Fine(e)
  <2>1. /\ reported' = reported \cup Sent(r)
        /\ \A e \in Sent(r) : status[e] \in {"failed", "refused"} => e \in told'
        /\ \A e \in Sent(r) : status[e] \in Verdicts
    BY <1>5 DEF AnswerCompleted, AllCompleted
  <2>. QED
    BY <1>3, <2>1 DEF Verdicts
<1>6. ASSUME NEW r \in Requests, SendRefused(r)
      PROVE  \A e \in reported' : Fine(e)
  BY <1>3, <1>6 DEF SendRefused, Tell
<1>6a. ASSUME NEW r \in Requests, SendThrows(r)
       PROVE  \A e \in reported' : Fine(e)
  BY <1>3, <1>6a DEF SendThrows
<1>7. ASSUME NEW r \in Requests, SendReturns(r)
      PROVE  \A e \in reported' : Fine(e)
  <2>1. Tells
    BY <1>7 DEF SendReturns, Progress, Waits, Tells, ClientLogs
  <2>. QED
    BY <1>3, <1>7, <2>1 DEF SendReturns, Tell
<1>8. ASSUME NEW r \in Requests, SendCheck(r)
      PROVE  \A e \in reported' : Fine(e)
  <2>1. Current(r) \in Entry
    BY EntryType
  <2>2. sender[r] = "checking"
    BY <1>8 DEF SendCheck
  <2>3. status[Current(r)] = "refused" => err[r] \/ r \in wiped
    BY <2>2 DEF SharedErr
  <2>4. err[r] => Current(r) \in told'
    BY <1>8 DEF SendCheck
  <2>5. Current(r)[1] = r
    BY DEF Current
  <2>6. \A e \in reported' : e \in reported \/ (e = Current(r) /\ (err[r] \/ status[e] = "refused"))
    BY <1>8 DEF SendCheck
  <2>. QED
    BY <1>3, <2>3, <2>4, <2>5, <2>6
<1>9. ASSUME PrintReports
      PROVE  \A e \in reported' : Fine(e)
  BY <1>3, <1>9 DEF PrintReports, Unread
<1>. HIDE DEF Fine
<1>10. \A e \in reported' : Fine(e)
  BY <1>3, <1>4, <1>5, <1>6, <1>6a, <1>7, <1>8, <1>9, KnowCases
<1>11. ASSUME NEW e \in Entry, Fine(e)
       PROVE  \/ e \in told'
              \/ status'[e] = "ok"
              \/ status'[e] = "refused" /\ e[1] \in wiped'
  BY <1>11, StatusKept, WipedGrows DEF Fine, Verdicts
<1>12. reported' \subseteq Entry
  BY NextTyped DEF TypeOK
<1>13. ASSUME NEW e \in Entry, status'[e] = "refused", Tells
       PROVE  e \in told'
  <2>1. CASE status[e] = "refused"
    BY <1>2, <1>13, <2>1 DEF Known
  <2>2. CASE status[e] # "refused"
    <3>1. status[e] = "new"
      <4>1. status[e] \in {"new", "queued"} \cup Verdicts
        BY DEF TypeOK
      <4>2. status[e] \in Verdicts => status'[e] = status[e]
        BY StatusKept
      <4>3. status[e] = "queued" => status'[e] \in {"queued", "ok", "failed"}
        BY StatusKept
      <4>. QED
        BY <1>13, <2>2, <4>1, <4>2, <4>3
    <3>2. PICK r \in Requests : Starts(r) /\ e = Current(r)
      BY <1>13, <3>1, StatusKept
    <3>3. ASSUME NEW p \in PartitionsOf, Send(r, p)
          PROVE  FALSE
      BY <1>13, <3>2, <3>3 DEF Send, TypeOK
    <3>4. SendRefused(r) \/ SendThrows(r)
      BY <3>2, <3>3 DEF Starts
    <3>5. SendThrows(r) => ~Tells
      BY DEF SendThrows, Tells, ClientLogs
    <3>. QED
      BY <1>13, <3>2, <3>4, <3>5 DEF SendRefused, Tell
  <2>. QED
    BY <2>1, <2>2
<1>. QED
  BY <1>1, <1>10, <1>11, <1>12, <1>13 DEF Known

\* A process that has closed its client has flushed it, and does nothing more.
LEMMA NextEnded ==
  ASSUME Ended, [Next]_vars
  PROVE  Ended'
<1>1. ASSUME proc' = "closed"
      PROVE  Flushed /\ UNCHANGED <<program, status, reported>>
  <2>1. CASE proc = "closed"
    <3>1. UNCHANGED vars
      BY <2>1 DEF Next, CreateTopic, RequestStep, ClientStep, Disturbance, Answer, AnswerCheck,
         AnswerCompleted, SendReturns, SendCheck, Send, CloseBatch, WriteBatch, PrintReports,
         Reject, Accept, SendRefused, SendThrows, WriteUnacknowledged, WriteFails, LateArrival,
         ServerEnds, Close, Running
    <3>. QED
      BY <2>1, <3>1 DEF Ended, vars, clientVars
  <2>2. CASE proc # "closed"
    <3>1. proc' # proc
      BY <1>1, <2>2
    <3>2. CreateTopic \/ ServerEnds \/ Close
      BY <3>1 DEF Next, vars, RequestStep, ClientStep, Disturbance, Answer, AnswerCheck,
         AnswerCompleted, SendReturns, SendCheck, Send, CloseBatch, WriteBatch, PrintReports,
         Reject, Accept, SendRefused, SendThrows, WriteUnacknowledged, WriteFails, LateArrival
    <3>3. Close
      BY <1>1, <3>2 DEF CreateTopic, ServerEnds
    <3>. QED
      BY <1>1, <3>3 DEF Close, clientVars
  <2>. QED
    BY <2>1, <2>2
<1>2. UNCHANGED <<program, status, reported>> => (Flushed' <=> Flushed)
  BY DEF Flushed, Unread, Prints, client
<1>. QED
  BY <1>1, <1>2 DEF Ended

\* Java's success means that the whole list is in the topic.
LEMMA NextAnswered ==
  ASSUME TypeOK, Batched, Written, SharedErr, Delivered, Answered, [Next]_vars
  PROVE  Answered'
<1>1. handler' = handler /\ Length' = Length
  BY SameProgram DEF handler, Length
<1>2. \A r \in Requests : Sent(r) \subseteq Entry
  BY EntryType
<1>3. ASSUME NEW r \in Requests, "waits" \in handler, http[r] = "ok", NEW e \in Sent(r)
      PROVE  InTopic(e)'
  BY <1>2, <1>3, InTopicKept DEF Answered
<1>4. ASSUME NEW r \in Requests, "waits" \in handler, http[r] # "ok", http'[r] = "ok"
      PROVE  \A e \in Sent(r) : InTopic(e)
  <2>1. http \in [Requests -> {"none", "answering", "checking", "ok", "error"}]
    BY DEF TypeOK
  <2>2. ~SharesErr /\ client.acks # 0
    BY <1>4, ProgramFacts DEF TypeOK
  <2>3. \A q \in Requests : http[q] # "checking"
    BY <2>2 DEF SharedErr
  <2>4. \A q \in Requests : ~Answer(q) /\ ~AnswerCheck(q)
    BY <1>4, <2>3 DEF Answer, AnswerCheck
  <2>5. \A q \in Requests : Starts(q) \/ SendReturns(q) \/ SendCheck(q) =>
                               http' = http \/ http' = [http EXCEPT ![q] = "error"]
    BY DEF Starts, Send, SendRefused, SendThrows, SendReturns, SendCheck
  <2>6. \A q \in Requests : Reject(q) \/ Accept(q) => http'[r] # "ok"
    BY <1>4, <2>1 DEF Reject, Accept
  <2>7. PICK q \in Requests : AnswerCompleted(q)
    BY <1>4, <2>1, <2>4, <2>5, <2>6, RequestCases DEF requestVars
  <2>8. q = r
    BY <1>4, <2>1, <2>7 DEF AnswerCompleted
  <2>9. \A e \in Sent(r) : status[e] \in Verdicts /\ status[e] \notin {"failed", "refused"}
    BY <1>4, <2>1, <2>7, <2>8 DEF AnswerCompleted, AllCompleted
  <2>10. \A e \in Sent(r) : status[e] = "ok"
    BY <2>9 DEF Verdicts
  <2>. QED
    BY <1>2, <2>2, <2>10 DEF Delivered
<1>5. ASSUME NEW r \in Requests, "waits" \in handler, http'[r] = "ok", NEW e \in Sent(r)
      PROVE  InTopic(e)'
  <2>1. CASE http[r] = "ok"
    BY <1>3, <1>5, <2>1
  <2>2. CASE http[r] # "ok"
    <3>1. InTopic(e) /\ e \in Entry
      BY <1>2, <1>4, <1>5, <2>2
    <3>. QED
      BY <3>1, InTopicKept
  <2>. QED
    BY <2>1, <2>2
<1>. QED
  BY <1>1, <1>5 DEF Answered, Sent

-----------------------------------------------------------------------------
(***************************************************************************)
(* The theorems.                                                           *)
(***************************************************************************)

\* Each step preserves the invariant.
LEMMA NextInv == Inv /\ [Next]_vars => Inv'
<1>. SUFFICES ASSUME Inv, [Next]_vars PROVE Inv'
  OBVIOUS
<1>1. /\ TypeOK /\ Batched /\ Written /\ Progress /\ SharedErr
      /\ Delivered /\ Known /\ Ended /\ Answered
  BY DEF Inv
<1>2. TypeOK' /\ Batched' /\ Written'
  BY <1>1, NextTyped, NextBatched, NextWritten
<1>3. Progress' /\ SharedErr'
  BY <1>1, NextProgress, NextSharedErr
<1>4. Delivered' /\ Known' /\ Ended' /\ Answered'
  BY <1>1, NextDelivered, NextKnown, NextEnded, NextAnswered
<1>. QED
  BY <1>2, <1>3, <1>4 DEF Inv

\* In every reachable state an entry that is queued lies in one batch, an entry
\* that was delivered is in the topic, and what has been told of the entries
\* agrees with their verdicts.
THEOREM Invariant == Spec => []Inv
<1>1. Init => Inv
  BY InitInv
<1>2. Inv /\ [Next]_vars => Inv'
  BY NextInv
<1>. QED
  BY <1>1, <1>2, PTL DEF Spec

\* Every reachable state has the types, and no batch that is being filled holds
\* as many messages as a full one: a full batch is closed at once.
THEOREM TypeCorrect == Spec => []TypeOK
<1>1. Inv => TypeOK
  BY DEF Inv
<1>. QED
  BY <1>1, Invariant, PTL

\* An entry that will not be in the topic has been told of, with the exceptions
\* that the property names: what a client without acknowledgements loses, and
\* the error that the handler's assignment to the shared err wipes out.
THEOREM LossIsToldAlways == Spec => []LossIsTold
<1>1. ASSUME Inv PROVE LossIsTold
  <2>1. ASSUME NEW e \in Entry, e \in reported
        PROVE  InTopic(e) \/ e \in told \/ Unknown(e)
    BY <1>1, <2>1 DEF Inv, Known, Delivered, Unknown
  <2>2. ASSUME NEW e \in Entry, proc = "closed"
        PROVE  status[e] # "queued" /\ e \notin Unread
    BY <1>1, <2>2 DEF Inv, Ended, Flushed
  <2>3. ASSUME NEW e \in Entry, Sealed(e)
        PROVE  InTopic(e) \/ e \in told \/ Unknown(e)
    BY <2>1, <2>2, <2>3 DEF Sealed
  <2>. QED
    BY <1>1, <2>3 DEF Inv, Answered, LossIsTold
<1>. QED
  BY <1>1, Invariant, PTL

\* A step keeps the order of the lists: the entries before one that is sent have
\* their verdicts, and those that were delivered are already in the topic.
LEMMA NextListOrder == Inv /\ ListOrder /\ [Next]_vars => ListOrder'
<1>. SUFFICES ASSUME Inv, ListOrder, [Next]_vars, handler = Lecture5Main,
                     NEW n \in DOMAIN topic', NEW i \in 1..(topic'[n][2] - 1),
                     status'[<<topic'[n][1], i>>] = "ok"
              PROVE  \E k \in 1..n : topic'[k] = <<topic'[n][1], i>>
  BY SameProgram DEF ListOrder, handler
<1>. DEFINE r == topic'[n][1]
            j == topic'[n][2]
            d == <<r, i>>
<1>1. TypeOK /\ Batched /\ Written /\ Progress /\ Delivered
  BY DEF Inv
<1>2. Waits /\ client.acks # 0
  BY <1>1, ProgramFacts DEF TypeOK
<1>3. /\ topic \in Seq(Entry) /\ topic' \in Seq(Entry)
      /\ Len(topic) \in Nat /\ Len(topic') \in Nat /\ Len(topic) <= Len(topic')
      /\ \A m \in 1..Len(topic) : topic'[m] = topic[m]
      /\ \A m \in (Len(topic) + 1)..Len(topic') : status[topic'[m]] # "new"
  BY <1>1, TopicGrows
<1>4. n \in 1..Len(topic')
  BY <1>3
<1>5. topic'[n] \in Entry
  BY <1>3, <1>4
<1>6. r \in Requests /\ j \in 1..ListLength /\ topic'[n] = <<r, j>> /\ ListLength \in Nat
  BY <1>5, EntryType DEF Entry
<1>7. i \in 1..ListLength /\ i < j /\ d \in Entry
  <2>1. i \in 1..ListLength /\ i < j
    BY <1>6
  <2>. QED
    BY <1>6, <2>1 DEF Entry
<1>. HIDE DEF r, j
<1>8. status[<<r, j>>] # "new"
  <2>1. CASE n \in 1..Len(topic)
    BY <1>1, <1>3, <1>6, <2>1 DEF Written
  <2>2. CASE n \notin 1..Len(topic)
    <3>1. n \in (Len(topic) + 1)..Len(topic')
      BY <1>3, <1>4, <2>2
    <3>. QED
      BY <1>3, <1>6, <3>1
  <2>. QED
    BY <2>1, <2>2
<1>9. i < pos[r]
  <2>1. pos[r] \in 1..ListLength
    BY <1>1, <1>6, EntryType
  <2>2. ~(j > pos[r])
    BY <1>1, <1>6, <1>8 DEF Progress
  <2>. QED
    BY <1>6, <1>7, <2>1, <2>2
<1>10. status[d] \in Verdicts
  BY <1>1, <1>2, <1>6, <1>7, <1>9 DEF Progress
<1>11. status'[d] = "ok"
  BY DEF r
<1>12. status[d] = "ok"
  BY <1>1, <1>7, <1>10, <1>11, StatusKept
<1>13. \E k \in 1..n : topic'[k] = d
  <2>1. CASE n \in 1..Len(topic)
    <3>1. n \in DOMAIN topic /\ topic[n] = <<r, j>>
      BY <1>3, <1>6, <2>1
    <3>2. topic[n][1] = r /\ topic[n][2] = j /\ i \in 1..(j - 1)
      BY <1>6, <1>7, <3>1
    <3>3. PICK k \in 1..n : topic[k] = d
      BY <1>12, <3>1, <3>2 DEF ListOrder
    <3>4. k \in 1..Len(topic)
      BY <1>3, <2>1
    <3>. QED
      BY <1>3, <3>3, <3>4
  <2>2. CASE n \notin 1..Len(topic)
    <3>1. InTopic(d)
      BY <1>1, <1>2, <1>7, <1>12 DEF Delivered
    <3>2. PICK k \in 1..Len(topic) : topic[k] = d
      BY <1>3, <3>1 DEF InTopic
    <3>3. k \in 1..n
      BY <1>3, <1>4, <2>2
    <3>. QED
      BY <1>3, <3>2, <3>3
  <2>. QED
    BY <2>1, <2>2
<1>. QED
  BY <1>13 DEF r

\* What the goroutine of /entryList has written of a list is in the topic in the
\* order of the list, however often and however late batches are repeated.
THEOREM ListOrderAlways == Spec => []ListOrder
<1>1. Init => ListOrder
  BY DEF Init, ListOrder
<1>2. ListOrder /\ Inv /\ [Next]_vars => ListOrder'
  BY NextListOrder
<1>. QED
  BY <1>1, <1>2, Invariant, PTL DEF Spec

=============================================================================
