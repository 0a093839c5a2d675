--------------------------- MODULE StreamsProofs ---------------------------
(***************************************************************************)
(* Proofs about Streams, for any number of records, kills and restarts.    *)
(*                                                                         *)
(* Places(n, in, k) are the places among the first n records where the     *)
(* topology puts out k, so Expected(k) is their number; one more record    *)
(* adds its occurrences of k (ExpectedGrows).  Nothing is lost because     *)
(* that holds of the last commit too, and what was sent or counted since   *)
(* can only be more (Kept).  Nothing is repeated after clean stops         *)
(* because the streams were closed before the JVM went down, and closing   *)
(* makes the last commit the present (ClosedIsSaved).                      *)
(***************************************************************************)
EXTENDS Streams, FiniteSetTheorems, TLAPS

-----------------------------------------------------------------------------
(***************************************************************************)
(* What the topologies put out.                                            *)
(***************************************************************************)

\* No record leads to more than two.
LEMMA AtMostTwo ==
  ASSUME topology \in Topologies, NEW value \in DOMAIN topology
  PROVE  DOMAIN topology[value] \subseteq 1..2
<1>1. \A line \in Lines : DOMAIN Split(line) \subseteq 1..2
  <2>1. DOMAIN Split("empty") \subseteq 1..2
    BY DEF Split
  <2>2. DOMAIN Split("blank") \subseteq 1..2
    BY DEF Split
  <2>3. DOMAIN Split("Ab") \subseteq 1..2
    BY DEF Split
  <2>4. DOMAIN Split("ab ba") \subseteq 1..2
    BY DEF Split
  <2>5. DOMAIN Split("null") \subseteq 1..2
    BY DEF Split
  <2>. QED
    BY <2>1, <2>2, <2>3, <2>4, <2>5 DEF Lines
<1>2. CASE topology = Pipe
  BY <1>2 DEF Pipe
<1>3. CASE topology = LineSplit
  BY <1>1, <1>3 DEF LineSplit
<1>4. CASE topology = WordCount
  BY <1>1, <1>4 DEF WordCount
<1>5. CASE topology = Filter
  BY <1>5 DEF Filter
<1>6. CASE topology = CountBy
  <2>1. value \in Measures
    BY <1>6 DEF CountBy
  <2>2. topology[value] = <<>> \/ topology[value] = <<value>>
    BY <1>6, <2>1 DEF CountBy
  <2>3. DOMAIN <<>> = {} /\ DOMAIN <<value>> = 1..1
    OBVIOUS
  <2>. QED
    BY <2>2, <2>3
<1>. QED
  BY <1>2, <1>3, <1>4, <1>5, <1>6 DEF Topologies

\* Where the first n records of in put out k.
Places(n, in, k) ==
  {x \in (1..n) \X (1..2) :
     x[2] \in DOMAIN topology[in[x[1]]] /\ topology[in[x[1]]][x[2]] = k}
ExpectedOf(n, in, k) == Cardinality(Places(n, in, k))

\* The first n numbers are finitely many.
LEMMA Finite == ASSUME NEW n \in Nat PROVE IsFiniteSet(1..n)
<1>1. 1 \in Int /\ n \in Int
  OBVIOUS
<1>. QED
  BY <1>1, FS_Interval, Zenon

\* The number of expected records is a number, zero for no record.
LEMMA ExpectedTyped ==
  ASSUME NEW n \in Nat, NEW in, NEW k
  PROVE  /\ IsFiniteSet(Places(n, in, k))
         /\ ExpectedOf(n, in, k) \in Nat
         /\ ExpectedOf(0, in, k) = 0
<1>1. IsFiniteSet((1..n) \X (1..2))
  <2>1. IsFiniteSet(1..n) /\ IsFiniteSet(1..2)
    <3>1. 2 \in Nat
      OBVIOUS
    <3>. QED
      BY <3>1, Finite, Zenon
  <2>. QED
    BY <2>1, FS_Product, Zenon
<1>2. IsFiniteSet(Places(n, in, k))
  BY <1>1, FS_Subset DEF Places
<1>3. Places(0, in, k) = {}
  BY DEF Places
<1>. QED
  BY <1>2, <1>3, FS_CardinalityType, FS_EmptySet DEF ExpectedOf

\* The occurrences of k among the outputs of a record.
LEMMA OccurrencesTyped ==
  ASSUME topology \in Topologies, NEW value \in DOMAIN topology, NEW k
  PROVE  /\ IsFiniteSet({i \in DOMAIN topology[value] : topology[value][i] = k})
         /\ Occurrences(k, topology[value]) \in Nat
<1>1. IsFiniteSet(1..2)
  <2>1. 2 \in Nat
    OBVIOUS
  <2>. QED
    BY <2>1, Finite, Zenon
<1>2. {i \in DOMAIN topology[value] : topology[value][i] = k} \in SUBSET (1..2)
  <2>1. DOMAIN topology[value] \subseteq 1..2
    BY AtMostTwo
  <2>. QED
    BY <2>1, Zenon
<1>3. IsFiniteSet({i \in DOMAIN topology[value] : topology[value][i] = k})
  BY <1>1, <1>2, FS_Subset
<1>. QED
  BY <1>3, FS_CardinalityType DEF Occurrences

\* One more record adds its occurrences of k.
LEMMA ExpectedGrows ==
  ASSUME topology \in Topologies, NEW n \in Nat, NEW in, in[n + 1] \in DOMAIN topology, NEW k
  PROVE  ExpectedOf(n + 1, in, k) = ExpectedOf(n, in, k) + Occurrences(k, topology[in[n + 1]])
<1>. DEFINE J == {i \in DOMAIN topology[in[n + 1]] : topology[in[n + 1]][i] = k}
            P == Places(n, in, k)
            Q == {n + 1} \X J
<1>1. IsFiniteSet(J) /\ Cardinality(J) = Occurrences(k, topology[in[n + 1]])
  BY OccurrencesTyped DEF Occurrences
<1>2. J \subseteq 1..2
  BY AtMostTwo
<1>3. Places(n + 1, in, k) = P \cup Q
  <2>1. ASSUME NEW x \in Places(n + 1, in, k)
        PROVE  x \in P \cup Q
    BY <2>1 DEF Places
  <2>2. ASSUME NEW x \in P
        PROVE  x \in Places(n + 1, in, k)
    BY <2>2 DEF Places
  <2>3. ASSUME NEW x \in Q
        PROVE  x \in Places(n + 1, in, k)
    BY <1>2, <2>3 DEF Places
  <2>. QED
    BY <2>1, <2>2, <2>3
<1>4. P \cap Q = {}
  BY DEF Places
<1>5. IsFiniteSet(P) /\ Cardinality(P) \in Nat
  BY ExpectedTyped, FS_CardinalityType
<1>6. IsFiniteSet(Q) /\ Cardinality(Q) = Cardinality(J)
  <2>1. IsFiniteSet({n + 1}) /\ Cardinality({n + 1}) = 1
    BY FS_Singleton
  <2>2. Cardinality(J) \in Nat
    BY <1>1, FS_CardinalityType
  <2>. HIDE DEF J
  <2>3. IsFiniteSet(Q) /\ Cardinality(Q) = 1 * Cardinality(J)
    BY <1>1, <2>1, FS_Product
  <2>. QED
    BY <2>2, <2>3
<1>. HIDE DEF P, Q, J
<1>7. Cardinality(P \cup Q) = Cardinality(P) + Cardinality(Q)
  <2>1. Cardinality(P \cap Q) = 0
    BY <1>4, FS_EmptySet
  <2>2. Cardinality(P \cup Q) = Cardinality(P) + Cardinality(Q) - Cardinality(P \cap Q)
    BY <1>5, <1>6, FS_Union
  <2>3. Cardinality(Q) \in Nat
    BY <1>6, FS_CardinalityType
  <2>. QED
    BY <1>5, <2>1, <2>2, <2>3
<1>. QED
  BY <1>1, <1>3, <1>6, <1>7 DEF ExpectedOf, P

\* A record that is appended changes nothing in the past.
LEMMA ExpectedKept ==
  ASSUME NEW S, NEW in \in Seq(S), NEW value, NEW n \in 0..Len(in), NEW k
  PROVE  ExpectedOf(n, Append(in, value), k) = ExpectedOf(n, in, k)
<1>1. \A i \in 1..n : Append(in, value)[i] = in[i]
  OBVIOUS
<1>2. Places(n, Append(in, value), k) = Places(n, in, k)
  BY <1>1 DEF Places
<1>. QED
  BY <1>2 DEF ExpectedOf

-----------------------------------------------------------------------------
(***************************************************************************)
(* Types, and the last commit.                                             *)
(***************************************************************************)

\* The last commit lies in the past of what was sent and counted.
SavedIsPast ==
  \A k \in Key : /\ saved.taken[k] <= saved.sent[k]
                 /\ saved.sent[k] <= sent[k]
                 /\ saved.count[k] <= count[k]

TypeInv == TypeOK /\ SavedIsPast

\* What survives a restart lies between the last commit and the present.
LEMMA Surviving ==
  ASSUME NEW low \in Counts, NEW high \in Counts, \A k \in Key : low[k] <= high[k],
         NEW s \in Survivors(low, high)
  PROVE  s \in Counts /\ \A k \in Key : low[k] <= s[k] /\ s[k] <= high[k]
<1>1. PICK f \in Between(low, high) : s = [k \in Key |-> IF k \in DOMAIN f THEN f[k] ELSE low[k]]
  BY DEF Survivors
<1>2. \A k \in DOMAIN f : f[k] \in Int /\ low[k] <= f[k] /\ f[k] <= high[k]
  <2>1. f \in [{k \in Key : low[k] # high[k]} -> 0..(2 * MaxLog * (MaxRestarts + 1))]
        /\ \A k \in DOMAIN f : low[k] <= f[k] /\ f[k] <= high[k]
    BY <1>1 DEF Between
  <2>2. \A x \in 0..(2 * MaxLog * (MaxRestarts + 1)) : x \in Int
    OBVIOUS
  <2>. QED
    BY <2>1, <2>2, Zenon
<1>3. \A k \in Key : s[k] \in Nat /\ low[k] <= s[k] /\ s[k] <= high[k]
  BY <1>1, <1>2 DEF Counts
<1>. QED
  BY <1>1, <1>3 DEF Counts

\* The initial state is well typed.
LEMMA InitTyped == Init => TypeInv
<1>. SUFFICES ASSUME Init PROVE TypeInv
  OBVIOUS
<1>1. unclean \in BOOLEAN
  BY Zenon DEF Init
<1>2. NoCounts \in Counts /\ \A k \in Key : NoCounts[k] = 0
  BY DEF NoCounts, Counts
<1>3. saved.position = 0 /\ saved.sent = NoCounts /\ saved.taken = NoCounts /\ saved.count = NoCounts
      /\ saved \in [position : 0..position, sent : Counts, taken : Counts, count : Counts]
  BY <1>2 DEF Init, progress
<1>. QED
  BY <1>1, <1>2, <1>3, StreamsAssumption DEF Init, TypeInv, TypeOK, SavedIsPast

\* The flags of the process, and the data of the topics and stores.
ControlOK ==
  /\ topology \in Topologies
  /\ thread \in {"created", "running", "closed", "dead"}
  /\ main \in {"starting", "awaiting", "exiting"}
  /\ hook \in {"none", "closing", "counting down", "done"}
  /\ latch \in 0..1
  /\ jvm \in {"up", "down"}
  /\ kills \in 0..MaxKills
  /\ restarts \in 0..MaxRestarts

DataOK ==
  /\ input \in Seq(DOMAIN topology) /\ Len(input) <= MaxLog
  /\ position \in 0..Len(input)
  /\ sent \in Counts /\ taken \in Counts /\ count \in Counts
  /\ \A k \in Key : taken[k] <= sent[k]
  /\ saved \in [position : 0..position, sent : Counts, taken : Counts, count : Counts]
  /\ SavedIsPast

\* The type invariant is made of these parts.
LEMMA Parts == TypeInv <=> ControlOK /\ DataOK /\ unclean \in BOOLEAN
  BY Zenon DEF TypeInv, TypeOK, ControlOK, DataOK

\* A step that leaves topics, stores and commits alone keeps their types.
LEMMA DataKept ==
  DataOK /\ UNCHANGED <<topology, input, progressVars, saved>> => DataOK'
  BY Zenon DEF DataOK, SavedIsPast, progressVars

\* Every step keeps the flags of the process.
LEMMA NextControl == TypeInv /\ [Next]_vars => ControlOK' /\ unclean' \in BOOLEAN
<1>1. ASSUME ControlOK, [Next]_vars
      PROVE  ControlOK'
  <2>1. topology' = topology
    BY <1>1, Zenon DEF Next, ThreadStep, ShutdownStep, vars, Generate, Process, Count, Commit,
       Start, Signal, HookCloses, HookCountsDown, Halt, MainExits, Kill, Restart
  <2>2. topology' \in Topologies
    <3>1. topology \in Topologies
      BY <1>1, Zenon DEF ControlOK
    <3>2. Topologies' = Topologies
      BY Zenon DEF Topologies, Pipe, LineSplit, WordCount, Filter, CountBy
    <3>. QED
      BY <2>1, <3>1, <3>2, Zenon
  <2>3. CASE (\E value \in DOMAIN topology : Generate(value)) \/ (\E k \in Key : Count(k)) \/ Commit
    BY <1>1, <2>2, <2>3, Zenon DEF Generate, Count, Commit, ControlOK, processVars
  <2>4. CASE Process
    BY <1>1, <2>2, <2>4, Zenon DEF Process, ControlOK
  <2>5. CASE Start \/ Signal \/ HookCloses
    BY <1>1, <2>2, <2>5, Zenon DEF Start, Signal, HookCloses, CloseStreams, ControlOK
  <2>6. CASE HookCountsDown \/ Halt \/ MainExits
    <3>1. 0 \in 0..1
      OBVIOUS
    <3>. QED
      BY <1>1, <2>2, <2>6, <3>1, Zenon DEF HookCountsDown, Halt, MainExits, ControlOK
  <2>7. CASE Kill
    <3>1. kills' \in 0..MaxKills
      <4>1. kills \in 0..MaxKills /\ kills < MaxKills /\ kills' = kills + 1
        BY <1>1, <2>7, Zenon DEF Kill, ControlOK
      <4>. QED
        BY <4>1, StreamsAssumption
    <3>. QED
      BY <1>1, <2>2, <2>7, <3>1, Zenon DEF Kill, ControlOK
  <2>8. CASE Restart
    <3>1. restarts' \in 0..MaxRestarts /\ 1 \in 0..1
      <4>1. restarts \in 0..MaxRestarts /\ restarts < MaxRestarts /\ restarts' = restarts + 1
        BY <1>1, <2>8, Zenon DEF Restart, ControlOK
      <4>. QED
        BY <4>1, StreamsAssumption
    <3>. QED
      BY <1>1, <2>2, <2>8, <3>1, Zenon DEF Restart, ControlOK
  <2>9. CASE UNCHANGED vars
    BY <1>1, <2>2, <2>9, Zenon DEF vars, processVars, ControlOK
  <2>. QED
    BY <1>1, <2>3, <2>4, <2>5, <2>6, <2>7, <2>8, <2>9 DEF Next, ThreadStep, ShutdownStep
<1>2. TypeInv /\ [Next]_vars => unclean' = unclean \/ unclean' = TRUE
  BY Zenon DEF Next, ThreadStep, ShutdownStep, vars, Generate,
     Process, Count, Commit, Start, Signal, HookCloses, CloseStreams, HookCountsDown, Halt,
     MainExits, Kill, Restart, processVars, progressVars
<1>3. TypeInv /\ [Next]_vars => unclean' \in BOOLEAN
  BY <1>2, Parts, Zenon
<1>. QED
  BY <1>1, <1>3, Parts

\* Every step keeps the data typed and the last commit in the past.
LEMMA NextData == TypeInv /\ [Next]_vars => DataOK'
<1>. SUFFICES ASSUME ControlOK, DataOK, [Next]_vars
              PROVE  DataOK'
  BY Parts
<1>1. CASE \E value \in DOMAIN topology : Generate(value)
  <2>1. PICK value \in DOMAIN topology : Generate(value)
    BY <1>1
  <2>2. /\ Len(input) < MaxLog /\ input' = Append(input, value)
        /\ UNCHANGED <<topology, position, sent, taken, count, saved>>
    BY <2>1 DEF Generate, progressVars
  <2>3. input' \in Seq(DOMAIN topology) /\ Len(input') = Len(input) + 1
    BY <2>2 DEF DataOK
  <2>4. Len(input') <= MaxLog /\ position \in 0..Len(input')
    <3>1. Len(input) \in Nat /\ MaxLog \in Nat /\ position \in 0..Len(input)
      BY StreamsAssumption DEF DataOK
    <3>. QED
      BY <2>2, <2>3, <3>1
  <2>5. SavedIsPast'
    BY <2>2, Zenon DEF DataOK, SavedIsPast
  <2>. QED
    BY <2>2, <2>3, <2>4, <2>5, Zenon DEF DataOK
<1>2. CASE Process
  <2>. DEFINE value == input[position + 1]
  <2>1. CASE ~Fatal(value)
    <3>1. value \in DOMAIN topology /\ position + 1 \in 0..Len(input)
      BY <1>2 DEF Process, DataOK
    <3>2. \A k \in Key : Occurrences(k, topology[value]) \in Nat
      BY <3>1, OccurrencesTyped DEF ControlOK
    <3>3. /\ position' = position + 1
          /\ sent' = [k \in Key |-> sent[k] + Occurrences(k, topology[value])]
          /\ UNCHANGED <<topology, input, taken, count, saved>>
      BY <1>2, <2>1 DEF Process
    <3>4. sent' \in Counts /\ \A k \in Key : sent[k] <= sent'[k]
      BY <3>2, <3>3 DEF DataOK, Counts
    <3>5. \A k \in Key : taken[k] <= sent'[k] /\ saved.sent[k] <= sent'[k]
      BY <3>4 DEF DataOK, SavedIsPast, Counts
    <3>6. saved \in [position : 0..(position + 1), sent : Counts, taken : Counts, count : Counts]
      BY DEF DataOK
    <3>. QED
      BY <3>1, <3>3, <3>4, <3>5, <3>6 DEF DataOK, SavedIsPast
  <2>2. CASE Fatal(value)
    BY <1>2, <2>2, DataKept DEF Process, progressVars
  <2>. QED
    BY <2>1, <2>2
<1>3. CASE \E k \in Key : Count(k)
  <2>1. PICK k \in Key : Count(k)
    BY <1>3
  <2>2. /\ taken[k] < sent[k]
        /\ taken' = [taken EXCEPT ![k] = @ + 1] /\ count' = [count EXCEPT ![k] = @ + 1]
        /\ UNCHANGED <<topology, input, position, sent, saved>>
    BY <2>1 DEF Count
  <2>3. taken' \in Counts /\ count' \in Counts
    BY <2>2 DEF DataOK, Counts
  <2>4. \A j \in Key : taken'[j] <= sent[j]
    BY <2>2 DEF DataOK, Counts
  <2>5. \A j \in Key : count[j] <= count'[j] /\ count[j] \in Nat /\ count'[j] \in Nat
    <3>1. \A j \in Key : count[j] \in Nat /\ count'[j] = IF j = k THEN count[j] + 1 ELSE count[j]
      BY <2>2 DEF DataOK, Counts
    <3>. QED
      BY <3>1
  <2>6. SavedIsPast'
    <3>1. \A j \in Key : saved.count[j] \in Nat
      BY DEF DataOK, Counts
    <3>2. \A j \in Key : saved.count[j] <= count'[j]
      BY <2>5, <3>1 DEF DataOK, SavedIsPast
    <3>. QED
      BY <2>2, <3>2 DEF DataOK, SavedIsPast
  <2>. QED
    BY <2>2, <2>3, <2>4, <2>6, Zenon DEF DataOK
<1>4. CASE Commit
  BY <1>4 DEF Commit, progress, progressVars, DataOK, SavedIsPast, Counts
<1>5. CASE Start \/ Signal \/ HookCountsDown \/ Halt \/ MainExits \/ Kill
  BY <1>5, DataKept, Zenon DEF Start, Signal, HookCountsDown, Halt, MainExits, Kill
<1>6. CASE HookCloses
  <2>1. CASE thread = "running"
    <3>1. saved' = progress /\ UNCHANGED <<topology, input, position, sent, taken, count>>
      BY <1>6, <2>1 DEF HookCloses, CloseStreams, progressVars
    <3>2. /\ saved'.sent = sent /\ saved'.taken = taken /\ saved'.count = count
          /\ saved' \in [position : 0..position, sent : Counts, taken : Counts, count : Counts]
      BY <3>1 DEF progress, DataOK
    <3>3. SavedIsPast'
      BY <3>1, <3>2 DEF SavedIsPast, DataOK, Counts
    <3>. QED
      BY <3>1, <3>2, <3>3 DEF DataOK
  <2>2. CASE thread # "running"
    BY <1>6, <2>2, DataKept DEF HookCloses, CloseStreams
  <2>. QED
    BY <2>1, <2>2
<1>7. CASE Restart
  <2>1. /\ saved \in [position : 0..position, sent : Counts, taken : Counts, count : Counts]
        /\ saved.sent \in Counts /\ saved.count \in Counts /\ saved.taken \in Counts
        /\ sent \in Counts /\ count \in Counts
        /\ \A k \in Key : saved.sent[k] <= sent[k] /\ saved.count[k] <= count[k]
    BY DEF DataOK, SavedIsPast
  <2>2. /\ position' = saved.position /\ taken' = saved.taken
        /\ sent' \in Survivors(saved.sent, sent) /\ count' \in Survivors(saved.count, count)
        /\ saved' = [saved EXCEPT !.sent = sent', !.count = count']
        /\ UNCHANGED <<topology, input>>
    BY <1>7 DEF Restart, StartPosition
  <2>3. sent' \in Counts /\ \A k \in Key : saved.sent[k] <= sent'[k]
    BY <2>1, <2>2, Surviving
  <2>4. count' \in Counts
    BY <2>1, <2>2, Surviving
  <2>5. \A k \in Key : saved.taken[k] <= sent'[k]
    BY <2>1, <2>3 DEF DataOK, SavedIsPast, Counts
  <2>6. /\ saved' \in [position : 0..position', sent : Counts, taken : Counts, count : Counts]
        /\ saved'.sent = sent' /\ saved'.count = count' /\ saved'.taken = saved.taken
        /\ position' \in 0..Len(input)
    <3>1. saved' = [position |-> saved.position, sent |-> sent', taken |-> saved.taken,
                    count |-> count']
      BY <2>1, <2>2
    <3>2. saved.position \in 0..position /\ position \in Nat /\ Len(input) \in Nat
          /\ position <= Len(input)
      BY <2>1 DEF DataOK
    <3>3. position' \in 0..position' /\ position' \in 0..Len(input)
      BY <2>2, <3>2
    <3>. QED
      BY <2>1, <2>2, <2>3, <2>4, <3>1, <3>3
  <2>7. \A k \in Key : sent'[k] <= sent'[k] /\ count'[k] <= count'[k]
    BY <2>3, <2>4 DEF Counts
  <2>8. SavedIsPast'
    BY <2>5, <2>6, <2>7 DEF SavedIsPast
  <2>. QED
    BY <2>1, <2>2, <2>3, <2>4, <2>5, <2>6, <2>8 DEF DataOK
<1>8. CASE UNCHANGED vars
  BY <1>8, DataKept DEF vars
<1>. QED
  BY <1>1, <1>2, <1>3, <1>4, <1>5, <1>6, <1>7, <1>8 DEF Next, ThreadStep, ShutdownStep

\* So every step keeps the types.
LEMMA NextTyped == TypeInv /\ [Next]_vars => TypeInv'
<1>1. (TypeInv <=> ControlOK /\ DataOK /\ unclean \in BOOLEAN)'
  BY Parts, PTL
<1>. QED
  BY <1>1, NextControl, NextData

\* Every state of the stream programs has the right types.
THEOREM TypeCorrect == Spec => []TypeOK
<1>1. TypeInv => TypeOK
  BY DEF TypeInv
<1>. QED
  BY InitTyped, NextTyped, <1>1, PTL DEF Spec

-----------------------------------------------------------------------------
(***************************************************************************)
(* Closing makes the last commit the present.                              *)
(***************************************************************************)
SavedIsPresent ==
  /\ saved.position = position /\ saved.sent = sent
  /\ saved.taken = taken /\ saved.count = count

ClosedIsSaved ==
  /\ hook \in {"counting down", "done"} => thread # "running"
  /\ jvm = "down" /\ ~unclean => hook = "done"
  /\ ~unclean /\ thread # "running" => SavedIsPresent

\* Nobody has committed anything at first.
LEMMA InitClosed == Init => ClosedIsSaved
  BY DEF Init, ClosedIsSaved, SavedIsPresent, progress

\* A stream thread that no longer runs has committed, or has died.
LEMMA NextClosed == TypeInv /\ ClosedIsSaved /\ [Next]_vars => ClosedIsSaved'
<1>. SUFFICES ASSUME TypeInv, ClosedIsSaved, [Next]_vars
              PROVE  ClosedIsSaved'
  OBVIOUS
<1>1. CASE (\E value \in DOMAIN topology : Generate(value)) \/ UNCHANGED vars
  BY <1>1, Zenon DEF Generate, vars, processVars, progressVars, ClosedIsSaved, SavedIsPresent
<1>2. CASE ThreadStep \/ Commit
  <2>1. /\ thread = "running" /\ jvm = "up" /\ hook' = hook /\ jvm' = jvm
        /\ thread' = "running" \/ (thread' = "dead" /\ unclean' = TRUE)
    BY <1>2, Zenon DEF ThreadStep, Process, Count, Commit, Working, processVars
  <2>2. jvm' # "down"
    BY <2>1
  <2>3. hook' \in {"counting down", "done"} => FALSE
    BY <2>1, Zenon DEF ClosedIsSaved
  <2>. QED
    BY <2>1, <2>2, <2>3, Zenon DEF ClosedIsSaved
<1>3. CASE Start \/ Signal
  <2>1. hook' \in {"none", "closing"} \/ (hook' = hook /\ thread' = thread)
    BY <1>3, Zenon DEF Start, Signal
  <2>2. jvm' = "up" /\ unclean' = unclean
        /\ UNCHANGED <<saved, progressVars>> /\ (thread' = thread \/ thread' = "running")
    BY <1>3, Zenon DEF Start, Signal
  <2>3. SavedIsPresent' <=> SavedIsPresent
    BY <2>2, Zenon DEF SavedIsPresent, progressVars
  <2>4. hook' \in {"counting down", "done"} => hook' = hook /\ thread' = thread
    BY <2>1
  <2>5. jvm' # "down"
    BY <2>2
  <2>. QED
    BY <2>2, <2>3, <2>4, <2>5, Zenon DEF ClosedIsSaved
<1>4. CASE HookCloses
  <2>1. jvm' # "down" /\ unclean' = unclean
    BY <1>4 DEF HookCloses
  <2>2. thread' # "running"
    BY <1>4 DEF HookCloses, CloseStreams
  <2>3. CASE thread = "running"
    <3>1. saved' = progress /\ UNCHANGED progressVars
      BY <1>4, <2>3 DEF HookCloses, CloseStreams
    <3>2. SavedIsPresent'
      BY <3>1 DEF progress, progressVars, SavedIsPresent
    <3>. QED
      BY <2>1, <2>2, <3>2, Zenon DEF ClosedIsSaved
  <2>4. CASE thread # "running"
    <3>1. UNCHANGED <<saved, progressVars, thread>>
      BY <1>4, <2>4, Zenon DEF HookCloses, CloseStreams
    <3>. QED
      BY <2>1, <2>2, <2>4, <3>1, Zenon DEF ClosedIsSaved, SavedIsPresent, progressVars
  <2>. QED
    BY <2>3, <2>4
<1>5. CASE HookCountsDown \/ Halt \/ MainExits
  <2>1. UNCHANGED <<saved, progressVars, thread, unclean>>
    BY <1>5, Zenon DEF HookCountsDown, Halt, MainExits
  <2>2. hook' = hook \/ (hook = "counting down" /\ hook' = "done")
    BY <1>5, Zenon DEF HookCountsDown, Halt, MainExits
  <2>3. jvm' = "down" => hook' = "done"
    BY <1>5 DEF HookCountsDown, Halt, MainExits, HookHasRun
  <2>4. hook' \in {"counting down", "done"} => hook \in {"counting down", "done"}
    BY <2>2
  <2>. QED
    BY <2>1, <2>3, <2>4, Zenon DEF ClosedIsSaved, SavedIsPresent, progressVars
<1>6. CASE Kill
  BY <1>6, Zenon DEF Kill, ClosedIsSaved
<1>7. CASE Restart
  <2>1. /\ hook' \notin {"counting down", "done"} /\ jvm' # "down"
        /\ position' = saved.position /\ taken' = saved.taken
        /\ saved' = [saved EXCEPT !.sent = sent', !.count = count']
    BY <1>7 DEF Restart, StartPosition
  <2>2. saved \in [position : 0..position, sent : Counts, taken : Counts, count : Counts]
    BY Zenon DEF TypeInv, TypeOK
  <2>3. SavedIsPresent'
    <3>1. saved' = [position |-> saved.position, sent |-> sent', taken |-> saved.taken,
                    count |-> count']
      BY <2>1, <2>2
    <3>. QED
      BY <2>1, <3>1 DEF SavedIsPresent
  <2>. QED
    BY <2>1, <2>3, Zenon DEF ClosedIsSaved
<1>. QED
  BY <1>1, <1>2, <1>3, <1>4, <1>5, <1>6, <1>7 DEF Next, ShutdownStep

-----------------------------------------------------------------------------
(***************************************************************************)
(* What was taken has been delivered.                                      *)
(***************************************************************************)
DeliveredOf(s, t, c) == IF topology \in Counting THEN c + s - t ELSE s

Kept ==
  \A k \in Key :
    /\ DeliveredOf(sent[k], taken[k], count[k]) >= ExpectedOf(position, input, k)
    /\ DeliveredOf(saved.sent[k], saved.taken[k], saved.count[k])
         >= ExpectedOf(saved.position, input, k)
    /\ ~unclean => DeliveredOf(sent[k], taken[k], count[k]) = ExpectedOf(position, input, k)

\* Nothing is expected of no records.
LEMMA InitKept == Init => Kept
<1>. SUFFICES ASSUME Init, NEW k \in Key
              PROVE  /\ DeliveredOf(sent[k], taken[k], count[k]) = ExpectedOf(position, input, k)
                     /\ DeliveredOf(saved.sent[k], saved.taken[k], saved.count[k])
                          = ExpectedOf(saved.position, input, k)
                     /\ ExpectedOf(position, input, k) = 0
                     /\ ExpectedOf(saved.position, input, k) = 0
  BY DEF Kept
<1>1. /\ position = 0 /\ sent[k] = 0 /\ taken[k] = 0 /\ count[k] = 0
      /\ saved.position = 0 /\ saved.sent[k] = 0 /\ saved.taken[k] = 0 /\ saved.count[k] = 0
  BY DEF Init, NoCounts, progress
<1>2. ExpectedOf(0, input, k) = 0
  BY ExpectedTyped
<1>. QED
  BY <1>1, <1>2 DEF DeliveredOf

\* The invariant about k after a step, in terms of the topology before it.
LEMMA KeptAfter ==
  ASSUME topology' = topology,
         \A k \in Key :
           /\ DeliveredOf(sent'[k], taken'[k], count'[k]) >= ExpectedOf(position', input', k)
           /\ DeliveredOf(saved'.sent[k], saved'.taken[k], saved'.count[k])
                >= ExpectedOf(saved'.position, input', k)
           /\ ~unclean' =>
                DeliveredOf(sent'[k], taken'[k], count'[k]) = ExpectedOf(position', input', k)
  PROVE  Kept'
  BY DEF Kept, DeliveredOf, Counting, WordCount, CountBy, ExpectedOf, Places

\* Every record that is taken is sent as often as expected, what is counted
\* leaves the repartition topic, and a restart resumes at the last commit.
LEMMA NextKept == TypeInv /\ ClosedIsSaved /\ Kept /\ [Next]_vars => Kept'
<1>. SUFFICES ASSUME TypeInv, DataOK, ClosedIsSaved, Kept, [Next]_vars
              PROVE  Kept'
  BY Parts
<1>0. /\ topology \in Topologies
      /\ \A k \in Key : /\ sent[k] \in Nat /\ taken[k] \in Nat /\ count[k] \in Nat
                        /\ saved.sent[k] \in Nat /\ saved.taken[k] \in Nat
                        /\ saved.count[k] \in Nat
      /\ input \in Seq(DOMAIN topology)
      /\ position \in 0..Len(input) /\ position \in Nat /\ Len(input) \in Nat
      /\ saved.position \in 0..Len(input) /\ saved.position \in Nat
  <2>1. topology \in Topologies
    BY Parts, Zenon DEF ControlOK
  <2>. QED
    BY <2>1 DEF DataOK, Counts
<1>1. CASE \E value \in DOMAIN topology : Generate(value)
  <2>1. PICK value \in DOMAIN topology : Generate(value)
    BY <1>1
  <2>2. /\ input' = Append(input, value)
        /\ UNCHANGED <<topology, position, sent, taken, count, saved, unclean>>
    BY <2>1, Zenon DEF Generate, progressVars
  <2>3. \A k \in Key : /\ ExpectedOf(position, input', k) = ExpectedOf(position, input, k)
                       /\ ExpectedOf(saved.position, input', k)
                            = ExpectedOf(saved.position, input, k)
    BY <1>0, <2>2, ExpectedKept, Zenon
  <2>. QED
    BY <2>2, <2>3, KeptAfter, Zenon DEF Kept
<1>2. CASE Process
  <2>. DEFINE value == input[position + 1]
  <2>1. CASE ~Fatal(value)
    <3>1. /\ position' = position + 1
          /\ sent' = [k \in Key |-> sent[k] + Occurrences(k, topology[value])]
          /\ UNCHANGED <<topology, input, taken, count, saved, unclean>>
      BY <1>2, <2>1 DEF Process
    <3>2. value \in DOMAIN topology
      BY <1>0, <1>2 DEF Process
    <3>3. ASSUME NEW k \in Key
          PROVE  /\ Occurrences(k, topology[value]) \in Nat
                 /\ sent'[k] = sent[k] + Occurrences(k, topology[value])
                 /\ ExpectedOf(position', input', k)
                      = ExpectedOf(position, input, k) + Occurrences(k, topology[value])
                 /\ ExpectedOf(position, input, k) \in Nat
      BY <1>0, <3>1, <3>2, OccurrencesTyped, ExpectedGrows, ExpectedTyped
    <3>4. ASSUME NEW k \in Key
          PROVE  DeliveredOf(sent'[k], taken'[k], count'[k])
                   = DeliveredOf(sent[k], taken[k], count[k]) + Occurrences(k, topology[value])
      BY <1>0, <3>1, <3>3 DEF DeliveredOf
    <3>5. \A k \in Key : DeliveredOf(sent[k], taken[k], count[k]) \in Int
      BY <1>0 DEF DeliveredOf
    <3>6. ASSUME NEW k \in Key
          PROVE  /\ DeliveredOf(sent'[k], taken'[k], count'[k]) >= ExpectedOf(position', input', k)
                 /\ ~unclean' => DeliveredOf(sent'[k], taken'[k], count'[k])
                                   = ExpectedOf(position', input', k)
      <4>1. /\ DeliveredOf(sent[k], taken[k], count[k]) >= ExpectedOf(position, input, k)
            /\ ~unclean => DeliveredOf(sent[k], taken[k], count[k])
                             = ExpectedOf(position, input, k)
        BY DEF Kept
      <4>. QED
        BY <3>1, <3>3, <3>4, <3>5, <4>1
    <3>7. ASSUME NEW k \in Key
          PROVE  DeliveredOf(saved'.sent[k], saved'.taken[k], saved'.count[k])
                   >= ExpectedOf(saved'.position, input', k)
      BY <3>1, Zenon DEF Kept
    <3>. QED
      BY <3>1, <3>6, <3>7, KeptAfter, Zenon
  <2>2. CASE Fatal(value)
    <3>1. /\ UNCHANGED <<topology, input, position, sent, taken, count, saved>>
          /\ unclean' = TRUE
      BY <1>2, <2>2 DEF Process
    <3>. QED
      BY <3>1, KeptAfter, Zenon DEF Kept
  <2>. QED
    BY <2>1, <2>2
<1>3. CASE \E k \in Key : Count(k)
  <2>1. PICK j \in Key : Count(j)
    BY <1>3
  <2>2. /\ topology \in Counting
        /\ taken' = [taken EXCEPT ![j] = @ + 1] /\ count' = [count EXCEPT ![j] = @ + 1]
        /\ UNCHANGED <<topology, input, position, sent, saved, unclean>>
    BY <2>1 DEF Count
  <2>3. ASSUME NEW k \in Key
        PROVE  DeliveredOf(sent'[k], taken'[k], count'[k])
                 = DeliveredOf(sent[k], taken[k], count[k])
    <3>1. /\ taken'[k] = IF k = j THEN taken[k] + 1 ELSE taken[k]
          /\ count'[k] = IF k = j THEN count[k] + 1 ELSE count[k]
      BY <2>2 DEF DataOK, Counts
    <3>2. sent[k] \in Nat /\ taken[k] \in Nat /\ count[k] \in Nat /\ sent'[k] = sent[k]
      BY <1>0, <2>2, Zenon
    <3>3. count'[k] + sent'[k] - taken'[k] = count[k] + sent[k] - taken[k]
      BY <3>1, <3>2
    <3>. QED
      BY <2>2, <3>3, Zenon DEF DeliveredOf
  <2>. QED
    BY <2>2, <2>3, KeptAfter, Zenon DEF Kept
<1>4. CASE Commit \/ (HookCloses /\ thread = "running")
  <2>1. /\ saved' = progress
        /\ UNCHANGED <<topology, input, position, sent, taken, count, unclean>>
    BY <1>4, Zenon DEF Commit, HookCloses, CloseStreams, progressVars
  <2>2. /\ saved'.position = position /\ saved'.sent = sent
        /\ saved'.taken = taken /\ saved'.count = count
    BY <2>1 DEF progress
  <2>. QED
    BY <2>1, <2>2, KeptAfter, Zenon DEF Kept
<1>5. CASE \/ Start \/ Signal \/ HookCountsDown \/ Halt \/ MainExits \/ UNCHANGED vars
           \/ (HookCloses /\ thread # "running")
  <2>1. UNCHANGED <<topology, input, position, sent, taken, count, saved, unclean>>
    BY <1>5, Zenon DEF Start, Signal, HookCloses, CloseStreams, HookCountsDown, Halt, MainExits,
       vars, progressVars
  <2>. QED
    BY <2>1, KeptAfter, Zenon DEF Kept
<1>6. CASE Kill
  <2>1. /\ UNCHANGED <<topology, input, position, sent, taken, count, saved>>
        /\ unclean' = TRUE
    BY <1>6, Zenon DEF Kill, progressVars
  <2>. QED
    BY <2>1, KeptAfter, Zenon DEF Kept
<1>7. CASE Restart
  <2>1. /\ position' = saved.position /\ taken' = saved.taken
        /\ sent' \in Survivors(saved.sent, sent) /\ count' \in Survivors(saved.count, count)
        /\ saved' = [saved EXCEPT !.sent = sent', !.count = count']
        /\ UNCHANGED <<topology, input, unclean>>
        /\ jvm = "down"
    BY <1>7 DEF Restart, StartPosition
  <2>2. saved \in [position : 0..position, sent : Counts, taken : Counts, count : Counts]
        /\ sent \in Counts /\ count \in Counts
    BY Zenon DEF DataOK
  <2>3. saved' = [position |-> saved.position, sent |-> sent', taken |-> saved.taken,
                  count |-> count']
    BY <2>1, <2>2
  <2>4. /\ saved.sent \in Counts /\ saved.count \in Counts
        /\ \A k \in Key : saved.sent[k] <= sent[k] /\ saved.count[k] <= count[k]
    BY <2>2 DEF DataOK, SavedIsPast
  <2>5. \A k \in Key : /\ sent'[k] \in Nat /\ count'[k] \in Nat
                       /\ saved.sent[k] <= sent'[k] /\ sent'[k] <= sent[k]
                       /\ saved.count[k] <= count'[k] /\ count'[k] <= count[k]
    <3>1. sent' \in Counts /\ \A k \in Key : saved.sent[k] <= sent'[k] /\ sent'[k] <= sent[k]
      BY <2>1, <2>2, <2>4, Surviving
    <3>2. count' \in Counts /\ \A k \in Key : saved.count[k] <= count'[k] /\ count'[k] <= count[k]
      BY <2>1, <2>2, <2>4, Surviving
    <3>. QED
      BY <3>1, <3>2 DEF Counts
  <2>6. ASSUME NEW k \in Key
        PROVE  DeliveredOf(sent'[k], taken'[k], count'[k]) >= ExpectedOf(position', input', k)
    <3>1. DeliveredOf(saved.sent[k], saved.taken[k], saved.count[k])
            >= ExpectedOf(saved.position, input, k)
      BY DEF Kept
    <3>2. DeliveredOf(sent'[k], taken'[k], count'[k])
            >= DeliveredOf(saved.sent[k], saved.taken[k], saved.count[k])
      BY <1>0, <2>1, <2>5 DEF DeliveredOf
    <3>3. /\ DeliveredOf(sent'[k], taken'[k], count'[k]) \in Int
          /\ DeliveredOf(saved.sent[k], saved.taken[k], saved.count[k]) \in Int
      BY <1>0, <2>1, <2>5 DEF DeliveredOf
    <3>4. ExpectedOf(saved.position, input, k) \in Nat
      BY <1>0, ExpectedTyped
    <3>. QED
      BY <2>1, <3>1, <3>2, <3>3, <3>4
  <2>7. ASSUME ~unclean', NEW k \in Key
        PROVE  DeliveredOf(sent'[k], taken'[k], count'[k]) = ExpectedOf(position', input', k)
    <3>1. SavedIsPresent /\ ~unclean
      BY <2>1, <2>7, Zenon DEF ClosedIsSaved
    <3>2. sent'[k] = sent[k] /\ count'[k] = count[k] /\ taken'[k] = taken[k]
          /\ position' = position
      BY <1>0, <2>1, <2>5, <3>1 DEF SavedIsPresent
    <3>. QED
      BY <2>1, <3>1, <3>2, Zenon DEF Kept
  <2>8. /\ saved'.position = position' /\ saved'.sent = sent'
        /\ saved'.taken = taken' /\ saved'.count = count'
    BY <2>1, <2>3
  <2>. QED
    BY <2>1, <2>6, <2>7, <2>8, KeptAfter, Zenon
<1>. QED
  BY <1>1, <1>2, <1>3, <1>4, <1>5, <1>6, <1>7 DEF Next, ThreadStep, ShutdownStep

\* The programs never lose a record's outputs, and deliver each exactly once as
\* long as the hook alone stops them.
THEOREM CleanStops == Spec => []CleanStopsCountOnce
<1>1. Kept => CleanStopsCountOnce
  <2>1. \A k \in Key : /\ Delivered(k) = DeliveredOf(sent[k], taken[k], count[k])
                       /\ Expected(k) = ExpectedOf(position, input, k)
    BY DEF Delivered, DeliveredOf, Expected, ExpectedOf, Places
  <2>. QED
    BY <2>1 DEF Kept, CleanStopsCountOnce
<1>2. Init => TypeInv /\ ClosedIsSaved /\ Kept
  BY InitTyped, InitClosed, InitKept
<1>3. TypeInv /\ ClosedIsSaved /\ Kept /\ [Next]_vars => (TypeInv /\ ClosedIsSaved /\ Kept)'
  BY NextTyped, NextClosed, NextKept
<1>. QED
  BY <1>1, <1>2, <1>3, PTL DEF Spec

=============================================================================
