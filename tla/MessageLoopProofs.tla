------------------------- MODULE MessageLoopProofs -------------------------
(***************************************************************************)
(* Proofs about StoreConsumer and ReaderLoop, the consumers that read and  *)
(* act on one message after another, for any number of messages, requests, *)
(* failures and restarts.                                                  *)
(*                                                                         *)
(* StoreConsumer: the first two theorems rest on where the message in hand *)
(* stands: between Fetch and its row it is the last one fetched, and from  *)
(* CommitOffset on the last one committed (MessageInHand,                  *)
(* CommittedInHand).  At most one row per message then needs that every    *)
(* stored message is committed, so that a restart never goes back to it    *)
(* (StoredIsCommitted, kafka-go only).  The bound on losses is not         *)
(* inductive, because a commit can make several messages Lost at once,     *)
(* those whose own commits had failed: Behind counts a message as soon as  *)
(* the reader is past it.  A row that stands for no message is due as soon *)
(* as the loop holds the nil message (StrayRowsDue).                       *)
(*                                                                         *)
(* ReaderLoop, as Loop: in the pipeline the message in hand is the last    *)
(* one fetched (LoopInHand), so what the reader is past and has not        *)
(* written was dropped by a step that logged an error, or by a crash.      *)
(* LoopBehind counts such a message at once, where Missing waits for its   *)
(* commit, which a later message may bring.  The offset reader holds       *)
(* nothing but the first message, and a nil message only after a failed    *)
(* read (FirstOnly).                                                       *)
(***************************************************************************)
EXTENDS StoreConsumer, ReaderState, FiniteSetTheorems, TLAPS

Loop == INSTANCE ReaderLoop

InHand == pc \in {"commit", "store", "storing"} /\ msg # Nothing

MessageInHand ==
  /\ InHand => fetched = msg + 1
  /\ pc \in {"read", "down"} => msg = Nothing
  /\ pc = "commit" => msg # Nothing /\ ~AutoCommit
  /\ committed <= fetched

CommittedInHand ==
  /\ pc = "commit" => committed <= msg
  /\ (pc \in {"store", "storing"} /\ msg # Nothing) => committed = msg + 1

StoredIsCommitted ==
  \A o \in Offset :
    rows[o] > 0 => rows[o] = 1 /\ o < committed /\ (InHand => o # msg)

\* Messages the reader is past, that are not in hand and in no row.
Behind == {o \in Offset : o < fetched /\ rows[o] = 0 /\ o # msg}

NothingForgotten == Cardinality(Behind) <= readErrors + storeErrors + crashes

TypeInv == TypeOK /\ MessageInHand
OnceInv == ~AutoCommit => CommittedInHand /\ StoredIsCommitted


-----------------------------------------------------------------------------
(***************************************************************************)
(* Types, and the message in hand.                                         *)
(***************************************************************************)

\* An error of Read is followed by a store or by the next read.
LEMMA NextAfterError == program \in Programs => AfterReadError \in {"read", "store"}
  BY DEF Programs, Lecture3Main, SerialisationMain, OutboxMain, ConfluentMain, AfterReadError

\* The initial state is well typed and has no message in hand.
LEMMA InitTyped == Init => TypeInv
<1>1. Init => connDead \in BOOLEAN
  BY Zenon DEF Init
<1>. QED
  BY <1>1, ConsumerAssumption DEF Init, TypeInv, TypeOK, MessageInHand, InHand, Offset,
     Nothing, AutoCommit

\* An INSERT, performed or not, keeps the types of the table.
LEMMA RowsTyped ==
  TypeOK /\ (InsertRow \/ UNCHANGED tableVars) =>
    rows' \in [Offset -> Nat] /\ strayRows' \in Nat
<1>1. TypeOK => msg \in Offset \cup {Nothing} /\ rows \in [Offset -> Nat] /\ strayRows \in Nat
  BY Zenon DEF TypeOK
<1>. QED
  BY <1>1 DEF InsertRow, tableVars

\* Every step keeps the types, and the message in hand the last one fetched.
LEMMA NextTyped == TypeInv /\ [Next]_vars => TypeInv'
<1>. SUFFICES ASSUME TypeInv, [Next]_vars
              PROVE  TypeInv'
  OBVIOUS
<1>. USE ConsumerAssumption DEF TypeInv, TypeOK, MessageInHand, InHand, Offset, Nothing,
     AutoCommit, tableVars, errorVars
<1>1. CASE Produce
  BY <1>1 DEF Produce
<1>2. CASE Fetch
  BY <1>2 DEF Fetch, AfterFetch
<1>3. CASE FetchFails
  BY <1>3, NextAfterError DEF FetchFails, Fault
<1>4. CASE CommitOffset
  BY <1>4 DEF CommitOffset
<1>5. CASE CommitFails
  BY <1>5, NextAfterError DEF CommitFails, Fault
<1>6. CASE BackgroundCommit
  BY <1>6 DEF BackgroundCommit
<1>7. CASE StoreBegin
  BY <1>7 DEF StoreBegin
<1>8. CASE StoreRefused
  BY <1>8 DEF StoreRefused, AfterRefusal
<1>9. CASE StoreEnd
  <2>1. rows' \in [Offset -> Nat] /\ strayRows' \in Nat
    BY <1>9, RowsTyped DEF StoreEnd
  <2>. QED
    BY <1>9, <2>1 DEF StoreEnd
<1>10. CASE StoreFails
  <2>1. rows' \in [Offset -> Nat] /\ strayRows' \in Nat
    BY <1>10, RowsTyped DEF StoreFails
  <2>2. connDead' \in BOOLEAN
    BY <1>10, Zenon DEF StoreFails
  <2>. QED
    BY <1>10, <2>1, <2>2 DEF StoreFails, Fault
<1>11. CASE Crash
  BY <1>11 DEF Crash, Fault
<1>12. CASE Restart
  <2>1. connDead' \in BOOLEAN
    BY <1>12, Zenon DEF Restart
  <2>. QED
    BY <1>12, <2>1 DEF Restart, StartOffset
<1>13. CASE \E r \in Requests : ListBegin(r) \/ ListEnd(r) \/ ListCancelled(r)
  BY <1>13 DEF ListBegin, ListEnd, ListCancelled
<1>14. CASE UNCHANGED vars
  BY <1>14 DEF vars
<1>. QED
  BY <1>1, <1>2, <1>3, <1>4, <1>5, <1>6, <1>7, <1>8, <1>9, <1>10, <1>11, <1>12, <1>13,
     <1>14 DEF Next, LoopStep

\* Every state of the consumer has the right types, for any partition, any
\* requests and any number of failures and restarts.
THEOREM TypeCorrect == Spec => []TypeOK
<1>1. TypeInv => TypeOK
  BY DEF TypeInv
<1>. QED
  BY InitTyped, NextTyped, <1>1, PTL DEF Spec

-----------------------------------------------------------------------------
(***************************************************************************)
(* At most one row per message.                                            *)
(***************************************************************************)

\* No step changes the program.
LEMMA ProgramIsFixed == [Next]_vars => (AutoCommit' <=> AutoCommit)
<1>1. [Next]_vars => program' = program
  BY DEF Next, LoopStep, vars, Produce, Fetch, FetchFails, CommitOffset, CommitFails,
     BackgroundCommit, StoreBegin, StoreRefused, StoreEnd, StoreFails, ListBegin, ListEnd,
     ListCancelled, Crash, Restart
<1>. QED
  BY <1>1 DEF AutoCommit

\* A step of the kafka-go consumer stores only the message in hand, which is
\* committed and has no row, and goes back only to what is not committed.
LEMMA NextOnce == TypeInv /\ OnceInv /\ [Next]_vars => OnceInv'
<1>. SUFFICES ASSUME TypeInv, CommittedInHand, StoredIsCommitted, ~AutoCommit, [Next]_vars
              PROVE  CommittedInHand' /\ StoredIsCommitted'
  BY ProgramIsFixed DEF OnceInv
<1>. USE ConsumerAssumption DEF CommittedInHand, StoredIsCommitted, TypeInv, TypeOK,
     MessageInHand, InHand, Offset, Nothing, AutoCommit, tableVars, errorVars
<1>1. CASE Produce
  BY <1>1 DEF Produce
<1>2. CASE Fetch
  BY <1>2 DEF Fetch, AfterFetch
<1>3. CASE FetchFails
  BY <1>3, NextAfterError DEF FetchFails, Fault
<1>4. CASE CommitOffset
  BY <1>4 DEF CommitOffset
<1>5. CASE CommitFails
  BY <1>5, NextAfterError DEF CommitFails, Fault
<1>6. CASE BackgroundCommit
  BY <1>6 DEF BackgroundCommit
<1>7. CASE StoreBegin
  BY <1>7 DEF StoreBegin
<1>8. CASE StoreRefused
  BY <1>8 DEF StoreRefused, AfterRefusal
<1>9. CASE StoreEnd
  BY <1>9 DEF StoreEnd, InsertRow
<1>10. CASE StoreFails
  BY <1>10 DEF StoreFails, Fault, InsertRow
<1>11. CASE Crash
  BY <1>11 DEF Crash, Fault
<1>12. CASE Restart
  BY <1>12 DEF Restart, StartOffset
<1>13. CASE \E r \in Requests : ListBegin(r) \/ ListEnd(r) \/ ListCancelled(r)
  BY <1>13 DEF ListBegin, ListEnd, ListCancelled
<1>14. CASE UNCHANGED vars
  BY <1>14 DEF vars
<1>. QED
  BY <1>1, <1>2, <1>3, <1>4, <1>5, <1>6, <1>7, <1>8, <1>9, <1>10, <1>11, <1>12, <1>13,
     <1>14 DEF Next, LoopStep

\* The kafka-go consumer stores no message twice: the property that committing
\* before storing buys.
THEOREM AtMostOnce == Spec => []StoredAtMostOnce
<1>1. Init => OnceInv
  BY ConsumerAssumption DEF Init, OnceInv, CommittedInHand, StoredIsCommitted, InHand,
     Offset, AutoCommit
<1>2. TypeInv /\ OnceInv => StoredAtMostOnce
  BY DEF TypeInv, TypeOK, OnceInv, StoredIsCommitted, StoredAtMostOnce, Offset
<1>. QED
  BY InitTyped, NextTyped, NextOnce, <1>1, <1>2, PTL DEF Spec

-----------------------------------------------------------------------------
(***************************************************************************)
(* The bound on losses.                                                    *)
(***************************************************************************)

\* A subset of a finite set is no larger, and one new element makes
\* it larger by one at most.
LEMMA Growth ==
  ASSUME NEW U, IsFiniteSet(U), NEW S \in SUBSET U, NEW T \in SUBSET U
  PROVE  /\ Cardinality(S) \in Nat
         /\ T \subseteq S => Cardinality(T) <= Cardinality(S)
         /\ \A o : T \subseteq S \cup {o} => Cardinality(T) <= Cardinality(S) + 1
<1>1. IsFiniteSet(S)
  BY FS_Subset
<1>2. T \subseteq S => Cardinality(T) <= Cardinality(S)
  BY <1>1, FS_Subset
<1>3. ASSUME NEW o, T \subseteq S \cup {o}
      PROVE  Cardinality(T) <= Cardinality(S) + 1
  <2>1. /\ IsFiniteSet(S \cup {o})
        /\ Cardinality(S \cup {o}) \in {Cardinality(S), Cardinality(S) + 1}
    BY <1>1, FS_AddElement, FS_CardinalityType
  <2>2. Cardinality(T) <= Cardinality(S \cup {o}) /\ Cardinality(T) \in Nat
    BY <1>3, <2>1, FS_Subset, FS_CardinalityType
  <2>. QED
    BY <1>1, <2>1, <2>2, FS_CardinalityType
<1>. QED
  BY <1>1, <1>2, <1>3, FS_CardinalityType

\* There are finitely many offsets.
LEMMA OffsetFinite == IsFiniteSet(Offset)
  BY ConsumerAssumption, FS_Interval DEF Offset

Errors == readErrors + storeErrors + crashes

\* The number of errors is a natural number.
LEMMA ErrorsTyped == TypeInv => Errors \in Nat
<1>1. TypeInv => readErrors \in Nat /\ storeErrors \in Nat /\ crashes \in Nat
  BY Zenon DEF TypeInv, TypeOK
<1>. QED
  BY <1>1 DEF Errors

\* A step that leaves a message behind is one more line in the log, or the
\* death of the process.
LEMMA LeftBehind ==
  TypeInv /\ [Next]_vars =>
    \/ Behind' \subseteq Behind /\ Errors' >= Errors
    \/ Behind' \subseteq Behind \cup {msg} /\ Errors' = Errors + 1
<1>. SUFFICES ASSUME TypeInv, [Next]_vars
              PROVE  \/ Behind' \subseteq Behind /\ Errors' >= Errors
                     \/ Behind' \subseteq Behind \cup {msg} /\ Errors' = Errors + 1
  OBVIOUS
<1>. USE ConsumerAssumption DEF Behind, Errors, TypeInv, TypeOK, MessageInHand, InHand,
     Offset, Nothing, AutoCommit, tableVars, errorVars
<1>1. CASE Produce
  BY <1>1 DEF Produce
<1>2. CASE Fetch
  BY <1>2 DEF Fetch, AfterFetch
<1>3. CASE FetchFails
  BY <1>3, NextAfterError DEF FetchFails, Fault
<1>4. CASE CommitOffset
  BY <1>4 DEF CommitOffset
<1>5. CASE CommitFails
  BY <1>5, NextAfterError DEF CommitFails, Fault
<1>6. CASE BackgroundCommit
  BY <1>6 DEF BackgroundCommit
<1>7. CASE StoreBegin
  BY <1>7 DEF StoreBegin
<1>8. CASE StoreRefused
  BY <1>8 DEF StoreRefused, AfterRefusal
<1>9. CASE StoreEnd
  BY <1>9 DEF StoreEnd, InsertRow
<1>10. CASE StoreFails
  BY <1>10 DEF StoreFails, Fault, InsertRow
<1>11. CASE Crash
  BY <1>11 DEF Crash, Fault
<1>12. CASE Restart
  BY <1>12 DEF Restart, StartOffset
<1>13. CASE \E r \in Requests : ListBegin(r) \/ ListEnd(r) \/ ListCancelled(r)
  <2>1. UNCHANGED <<fetched, rows, msg, errorVars>>
    BY <1>13 DEF ListBegin, ListEnd, ListCancelled, tableVars
  <2>2. Behind' = Behind
    BY <2>1 DEF Behind
  <2>3. Errors' = Errors
    BY <2>1 DEF Errors, errorVars
  <2>. QED
    BY <2>2, <2>3, ErrorsTyped
<1>14. CASE UNCHANGED vars
  BY <1>14 DEF vars
<1>. QED
  BY <1>1, <1>2, <1>3, <1>4, <1>5, <1>6, <1>7, <1>8, <1>9, <1>10, <1>11, <1>12, <1>13,
     <1>14 DEF Next, LoopStep

\* Every message that is committed, read and stored nowhere is answered for by
\* a logged error or a crash, for both clients.
THEOREM LossIsLogged == Spec => []NoSilentLoss
<1>1. Init => NothingForgotten
  <2>. SUFFICES ASSUME Init PROVE NothingForgotten
    OBVIOUS
  <2>1. Behind = {}
    BY DEF Init, Behind, Offset
  <2>. QED
    BY <2>1, FS_EmptySet DEF Init, NothingForgotten
<1>2. TypeInv /\ TypeInv' /\ NothingForgotten /\ [Next]_vars => NothingForgotten'
  <2>. SUFFICES ASSUME TypeInv, TypeInv', NothingForgotten, [Next]_vars
                PROVE  NothingForgotten'
    OBVIOUS
  <2>1. Behind \in SUBSET Offset /\ Behind' \in SUBSET Offset
    BY DEF Behind, Offset
  <2>2. Errors \in Nat /\ Errors' \in Nat
    <3>1. (TypeInv => Errors \in Nat)'
      BY ErrorsTyped, PTL
    <3>. QED
      BY <3>1, ErrorsTyped
  <2>3. Cardinality(Behind) <= Errors
    BY DEF NothingForgotten, Errors
  <2>4. Cardinality(Behind') <= Errors'
    <3>1. CASE Behind' \subseteq Behind /\ Errors' >= Errors
      <4>1. Cardinality(Behind') <= Cardinality(Behind)
        BY <2>1, <3>1, OffsetFinite, Growth
      <4>2. Cardinality(Behind) \in Nat /\ Cardinality(Behind') \in Nat
        BY <2>1, OffsetFinite, Growth
      <4>. QED
        BY <2>2, <2>3, <3>1, <4>1, <4>2
    <3>2. CASE Behind' \subseteq Behind \cup {msg} /\ Errors' = Errors + 1
      <4>1. Cardinality(Behind') <= Cardinality(Behind) + 1
        BY <2>1, <3>2, OffsetFinite, Growth
      <4>2. Cardinality(Behind) \in Nat /\ Cardinality(Behind') \in Nat
        BY <2>1, OffsetFinite, Growth
      <4>. QED
        BY <2>2, <2>3, <3>2, <4>1, <4>2
    <3>. QED
      BY <3>1, <3>2, LeftBehind
  <2>. QED
    BY <2>4 DEF NothingForgotten, Errors
<1>3. TypeInv /\ NothingForgotten => NoSilentLoss
  <2>. SUFFICES ASSUME TypeInv, NothingForgotten PROVE NoSilentLoss
    OBVIOUS
  <2>1. Behind \in SUBSET Offset /\ Lost \in SUBSET Offset /\ Lost \subseteq Behind
    BY DEF Behind, Lost
  <2>2. Cardinality(Lost) <= Cardinality(Behind) /\ Cardinality(Lost) \in Nat
        /\ Cardinality(Behind) \in Nat
    BY <2>1, OffsetFinite, Growth
  <2>. QED
    BY <2>2 DEF NothingForgotten, NoSilentLoss, TypeInv, TypeOK
<1>. QED
  BY InitTyped, NextTyped, <1>1, <1>2, <1>3, PTL DEF Spec

-----------------------------------------------------------------------------
(***************************************************************************)
(* Rows that stand for no message.                                         *)
(***************************************************************************)

\* The loop is about to store the nil message.
StoringNothing == pc \in {"store", "storing"} /\ msg = Nothing

\* A nil message in hand is a row that may come.
StrayRowsDue ==
  /\ AutoCommit => strayRows = 0 /\ ~StoringNothing
  /\ strayRows + (IF StoringNothing THEN 1 ELSE 0) <= readErrors

\* Only the failed reads of the kafka-go loops lead to a stray row.
LEMMA NextDue == TypeInv /\ StrayRowsDue /\ [Next]_vars => StrayRowsDue'
<1>. SUFFICES ASSUME TypeInv, StrayRowsDue, [Next]_vars
              PROVE  StrayRowsDue'
  OBVIOUS
<1>0. /\ strayRows \in Nat /\ readErrors \in Nat
      /\ program' = program
      /\ program \in Programs
  BY Zenon DEF TypeInv, TypeOK, Next, LoopStep, Produce, Fetch, FetchFails, CommitOffset,
     CommitFails, BackgroundCommit, StoreBegin, StoreRefused, StoreEnd, StoreFails, ListBegin,
     ListEnd, ListCancelled, Crash, Restart, vars
<1>1. \A o \in Offset : o # Nothing
  BY DEF Offset, Nothing
<1>2. AutoCommit' <=> AutoCommit
  BY <1>0 DEF AutoCommit
<1>3. AutoCommit => AfterReadError = "read"
  BY <1>0 DEF AutoCommit, AfterReadError, Programs, Lecture3Main, SerialisationMain, OutboxMain,
     ConfluentMain, Lecture3Client, SerialisationClient, OutboxClient
<1>4. CASE FetchFails \/ CommitFails
  <2>1. /\ UNCHANGED strayRows /\ readErrors' = readErrors + 1
        /\ pc' = AfterReadError /\ msg' = Nothing
    BY <1>4, Zenon DEF FetchFails, CommitFails, tableVars
  <2>. QED
    BY <1>0, <1>2, <1>3, <2>1 DEF StrayRowsDue, StoringNothing
<1>5. CASE StoreEnd \/ StoreFails
  <2>1. pc = "storing" /\ pc' = "read" /\ UNCHANGED readErrors
        /\ (InsertRow \/ UNCHANGED tableVars)
    BY <1>5, Zenon DEF StoreEnd, StoreFails, errorVars
  <2>2. strayRows' = strayRows \/ (msg = Nothing /\ strayRows' = strayRows + 1)
    BY <2>1 DEF InsertRow, tableVars
  <2>. QED
    BY <1>0, <1>2, <2>1, <2>2 DEF StrayRowsDue, StoringNothing
<1>6. CASE Fetch
  <2>1. fetched \in Offset
    <3>1. fetched \in 0..logEnd /\ logEnd \in 0..MaxLog /\ fetched < logEnd
      BY <1>6, Zenon DEF Fetch, TypeInv, TypeOK
    <3>. QED
      BY <3>1, ConsumerAssumption DEF Offset
  <2>2. msg' # Nothing /\ UNCHANGED <<strayRows, readErrors>>
    BY <1>1, <1>6, <2>1 DEF Fetch, tableVars, errorVars
  <2>. QED
    BY <1>0, <1>2, <2>2 DEF StrayRowsDue, StoringNothing
<1>7. CASE CommitOffset
  <2>1. msg # Nothing /\ msg' = msg /\ UNCHANGED <<strayRows, readErrors>>
    BY <1>7, Zenon DEF CommitOffset, TypeInv, MessageInHand, tableVars, errorVars
  <2>. QED
    BY <1>0, <1>2, <2>1 DEF StrayRowsDue, StoringNothing
<1>8. CASE StoreBegin \/ StoreRefused \/ Crash \/ Restart
  <2>1. UNCHANGED <<strayRows, readErrors>> /\ (StoringNothing' => StoringNothing)
    BY <1>8 DEF StoreBegin, StoreRefused, AfterRefusal, Crash, Restart, tableVars, errorVars,
       StoringNothing
  <2>. QED
    BY <1>0, <1>2, <2>1 DEF StrayRowsDue
<1>9. CASE \/ Produce \/ BackgroundCommit \/ UNCHANGED vars
           \/ \E r \in Requests : ListBegin(r) \/ ListEnd(r) \/ ListCancelled(r)
  <2>1. UNCHANGED <<strayRows, readErrors, pc, msg>>
    BY <1>9, Zenon DEF Produce, BackgroundCommit, vars, ListBegin, ListEnd, ListCancelled,
       tableVars, errorVars
  <2>. QED
    BY <1>0, <1>2, <2>1 DEF StrayRowsDue, StoringNothing
<1>. QED
  BY <1>4, <1>5, <1>6, <1>7, <1>8, <1>9 DEF Next, LoopStep

\* A row that stands for no message is a read that failed in a kafka-go loop:
\* the librdkafka consumer stores messages only.  Messages may be empty.
THEOREM StrayRows == Spec => []StrayRowsAreFailedReads
<1>1. Init => StrayRowsDue
  BY DEF Init, StrayRowsDue, StoringNothing
<1>2. TypeInv /\ StrayRowsDue => StrayRowsAreFailedReads
  BY DEF TypeInv, TypeOK, StrayRowsDue, StrayRowsAreFailedReads
<1>. QED
  BY InitTyped, NextTyped, NextDue, <1>1, <1>2, PTL DEF Spec

-----------------------------------------------------------------------------
(***************************************************************************)
(* ReaderLoop: the invariants.                                             *)
(***************************************************************************)
LoopInHand ==
  /\ pc \in {"commit", "write"} => msg # Loop!Nothing
  /\ pc \in {"read", "ended", "down"} => msg = Loop!Nothing
  /\ pc \in {"commit", "write"} => program = Loop!Pipelines
  /\ msg # Loop!Nothing => fetched = msg
  /\ program # Loop!Pipelines => committed = 0

FirstOnly ==
  program = Loop!OffsetReader =>
    /\ msg \in {Loop!Nothing, 1}
    /\ pc = "decode" /\ msg = Loop!Nothing => readErrors > 0
    /\ pc = "ended" => readErrors > 0 \/ (Len(log) > 0 /\ ~Loop!Decodes(log[1]))

\* Selected messages the pipeline is past, has not in hand and has not written.
LoopBehind ==
  {o \in 1..Len(log) : /\ program = Loop!Pipelines /\ Loop!Selected(log[o])
                       /\ o <= fetched /\ o # msg
                       /\ \A i \in DOMAIN out : out[i] # o}

LoopErrors == readErrors + writeErrors + crashes
LoopNothingForgotten == Cardinality(LoopBehind) <= LoopErrors

LoopTypeInv == Loop!TypeOK /\ LoopInHand

-----------------------------------------------------------------------------
(***************************************************************************)
(* ReaderLoop: types, and the message in hand.                             *)
(***************************************************************************)

\* The three programs are told apart by what they do.
LEMMA ProgramFields ==
  ASSUME program \in {Loop!Pipelines, Loop!OffsetReader, Loop!OffsetExercise}
  PROVE  /\ program.commits <=> program = Loop!Pipelines
         /\ program.reads <=> program # Loop!OffsetExercise
         /\ program.returns <=> program # Loop!Pipelines
         /\ Loop!Pipelines # Loop!OffsetReader /\ Loop!OffsetReader # Loop!OffsetExercise
  BY DEF Loop!Pipelines, Loop!OffsetReader, Loop!OffsetExercise

\* The initial state is well typed.
LEMMA LoopInitTyped == Loop!Init => LoopTypeInv
  BY ConsumerAssumption DEF Loop!Init, LoopTypeInv, Loop!TypeOK, LoopInHand, Loop!Nothing

\* Every step keeps the types, and the message in hand the last one fetched.
LEMMA LoopNextTyped == LoopTypeInv /\ [Loop!Next]_(Loop!vars) => LoopTypeInv'
<1>. SUFFICES ASSUME LoopTypeInv, [Loop!Next]_(Loop!vars)
              PROVE  LoopTypeInv'
  OBVIOUS
<1>. USE ConsumerAssumption, ProgramFields DEF LoopTypeInv, Loop!TypeOK, LoopInHand,
     Loop!Nothing, Loop!errorVars
<1>1. CASE \E kind \in Loop!Kind : Loop!Produce(kind)
  BY <1>1 DEF Loop!Produce
<1>2. CASE Loop!Fetch
  BY <1>2 DEF Loop!Fetch
<1>3. CASE Loop!CommitOffset
  BY <1>3 DEF Loop!CommitOffset
<1>4. CASE Loop!ReadFromOffset
  BY <1>4 DEF Loop!ReadFromOffset, Loop!FirstOffset
<1>5. CASE Loop!ReadNothing
  BY <1>5 DEF Loop!ReadNothing
<1>6. CASE Loop!ReadFails
  BY <1>6 DEF Loop!ReadFails, Loop!Fault
<1>7. CASE Loop!DecodeEntry
  BY <1>7 DEF Loop!DecodeEntry, Loop!Decoded
<1>8. CASE Loop!DecodeMeasure
  BY <1>8 DEF Loop!DecodeMeasure, Loop!AfterDecodeError, Loop!Decoded
<1>9. CASE Loop!WriteMeasure
  BY <1>9 DEF Loop!WriteMeasure
<1>10. CASE Loop!WriteFails
  <2>1. out' \in Seq(1..Len(log)) /\ log' = log
    <3>1. msg \in 1..Len(log) /\ out \in Seq(1..Len(log))
      BY <1>10 DEF Loop!WriteFails
    <3>2. out' \in {out, Append(out, msg)} /\ log' = log
      BY <1>10 DEF Loop!WriteFails
    <3>. HIDE DEF LoopTypeInv
    <3>. QED
      BY <3>1, <3>2
  <2>2. program' = program /\ committed' = committed /\ fetched' = fetched /\ printed' = printed
        /\ readErrors' = readErrors /\ decodeErrors' = decodeErrors /\ crashes' = crashes
        /\ restarts' = restarts /\ faults' \in 0..MaxFaults
    BY <1>10 DEF Loop!WriteFails, Loop!Fault
  <2>3. /\ tries' \in 0..1 /\ writeErrors' \in Nat
        /\ (pc' = pc /\ msg' = msg) \/ (pc' = "read" /\ msg' = Loop!Nothing)
    BY <1>10 DEF Loop!WriteFails
  <2>4. pc = "write"
    BY <1>10 DEF Loop!WriteFails
  <2>5. Loop!TypeOK'
    <3>1. program' \in {Loop!Pipelines, Loop!OffsetReader, Loop!OffsetExercise}
      BY <2>2
    <3>2. /\ log' \in Seq(Loop!Kind) /\ Len(log') <= MaxLog
          /\ committed' \in 0..fetched' /\ fetched' \in 0..Len(log')
          /\ printed' \subseteq 1..Len(log')
      BY <2>1, <2>2
    <3>3. /\ pc' \in {"read", "commit", "decode", "write", "ended", "down"}
          /\ msg' \in {Loop!Nothing} \cup 1..Len(log')
      BY <2>1, <2>3
    <3>4. /\ out' \in Seq(1..Len(log'))
          /\ readErrors' \in Nat /\ decodeErrors' \in Nat /\ crashes' \in Nat
          /\ restarts' \in 0..MaxRestarts
      BY <2>1, <2>2
    <3>. QED
      BY <2>2, <2>3, <3>1, <3>2, <3>3, <3>4
  <2>6. LoopInHand'
    BY <2>1, <2>2, <2>3, <2>4
  <2>. QED
    BY <2>5, <2>6
<1>11. CASE Loop!Crash
  BY <1>11 DEF Loop!Crash, Loop!Fault
<1>12. CASE Loop!Restart
  BY <1>12 DEF Loop!Restart, Loop!StartOffset
<1>13. CASE UNCHANGED Loop!vars
  BY <1>13 DEF Loop!vars
<1>. QED
  BY <1>1, <1>2, <1>3, <1>4, <1>5, <1>6, <1>7, <1>8, <1>9, <1>10, <1>11, <1>12, <1>13
     DEF Loop!Next, Loop!LoopStep

\* Every state of the three loops has the right types, for any number of
\* messages, failures and restarts.
THEOREM LoopTypeCorrect == Loop!Spec => []Loop!TypeOK
<1>1. LoopTypeInv => Loop!TypeOK
  BY DEF LoopTypeInv
<1>. QED
  BY LoopInitTyped, LoopNextTyped, <1>1, PTL DEF Loop!Spec

-----------------------------------------------------------------------------
(***************************************************************************)
(* ReaderLoop: why the offset reader ends.                                 *)
(***************************************************************************)

\* A step of the offset reader reads the first message or fails to read, and
\* ends only at what it has read.
LEMMA NextFirst == LoopTypeInv /\ FirstOnly /\ [Loop!Next]_(Loop!vars) => FirstOnly'
<1>. SUFFICES ASSUME LoopTypeInv, FirstOnly, [Loop!Next]_(Loop!vars),
                     program' = Loop!OffsetReader
              PROVE  FirstOnly'
  BY DEF FirstOnly
<1>. USE ConsumerAssumption, ProgramFields DEF LoopTypeInv, Loop!TypeOK, LoopInHand, FirstOnly,
     Loop!Nothing,
     Loop!errorVars
<1>1. CASE \E kind \in Loop!Kind : Loop!Produce(kind)
  BY <1>1 DEF Loop!Produce
<1>2. CASE Loop!Fetch
  BY <1>2 DEF Loop!Fetch
<1>3. CASE Loop!CommitOffset
  BY <1>3 DEF Loop!CommitOffset
<1>4. CASE Loop!ReadFromOffset
  BY <1>4 DEF Loop!ReadFromOffset, Loop!FirstOffset
<1>5. CASE Loop!ReadNothing
  BY <1>5 DEF Loop!ReadNothing
<1>6. CASE Loop!ReadFails
  BY <1>6 DEF Loop!ReadFails, Loop!Fault
<1>7. CASE Loop!DecodeEntry
  BY <1>7 DEF Loop!DecodeEntry, Loop!Decoded
<1>8. CASE Loop!DecodeMeasure
  BY <1>8 DEF Loop!DecodeMeasure, Loop!AfterDecodeError, Loop!Decoded
<1>9. CASE Loop!WriteMeasure
  BY <1>9 DEF Loop!WriteMeasure
<1>10. CASE Loop!WriteFails
  BY <1>10 DEF Loop!WriteFails, Loop!Fault
<1>11. CASE Loop!Crash
  BY <1>11 DEF Loop!Crash, Loop!Fault
<1>12. CASE Loop!Restart
  BY <1>12 DEF Loop!Restart, Loop!StartOffset
<1>13. CASE UNCHANGED Loop!vars
  BY <1>13 DEF Loop!vars
<1>. QED
  BY <1>1, <1>2, <1>3, <1>4, <1>5, <1>6, <1>7, <1>8, <1>9, <1>10, <1>11, <1>12, <1>13
     DEF Loop!Next, Loop!LoopStep

\* The offset reader ends only after a read that failed, or when the first
\* message of the partition does not decode.
THEOREM EndsForCause == Loop!Spec => []EndedForCause
<1>1. Loop!Init => FirstOnly
  BY DEF Loop!Init, FirstOnly, Loop!Nothing
<1>2. FirstOnly => EndedForCause
  BY DEF FirstOnly, EndedForCause, OffsetReader, Loop!OffsetReader, Decodes, Loop!Decodes
<1>. QED
  BY LoopInitTyped, LoopNextTyped, NextFirst, <1>1, <1>2, PTL DEF Loop!Spec

-----------------------------------------------------------------------------
(***************************************************************************)
(* ReaderLoop: what the pipeline loses.                                    *)
(***************************************************************************)

\* There are finitely many offsets.
LEMMA LoopOffsetFinite == IsFiniteSet(Loop!Offset)
  BY ConsumerAssumption, FS_Interval DEF Loop!Offset

\* The number of errors is a natural number, and what is behind are offsets.
LEMMA LoopErrorsTyped == LoopTypeInv => LoopErrors \in Nat /\ LoopBehind \in SUBSET Loop!Offset
<1>1. LoopTypeInv => /\ readErrors \in Nat /\ writeErrors \in Nat /\ crashes \in Nat
                     /\ Len(log) <= MaxLog /\ log \in Seq(Loop!Kind)
  BY Zenon DEF LoopTypeInv, Loop!TypeOK
<1>2. LoopTypeInv => Len(log) \in Nat
  BY <1>1
<1>. QED
  BY <1>1, <1>2, ConsumerAssumption DEF LoopErrors, LoopBehind, Loop!Offset

\* What an appended sequence holds.
LEMMA AppendHolds ==
  ASSUME NEW S, NEW s \in Seq(S), NEW x \in S
  PROVE  /\ Len(s) + 1 \in DOMAIN Append(s, x) /\ Append(s, x)[Len(s) + 1] = x
         /\ \A i \in DOMAIN s : i \in DOMAIN Append(s, x) /\ Append(s, x)[i] = s[i]
  OBVIOUS

\* A step that leaves a measure behind logs an error or is a crash.
LEMMA LoopLeftBehind ==
  LoopTypeInv /\ [Loop!Next]_(Loop!vars) =>
    \/ LoopBehind' \subseteq LoopBehind /\ LoopErrors' >= LoopErrors
    \/ LoopBehind' \subseteq LoopBehind \cup {msg} /\ LoopErrors' = LoopErrors + 1
<1>. SUFFICES ASSUME LoopTypeInv, [Loop!Next]_(Loop!vars)
              PROVE  \/ LoopBehind' \subseteq LoopBehind /\ LoopErrors' >= LoopErrors
                     \/ /\ LoopBehind' \subseteq LoopBehind \cup {msg}
                        /\ LoopErrors' = LoopErrors + 1
  OBVIOUS
<1>. USE ConsumerAssumption, ProgramFields DEF LoopBehind, LoopErrors, LoopTypeInv,
     Loop!TypeOK, LoopInHand,
     Loop!Nothing, Loop!errorVars
<1>1. CASE \E kind \in Loop!Kind : Loop!Produce(kind)
  BY <1>1 DEF Loop!Produce
<1>2. CASE Loop!Fetch
  BY <1>2 DEF Loop!Fetch
<1>3. CASE Loop!CommitOffset
  BY <1>3 DEF Loop!CommitOffset
<1>4. CASE Loop!ReadFromOffset
  BY <1>4 DEF Loop!ReadFromOffset, Loop!FirstOffset
<1>5. CASE Loop!ReadNothing
  BY <1>5 DEF Loop!ReadNothing
<1>6. CASE Loop!ReadFails
  BY <1>6 DEF Loop!ReadFails, Loop!Fault
<1>7. CASE Loop!DecodeEntry
  BY <1>7 DEF Loop!DecodeEntry, Loop!Decoded
<1>8. CASE Loop!DecodeMeasure
  BY <1>8 DEF Loop!DecodeMeasure, Loop!AfterDecodeError, Loop!Decoded
<1>9. CASE Loop!WriteMeasure
  <2>1. msg \in 1..Len(log) /\ out \in Seq(1..Len(log))
    BY <1>9 DEF Loop!WriteMeasure
  <2>2. ASSUME NEW o, \A i \in DOMAIN out' : out'[i] # o
        PROVE  o # msg /\ \A i \in DOMAIN out : out[i] # o
    <3>. HIDE DEF LoopBehind, LoopErrors, LoopTypeInv, Loop!TypeOK, LoopInHand
    <3>1. \A i \in DOMAIN Append(out, msg) : Append(out, msg)[i] # o
      BY <1>9, <2>2 DEF Loop!WriteMeasure
    <3>2. /\ Len(out) + 1 \in DOMAIN Append(out, msg) /\ Append(out, msg)[Len(out) + 1] = msg
          /\ \A i \in DOMAIN out :
               i \in DOMAIN Append(out, msg) /\ Append(out, msg)[i] = out[i]
      BY <2>1, AppendHolds
    <3>. QED
      BY <3>1, <3>2, Zenon
  <2>3. LoopBehind' \subseteq LoopBehind
    <3>. HIDE DEF LoopErrors, LoopTypeInv, Loop!TypeOK, LoopInHand
    <3>1. program' = program /\ log' = log /\ fetched' = fetched
      BY <1>9 DEF Loop!WriteMeasure
    <3>2. SUFFICES ASSUME NEW o \in LoopBehind' PROVE o \in LoopBehind
      OBVIOUS
    <3>3. /\ o \in 1..Len(log) /\ program = Loop!Pipelines /\ Loop!Selected(log[o])
          /\ o <= fetched
          /\ \A i \in DOMAIN out' : out'[i] # o
      BY <3>1, <3>2
    <3>. QED
      BY <2>2, <3>3
  <2>4. readErrors' = readErrors /\ writeErrors' = writeErrors /\ crashes' = crashes
    BY <1>9 DEF Loop!WriteMeasure
  <2>5. LoopErrors' = LoopErrors
    BY <2>4
  <2>. HIDE DEF LoopBehind, LoopErrors, LoopTypeInv, Loop!TypeOK, LoopInHand
  <2>. QED
    BY <2>3, <2>5, LoopErrorsTyped
<1>10. CASE Loop!WriteFails
  <2>1. msg \in 1..Len(log) /\ out \in Seq(1..Len(log))
    BY <1>10 DEF Loop!WriteFails
  <2>2. ASSUME NEW o, \A i \in DOMAIN out' : out'[i] # o
        PROVE  \A i \in DOMAIN out : out[i] # o
    <3>1. CASE out' = out
      BY <2>2, <3>1
    <3>2. CASE out' = Append(out, msg)
      <4>. HIDE DEF LoopBehind, LoopErrors, LoopTypeInv, Loop!TypeOK, LoopInHand
      <4>1. \A i \in DOMAIN Append(out, msg) : Append(out, msg)[i] # o
        BY <2>2, <3>2
      <4>2. \A i \in DOMAIN out :
              i \in DOMAIN Append(out, msg) /\ Append(out, msg)[i] = out[i]
        BY <2>1, AppendHolds
      <4>. QED
        BY <4>1, <4>2, Zenon
    <3>. QED
      BY <1>10, <3>1, <3>2 DEF Loop!WriteFails
  <2>3. /\ LoopBehind' \subseteq LoopBehind \cup {msg}
        /\ msg' = msg => LoopBehind' \subseteq LoopBehind
    <3>. HIDE DEF LoopErrors, LoopTypeInv, Loop!TypeOK, LoopInHand
    <3>1. program' = program /\ log' = log /\ fetched' = fetched
      BY <1>10 DEF Loop!WriteFails
    <3>2. SUFFICES ASSUME NEW o \in LoopBehind'
                   PROVE  (o = msg \/ o \in LoopBehind) /\ (msg' = msg => o \in LoopBehind)
      OBVIOUS
    <3>3. /\ o \in 1..Len(log) /\ program = Loop!Pipelines /\ Loop!Selected(log[o])
          /\ o <= fetched
          /\ o # msg' /\ \A i \in DOMAIN out' : out'[i] # o
      BY <3>1, <3>2
    <3>. QED
      BY <2>2, <3>3
  <2>4. \/ msg' = msg /\ writeErrors' = writeErrors
        \/ writeErrors' = writeErrors + 1
    BY <1>10 DEF Loop!WriteFails
  <2>5. readErrors' = readErrors /\ crashes' = crashes
    BY <1>10 DEF Loop!WriteFails
  <2>6. (LoopErrors' = LoopErrors /\ msg' = msg) \/ LoopErrors' = LoopErrors + 1
    BY <2>4, <2>5
  <2>7. LoopErrors \in Nat
    BY LoopErrorsTyped
  <2>. HIDE DEF LoopBehind, LoopErrors, LoopTypeInv, Loop!TypeOK, LoopInHand
  <2>. QED
    BY <2>3, <2>6, <2>7
<1>11. CASE Loop!Crash
  BY <1>11 DEF Loop!Crash, Loop!Fault
<1>12. CASE Loop!Restart
  BY <1>12 DEF Loop!Restart, Loop!StartOffset
<1>13. CASE UNCHANGED Loop!vars
  BY <1>13 DEF Loop!vars
<1>. QED
  BY <1>1, <1>2, <1>3, <1>4, <1>5, <1>6, <1>7, <1>8, <1>9, <1>10, <1>11, <1>12, <1>13
     DEF Loop!Next, Loop!LoopStep

\* Every measure of dev42 that the pipeline has committed and not written is
\* answered for by a logged error or a crash.
THEOREM PipelineLossIsLogged == Loop!Spec => []ForwardedOrTold
<1>1. Loop!Init => LoopNothingForgotten
  <2>. SUFFICES ASSUME Loop!Init PROVE LoopNothingForgotten
    OBVIOUS
  <2>1. LoopBehind = {}
    BY DEF Loop!Init, LoopBehind
  <2>. QED
    BY <2>1, FS_EmptySet DEF Loop!Init, LoopNothingForgotten, LoopErrors
<1>2. LoopTypeInv /\ LoopTypeInv' /\ LoopNothingForgotten /\ [Loop!Next]_(Loop!vars) =>
        LoopNothingForgotten'
  <2>. SUFFICES ASSUME LoopTypeInv, LoopTypeInv', LoopNothingForgotten, [Loop!Next]_(Loop!vars)
                PROVE  LoopNothingForgotten'
    OBVIOUS
  <2>1. LoopErrors \in Nat /\ LoopBehind \in SUBSET Loop!Offset
    BY LoopErrorsTyped
  <2>2. LoopErrors' \in Nat /\ LoopBehind' \in SUBSET Loop!Offset
    <3>1. (LoopTypeInv => LoopErrors \in Nat /\ LoopBehind \in SUBSET Loop!Offset)'
      BY LoopErrorsTyped, PTL
    <3>. QED
      BY <3>1 DEF Loop!Offset
  <2>3. Cardinality(LoopBehind) \in Nat /\ Cardinality(LoopBehind') \in Nat
    BY <2>1, <2>2, LoopOffsetFinite, Growth
  <2>4. CASE LoopBehind' \subseteq LoopBehind /\ LoopErrors' >= LoopErrors
    <3>1. Cardinality(LoopBehind') <= Cardinality(LoopBehind)
      BY <2>1, <2>2, <2>4, LoopOffsetFinite, Growth
    <3>. QED
      BY <2>1, <2>2, <2>3, <2>4, <3>1 DEF LoopNothingForgotten
  <2>5. CASE LoopBehind' \subseteq LoopBehind \cup {msg} /\ LoopErrors' = LoopErrors + 1
    <3>1. Cardinality(LoopBehind') <= Cardinality(LoopBehind) + 1
      BY <2>1, <2>2, <2>5, LoopOffsetFinite, Growth
    <3>. QED
      BY <2>1, <2>2, <2>3, <2>5, <3>1 DEF LoopNothingForgotten
  <2>. QED
    BY <2>4, <2>5, LoopLeftBehind
<1>3. LoopTypeInv /\ LoopNothingForgotten => ForwardedOrTold
  <2>. SUFFICES ASSUME LoopTypeInv, LoopNothingForgotten PROVE ForwardedOrTold
    OBVIOUS
  <2>1. /\ LoopBehind \in SUBSET Loop!Offset /\ Missing \subseteq LoopBehind
        /\ LoopErrors \in Nat
    BY LoopErrorsTyped
       DEF LoopBehind, Missing, Selected, Loop!Selected, Pipelines, Loop!Pipelines
  <2>2. Missing \in SUBSET Loop!Offset
    BY <2>1
  <2>3. /\ Cardinality(Missing) <= Cardinality(LoopBehind)
        /\ Cardinality(Missing) \in Nat /\ Cardinality(LoopBehind) \in Nat
    BY <2>1, <2>2, LoopOffsetFinite, Growth
  <2>. QED
    BY <2>1, <2>3 DEF LoopNothingForgotten, ForwardedOrTold, LoopErrors
<1>. QED
  BY LoopInitTyped, LoopNextTyped, <1>1, <1>2, <1>3, PTL DEF Loop!Spec

=============================================================================
