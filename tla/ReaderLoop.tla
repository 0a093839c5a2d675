----------------------------- MODULE ReaderLoop -----------------------------
(***************************************************************************)
(* The consumers whose loop reads, decodes and acts on one message after   *)
(* another, without a table:                                               *)
(*  - lecture7go/pipelines reads with ReadMessage, which commits first,    *)
(*    and writes the measures of the device dev42 to a second topic.  It   *)
(*    logs every error and goes on, with whatever it has decoded so far;   *)
(*  - lecture6offsets/consumer asks for offset 0 every time, commits       *)
(*    nothing, prints the message, and returns when it cannot decode;      *)
(*  - go/lecture6/consumer is the same loop over a client still to be      *)
(*    written, which returns no message and no error.                      *)
(* The HTTP server of the latter two does not depend on the loop.          *)
(* Programs, variables and safety properties are in ReaderState.           *)
(***************************************************************************)
EXTENDS ReaderState

ASSUME ReaderAssumption ==
  /\ MaxLog \in Nat
  /\ MaxFaults \in Nat
  /\ MaxRestarts \in Nat

errorVars == <<readErrors, decodeErrors, writeErrors>>
vars == <<program, log, committed, fetched, pc, msg, tries, printed, out, errorVars,
          crashes, faults, restarts>>

Offset == 1..MaxLog
Nothing == 0   \* a nil message, which does not decode

TypeOK ==
  /\ program \in {Pipelines, OffsetReader, OffsetExercise}
  /\ log \in Seq(Kind) /\ Len(log) <= MaxLog
  /\ committed \in 0..fetched /\ fetched \in 0..Len(log)
  /\ pc \in {"read", "commit", "decode", "write", "ended", "down"}
  /\ msg \in {Nothing} \cup 1..Len(log)
  /\ tries \in 0..1
  /\ printed \subseteq 1..Len(log)
  /\ out \in Seq(1..Len(log))
  /\ readErrors \in Nat /\ decodeErrors \in Nat /\ writeErrors \in Nat
  /\ crashes \in Nat
  /\ faults \in 0..MaxFaults
  /\ restarts \in 0..MaxRestarts

Init ==
  /\ program \in {Pipelines, OffsetReader, OffsetExercise}
  /\ log = <<>> /\ committed = 0 /\ fetched = 0
  /\ pc = "read" /\ msg = Nothing /\ tries = 0
  /\ printed = {} /\ out = <<>>
  /\ readErrors = 0 /\ decodeErrors = 0 /\ writeErrors = 0
  /\ crashes = 0 /\ faults = 0 /\ restarts = 0

Produce(kind) ==
  /\ Len(log) < MaxLog
  /\ log' = Append(log, kind)
  /\ UNCHANGED <<program, committed, fetched, pc, msg, tries, printed, out, errorVars,
                 crashes, faults, restarts>>

-----------------------------------------------------------------------------
(***************************************************************************)
(* Read.                                                                   *)
(***************************************************************************)

\* ReadMessage fetches the next message and goes on to commit it.
Fetch ==
  /\ pc = "read" /\ program.commits /\ fetched < Len(log)
  /\ fetched' = fetched + 1
  /\ msg' = fetched + 1
  /\ pc' = "commit"
  /\ UNCHANGED <<program, log, committed, tries, printed, out, errorVars, crashes,
                 faults, restarts>>

CommitOffset ==
  /\ pc = "commit"
  /\ committed' = msg
  /\ pc' = "decode"
  /\ UNCHANGED <<program, log, fetched, msg, tries, printed, out, errorVars, crashes,
                 faults, restarts>>

\* ReadFromOffset(ctx, 0): SetOffset and FetchMessage.
Mutant_NextOffset == fetched + 1
FirstOffset == 1

ReadFromOffset ==
  /\ pc = "read" /\ ~program.commits /\ program.reads /\ Len(log) >= FirstOffset
  /\ msg' = FirstOffset
  /\ fetched' = FirstOffset
  /\ pc' = "decode"
  /\ UNCHANGED <<program, log, committed, tries, printed, out, errorVars, crashes,
                 faults, restarts>>

\* The client of the exercise: return nil, nil.
ReadNothing ==
  /\ pc = "read" /\ ~program.reads
  /\ msg' = Nothing
  /\ pc' = "decode"
  /\ UNCHANGED <<program, log, committed, fetched, tries, printed, out, errorVars, crashes,
                 faults, restarts>>

\* The error is logged and the loop goes on with the nil message.  A commit may
\* have reached the broker all the same.
ReadFails ==
  /\ pc \in {"read", "commit"} /\ program.reads
  /\ Fault
  /\ committed' \in {committed, IF pc = "commit" THEN msg ELSE committed}
  /\ msg' = Nothing
  /\ readErrors' = readErrors + 1
  /\ pc' = "decode"
  /\ UNCHANGED <<program, log, fetched, tries, printed, out, decodeErrors, writeErrors,
                 crashes, restarts>>

-----------------------------------------------------------------------------
(***************************************************************************)
(* Decode and act.                                                         *)
(***************************************************************************)
Decoded == msg # Nothing /\ Decodes(log[msg])

\* The offset readers: return on an error, or print the entry.
DecodeEntry ==
  /\ pc = "decode" /\ program.returns
  /\ pc' = IF Decoded THEN "read" ELSE "ended"
  /\ printed' = IF Decoded THEN printed \cup {msg} ELSE printed
  /\ msg' = Nothing
  /\ UNCHANGED <<program, log, committed, fetched, tries, out, errorVars, crashes, faults,
                 restarts>>

\* The pipeline: log an error, and write the measure if its device is dev42,
\* decoded to its end or not.
Mutant_ReturnOnError == "ended"
AfterDecodeError == IF msg # Nothing /\ Selected(log[msg]) THEN "write" ELSE "read"

DecodeMeasure ==
  /\ pc = "decode" /\ ~program.returns
  /\ IF Decoded
     THEN /\ pc' = IF Selected(log[msg]) THEN "write" ELSE "read"
          /\ UNCHANGED decodeErrors
     ELSE /\ pc' = AfterDecodeError
          /\ decodeErrors' = decodeErrors + 1
  /\ msg' = IF pc' = "write" THEN msg ELSE Nothing
  /\ UNCHANGED <<program, log, committed, fetched, tries, printed, out, readErrors,
                 writeErrors, crashes, faults, restarts>>

\* WriteMessages returns when the batch of this one message has been written.
WriteMeasure ==
  /\ pc = "write"
  /\ out' = Append(out, msg)
  /\ pc' = "read" /\ msg' = Nothing /\ tries' = 0
  /\ UNCHANGED <<program, log, committed, fetched, printed, errorVars, crashes, faults,
                 restarts>>

\* An attempt fails, performed or not; the second failure, or one that does not
\* pass, is the error that is logged.
WriteFails ==
  /\ pc = "write"
  /\ Fault
  /\ out' \in {out, Append(out, msg)}
  /\ \/ tries = 0 /\ tries' = 1 /\ UNCHANGED <<pc, msg, writeErrors>>
     \/ /\ tries' = 0 /\ pc' = "read" /\ msg' = Nothing
        /\ writeErrors' = writeErrors + 1
  /\ UNCHANGED <<program, log, committed, fetched, printed, readErrors, decodeErrors,
                 crashes, restarts>>

Crash ==
  /\ pc # "down"
  /\ Fault
  /\ crashes' = crashes + 1
  /\ pc' = "down" /\ msg' = Nothing /\ tries' = 0
  /\ UNCHANGED <<program, log, committed, fetched, printed, out, errorVars, restarts>>

\* The group's offset, or nothing to start from.
Mutant_LatestOffset == Len(log)
StartOffset == committed

Restart ==
  /\ pc = "down" /\ restarts < MaxRestarts
  /\ restarts' = restarts + 1
  /\ pc' = "read"
  /\ fetched' = StartOffset
  /\ UNCHANGED <<program, log, committed, msg, tries, printed, out, errorVars, crashes,
                 faults>>

LoopStep ==
  \/ Fetch \/ CommitOffset
  \/ ReadFromOffset \/ ReadNothing
  \/ DecodeEntry \/ DecodeMeasure
  \/ WriteMeasure

Next ==
  \/ \E kind \in Kind : Produce(kind)
  \/ LoopStep
  \/ ReadFails
  \/ WriteFails
  \/ Crash
  \/ Restart

Spec == Init /\ [][Next]_vars

\* The loop runs and the broker answers.
FairSpec == Spec /\ WF_vars(LoopStep)

-----------------------------------------------------------------------------
(***************************************************************************)
(* Liveness.                                                               *)
(***************************************************************************)

\* No error stops the pipeline, and the offset reader prints the first message
\* or has ended.
LoopGoesOn ==
  \A o \in Offset :
    (o <= Len(log)) ~>
       \/ program = Pipelines /\ o <= fetched /\ o # msg
       \/ program # Pipelines /\ (o > 1 \/ o \in printed \/ pc = "ended")
       \/ crashes > restarts

=============================================================================
