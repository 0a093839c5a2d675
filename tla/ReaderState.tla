----------------------------- MODULE ReaderState -----------------------------
(***************************************************************************)
(* The programs of ReaderLoop, what they keep and what they promise.  Each *)
(* action of theirs is in ReaderLoop.                                      *)
(***************************************************************************)
EXTENDS LoopState, Sequences

VARIABLES
  log,         \* the kind of each message that was produced
  tries,       \* failed attempts to write the message in hand
  printed,     \* messages that were printed
  out,         \* the messages in the second topic
  decodeErrors, writeErrors  \* errors that were logged

\* What json.Unmarshal makes of a message: the device dev42, another device,
\* dev42 and then an error in a later field, or an error at once.
Kind == {"dev42", "other", "broken", "garbage"}
Decodes(kind) == kind \in {"dev42", "other"}
Selected(kind) == kind \in {"dev42", "broken"}

\* The programs: does Read commit, is there a client, does an error end the loop?
Pipelines == [commits |-> TRUE, reads |-> TRUE, returns |-> FALSE]
OffsetReader == [commits |-> FALSE, reads |-> TRUE, returns |-> TRUE]
OffsetExercise == [commits |-> FALSE, reads |-> FALSE, returns |-> TRUE]

-----------------------------------------------------------------------------
(***************************************************************************)
(* Properties.                                                             *)
(***************************************************************************)

\* Measures of dev42 that the pipeline will not read again, does not hold and
\* has not written.
Missing ==
  {o \in 1..Len(log) : /\ program = Pipelines /\ Selected(log[o])
                       /\ o <= committed /\ o <= fetched /\ o # msg
                       /\ \A i \in DOMAIN out : out[i] # o}

\* The pipeline commits before it writes: whatever is missing in the second
\* topic has a line in the log, or was in hand when the process died.
ForwardedOrTold == Cardinality(Missing) <= readErrors + writeErrors + crashes

\* The offset reader ends for a reason: a read that failed, or a first message
\* that does not decode.
EndedForCause ==
  program = OffsetReader /\ pc = "ended" => readErrors > 0 \/ ~Decodes(log[1])

=============================================================================
