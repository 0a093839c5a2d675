---------------------------- MODULE LimitDetector ----------------------------
(***************************************************************************)
(* What a partition's actor promises of a stream whose timestamps never    *)
(* decrease: an event is reported exactly when it is one of more than      *)
(* CountThreshold of its country in the window that ends with it, and the  *)
(* country has not been reported in that window already.                   *)
(*                                                                         *)
(* This is the limit as the code compares it.  The task that the README of *)
(* the repository sets, a notification when a banner has been shown five   *)
(* times, would have >= where IsDue has >: with main's CountThreshold of 5 *)
(* the code answers the sixth.                                             *)
(***************************************************************************)
EXTENDS Integers, FiniteSets

CONSTANTS Event, CountThreshold, WindowPeriod

VARIABLES
  seen,      \* the events so far
  notified   \* the events reported

detectorVars == <<seen, notified>>

DetectorInit == seen = {} /\ notified = {}

\* The members of S with e's country, at most WindowPeriod older than e.
Window(S, e) == {x \in S : x.country = e.country /\ x.ts >= e.ts - WindowPeriod}

IsDue(e) ==
  /\ Cardinality(Window(seen \cup {e}, e)) > CountThreshold
  /\ Window(notified, e) = {}

Observe(e) ==
  /\ \A x \in seen : x.ts <= e.ts
  /\ seen' = seen \cup {e}
  /\ notified' = notified \cup {x \in {e} : IsDue(e)}

DetectorNext == \E e \in Event : Observe(e)

DetectorSpec == DetectorInit /\ [][DetectorNext]_detectorVars

=============================================================================
