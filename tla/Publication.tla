----------------------------- MODULE Publication -----------------------------
(***************************************************************************)
(* What the pipeline of an audit promises to whoever downloads its report: *)
(* there is none, or there is one that follows from all the answers        *)
(* accepted so far; answers withdraw the report before the next one.  The  *)
(* promise is off once the audit is upset, until answers restore it.       *)
(***************************************************************************)
EXTENDS Integers

VARIABLES
  accepted,     \* answers accepted so far
  report,       \* the accepted answers behind the report, -1 without one
  upset         \* answers met a job, or were cut short

NoReport == -1

Init == accepted = 0 /\ report = NoReport /\ upset = FALSE

(* Answers to a report the promise covers are not lost. *)
Accept ==
  /\ accepted' \in {accepted, accepted + 1}
  /\ report # NoReport /\ ~upset => accepted' = accepted + 1
  /\ report' = NoReport
  /\ upset' \in BOOLEAN

Publish ==
  /\ report = NoReport
  /\ report' = accepted
  /\ UNCHANGED <<accepted, upset>>

(* Answers are cut short.  What follows is not promised. *)
Upset == upset' /\ UNCHANGED accepted

Next == Accept \/ Publish \/ Upset

Spec == Init /\ [][Next]_<<accepted, report, upset>>
=============================================================================
