------------------------------ MODULE AuditLife ------------------------------
(***************************************************************************)
(* What the service promises a client that polls GET /v1/audits/{id}: the  *)
(* statuses of an audit and the order in which the client may see them.    *)
(*                                                                         *)
(*   unknown -> queued -> running -> clean | questions | failed            *)
(*   questions -> queued (answers),  failed -> queued (the file again)     *)
(*                                                                         *)
(* "clean" stands for succeeded and degraded, "questions" for needs_input. *)
(* A lost pod may take a job back: to queued, or to the result that is on  *)
(* disk already.                                                           *)
(***************************************************************************)
CONSTANT Audits

VARIABLE shown     \* the status GET answers

Reported == {"clean", "questions"}

Shown == {"unknown", "queued", "running", "failed"} \cup Reported

Init == shown = [a \in Audits |-> "unknown"]

Moves(a, from, to) ==
  /\ shown[a] \in from
  /\ \E s \in to : shown' = [shown EXCEPT ![a] = s]

Upload(a) == Moves(a, {"unknown"}, {"queued"})

Begin(a) == Moves(a, {"queued"}, {"running"})

Finish(a) == Moves(a, {"running"}, Reported \cup {"failed"})

Answer(a) == Moves(a, {"questions"}, {"queued"})

Retry(a) == Moves(a, {"failed"}, {"queued"})

(* A report without questions is final, and so is a status nobody asks to   *)
(* change: only jobs in work, and answers that are being applied, are taken *)
(* back when Redis is lost.                                                 *)
Outcome(s) ==
  {s} \cup (IF s = "running" THEN {"queued", "failed"} \cup Reported ELSE {})
      \cup (IF s = "queued" THEN {"failed"} ELSE {})
      \cup (IF s = "questions" THEN {"queued"} ELSE {})

Lost == shown' \in {f \in [Audits -> Shown] : \A a \in Audits : f[a] \in Outcome(shown[a])}

Next ==
  \/ \E a \in Audits : Upload(a) \/ Begin(a) \/ Finish(a) \/ Answer(a) \/ Retry(a)
  \/ Lost

Spec == Init /\ [][Next]_shown
=============================================================================
