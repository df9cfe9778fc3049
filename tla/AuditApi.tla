------------------------------ MODULE AuditApi ------------------------------
(***************************************************************************)
(* The handlers of api/routes.py that change state, POST /v1/audits and    *)
(* POST /v1/audits/{id}/answers, and the pair mark_queued, enqueue they    *)
(* share with the reconciler.  Each request runs concurrently with the     *)
(* others and with the workers; a step is one Redis command together with  *)
(* the code that runs until the next await.  The value of rpc[c] names     *)
(* what the caller does next:                                              *)
(*                                                                         *)
(*   upload  : idle -> recheck -> hget -> hset -> sadd -> xadd -> idle     *)
(*   answers : idle -> glossary -> grel -> replace -> hset -> ...          *)
(*   reconciler, per directory : idle -> replace -> hset -> ...            *)
(***************************************************************************)
EXTENDS JobBus, AuditStore

CONSTANTS
  Requests,   \* handlers that may run at once
  Boot,       \* the reconciler, a caller of its own
  NoAudit     \* a caller at rest has no audit

ASSUME CallerAssumption == Boot \notin Requests /\ NoAudit \notin Audits

VARIABLES
  rpc,        \* what each caller does next
  subject     \* the audit each caller is about

apiVars == <<rpc, subject>>

Callers == Requests \cup {Boot}

ApiSteps == {"idle", "recheck", "hget", "glossary", "grel", "replace",
             "hset", "sadd", "xadd"}

ApiTypeOK ==
  /\ rpc \in [Callers -> ApiSteps]
  /\ subject \in [Callers -> Audits \cup {NoAudit}]
  /\ \A c \in Callers : rpc[c] # "idle" => subject[c] \in Audits

ApiInit ==
  /\ rpc = [c \in Callers |-> "idle"]
  /\ subject = [c \in Callers |-> NoAudit]

Begins(c, a, step) ==
  /\ rpc[c] = "idle"
  /\ rpc' = [rpc EXCEPT ![c] = step]
  /\ subject' = [subject EXCEPT ![c] = a]

Proceeds(c, from, to) ==
  /\ rpc[c] = from
  /\ rpc' = [rpc EXCEPT ![c] = to]
  /\ UNCHANGED subject

Answered(c) ==
  /\ rpc' = [rpc EXCEPT ![c] = "idle"]
  /\ subject' = [subject EXCEPT ![c] = NoAudit]

(* _live_or_report: an audit in work, or one with a report, is answered. *)
LiveOrReport(a) == Active(a) \/ HasReport(a)

-----------------------------------------------------------------------------
(* POST /v1/audits; an upload answered by its first look changes nothing *)

StartUpload(r, a) ==
  /\ ~LiveOrReport(a)
  /\ Begins(r, a, "recheck")
  /\ Stored(a)
  /\ UNCHANGED <<busVars, faults>>

Recheck(r) ==
  /\ rpc[r] = "recheck"
  /\ IF LiveOrReport(subject[r])
       THEN Answered(r)
       ELSE Proceeds(r, "recheck", "hget")
  /\ UNCHANGED <<busVars, faults, disk>>

-----------------------------------------------------------------------------
(* POST /v1/audits/{id}/answers; a refused request changes nothing *)

StartAnswers(r, a) ==
  /\ disk[a].owner
  /\ ~Active(a)
  /\ disk[a].report = "questions"
  /\ Begins(r, a, "glossary")
  /\ UNCHANGED <<busVars, faults, disk>>

GlossaryBusy(r) ==
  /\ rpc[r] = "glossary"
  /\ OwnerOf[subject[r]] \in glocked
  /\ Answered(r)
  /\ UNCHANGED <<busVars, faults, disk>>

(* acquire_glossary, then apply_hitl, which does not await. *)
ApplyAnswers(r) ==
  /\ Proceeds(r, "glossary", "grel")
  /\ OwnerOf[subject[r]] \notin glocked
  /\ glocked' = glocked \cup {OwnerOf[subject[r]]}
  /\ TailDropped(subject[r])
  /\ UNCHANGED <<live, queueVars, lock, slots, faults>>

(* mutant: mark_queued without replace_terminal *)
ReleaseGlossaryKeeping(r) ==
  /\ Proceeds(r, "grel", "hget")
  /\ glocked' = glocked \ {OwnerOf[subject[r]]}
  /\ UNCHANGED <<live, queueVars, lock, slots, faults, disk>>

ReleaseGlossary(r) ==
  /\ Proceeds(r, "grel", "replace")
  /\ glocked' = glocked \ {OwnerOf[subject[r]]}
  /\ UNCHANGED <<live, queueVars, lock, slots, faults, disk>>

-----------------------------------------------------------------------------
(* mark_queued and enqueue *)

(* HGET of the status: a job in work is left alone, and without             *)
(* replace_terminal so is one with a report.                                *)
ReadStatus(c) ==
  /\ rpc[c] \in {"hget", "replace"}
  /\ LET a == subject[c]
         keep == Active(a) \/ (rpc[c] = "hget" /\ live[a] = "reported")
     IN Proceeds(c, rpc[c], IF keep THEN "sadd" ELSE "hset")
  /\ UNCHANGED <<busVars, faults, disk>>

WriteQueued(c) ==
  /\ Proceeds(c, "hset", "sadd")
  /\ SetStatus(subject[c], "queued")
  /\ UNCHANGED <<queueVars, keyVars, faults, disk>>

(* SADD answers 0 for a member that is there: enqueue returns. *)
AlreadyPending(c) ==
  /\ rpc[c] = "sadd"
  /\ subject[c] \in pending
  /\ Answered(c)
  /\ UNCHANGED <<busVars, faults, disk>>

AddPending(c) ==
  /\ Proceeds(c, "sadd", "xadd")
  /\ subject[c] \notin pending
  /\ pending' = pending \cup {subject[c]}
  /\ UNCHANGED <<live, stream, pel, idle, keyVars, faults, disk>>

AppendEntry(c, held) ==
  /\ rpc[c] = "xadd"
  /\ XAdd(subject[c], held)
  /\ Answered(c)
  /\ UNCHANGED <<live, pel, idle, pending, keyVars, faults, disk>>

Enqueue(c, held) ==
  \/ ReadStatus(c)
  \/ WriteQueued(c)
  \/ AlreadyPending(c)
  \/ AddPending(c)
  \/ AppendEntry(c, held)

(* A Redis call raises: the client gets a 500 and the rest is not done.     *)
RequestFault(r) ==
  /\ CountFault
  /\ rpc[r] # "idle"
  /\ Answered(r)
  /\ UNCHANGED <<busVars, disk>>

RequestStep(r, held) ==
  \/ \E a \in Audits : StartUpload(r, a) \/ StartAnswers(r, a)
  \/ Recheck(r)
  \/ GlossaryBusy(r)
  \/ ApplyAnswers(r)
  \/ ReleaseGlossary(r)
  \/ Enqueue(r, held)
  \/ RequestFault(r)

(* A request that has begun goes on to its answer. *)
RequestProgress(r, held) ==
  \/ Recheck(r) \/ GlossaryBusy(r) \/ ApplyAnswers(r) \/ ReleaseGlossary(r)
  \/ Enqueue(r, held)

RequestsGone ==
  /\ rpc' = [c \in Callers |-> "idle"]
  /\ subject' = [c \in Callers |-> NoAudit]
=============================================================================
