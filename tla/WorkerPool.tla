----------------------------- MODULE WorkerPool -----------------------------
(***************************************************************************)
(* The worker loops of api/workers.py: one coroutine per worker that takes *)
(* a run slot, claims a stream entry, locks its audit, runs the pipeline   *)
(* in a thread while a heartbeat task keeps the lock alive, publishes the  *)
(* terminal status, acknowledges, and releases lock and slot in finally    *)
(* clauses.                                                                *)
(*                                                                         *)
(* A step is one Redis command together with the code that runs until the  *)
(* next await, or one file written by the pipeline's thread.  The value of *)
(* wpc[w] names what the worker does next:                                 *)
(*                                                                         *)
(*   idle -> slot -> claimed -> exec -> run -> publish -> settle ->        *)
(*        xack -> srem -> unlock -> unslot -> idle                         *)
(*                                                                         *)
(* "fail" replaces "settle" when the pipeline failed, and                  *)
(* claimed -> dropack -> dropsrem -> unslot is the path of an entry whose  *)
(* audit is locked.                                                        *)
(***************************************************************************)
EXTENDS JobBus, AuditStore

CONSTANTS
  NoMsg,        \* no stream entry
  Outcomes,     \* the kinds of report the pipeline may produce
  RunsMayFail,  \* whether the pipeline may end in _fail
  BeatMayFail   \* whether Redis may refuse a heartbeat

ASSUME NoMsgAssumption == NoMsg \notin Messages
ASSUME OutcomeAssumption == Outcomes \in SUBSET {"clean", "questions"}
ASSUME MayAssumption == RunsMayFail \in BOOLEAN /\ BeatMayFail \in BOOLEAN

VARIABLES
  wpc,      \* what each worker does next
  job,      \* the entry each worker claimed
  due,      \* workers whose heartbeat has slept its 30 seconds
  dead      \* workers whose heartbeat task has ended with an error

workerVars == <<wpc, job, due, dead>>

Threaded == {"run", "publish"}
Guarded  == {"exec", "settle", "fail", "xack", "srem"}
Section  == Threaded \cup Guarded \cup {"unlock"}
Outside  == {"idle", "slot", "claimed", "dropack", "dropsrem", "unslot"}

WorkerTypeOK ==
  /\ wpc \in [Workers -> Section \cup Outside]
  /\ job \in [Workers -> Messages \cup {NoMsg}]
  /\ due \in SUBSET Workers
  /\ dead \in SUBSET Workers

WorkerInit ==
  /\ wpc = [w \in Workers |-> "idle"]
  /\ job = [w \in Workers |-> NoMsg]
  /\ due = {}
  /\ dead = {}

(* The audit a worker that has claimed an entry is at work on. *)
At(w) == job[w].audit

Held == {job[w] : w \in Workers} \ {NoMsg}

Goto(w, from, to) == wpc[w] = from /\ wpc' = [wpc EXCEPT ![w] = to]

-----------------------------------------------------------------------------
(* _cycle up to the audit's lock *)

TakeSlot(w) ==
  /\ Goto(w, "idle", "slot")
  /\ SlotGranted(w)
  /\ slots' = slots \cup {w}
  /\ UNCHANGED <<live, queueVars, lock, glocked>>
  /\ UNCHANGED <<job, due, dead, faults, disk>>

Claim(w) ==
  /\ Goto(w, "slot", "claimed")
  /\ \E m \in Messages :
       /\ XAutoClaim(m) \/ XReadGroup(m)
       /\ job' = [job EXCEPT ![w] = m]
  /\ UNCHANGED <<live, pending, keyVars>>
  /\ UNCHANGED <<due, dead, faults, disk>>

ClaimNothing(w) ==
  /\ Goto(w, "slot", "unslot")
  /\ NothingToClaim
  /\ UNCHANGED <<busVars, job, due, dead, faults, disk>>

AcquireAudit(w) ==
  /\ Goto(w, "claimed", "exec")
  /\ TryLock(At(w))
  /\ UNCHANGED <<live, queueVars, slots, glocked>>
  /\ UNCHANGED <<job, due, dead, faults, disk>>

(* The lock is taken: the entry is acknowledged and forgotten. *)
AcquireRefused(w) ==
  /\ Goto(w, "claimed", "dropack")
  /\ lock[At(w)] > 0
  /\ UNCHANGED <<busVars, job, due, dead, faults, disk>>

-----------------------------------------------------------------------------
(* _execute *)

OwnerMissing(w) ==
  /\ Goto(w, "exec", "xack")
  /\ ~disk[At(w)].owner
  /\ SetStatus(At(w), "failed")
  /\ UNCHANGED <<queueVars, keyVars>>
  /\ UNCHANGED <<job, due, dead, faults, disk>>

StartRun(w) ==
  /\ Goto(w, "exec", "run")
  /\ disk[At(w)].owner
  /\ SetProgress(At(w))
  /\ UNCHANGED <<queueVars, slots, glocked>>
  /\ UNCHANGED <<job, due, dead, faults, disk>>

(* The thread enters a stage: on_progress goes through the event loop. *)
EnterStage(w) ==
  /\ wpc[w] = "run"
  /\ SetProgress(At(w))
  /\ UNCHANGED <<queueVars, slots, glocked>>
  /\ UNCHANGED <<workerVars, faults, disk>>

(* mutant: the heartbeat is not stopped when the thread ends *)
ThreadEndsBeating(w) == UNCHANGED due

(* The heartbeat ends with the thread. *)
ThreadEnds(w) == due' = due \ {w}

(* explain finds its whole set of files and returns the report as it is. *)
SkipExplain(w) ==
  /\ Goto(w, "run", "settle")
  /\ Complete(At(w))
  /\ ThreadEnds(w)
  /\ UNCHANGED <<busVars, job, dead, faults, disk>>

WriteReport(w) ==
  /\ Goto(w, "run", "publish")
  /\ ~Complete(At(w))
  /\ \E r \in Outcomes : Published(At(w), r)
  /\ UNCHANGED <<busVars, job, due, dead, faults>>

WriteMeta(w) ==
  /\ Goto(w, "publish", "settle")
  /\ Committed(At(w), "ready")
  /\ ThreadEnds(w)
  /\ UNCHANGED <<busVars, job, dead, faults>>

(* mutant: a failed run leaves no meta.json *)
RunFailsQuietly(w) ==
  /\ RunsMayFail
  /\ Goto(w, "run", "fail")
  /\ ThreadEnds(w)
  /\ UNCHANGED <<busVars, job, dead, faults, disk>>

(* A stage raises or the job times out: _fail leaves its meta.json. *)
RunFails(w) ==
  /\ RunsMayFail
  /\ Goto(w, "run", "fail")
  /\ Committed(At(w), "failed")
  /\ ThreadEnds(w)
  /\ UNCHANGED <<busVars, job, dead, faults>>

(* mutant: a failed run returns before set_terminal *)
SetTerminalOnSuccess(w) ==
  /\ wpc[w] \in {"settle", "fail"}
  /\ w \notin dead
  /\ wpc' = [wpc EXCEPT ![w] = "xack"]
  /\ IF wpc[w] = "settle" THEN SetStatus(At(w), "reported") ELSE UNCHANGED live
  /\ UNCHANGED <<queueVars, keyVars>>
  /\ UNCHANGED <<job, due, dead, faults, disk>>

SetTerminal(w) ==
  /\ wpc[w] \in {"settle", "fail"}
  /\ w \notin dead
  /\ wpc' = [wpc EXCEPT ![w] = "xack"]
  /\ SetStatus(At(w), IF wpc[w] = "settle" THEN "reported" ELSE "failed")
  /\ UNCHANGED <<queueVars, keyVars>>
  /\ UNCHANGED <<job, due, dead, faults, disk>>

-----------------------------------------------------------------------------
(* ack, and the finally clauses of _cycle *)

Acknowledge(w) ==
  /\ Goto(w, "xack", "srem")
  /\ XAck(job[w])
  /\ UNCHANGED <<live, stream, pending, keyVars>>
  /\ UNCHANGED <<job, due, dead, faults, disk>>

ForgetPending(w) ==
  /\ Goto(w, "srem", "unlock")
  /\ pending' = pending \ {At(w)}
  /\ UNCHANGED <<live, stream, pel, idle, keyVars>>
  /\ UNCHANGED <<job, due, dead, faults, disk>>

DropMessage(w) ==
  /\ Goto(w, "dropack", "dropsrem")
  /\ XAck(job[w])
  /\ UNCHANGED <<live, stream, pending, keyVars>>
  /\ UNCHANGED <<job, due, dead, faults, disk>>

DropPending(w) ==
  /\ Goto(w, "dropsrem", "unslot")
  /\ pending' = pending \ {At(w)}
  /\ UNCHANGED <<live, stream, pel, idle, keyVars>>
  /\ UNCHANGED <<job, due, dead, faults, disk>>

ReleaseAudit(w) ==
  /\ Goto(w, "unlock", "unslot")
  /\ Unlock(At(w))
  /\ dead' = dead \ {w}
  /\ UNCHANGED <<live, queueVars, slots, glocked>>
  /\ UNCHANGED <<job, due, faults, disk>>

ReleaseSlot(w) ==
  /\ Goto(w, "unslot", "idle")
  /\ slots' = slots \ {w}
  /\ job' = [job EXCEPT ![w] = NoMsg]
  /\ UNCHANGED <<live, queueVars, lock, glocked>>
  /\ UNCHANGED <<due, dead, faults, disk>>

-----------------------------------------------------------------------------
(* The heartbeat task of a running job *)

(* mutant: the heartbeat prolongs the job hash only *)
BeatHashOnly(w) ==
  /\ w \in due
  /\ due' = due \ {w}
  /\ UNCHANGED <<busVars, wpc, job, dead, faults, disk>>

Beat(w) ==
  /\ w \in due
  /\ due' = due \ {w}
  /\ lock' = Touched(At(w))
  /\ UNCHANGED <<live, queueVars, slots, glocked>>
  /\ UNCHANGED <<wpc, job, dead, faults, disk>>

(* touch_audit raises: the task ends and nobody notices before the thread *)
(* is done ...                                                             *)
BeatFails(w) ==
  /\ BeatMayFail
  /\ w \in due
  /\ due' = due \ {w}
  /\ dead' = dead \cup {w}
  /\ UNCHANGED <<busVars, wpc, job, faults, disk>>

(* ... when `await hb` raises the error out of _execute. *)
BeatErrorRaised(w) ==
  /\ wpc[w] \in {"settle", "fail"}
  /\ w \in dead
  /\ wpc' = [wpc EXCEPT ![w] = "unlock"]
  /\ UNCHANGED <<busVars, job, due, dead, faults, disk>>

-----------------------------------------------------------------------------
(* A Redis call of the worker raises.  The finally clauses below the call   *)
(* still run, and worker_loop logs the error and starts the next cycle.     *)

GuardedFault(w) ==
  /\ CountFault
  /\ wpc[w] \in Guarded
  /\ wpc' = [wpc EXCEPT ![w] = "unlock"]
  /\ UNCHANGED <<busVars, job, due, dead, disk>>

OutsideFault(w) ==
  /\ CountFault
  /\ wpc[w] \in {"slot", "claimed", "dropack", "dropsrem", "unlock"}
  /\ wpc' = [wpc EXCEPT ![w] = "unslot"]
  /\ dead' = dead \ {w}
  /\ UNCHANGED <<busVars, job, due, disk>>

SlotFault(w) ==
  /\ CountFault
  /\ Goto(w, "unslot", "idle")
  /\ job' = [job EXCEPT ![w] = NoMsg]
  /\ UNCHANGED <<busVars, due, dead, disk>>

(* Redis executes the command and the answer is lost: the entry is          *)
(* delivered to nobody, or the audit stays locked until the key expires.    *)
LostClaim(w) ==
  /\ CountFault
  /\ Goto(w, "slot", "unslot")
  /\ \E m \in Messages : XAutoClaim(m) \/ XReadGroup(m)
  /\ UNCHANGED <<live, pending, keyVars>>
  /\ UNCHANGED <<job, due, dead, disk>>

LostAcquire(w) ==
  /\ CountFault
  /\ Goto(w, "claimed", "unslot")
  /\ TryLock(At(w))
  /\ UNCHANGED <<live, queueVars, slots, glocked>>
  /\ UNCHANGED <<job, due, dead, disk>>

WorkerFault(w) ==
  \/ GuardedFault(w)
  \/ OutsideFault(w)
  \/ SlotFault(w)
  \/ LostClaim(w)
  \/ LostAcquire(w)

-----------------------------------------------------------------------------
(* What a worker does by itself, without the faults, without the heartbeat  *)
(* and without the stage marks, which may repeat.                           *)
Advance(w) ==
  \/ TakeSlot(w) \/ Claim(w) \/ ClaimNothing(w)
  \/ AcquireAudit(w) \/ AcquireRefused(w)
  \/ OwnerMissing(w) \/ StartRun(w)
  \/ SkipExplain(w) \/ WriteReport(w) \/ WriteMeta(w) \/ RunFails(w)
  \/ SetTerminal(w) \/ Acknowledge(w) \/ ForgetPending(w)
  \/ DropMessage(w) \/ DropPending(w)
  \/ ReleaseAudit(w) \/ ReleaseSlot(w) \/ BeatErrorRaised(w)

WorkerStep(w) == Advance(w) \/ EnterStage(w) \/ Beat(w) \/ BeatFails(w) \/ WorkerFault(w)

(* The clock moves while workers poll or run their threads: the calls they  *)
(* make to Redis, and a heartbeat that is due, take less than a tick.       *)
WorkersPrompt ==
  /\ \A w \in Workers : wpc[w] \in Threaded \cup {"idle"}
  /\ due = {}

WorkerTick ==
  /\ WorkersPrompt
  /\ due' = {w \in Workers : wpc[w] \in Threaded /\ w \notin dead}
  /\ UNCHANGED <<wpc, job, dead, faults, disk>>

(* The process is gone. *)
WorkersGone ==
  /\ wpc' = [w \in Workers |-> "idle"]
  /\ job' = [w \in Workers |-> NoMsg]
  /\ due' = {}
  /\ dead' = {}
=============================================================================
