---------------------------- MODULE AuditService ----------------------------
(***************************************************************************)
(* The process of api/app.py: requests and workers share one event loop    *)
(* (AuditApi, WorkerPool) and talk through Redis (JobBus) and the audit    *)
(* directories (AuditStore).  At start the process sweeps expired          *)
(* directories, re-queues the unfinished ones, and only then starts the    *)
(* workers and serves requests.  It may stop, be killed, or be lost with   *)
(* the whole pod and its Redis.                                            *)
(***************************************************************************)
EXTENDS WorkerPool, AuditApi

CONSTANTS
  RestartKinds, \* subset of {"stop", "kill", "pod"}: the restarts that happen
  MaxRestarts,  \* bound: restarts
  Sweeping      \* whether directories grow old and are swept

ASSUME RestartAssumption ==
  /\ RestartKinds \in SUBSET {"stop", "kill", "pod"}
  /\ MaxRestarts \in Nat
  /\ Sweeping \in BOOLEAN

VARIABLES
  app,        \* "down", then lifespan: "clean" (first sweep), "boot"
              \* (reconcile), and "up" after its yield
  todo,       \* directories the first sweep, then the reconciler, has yet
              \* to look at
  restarts,   \* restarts so far
  sweep       \* the directory the sweeper is at, after its get_live

lifeVars == <<app, todo, restarts>>

vars == <<busVars, faults, disk, workerVars, apiVars, lifeVars, sweep>>

TypeOK ==
  /\ BusTypeOK /\ StoreTypeOK /\ WorkerTypeOK /\ ApiTypeOK
  /\ \A w \in due : wpc[w] \in Threaded
  /\ app \in {"down", "clean", "boot", "up"}
  /\ todo \in SUBSET Audits
  /\ restarts \in 0..MaxRestarts
  /\ sweep \in Audits \cup {NoAudit}

Init ==
  /\ BusInit /\ StoreInit /\ WorkerInit /\ ApiInit
  /\ app = "up"
  /\ todo = {}
  /\ restarts = 0
  /\ sweep = NoAudit

-----------------------------------------------------------------------------
(* The running process *)

Working(w) ==
  /\ app = "up"
  /\ WorkerStep(w)
  /\ UNCHANGED <<apiVars, lifeVars, sweep>>

Serving(r) ==
  /\ app = "up"
  /\ RequestStep(r, Held)
  /\ UNCHANGED <<workerVars, lifeVars, sweep>>

(* No request holds a glossary lock over a tick. *)
Tick ==
  /\ \A c \in Callers : rpc[c] # "grel"
  /\ WorkerTick
  /\ BusTick
  /\ UNCHANGED <<apiVars, lifeVars, sweep>>

-----------------------------------------------------------------------------
(* sweep_expired: get_live first, the directory after its answer.  The      *)
(* first sweep looks at each directory once, later ones come daily.         *)

SweepLook(a) ==
  /\ Sweeping
  /\ sweep = NoAudit
  /\ disk[a] # NoFolder
  /\ \/ app = "up" /\ UNCHANGED todo
     \/ app = "clean" /\ a \in todo /\ todo' = todo \ {a}
  /\ sweep' = IF Active(a) THEN NoAudit ELSE a
  /\ UNCHANGED <<busVars, faults, disk, workerVars, apiVars, app, restarts>>

SweepDelete ==
  /\ sweep # NoAudit
  /\ IF disk[sweep].old THEN Removed(sweep) ELSE UNCHANGED disk
  /\ sweep' = NoAudit
  /\ UNCHANGED <<busVars, faults, workerVars, apiVars, lifeVars>>

(* The retention period of a directory nobody writes to runs out, and long  *)
(* before it the terminal status of its audit.                              *)
GrowOld(a) ==
  /\ Sweeping
  /\ disk[a] # NoFolder
  /\ ~disk[a].old
  /\ \A w \in Workers : job[w] # NoMsg => At(w) # a
  /\ \A c \in Callers : subject[c] # a
  /\ \A m \in InStream \cup pel : m.audit # a
  /\ sweep # a
  /\ Aged(a)
  /\ StatusExpires(a)
  /\ UNCHANGED <<queueVars, keyVars, faults, workerVars, apiVars, lifeVars, sweep>>

-----------------------------------------------------------------------------
(* Start: reconcile goes through the directories one after the other *)

Folders == {a \in Audits : disk[a] # NoFolder}

StartProcess ==
  /\ app = "down"
  /\ app' = "clean"
  /\ todo' = IF Sweeping THEN Folders ELSE {}
  /\ UNCHANGED <<busVars, faults, disk, workerVars, apiVars, restarts, sweep>>

StartReconcile ==
  /\ app = "clean"
  /\ todo = {}
  /\ sweep = NoAudit
  /\ app' = "boot"
  /\ todo' = Folders
  /\ UNCHANGED <<busVars, faults, disk, workerVars, apiVars, restarts, sweep>>

Unfinished(a) == disk[a].owner /\ ~HasReport(a) /\ ~HasMeta(a)

(* mutant: unfinished directories are passed over *)
ReconcileSkipAny(a) ==
  /\ app = "boot"
  /\ rpc[Boot] = "idle"
  /\ a \in todo
  /\ todo' = todo \ {a}
  /\ UNCHANGED <<busVars, faults, disk, workerVars, apiVars, app, restarts, sweep>>

ReconcileSkip(a) ==
  /\ app = "boot"
  /\ rpc[Boot] = "idle"
  /\ a \in todo
  /\ ~Unfinished(a) \/ Active(a)
  /\ todo' = todo \ {a}
  /\ UNCHANGED <<busVars, faults, disk, workerVars, apiVars, app, restarts, sweep>>

ReconcileTake(a) ==
  /\ app = "boot"
  /\ a \in todo
  /\ Unfinished(a)
  /\ ~Active(a)
  /\ Begins(Boot, a, "replace")
  /\ todo' = todo \ {a}
  /\ UNCHANGED <<busVars, faults, disk, workerVars, app, restarts, sweep>>

Reconciling ==
  /\ app = "boot"
  /\ Enqueue(Boot, Held)
  /\ UNCHANGED <<workerVars, lifeVars, sweep>>

StartWorkers ==
  /\ app = "boot"
  /\ todo = {}
  /\ rpc[Boot] = "idle"
  /\ app' = "up"
  /\ UNCHANGED <<busVars, faults, disk, workerVars, apiVars, todo, restarts, sweep>>

-----------------------------------------------------------------------------
(* Restarts *)

GoesDown(kind) ==
  /\ kind \in RestartKinds
  /\ restarts < MaxRestarts
  /\ restarts' = restarts + 1
  /\ app' = "down"
  /\ todo' = {}
  /\ sweep' = NoAudit
  /\ WorkersGone
  /\ RequestsGone
  /\ UNCHANGED faults

(* SIGTERM: the server waits for the requests in flight, then lifespan      *)
(* cancels the worker tasks.  Their finally clauses release the audit's     *)
(* lock and the slot; the entry stays unacknowledged.  The process exits    *)
(* after its threads, which write their files, or is killed before that.    *)
Locked == {At(w) : w \in {v \in Workers : wpc[v] \in Section}}

Stop ==
  /\ app = "up"
  /\ \A c \in Callers : rpc[c] = "idle"
  /\ GoesDown("stop")
  /\ \E done \in SUBSET {w \in Workers : wpc[w] \in Threaded},
        r \in Outcomes :
       disk' = [a \in Audits |->
                  IF (\E w \in done : At(w) = a) /\ ~Complete(a)
                    THEN [disk[a] EXCEPT !.report = r, !.meta = "ready", !.old = FALSE]
                    ELSE disk[a]]
  /\ lock' = [a \in Audits |-> IF a \in Locked THEN 0 ELSE lock[a]]
  /\ slots' = slots \ {w \in Workers : wpc[w] # "idle"}
  /\ UNCHANGED <<live, queueVars, glocked>>

(* SIGKILL of the process, Redis goes on: every key stays as it is. *)
Kill ==
  /\ app # "down"
  /\ GoesDown("kill")
  /\ UNCHANGED <<busVars, disk>>

(* The pod is lost: Redis comes back empty, the volume is kept. *)
PodLost ==
  /\ app # "down"
  /\ GoesDown("pod")
  /\ BusFlushed
  /\ UNCHANGED disk

-----------------------------------------------------------------------------
Next ==
  \/ \E w \in Workers : Working(w)
  \/ \E r \in Requests : Serving(r)
  \/ Tick
  \/ \E a \in Audits : SweepLook(a) \/ GrowOld(a)
  \/ SweepDelete
  \/ StartProcess
  \/ StartReconcile
  \/ \E a \in Audits : ReconcileSkip(a) \/ ReconcileTake(a)
  \/ Reconciling
  \/ StartWorkers
  \/ Stop
  \/ Kill
  \/ PodLost

Spec == Init /\ [][Next]_vars

(* The event loop runs every coroutine that can go on, threads end (the job *)
(* timeout and the port timeouts bound them), time passes, the supervisor   *)
(* restarts the process.  Clients need not send anything.                   *)
Fairness ==
  /\ \A w \in Workers :
       WF_vars(app = "up" /\ Advance(w) /\ UNCHANGED <<apiVars, lifeVars, sweep>>)
  /\ \A w \in Workers :
       WF_vars(app = "up" /\ Beat(w) /\ UNCHANGED <<apiVars, lifeVars, sweep>>)
  /\ \A r \in Requests :
       WF_vars(app = "up" /\ RequestProgress(r, Held)
               /\ UNCHANGED <<workerVars, lifeVars, sweep>>)
  /\ SF_vars(Tick)
  /\ WF_vars(StartProcess)
  /\ WF_vars(app = "clean" /\ \E a \in Audits : SweepLook(a))
  /\ WF_vars(SweepDelete)
  /\ WF_vars(StartReconcile)
  /\ WF_vars(\E a \in Audits : ReconcileSkip(a) \/ ReconcileTake(a))
  /\ WF_vars(Reconciling)
  /\ WF_vars(StartWorkers)

FairSpec == Spec /\ Fairness

-----------------------------------------------------------------------------
(* Properties *)

(* One run of an audit at a time: two workers are never both between        *)
(* acquire_audit and release_audit (workers.py) for the same audit id.      *)
ExclusiveRun ==
  \A v, w \in Workers :
    v # w /\ wpc[v] \in Section /\ wpc[w] \in Section => At(v) # At(w)

(* The lock of an audit outlives every step of the worker that took it: it  *)
(* is fresh after each heartbeat and no more than one tick old in between,  *)
(* so it can neither expire under the worker nor be taken by another one.   *)
LockHeld ==
  \A w \in Workers :
    wpc[w] \in Section =>
      /\ job[w] \in Messages
      /\ lock[At(w)] >= LockTtl - 1
      /\ wpc[w] \in Threaded /\ w \notin due => lock[At(w)] = LockTtl

(* No more than MaxRun workers are in a cycle, whatever members a fault or  *)
(* a killed process has left in cf:inflight:run.                            *)
RunSlotRespected ==
  Cardinality({w \in Workers : wpc[w] # "idle"}) <= MaxRun

Queued(a) == \E m \in InStream \cup pel : m.audit = a

InWork(a) ==
  \E w \in Workers : wpc[w] \in {"exec", "run", "publish", "settle", "fail"} /\ At(w) = a

Enqueuing(a) == \E c \in Callers : subject[c] = a /\ rpc[c] \in {"sadd", "xadd"}

(* A job that GET shows as queued or running is not forgotten: a worker is  *)
(* at it, the stream still holds an entry for it, or the caller that wrote  *)
(* its status has yet to enqueue it.                                        *)
WorkNotLost ==
  app = "up" => \A a \in Audits : Active(a) => InWork(a) \/ Queued(a) \/ Enqueuing(a)

(* The same of a running job alone. *)
RunningNotLost ==
  app = "up" => \A a \in Audits : live[a] = "running" => InWork(a) \/ Queued(a)

(* A status of succeeded, degraded or needs_input has its report.json,      *)
(* except while an answers request has dropped it and not yet re-queued.    *)
StatusHasReport ==
  app = "up" =>
    \A a \in Audits :
      live[a] = "reported" =>
        \/ HasReport(a)
        \/ \E r \in Requests : subject[r] = a /\ rpc[r] \in {"grel", "replace", "hset"}

(* Every stored upload is eventually finished, with a report or a failure   *)
(* on record, or its directory has expired.                                 *)
UploadServed ==
  \A a \in Audits : disk[a].owner ~> HasReport(a) \/ HasMeta(a) \/ ~disk[a].owner

(* Every job in work ends: what GET shows as queued or running becomes a    *)
(* terminal status.                                                         *)
JobsEnd == \A a \in Audits : Active(a) ~> ~Active(a)

-----------------------------------------------------------------------------
(* GET /v1/audits/{id}: the status hash if there is one, then meta.json,    *)
(* then report.json.  A hash that says reported has kept the status of a    *)
(* report that answers have dropped, and those reports had questions.       *)
ReportStatus(a) == IF disk[a].report = "clean" THEN "clean" ELSE "questions"

DiskStatus(a) ==
  IF disk[a].meta = "failed" THEN "failed"
  ELSE IF HasMeta(a) \/ HasReport(a) THEN ReportStatus(a) ELSE "queued"

Shown(a) ==
  IF ~disk[a].owner THEN "unknown"
  ELSE IF live[a] = "none" THEN DiskStatus(a)
  ELSE IF live[a] = "reported" THEN ReportStatus(a) ELSE live[a]

Polled == [a \in Audits |-> Shown(a)]

Life == INSTANCE AuditLife WITH shown <- Polled

(* The statuses a client polls follow the life of an audit in AuditLife.    *)
FollowsLife == Life!Spec
=============================================================================
