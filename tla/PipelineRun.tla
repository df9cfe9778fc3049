---------------------------- MODULE PipelineRun -----------------------------
(***************************************************************************)
(* One audit directory: Pipeline.run in the worker's thread, which skips a *)
(* stage whose files exist, and apply_hitl in the event loop, which drops  *)
(* the files from mapping.json on.  Every file is written by a rename or   *)
(* removed by an unlink, so a step writes, removes or reads whole files,   *)
(* and the process may be killed between any two steps.                    *)
(*                                                                         *)
(* Around them what decides when they meet: the status hash the requests   *)
(* look at, the stream entry that makes the worker start, cf:pending that  *)
(* makes enqueue return.  One worker; while apply_hitl is at work the      *)
(* event loop does nothing else, and only the thread's reads and writes go *)
(* on.  AuditService has the same protocol with several audits, workers,   *)
(* clocks and faults; here the files are looked into.                      *)
(*                                                                         *)
(* What a file says is reduced to its provenance: the editions of the      *)
(* actor's glossary it was computed from.  Edition g holds the answers     *)
(* merged by the first g answers requests.                                 *)
(***************************************************************************)
EXTENDS Integers, Sequences, FiniteSets

CONSTANTS
  Requests,     \* handlers that may run at once
  MaxAnswers,   \* bound: answers requests past their checks
  RestartKinds, \* subset of {"stop", "kill", "pod"}: the restarts that happen
  MaxRestarts,  \* bound: restarts
  MayFail       \* whether a stage may raise or the job time out

ASSUME BoundAssumption == MaxAnswers \in Nat /\ MaxRestarts \in Nat
ASSUME SwitchAssumption ==
  RestartKinds \in SUBSET {"stop", "kill", "pod"} /\ MayFail \in BOOLEAN

Files == {"rawCells", "rawBook", "irCells", "irEdges", "layout", "mapping",
          "candidates", "frs", "lineage", "report", "integrity", "meta"}

(* The stages in the order of Pipeline.run. *)
Stages == <<"parse", "compile", "layout", "series", "mapping", "check", "frs",
            "lineage", "explain">>

(* mutant: meta.json before the files it commits *)
WritesMetaFirst ==
  [parse |-> <<"rawCells", "rawBook">>, compile |-> <<"irCells", "irEdges">>,
   layout |-> <<"layout">>, series |-> <<>>, mapping |-> <<"mapping">>,
   check |-> <<"candidates">>, frs |-> <<"frs">>, lineage |-> <<"lineage">>,
   explain |-> <<"meta", "report", "integrity">>]

(* The files a stage writes, in the order of their renames; it is skipped   *)
(* when all of them exist.  series keeps its result in memory.              *)
Writes ==
  [parse |-> <<"rawCells", "rawBook">>, compile |-> <<"irCells", "irEdges">>,
   layout |-> <<"layout">>, series |-> <<>>, mapping |-> <<"mapping">>,
   check |-> <<"candidates">>, frs |-> <<"frs">>, lineage |-> <<"lineage">>,
   explain |-> <<"report", "integrity", "meta">>]

(* The files a stage cannot do without, and those it reads if they exist. *)
Needs ==
  [parse |-> {}, compile |-> {"rawBook", "rawCells"}, layout |-> {"irCells"},
   series |-> {"layout", "irCells"}, mapping |-> {"layout"},
   check |-> {"irCells", "irEdges", "rawBook", "layout", "mapping"},
   frs |-> {"mapping"}, lineage |-> {"candidates", "mapping", "irCells", "irEdges"},
   explain |-> {"candidates", "lineage", "mapping", "irCells"}]

Uses ==
  [parse |-> {}, compile |-> {}, layout |-> {"rawBook"}, series |-> {},
   mapping |-> {"irCells"}, check |-> {}, frs |-> {"layout", "irCells", "candidates"},
   lineage |-> {"frs"}, explain |-> {"frs"}]

(* mutants: the report goes before what it follows from; a file that depends *)
(* on the mapping is left out of _TAIL                                      *)
TailReportFirst     == <<"mapping", "report", "candidates", "lineage", "frs", "integrity", "meta">>
TailKeepsCandidates == <<"mapping", "lineage", "frs", "integrity", "report", "meta">>

(* _TAIL of hitl.py, in the order of the unlinks. *)
HitlTail == <<"mapping", "candidates", "lineage", "frs", "integrity", "report", "meta">>

SeqSet(s) == {s[i] : i \in DOMAIN s}

VARIABLES
  files,     \* the files of the directory
  from,      \* editions of the glossary behind each file
  failed,    \* meta.json says failed (written by _fail)
  edition,   \* edition of the glossary on disk
  unlink,    \* position of apply_hitl in HitlTail, 0 when it is not running
  status,    \* the status in the hash
  queued,    \* the stream holds an entry that nobody has acknowledged
  pending,   \* the audit is in cf:pending
  locked,    \* a killed worker has left its lock of the audit
  worker,    \* what the worker does next
  stage,     \* index in Stages of the running pipeline
  left,      \* files the stage has yet to write
  reads,     \* editions behind what the stage has read
  request,   \* what each request does next
  answers,   \* answers requests past their checks, for the bound
  restarts,  \* for the bound
  crossed,   \* history: answers have met a running job, a directory without
             \* its report or, cut short by a kill, a job still queued; until
             \* answers are applied with no job running
  cut        \* history: a kill has cut apply_hitl short; until answers are
             \* applied to the last unlink

disk   == <<files, from, failed>>
redis  == <<status, queued, pending, locked>>
thread == <<worker, stage, left, reads>>
hitl   == <<edition, unlink, crossed, cut>>
bounds == <<answers, restarts>>
vars   == <<disk, redis, thread, hitl, request, bounds>>

Names == {Stages[i] : i \in 1..9}

(* The files of a stage from the kth on *)
FilesFrom(s, k) == SubSeq(Writes[s], k, Len(Writes[s]))

(* The worker, with the thread of its job: idle -> mark -> read -> write -> *)
(* mark ... -> settle -> xack -> srem -> idle, with "fail" for "settle".    *)
WorkerSteps == {"idle", "mark", "read", "write", "settle", "fail", "xack", "srem"}

(* An upload: hget -> hset -> sadd -> xadd; answers: apply -> unlink ->     *)
(* replace -> hset -> ...                                                   *)
RequestSteps == {"idle", "apply", "unlink", "hget", "replace", "hset", "sadd", "xadd"}

Statuses == {"none", "queued", "running", "reported", "failed"}

TypeOK ==
  /\ files \in SUBSET Files
  /\ from \in [Files -> SUBSET Nat]
  /\ failed \in BOOLEAN
  /\ edition \in Nat
  /\ unlink \in 0..Len(HitlTail)
  /\ status \in Statuses
  /\ queued \in BOOLEAN
  /\ pending \in BOOLEAN
  /\ locked \in BOOLEAN
  /\ worker \in WorkerSteps
  /\ stage \in 1..9
  /\ left \in {FilesFrom(s, k) : s \in Names, k \in 1..4}
  /\ reads \in SUBSET Nat
  /\ request \in [Requests -> RequestSteps]
  /\ answers \in 0..MaxAnswers
  /\ restarts \in 0..MaxRestarts
  /\ crossed \in BOOLEAN
  /\ cut \in BOOLEAN

(* An upload has been stored and queued. *)
Init ==
  /\ files = {}
  /\ from = [f \in Files |-> {}]
  /\ failed = FALSE
  /\ edition = 0
  /\ unlink = 0
  /\ status = "queued"
  /\ queued = TRUE
  /\ pending = TRUE
  /\ locked = FALSE
  /\ worker = "idle"
  /\ stage = 1
  /\ left = <<>>
  /\ reads = {}
  /\ request = [r \in Requests |-> "idle"]
  /\ answers = 0
  /\ restarts = 0
  /\ crossed = FALSE
  /\ cut = FALSE

Active == status \in {"queued", "running"}

Answering == unlink # 0

(* A job has begun and its end is not in the status yet. *)
Running == worker \notin {"idle", "xack", "srem"}

Goto(at, next) == worker = at /\ worker' = next

-----------------------------------------------------------------------------
(* Pipeline.run *)

(* The worker claims the entry, locks the audit and starts the thread. *)
StartRun ==
  /\ ~Answering
  /\ queued
  /\ ~locked
  /\ Goto("idle", "mark")
  /\ status' = "running"
  /\ UNCHANGED <<disk, queued, pending, locked, stage, left, reads, hitl, request, bounds>>

(* _enter: the thread waits for the event loop to write the stage.  The     *)
(* glossary is loaded before mapping looks for its file.                    *)
Mark ==
  /\ ~Answering
  /\ Goto("mark", "read")
  /\ status' = "running"
  /\ reads' = IF Stages[stage] = "mapping" THEN {edition} ELSE {}
  /\ UNCHANGED <<disk, queued, pending, locked, stage, left, hitl, request, bounds>>

Present(s) == Writes[s] # <<>> /\ SeqSet(Writes[s]) \subseteq files

(* The stage at hand has nothing left to write: on to the next one, or the  *)
(* thread returns its result.                                               *)
Leaves ==
  /\ worker' = (IF stage = 9 THEN "settle" ELSE "mark")
  /\ stage' = (IF stage = 9 THEN 1 ELSE stage + 1)
  /\ left' = <<>>
  /\ reads' = {}

Skip ==
  /\ worker = "read"
  /\ Present(Stages[stage])
  /\ Leaves
  /\ UNCHANGED <<disk, redis, hitl, request, bounds>>

(* mutant: a stage runs again although its files exist *)
ComputeAgain ==
  LET s == Stages[stage] IN
  /\ worker = "read"
  /\ Needs[s] \subseteq files
  /\ IF Writes[s] = <<>>
       THEN Leaves
       ELSE /\ worker' = "write"
            /\ left' = Writes[s]
            /\ reads' = {edition}
            /\ UNCHANGED stage
  /\ UNCHANGED <<disk, redis, hitl, request, bounds>>

(* The stage reads its inputs.  What mapping computes depends on the        *)
(* glossary it has loaded, what later stages compute on the files they read. *)
Compute ==
  LET s == Stages[stage] IN
  /\ worker = "read"
  /\ ~Present(s)
  /\ Needs[s] \subseteq files
  /\ IF Writes[s] = <<>>
       THEN Leaves
       ELSE /\ worker' = "write"
            /\ left' = Writes[s]
            /\ reads' = IF s = "mapping" THEN reads
                        ELSE UNION {from[f] : f \in Needs[s] \cup (Uses[s] \cap files)}
            /\ UNCHANGED stage
  /\ UNCHANGED <<disk, redis, hitl, request, bounds>>

Write ==
  /\ worker = "write"
  /\ files' = files \cup {Head(left)}
  /\ from' = [from EXCEPT ![Head(left)] = reads]
  /\ failed' = (failed /\ Head(left) # "meta")
  /\ IF Len(left) = 1
       THEN Leaves
       ELSE left' = Tail(left) /\ UNCHANGED <<worker, stage, reads>>
  /\ UNCHANGED <<redis, hitl, request, bounds>>

(* A stage raises, misses an input, or finds the job out of time when it    *)
(* enters: _fail writes meta.json.                                          *)
Fail ==
  /\ Goto("read", "fail")
  /\ MayFail \/ ~Needs[Stages[stage]] \subseteq files
  /\ files' = files \cup {"meta"}
  /\ from' = [from EXCEPT !["meta"] = {}]
  /\ failed' = TRUE
  /\ stage' = 1
  /\ left' = <<>>
  /\ reads' = {}
  /\ UNCHANGED <<redis, hitl, request, bounds>>

-----------------------------------------------------------------------------
(* The end of a job: three Redis commands, with requests in between *)

SetTerminal ==
  /\ ~Answering
  /\ worker \in {"settle", "fail"}
  /\ worker' = "xack"
  /\ status' = (IF worker = "settle" THEN "reported" ELSE "failed")
  /\ UNCHANGED <<disk, queued, pending, locked, stage, left, reads, hitl, request, bounds>>

Acknowledge ==
  /\ ~Answering
  /\ Goto("xack", "srem")
  /\ queued' = FALSE
  /\ UNCHANGED <<disk, status, pending, locked, stage, left, reads, hitl, request, bounds>>

ForgetPending ==
  /\ ~Answering
  /\ Goto("srem", "idle")
  /\ pending' = FALSE
  /\ UNCHANGED <<disk, status, queued, locked, stage, left, reads, hitl, request, bounds>>

(* acquire_audit is refused because of the lock a kill has left: the entry  *)
(* is acknowledged and forgotten.                                           *)
Refuse ==
  /\ ~Answering
  /\ queued
  /\ locked
  /\ Goto("idle", "xack")
  /\ UNCHANGED <<disk, redis, stage, left, reads, hitl, request, bounds>>

LockExpires ==
  /\ ~Answering
  /\ locked
  /\ locked' = FALSE
  /\ UNCHANGED <<disk, status, queued, pending, thread, hitl, request, bounds>>

-----------------------------------------------------------------------------
(* Requests: one step is one Redis command with the code up to the next     *)
(* await; those that are refused change nothing and are left out.           *)

Proceeds(r, at, next) ==
  /\ ~Answering
  /\ request[r] = at
  /\ request' = [request EXCEPT ![r] = next]

(* POST of the file, at its second look at the status *)
StartUpload(r) ==
  /\ Proceeds(r, "idle", "hget")
  /\ ~Active
  /\ "report" \notin files
  /\ UNCHANGED <<disk, redis, thread, hitl, bounds>>

(* POST answers: get_live, then the report and its questions.  The          *)
(* glossary's lock is acquired by an await of its own.                      *)
StartAnswers(r) ==
  /\ Proceeds(r, "idle", "apply")
  /\ ~Active
  /\ "report" \in files
  /\ answers < MaxAnswers
  /\ answers' = answers + 1
  /\ UNCHANGED <<disk, redis, thread, hitl, restarts>>

(* mutant: the answers are merged after the unlinks, when mapping.json is   *)
(* gone                                                                     *)
MergeNothing(r) ==
  /\ Proceeds(r, "apply", "unlink")
  /\ unlink' = 1
  /\ crossed' = (crossed \/ Running \/ "report" \notin files)
  /\ UNCHANGED <<disk, redis, thread, edition, cut, bounds>>

(* apply_hitl begins: the answers are merged if mapping.json exists. *)
MergeAnswers(r) ==
  /\ Proceeds(r, "apply", "unlink")
  /\ edition' = (IF "mapping" \in files THEN edition + 1 ELSE edition)
  /\ unlink' = 1
  /\ crossed' = (crossed \/ Running \/ "report" \notin files)
  /\ UNCHANGED <<disk, redis, thread, cut, bounds>>

(* mutant: one unlink too many *)
UnlinkPastEnd(r) ==
  /\ request[r] = "unlink"
  /\ unlink <= Len(HitlTail)
  /\ files' = files \ {HitlTail[unlink]}
  /\ from' = [from EXCEPT ![HitlTail[unlink]] = {}]
  /\ unlink' = unlink + 1
  /\ UNCHANGED <<failed, redis, thread, edition, crossed, cut, request, bounds>>

(* One unlink; after the last one the directory is in order again, unless   *)
(* a job is at it.                                                          *)
Unlink(r) ==
  LET last == unlink = Len(HitlTail) IN
  /\ request[r] = "unlink"
  /\ files' = files \ {HitlTail[unlink]}
  /\ from' = [from EXCEPT ![HitlTail[unlink]] = {}]
  /\ failed' = (failed /\ HitlTail[unlink] # "meta")
  /\ unlink' = (IF last THEN 0 ELSE unlink + 1)
  /\ request' = (IF last THEN [request EXCEPT ![r] = "replace"] ELSE request)
  /\ crossed' = (IF last THEN Running ELSE crossed)
  /\ cut' = (cut /\ ~last)
  /\ UNCHANGED <<redis, thread, edition, bounds>>

(* HGET of mark_queued, without and with replace_terminal *)
ReadStatus(r) ==
  /\ request[r] \in {"hget", "replace"}
  /\ LET keep == Active \/ (request[r] = "hget" /\ status = "reported")
     IN Proceeds(r, request[r], IF keep THEN "sadd" ELSE "hset")
  /\ UNCHANGED <<disk, redis, thread, hitl, bounds>>

WriteQueued(r) ==
  /\ Proceeds(r, "hset", "sadd")
  /\ status' = "queued"
  /\ UNCHANGED <<disk, queued, pending, locked, thread, hitl, bounds>>

(* SADD answers 0 for a member that is there: enqueue returns. *)
AddPending(r) ==
  /\ Proceeds(r, "sadd", IF pending THEN "idle" ELSE "xadd")
  /\ pending' = TRUE
  /\ UNCHANGED <<disk, status, queued, locked, thread, hitl, bounds>>

AppendEntry(r) ==
  /\ Proceeds(r, "xadd", "idle")
  /\ queued' = TRUE
  /\ UNCHANGED <<disk, status, pending, locked, thread, hitl, bounds>>

-----------------------------------------------------------------------------
(* Restarts *)

(* mutant: only the queue brings an unfinished job back *)
ReconciledNot(st, q, p) == status' = st /\ pending' = p /\ queued' = q

(* reconcile: a directory without report and without meta, whose audit is   *)
(* not active, is marked and enqueued.                                      *)
Reconciled(st, q, p) ==
  LET again == files \cap {"report", "meta"} = {} /\ st \notin {"queued", "running"} IN
  /\ status' = (IF again THEN "queued" ELSE st)
  /\ pending' = (p \/ again)
  /\ queued' = (q \/ (again /\ ~p))

(* The process is gone in the middle of whatever it did, and starts. *)
Restart(kind) ==
  /\ kind \in RestartKinds
  /\ restarts < MaxRestarts
  /\ restarts' = restarts + 1
  /\ worker' = "idle"
  /\ stage' = 1
  /\ left' = <<>>
  /\ reads' = {}
  /\ request' = [r \in Requests |-> "idle"]
  /\ unlink' = 0
  /\ cut' = (cut \/ Answering)
  /\ UNCHANGED <<disk, edition, answers>>

(* SIGTERM: requests are answered, the worker's lock is released. *)
Stop ==
  /\ \A r \in Requests : request[r] = "idle"
  /\ Restart("stop")
  /\ Reconciled(status, queued, pending)
  /\ UNCHANGED <<locked, crossed>>

(* SIGKILL: the lock of the worker stays until it expires.  A job still in  *)
(* the stream goes on from what a cut apply_hitl has left.                  *)
Kill ==
  /\ Restart("kill")
  /\ Reconciled(status, queued, pending)
  /\ locked' = (locked \/ worker # "idle")
  /\ crossed' = (crossed \/ (Answering /\ queued))

(* The pod is lost: Redis comes back empty. *)
PodLost ==
  /\ Restart("pod")
  /\ Reconciled("none", FALSE, FALSE)
  /\ locked' = FALSE
  /\ UNCHANGED crossed

-----------------------------------------------------------------------------
Pipeline == Mark \/ Skip \/ Compute \/ Write \/ Fail

Worker == StartRun \/ Pipeline \/ SetTerminal \/ Acknowledge \/ ForgetPending \/ Refuse

(* A request that has begun goes on to its answer. *)
Goes(r) ==
  MergeAnswers(r) \/ Unlink(r) \/ ReadStatus(r) \/ WriteQueued(r) \/ AddPending(r) \/ AppendEntry(r)

Next ==
  \/ Worker
  \/ LockExpires
  \/ \E r \in Requests : StartUpload(r) \/ StartAnswers(r) \/ Goes(r)
  \/ Stop
  \/ Kill
  \/ PodLost

Spec == Init /\ [][Next]_vars

(* Workers take entries, threads go on until they end, and requests that    *)
(* have begun are answered.                                                 *)
FairSpec ==
  /\ Spec
  /\ WF_vars(Worker)
  /\ \A r \in Requests : WF_vars(Goes(r))

-----------------------------------------------------------------------------
(* Properties *)

Ready == "meta" \in files /\ ~failed

(* Answers and jobs have kept out of each other's way, or the answers       *)
(* applied since have put that right.                                       *)
Orderly == ~crossed /\ ~cut /\ ~Answering

(* meta.json is the commit marker (explain/stage.py): in an orderly         *)
(* directory one that does not say failed stands beside a whole set.        *)
CommitMarker == Ready /\ Orderly => files = Files

(* A report never mixes what was computed from different editions of the    *)
(* glossary, although stages are skipped by the mere existence of a file    *)
(* and a kill may hit apply_hitl between any two unlinks, after which the   *)
(* file may be posted again.  Answers beside a job are what may mix them.   *)
OneEdition == "report" \in files /\ ~crossed => Cardinality(from["report"]) = 1

(* In an orderly directory a report, committed or not, follows from the     *)
(* glossary with all the answers merged so far.                             *)
AnswersUsed == "report" \in files /\ Orderly => from["report"] = {edition}

(* What parse, compile and layout have finished is never written again.     *)
StageKept ==
  [][\A s \in {"parse", "compile", "layout"} :
       Present(s) => /\ Present(s)'
                     /\ left' # <<>> => Head(left') \notin SeqSet(Writes[s])]_vars

(* An entry in the stream ends in a report or in a failure on record, or is *)
(* dropped for the lock of a killed worker.                                 *)
JobFinishes ==
  queued /\ worker = "idle" ~> files \cap {"report", "meta"} # {} \/ (locked /\ worker = "xack")

(* The report a client can download, and the answers it follows from; no    *)
(* request is served while apply_hitl is at work.                           *)
Outdated == -2

Downloaded ==
  IF "report" \notin files \/ Answering THEN -1
  ELSE IF from["report"] = {edition} THEN edition ELSE Outdated

Promise == INSTANCE Publication
             WITH accepted <- edition, report <- Downloaded, upset <- crossed \/ cut

(* The pipeline, which skips stages by the existence of their files,        *)
(* implements Publication: what can be downloaded follows from all answers  *)
(* merged by then, and only answers withdraw it, unless the directory has   *)
(* been upset.                                                              *)
KeepsPromise == Promise!Spec
=============================================================================
