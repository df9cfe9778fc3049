------------------------- MODULE AuditServiceProofs -------------------------
(***************************************************************************)
(* Theorems of AuditService for any number of workers, requests, audits    *)
(* and slots: every variable keeps its type, runs of one audit exclude     *)
(* each other, a held lock does not expire, and the cap of running cycles  *)
(* is kept.                                                                *)
(***************************************************************************)
EXTENDS AuditService, SequenceTheorems, FiniteSetTheorems, TLAPS

-----------------------------------------------------------------------------
(* Types: one lemma per family of commands, then one per process            *)

LEMMA Updated ==
  ASSUME NEW S, NEW T, NEW f \in [S -> T], NEW x, NEW v \in T
  PROVE  [f EXCEPT ![x] = v] \in [S -> T]
  OBVIOUS

LEMMA Bounds == /\ 0 \in 0..MinIdle
                /\ 0 \in 0..LockTtl
                /\ LockTtl \in 0..LockTtl
  BY IdleAssumption, TtlAssumption

LEMMA BusInitTyped == BusInit => BusTypeOK
  <1> SUFFICES ASSUME BusInit PROVE BusTypeOK
    OBVIOUS
  <1>1. stream \in Seq(Messages)
    BY EmptySeq DEF BusInit
  <1>2. idle \in [Messages -> 0..MinIdle]
    BY IdleAssumption DEF BusInit, EmptyBus
  <1>3. lock \in [Audits -> 0..LockTtl]
    BY TtlAssumption DEF BusInit, EmptyBus
  <1> QED
    BY <1>1, <1>2, <1>3, FaultAssumption DEF BusInit, EmptyBus, BusTypeOK, Statuses

LEMMA FlushTyped == BusFlushed /\ faults' \in 0..MaxFaults => BusTypeOK'
  <1> SUFFICES ASSUME BusFlushed, faults' \in 0..MaxFaults PROVE BusTypeOK'
    OBVIOUS
  <1>1. stream' \in Seq(Messages)
    BY EmptySeq DEF BusFlushed
  <1>2. idle' \in [Messages -> 0..MinIdle]
    BY IdleAssumption DEF BusFlushed, EmptyBus
  <1>3. lock' \in [Audits -> 0..LockTtl]
    BY TtlAssumption DEF BusFlushed, EmptyBus
  <1> QED
    BY <1>1, <1>2, <1>3 DEF BusFlushed, EmptyBus, BusTypeOK, Statuses

LEMMA ClaimTyped ==
  ASSUME BusTypeOK, NEW m \in Messages, XAutoClaim(m) \/ XReadGroup(m)
  PROVE  /\ stream' \in Seq(Messages)
         /\ pel' \in SUBSET Messages
         /\ idle' \in [Messages -> 0..MinIdle]
  <1>1. CASE XAutoClaim(m)
    BY <1>1, Bounds, Updated DEF BusTypeOK, XAutoClaim
  <1>2. CASE XReadGroup(m)
    <2>1. Tail(stream) \in Seq(Messages)
      BY <1>2, HeadTailProperties DEF BusTypeOK, XReadGroup
    <2> QED
      BY <1>2, <2>1 DEF BusTypeOK, XReadGroup
  <1> QED
    BY <1>1, <1>2

LEMMA AddTyped ==
  ASSUME BusTypeOK, NEW a \in Audits, NEW held, XAdd(a, held)
  PROVE  stream' \in Seq(Messages)
  BY AppendProperties DEF BusTypeOK, XAdd, Messages

LEMMA AckTyped ==
  ASSUME BusTypeOK, NEW m, XAck(m)
  PROVE  /\ pel' \in SUBSET Messages
         /\ idle' \in [Messages -> 0..MinIdle]
  <1>1. [idle EXCEPT ![m] = 0] \in [Messages -> 0..MinIdle]
    BY Bounds, Updated DEF BusTypeOK
  <1> QED
    BY <1>1 DEF BusTypeOK, XAck

LEMMA LockTyped ==
  ASSUME BusTypeOK, NEW a
  PROVE  /\ TryLock(a) => lock' \in [Audits -> 0..LockTtl]
         /\ Touched(a) \in [Audits -> 0..LockTtl]
         /\ Unlock(a) => lock' \in [Audits -> 0..LockTtl]
  <1>1. [lock EXCEPT ![a] = LockTtl] \in [Audits -> 0..LockTtl]
    BY Bounds, Updated DEF BusTypeOK
  <1>2. [lock EXCEPT ![a] = 0] \in [Audits -> 0..LockTtl]
    BY Bounds, Updated DEF BusTypeOK
  <1>3. Touched(a) \in [Audits -> 0..LockTtl]
    BY Bounds DEF BusTypeOK, Touched
  <1> QED
    BY <1>1, <1>2, <1>3 DEF TryLock, Unlock

LEMMA TickTyped ==
  ASSUME BusTypeOK, BusTick, UNCHANGED faults
  PROVE  BusTypeOK'
  <1>1. lock' \in [Audits -> 0..LockTtl]
    BY TtlAssumption DEF BusTypeOK, BusTick
  <1>2. idle' \in [Messages -> 0..MinIdle]
    BY IdleAssumption DEF BusTypeOK, BusTick
  <1> QED
    BY <1>1, <1>2 DEF BusTypeOK, BusTick

LEMMA StoreTyped ==
  ASSUME StoreTypeOK, NEW a
  PROVE  /\ Stored(a) => StoreTypeOK'
         /\ \A r \in Reports : Published(a, r) => StoreTypeOK'
         /\ \A m \in Metas : Committed(a, m) => StoreTypeOK'
         /\ TailDropped(a) => StoreTypeOK'
         /\ Removed(a) => StoreTypeOK'
         /\ Aged(a) => StoreTypeOK'
  <1> USE DEF StoreTypeOK
  <1>1. Stored(a) => StoreTypeOK'
    BY DEF Stored, Folder
  <1>2. \A r \in Reports : Published(a, r) => StoreTypeOK'
    BY DEF Published, Folder
  <1>3. \A m \in Metas : Committed(a, m) => StoreTypeOK'
    BY DEF Committed, Folder
  <1>4. TailDropped(a) => StoreTypeOK'
    <2>1. "none" \in Reports /\ "none" \in Metas
      BY DEF Reports, Metas
    <2>2. a \in Audits => [disk[a] EXCEPT !.report = "none", !.meta = "none", !.old = FALSE] \in Folder
      BY <2>1 DEF Folder
    <2> QED
      BY <2>2 DEF TailDropped
  <1>5. Removed(a) => StoreTypeOK'
    <2>1. NoFolder \in Folder
      BY DEF NoFolder, Folder, Reports, Metas
    <2> QED
      BY <2>1, Updated DEF Removed
  <1>6. Aged(a) => StoreTypeOK'
    BY DEF Aged, Folder
  <1> QED
    BY <1>1, <1>2, <1>3, <1>4, <1>5, <1>6

LEMMA SlotTyped ==
  ASSUME BusTypeOK, NEW w \in Workers
  PROVE  slots \cup {w} \in SUBSET Workers /\ slots \ {w} \in SUBSET Workers
  BY DEF BusTypeOK

-----------------------------------------------------------------------------
(* A step of a worker *)

LEMMA Statused ==
  ASSUME BusTypeOK, NEW a, NEW s \in Statuses
  PROVE  [live EXCEPT ![a] = s] \in [Audits -> Statuses]
  BY Updated DEF BusTypeOK

LEMMA JobCleared ==
  ASSUME WorkerTypeOK, NEW w
  PROVE  [job EXCEPT ![w] = NoMsg] \in [Workers -> Messages \cup {NoMsg}]
  BY Updated DEF WorkerTypeOK

LEMMA WorkerStepTyped ==
  ASSUME TypeOK, NEW w \in Workers, Working(w)
  PROVE  BusTypeOK' /\ StoreTypeOK' /\ WorkerTypeOK'
  <1> USE DEF Working, Goto
  <1>t. BusTypeOK /\ StoreTypeOK /\ WorkerTypeOK
    BY DEF TypeOK
  <1>p. \A s \in Section \cup Outside : [wpc EXCEPT ![w] = s] \in [Workers -> Section \cup Outside]
    BY <1>t, Updated DEF WorkerTypeOK
  <1>q. Section \cup Outside = {"run", "publish", "exec", "settle", "fail", "xack", "srem", "unlock", "idle", "slot", "claimed", "dropack", "dropsrem", "unslot"}
    BY DEF Section, Outside, Threaded, Guarded
  <1>s. {"queued", "running", "reported", "failed"} \subseteq Statuses
    BY DEF Statuses
  <1>1. CASE TakeSlot(w)
    BY <1>1, <1>t, <1>p, <1>q, SlotTyped DEF TakeSlot, BusTypeOK, StoreTypeOK, WorkerTypeOK, queueVars
  <1>2. CASE Claim(w)
    <2>1. PICK m \in Messages : (XAutoClaim(m) \/ XReadGroup(m)) /\ job' = [job EXCEPT ![w] = m]
      BY <1>2 DEF Claim
    <2>2. job' \in [Workers -> Messages \cup {NoMsg}]
      BY <2>1, <1>t, Updated DEF WorkerTypeOK
    <2> QED
      BY <1>2, <2>1, <2>2, <1>t, <1>p, <1>q, ClaimTyped DEF Claim, BusTypeOK, StoreTypeOK, WorkerTypeOK, keyVars
  <1>3. CASE ClaimNothing(w)
    BY <1>3, <1>t, <1>p, <1>q
    DEF ClaimNothing, BusTypeOK, StoreTypeOK, WorkerTypeOK, busVars, queueVars, keyVars, workerVars
  <1>4. CASE AcquireAudit(w)
    BY <1>4, <1>t, <1>p, <1>q, LockTyped
    DEF AcquireAudit, BusTypeOK, StoreTypeOK, WorkerTypeOK, busVars, queueVars, keyVars, workerVars
  <1>5. CASE AcquireRefused(w)
    BY <1>5, <1>t, <1>p, <1>q
    DEF AcquireRefused, BusTypeOK, StoreTypeOK, WorkerTypeOK, busVars, queueVars, keyVars, workerVars
  <1>6. CASE OwnerMissing(w)
    BY <1>6, <1>t, <1>p, <1>q, Statused, <1>s
    DEF OwnerMissing, SetStatus, BusTypeOK, StoreTypeOK, WorkerTypeOK, busVars, queueVars, keyVars, workerVars
  <1>7. CASE StartRun(w)
    BY <1>7, <1>t, <1>p, <1>q, LockTyped, Statused, <1>s
    DEF StartRun, SetProgress, SetStatus, BusTypeOK, StoreTypeOK, WorkerTypeOK, busVars, queueVars, keyVars, workerVars
  <1>8. CASE EnterStage(w)
    BY <1>8, <1>t, <1>p, <1>q, LockTyped, Statused, <1>s
    DEF EnterStage, SetProgress, SetStatus, BusTypeOK, StoreTypeOK, WorkerTypeOK, busVars, queueVars, keyVars, workerVars
  <1>9. CASE SkipExplain(w)
    BY <1>9, <1>t, <1>p, <1>q
    DEF SkipExplain, ThreadEnds, BusTypeOK, StoreTypeOK, WorkerTypeOK, busVars, queueVars, keyVars, workerVars
  <1>10. CASE WriteReport(w)
    <2>1. PICK r \in Outcomes : Published(At(w), r)
      BY <1>10 DEF WriteReport
    <2>2. StoreTypeOK'
      BY <1>t, <2>1, StoreTyped, OutcomeAssumption DEF Reports
    <2> QED
      BY <1>10, <1>t, <1>p, <1>q, <2>2 DEF WriteReport, ThreadEnds, BusTypeOK, WorkerTypeOK, busVars, queueVars, keyVars
  <1>11. CASE WriteMeta(w)
    <2>2. StoreTypeOK'
      BY <1>t, <1>11, StoreTyped DEF WriteMeta, Metas
    <2> QED
      BY <1>11, <1>t, <1>p, <1>q, <2>2 DEF WriteMeta, ThreadEnds, BusTypeOK, WorkerTypeOK, busVars, queueVars, keyVars
  <1>12. CASE RunFails(w)
    <2>2. StoreTypeOK'
      BY <1>t, <1>12, StoreTyped DEF RunFails, Metas
    <2> QED
      BY <1>12, <1>t, <1>p, <1>q, <2>2 DEF RunFails, ThreadEnds, BusTypeOK, WorkerTypeOK, busVars, queueVars, keyVars
  <1>13. CASE SetTerminal(w)
    BY <1>13, <1>t, <1>p, <1>q, Statused, <1>s
    DEF SetTerminal, SetStatus, BusTypeOK, StoreTypeOK, WorkerTypeOK, busVars, queueVars, keyVars, workerVars
  <1>14. CASE Acknowledge(w)
    BY <1>14, <1>t, <1>p, <1>q, AckTyped
    DEF Acknowledge, BusTypeOK, StoreTypeOK, WorkerTypeOK, busVars, queueVars, keyVars, workerVars
  <1>15. CASE ForgetPending(w)
    BY <1>15, <1>t, <1>p, <1>q
    DEF ForgetPending, BusTypeOK, StoreTypeOK, WorkerTypeOK, busVars, queueVars, keyVars, workerVars
  <1>16. CASE DropMessage(w)
    BY <1>16, <1>t, <1>p, <1>q, AckTyped
    DEF DropMessage, BusTypeOK, StoreTypeOK, WorkerTypeOK, busVars, queueVars, keyVars, workerVars
  <1>17. CASE DropPending(w)
    BY <1>17, <1>t, <1>p, <1>q
    DEF DropPending, BusTypeOK, StoreTypeOK, WorkerTypeOK, busVars, queueVars, keyVars, workerVars
  <1>18. CASE ReleaseAudit(w)
    BY <1>18, <1>t, <1>p, <1>q, LockTyped
    DEF ReleaseAudit, BusTypeOK, StoreTypeOK, WorkerTypeOK, busVars, queueVars, keyVars, workerVars
  <1>19. CASE ReleaseSlot(w)
    BY <1>19, <1>t, <1>p, <1>q, SlotTyped, JobCleared
    DEF ReleaseSlot, BusTypeOK, StoreTypeOK, WorkerTypeOK, busVars, queueVars, keyVars, workerVars
  <1>20. CASE BeatErrorRaised(w)
    BY <1>20, <1>t, <1>p, <1>q
    DEF BeatErrorRaised, BusTypeOK, StoreTypeOK, WorkerTypeOK, busVars, queueVars, keyVars, workerVars
  <1>21. CASE Beat(w)
    BY <1>21, <1>t, <1>p, <1>q, LockTyped
    DEF Beat, BusTypeOK, StoreTypeOK, WorkerTypeOK, busVars, queueVars, keyVars, workerVars
  <1>22. CASE BeatFails(w)
    BY <1>22, <1>t, <1>p, <1>q
    DEF BeatFails, BusTypeOK, StoreTypeOK, WorkerTypeOK, busVars, queueVars, keyVars, workerVars
  <1>23. CASE GuardedFault(w)
    BY <1>23, <1>t, <1>p, <1>q, FaultAssumption
    DEF GuardedFault, CountFault, BusTypeOK, StoreTypeOK, WorkerTypeOK, busVars, queueVars, keyVars, workerVars
  <1>24. CASE OutsideFault(w)
    BY <1>24, <1>t, <1>p, <1>q, FaultAssumption
    DEF OutsideFault, CountFault, BusTypeOK, StoreTypeOK, WorkerTypeOK, busVars, queueVars, keyVars, workerVars
  <1>25. CASE SlotFault(w)
    BY <1>25, <1>t, <1>p, <1>q, JobCleared, FaultAssumption
    DEF SlotFault, CountFault, BusTypeOK, StoreTypeOK, WorkerTypeOK, busVars, queueVars, keyVars, workerVars
  <1>26. CASE LostClaim(w)
    <2>1. PICK m \in Messages : XAutoClaim(m) \/ XReadGroup(m)
      BY <1>26 DEF LostClaim
    <2> QED
      BY <1>26, <1>t, <1>p, <1>q, <2>1, ClaimTyped, FaultAssumption
      DEF LostClaim, CountFault, BusTypeOK, StoreTypeOK, WorkerTypeOK, keyVars
  <1>27. CASE LostAcquire(w)
    BY <1>27, <1>t, <1>p, <1>q, LockTyped, FaultAssumption
    DEF LostAcquire, CountFault, BusTypeOK, StoreTypeOK, WorkerTypeOK, busVars, queueVars, keyVars, workerVars
  <1> QED
    BY <1>1, <1>2, <1>3, <1>4, <1>5, <1>6, <1>7, <1>8, <1>9, <1>10, <1>11, <1>12, <1>13, <1>14, <1>15, <1>16, <1>17, <1>18, <1>19, <1>20, <1>21, <1>22, <1>23, <1>24, <1>25, <1>26, <1>27 DEF WorkerStep, Advance, WorkerFault

-----------------------------------------------------------------------------
(* A step of a caller *)

LEMMA BeginsTyped ==
  ASSUME ApiTypeOK, NEW c \in Callers, NEW a \in Audits, NEW s \in ApiSteps, Begins(c, a, s)
  PROVE  ApiTypeOK'
  <1>1. rpc' \in [Callers -> ApiSteps] /\ subject' \in [Callers -> Audits \cup {NoAudit}]
    BY Updated DEF ApiTypeOK, Begins
  <1>2. \A d \in Callers : rpc'[d] # "idle" => subject'[d] \in Audits
    BY DEF ApiTypeOK, Begins
  <1> QED
    BY <1>1, <1>2 DEF ApiTypeOK

LEMMA ProceedsTyped ==
  ASSUME ApiTypeOK, NEW c \in Callers, NEW from \in ApiSteps, NEW to \in ApiSteps,
         from # "idle", Proceeds(c, from, to)
  PROVE  ApiTypeOK' /\ subject[c] \in Audits
  <1>1. rpc' \in [Callers -> ApiSteps]
    BY Updated DEF ApiTypeOK, Proceeds
  <1>2. \A d \in Callers : rpc'[d] # "idle" => subject'[d] \in Audits
    BY DEF ApiTypeOK, Proceeds
  <1> QED
    BY <1>1, <1>2 DEF ApiTypeOK, Proceeds

LEMMA AnsweredTyped ==
  ASSUME ApiTypeOK, NEW c \in Callers, Answered(c)
  PROVE  ApiTypeOK'
  <1>1. rpc' \in [Callers -> ApiSteps]
    BY Updated DEF ApiTypeOK, Answered, ApiSteps
  <1>2. subject' \in [Callers -> Audits \cup {NoAudit}]
    BY Updated DEF ApiTypeOK, Answered
  <1>3. \A d \in Callers : rpc'[d] # "idle" => subject'[d] \in Audits
    BY DEF ApiTypeOK, Answered
  <1> QED
    BY <1>1, <1>2, <1>3 DEF ApiTypeOK

LEMMA EnqueueTyped ==
  ASSUME BusTypeOK, StoreTypeOK, ApiTypeOK, NEW c \in Callers, NEW held, Enqueue(c, held)
  PROVE  BusTypeOK' /\ StoreTypeOK' /\ ApiTypeOK'
  <1>s. {"hget", "replace", "hset", "sadd", "xadd"} \subseteq ApiSteps \ {"idle"}
    BY DEF ApiSteps
  <1>1. CASE ReadStatus(c)
    <2>1. PICK to \in {"sadd", "hset"} : Proceeds(c, rpc[c], to)
      BY <1>1 DEF ReadStatus
    <2>2. ApiTypeOK'
      BY <1>1, <1>s, <2>1, ProceedsTyped DEF ReadStatus
    <2> QED
      BY <1>1, <2>2 DEF ReadStatus, BusTypeOK, StoreTypeOK, busVars, queueVars, keyVars
  <1>2. CASE WriteQueued(c)
    <2>1. ApiTypeOK'
      BY <1>2, <1>s, ProceedsTyped DEF WriteQueued
    <2>2. live' \in [Audits -> Statuses]
      BY <1>2, Statused DEF WriteQueued, SetStatus, Statuses
    <2> QED
      BY <1>2, <2>1, <2>2 DEF WriteQueued, BusTypeOK, StoreTypeOK, queueVars, keyVars
  <1>3. CASE AlreadyPending(c)
    BY <1>3, AnsweredTyped
    DEF AlreadyPending, BusTypeOK, StoreTypeOK, busVars, queueVars, keyVars
  <1>4. CASE AddPending(c)
    <2>1. ApiTypeOK' /\ subject[c] \in Audits
      BY <1>4, <1>s, ProceedsTyped DEF AddPending
    <2> QED
      BY <1>4, <2>1 DEF AddPending, BusTypeOK, StoreTypeOK, keyVars
  <1>5. CASE AppendEntry(c, held)
    <2>1. subject[c] \in Audits
      BY <1>5 DEF AppendEntry, ApiTypeOK
    <2>2. stream' \in Seq(Messages)
      BY <1>5, <2>1, AddTyped DEF AppendEntry
    <2>3. ApiTypeOK'
      BY <1>5, AnsweredTyped DEF AppendEntry
    <2> QED
      BY <1>5, <2>2, <2>3 DEF AppendEntry, BusTypeOK, StoreTypeOK, keyVars
  <1> QED
    BY <1>1, <1>2, <1>3, <1>4, <1>5 DEF Enqueue

LEMMA RequestStepTyped ==
  ASSUME BusTypeOK, StoreTypeOK, ApiTypeOK, NEW r \in Requests, NEW held, RequestStep(r, held)
  PROVE  BusTypeOK' /\ StoreTypeOK' /\ ApiTypeOK'
  <1>r. r \in Callers
    BY DEF Callers
  <1>s. {"recheck", "hget", "glossary", "grel", "replace"} \subseteq ApiSteps \ {"idle"}
    BY DEF ApiSteps
  <1> USE DEF busVars, queueVars, keyVars
  <1>1. ASSUME NEW a \in Audits, StartUpload(r, a)
        PROVE  BusTypeOK' /\ StoreTypeOK' /\ ApiTypeOK'
    <2>1. ApiTypeOK'
      BY <1>1, <1>r, <1>s, BeginsTyped DEF StartUpload
    <2>2. StoreTypeOK'
      BY <1>1, StoreTyped DEF StartUpload
    <2> QED
      BY <1>1, <2>1, <2>2 DEF StartUpload, BusTypeOK
  <1>2. ASSUME NEW a \in Audits, StartAnswers(r, a)
        PROVE  BusTypeOK' /\ StoreTypeOK' /\ ApiTypeOK'
    <2>1. ApiTypeOK'
      BY <1>2, <1>r, <1>s, BeginsTyped DEF StartAnswers
    <2> QED
      BY <1>2, <2>1 DEF StartAnswers, BusTypeOK, StoreTypeOK
  <1>3. CASE Recheck(r)
    <2>1. ApiTypeOK'
      BY <1>3, <1>r, <1>s, ProceedsTyped, AnsweredTyped DEF Recheck
    <2> QED
      BY <1>3, <2>1 DEF Recheck, BusTypeOK, StoreTypeOK
  <1>4. CASE GlossaryBusy(r)
    BY <1>4, <1>r, AnsweredTyped DEF GlossaryBusy, BusTypeOK, StoreTypeOK
  <1>5. CASE ApplyAnswers(r)
    <2>1. ApiTypeOK' /\ subject[r] \in Audits
      BY <1>5, <1>r, <1>s, ProceedsTyped DEF ApplyAnswers
    <2>2. glocked' \in SUBSET Actors
      BY <1>5, <2>1, OwnerAssumption DEF ApplyAnswers, BusTypeOK
    <2>3. StoreTypeOK'
      BY <1>5, StoreTyped DEF ApplyAnswers
    <2> QED
      BY <1>5, <2>1, <2>2, <2>3 DEF ApplyAnswers, BusTypeOK
  <1>6. CASE ReleaseGlossary(r)
    <2>1. ApiTypeOK'
      BY <1>6, <1>r, <1>s, ProceedsTyped DEF ReleaseGlossary
    <2> QED
      BY <1>6, <2>1 DEF ReleaseGlossary, BusTypeOK, StoreTypeOK
  <1>7. CASE Enqueue(r, held)
    BY <1>7, <1>r, EnqueueTyped
  <1>8. CASE RequestFault(r)
    BY <1>8, <1>r, AnsweredTyped, FaultAssumption
    DEF RequestFault, CountFault, BusTypeOK, StoreTypeOK
  <1> QED
    BY <1>1, <1>2, <1>3, <1>4, <1>5, <1>6, <1>7, <1>8 DEF RequestStep

-----------------------------------------------------------------------------
(* The steps of the process itself *)

LEMMA GoneTyped ==
  /\ WorkersGone => WorkerTypeOK'
  /\ RequestsGone => ApiTypeOK'
  <1>1. WorkersGone => WorkerTypeOK'
    BY DEF WorkersGone, WorkerTypeOK, Section, Outside
  <1>2. RequestsGone => ApiTypeOK'
    BY DEF RequestsGone, ApiTypeOK, ApiSteps
  <1> QED
    BY <1>1, <1>2

LEMMA StopTyped ==
  ASSUME BusTypeOK, StoreTypeOK, Stop
  PROVE  BusTypeOK' /\ StoreTypeOK'
  <1>1. lock' \in [Audits -> 0..LockTtl]
    BY Bounds DEF Stop, BusTypeOK
  <1>2. slots' \in SUBSET Workers
    BY DEF Stop, BusTypeOK
  <1>3. StoreTypeOK'
    <2>1. PICK done \in SUBSET {w \in Workers : wpc[w] \in Threaded}, r \in Outcomes :
            disk' = [a \in Audits |->
                       IF (\E w \in done : At(w) = a) /\ ~Complete(a)
                         THEN [disk[a] EXCEPT !.report = r, !.meta = "ready", !.old = FALSE]
                         ELSE disk[a]]
      BY DEF Stop
    <2>2. r \in Reports /\ "ready" \in Metas
      BY OutcomeAssumption DEF Reports, Metas
    <2>3. ASSUME NEW a \in Audits
          PROVE  [disk[a] EXCEPT !.report = r, !.meta = "ready", !.old = FALSE] \in Folder
      BY <2>2 DEF StoreTypeOK, Folder
    <2> QED
      BY <2>1, <2>3 DEF StoreTypeOK
  <1> QED
    BY <1>1, <1>2, <1>3 DEF Stop, GoesDown, BusTypeOK, queueVars

LEMMA DownTyped ==
  ASSUME TypeOK, NEW kind, GoesDown(kind)
  PROVE  /\ app' \in {"down", "clean", "boot", "up"}
         /\ todo' \in SUBSET Audits
         /\ restarts' \in 0..MaxRestarts
         /\ sweep' \in Audits \cup {NoAudit}
  BY RestartAssumption DEF TypeOK, GoesDown

(* A heartbeat sleeps for no worker whose thread has ended.                 *)
LEMMA BeatsThreads ==
  ASSUME TypeOK, [Next]_vars
  PROVE  \A w \in due' : wpc'[w] \in Threaded
  <1>t. /\ wpc \in [Workers -> Section \cup Outside]
        /\ due \subseteq Workers
        /\ \A w \in due : wpc[w] \in Threaded
    BY DEF TypeOK, WorkerTypeOK
  <1>1. ASSUME NEW w \in Workers, Working(w) PROVE \A v \in due' : wpc'[v] \in Threaded
    <2> USE <1>t DEF Threaded, Guarded, Goto
    <2>1. WorkerStep(w)
      BY <1>1 DEF Working
    <2>2. CASE TakeSlot(w) \/ Claim(w) \/ ClaimNothing(w) \/ AcquireAudit(w) \/ AcquireRefused(w)
               \/ OwnerMissing(w) \/ StartRun(w)
      BY <2>2 DEF TakeSlot, Claim, ClaimNothing, AcquireAudit, AcquireRefused, OwnerMissing, StartRun
    <2>3. CASE SkipExplain(w) \/ WriteReport(w) \/ WriteMeta(w) \/ RunFails(w) \/ SetTerminal(w)
               \/ BeatErrorRaised(w)
      BY <2>3 DEF SkipExplain, WriteReport, WriteMeta, RunFails, SetTerminal, BeatErrorRaised,
         ThreadEnds
    <2>4. CASE Acknowledge(w) \/ ForgetPending(w) \/ DropMessage(w) \/ DropPending(w)
               \/ ReleaseAudit(w) \/ ReleaseSlot(w)
      BY <2>4 DEF Acknowledge, ForgetPending, DropMessage, DropPending, ReleaseAudit, ReleaseSlot
    <2>5. CASE EnterStage(w) \/ Beat(w) \/ BeatFails(w)
      BY <2>5 DEF EnterStage, Beat, BeatFails, workerVars
    <2>6. CASE WorkerFault(w)
      BY <2>6 DEF WorkerFault, GuardedFault, OutsideFault, SlotFault, LostClaim, LostAcquire
    <2> QED
      BY <2>1, <2>2, <2>3, <2>4, <2>5, <2>6 DEF WorkerStep, Advance
  <1>2. CASE Tick
    BY <1>2 DEF Tick, WorkerTick
  <1>3. CASE Stop \/ Kill \/ PodLost
    BY <1>3 DEF Stop, Kill, PodLost, GoesDown, WorkersGone
  <1>4. CASE UNCHANGED workerVars
    BY <1>4, <1>t DEF workerVars
  <1> QED
    BY <1>1, <1>2, <1>3, <1>4 DEF Next, Serving, SweepLook, GrowOld, SweepDelete, StartProcess,
       StartReconcile, ReconcileSkip, ReconcileTake, Reconciling, StartWorkers, vars

LEMMA NextTyped == TypeOK /\ [Next]_vars => TypeOK'
  <1> SUFFICES ASSUME TypeOK, [Next]_vars PROVE TypeOK'
    OBVIOUS
  <1>t. BusTypeOK /\ StoreTypeOK /\ WorkerTypeOK /\ ApiTypeOK
    BY DEF TypeOK
  <1>b. Boot \in Callers
    BY DEF Callers
  <1>h. \A w \in due' : wpc'[w] \in Threaded
    BY BeatsThreads
  <1> USE <1>h DEF lifeVars
  <1>1. ASSUME NEW w \in Workers, Working(w) PROVE TypeOK'
    <2>1. ApiTypeOK'
      BY <1>1, <1>t DEF Working, apiVars, ApiTypeOK
    <2> QED
      BY <1>1, <2>1, WorkerStepTyped DEF Working, TypeOK
  <1>2. ASSUME NEW r \in Requests, Serving(r) PROVE TypeOK'
    <2>1. WorkerTypeOK'
      BY <1>2, <1>t DEF Serving, workerVars, WorkerTypeOK
    <2>2. BusTypeOK' /\ StoreTypeOK' /\ ApiTypeOK'
      BY <1>2, <1>t, RequestStepTyped DEF Serving
    <2> QED
      BY <1>2, <2>1, <2>2 DEF Serving, TypeOK
  <1>3. CASE Tick
    <2>1. BusTypeOK'
      BY <1>3, <1>t, TickTyped DEF Tick, WorkerTick
    <2>2. WorkerTypeOK' /\ StoreTypeOK' /\ ApiTypeOK'
      BY <1>3, <1>t DEF Tick, WorkerTick, WorkerTypeOK, StoreTypeOK, ApiTypeOK, apiVars
    <2> QED
      BY <1>3, <2>1, <2>2 DEF Tick, TypeOK
  <1>4. ASSUME NEW a \in Audits, SweepLook(a) PROVE TypeOK'
    <2>1. BusTypeOK' /\ StoreTypeOK' /\ WorkerTypeOK' /\ ApiTypeOK'
      BY <1>4, <1>t DEF SweepLook, busVars, queueVars, keyVars, workerVars, apiVars,
         BusTypeOK, StoreTypeOK, WorkerTypeOK, ApiTypeOK
    <2> QED
      BY <1>4, <2>1 DEF SweepLook, TypeOK
  <1>5. ASSUME NEW a \in Audits, GrowOld(a) PROVE TypeOK'
    <2>1. StoreTypeOK'
      BY <1>5, <1>t, StoreTyped DEF GrowOld
    <2>2. live' \in [Audits -> Statuses]
      <3>1. (IF Active(a) THEN live[a] ELSE "none") \in Statuses
        BY <1>t DEF BusTypeOK, Statuses
      <3> QED
        BY <1>5, <1>t, <3>1, Statused DEF GrowOld, StatusExpires, SetStatus
    <2>3. BusTypeOK' /\ WorkerTypeOK' /\ ApiTypeOK'
      BY <1>5, <1>t, <2>2 DEF GrowOld, queueVars, keyVars, workerVars, apiVars,
         BusTypeOK, WorkerTypeOK, ApiTypeOK
    <2> QED
      BY <1>5, <2>1, <2>3 DEF GrowOld, TypeOK
  <1>6. CASE SweepDelete
    <2>1. StoreTypeOK'
      BY <1>6, <1>t, StoreTyped DEF SweepDelete, StoreTypeOK
    <2>2. BusTypeOK' /\ WorkerTypeOK' /\ ApiTypeOK'
      BY <1>6, <1>t DEF SweepDelete, busVars, queueVars, keyVars, workerVars, apiVars,
         BusTypeOK, WorkerTypeOK, ApiTypeOK
    <2> QED
      BY <1>6, <2>1, <2>2 DEF SweepDelete, TypeOK
  <1>7. ASSUME StartProcess \/ StartReconcile \/ StartWorkers
               \/ \E a \in Audits : ReconcileSkip(a)
        PROVE  TypeOK'
    <2>1. BusTypeOK' /\ StoreTypeOK' /\ WorkerTypeOK' /\ ApiTypeOK'
      BY <1>7, <1>t DEF StartProcess, StartReconcile, StartWorkers, ReconcileSkip,
         busVars, queueVars, keyVars, workerVars, apiVars,
         BusTypeOK, StoreTypeOK, WorkerTypeOK, ApiTypeOK
    <2> QED
      BY <1>7, <2>1 DEF StartProcess, StartReconcile, StartWorkers, ReconcileSkip,
         Folders, TypeOK
  <1>8. ASSUME NEW a \in Audits, ReconcileTake(a) PROVE TypeOK'
    <2>1. ApiTypeOK'
      BY <1>8, <1>t, <1>b, BeginsTyped DEF ReconcileTake, ApiSteps
    <2>2. BusTypeOK' /\ StoreTypeOK' /\ WorkerTypeOK'
      BY <1>8, <1>t DEF ReconcileTake, busVars, queueVars, keyVars, workerVars,
         BusTypeOK, StoreTypeOK, WorkerTypeOK
    <2> QED
      BY <1>8, <2>1, <2>2 DEF ReconcileTake, TypeOK
  <1>9. CASE Reconciling
    <2>1. BusTypeOK' /\ StoreTypeOK' /\ ApiTypeOK'
      BY <1>9, <1>t, <1>b, EnqueueTyped DEF Reconciling
    <2>2. WorkerTypeOK'
      BY <1>9, <1>t DEF Reconciling, workerVars, WorkerTypeOK
    <2> QED
      BY <1>9, <2>1, <2>2 DEF Reconciling, TypeOK
  <1>10. CASE Stop
    <2>1. BusTypeOK' /\ StoreTypeOK' /\ WorkerTypeOK' /\ ApiTypeOK'
      BY <1>10, <1>t, StopTyped, GoneTyped DEF Stop, GoesDown
    <2>2. GoesDown("stop")
      BY <1>10 DEF Stop
    <2> QED
      BY <2>1, <2>2, DownTyped DEF TypeOK
  <1>11. CASE Kill
    <2>1. WorkerTypeOK' /\ ApiTypeOK'
      BY <1>11, GoneTyped DEF Kill, GoesDown
    <2>2. BusTypeOK' /\ StoreTypeOK'
      BY <1>11, <1>t DEF Kill, GoesDown, busVars, queueVars, keyVars, BusTypeOK, StoreTypeOK
    <2> QED
      BY <1>11, <2>1, <2>2, RestartAssumption DEF Kill, GoesDown, TypeOK
  <1>12. CASE PodLost
    <2>1. WorkerTypeOK' /\ ApiTypeOK'
      BY <1>12, GoneTyped DEF PodLost, GoesDown
    <2>2. BusTypeOK'
      BY <1>12, <1>t, FlushTyped DEF PodLost, GoesDown, BusTypeOK
    <2>3. StoreTypeOK'
      BY <1>12, <1>t DEF PodLost, StoreTypeOK
    <2> QED
      BY <1>12, <2>1, <2>2, <2>3, RestartAssumption DEF PodLost, GoesDown, TypeOK
  <1>13. CASE UNCHANGED vars
    <2>1. BusTypeOK' /\ StoreTypeOK' /\ WorkerTypeOK' /\ ApiTypeOK'
      BY <1>13, <1>t DEF vars, busVars, queueVars, keyVars, workerVars, apiVars,
         BusTypeOK, StoreTypeOK, WorkerTypeOK, ApiTypeOK
    <2> QED
      BY <1>13, <2>1 DEF vars, TypeOK
  <1> QED
    BY <1>1, <1>2, <1>3, <1>4, <1>5, <1>6, <1>7, <1>8, <1>9, <1>10, <1>11, <1>12, <1>13
    DEF Next

(* Every variable keeps its type, whatever fails and however often the      *)
(* process restarts.                                                        *)
THEOREM Typed == Spec => []TypeOK
  <1>1. Init => TypeOK
    <2> SUFFICES ASSUME Init PROVE TypeOK
      OBVIOUS
    <2>1. StoreTypeOK
      BY DEF Init, StoreInit, StoreTypeOK, Folder, NoFolder, Reports, Metas
    <2>2. WorkerTypeOK
      BY DEF Init, WorkerInit, WorkerTypeOK, Section, Outside
    <2>3. ApiTypeOK
      BY DEF Init, ApiInit, ApiTypeOK, ApiSteps
    <2> QED
      BY <2>1, <2>2, <2>3, BusInitTyped, RestartAssumption DEF Init, WorkerInit, TypeOK
  <1> QED
    BY <1>1, NextTyped, PTL DEF Spec
-----------------------------------------------------------------------------
(* Exclusion                                                                *)
(*                                                                          *)
(* ExclusiveRun is not inductive: a second worker enters the section by     *)
(* finding the lock's key gone, so the key of every worker in the section   *)
(* must be known to exist.  LockHeld says it does and how old it may be,    *)
(* Beating that the clock finds no thread whose heartbeat has ended, and    *)
(* Claimed that the lock a worker goes for is the one of a real entry.      *)

Claimed ==
  \A w \in Workers :
    wpc[w] \in {"claimed", "dropack", "dropsrem"} => job[w] \in Messages

Beating ==
  /\ dead = {}
  /\ \A w \in due : wpc[w] \in Threaded

Exclusion == Claimed /\ Beating /\ LockHeld /\ ExclusiveRun

LEMMA Parts ==
  /\ \A x \in {"idle", "slot", "claimed", "dropack", "dropsrem", "unslot"} :
       x \notin Section /\ x \notin Threaded
  /\ \A x \in {"exec", "settle", "fail", "xack", "srem", "unlock"} :
       x \in Section /\ x \notin Threaded
       /\ x \notin {"claimed", "dropack", "dropsrem"}
  /\ \A x \in {"run", "publish"} :
       x \in Section /\ x \in Threaded
       /\ x \notin {"claimed", "dropack", "dropsrem"}
  BY DEF Section, Threaded, Guarded

(* A worker's step that takes no lock, enters no part it was not in and     *)
(* keeps the others' entries.                                               *)
LEMMA Moved ==
  ASSUME WorkerTypeOK, Exclusion, NEW w \in Workers, NEW to,
         wpc' = [wpc EXCEPT ![w] = to],
         job' = job, lock' = lock, dead' \subseteq dead,
         due' \subseteq due, due \ {w} \subseteq due',
         to \in Threaded => wpc[w] \in Threaded /\ due' = due,
         to \notin Threaded => w \notin due',
         to \in Section => wpc[w] \in Section,
         to \in {"dropack", "dropsrem", "claimed"} =>
           wpc[w] \in {"dropack", "dropsrem", "claimed"}
  PROVE  Exclusion'
  <1>1. \A v \in Workers : wpc'[v] = IF v = w THEN to ELSE wpc[v]
    BY DEF WorkerTypeOK
  <1>2. Claimed'
    BY <1>1 DEF Exclusion, Claimed
  <1>3. Beating'
    BY <1>1 DEF Exclusion, Beating, WorkerTypeOK
  <1>4. ASSUME NEW v \in Workers, wpc'[v] \in Section
        PROVE  /\ wpc[v] \in Section
               /\ wpc'[v] \in Threaded /\ v \notin due' =>
                    wpc[v] \in Threaded /\ v \notin due
    BY <1>1, <1>4
  <1>5. LockHeld'
    BY <1>4 DEF Exclusion, LockHeld, At
  <1>6. ExclusiveRun'
    BY <1>4 DEF Exclusion, ExclusiveRun, At
  <1> QED
    BY <1>2, <1>3, <1>5, <1>6 DEF Exclusion

(* A step that gives a worker outside the section an entry, or takes it.    *)
LEMMA Handed ==
  ASSUME WorkerTypeOK, Exclusion, NEW w \in Workers, NEW to, NEW m,
         wpc' = [wpc EXCEPT ![w] = to], job' = [job EXCEPT ![w] = m],
         lock' = lock, due' = due, dead' = dead,
         wpc[w] \notin Threaded, to \notin Section, to \notin Threaded,
         to \in {"dropack", "dropsrem", "claimed"} => m \in Messages
  PROVE  Exclusion'
  <1>1. \A v \in Workers : /\ wpc'[v] = IF v = w THEN to ELSE wpc[v]
                           /\ job'[v] = IF v = w THEN m ELSE job[v]
    BY DEF WorkerTypeOK
  <1>2. Claimed'
    BY <1>1 DEF Exclusion, Claimed
  <1>3. Beating'
    BY <1>1 DEF Exclusion, Beating, WorkerTypeOK
  <1>4. \A v \in Workers : wpc'[v] \in Section =>
          v # w /\ wpc[v] \in Section /\ wpc'[v] = wpc[v] /\ job'[v] = job[v]
    BY <1>1
  <1>5. LockHeld'
    BY <1>4 DEF Exclusion, LockHeld, At
  <1>6. ExclusiveRun'
    BY <1>4 DEF Exclusion, ExclusiveRun, At
  <1> QED
    BY <1>2, <1>3, <1>5, <1>6 DEF Exclusion

(* The lock is set only where its key is gone, so no worker holds it.       *)
LEMMA Locking ==
  ASSUME BusTypeOK, WorkerTypeOK, Exclusion, NEW w \in Workers,
         wpc[w] = "claimed", TryLock(At(w)), NEW to \in {"exec", "unslot"},
         wpc' = [wpc EXCEPT ![w] = to],
         job' = job, due' = due, dead' = dead
  PROVE  Exclusion'
  <1>1. \A v \in Workers : wpc'[v] = IF v = w THEN to ELSE wpc[v]
    BY DEF WorkerTypeOK
  <1>2. Claimed'
    BY <1>1 DEF Exclusion, Claimed
  <1>3. Beating'
    BY <1>1, Parts DEF Exclusion, Beating, WorkerTypeOK
  <1>4. job[w] \in Messages /\ At(w) \in Audits
    BY DEF Exclusion, Claimed, At, Messages
  <1>5. \A a \in Audits : lock'[a] = IF a = At(w) THEN LockTtl ELSE lock[a]
    BY DEF TryLock, BusTypeOK
  <1>6. \A v \in Workers : wpc[v] \in Section =>
          job[v] \in Messages /\ At(v) \in Audits /\ At(v) # At(w)
    BY TtlAssumption DEF Exclusion, LockHeld, TryLock, At, Messages
  <1>7. LockHeld'
    <2> SUFFICES ASSUME NEW v \in Workers, wpc'[v] \in Section
                 PROVE  /\ job[v] \in Messages
                        /\ lock'[At(v)] >= LockTtl - 1
                        /\ wpc'[v] \in Threaded /\ v \notin due => lock'[At(v)] = LockTtl
      BY DEF LockHeld, At
    <2>1. CASE v = w
      BY <2>1, <1>4, <1>5, TtlAssumption
    <2>2. CASE v # w
      BY <2>2, <1>1, <1>5, <1>6 DEF Exclusion, LockHeld
    <2> QED
      BY <2>1, <2>2
  <1>8. ExclusiveRun'
    BY <1>1, <1>6 DEF Exclusion, ExclusiveRun, At
  <1> QED
    BY <1>2, <1>3, <1>7, <1>8 DEF Exclusion

(* A heartbeat or a stage mark of the worker that holds the lock.           *)
LEMMA Touching ==
  ASSUME BusTypeOK, WorkerTypeOK, Exclusion, NEW w \in Workers, NEW to \in Section,
         wpc[w] \in Section, lock' = Touched(At(w)),
         wpc' = [wpc EXCEPT ![w] = to],
         job' = job, due' \subseteq due, due \ {w} \subseteq due', dead' = dead,
         due' # due => to \in Threaded,
         wpc[w] \in Threaded => to \in Threaded
  PROVE  Exclusion'
  <1>1. \A v \in Workers : wpc'[v] = IF v = w THEN to ELSE wpc[v]
    BY DEF WorkerTypeOK
  <1>2. Claimed'
    BY <1>1 DEF Exclusion, Claimed, Section, Threaded, Guarded
  <1>3. Beating'
    BY <1>1 DEF Exclusion, Beating, WorkerTypeOK
  <1>4. \A v \in Workers : wpc'[v] \in Section =>
          /\ wpc[v] \in Section /\ job[v] \in Messages /\ At(v) \in Audits
          /\ lock[At(v)] >= LockTtl - 1 /\ lock[At(v)] \in 0..LockTtl
    BY <1>1 DEF Exclusion, LockHeld, At, Messages, BusTypeOK
  <1>5. At(w) \in Audits /\ lock'[At(w)] = LockTtl
    BY <1>1, <1>4, TtlAssumption DEF Touched, BusTypeOK
  <1>6. \A a \in Audits : a # At(w) => lock'[a] = lock[a]
    BY DEF Touched, BusTypeOK
  <1>7. LockHeld'
    <2> SUFFICES ASSUME NEW v \in Workers, wpc'[v] \in Section
                 PROVE  /\ job[v] \in Messages
                        /\ lock'[At(v)] >= LockTtl - 1
                        /\ wpc'[v] \in Threaded /\ v \notin due' => lock'[At(v)] = LockTtl
      BY DEF LockHeld, At
    <2>1. CASE At(v) = At(w)
      BY <2>1, <1>4, <1>5, TtlAssumption
    <2>2. CASE At(v) # At(w)
      BY <2>2, <1>1, <1>4, <1>6 DEF Exclusion, LockHeld
    <2> QED
      BY <2>1, <2>2
  <1>8. ExclusiveRun'
    BY <1>1 DEF Exclusion, ExclusiveRun, At
  <1> QED
    BY <1>2, <1>3, <1>7, <1>8 DEF Exclusion

(* The lock is dropped by the one worker that is in the section for it.     *)
LEMMA Unlocking ==
  ASSUME BusTypeOK, WorkerTypeOK, Exclusion, NEW w \in Workers, ReleaseAudit(w)
  PROVE  Exclusion'
  <1>1. \A v \in Workers : wpc'[v] = IF v = w THEN "unslot" ELSE wpc[v]
    BY DEF WorkerTypeOK, ReleaseAudit, Goto
  <1>2. Claimed'
    BY <1>1 DEF Exclusion, Claimed, ReleaseAudit
  <1>3. wpc[w] = "unlock" /\ w \notin due
    BY Parts DEF Exclusion, Beating, ReleaseAudit, Goto
  <1>4. Beating'
    BY <1>1, <1>3 DEF Exclusion, Beating, ReleaseAudit, WorkerTypeOK
  <1>5. \A v \in Workers : wpc'[v] \in Section =>
          v # w /\ wpc[v] \in Section /\ wpc'[v] = wpc[v] /\ At(v) # At(w)
    BY <1>1, <1>3, Parts DEF Exclusion, ExclusiveRun
  <1>6. \A a \in Audits : a # At(w) => lock'[a] = lock[a]
    BY DEF ReleaseAudit, Unlock, BusTypeOK
  <1>7. LockHeld'
    <2>1. \A v \in Workers : wpc'[v] \in Section => lock'[At(v)] = lock[At(v)]
      BY <1>5, <1>6 DEF Exclusion, LockHeld, At, Messages
    <2> QED
      BY <1>5, <2>1 DEF Exclusion, LockHeld, At, ReleaseAudit
  <1>8. ExclusiveRun'
    BY <1>5 DEF Exclusion, ExclusiveRun, At, ReleaseAudit
  <1> QED
    BY <1>2, <1>4, <1>7, <1>8 DEF Exclusion

(* Where a heartbeat may be refused the lock can expire under its worker,   *)
(* so the lemma asks that none is.                                          *)
LEMMA WorkerStepExcludes ==
  ASSUME BeatMayFail = FALSE, TypeOK, Exclusion, NEW w \in Workers, WorkerStep(w)
  PROVE  Exclusion'
  <1>t. BusTypeOK /\ WorkerTypeOK /\ w \notin dead
    BY DEF TypeOK, Exclusion, Beating
  <1>d. wpc[w] \notin Threaded => w \notin due
    BY DEF Exclusion, Beating
  <1> USE DEF busVars, keyVars
  <1>1. CASE TakeSlot(w) \/ ClaimNothing(w) \/ AcquireRefused(w)
    BY <1>1, <1>t, <1>d, Moved, Parts DEF TakeSlot, ClaimNothing, AcquireRefused, Goto
  <1>2. CASE Claim(w)
    <2>1. PICK m \in Messages : job' = [job EXCEPT ![w] = m]
      BY <1>2 DEF Claim
    <2> QED
      BY <1>2, <1>t, <2>1, Handed, Parts DEF Claim, Goto
  <1>3. CASE AcquireAudit(w) \/ LostAcquire(w)
    BY <1>3, <1>t, Locking DEF AcquireAudit, LostAcquire, Goto
  <1>4. CASE OwnerMissing(w)
    BY <1>4, <1>t, <1>d, Moved, Parts DEF OwnerMissing, Goto
  <1>5. CASE StartRun(w)
    BY <1>5, <1>t, Touching, Parts DEF StartRun, SetProgress, Goto
  <1>6. CASE EnterStage(w)
    <2>1. wpc' = [wpc EXCEPT ![w] = "run"] /\ wpc[w] = "run"
      BY <1>6, <1>t DEF EnterStage, workerVars, WorkerTypeOK
    <2> QED
      BY <1>6, <1>t, <2>1, Touching, Parts DEF EnterStage, SetProgress, workerVars
  <1>7. CASE SkipExplain(w) \/ WriteMeta(w) \/ RunFails(w)
    BY <1>7, <1>t, Moved, Parts DEF SkipExplain, WriteMeta, RunFails, ThreadEnds, Goto
  <1>8. CASE WriteReport(w)
    BY <1>8, <1>t, Moved, Parts DEF WriteReport, Goto
  <1>9. CASE SetTerminal(w)
    BY <1>9, <1>t, <1>d, Moved, Parts DEF SetTerminal
  <1>10. CASE Acknowledge(w) \/ ForgetPending(w) \/ DropMessage(w) \/ DropPending(w)
    BY <1>10, <1>t, <1>d, Moved, Parts
    DEF Acknowledge, ForgetPending, DropMessage, DropPending, Goto
  <1>11. CASE ReleaseAudit(w)
    BY <1>11, <1>t, Unlocking
  <1>12. CASE ReleaseSlot(w) \/ SlotFault(w)
    BY <1>12, <1>t, Handed, Parts DEF ReleaseSlot, SlotFault, Goto
  <1>13. CASE BeatErrorRaised(w)
    BY <1>13, <1>t DEF BeatErrorRaised
  <1>14. CASE Beat(w)
    <2>1. wpc' = [wpc EXCEPT ![w] = wpc[w]] /\ wpc[w] \in Threaded
      BY <1>14, <1>t DEF Beat, WorkerTypeOK, Exclusion, Beating
    <2> QED
      BY <1>14, <1>t, <2>1, Touching DEF Beat, Section
  <1>15. CASE BeatFails(w)
    BY <1>15 DEF BeatFails
  <1>16. CASE GuardedFault(w)
    BY <1>16, <1>t, <1>d, Moved, Parts DEF GuardedFault, Section, Guarded
  <1>17. CASE OutsideFault(w)
    BY <1>17, <1>t, <1>d, Moved, Parts DEF OutsideFault
  <1>18. CASE LostClaim(w)
    BY <1>18, <1>t, <1>d, Moved, Parts DEF LostClaim, Goto
  <1> QED
    BY <1>1, <1>2, <1>3, <1>4, <1>5, <1>6, <1>7, <1>8, <1>9, <1>10, <1>11, <1>12,
       <1>13, <1>14, <1>15, <1>16, <1>17, <1>18
    DEF WorkerStep, Advance, WorkerFault

(* The clock moves only when every thread's heartbeat is back, so the locks *)
(* of the section are full before the tick and one short after it.          *)
LEMMA TickExcludes ==
  ASSUME TypeOK, Exclusion, Tick
  PROVE  Exclusion'
  <1> USE DEF Tick, WorkerTick, WorkersPrompt
  <1>1. \A w \in Workers :
          wpc[w] \in Section => wpc[w] \in Threaded /\ w \notin due
    BY Parts
  <1>2. Claimed'
    BY DEF Exclusion, Claimed
  <1>3. Beating'
    BY DEF Exclusion, Beating
  <1>4. \A w \in Workers : wpc[w] \in Section =>
          job[w] \in Messages /\ lock[At(w)] = LockTtl /\ At(w) \in Audits
    BY <1>1 DEF Exclusion, LockHeld, At, Messages
  <1>5. \A w \in Workers : wpc[w] \in Section => lock'[At(w)] = LockTtl - 1
    BY <1>4, TtlAssumption DEF BusTick
  <1>6. \A w \in Workers : wpc[w] \in Threaded => w \in due'
    BY DEF Exclusion, Beating
  <1>7. LockHeld'
    <2> SUFFICES ASSUME NEW w \in Workers, wpc'[w] \in Section
                 PROVE  /\ job'[w] \in Messages
                        /\ lock'[At(w)'] >= LockTtl - 1
                        /\ wpc'[w] \in Threaded /\ w \notin due' =>
                             lock'[At(w)'] = LockTtl
      BY DEF LockHeld
    <2>1. At(w)' = At(w)
      BY DEF At
    <2> QED
      BY <1>4, <1>5, <1>6, <2>1, TtlAssumption
  <1>8. ExclusiveRun'
    BY DEF Exclusion, ExclusiveRun, At
  <1> QED
    BY <1>2, <1>3, <1>7, <1>8 DEF Exclusion

LEMMA IdleExcludes ==
  ASSUME \A w \in Workers : wpc[w] = "idle", due = {}, dead = {}
  PROVE  Exclusion
  BY Parts DEF Exclusion, Claimed, Beating, LockHeld, ExclusiveRun

LEMMA GoneExcludes == WorkersGone => Exclusion'
  BY Parts DEF WorkersGone, Exclusion, Claimed, Beating, LockHeld, ExclusiveRun

LEMMA RestExcludes ==
  ASSUME Exclusion, UNCHANGED <<workerVars, lock>>
  PROVE  Exclusion'
  BY DEF workerVars, Exclusion, Claimed, Beating, LockHeld, ExclusiveRun, At

LEMMA NextExcludes ==
  ASSUME BeatMayFail = FALSE, TypeOK, Exclusion, [Next]_vars
  PROVE  Exclusion'
  <1> USE DEF busVars, keyVars
  <1>1. ASSUME NEW w \in Workers, Working(w) PROVE Exclusion'
    BY <1>1, WorkerStepExcludes DEF Working
  <1>2. ASSUME NEW c \in Callers, Enqueue(c, Held) PROVE lock' = lock
    BY <1>2 DEF Enqueue, ReadStatus, WriteQueued, AlreadyPending, AddPending, AppendEntry
  <1>3. ASSUME NEW r \in Requests, Serving(r) PROVE Exclusion'
    <2>1. lock' = lock
      BY <1>2, <1>3 DEF Serving, RequestStep, Callers, StartUpload, StartAnswers, Recheck,
         GlossaryBusy, ApplyAnswers, ReleaseGlossary, RequestFault
    <2> QED
      BY <1>3, <2>1, RestExcludes DEF Serving
  <1>4. CASE Tick
    BY <1>4, TickExcludes
  <1>5. ASSUME NEW a \in Audits, SweepLook(a) \/ GrowOld(a) PROVE Exclusion'
    BY <1>5, RestExcludes DEF SweepLook, GrowOld
  <1>6. CASE SweepDelete
    BY <1>6, RestExcludes DEF SweepDelete
  <1>7. CASE StartProcess \/ StartReconcile \/ StartWorkers
    BY <1>7, RestExcludes DEF StartProcess, StartReconcile, StartWorkers
  <1>8. ASSUME NEW a \in Audits, ReconcileSkip(a) \/ ReconcileTake(a) PROVE Exclusion'
    BY <1>8, RestExcludes DEF ReconcileSkip, ReconcileTake
  <1>9. CASE Reconciling
    BY <1>2, <1>9, RestExcludes DEF Reconciling, Callers
  <1>10. CASE Stop \/ Kill \/ PodLost
    BY <1>10, GoneExcludes DEF Stop, Kill, PodLost, GoesDown
  <1>11. CASE UNCHANGED vars
    BY <1>11, RestExcludes DEF vars
  <1> QED
    BY <1>1, <1>3, <1>4, <1>5, <1>6, <1>7, <1>8, <1>9, <1>10, <1>11 DEF Next

LEMMA Excludes ==
  ASSUME BeatMayFail = FALSE
  PROVE  Spec => []Exclusion
  <1>1. Init => Exclusion
    BY IdleExcludes DEF Init, WorkerInit
  <1>2. TypeOK /\ Exclusion /\ [Next]_vars => Exclusion'
    BY NextExcludes
  <1> QED
    BY <1>1, <1>2, Typed, PTL DEF Spec

(* While no heartbeat is refused, no two workers are ever between           *)
(* acquire_audit and release_audit for the same audit: whatever the number  *)
(* of workers, slots, requests and audits, with Redis faults, lost answers, *)
(* stops, kills and pod losses.                                             *)
THEOREM Exclusive ==
  ASSUME BeatMayFail = FALSE
  PROVE  Spec => []ExclusiveRun
  <1>1. Exclusion => ExclusiveRun
    BY DEF Exclusion
  <1> QED
    BY <1>1, Excludes, PTL

(* Under the same condition the lock of a running audit never expires.      *)
THEOREM LockKept ==
  ASSUME BeatMayFail = FALSE
  PROVE  Spec => []LockHeld
  <1>1. Exclusion => LockHeld
    BY DEF Exclusion
  <1> QED
    BY <1>1, Excludes, PTL

-----------------------------------------------------------------------------
(* The cap of running cycles                                                *)
(*                                                                          *)
(* A cycle keeps its member in cf:inflight:run from _SLOT_LUA to            *)
(* release_slot, and the set grows only below its cap.  The set may hold    *)
(* more members than there are cycles: faults and kills leave some behind.  *)

SlotsBound ==
  /\ {w \in Workers : wpc[w] # "idle"} \subseteq slots
  /\ IsFiniteSet(slots)
  /\ Cardinality(slots) <= MaxRun

LEMMA SlotsRest ==
  ASSUME SlotsBound, UNCHANGED slots,
         \A w \in Workers : wpc'[w] # "idle" => wpc[w] # "idle"
  PROVE  SlotsBound'
  BY DEF SlotsBound

LEMMA SlotsShrink ==
  ASSUME SlotsBound, NEW S, slots' = slots \ S,
         \A w \in Workers : wpc'[w] # "idle" => wpc[w] # "idle" /\ w \notin S
  PROVE  SlotsBound'
  <1>1. slots' \subseteq slots
    OBVIOUS
  <1>2. IsFiniteSet(slots') /\ Cardinality(slots') <= Cardinality(slots)
    BY <1>1, FS_Subset DEF SlotsBound
  <1>3. Cardinality(slots') \in Nat /\ Cardinality(slots) \in Nat
    BY <1>2, FS_CardinalityType DEF SlotsBound
  <1>4. {w \in Workers : wpc'[w] # "idle"} \subseteq slots'
    BY DEF SlotsBound
  <1> QED
    BY <1>2, <1>3, <1>4, CapAssumption DEF SlotsBound

LEMMA SlotsGrow ==
  ASSUME WorkerTypeOK, SlotsBound, NEW w \in Workers, TakeSlot(w)
  PROVE  SlotsBound'
  <1>1. slots' = slots \cup {w}
    BY DEF TakeSlot
  <1>2. {v \in Workers : wpc'[v] # "idle"} \subseteq slots'
    BY <1>1 DEF TakeSlot, Goto, SlotsBound, WorkerTypeOK
  <1>3. CASE w \in slots
    <2>1. slots' = slots
      BY <1>1, <1>3
    <2> QED
      BY <1>2, <2>1 DEF SlotsBound
  <1>4. CASE w \notin slots
    <2>1. Cardinality(slots) < MaxRun
      BY <1>4 DEF TakeSlot, SlotGranted
    <2>2. /\ IsFiniteSet(slots') 
          /\ Cardinality(slots') = Cardinality(slots) + 1
          /\ Cardinality(slots) \in Nat
      BY <1>1, <1>4, FS_AddElement, FS_CardinalityType DEF SlotsBound
    <2> QED
      BY <1>2, <2>1, <2>2, CapAssumption DEF SlotsBound
  <1> QED
    BY <1>3, <1>4

(* A worker under way goes on, or comes to rest with its slot released or,  *)
(* after a fault, left behind.                                              *)
LEMMA WorkerStepBounded ==
  ASSUME WorkerTypeOK, SlotsBound, NEW w \in Workers, WorkerStep(w)
  PROVE  SlotsBound'
  <1> USE DEF busVars, keyVars, workerVars
  <1>1. CASE TakeSlot(w)
    BY <1>1, SlotsGrow
  <1>2. CASE ReleaseSlot(w)
    <2>1. \A v \in Workers : wpc'[v] # "idle" => wpc[v] # "idle" /\ v \notin {w}
      BY <1>2 DEF ReleaseSlot, Goto, WorkerTypeOK
    <2> QED
      BY <1>2, <2>1, SlotsShrink DEF ReleaseSlot
  <1>3. ASSUME NEW to, wpc[w] # "idle", wpc' = [wpc EXCEPT ![w] = to], slots' = slots
        PROVE  SlotsBound'
    BY <1>3, SlotsRest DEF WorkerTypeOK
  <1>4. CASE Claim(w) \/ ClaimNothing(w) \/ AcquireAudit(w) \/ AcquireRefused(w)
    BY <1>3, <1>4 DEF Claim, ClaimNothing, AcquireAudit, AcquireRefused, Goto
  <1>5. CASE OwnerMissing(w) \/ StartRun(w) \/ SkipExplain(w) \/ WriteReport(w)
    BY <1>3, <1>5 DEF OwnerMissing, StartRun, SkipExplain, WriteReport, Goto
  <1>6. CASE WriteMeta(w) \/ RunFails(w) \/ SetTerminal(w) \/ BeatErrorRaised(w)
    BY <1>3, <1>6 DEF WriteMeta, RunFails, SetTerminal, BeatErrorRaised, Goto
  <1>7. CASE Acknowledge(w) \/ ForgetPending(w) \/ DropMessage(w) \/ DropPending(w)
             \/ ReleaseAudit(w)
    BY <1>3, <1>7 DEF Acknowledge, ForgetPending, DropMessage, DropPending,
       ReleaseAudit, Goto
  <1>8. CASE EnterStage(w) \/ Beat(w) \/ BeatFails(w)
    BY <1>8, SlotsRest DEF EnterStage, Beat, BeatFails
  <1>9. CASE WorkerFault(w)
    BY <1>3, <1>9 DEF WorkerFault, GuardedFault, OutsideFault, SlotFault, LostClaim,
       LostAcquire, Goto, Guarded
  <1> QED
    BY <1>1, <1>2, <1>4, <1>5, <1>6, <1>7, <1>8, <1>9 DEF WorkerStep, Advance

LEMMA NextBounded ==
  ASSUME TypeOK, SlotsBound, [Next]_vars
  PROVE  SlotsBound'
  <1> USE DEF busVars, keyVars, workerVars
  <1>1. ASSUME NEW w \in Workers, Working(w) PROVE SlotsBound'
    BY <1>1, WorkerStepBounded DEF Working, TypeOK
  <1>2. ASSUME NEW c \in Callers, Enqueue(c, Held) PROVE slots' = slots
    BY <1>2 DEF Enqueue, ReadStatus, WriteQueued, AlreadyPending, AddPending, AppendEntry
  <1>3. ASSUME NEW r \in Requests, Serving(r) PROVE SlotsBound'
    <2>1. slots' = slots
      BY <1>2, <1>3 DEF Serving, RequestStep, Callers, StartUpload, StartAnswers, Recheck,
         GlossaryBusy, ApplyAnswers, ReleaseGlossary, RequestFault
    <2> QED
      BY <1>3, <2>1, SlotsRest DEF Serving
  <1>4. CASE Tick
    BY <1>4, SlotsRest DEF Tick, BusTick, WorkerTick
  <1>5. ASSUME NEW a \in Audits,
               SweepLook(a) \/ GrowOld(a) \/ ReconcileSkip(a) \/ ReconcileTake(a)
        PROVE  SlotsBound'
    BY <1>5, SlotsRest DEF SweepLook, GrowOld, ReconcileSkip, ReconcileTake
  <1>6. CASE SweepDelete \/ StartProcess \/ StartReconcile \/ StartWorkers
    BY <1>6, SlotsRest DEF SweepDelete, StartProcess, StartReconcile, StartWorkers
  <1>7. CASE Reconciling
    BY <1>2, <1>7, SlotsRest DEF Reconciling, Callers
  <1>8. WorkersGone => \A w \in Workers : wpc'[w] = "idle"
    BY DEF WorkersGone
  <1>9. CASE Stop
    BY <1>8, <1>9, SlotsShrink DEF Stop, GoesDown
  <1>10. CASE Kill
    BY <1>8, <1>10, SlotsRest DEF Kill, GoesDown
  <1>11. CASE PodLost
    <2>1. slots' = {}
      BY <1>11 DEF PodLost, BusFlushed
    <2>2. IsFiniteSet(slots') /\ Cardinality(slots') = 0
      BY <2>1, FS_EmptySet
    <2> QED
      BY <1>8, <1>11, <2>2, CapAssumption DEF PodLost, GoesDown, SlotsBound
  <1>12. CASE UNCHANGED vars
    BY <1>12, SlotsRest DEF vars
  <1> QED
    BY <1>1, <1>3, <1>4, <1>5, <1>6, <1>7, <1>9, <1>10, <1>11, <1>12 DEF Next

(* The number of cycles under way never exceeds the cap of run slots, with  *)
(* any number of workers and through every fault, stop, kill and pod loss.  *)
THEOREM SlotsKept == Spec => []RunSlotRespected
  <1>1. Init => SlotsBound
    <2> SUFFICES ASSUME Init PROVE SlotsBound
      OBVIOUS
    <2>1. slots = {} /\ \A w \in Workers : wpc[w] = "idle"
      BY DEF Init, BusInit, WorkerInit
    <2>2. IsFiniteSet(slots) /\ Cardinality(slots) = 0
      BY <2>1, FS_EmptySet
    <2> QED
      BY <2>1, <2>2, CapAssumption DEF SlotsBound
  <1>2. TypeOK /\ SlotsBound /\ [Next]_vars => SlotsBound'
    BY NextBounded
  <1>3. SlotsBound => RunSlotRespected
    <2> SUFFICES ASSUME SlotsBound PROVE RunSlotRespected
      OBVIOUS
    <2> DEFINE Running == {w \in Workers : wpc[w] # "idle"}
    <2>1. /\ IsFiniteSet(Running) /\ Cardinality(Running) <= Cardinality(slots)
          /\ Cardinality(Running) \in Nat /\ Cardinality(slots) \in Nat
      BY FS_Subset, FS_CardinalityType DEF SlotsBound
    <2> QED
      BY <2>1, CapAssumption DEF SlotsBound, RunSlotRespected
  <1> QED
    BY <1>1, <1>2, <1>3, Typed, PTL DEF Spec
=============================================================================
