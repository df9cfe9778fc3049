------------------------- MODULE AuditAnswersProofs -------------------------
(***************************************************************************)
(* Answers and reports (StatusHasReport and FollowsLife of AuditService):  *)
(* with one worker and one request at a time, for any number of audits,    *)
(* whatever the runs end in.                                               *)
(***************************************************************************)
EXTENDS AuditWorkProofs

(* What the theorems ask for.  Each part is needed by one of them at least: *)
(* without it TLC finds a run that loses its files, or a status out of      *)
(* order (README, sections 5 and 6).                                        *)
Alone ==
  /\ MaxFaults = 0 /\ BeatMayFail = FALSE
  /\ Sweeping = FALSE
  /\ \A q, r \in Requests : q = r
  /\ \A v, w \in Workers : v = w
  /\ RestartKinds \subseteq {"pod"}

-----------------------------------------------------------------------------
(* The invariant                                                            *)
(*                                                                          *)
(* The properties say what answers and statuses may not do; they hold       *)
(* because an audit has one entry at most, the worker acknowledges it only  *)
(* after the terminal status, and a caller therefore meets either a job in  *)
(* work, which it leaves alone, or one whose entry will not be run again.   *)

AtJob  == {"claimed", "exec", "run", "publish", "settle", "fail"}

WorksOn(w, a, pcs) == wpc[w] \in pcs /\ At(w) = a

Handled(a) == \E w \in Workers : WorksOn(w, a, AtJob \cup {"xack"})

Closing(a) == \E w \in Workers : WorksOn(w, a, {"xack"})

(* No run of the audit is under way, and none is to come.                   *)
Quiet(a) ==
  /\ \A w \in Workers : ~WorksOn(w, a, AtJob)
  /\ Queued(a) => Closing(a)

(* An entry is delivered once, and an audit has one entry.                  *)
Entries ==
  /\ \A i, j \in 1..Len(stream) : stream[i] = stream[j] => i = j
  /\ InStream \cap pel = {}
  /\ \A m, n \in InStream \cup pel : m.audit = n.audit => m = n

(* What status hash and directory say of each other.                        *)
FilesAgree(a) ==
  /\ ~disk[a].owner => live[a] = "none" /\ ~HasReport(a) /\ ~HasMeta(a)
  /\ disk[a].meta = "ready" => HasReport(a)
  /\ live[a] = "queued" => ~HasReport(a)
  /\ live[a] = "failed" => ~HasReport(a) /\ disk[a].meta = "failed"
  /\ live[a] = "reported" =>
       /\ disk[a].meta # "failed"
       /\ HasReport(a) \/ \E r \in Requests : subject[r] = a /\ rpc[r] \in {"grel", "replace", "hset"}

EntryAgrees(a) ==
  /\ Queued(a) => a \in pending
  /\ Queued(a) => live[a] = "queued" \/ Handled(a)
  /\ lock[a] > 0 => \E w \in Workers : wpc[w] \in Section /\ At(w) = a

RunAgrees(w) ==
  /\ wpc[w] \in {"idle", "slot"} => job[w] = NoMsg
  /\ wpc[w] \notin {"dropack", "dropsrem"}
  /\ wpc[w] \in AtJob \cup {"xack"} => job[w] \in pel
  /\ wpc[w] \in {"claimed", "exec"} => live[At(w)] = "queued"
  /\ wpc[w] \in {"run", "publish", "settle", "fail"} => live[At(w)] = "running"
  /\ wpc[w] \in {"run", "fail"} => ~HasReport(At(w))
  /\ wpc[w] = "fail" => disk[At(w)].meta = "failed"
  /\ wpc[w] \in {"publish", "settle"} => HasReport(At(w))
  /\ wpc[w] = "settle" => disk[At(w)].meta = "ready"
  /\ wpc[w] = "srem" => At(w) \in pending /\ ~Queued(At(w))

CallAgrees(c) ==
  rpc[c] # "idle" =>
    /\ disk[subject[c]].owner
    /\ rpc[c] \in {"glossary", "grel"} => c # Boot
    /\ rpc[c] = "glossary" => ~Active(subject[c]) /\ disk[subject[c]].report = "questions"
    /\ rpc[c] \in {"grel", "replace", "hget", "hset"} =>
         ~Active(subject[c]) /\ ~HasReport(subject[c])
    /\ rpc[c] = "sadd" => live[subject[c]] = "queued" /\ Quiet(subject[c])
    /\ rpc[c] = "xadd" =>
         /\ live[subject[c]] = "queued" /\ Quiet(subject[c])
         /\ subject[c] \in pending /\ ~Queued(subject[c])
         /\ \A w \in Workers : ~WorksOn(w, subject[c], {"srem"})

Agreement ==
  /\ Entries
  /\ \A a \in Audits : FilesAgree(a) /\ EntryAgrees(a)
  /\ \A w \in Workers : RunAgrees(w)
  /\ \A c \in Callers : CallAgrees(c)
  /\ Turns

-----------------------------------------------------------------------------
(* The steps of the worker                                                  *)

(* What the worker is at, said of the only one there is.                    *)
LEMMA OneWorker ==
  ASSUME Alone, NEW w \in Workers, NEW a
  PROVE  /\ Workers = {w}
         /\ Handled(a) <=> WorksOn(w, a, AtJob \cup {"xack"})
         /\ Closing(a) <=> WorksOn(w, a, {"xack"})
         /\ Quiet(a) <=> ~WorksOn(w, a, AtJob) /\ (Queued(a) => WorksOn(w, a, {"xack"}))
<1>1. \A v \in Workers : v = w
  BY DEF Alone
<1> QED
  BY <1>1 DEF Handled, Closing, Quiet

(* A request that meets a job in work has yet to look at it.                *)
LEMMA OnlyRecheck ==
  ASSUME TypeOK, Agreement, NEW w \in Workers, NEW c \in Callers,
         WorksOn(w, subject[c], AtJob),
         rpc'[c] = rpc[c], subject'[c] = subject[c],
         disk'[subject[c]].owner = disk[subject[c]].owner
  PROVE  CallAgrees(c)'
<1>1. Active(subject[c])
  BY DEF Agreement, RunAgrees, WorksOn, AtJob, Active
<1>2. ~Quiet(subject[c])
  BY DEF Quiet
<1>3. rpc[c] \in {"idle", "recheck"}
  BY <1>1, <1>2 DEF Agreement, CallAgrees, ApiSteps, TypeOK, ApiTypeOK
<1> QED
  BY <1>3 DEF Agreement, CallAgrees

LEMMA WorkerAgrees ==
  ASSUME Alone, TypeOK, Agreement, NEW w \in Workers, NEW a \in Audits,
         UNCHANGED <<rpc, subject, app, sweep>>,
         wpc[w] \in Section \cup {"claimed"} => At(w) = a,
         wpc'[w] \in Section \cup {"claimed"} => At(w)' = a,
         \A b \in Audits \ {a} :
           /\ live'[b] = live[b] /\ disk'[b] = disk[b]
           /\ lock'[b] > 0 => lock[b] > 0
           /\ b \in pending' <=> b \in pending
           /\ Queued(b)' <=> Queued(b),
         Entries', FilesAgree(a)', EntryAgrees(a)', RunAgrees(w)',
         \A c \in Callers : subject[c] = a => CallAgrees(c)'
  PROVE  Agreement'
<1> USE DEF AtJob
<1>1. ASSUME NEW b \in Audits \ {a}
      PROVE  /\ Handled(b)' <=> Handled(b)
             /\ Quiet(b)' <=> Quiet(b)
             /\ Active(b)' <=> Active(b)
             /\ HasReport(b)' <=> HasReport(b)
             /\ HasMeta(b)' <=> HasMeta(b)
             /\ ~(\E v \in Workers : wpc[v] \in Section /\ At(v) = b)
  <2>1. /\ ~WorksOn(w, b, AtJob \cup {"xack"}) /\ ~WorksOn(w, b, AtJob \cup {"xack"})'
        /\ ~WorksOn(w, b, AtJob) /\ ~WorksOn(w, b, AtJob)'
        /\ ~WorksOn(w, b, {"xack"}) /\ ~WorksOn(w, b, {"xack"})'
    BY SectionParts DEF WorksOn
  <2>2. \A v \in Workers : v = w
    BY DEF Alone
  <2>3. ~Handled(b) /\ ~Handled(b)' /\ (Quiet(b) <=> ~Queued(b)) /\ (Quiet(b)' <=> ~Queued(b)')
    BY <2>1, <2>2 DEF Handled, Quiet, Closing
  <2> QED
    BY <2>2, <2>3 DEF Active, HasReport, HasMeta
<1>2. ASSUME NEW b \in Audits \ {a} PROVE FilesAgree(b)' /\ EntryAgrees(b)'
  <2>1. FilesAgree(b) /\ EntryAgrees(b)
    BY DEF Agreement
  <2>2. FilesAgree(b)'
    BY <1>1, <2>1 DEF FilesAgree
  <2>3. EntryAgrees(b)'
    BY <1>1, <2>1 DEF EntryAgrees
  <2> QED
    BY <2>2, <2>3
<1>3. ASSUME NEW c \in Callers, subject[c] # a PROVE CallAgrees(c)'
  <2>1. SUFFICES ASSUME rpc[c] # "idle" PROVE CallAgrees(c)'
    BY DEF CallAgrees
  <2>2. PICK b \in Audits \ {a} : b = subject[c]
    BY <1>3, <2>1 DEF TypeOK, ApiTypeOK
  <2>3. ~WorksOn(w, b, {"srem"})'
    BY SectionParts DEF WorksOn
  <2>4. \A v \in Workers : v = w
    BY DEF Alone
  <2> QED
    BY <1>1, <2>2, <2>3, <2>4 DEF Agreement, CallAgrees
<1>4. \A v \in Workers : RunAgrees(v)'
  BY DEF Alone
<1>5. Turns'
  BY DEF Agreement, Turns
<1> QED
  BY <1>2, <1>3, <1>4, <1>5 DEF Agreement

(* Steps that change only the clock, where the process has got to, or a     *)
(* worker without an entry.                                                 *)
LEMMA CalmAgrees ==
  ASSUME TypeOK, Agreement,
         UNCHANGED <<live, stream, pel, pending, disk, rpc, subject, sweep>>,
         \A a \in Audits : lock'[a] > 0 => lock[a] > 0,
         app' = app \/ (\A c \in Callers : rpc[c] = "idle"),
         \A v \in Workers :
           \/ wpc'[v] = wpc[v] /\ job'[v] = job[v]
           \/ /\ wpc[v] \in {"idle", "slot", "unslot"} /\ wpc'[v] \in {"idle", "slot", "unslot"}
              /\ wpc'[v] \in {"idle", "slot"} => job'[v] = NoMsg
  PROVE  Agreement'
<1>w. \A v \in Workers : \A a :
        /\ WorksOn(v, a, AtJob)' <=> WorksOn(v, a, AtJob)
        /\ WorksOn(v, a, {"xack"})' <=> WorksOn(v, a, {"xack"})
        /\ WorksOn(v, a, {"srem"})' <=> WorksOn(v, a, {"srem"})
        /\ WorksOn(v, a, AtJob \cup {"xack"})' <=> WorksOn(v, a, AtJob \cup {"xack"})
        /\ wpc[v] \in Section /\ At(v) = a => wpc'[v] \in Section /\ At(v)' = a
  BY SectionParts DEF WorksOn, AtJob, At
<1>1. \A a : /\ Queued(a)' <=> Queued(a)
             /\ Active(a)' <=> Active(a)
             /\ HasReport(a)' <=> HasReport(a)
             /\ HasMeta(a)' <=> HasMeta(a)
  BY DEF Queued, InStream, Active, HasReport, HasMeta
<1>2. \A a : (Handled(a)' <=> Handled(a)) /\ (Quiet(a)' <=> Quiet(a))
  <2> SUFFICES ASSUME NEW a PROVE (Handled(a)' <=> Handled(a)) /\ (Quiet(a)' <=> Quiet(a))
    OBVIOUS
  <2>1. Closing(a)' <=> Closing(a)
    BY <1>w DEF Closing
  <2>2. Handled(a)' <=> Handled(a)
    BY <1>w DEF Handled
  <2>3. Quiet(a)' <=> Quiet(a)
    BY <1>w, <1>1, <2>1 DEF Quiet
  <2> QED
    BY <2>2, <2>3
<1>3. Entries'
  BY DEF Agreement, Entries, InStream
<1>4. ASSUME NEW a \in Audits PROVE FilesAgree(a)' /\ EntryAgrees(a)'
  <2>1. FilesAgree(a) /\ EntryAgrees(a)
    BY DEF Agreement
  <2>2. FilesAgree(a)'
    BY <1>1, <2>1 DEF FilesAgree
  <2>3. lock'[a] > 0 => \E v \in Workers : wpc'[v] \in Section /\ At(v)' = a
    BY <1>w, <2>1 DEF EntryAgrees
  <2> QED
    BY <1>1, <1>2, <2>1, <2>2, <2>3 DEF EntryAgrees
<1>5. ASSUME NEW v \in Workers PROVE RunAgrees(v)'
  <2>1. RunAgrees(v)
    BY DEF Agreement
  <2>2. CASE wpc'[v] = wpc[v] /\ job'[v] = job[v]
    <3>1. At(v)' = At(v)
      BY <2>2 DEF At
    <3> QED
      BY <1>1, <2>1, <2>2, <3>1 DEF RunAgrees, AtJob
  <2>3. CASE wpc'[v] \in {"idle", "slot", "unslot"} /\ (wpc'[v] \in {"idle", "slot"} => job'[v] = NoMsg)
    BY <2>3 DEF RunAgrees, AtJob
  <2> QED
    BY <2>2, <2>3
<1>6. ASSUME NEW c \in Callers PROVE CallAgrees(c)'
  BY <1>w, <1>1, <1>2 DEF Agreement, CallAgrees
<1>7. Turns'
  BY DEF Agreement, Turns, Callers
<1> QED
  BY <1>3, <1>4, <1>5, <1>6, <1>7 DEF Agreement

(* A step of the worker that is at the job of a.                            *)
LEMMA JobAgrees ==
  ASSUME Alone, TypeOK, Agreement, NEW w \in Workers, NEW a \in Audits,
         a = At(w), wpc[w] \in AtJob,
         NEW to \in {"exec", "run", "publish", "settle", "fail", "xack"},
         wpc' = [wpc EXCEPT ![w] = to],
         UNCHANGED <<rpc, subject, app, sweep, job, queueVars>>,
         \A b \in Audits \ {a} :
           live'[b] = live[b] /\ disk'[b] = disk[b] /\ lock'[b] = lock[b],
         disk'[a].owner = disk[a].owner,
         FilesAgree(a)',
         to = "exec" => live'[a] = "queued",
         to \in {"run", "publish", "settle", "fail"} => live'[a] = "running",
         to \in {"run", "fail"} => ~HasReport(a)',
         to = "fail" => disk'[a].meta = "failed",
         to \in {"publish", "settle"} => HasReport(a)',
         to = "settle" => disk'[a].meta = "ready"
  PROVE  Agreement'
<1>1. /\ wpc'[w] = to /\ job'[w] = job[w] /\ At(w)' = a
      /\ UNCHANGED <<stream, pel, idle, pending>>
  BY DEF TypeOK, WorkerTypeOK, queueVars, At
<1>2. to \in Section
  BY SectionParts
<1>3. \A b : Queued(b)' <=> Queued(b)
  BY <1>1 DEF Queued, InStream
<1>4. Entries'
  BY <1>1 DEF Agreement, Entries, InStream
<1>5. EntryAgrees(a)'
  <2>1. EntryAgrees(a)
    BY DEF Agreement
  <2>2. Handled(a)' /\ \E v \in Workers : wpc'[v] \in Section /\ At(v)' = a
    BY <1>1, <1>2 DEF Handled, WorksOn, AtJob
  <2> QED
    BY <1>1, <1>3, <2>1, <2>2 DEF EntryAgrees
<1>6. RunAgrees(w)'
  <2>1. job[w] \in pel
    BY DEF Agreement, RunAgrees
  <2> QED
    BY <1>1, <2>1 DEF RunAgrees, AtJob
<1>7. \A c \in Callers : subject[c] = a => CallAgrees(c)'
  BY OnlyRecheck DEF WorksOn
<1> QED
  BY <1>1, <1>3, <1>4, <1>5, <1>6, <1>7, WorkerAgrees

(* Delivery moves the oldest entry from the stream to the pending list.     *)
LEMMA EntriesClaimed ==
  ASSUME TypeOK, Entries, NEW m \in Messages, XAutoClaim(m) \/ XReadGroup(m)
  PROVE  Entries'
<1>1. CASE XAutoClaim(m)
  BY <1>1 DEF XAutoClaim, Entries, InStream
<1>2. CASE XReadGroup(m)
  <2>1. /\ stream \in Seq(Messages) /\ stream # <<>>
        /\ m = Head(stream) /\ stream' = Tail(stream) /\ pel' = pel \cup {m}
    BY <1>2 DEF XReadGroup, TypeOK, BusTypeOK
  <2>2. /\ Len(stream) \in Nat \ {0} /\ m = stream[1]
        /\ Len(stream') = Len(stream) - 1
        /\ \A i \in 1..(Len(stream) - 1) : stream'[i] = stream[i + 1]
    BY <2>1
  <2>3. \A i, j \in 1..Len(stream') : stream'[i] = stream'[j] => i = j
    <3> SUFFICES ASSUME NEW i \in 1..Len(stream'), NEW j \in 1..Len(stream'),
                        stream'[i] = stream'[j]
                 PROVE  i = j
      OBVIOUS
    <3>1. i + 1 \in 1..Len(stream) /\ j + 1 \in 1..Len(stream) /\ stream[i + 1] = stream[j + 1]
      BY <2>2
    <3>2. i + 1 = j + 1
      BY <3>1 DEF Entries
    <3> QED
      BY <3>2
  <2>4. m \notin InStream'
    <3> SUFFICES ASSUME NEW i \in 1..Len(stream'), stream'[i] = m PROVE FALSE
      BY DEF InStream
    <3>1. i + 1 \in 1..Len(stream) /\ 1 \in 1..Len(stream) /\ stream[i + 1] = stream[1] /\ i \in 1..Len(stream')
      BY <2>2
    <3>2. i + 1 = 1
      BY <3>1 DEF Entries
    <3> QED
      BY <3>1, <3>2
  <2>5. InStream' \cup pel' = InStream \cup pel /\ InStream' \subseteq InStream
    <3>1. InStream' \cup pel' = InStream \cup pel
      BY <1>2, Claiming
    <3>2. InStream' \subseteq InStream
      <4> SUFFICES ASSUME NEW i \in 1..Len(stream') PROVE stream'[i] \in InStream
        BY DEF InStream
      <4>1. i + 1 \in 1..Len(stream) /\ stream'[i] = stream[i + 1]
        BY <2>2
      <4> QED
        BY <4>1 DEF InStream
    <3> QED
      BY <3>1, <3>2
  <2> QED
    BY <2>1, <2>3, <2>4, <2>5 DEF Entries
<1> QED
  BY <1>1, <1>2

(* The worker takes an entry that nobody works on, of a job that is queued. *)
LEMMA ClaimAgrees ==
  ASSUME Alone, TypeOK, Agreement, NEW w \in Workers, Claim(w),
         UNCHANGED <<rpc, subject, app, sweep>>
  PROVE  Agreement'
<1>1. PICK m \in Messages : (XAutoClaim(m) \/ XReadGroup(m)) /\ job' = [job EXCEPT ![w] = m]
  BY DEF Claim
<1>2. PICK a \in Audits : a = m.audit
  BY DEF Messages
<1>3. InStream' \cup pel' = InStream \cup pel /\ m \in InStream \cup pel /\ m \in pel'
  BY <1>1, Claiming
<1>4. \A b : Queued(b)' <=> Queued(b)
  BY <1>3 DEF Queued
<1>5. Queued(a) /\ m # NoMsg
  BY <1>2, <1>3, NoMsgAssumption DEF Queued
<1>6. /\ wpc[w] = "slot" /\ wpc'[w] = "claimed" /\ job'[w] = m /\ At(w)' = a
      /\ UNCHANGED <<live, pending, lock, disk>>
  BY <1>1, <1>2 DEF Claim, Goto, TypeOK, WorkerTypeOK, keyVars, At
<1>7. \A b : ~WorksOn(w, b, AtJob) /\ ~WorksOn(w, b, {"xack"})
             /\ ~WorksOn(w, b, AtJob \cup {"xack"})
  BY <1>6 DEF WorksOn, AtJob
<1>8. live[a] = "queued" /\ a \in pending /\ lock[a] = 0 /\ ~HasReport(a)
  <2>1. ~Handled(a)
    BY <1>7, OneWorker
  <2>2. EntryAgrees(a) /\ FilesAgree(a) /\ lock[a] \in Nat
    BY DEF Agreement, TypeOK, BusTypeOK
  <2>3. \A v \in Workers : v = w
    BY DEF Alone
  <2>4. ~(lock[a] > 0)
    BY <1>6, <2>2, <2>3, SectionParts DEF EntryAgrees
  <2>5. lock[a] = 0
    BY <2>2, <2>4
  <2> QED
    BY <1>5, <2>1, <2>2, <2>5 DEF EntryAgrees, FilesAgree
<1>9. Entries'
  BY <1>1, EntriesClaimed DEF Agreement
<1>10. FilesAgree(a)'
  BY <1>6 DEF Agreement, FilesAgree, HasReport, HasMeta
<1>11. EntryAgrees(a)'
  BY <1>6, <1>8 DEF EntryAgrees
<1>12. RunAgrees(w)'
  BY <1>3, <1>6, <1>8 DEF RunAgrees, AtJob
<1>13. ASSUME NEW c \in Callers, subject[c] = a PROVE CallAgrees(c)'
  <2>1. Active(a) /\ ~Quiet(a)
    BY <1>5, <1>7, <1>8, OneWorker DEF Active
  <2>2. rpc[c] \in {"idle", "recheck"}
    BY <1>13, <2>1 DEF Agreement, CallAgrees, TypeOK, ApiTypeOK, ApiSteps
  <2> QED
    BY <1>6, <2>2 DEF Agreement, CallAgrees
<1>14. wpc[w] \notin Section \cup {"claimed"}
  BY <1>6, SectionParts
<1> QED
  BY <1>4, <1>6, <1>9, <1>10, <1>11, <1>12, <1>13, <1>14, WorkerAgrees

(* The job is over and its entry goes; then the audit may be queued again.  *)
LEMMA AckAgrees ==
  ASSUME Alone, TypeOK, Agreement, NEW w \in Workers, NEW a \in Audits, a = At(w),
         Acknowledge(w), UNCHANGED <<rpc, subject, app, sweep>>
  PROVE  Agreement'
<1>1. /\ wpc[w] = "xack" /\ wpc'[w] = "srem" /\ job'[w] = job[w] /\ At(w)' = a
      /\ pel' = pel \ {job[w]}
      /\ UNCHANGED <<live, stream, pending, lock, disk>>
  BY DEF Acknowledge, XAck, Goto, TypeOK, WorkerTypeOK, keyVars, At
<1>2. job[w] \in pel /\ job[w].audit = a
  BY <1>1 DEF Agreement, RunAgrees, At
<1>3. Entries' /\ ~Queued(a)'
  BY <1>1, <1>2 DEF Agreement, Entries, InStream, Queued
<1>4. \A b \in Audits \ {a} : Queued(b)' <=> Queued(b)
  BY <1>1, <1>2 DEF Queued, InStream
<1>5. Queued(a) /\ a \in pending
  BY <1>2 DEF Queued, Agreement, EntryAgrees
<1>6. FilesAgree(a)'
  BY <1>1 DEF Agreement, FilesAgree, HasReport, HasMeta
<1>7. EntryAgrees(a)'
  <2>1. \E v \in Workers : wpc'[v] \in Section /\ At(v)' = a
    BY <1>1, SectionParts
  <2> QED
    BY <1>3, <2>1 DEF EntryAgrees
<1>8. RunAgrees(w)'
  BY <1>1, <1>3, <1>5 DEF RunAgrees, AtJob
<1>9. ASSUME NEW c \in Callers, subject[c] = a PROVE CallAgrees(c)'
  <2>1. CallAgrees(c) /\ rpc[c] # "xadd"
    BY <1>5, <1>9 DEF Agreement, CallAgrees
  <2>2. Quiet(a)'
    <3>1. \A v \in Workers : v = w
      BY DEF Alone
    <3> QED
      BY <1>1, <1>3, <3>1 DEF Quiet, WorksOn, AtJob
  <2>3. (Active(a)' <=> Active(a)) /\ (HasReport(a)' <=> HasReport(a))
    BY <1>1 DEF Active, HasReport
  <2> QED
    BY <1>1, <1>9, <2>1, <2>2, <2>3 DEF CallAgrees
<1> QED
  BY <1>1, <1>3, <1>4, <1>6, <1>7, <1>8, <1>9, WorkerAgrees

LEMMA ForgetAgrees ==
  ASSUME Alone, TypeOK, Agreement, NEW w \in Workers, NEW a \in Audits, a = At(w),
         ForgetPending(w) \/ ReleaseAudit(w), UNCHANGED <<rpc, subject, app, sweep>>
  PROVE  Agreement'
<1>1. /\ \/ /\ wpc[w] = "srem" /\ wpc'[w] = "unlock"
            /\ pending' = pending \ {a} /\ lock' = lock
         \/ /\ wpc[w] = "unlock" /\ wpc'[w] = "unslot"
            /\ pending' = pending /\ lock' = [lock EXCEPT ![a] = 0]
      /\ job'[w] = job[w] /\ At(w)' = a
      /\ UNCHANGED <<live, stream, pel, disk>>
  BY DEF ForgetPending, ReleaseAudit, Unlock, Goto, TypeOK, WorkerTypeOK, queueVars, keyVars, At
<1>2. \A b : Queued(b)' <=> Queued(b)
  BY <1>1 DEF Queued, InStream
<1>3. /\ \A b \in Audits \ {a} : (lock'[b] = lock[b]) /\ (b \in pending' <=> b \in pending)
      /\ wpc[w] = "unlock" => lock'[a] = 0
  BY <1>1 DEF TypeOK, BusTypeOK
<1>4. Entries'
  BY <1>1 DEF Agreement, Entries, InStream
<1>5. FilesAgree(a)'
  BY <1>1 DEF Agreement, FilesAgree, HasReport, HasMeta
<1>6. EntryAgrees(a)'
  <2>1. EntryAgrees(a) /\ (wpc[w] = "srem" => ~Queued(a)) /\ \A v \in Workers : v = w
    BY DEF Agreement, RunAgrees, Alone
  <2>2. ~Handled(a)
    BY <1>1, OneWorker DEF WorksOn, AtJob
  <2>3. wpc[w] = "srem" => \E v \in Workers : wpc'[v] \in Section /\ At(v)' = a
    BY <1>1, SectionParts
  <2>4. ~(0 > 0)
    OBVIOUS
  <2> QED
    BY <1>1, <1>2, <1>3, <2>1, <2>2, <2>3, <2>4 DEF EntryAgrees
<1>7. RunAgrees(w)'
  BY <1>1 DEF RunAgrees, AtJob
<1>8. ASSUME NEW c \in Callers, subject[c] = a PROVE CallAgrees(c)'
  <2>1. CallAgrees(c) /\ (wpc[w] = "srem" => rpc[c] # "xadd") /\ \A v \in Workers : v = w
    BY <1>8 DEF Agreement, CallAgrees, WorksOn, Alone
  <2>2. /\ Quiet(a) => Quiet(a)'
        /\ \A v \in Workers : ~WorksOn(v, a, {"srem"})'
    BY <1>1, <1>2, <2>1 DEF Quiet, WorksOn, AtJob, Closing
  <2>3. (Active(a)' <=> Active(a)) /\ (HasReport(a)' <=> HasReport(a))
    BY <1>1 DEF Active, HasReport
  <2>4. wpc[w] = "unlock" => pending' = pending
    BY <1>1
  <2> QED
    BY <1>1, <1>2, <1>8, <2>1, <2>2, <2>3, <2>4 DEF CallAgrees
<1> QED
  BY <1>1, <1>2, <1>3, <1>4, <1>5, <1>6, <1>7, <1>8, WorkerAgrees

LEMMA WorkingAgrees ==
  ASSUME Alone, TypeOK, Agreement, Exclusion, NEW w \in Workers, Working(w)
  PROVE  Agreement'
<1> USE DEF Working, apiVars, lifeVars, busVars, queueVars, keyVars
<1>0. UNCHANGED <<rpc, subject, app, sweep>>
  OBVIOUS
<1>w. RunAgrees(w) /\ w \notin dead /\ (w \in due => wpc[w] \in Threaded)
  BY DEF Agreement, Exclusion, Beating
<1>t. /\ wpc \in [Workers -> Section \cup Outside]
      /\ job \in [Workers -> Messages \cup {NoMsg}]
      /\ live \in [Audits -> Statuses]
      /\ lock \in [Audits -> 0..LockTtl]
      /\ disk \in [Audits -> Folder]
  BY DEF TypeOK, WorkerTypeOK, BusTypeOK, StoreTypeOK
<1>c. wpc[w] \in Section \cup {"claimed"} => \E a \in Audits : a = At(w) /\ FilesAgree(a)
  BY Carriers DEF Agreement
<1>1. CASE TakeSlot(w) \/ ClaimNothing(w) \/ ReleaseSlot(w)
  <2>1. /\ \A v \in Workers \ {w} : wpc'[v] = wpc[v] /\ job'[v] = job[v]
        /\ wpc[w] \in {"idle", "slot", "unslot"} /\ wpc'[w] \in {"idle", "slot", "unslot"}
        /\ wpc'[w] \in {"idle", "slot"} => job'[w] = NoMsg
        /\ UNCHANGED <<live, queueVars, lock, disk>>
    BY <1>1, <1>t, <1>w DEF TakeSlot, ClaimNothing, ReleaseSlot, Goto, RunAgrees
  <2> QED
    BY <1>0, <2>1, CalmAgrees
<1>2. CASE Claim(w)
  BY <1>0, <1>2, ClaimAgrees
<1>3. ~AcquireRefused(w)
  <2> SUFFICES ASSUME AcquireRefused(w) PROVE FALSE
    OBVIOUS
  <2>1. wpc[w] = "claimed" /\ lock[At(w)] > 0
    BY DEF AcquireRefused, Goto
  <2>2. At(w) \in Audits
    BY <1>c, <2>1
  <2>3. PICK v \in Workers : wpc[v] \in Section
    BY <2>1, <2>2 DEF Agreement, EntryAgrees
  <2> QED
    BY <2>1, <2>3, SectionParts DEF Alone
<1>4. ~OwnerMissing(w)
  <2> SUFFICES ASSUME OwnerMissing(w) PROVE FALSE
    OBVIOUS
  <2>1. wpc[w] = "exec" /\ ~disk[At(w)].owner
    BY DEF OwnerMissing, Goto
  <2> QED
    BY <1>c, <1>w, <2>1, SectionParts DEF FilesAgree, RunAgrees
<1>5. CASE AcquireAudit(w)
  <2>0. wpc[w] = "claimed"
    BY <1>5 DEF AcquireAudit, Goto
  <2>1. PICK a \in Audits : a = At(w) /\ FilesAgree(a)
    BY <1>c, <2>0
  <2>2. /\ wpc' = [wpc EXCEPT ![w] = "exec"]
        /\ \A b \in Audits \ {a} : lock'[b] = lock[b]
        /\ UNCHANGED <<live, queueVars, job, disk>>
    BY <1>5, <1>t, <2>1 DEF AcquireAudit, TryLock, Goto
  <2>3. FilesAgree(a)' /\ live'[a] = "queued"
    BY <1>0, <1>w, <2>0, <2>1, <2>2 DEF FilesAgree, HasReport, HasMeta, RunAgrees
  <2> QED
    BY <1>0, <2>0, <2>1, <2>2, <2>3, JobAgrees DEF AtJob
<1>6. CASE StartRun(w) \/ EnterStage(w)
  <2>0. wpc[w] \in {"exec", "run"} /\ wpc[w] \in Section /\ wpc[w] \in AtJob
    BY <1>6, SectionParts DEF StartRun, EnterStage, Goto, AtJob
  <2>1. PICK a \in Audits : a = At(w) /\ FilesAgree(a)
    BY <1>c, <2>0
  <2>2. /\ wpc' = [wpc EXCEPT ![w] = "run"]
        /\ UNCHANGED <<queueVars, job, disk>>
    BY <1>6, <1>t DEF StartRun, EnterStage, Goto, workerVars
  <2>3. /\ \A b \in Audits \ {a} : live'[b] = live[b] /\ lock'[b] = lock[b]
        /\ live'[a] = "running"
    BY <1>6, <1>t, <2>1 DEF StartRun, EnterStage, SetProgress, SetStatus, Touched
  <2>4. ~HasReport(a) /\ disk[a].owner
    BY <1>w, <2>0, <2>1 DEF RunAgrees, FilesAgree
  <2>5. FilesAgree(a)' /\ ~HasReport(a)'
    BY <2>1, <2>2, <2>3, <2>4 DEF FilesAgree, HasReport, HasMeta
  <2> QED
    BY <1>0, <2>0, <2>1, <2>2, <2>3, <2>5, JobAgrees
<1>7. CASE Beat(w)
  <2>0. wpc[w] \in {"run", "publish"} /\ wpc[w] \in Section /\ wpc[w] \in AtJob
    BY <1>7, <1>w, SectionParts DEF Beat, AtJob
  <2>1. PICK a \in Audits : a = At(w) /\ FilesAgree(a)
    BY <1>c, <2>0
  <2>2. /\ wpc' = [wpc EXCEPT ![w] = wpc[w]] /\ UNCHANGED <<live, queueVars, job, disk>>
        /\ \A b \in Audits \ {a} : lock'[b] = lock[b]
    BY <1>7, <1>t, <2>1 DEF Beat, Touched
  <2>3. /\ FilesAgree(a)' /\ live'[a] = "running"
        /\ wpc[w] = "run" => ~HasReport(a)'
        /\ wpc[w] = "publish" => HasReport(a)'
    BY <1>0, <1>w, <2>0, <2>1, <2>2 DEF FilesAgree, HasReport, HasMeta, RunAgrees
  <2> QED
    BY <1>0, <2>0, <2>1, <2>2, <2>3, JobAgrees
<1>8. ~SkipExplain(w)
  <2> SUFFICES ASSUME SkipExplain(w) PROVE FALSE
    OBVIOUS
  <2>1. wpc[w] = "run" /\ HasReport(At(w))
    BY DEF SkipExplain, Goto, Complete
  <2> QED
    BY <1>w, <2>1 DEF RunAgrees
<1>9. CASE WriteReport(w)
  <2>0. wpc[w] = "run" /\ wpc[w] \in Section /\ wpc[w] \in AtJob
    BY <1>9, SectionParts DEF WriteReport, Goto, AtJob
  <2>1. PICK a \in Audits : a = At(w) /\ FilesAgree(a)
    BY <1>c, <2>0
  <2>2. /\ wpc' = [wpc EXCEPT ![w] = "publish"]
        /\ UNCHANGED <<live, lock, queueVars, job>>
    BY <1>9 DEF WriteReport, Goto
  <2>3. PICK r \in Outcomes : disk' = [disk EXCEPT ![a].report = r, ![a].old = FALSE]
    BY <1>9, <2>1 DEF WriteReport, Published
  <2>4. /\ \A b \in Audits \ {a} : disk'[b] = disk[b]
        /\ disk'[a].owner = disk[a].owner /\ disk'[a].report \in {"clean", "questions"}
    BY <1>t, <2>1, <2>3, OutcomeAssumption DEF Folder
  <2>5. live[a] = "running" /\ disk[a].owner /\ HasReport(a)'
    BY <1>w, <2>0, <2>1, <2>4 DEF RunAgrees, FilesAgree, HasReport
  <2>6. FilesAgree(a)'
    BY <2>2, <2>4, <2>5 DEF FilesAgree
  <2> QED
    BY <1>0, <2>0, <2>1, <2>2, <2>4, <2>5, <2>6, JobAgrees
<1>10. CASE WriteMeta(w) \/ RunFails(w)
  <2>0. wpc[w] \in {"run", "publish"} /\ wpc[w] \in Section /\ wpc[w] \in AtJob
    BY <1>10, SectionParts DEF WriteMeta, RunFails, Goto, AtJob
  <2>1. PICK a \in Audits : a = At(w) /\ FilesAgree(a)
    BY <1>c, <2>0
  <2>2. PICK to \in {"settle", "fail"}, m \in {"ready", "failed"} :
          /\ wpc' = [wpc EXCEPT ![w] = to]
          /\ disk' = [disk EXCEPT ![a].meta = m, ![a].old = FALSE]
          /\ to = "settle" => wpc[w] = "publish" /\ m = "ready"
          /\ to = "fail" => wpc[w] = "run" /\ m = "failed"
    BY <1>10, <2>1 DEF WriteMeta, RunFails, Goto, Committed
  <2>3. UNCHANGED <<live, lock, queueVars, job>>
    BY <1>10 DEF WriteMeta, RunFails
  <2>4. /\ \A b \in Audits \ {a} : disk'[b] = disk[b]
        /\ disk'[a].owner = disk[a].owner /\ disk'[a].report = disk[a].report
        /\ disk'[a].meta = m
    BY <1>t, <2>1, <2>2 DEF Folder
  <2>5. /\ live[a] = "running" /\ disk[a].owner
        /\ to = "settle" => HasReport(a)
        /\ to = "fail" => ~HasReport(a)
    BY <1>w, <2>0, <2>1, <2>2 DEF RunAgrees, FilesAgree
  <2>6. HasReport(a)' <=> HasReport(a)
    BY <2>4 DEF HasReport
  <2>7. FilesAgree(a)'
    BY <2>2, <2>3, <2>4, <2>5, <2>6 DEF FilesAgree
  <2> QED
    BY <1>0, <2>0, <2>1, <2>2, <2>3, <2>4, <2>5, <2>6, <2>7, JobAgrees
<1>11. CASE SetTerminal(w)
  <2>0. wpc[w] \in {"settle", "fail"} /\ wpc[w] \in Section /\ wpc[w] \in AtJob
    BY <1>11, SectionParts DEF SetTerminal, AtJob
  <2>1. PICK a \in Audits : a = At(w) /\ FilesAgree(a)
    BY <1>c, <2>0
  <2>2. /\ wpc' = [wpc EXCEPT ![w] = "xack"]
        /\ live' = [live EXCEPT ![a] = IF wpc[w] = "settle" THEN "reported" ELSE "failed"]
        /\ UNCHANGED <<lock, queueVars, job, disk>>
    BY <1>11, <2>1 DEF SetTerminal, SetStatus
  <2>3. /\ \A b \in Audits \ {a} : live'[b] = live[b]
        /\ live'[a] = IF wpc[w] = "settle" THEN "reported" ELSE "failed"
    BY <1>t, <2>1, <2>2
  <2>4. /\ disk[a].owner
        /\ wpc[w] = "settle" => HasReport(a) /\ disk[a].meta = "ready"
        /\ wpc[w] = "fail" => ~HasReport(a) /\ disk[a].meta = "failed"
    BY <1>w, <2>0, <2>1 DEF RunAgrees, FilesAgree
  <2>5. FilesAgree(a)'
    BY <1>w, <2>0, <2>1, <2>2, <2>3, <2>4 DEF FilesAgree, HasReport
  <2> QED
    BY <1>0, <2>0, <2>1, <2>2, <2>3, <2>5, JobAgrees
<1>12. CASE Acknowledge(w) \/ ForgetPending(w) \/ ReleaseAudit(w)
  <2>0. wpc[w] \in Section
    BY <1>12, SectionParts DEF Acknowledge, ForgetPending, ReleaseAudit, Goto
  <2>1. PICK a \in Audits : a = At(w)
    BY <1>c, <2>0
  <2> QED
    BY <1>0, <1>12, <2>1, AckAgrees, ForgetAgrees
<1>13. ~DropMessage(w) /\ ~DropPending(w)
  BY <1>w DEF DropMessage, DropPending, Goto, RunAgrees
<1>14. ~BeatErrorRaised(w) /\ ~BeatFails(w)
  BY <1>w DEF Alone, BeatErrorRaised, BeatFails
<1>15. ~WorkerFault(w)
  BY DEF Alone, TypeOK, BusTypeOK, WorkerFault, GuardedFault, OutsideFault, SlotFault, LostClaim,
     LostAcquire, CountFault
<1> QED
  BY <1>1, <1>2, <1>3, <1>4, <1>5, <1>6, <1>7, <1>8, <1>9, <1>10, <1>11, <1>12,
     <1>13, <1>14, <1>15 DEF WorkerStep, Advance

-----------------------------------------------------------------------------
(* The steps of a caller, who is the only one under way                     *)

LEMMA CallerAgrees ==
  ASSUME TypeOK, Agreement, NEW c \in Callers, NEW a \in Audits,
         \A d \in Callers \ {c} : rpc[d] = "idle" /\ rpc'[d] = "idle",
         rpc[c] # "idle" => subject[c] = a,
         rpc'[c] # "idle" => subject'[c] = a,
         UNCHANGED <<wpc, job, lock, pel>>,
         \A b \in Audits \ {a} :
           /\ live'[b] = live[b] /\ disk'[b] = disk[b]
           /\ b \in pending' <=> b \in pending
           /\ Queued(b)' <=> Queued(b),
         Entries', FilesAgree(a)', EntryAgrees(a)', CallAgrees(c)', Turns',
         \A v \in Workers :
           wpc[v] \in AtJob \cup {"xack", "srem"} /\ At(v) = a => RunAgrees(v)'
  PROVE  Agreement'
<1>1. \A b \in Audits \ {a} : /\ Handled(b)' <=> Handled(b)
                              /\ HasReport(b)' <=> HasReport(b)
                              /\ HasMeta(b)' <=> HasMeta(b)
  BY DEF Handled, WorksOn, At, HasReport, HasMeta
<1>2. ASSUME NEW b \in Audits \ {a} PROVE FilesAgree(b)'
  <2>1. ASSUME NEW r \in Requests, subject[r] = b, rpc[r] \in {"grel", "replace", "hset"}
        PROVE  FALSE
    BY <2>1 DEF Callers
  <2>2. FilesAgree(b)
    BY DEF Agreement
  <2> QED
    BY <1>1, <2>1, <2>2 DEF FilesAgree
<1>3. ASSUME NEW b \in Audits \ {a} PROVE EntryAgrees(b)'
  <2>1. EntryAgrees(b)
    BY DEF Agreement
  <2>2. lock'[b] > 0 => \E v \in Workers : wpc'[v] \in Section /\ At(v)' = b
    BY <2>1 DEF EntryAgrees, At
  <2> QED
    BY <1>1, <2>1, <2>2 DEF EntryAgrees
<1>4. ASSUME NEW v \in Workers PROVE RunAgrees(v)'
  <2>1. RunAgrees(v) /\ wpc'[v] = wpc[v] /\ job'[v] = job[v] /\ At(v)' = At(v)
    BY DEF Agreement, At
  <2>2. CASE wpc[v] \notin AtJob \cup {"xack", "srem"}
    BY <2>1, <2>2 DEF RunAgrees, AtJob
  <2>3. CASE wpc[v] \in AtJob \cup {"xack", "srem"} /\ At(v) \in Audits
    <3>1. CASE At(v) = a
      BY <2>3, <3>1
    <3>2. CASE At(v) # a
      BY <1>1, <2>1, <2>3, <3>2 DEF RunAgrees, AtJob
    <3> QED
      BY <3>1, <3>2
  <2>4. wpc[v] \in AtJob \cup {"xack", "srem"} => At(v) \in Audits
    <3>1. wpc[v] \in AtJob \cup {"xack"} => job[v] \in Messages
      BY <2>1 DEF RunAgrees, TypeOK, BusTypeOK
    <3>2. wpc[v] = "srem" => At(v) \in pending
      BY <2>1 DEF RunAgrees
    <3>3. pending \subseteq Audits
      BY DEF TypeOK, BusTypeOK
    <3> QED
      BY <3>1, <3>2, <3>3 DEF Messages, At
  <2> QED
    BY <2>2, <2>3, <2>4
<1>5. ASSUME NEW d \in Callers PROVE CallAgrees(d)'
  <2>1. d = c \/ rpc'[d] = "idle"
    OBVIOUS
  <2> QED
    BY <2>1 DEF CallAgrees
<1>6. \A b \in Audits : FilesAgree(b)' /\ EntryAgrees(b)'
  BY <1>2, <1>3
<1> QED
  BY <1>4, <1>5, <1>6 DEF Agreement

(* mark_queued and enqueue.                                                 *)
LEMMA EnqueueAgrees ==
  ASSUME TypeOK, Agreement, NEW c \in Callers, Enqueue(c, Held),
         \A d \in Callers \ {c} : rpc[d] = "idle",
         UNCHANGED <<workerVars, app, sweep>>,
         (app = "up" /\ c \in Requests) \/ (app = "boot" /\ c = Boot)
  PROVE  Agreement'
<1> USE DEF workerVars, busVars, queueVars, keyVars
<1>t. /\ rpc \in [Callers -> ApiSteps]
      /\ subject \in [Callers -> Audits \cup {NoAudit}]
      /\ live \in [Audits -> Statuses]
      /\ \A d \in Callers : rpc[d] # "idle" => subject[d] \in Audits
  BY DEF TypeOK, ApiTypeOK, BusTypeOK
<1>0. rpc[c] \in {"hget", "replace", "hset", "sadd", "xadd"}
  BY DEF Enqueue, ReadStatus, WriteQueued, AlreadyPending, AddPending, AppendEntry, Proceeds
<1>1. PICK a \in Audits : a = subject[c]
  BY <1>0, <1>t
<1>2. CallAgrees(c) /\ FilesAgree(a) /\ EntryAgrees(a) /\ disk[a].owner
  BY <1>0, <1>1 DEF Agreement, CallAgrees
<1>3. /\ rpc' = [rpc EXCEPT ![c] = rpc'[c]]
      /\ subject'[c] = a \/ rpc'[c] = "idle"
      /\ UNCHANGED <<wpc, job, lock, pel, disk>>
  BY <1>1, <1>t DEF Enqueue, ReadStatus, WriteQueued, AlreadyPending, AddPending, AppendEntry,
     Proceeds, Answered
<1>4. Turns'
  BY <1>3, <1>t, CallerAssumption DEF Turns, Agreement, Callers
<1>5. \A b : /\ Handled(b)' <=> Handled(b)
             /\ Closing(b)' <=> Closing(b)
             /\ HasReport(b)' <=> HasReport(b)
             /\ HasMeta(b)' <=> HasMeta(b)
  BY <1>3 DEF Handled, Closing, WorksOn, At, HasReport, HasMeta
<1>6. \A d \in Callers \ {c} : rpc[d] = "idle" /\ rpc'[d] = "idle"
  BY <1>3, <1>t
<1>7. \A v \in Workers : wpc'[v] = wpc[v] /\ job'[v] = job[v] /\ At(v)' = At(v) /\ RunAgrees(v)
  BY <1>3 DEF At, Agreement
<1>8. lock'[a] > 0 => \E v \in Workers : wpc'[v] \in Section /\ At(v)' = a
  BY <1>2, <1>3 DEF EntryAgrees, At
<1>9. \A r \in Requests : subject[r] = a /\ rpc[r] \in {"grel", "replace", "hset"} => r = c
  BY <1>6 DEF Callers
<1>10. rpc'[c] # "idle" => subject'[c] = a
  BY <1>3
<1>11. CASE ReadStatus(c)
  <2>1. live[a] = "reported" => rpc[c] # "hget" /\ c \in Requests
    BY <1>0, <1>1, <1>2, <1>9, <1>11 DEF FilesAgree, CallAgrees, ReadStatus
  <2>2. /\ rpc'[c] = "hset" /\ subject'[c] = a /\ UNCHANGED <<live, stream, pel, pending>>
        /\ rpc[c] \in {"hget", "replace"}
    BY <1>1, <1>2, <1>t, <1>11, <2>1 DEF ReadStatus, Proceeds, CallAgrees
  <2>3. \A b : (Queued(b)' <=> Queued(b)) /\ (Active(b)' <=> Active(b))
    BY <1>3, <2>2 DEF Queued, InStream, Active
  <2>4. FilesAgree(a)'
    BY <1>2, <1>3, <1>5, <2>1, <2>2 DEF FilesAgree
  <2>5. EntryAgrees(a)'
    BY <1>2, <1>5, <1>8, <2>2, <2>3 DEF EntryAgrees
  <2>6. CallAgrees(c)'
    BY <1>0, <1>1, <1>2, <1>3, <1>5, <2>2, <2>3 DEF CallAgrees
  <2>7. \A v \in Workers : RunAgrees(v)'
    BY <1>3, <1>5, <1>7, <2>2, <2>3 DEF RunAgrees, AtJob
  <2>8. Entries'
    BY <1>3, <2>2 DEF Agreement, Entries, InStream
  <2> QED
    BY <1>1, <1>3, <1>4, <1>6, <2>2, <2>3, <2>4, <2>5, <2>6, <2>7, <2>8, CallerAgrees
<1>12. CASE WriteQueued(c)
  <2>1. /\ rpc[c] = "hset" /\ rpc'[c] = "sadd" /\ subject'[c] = a
        /\ live'[a] = "queued" /\ \A b \in Audits \ {a} : live'[b] = live[b]
        /\ UNCHANGED <<stream, pel, pending>>
    BY <1>1, <1>t, <1>12 DEF WriteQueued, Proceeds, SetStatus
  <2>2. \A b : Queued(b)' <=> Queued(b)
    BY <1>3, <2>1 DEF Queued, InStream
  <2>3. ~Active(a) /\ ~HasReport(a)
    BY <1>0, <1>1, <1>2, <2>1 DEF CallAgrees
  <2>4. \A v \in Workers : ~WorksOn(v, a, AtJob)
    BY <1>7, <2>3 DEF WorksOn, AtJob, RunAgrees, Active
  <2>5. Quiet(a)'
    <3>1. Queued(a) => Handled(a)
      BY <1>2, <2>3 DEF EntryAgrees, Active
    <3>2. Queued(a) => Closing(a)
      BY <2>4, <3>1 DEF Handled, Closing, WorksOn
    <3>3. \A v \in Workers : ~WorksOn(v, a, AtJob)'
      BY <1>7, <2>4 DEF WorksOn
    <3> QED
      BY <1>5, <2>2, <3>2, <3>3 DEF Quiet
  <2>6. FilesAgree(a)'
    BY <1>2, <1>3, <1>5, <2>1, <2>3 DEF FilesAgree
  <2>7. EntryAgrees(a)'
    BY <1>2, <1>5, <1>8, <2>1, <2>2 DEF EntryAgrees
  <2>8. CallAgrees(c)'
    BY <1>2, <1>3, <2>1, <2>5 DEF CallAgrees
  <2>9. ASSUME NEW v \in Workers, wpc[v] \in AtJob \cup {"xack", "srem"}, At(v) = a
        PROVE  RunAgrees(v)'
    <3>1. wpc[v] \in {"xack", "srem"}
      BY <2>4, <2>9 DEF WorksOn
    <3> QED
      BY <1>3, <1>7, <2>1, <2>2, <3>1 DEF RunAgrees, AtJob
  <2>10. Entries'
    BY <1>3, <2>1 DEF Agreement, Entries, InStream
  <2> QED
    BY <1>1, <1>3, <1>4, <1>6, <2>1, <2>2, <2>6, <2>7, <2>8, <2>9, <2>10, CallerAgrees
<1>13. CASE AlreadyPending(c)
  <2>1. rpc'[c] = "idle" /\ rpc[c] = "sadd" /\ UNCHANGED <<live, stream, pel, pending>>
    BY <1>t, <1>13 DEF AlreadyPending, Answered
  <2>2. live[a] = "queued"
    BY <1>1, <1>2, <2>1 DEF CallAgrees
  <2>3. \A b : (Queued(b)' <=> Queued(b)) /\ (Active(b)' <=> Active(b))
    BY <1>3, <2>1 DEF Queued, InStream, Active
  <2>4. FilesAgree(a)'
    BY <1>2, <1>3, <1>5, <2>1, <2>2 DEF FilesAgree
  <2>5. EntryAgrees(a)'
    BY <1>2, <1>5, <1>8, <2>1, <2>3 DEF EntryAgrees
  <2>6. CallAgrees(c)'
    BY <2>1 DEF CallAgrees
  <2>7. \A v \in Workers : RunAgrees(v)'
    BY <1>3, <1>5, <1>7, <2>1, <2>3 DEF RunAgrees, AtJob
  <2>8. Entries'
    BY <1>3, <2>1 DEF Agreement, Entries, InStream
  <2> QED
    BY <1>1, <1>3, <1>4, <1>6, <2>1, <2>3, <2>4, <2>5, <2>6, <2>7, <2>8, CallerAgrees
<1>14. CASE AddPending(c)
  <2>1. /\ rpc[c] = "sadd" /\ rpc'[c] = "xadd" /\ subject'[c] = a
        /\ a \notin pending /\ pending' = pending \cup {a}
        /\ UNCHANGED <<live, stream, pel>>
    BY <1>1, <1>t, <1>14 DEF AddPending, Proceeds
  <2>2. live[a] = "queued" /\ Quiet(a) /\ ~Queued(a)
    BY <1>1, <1>2, <2>1 DEF CallAgrees, EntryAgrees
  <2>3. \A b : (Queued(b)' <=> Queued(b)) /\ (Active(b)' <=> Active(b))
    BY <1>3, <2>1 DEF Queued, InStream, Active
  <2>4. FilesAgree(a)'
    BY <1>2, <1>3, <1>5, <2>1, <2>2 DEF FilesAgree
  <2>5. EntryAgrees(a)'
    BY <1>8, <2>2, <2>3 DEF EntryAgrees
  <2>6. \A v \in Workers : ~WorksOn(v, a, {"srem"})'
    BY <1>7, <2>1 DEF WorksOn, RunAgrees
  <2>7. Quiet(a)'
    <3>1. \A v \in Workers : ~WorksOn(v, a, AtJob)'
      BY <1>7, <2>2 DEF Quiet, WorksOn
    <3> QED
      BY <2>2, <2>3, <3>1 DEF Quiet
  <2>8. CallAgrees(c)'
    BY <1>2, <1>3, <2>1, <2>2, <2>3, <2>6, <2>7 DEF CallAgrees
  <2>9. \A v \in Workers : RunAgrees(v)'
    BY <1>3, <1>5, <1>7, <2>1, <2>3 DEF RunAgrees, AtJob
  <2>10. Entries'
    BY <1>3, <2>1 DEF Agreement, Entries, InStream
  <2> QED
    BY <1>1, <1>3, <1>4, <1>6, <2>1, <2>3, <2>4, <2>5, <2>8, <2>9, <2>10, CallerAgrees
<1>15. CASE AppendEntry(c, Held)
  <2>1. PICK m : m.audit = a /\ m \notin InStream \cup pel /\ stream' = Append(stream, m)
    BY <1>1, <1>15 DEF AppendEntry, XAdd
  <2>2. /\ rpc[c] = "xadd" /\ rpc'[c] = "idle" /\ UNCHANGED <<live, pel, pending>>
    BY <1>t, <1>15 DEF AppendEntry, Answered
  <2>3. InStream' = InStream \cup {m}
    BY <2>1, Appending
  <2>4. /\ live[a] = "queued" /\ a \in pending /\ ~Queued(a)
        /\ \A v \in Workers : ~WorksOn(v, a, {"srem"})
    BY <1>1, <1>2, <2>2 DEF CallAgrees
  <2>5. \A b \in Audits \ {a} : Queued(b)' <=> Queued(b)
    BY <1>3, <2>1, <2>3 DEF Queued
  <2>6. Entries'
    <3>1. /\ Len(stream) \in Nat /\ Len(stream') = Len(stream) + 1
          /\ \A i \in 1..Len(stream) : stream'[i] = stream[i]
          /\ stream'[Len(stream) + 1] = m
      <4>1. stream \in Seq(Messages)
        BY DEF TypeOK, BusTypeOK
      <4> QED
        BY <2>1, <4>1
    <3>2. \A i \in 1..Len(stream) : stream[i] # m
      BY <2>1 DEF InStream
    <3>3. \A i, j \in 1..Len(stream) : stream[i] = stream[j] => i = j
      BY DEF Agreement, Entries
    <3>4. \A i, j \in 1..Len(stream') : stream'[i] = stream'[j] => i = j
      <4>1. \A i \in 1..Len(stream') : i \in 1..Len(stream) \/ i = Len(stream) + 1
        BY <3>1
      <4> QED
        BY <3>1, <3>2, <3>3, <4>1
    <3> QED
      BY <1>3, <2>1, <2>3, <2>4, <3>4 DEF Agreement, Entries, Queued
  <2>7. FilesAgree(a)'
    BY <1>2, <1>3, <1>5, <2>2, <2>4 DEF FilesAgree
  <2>8. EntryAgrees(a)'
    BY <1>8, <2>2, <2>4 DEF EntryAgrees
  <2>9. CallAgrees(c)'
    BY <2>2 DEF CallAgrees
  <2>10. ASSUME NEW v \in Workers, wpc[v] \in AtJob \cup {"xack", "srem"}, At(v) = a
         PROVE  RunAgrees(v)'
    <3>1. wpc[v] # "srem"
      BY <2>4, <2>10 DEF WorksOn
    <3> QED
      BY <1>3, <1>5, <1>7, <2>2, <3>1 DEF RunAgrees, AtJob
  <2> QED
    BY <1>1, <1>3, <1>4, <1>6, <2>2, <2>5, <2>6, <2>7, <2>8, <2>9, <2>10, CallerAgrees
<1> QED
  BY <1>11, <1>12, <1>13, <1>14, <1>15 DEF Enqueue

LEMMA ServingAgrees ==
  ASSUME Alone, TypeOK, Agreement, NEW r \in Requests, Serving(r)
  PROVE  Agreement'
<1> USE DEF Serving, lifeVars, workerVars, busVars, queueVars, keyVars
<1>t. /\ rpc \in [Callers -> ApiSteps]
      /\ subject \in [Callers -> Audits \cup {NoAudit}]
      /\ disk \in [Audits -> Folder]
      /\ \A d \in Callers : rpc[d] # "idle" => subject[d] \in Audits
  BY DEF TypeOK, ApiTypeOK, StoreTypeOK
<1>c. r \in Callers /\ \A d \in Callers \ {r} : rpc[d] = "idle"
  BY DEF Alone, Agreement, Turns, Callers
<1>o. \A q \in Requests : q = r
  BY DEF Alone
<1>e. CASE Enqueue(r, Held)
  BY <1>c, <1>e, EnqueueAgrees
<1>f. ~RequestFault(r)
  BY DEF Alone, TypeOK, BusTypeOK, RequestFault, CountFault
<1>s. ASSUME NEW a \in Audits,
             rpc[r] # "idle" => subject[r] = a,
             rpc' = [rpc EXCEPT ![r] = rpc'[r]], rpc'[r] # "idle" => subject'[r] = a,
             UNCHANGED <<live, stream, pel, pending, lock, wpc, job, app, sweep>>,
             \A b \in Audits \ {a} : disk'[b] = disk[b],
             HasReport(a)' <=> HasReport(a), disk'[a].meta = disk[a].meta,
             FilesAgree(a)', CallAgrees(r)'
      PROVE  Agreement'
  <2>1. \A b : Queued(b)' <=> Queued(b)
    BY <1>s DEF Queued, InStream
  <2>2. Entries'
    BY <1>s DEF Agreement, Entries, InStream
  <2>3. EntryAgrees(a)'
    <3>1. EntryAgrees(a)
      BY DEF Agreement
    <3>2. Handled(a)' <=> Handled(a)
      BY <1>s DEF Handled, WorksOn, At
    <3>3. lock'[a] > 0 => \E v \in Workers : wpc'[v] \in Section /\ At(v)' = a
      BY <1>s, <3>1 DEF EntryAgrees, At
    <3> QED
      BY <1>s, <2>1, <3>1, <3>2, <3>3 DEF EntryAgrees
  <2>4. ASSUME NEW v \in Workers, At(v) = a PROVE RunAgrees(v)'
    <3>1. RunAgrees(v) /\ At(v)' = a
      BY <1>s, <2>4 DEF Agreement, At
    <3> QED
      BY <1>s, <2>1, <2>4, <3>1 DEF RunAgrees, AtJob
  <2>5. \A d \in Callers \ {r} : rpc[d] = "idle" /\ rpc'[d] = "idle"
    BY <1>c, <1>s, <1>t
  <2>6. Turns'
    BY <1>s, <2>5, CallerAssumption DEF Turns, Agreement, Callers
  <2> QED
    BY <1>c, <1>s, <2>1, <2>2, <2>3, <2>4, <2>5, <2>6, CallerAgrees
<1>1. ASSUME NEW a \in Audits, StartUpload(r, a) PROVE Agreement'
  <2>1. /\ rpc[r] = "idle" /\ rpc'[r] = "recheck" /\ subject'[r] = a
        /\ rpc' = [rpc EXCEPT ![r] = "recheck"]
        /\ ~Active(a) /\ ~HasReport(a)
        /\ UNCHANGED <<live, stream, pel, pending, lock, wpc, job, app, sweep>>
    BY <1>1, <1>c, <1>t DEF StartUpload, Begins, LiveOrReport
  <2>2. /\ disk'[a].owner /\ disk'[a].report = disk[a].report /\ disk'[a].meta = disk[a].meta
        /\ \A b \in Audits \ {a} : disk'[b] = disk[b]
    BY <1>1, <1>t DEF StartUpload, Stored, Folder
  <2>3. (HasReport(a)' <=> HasReport(a)) /\ (HasMeta(a)' <=> HasMeta(a))
    BY <2>2 DEF HasReport, HasMeta
  <2>4. FilesAgree(a)'
    BY <1>o, <2>1, <2>2, <2>3 DEF Agreement, FilesAgree
  <2>5. CallAgrees(r)'
    BY <2>1, <2>2 DEF CallAgrees
  <2> QED
    BY <1>s, <2>1, <2>2, <2>3, <2>4, <2>5
<1>2. CASE Recheck(r)
  <2>0. PICK a \in Audits : a = subject[r]
    BY <1>2, <1>c, <1>t DEF Recheck
  <2>1. /\ rpc[r] = "recheck" /\ rpc' = [rpc EXCEPT ![r] = rpc'[r]]
        /\ \/ rpc'[r] = "idle"
           \/ rpc'[r] = "hget" /\ subject'[r] = a /\ ~Active(a) /\ ~HasReport(a)
        /\ UNCHANGED <<live, stream, pel, pending, lock, disk, wpc, job, app, sweep>>
    BY <1>2, <1>c, <1>t, <2>0 DEF Recheck, Proceeds, Answered, LiveOrReport
  <2>2. CallAgrees(r) /\ FilesAgree(a) /\ disk[a].owner
    BY <1>c, <2>0, <2>1 DEF Agreement, CallAgrees
  <2>3. /\ HasReport(a)' <=> HasReport(a)
        /\ HasMeta(a)' <=> HasMeta(a)
        /\ Active(a)' <=> Active(a)
    BY <2>1 DEF HasReport, HasMeta, Active
  <2>4. FilesAgree(a)'
    BY <1>o, <2>1, <2>2, <2>3 DEF FilesAgree
  <2>5. CallAgrees(r)'
    BY <2>1, <2>2, <2>3 DEF CallAgrees
  <2> QED
    BY <1>s, <2>0, <2>1, <2>3, <2>4, <2>5
<1>3. ASSUME NEW a \in Audits, StartAnswers(r, a) PROVE Agreement'
  <2>1. /\ rpc[r] = "idle" /\ rpc'[r] = "glossary" /\ subject'[r] = a
        /\ rpc' = [rpc EXCEPT ![r] = "glossary"]
        /\ disk[a].owner /\ ~Active(a) /\ disk[a].report = "questions"
        /\ UNCHANGED <<live, stream, pel, pending, lock, disk, wpc, job, app, sweep>>
    BY <1>3, <1>c, <1>t DEF StartAnswers, Begins
  <2>2. /\ HasReport(a)' <=> HasReport(a)
        /\ HasMeta(a)' <=> HasMeta(a)
        /\ Active(a)' <=> Active(a)
    BY <2>1 DEF HasReport, HasMeta, Active
  <2>3. FilesAgree(a)'
    BY <1>o, <2>1, <2>2 DEF Agreement, FilesAgree
  <2>4. CallAgrees(r)'
    BY <2>1, <2>2, CallerAssumption DEF CallAgrees
  <2> QED
    BY <1>s, <2>1, <2>2, <2>3, <2>4
<1>4. CASE GlossaryBusy(r) \/ ReleaseGlossary(r)
  <2>0. PICK a \in Audits : a = subject[r]
    BY <1>4, <1>c, <1>t DEF GlossaryBusy, ReleaseGlossary, Proceeds
  <2>1. /\ rpc' = [rpc EXCEPT ![r] = rpc'[r]]
        /\ \/ rpc[r] = "glossary" /\ rpc'[r] = "idle"
           \/ rpc[r] = "grel" /\ rpc'[r] = "replace" /\ subject'[r] = a
        /\ UNCHANGED <<live, stream, pel, pending, lock, disk, wpc, job, app, sweep>>
    BY <1>4, <1>c, <1>t, <2>0 DEF GlossaryBusy, ReleaseGlossary, Proceeds, Answered
  <2>2. CallAgrees(r) /\ FilesAgree(a)
    BY <1>c, <2>0 DEF Agreement
  <2>3. /\ HasReport(a)' <=> HasReport(a)
        /\ HasMeta(a)' <=> HasMeta(a)
        /\ Active(a)' <=> Active(a)
    BY <2>1 DEF HasReport, HasMeta, Active
  <2>4. FilesAgree(a)'
    BY <1>o, <2>1, <2>2, <2>3 DEF FilesAgree
  <2>5. CallAgrees(r)'
    BY <2>0, <2>1, <2>2, <2>3 DEF CallAgrees
  <2> QED
    BY <1>s, <2>0, <2>1, <2>3, <2>4, <2>5
<1>5. CASE ApplyAnswers(r)
  <2>0. PICK a \in Audits : a = subject[r]
    BY <1>5, <1>c, <1>t DEF ApplyAnswers, Proceeds
  <2>1. /\ rpc[r] = "glossary" /\ rpc' = [rpc EXCEPT ![r] = "grel"]
        /\ rpc'[r] = "grel" /\ subject'[r] = a
        /\ UNCHANGED <<live, stream, pel, pending, lock, wpc, job, app, sweep>>
    BY <1>5, <1>c, <1>t, <2>0 DEF ApplyAnswers, Proceeds
  <2>2. /\ disk'[a].owner = disk[a].owner /\ disk'[a].report = "none" /\ disk'[a].meta = "none"
        /\ \A b \in Audits \ {a} : disk'[b] = disk[b]
    BY <1>5, <1>t, <2>0 DEF ApplyAnswers, TailDropped, Folder
  <2>3. /\ disk[a].owner /\ ~Active(a) /\ HasReport(a) /\ FilesAgree(a) /\ EntryAgrees(a)
    BY <1>c, <2>0, <2>1 DEF Agreement, CallAgrees, HasReport
  <2>4. ~HasReport(a)' /\ ~HasMeta(a)'
    BY <2>2 DEF HasReport, HasMeta
  <2>5. live[a] # "failed"
    BY <2>3 DEF FilesAgree
  <2>6. FilesAgree(a)'
    BY <2>1, <2>2, <2>3, <2>4, <2>5 DEF FilesAgree
  <2>7. CallAgrees(r)'
    <3>1. ~Active(a)'
      BY <2>1, <2>3 DEF Active
    <3> QED
      BY <2>1, <2>2, <2>3, <2>4, <3>1, CallerAssumption DEF CallAgrees
  <2>8. \A b : Queued(b)' <=> Queued(b)
    BY <2>1 DEF Queued, InStream
  <2>9. Entries'
    BY <2>1 DEF Agreement, Entries, InStream
  <2>10. EntryAgrees(a)'
    <3>1. Handled(a)' <=> Handled(a)
      BY <2>1 DEF Handled, WorksOn, At
    <3>2. lock'[a] > 0 => \E v \in Workers : wpc'[v] \in Section /\ At(v)' = a
      BY <2>1, <2>3 DEF EntryAgrees, At
    <3> QED
      BY <2>1, <2>3, <2>8, <3>1, <3>2 DEF EntryAgrees
  <2>11. ASSUME NEW v \in Workers, wpc[v] \in AtJob \cup {"xack", "srem"}, At(v) = a
         PROVE  RunAgrees(v)'
    <3>1. RunAgrees(v) /\ At(v)' = a
      BY <2>1, <2>11 DEF Agreement, At
    <3>2. wpc[v] \in {"xack", "srem"}
      BY <2>3, <2>11, <3>1 DEF RunAgrees, AtJob, Active
    <3> QED
      BY <2>1, <2>8, <2>11, <3>1, <3>2 DEF RunAgrees, AtJob
  <2>12. \A d \in Callers \ {r} : rpc[d] = "idle" /\ rpc'[d] = "idle"
    BY <1>c, <1>t, <2>1
  <2>13. Turns'
    BY <2>1, <2>12, CallerAssumption DEF Turns, Agreement, Callers
  <2> QED
    BY <1>c, <2>0, <2>1, <2>2, <2>6, <2>7, <2>8, <2>9, <2>10, <2>11, <2>12, <2>13, CallerAgrees
<1> QED
  BY <1>e, <1>f, <1>1, <1>2, <1>3, <1>4, <1>5 DEF RequestStep

-----------------------------------------------------------------------------
(* The steps of the process                                                 *)

(* The reconciler takes a directory that has neither report nor job.        *)
LEMMA TakeAgrees ==
  ASSUME TypeOK, Agreement, NEW a \in Audits, ReconcileTake(a)
  PROVE  Agreement'
<1>t. rpc \in [Callers -> ApiSteps] /\ subject \in [Callers -> Audits \cup {NoAudit}]
  BY DEF TypeOK, ApiTypeOK
<1>1. /\ Boot \in Callers /\ app = "boot" /\ rpc[Boot] = "idle"
      /\ rpc' = [rpc EXCEPT ![Boot] = "replace"] /\ subject' = [subject EXCEPT ![Boot] = a]
      /\ disk[a].owner /\ ~HasReport(a) /\ ~Active(a)
      /\ UNCHANGED <<live, stream, pel, pending, lock, disk, wpc, job, app, sweep>>
  BY DEF ReconcileTake, Begins, Unfinished, Callers, busVars, queueVars, keyVars, workerVars
<1>2. \A d \in Callers \ {Boot} : rpc[d] = "idle" /\ rpc'[d] = "idle"
  BY <1>1, <1>t DEF Agreement, Turns, Callers
<1>3. \A b : /\ Queued(b)' <=> Queued(b)
             /\ Handled(b)' <=> Handled(b)
             /\ Active(b)' <=> Active(b)
             /\ HasReport(b)' <=> HasReport(b)
             /\ HasMeta(b)' <=> HasMeta(b)
  BY <1>1 DEF Queued, InStream, Handled, WorksOn, At, Active, HasReport, HasMeta
<1>4. FilesAgree(a) /\ EntryAgrees(a)
  BY DEF Agreement
<1>5. rpc'[Boot] = "replace" /\ subject'[Boot] = a
  BY <1>1, <1>t
<1>6. FilesAgree(a)'
  <2>1. ~\E r \in Requests : subject[r] = a /\ rpc[r] \in {"grel", "replace", "hset"}
    BY <1>2, CallerAssumption DEF Callers
  <2> QED
    BY <1>1, <1>3, <1>4, <2>1 DEF FilesAgree
<1>7. EntryAgrees(a)'
  <2>1. lock'[a] > 0 => \E v \in Workers : wpc'[v] \in Section /\ At(v)' = a
    BY <1>1, <1>4 DEF EntryAgrees, At
  <2> QED
    BY <1>1, <1>3, <1>4, <2>1 DEF EntryAgrees
<1>8. CallAgrees(Boot)'
  BY <1>1, <1>3, <1>5 DEF CallAgrees
<1>9. \A v \in Workers : RunAgrees(v)'
  <2> SUFFICES ASSUME NEW v \in Workers PROVE RunAgrees(v)'
    OBVIOUS
  <2>1. RunAgrees(v) /\ At(v)' = At(v)
    BY <1>1 DEF Agreement, At
  <2> QED
    BY <1>1, <1>3, <2>1 DEF RunAgrees, AtJob
<1>10. Turns' /\ Entries'
  BY <1>1, <1>2, CallerAssumption DEF Turns, Agreement, Callers, Entries, InStream
<1> QED
  BY <1>1, <1>2, <1>3, <1>5, <1>6, <1>7, <1>8, <1>9, <1>10, CallerAgrees

(* Redis empty, and on disk what the audits left there.                     *)
Bare ==
  /\ live = EmptyBus.live /\ lock = EmptyBus.lock
  /\ stream = <<>> /\ pel = {} /\ pending = {}
  /\ \A w \in Workers : wpc[w] = "idle" /\ job[w] = NoMsg
  /\ \A c \in Callers : rpc[c] = "idle"
  /\ \A a \in Audits : ~disk[a].owner => ~HasReport(a) /\ ~HasMeta(a)
  /\ \A a \in Audits : disk[a].meta = "ready" => HasReport(a)
  /\ sweep = NoAudit

LEMMA BareAgrees == Bare => Agreement
<1> SUFFICES ASSUME Bare PROVE Agreement
  OBVIOUS
<1> USE DEF Bare
<1>1. InStream = {} /\ Len(stream) = 0
  BY DEF InStream
<1>2. ASSUME NEW a \in Audits PROVE FilesAgree(a) /\ EntryAgrees(a)
  <2>1. live[a] = "none" /\ lock[a] = 0 /\ ~Queued(a)
    BY <1>1 DEF EmptyBus, Queued
  <2>2. FilesAgree(a)
    BY <2>1 DEF FilesAgree
  <2>3. EntryAgrees(a)
    BY <2>1 DEF EntryAgrees
  <2> QED
    BY <2>2, <2>3
<1>3. \A w \in Workers : RunAgrees(w)
  BY DEF RunAgrees, AtJob
<1>4. (\A c \in Callers : CallAgrees(c)) /\ Turns
  BY DEF CallAgrees, Turns, Callers
<1>5. Entries
  BY <1>1 DEF Entries
<1> QED
  BY <1>2, <1>3, <1>4, <1>5 DEF Agreement

LEMMA NextAgrees ==
  ASSUME Alone, TypeOK, Exclusion, Agreement, [Next]_vars
  PROVE  Agreement'
<1> USE DEF busVars, queueVars, keyVars, workerVars, apiVars, lifeVars
<1>1. ASSUME NEW w \in Workers, Working(w) PROVE Agreement'
  BY <1>1, WorkingAgrees
<1>2. ASSUME NEW r \in Requests, Serving(r) PROVE Agreement'
  BY <1>2, ServingAgrees
<1>3. CASE Tick
  <2>1. \A a \in Audits : lock'[a] > 0 => lock[a] > 0
    BY <1>3, TtlAssumption DEF Tick, BusTick, TypeOK, BusTypeOK
  <2> QED
    BY <1>3, <2>1, CalmAgrees DEF Tick, BusTick, WorkerTick
<1>4. ASSUME NEW a \in Audits, SweepLook(a) \/ GrowOld(a) PROVE FALSE
  BY <1>4 DEF Alone, SweepLook, GrowOld
<1>5. ~SweepDelete
  BY DEF SweepDelete, Agreement, Turns
<1>6. CASE StartProcess \/ StartReconcile \/ StartWorkers \/ \E a \in Audits : ReconcileSkip(a)
  <2>1. app' = app \/ \A c \in Callers : rpc[c] = "idle"
    BY <1>6 DEF StartProcess, StartReconcile, StartWorkers, ReconcileSkip, Agreement, Turns,
       Callers
  <2>2. \A a \in Audits : lock'[a] > 0 => lock[a] > 0
    BY <1>6 DEF StartProcess, StartReconcile, StartWorkers, ReconcileSkip
  <2>3. UNCHANGED <<live, stream, pel, pending, disk, wpc, job, rpc, subject, sweep>>
    BY <1>6 DEF StartProcess, StartReconcile, StartWorkers, ReconcileSkip
  <2> QED
    BY <2>1, <2>2, <2>3, CalmAgrees
<1>7. ASSUME NEW a \in Audits, ReconcileTake(a) PROVE Agreement'
  BY <1>7, TakeAgrees
<1>8. CASE Reconciling
  <2>1. /\ Boot \in Callers /\ app = "boot" /\ Enqueue(Boot, Held)
        /\ UNCHANGED <<workerVars, app, sweep>>
        /\ \A d \in Callers \ {Boot} : rpc[d] = "idle"
    BY <1>8 DEF Reconciling, Callers, Agreement, Turns
  <2> QED
    BY <2>1, EnqueueAgrees
<1>9. ~Stop /\ ~Kill
  BY DEF Alone, Stop, Kill, GoesDown
<1>10. CASE PodLost
  <2>1. /\ BusFlushed /\ disk' = disk /\ sweep' = NoAudit
        /\ \A w \in Workers : wpc'[w] = "idle" /\ job'[w] = NoMsg
        /\ \A c \in Callers : rpc'[c] = "idle"
    BY <1>10 DEF PodLost, GoesDown, WorkersGone, RequestsGone
  <2>2. Bare'
    BY <2>1 DEF Bare, BusFlushed, EmptyBus, HasReport, HasMeta, Agreement, FilesAgree
  <2>3. Bare' => Agreement'
    BY BareAgrees, PTL
  <2> QED
    BY <2>2, <2>3
<1>11. CASE UNCHANGED vars
  BY <1>11, CalmAgrees DEF vars
<1> QED
  BY <1>1, <1>2, <1>3, <1>4, <1>5, <1>6, <1>7, <1>8, <1>9, <1>10, <1>11 DEF Next

LEMMA AgreementKept ==
  ASSUME Alone
  PROVE  Spec => []Agreement
<1>1. Init => Agreement
  <2> SUFFICES ASSUME Init PROVE Agreement
    OBVIOUS
  <2>1. Bare
    BY DEF Init, BusInit, WorkerInit, ApiInit, StoreInit, NoFolder, Bare, EmptyBus, HasReport,
       HasMeta
  <2> QED
    BY <2>1, BareAgrees
<1>2. TypeOK /\ Exclusion /\ Agreement /\ [Next]_vars => Agreement'
  BY NextAgrees
<1>3. BeatMayFail = FALSE
  BY DEF Alone
<1>4. Spec => []Exclusion
  BY <1>3, Excludes
<1> QED
  BY <1>1, <1>2, <1>4, Typed, PTL DEF Spec

(* A status of succeeded, degraded or needs_input has its report.json,      *)
(* except while an answers request has dropped it and not yet re-queued:    *)
(* for any number of audits, whatever the runs end in and however often the *)
(* pod is lost, where Redis refuses no call and one worker and one request  *)
(* are under way at a time.                                                 *)
THEOREM ReportIsThere ==
  ASSUME Alone
  PROVE  Spec => []StatusHasReport
<1>1. Agreement => StatusHasReport
  BY DEF Agreement, FilesAgree, StatusHasReport
<1> QED
  BY <1>1, AgreementKept, PTL

-----------------------------------------------------------------------------
(* The statuses a client polls                                              *)

LEMMA ShownStays ==
  ASSUME NEW a, live'[a] = live[a], disk'[a].owner = disk[a].owner,
         disk'[a].report = disk[a].report, disk'[a].meta = disk[a].meta
  PROVE  Shown(a)' = Shown(a)
  BY DEF Shown, DiskStatus, ReportStatus, HasMeta, HasReport

(* A step on one audit maps to a step of AuditLife.                         *)
LEMMA MovesOne ==
  ASSUME NEW a \in Audits, \A b \in Audits \ {a} : Shown(b)' = Shown(b),
         \/ Shown(a)' = Shown(a)
         \/ Shown(a) = "unknown" /\ Shown(a)' = "queued"
         \/ Shown(a) = "queued" /\ Shown(a)' = "running"
         \/ Shown(a) = "running" /\ Shown(a)' \in Life!Reported \cup {"failed"}
         \/ Shown(a) = "questions" /\ Shown(a)' = "queued"
         \/ Shown(a) = "failed" /\ Shown(a)' = "queued"
  PROVE  [Life!Next]_Polled
<1>1. ASSUME NEW from, NEW to, Shown(a) \in from, Shown(a)' \in to
      PROVE  Life!Moves(a, from, to)
  <2>1. Polled' = [Polled EXCEPT ![a] = Shown(a)'] /\ Polled[a] = Shown(a)
    BY DEF Polled
  <2> QED
    BY <1>1, <2>1 DEF Life!Moves
<1>2. CASE Shown(a)' = Shown(a)
  BY <1>2 DEF Polled
<1>3. CASE Shown(a) = "unknown" /\ Shown(a)' = "queued"
  <2>1. Life!Upload(a)
    BY <1>1, <1>3 DEF Life!Upload
  <2> QED
    BY <2>1 DEF Life!Next
<1>4. CASE Shown(a) = "queued" /\ Shown(a)' = "running"
  <2>1. Life!Begin(a)
    BY <1>1, <1>4 DEF Life!Begin
  <2> QED
    BY <2>1 DEF Life!Next
<1>5. CASE Shown(a) = "running" /\ Shown(a)' \in Life!Reported \cup {"failed"}
  <2>1. Life!Finish(a)
    BY <1>1, <1>5 DEF Life!Finish
  <2> QED
    BY <2>1 DEF Life!Next
<1>6. CASE Shown(a) = "questions" /\ Shown(a)' = "queued"
  <2>1. Life!Answer(a)
    BY <1>1, <1>6 DEF Life!Answer
  <2> QED
    BY <2>1 DEF Life!Next
<1>7. CASE Shown(a) = "failed" /\ Shown(a)' = "queued"
  <2>1. Life!Retry(a)
    BY <1>1, <1>7 DEF Life!Retry
  <2> QED
    BY <2>1 DEF Life!Next
<1> QED
  BY <1>2, <1>3, <1>4, <1>5, <1>6, <1>7

LEMMA WorkingShows ==
  ASSUME Alone, TypeOK, Agreement, Exclusion, NEW w \in Workers, Working(w)
  PROVE  [Life!Next]_Polled
<1> USE DEF Working
<1>w. RunAgrees(w)
  BY DEF Agreement
<1>t. live \in [Audits -> Statuses] /\ disk \in [Audits -> Folder]
  BY DEF TypeOK, BusTypeOK, StoreTypeOK
<1>c. wpc[w] \in Section => \E a \in Audits : a = At(w) /\ FilesAgree(a)
  BY Carriers DEF Agreement
<1>1. CASE StartRun(w) \/ EnterStage(w)
  <2>0. wpc[w] \in {"exec", "run"} /\ wpc[w] \in Section
    BY <1>1, SectionParts DEF StartRun, EnterStage, Goto
  <2>1. PICK a \in Audits : a = At(w) /\ FilesAgree(a)
    BY <1>c, <2>0
  <2>2. /\ live'[a] = "running" /\ disk' = disk
        /\ \A b \in Audits \ {a} : live'[b] = live[b]
    BY <1>1, <1>t, <2>1 DEF StartRun, EnterStage, SetProgress, SetStatus
  <2>3. live[a] \in {"queued", "running"} /\ disk[a].owner
    BY <1>w, <2>0, <2>1 DEF RunAgrees, FilesAgree
  <2>4. Shown(a) = live[a] /\ Shown(a)' = "running"
    BY <2>2, <2>3 DEF Shown
  <2>5. \A b \in Audits \ {a} : Shown(b)' = Shown(b)
    BY <2>2, ShownStays
  <2> QED
    BY <2>3, <2>4, <2>5, MovesOne
<1>2. CASE WriteReport(w) \/ WriteMeta(w) \/ RunFails(w)
  <2>0. wpc[w] \in {"run", "publish"} /\ wpc[w] \in Section
    BY <1>2, SectionParts DEF WriteReport, WriteMeta, RunFails, Goto
  <2>1. PICK a \in Audits : a = At(w) /\ FilesAgree(a)
    BY <1>c, <2>0
  <2>2. /\ live' = live /\ disk'[a].owner = disk[a].owner
        /\ \A b \in Audits \ {a} : disk'[b] = disk[b]
    BY <1>2, <1>t, <2>1 DEF WriteReport, WriteMeta, RunFails, Published, Committed, Folder, busVars
  <2>3. live[a] = "running"
    BY <1>w, <2>0, <2>1 DEF RunAgrees
  <2>4. Shown(a)' = Shown(a)
    BY <2>2, <2>3 DEF Shown
  <2>5. \A b \in Audits \ {a} : Shown(b)' = Shown(b)
    BY <2>2, ShownStays
  <2> QED
    BY <2>4, <2>5, MovesOne
<1>3. CASE SetTerminal(w)
  <2>0. wpc[w] \in {"settle", "fail"} /\ wpc[w] \in Section
    BY <1>3, SectionParts DEF SetTerminal
  <2>1. PICK a \in Audits : a = At(w) /\ FilesAgree(a)
    BY <1>c, <2>0
  <2>2. /\ live'[a] \in {"reported", "failed"} /\ disk' = disk
        /\ \A b \in Audits \ {a} : live'[b] = live[b]
    BY <1>3, <1>t, <2>1 DEF SetTerminal, SetStatus
  <2>3. live[a] = "running" /\ disk[a].owner
    BY <1>w, <2>0, <2>1 DEF RunAgrees, FilesAgree
  <2>4. Shown(a) = "running" /\ Shown(a)' \in Life!Reported \cup {"failed"}
    BY <2>2, <2>3 DEF Shown, ReportStatus, Life!Reported
  <2>5. \A b \in Audits \ {a} : Shown(b)' = Shown(b)
    BY <2>2, ShownStays
  <2> QED
    BY <2>4, <2>5, MovesOne
<1>4. ~OwnerMissing(w)
  <2> SUFFICES ASSUME OwnerMissing(w) PROVE FALSE
    OBVIOUS
  <2>1. wpc[w] = "exec" /\ ~disk[At(w)].owner
    BY DEF OwnerMissing, Goto
  <2> QED
    BY <1>c, <1>w, <2>1, SectionParts DEF FilesAgree, RunAgrees
<1>5. CASE /\ ~StartRun(w) /\ ~EnterStage(w) /\ ~WriteReport(w) /\ ~WriteMeta(w)
           /\ ~RunFails(w) /\ ~SetTerminal(w)
  <2>1. WorkerStep(w)
    OBVIOUS
  <2>2. live' = live /\ disk' = disk
    <3>1. CASE Advance(w)
      BY <1>4, <1>5, <3>1 DEF Advance, TakeSlot, Claim, ClaimNothing, AcquireAudit, AcquireRefused,
         SkipExplain, Acknowledge, ForgetPending, DropMessage, DropPending, ReleaseAudit,
         ReleaseSlot, BeatErrorRaised, busVars
    <3>2. CASE Beat(w) \/ BeatFails(w) \/ WorkerFault(w)
      BY <3>2 DEF Beat, BeatFails, WorkerFault, GuardedFault, OutsideFault, SlotFault, LostClaim,
         LostAcquire, busVars
    <3> QED
      BY <1>5, <2>1, <3>1, <3>2 DEF WorkerStep
  <2>3. \A b \in Audits : Shown(b)' = Shown(b)
    BY <2>2, ShownStays
  <2> QED
    BY <2>3 DEF Polled
<1> QED
  BY <1>1, <1>2, <1>3, <1>5

LEMMA EnqueueShows ==
  ASSUME TypeOK, Agreement, NEW c \in Callers, Enqueue(c, Held)
  PROVE  [Life!Next]_Polled
<1>t. live \in [Audits -> Statuses]
  BY DEF TypeOK, BusTypeOK
<1>1. CASE WriteQueued(c)
  <2>1. PICK a \in Audits : a = subject[c]
    BY <1>1 DEF WriteQueued, Proceeds, TypeOK, ApiTypeOK
  <2>2. /\ live'[a] = "queued" /\ disk' = disk
        /\ \A b \in Audits \ {a} : live'[b] = live[b]
    BY <1>1, <1>t, <2>1 DEF WriteQueued, SetStatus
  <2>3. disk[a].owner /\ ~Active(a) /\ ~HasReport(a) /\ FilesAgree(a)
    BY <1>1, <2>1 DEF Agreement, CallAgrees, WriteQueued, Proceeds
  <2>4. Shown(a)' = "queued"
    BY <2>2, <2>3 DEF Shown
  <2>5. Shown(a) \in {"queued", "failed", "questions"}
    <3>1. live[a] \in {"none", "reported", "failed"}
      BY <1>t, <2>3 DEF Active, Statuses
    <3>2. disk[a].report = "none"
      BY <2>3 DEF HasReport
    <3> QED
      BY <2>3, <3>1, <3>2 DEF Shown, DiskStatus, ReportStatus
  <2>6. \A b \in Audits \ {a} : Shown(b)' = Shown(b)
    BY <2>2, ShownStays
  <2> QED
    BY <2>4, <2>5, <2>6, MovesOne
<1>2. CASE ~WriteQueued(c)
  <2>1. live' = live /\ disk' = disk
    BY <1>2 DEF Enqueue, ReadStatus, AlreadyPending, AddPending, AppendEntry, busVars
  <2>2. \A b \in Audits : Shown(b)' = Shown(b)
    BY <2>1, ShownStays
  <2> QED
    BY <2>2 DEF Polled
<1> QED
  BY <1>1, <1>2

LEMMA ServingShows ==
  ASSUME Alone, TypeOK, Agreement, NEW r \in Requests, Serving(r)
  PROVE  [Life!Next]_Polled
<1> USE DEF Serving, busVars
<1>t. live \in [Audits -> Statuses] /\ disk \in [Audits -> Folder] /\ r \in Callers
  BY DEF TypeOK, BusTypeOK, StoreTypeOK, Callers
<1>1. ASSUME NEW a \in Audits, StartUpload(r, a) PROVE [Life!Next]_Polled
  <2>1. /\ disk'[a].owner /\ disk'[a].report = disk[a].report /\ disk'[a].meta = disk[a].meta
        /\ \A b \in Audits \ {a} : disk'[b] = disk[b]
        /\ live' = live
    BY <1>1, <1>t DEF StartUpload, Stored, Folder
  <2>2. FilesAgree(a)
    BY DEF Agreement
  <2>3. \A b \in Audits \ {a} : Shown(b)' = Shown(b)
    BY <2>1, ShownStays
  <2>4. CASE disk[a].owner
    <3>1. Shown(a)' = Shown(a)
      BY <2>1, <2>4, ShownStays
    <3> QED
      BY <2>3, <3>1, MovesOne
  <2>5. CASE ~disk[a].owner
    <3>1. live[a] = "none" /\ disk[a].report = "none" /\ disk[a].meta = "none"
      BY <2>2, <2>5 DEF FilesAgree, HasReport, HasMeta
    <3>2. Shown(a) = "unknown" /\ Shown(a)' = "queued"
      BY <2>1, <2>5, <3>1 DEF Shown, DiskStatus, HasReport, HasMeta
    <3> QED
      BY <2>3, <3>2, MovesOne
  <2> QED
    BY <1>t, <2>4, <2>5
<1>2. CASE ApplyAnswers(r)
  <2>1. PICK a \in Audits : a = subject[r]
    BY <1>2, <1>t DEF ApplyAnswers, Proceeds, TypeOK, ApiTypeOK
  <2>2. /\ disk'[a].owner = disk[a].owner /\ disk'[a].report = "none" /\ disk'[a].meta = "none"
        /\ \A b \in Audits \ {a} : disk'[b] = disk[b]
        /\ live' = live
    BY <1>2, <1>t, <2>1 DEF ApplyAnswers, TailDropped, Folder
  <2>3. /\ disk[a].owner /\ ~Active(a) /\ disk[a].report = "questions" /\ FilesAgree(a)
    BY <1>2, <1>t, <2>1 DEF Agreement, CallAgrees, ApplyAnswers, Proceeds
  <2>4. live[a] \in {"none", "reported"}
    BY <1>t, <2>3 DEF FilesAgree, HasReport, Active, Statuses
  <2>5. CASE live[a] = "none"
    <3>1. Shown(a) \in {"failed", "questions"}
      BY <2>3, <2>5 DEF Shown, DiskStatus, ReportStatus, HasReport
    <3>2. Shown(a)' = "queued"
      BY <2>2, <2>3, <2>5 DEF Shown, DiskStatus, HasReport, HasMeta
    <3> QED
      BY <2>2, <3>1, <3>2, MovesOne, ShownStays
  <2>6. CASE live[a] = "reported"
    <3>1. Shown(a)' = Shown(a)
      BY <2>2, <2>3, <2>6 DEF Shown, ReportStatus
    <3> QED
      BY <2>2, <3>1, MovesOne, ShownStays
  <2> QED
    BY <2>4, <2>5, <2>6
<1>3. CASE Enqueue(r, Held)
  BY <1>3, <1>t, EnqueueShows
<1>4. CASE /\ Recheck(r) \/ GlossaryBusy(r) \/ ReleaseGlossary(r) \/ RequestFault(r)
              \/ \E a \in Audits : StartAnswers(r, a)
  <2>1. live' = live /\ disk' = disk
    BY <1>4 DEF Recheck, GlossaryBusy, ReleaseGlossary, RequestFault, StartAnswers
  <2>2. \A b \in Audits : Shown(b)' = Shown(b)
    BY <2>1, ShownStays
  <2> QED
    BY <2>2 DEF Polled
<1> QED
  BY <1>1, <1>2, <1>3, <1>4 DEF RequestStep

(* What GET answers of an audit after the pod was lost.                     *)
LEMMA LostShows ==
  ASSUME TypeOK, Agreement, live' = EmptyBus.live, disk' = disk
  PROVE  Life!Lost
<1>t. live \in [Audits -> Statuses] /\ disk \in [Audits -> Folder]
  BY DEF TypeOK, BusTypeOK, StoreTypeOK
<1>1. ASSUME NEW a \in Audits
      PROVE  Shown(a)' \in Life!Shown /\ Shown(a)' \in Life!Outcome(Shown(a))
  <2>1. FilesAgree(a) /\ live'[a] = "none" /\ disk'[a] = disk[a] /\ live[a] \in Statuses
    BY <1>t DEF Agreement, EmptyBus
  <2>2. Shown(a)' = IF ~disk[a].owner THEN "unknown" ELSE DiskStatus(a)
    BY <2>1 DEF Shown, DiskStatus, ReportStatus, HasReport, HasMeta
  <2>3. DiskStatus(a) \in {"queued", "failed", "clean", "questions"}
    BY DEF DiskStatus, ReportStatus
  <2>4. Shown(a)' \in Life!Shown
    BY <2>2, <2>3 DEF Life!Shown, Life!Reported
  <2>5. CASE ~disk[a].owner \/ live[a] = "none"
    <3>1. Shown(a)' = Shown(a)
      BY <2>2, <2>5 DEF Shown
    <3> QED
      BY <2>4, <3>1 DEF Life!Outcome
  <2>6. CASE disk[a].owner /\ live[a] = "queued"
    <3>1. Shown(a) = "queued"
      BY <2>6 DEF Shown
    <3>2. DiskStatus(a) \in {"queued", "failed"}
      BY <1>t, <2>1, <2>6 DEF FilesAgree, DiskStatus, HasReport, HasMeta, Folder, Metas
    <3> QED
      BY <2>2, <2>4, <2>6, <3>1, <3>2 DEF Life!Outcome
  <2>7. CASE disk[a].owner /\ live[a] = "running"
    <3>1. Shown(a) = "running"
      BY <2>7 DEF Shown
    <3> QED
      BY <2>2, <2>3, <2>4, <2>7, <3>1 DEF Life!Outcome, Life!Reported
  <2>8. CASE disk[a].owner /\ live[a] = "failed"
    <3>1. Shown(a) = "failed" /\ DiskStatus(a) = "failed"
      BY <2>1, <2>8 DEF Shown, FilesAgree, DiskStatus
    <3> QED
      BY <2>2, <2>4, <2>8, <3>1 DEF Life!Outcome
  <2>9. CASE disk[a].owner /\ live[a] = "reported"
    <3>1. Shown(a) = ReportStatus(a) /\ disk[a].meta # "failed"
      BY <2>1, <2>9 DEF Shown, FilesAgree
    <3>2. CASE HasReport(a)
      <4>1. DiskStatus(a) = Shown(a)
        BY <3>1, <3>2 DEF DiskStatus
      <4> QED
        BY <2>2, <2>4, <2>9, <4>1 DEF Life!Outcome
    <3>3. CASE ~HasReport(a)
      <4>1. Shown(a) = "questions"
        BY <3>1, <3>3 DEF ReportStatus, HasReport
      <4>2. DiskStatus(a) = "queued"
        BY <1>t, <2>1, <3>1, <3>3 DEF FilesAgree, DiskStatus, HasMeta, Folder, Metas
      <4> QED
        BY <2>2, <2>4, <2>9, <4>1, <4>2 DEF Life!Outcome
    <3> QED
      BY <3>2, <3>3
  <2> QED
    BY <2>1, <2>4, <2>5, <2>6, <2>7, <2>8, <2>9 DEF Statuses
<1>2. Polled' \in [Audits -> Life!Shown]
  BY <1>1 DEF Polled
<1>3. \A a \in Audits : Polled'[a] \in Life!Outcome(Polled[a])
  BY <1>1 DEF Polled
<1> QED
  BY <1>2, <1>3 DEF Life!Lost

LEMMA NextShows ==
  ASSUME Alone, TypeOK, Exclusion, Agreement, [Next]_vars
  PROVE  [Life!Next]_Polled
<1> USE DEF busVars
<1>1. ASSUME NEW w \in Workers, Working(w) PROVE [Life!Next]_Polled
  BY <1>1, WorkingShows
<1>2. ASSUME NEW r \in Requests, Serving(r) PROVE [Life!Next]_Polled
  BY <1>2, ServingShows
<1>3. CASE Reconciling
  BY <1>3, EnqueueShows DEF Reconciling, Callers
<1>4. CASE PodLost
  <2>1. live' = EmptyBus.live /\ disk' = disk
    BY <1>4 DEF PodLost, BusFlushed
  <2>2. Life!Lost
    BY <2>1, LostShows
  <2> QED
    BY <2>2 DEF Life!Next
<1>5. CASE \/ Tick \/ StartProcess \/ StartReconcile \/ StartWorkers \/ UNCHANGED vars
           \/ \E a \in Audits : ReconcileSkip(a) \/ ReconcileTake(a)
  <2>1. live' = live /\ disk' = disk
    BY <1>5 DEF Tick, BusTick, WorkerTick, StartProcess, StartReconcile, StartWorkers, ReconcileSkip,
       ReconcileTake, vars
  <2>2. \A b \in Audits : Shown(b)' = Shown(b)
    BY <2>1, ShownStays
  <2> QED
    BY <2>2 DEF Polled
<1>6. /\ ~Stop /\ ~Kill /\ ~SweepDelete
      /\ \A a \in Audits : ~SweepLook(a) /\ ~GrowOld(a)
  BY DEF Alone, Stop, Kill, GoesDown, SweepDelete, Agreement, Turns, SweepLook, GrowOld
<1> QED
  BY <1>1, <1>2, <1>3, <1>4, <1>5, <1>6 DEF Next

(* Under the same conditions the statuses a client polls follow the life of *)
(* an audit: every step of the service, seen through GET, is a step of      *)
(* AuditLife or changes nothing the client sees.                            *)
THEOREM LifeIsFollowed ==
  ASSUME Alone
  PROVE  Spec => FollowsLife
<1>1. Init => Life!Init
  <2> SUFFICES ASSUME Init PROVE Life!Init
    OBVIOUS
  <2>1. \A a \in Audits : Shown(a) = "unknown"
    BY DEF Init, StoreInit, NoFolder, Shown
  <2> QED
    BY <2>1 DEF Life!Init, Polled
<1>2. TypeOK /\ Exclusion /\ Agreement /\ [Next]_vars =>
        [Life!Next]_Polled
  BY NextShows
<1>3. BeatMayFail = FALSE
  BY DEF Alone
<1>4. Spec => []Exclusion
  BY <1>3, Excludes
<1> QED
  BY <1>1, <1>2, <1>4, AgreementKept, Typed, PTL DEF Spec, FollowsLife, Life!Spec
=============================================================================
