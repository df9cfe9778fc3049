--------------------------- MODULE AuditWorkProofs ---------------------------
(***************************************************************************)
(* No job is forgotten (WorkNotLost of AuditService), for any number of    *)
(* audits and, unless the process is stopped, of workers.                  *)
(*                                                                         *)
(* A running job is never forgotten (RunningNotLost), for any number of    *)
(* audits and requests, with failing runs, answers and the sweeper: either *)
(* through stops and refused heartbeats with one worker, or with any       *)
(* number of workers.                                                      *)
(***************************************************************************)
EXTENDS AuditServiceProofs

(* What the theorems ask for.  Each part is needed: without it TLC finds a  *)
(* job without an entry (README, section 5), where the sweeper takes a stop *)
(* and a refused heartbeat a second worker to lose it.  Workers do not keep *)
(* each other from the entries of the stream, so a stop may only find one.  *)
Calm ==
  /\ MaxFaults = 0 /\ BeatMayFail = FALSE /\ RunsMayFail = FALSE
  /\ Outcomes \subseteq {"clean"}
  /\ Sweeping = FALSE
  /\ \A q, r \in Requests : q = r
  /\ "kill" \notin RestartKinds
  /\ "stop" \in RestartKinds => \A v, w \in Workers : v = w

-----------------------------------------------------------------------------
(* The invariant                                                            *)
(*                                                                          *)
(* WorkNotLost is not inductive: an entry that is acknowledged or refused   *)
(* must be known to belong to a job that is over or in work, and a job that *)
(* is over must be known to be nobody's to queue.                           *)

Carried(a) == \E w \in Workers : job[w] # NoMsg /\ job[w].audit = a

(* Nothing in Redis or in a worker speaks of the audit. *)
Fresh(a) == a \notin pending /\ ~Queued(a) /\ ~Carried(a)

AuditOK(a) ==
  /\ Active(a) \/ HasReport(a) \/ Fresh(a)
  /\ Fresh(a) \/ disk[a].owner
  /\ live[a] = "reported" => HasReport(a)
  /\ disk[a].report # "questions"
  /\ Active(a) => InWork(a) \/ Queued(a) \/ Enqueuing(a)
  /\ lock[a] > 0 => \E w \in Workers : wpc[w] \in Section /\ At(w) = a

WorkerOK(w) ==
  /\ wpc[w] # "fail"
  /\ wpc[w] \in {"idle", "slot"} => job[w] = NoMsg
  /\ wpc[w] \in {"publish", "settle"} => HasReport(At(w))
  /\ wpc[w] \in {"xack", "srem", "unlock"} => ~Active(At(w))
  /\ wpc[w] \in {"dropack", "dropsrem"} => InWork(At(w)) \/ ~Active(At(w))
  /\ "stop" \in RestartKinds /\ wpc[w] \in {"claimed", "exec", "run", "publish", "settle"} =>
       job[w] \in pel

(* Who is about to queue an audit has it to himself. *)
CallerOK(c) ==
  rpc[c] # "idle" =>
    /\ rpc[c] \in {"recheck", "hget", "replace", "hset", "sadd", "xadd"}
    /\ disk[subject[c]].owner
    /\ rpc[c] \in {"hget", "replace", "hset"} =>
         Fresh(subject[c]) /\ ~Active(subject[c]) /\ ~HasReport(subject[c])
    /\ rpc[c] = "sadd" => Fresh(subject[c]) /\ live[subject[c]] = "queued"
    /\ rpc[c] = "xadd" =>
         ~Queued(subject[c]) /\ ~Carried(subject[c]) /\ live[subject[c]] = "queued"

Turns ==
  /\ app # "up" => \A r \in Requests : rpc[r] = "idle"
  /\ app # "boot" => rpc[Boot] = "idle"
  /\ sweep = NoAudit

Work ==
  /\ \A a \in Audits : AuditOK(a)
  /\ \A w \in Workers : WorkerOK(w)
  /\ \A c \in Callers : CallerOK(c)
  /\ Turns

-----------------------------------------------------------------------------
(* A step of a worker on one audit leaves the others, and their callers,    *)
(* alone                                                                    *)

LEMMA Carriers ==
  ASSUME Exclusion, NEW w \in Workers,
         wpc[w] \in Section \cup {"claimed", "dropack", "dropsrem"}
  PROVE  job[w] \in Messages /\ job[w] # NoMsg /\ At(w) \in Audits /\ At(w) = job[w].audit
  BY NoMsgAssumption DEF Exclusion, Claimed, LockHeld, At, Messages

LEMMA SectionParts ==
  /\ Section = {"run", "publish", "exec", "settle", "fail", "xack", "srem", "unlock"}
  /\ Threaded = {"run", "publish"}
  BY DEF Section, Threaded, Guarded

LEMMA WorkerFrame ==
  ASSUME Calm, Work, Exclusion, Exclusion', NEW w \in Workers, NEW a \in Audits,
         TypeOK, Queued(a) \/ Carried(a),
         UNCHANGED <<rpc, subject, app, sweep>>,
         \A v \in Workers \ {w} : wpc'[v] = wpc[v] /\ job'[v] = job[v],
         job[w] = NoMsg \/ job[w].audit = a,
         job'[w] = NoMsg \/ job'[w].audit = a,
         \A b \in Audits \ {a} :
           /\ live'[b] = live[b] /\ disk'[b] = disk[b] /\ lock'[b] = lock[b]
           /\ b \in pending' <=> b \in pending
           /\ Queued(b)' <=> Queued(b),
         disk'[a].owner = disk[a].owner,
         HasReport(a) => HasReport(a)',
         Active(a)' => Active(a) \/ wpc[w] \in Section,
         InWork(a) \/ ~Active(a) => InWork(a)' \/ ~Active(a)'
  PROVE  /\ \A b \in Audits \ {a} : AuditOK(b)'
         /\ \A v \in Workers \ {w} : WorkerOK(v)'
         /\ \A c \in Callers : CallerOK(c)'
         /\ Turns'
<1>1. ASSUME NEW b \in Audits \ {a}
      PROVE  /\ Carried(b)' <=> Carried(b)
             /\ InWork(b)' <=> InWork(b)
             /\ Enqueuing(b)' <=> Enqueuing(b)
             /\ Active(b)' <=> Active(b)
             /\ HasReport(b)' <=> HasReport(b)
  <2>1. wpc[w] \in Section => At(w) = a
    BY Carriers
  <2>2. wpc'[w] \in Section => At(w)' = a
    BY NoMsgAssumption DEF Exclusion, LockHeld, At
  <2>3. Carried(b)' <=> Carried(b)
    BY DEF Carried
  <2>4. InWork(b)' <=> InWork(b)
    BY <2>1, <2>2, SectionParts DEF InWork, At
  <2> QED
    BY <2>3, <2>4 DEF Enqueuing, Active, HasReport
<1>2. \A b \in Audits \ {a} : Fresh(b)' <=> Fresh(b)
  BY <1>1 DEF Fresh
<1>3. ASSUME NEW b \in Audits \ {a} PROVE AuditOK(b)'
  <2>1. AuditOK(b)
    BY DEF Work
  <2>2. lock'[b] > 0 => \E v \in Workers : wpc'[v] \in Section /\ At(v)' = b
    <3> SUFFICES ASSUME lock'[b] > 0 PROVE \E v \in Workers : wpc'[v] \in Section /\ At(v)' = b
      OBVIOUS
    <3>1. PICK v \in Workers : wpc[v] \in Section /\ At(v) = b
      BY <2>1 DEF AuditOK
    <3>2. v # w
      BY <3>1, Carriers
    <3> QED
      BY <3>1, <3>2 DEF At
  <2> QED
    BY <1>1, <1>2, <2>1, <2>2 DEF AuditOK
<1>4. ASSUME NEW v \in Workers \ {w} PROVE WorkerOK(v)'
  <2>1. WorkerOK(v) /\ wpc'[v] = wpc[v] /\ At(v)' = At(v) /\ job'[v] = job[v]
    BY DEF Work, At
  <2>2. "stop" \notin RestartKinds
    BY DEF Calm
  <2>3. wpc[v] \in {"publish", "settle"} => HasReport(At(v))'
    BY <1>1, <2>1, Carriers, SectionParts DEF WorkerOK
  <2>4. wpc[v] \in {"xack", "srem", "unlock"} => ~Active(At(v))'
    <3> SUFFICES ASSUME wpc[v] \in {"xack", "srem", "unlock"} PROVE ~Active(At(v))'
      OBVIOUS
    <3>1. wpc[v] \in Section /\ ~Active(At(v)) /\ At(v) \in Audits
      BY <2>1, Carriers, SectionParts DEF WorkerOK
    <3>2. CASE At(v) = a
      <4>1. wpc[w] \notin Section
        BY <3>1, <3>2, Carriers DEF Exclusion, ExclusiveRun
      <4> QED
        BY <2>1, <3>1, <3>2, <4>1
    <3> QED
      BY <1>1, <2>1, <3>1, <3>2
  <2>5. wpc[v] \in {"dropack", "dropsrem"} => InWork(At(v))' \/ ~Active(At(v))'
    BY <1>1, <2>1, Carriers DEF WorkerOK
  <2> QED
    BY <2>1, <2>2, <2>3, <2>4, <2>5 DEF WorkerOK
<1>5. ASSUME NEW c \in Callers, rpc[c] # "idle" PROVE CallerOK(c)'
  <2>1. CallerOK(c) /\ subject[c] \in Audits /\ rpc'[c] = rpc[c] /\ subject'[c] = subject[c]
    BY <1>5 DEF Work, TypeOK, ApiTypeOK
  <2>2. CASE subject[c] = a
    BY <2>1, <2>2 DEF CallerOK, Fresh
  <2>3. CASE subject[c] # a
    BY <1>1, <1>2, <2>1, <2>3 DEF CallerOK
  <2> QED
    BY <2>2, <2>3
<1> QED
  BY <1>3, <1>4, <1>5 DEF CallerOK, Work, Turns
LEMMA WorkerKeeps ==
  ASSUME Calm, Work, Exclusion, Exclusion', NEW w \in Workers, NEW a \in Audits,
         TypeOK, Queued(a) \/ Carried(a),
         UNCHANGED <<rpc, subject, app, sweep>>,
         \A v \in Workers \ {w} : wpc'[v] = wpc[v] /\ job'[v] = job[v],
         job[w] = NoMsg \/ job[w].audit = a,
         job'[w] = NoMsg \/ job'[w].audit = a,
         \A b \in Audits \ {a} :
           /\ live'[b] = live[b] /\ disk'[b] = disk[b] /\ lock'[b] = lock[b]
           /\ b \in pending' <=> b \in pending
           /\ Queued(b)' <=> Queued(b),
         disk'[a].owner = disk[a].owner,
         HasReport(a) => HasReport(a)',
         Active(a)' => Active(a) \/ wpc[w] \in Section,
         InWork(a) \/ ~Active(a) => InWork(a)' \/ ~Active(a)',
         AuditOK(a)', WorkerOK(w)'
  PROVE  Work'
<1>1. /\ \A b \in Audits \ {a} : AuditOK(b)'
      /\ \A v \in Workers \ {w} : WorkerOK(v)'
      /\ \A c \in Callers : CallerOK(c)'
      /\ Turns'
  BY WorkerFrame
<1>2. /\ \A b \in Audits : AuditOK(b)'
      /\ \A v \in Workers : WorkerOK(v)'
  BY <1>1
<1> QED
  BY <1>1, <1>2 DEF Work

(* A worker that has an entry is known to its audit.                        *)
LEMMA HasEntry ==
  ASSUME Work, Exclusion, NEW w \in Workers,
         wpc[w] \in Section \cup {"claimed", "dropack", "dropsrem"}
  PROVE  /\ Carried(At(w)) /\ AuditOK(At(w)) /\ At(w) \in Audits
         /\ job[w] = NoMsg \/ job[w].audit = At(w)
         /\ job[w] \in Messages /\ job[w] # NoMsg
         /\ Active(At(w)) \/ HasReport(At(w))
         /\ disk[At(w)].owner
<1>1. job[w] \in Messages /\ job[w] # NoMsg /\ At(w) \in Audits /\ At(w) = job[w].audit
  BY Carriers
<1>2. Carried(At(w))
  BY <1>1 DEF Carried
<1>3. AuditOK(At(w))
  BY <1>1 DEF Work
<1>4. ~Fresh(At(w))
  BY <1>2 DEF Fresh
<1> QED
  BY <1>1, <1>2, <1>3, <1>4 DEF AuditOK

(* The steps of a worker that has no entry, or gives its entry up.          *)
LEMMA OutsideKeeps ==
  ASSUME Calm, TypeOK, Work, Exclusion, Exclusion', NEW w \in Workers,
         UNCHANGED <<rpc, subject, app, sweep, live, queueVars, lock, disk>>,
         \A v \in Workers \ {w} : wpc'[v] = wpc[v] /\ job'[v] = job[v],
         wpc[w] \in {"idle", "slot", "unslot"},
         wpc'[w] \in {"idle", "slot", "unslot"},
         job'[w] = job[w] \/ job'[w] = NoMsg,
         wpc'[w] \in {"idle", "slot"} => job'[w] = NoMsg
  PROVE  Work'
<1> USE DEF queueVars
<1>1. ASSUME NEW b \in Audits
      PROVE  /\ Carried(b)' => Carried(b)
             /\ InWork(b)' <=> InWork(b)
             /\ Queued(b)' <=> Queued(b)
             /\ Enqueuing(b)' <=> Enqueuing(b)
             /\ Active(b)' <=> Active(b)
             /\ HasReport(b)' <=> HasReport(b)
  <2>1. InWork(b)' <=> InWork(b)
    BY DEF InWork, At
  <2>2. Queued(b)' <=> Queued(b)
    BY DEF Queued, InStream
  <2>3. Carried(b)' => Carried(b)
    BY DEF Carried
  <2> QED
    BY <2>1, <2>2, <2>3 DEF Enqueuing, Active, HasReport
<1>2. \A b \in Audits : Fresh(b) => Fresh(b)'
  BY <1>1 DEF Fresh
<1>3. ASSUME NEW b \in Audits PROVE AuditOK(b)'
  <2>1. AuditOK(b)
    BY DEF Work
  <2>2. lock[b] > 0 => \E v \in Workers : wpc'[v] \in Section /\ At(v)' = b
    <3> SUFFICES ASSUME lock[b] > 0 PROVE \E v \in Workers : wpc'[v] \in Section /\ At(v)' = b
      OBVIOUS
    <3>1. PICK v \in Workers : wpc[v] \in Section /\ At(v) = b
      BY <2>1 DEF AuditOK
    <3>2. v # w
      BY <3>1, SectionParts
    <3> QED
      BY <3>1, <3>2 DEF At
  <2> QED
    BY <1>1, <1>2, <2>1, <2>2 DEF AuditOK
<1>4. ASSUME NEW v \in Workers PROVE WorkerOK(v)'
  <2>1. CASE v = w
    BY <2>1 DEF WorkerOK
  <2>2. CASE v # w
    <3>1. WorkerOK(v) /\ wpc'[v] = wpc[v] /\ job'[v] = job[v] /\ At(v)' = At(v)
      BY <2>2 DEF Work, At
    <3>2. wpc[v] \in {"publish", "settle", "xack", "srem", "unlock", "dropack", "dropsrem"} =>
            At(v) \in Audits
      BY Carriers, SectionParts
    <3> QED
      BY <1>1, <3>1, <3>2 DEF WorkerOK
  <2> QED
    BY <2>1, <2>2
<1>5. ASSUME NEW c \in Callers, rpc[c] # "idle", subject[c] \in Audits PROVE CallerOK(c)'
  <2>1. CallerOK(c) /\ rpc'[c] = rpc[c] /\ subject'[c] = subject[c]
    BY <1>5 DEF Work
  <2> QED
    BY <1>1, <1>2, <1>5, <2>1 DEF CallerOK
<1>6. \A c \in Callers : rpc[c] # "idle" => subject[c] \in Audits
  BY DEF TypeOK, ApiTypeOK
<1> QED
  BY <1>3, <1>4, <1>5, <1>6 DEF CallerOK, Work, Turns

-----------------------------------------------------------------------------
(* The stream's entries                                                     *)

LEMMA Claiming ==
  ASSUME TypeOK, NEW m \in Messages, XAutoClaim(m) \/ XReadGroup(m)
  PROVE  /\ InStream' \cup pel' = InStream \cup pel
         /\ m \in InStream \cup pel /\ m \in pel'
<1>1. CASE XAutoClaim(m)
  BY <1>1 DEF XAutoClaim, Stale, InStream
<1>2. CASE XReadGroup(m)
  <2>1. /\ stream \in Seq(Messages) /\ stream # <<>>
        /\ m = Head(stream) /\ stream' = Tail(stream) /\ pel' = pel \cup {m}
    BY <1>2 DEF XReadGroup, TypeOK, BusTypeOK
  <2>2. /\ Len(stream) \in Nat \ {0} /\ Head(stream) = stream[1]
        /\ Len(stream') = Len(stream) - 1
        /\ \A i \in 1..(Len(stream) - 1) : stream'[i] = stream[i + 1]
    BY <2>1
  <2>3. InStream \subseteq InStream' \cup {m}
    <3> SUFFICES ASSUME NEW i \in 1..Len(stream), i # 1 PROVE stream[i] \in InStream'
      BY <2>1, <2>2 DEF InStream
    <3>1. i - 1 \in 1..Len(stream') /\ stream'[i - 1] = stream[i]
      BY <2>2
    <3> QED
      BY <3>1 DEF InStream
  <2>4. InStream' \subseteq InStream
    <3> SUFFICES ASSUME NEW i \in 1..Len(stream') PROVE stream'[i] \in InStream
      BY DEF InStream
    <3>1. i + 1 \in 1..Len(stream) /\ stream'[i] = stream[i + 1]
      BY <2>2
    <3> QED
      BY <3>1 DEF InStream
  <2>5. m \in InStream
    BY <2>1, <2>2 DEF InStream
  <2> QED
    BY <2>1, <2>3, <2>4, <2>5
<1> QED
  BY <1>1, <1>2

LEMMA Appending ==
  ASSUME TypeOK, NEW m, stream' = Append(stream, m)
  PROVE  InStream' = InStream \cup {m}
<1>1. stream \in Seq(Messages)
  BY DEF TypeOK, BusTypeOK
<1>2. /\ Len(stream) \in Nat /\ Len(stream') = Len(stream) + 1
      /\ \A i \in 1..Len(stream) : stream'[i] = stream[i]
      /\ stream'[Len(stream) + 1] = m
  BY <1>1
<1>3. InStream' \subseteq InStream \cup {m}
  <2> SUFFICES ASSUME NEW i \in 1..Len(stream') PROVE stream'[i] \in InStream \cup {m}
    BY DEF InStream
  <2>1. i \in 1..Len(stream) \/ i = Len(stream) + 1
    BY <1>2
  <2> QED
    BY <1>2, <2>1 DEF InStream
<1>4. InStream \subseteq InStream'
  <2> SUFFICES ASSUME NEW i \in 1..Len(stream) PROVE stream[i] \in InStream'
    BY DEF InStream
  <2>1. i \in 1..Len(stream')
    BY <1>2
  <2> QED
    BY <1>2, <2>1 DEF InStream
<1>5. m \in InStream'
  <2>1. Len(stream) + 1 \in 1..Len(stream')
    BY <1>2
  <2> QED
    BY <1>2, <2>1 DEF InStream
<1> QED
  BY <1>3, <1>4, <1>5

-----------------------------------------------------------------------------
(* The steps of a worker                                                    *)

LEMMA ClaimKeeps ==
  ASSUME Calm, TypeOK, Work, Exclusion, Exclusion', NEW w \in Workers, Claim(w),
         UNCHANGED <<rpc, subject, app, sweep>>
  PROVE  Work'
<1>1. PICK m \in Messages : (XAutoClaim(m) \/ XReadGroup(m)) /\ job' = [job EXCEPT ![w] = m]
  BY DEF Claim
<1> DEFINE a == m.audit
<1>2. a \in Audits /\ m # NoMsg
  BY NoMsgAssumption DEF Messages
<1>3. InStream' \cup pel' = InStream \cup pel /\ m \in InStream \cup pel /\ m \in pel'
  BY <1>1, Claiming
<1>4. \A b : Queued(b)' <=> Queued(b)
  BY <1>3 DEF Queued
<1>5. Queued(a) /\ AuditOK(a)
  BY <1>2, <1>3 DEF Queued, Work
<1>6. /\ \A v \in Workers : /\ wpc'[v] = IF v = w THEN "claimed" ELSE wpc[v]
                            /\ job'[v] = IF v = w THEN m ELSE job[v]
      /\ wpc[w] = "slot" /\ UNCHANGED <<live, pending, lock, slots, glocked, disk>>
  BY <1>1 DEF Claim, Goto, TypeOK, WorkerTypeOK, keyVars
<1>7. job[w] = NoMsg
  BY <1>6 DEF Work, WorkerOK
<1>8. InWork(a)' <=> InWork(a)
  BY <1>6 DEF InWork, At
<1>9. AuditOK(a)'
  <2>1. ~Fresh(a)
    BY <1>5 DEF Fresh
  <2>2. lock[a] > 0 => \E v \in Workers : wpc'[v] \in Section /\ At(v)' = a
    <3> SUFFICES ASSUME lock[a] > 0 PROVE \E v \in Workers : wpc'[v] \in Section /\ At(v)' = a
      OBVIOUS
    <3>1. PICK v \in Workers : wpc[v] \in Section /\ At(v) = a
      BY <1>5 DEF AuditOK
    <3> QED
      BY <1>6, <3>1, SectionParts DEF At
  <2> QED
    BY <1>4, <1>5, <1>6, <1>8, <2>1, <2>2 DEF AuditOK, Active, HasReport
<1>10. WorkerOK(w)'
  BY <1>3, <1>6 DEF WorkerOK
<1>11. Active(a)' <=> Active(a)
  BY <1>6 DEF Active
<1>12. HasReport(a)' <=> HasReport(a)
  BY <1>6 DEF HasReport
<1> HIDE DEF a
<1> QED
  BY <1>2, <1>4, <1>5, <1>6, <1>7, <1>8, <1>9, <1>10, <1>11, <1>12, WorkerKeeps DEF a

(* The refused worker finds the lock with a worker that is at the job, or   *)
(* through with it.                                                         *)
LEMMA LockKnown ==
  ASSUME Work, Exclusion, NEW a \in Audits, lock[a] > 0
  PROVE  InWork(a) \/ ~Active(a)
<1>1. PICK v \in Workers : wpc[v] \in Section /\ At(v) = a
  BY DEF Work, AuditOK
<1>2. WorkerOK(v)
  BY DEF Work
<1>3. CASE wpc[v] \in {"xack", "srem", "unlock"}
  BY <1>1, <1>2, <1>3 DEF WorkerOK
<1>4. CASE wpc[v] \in {"exec", "run", "publish", "settle", "fail"}
  BY <1>1, <1>4 DEF InWork
<1> QED
  BY <1>1, <1>3, <1>4, SectionParts

LEMMA RefusedKeeps ==
  ASSUME Calm, TypeOK, Work, Exclusion, Exclusion', NEW w \in Workers, AcquireRefused(w),
         UNCHANGED <<rpc, subject, app, sweep>>
  PROVE  Work'
<1>0. PICK a \in Audits : a = At(w) /\ Carried(a) /\ AuditOK(a) /\ disk[a].owner
                          /\ (job[w] = NoMsg \/ job[w].audit = a)
  BY HasEntry DEF AcquireRefused, Goto
<1>1. /\ \A v \in Workers : /\ wpc'[v] = IF v = w THEN "dropack" ELSE wpc[v]
                            /\ job'[v] = job[v] /\ At(v)' = At(v)
      /\ wpc[w] = "claimed" /\ lock[a] > 0
      /\ UNCHANGED <<live, stream, pel, idle, pending, lock, disk>>
  BY <1>0 DEF AcquireRefused, Goto, TypeOK, WorkerTypeOK, busVars, queueVars, keyVars, At
<1>3. InWork(a) \/ ~Active(a)
  BY <1>0, <1>1, LockKnown
<1>4. \A b : /\ Queued(b)' <=> Queued(b)
             /\ InWork(b)' <=> InWork(b)
             /\ Active(b)' <=> Active(b)
             /\ HasReport(b)' <=> HasReport(b)
  BY <1>1 DEF Queued, InStream, InWork, Active, HasReport
<1>5. AuditOK(a)'
  <2>1. ~Fresh(a)
    BY <1>0 DEF Fresh
  <2>2. \E v \in Workers : wpc'[v] \in Section /\ At(v)' = a
    <3>1. PICK v \in Workers : wpc[v] \in Section /\ At(v) = a
      BY <1>0, <1>1 DEF AuditOK
    <3> QED
      BY <1>1, <3>1, SectionParts
  <2> QED
    BY <1>0, <1>1, <1>4, <2>1, <2>2 DEF AuditOK, Enqueuing
<1>6. WorkerOK(w)'
  BY <1>0, <1>1, <1>3, <1>4 DEF WorkerOK
<1> QED
  BY <1>0, <1>1, <1>4, <1>5, <1>6, WorkerKeeps

(* A step of the worker that is at the job of a, or gets to it.             *)
LEMMA RunKeeps ==
  ASSUME Calm, TypeOK, Work, Exclusion, Exclusion', NEW w \in Workers, NEW a \in Audits,
         a = At(w),
         wpc[w] \in {"claimed", "exec", "run", "publish"},
         NEW to \in {"exec", "run", "publish", "settle"},
         wpc' = [wpc EXCEPT ![w] = to],
         UNCHANGED <<rpc, subject, app, sweep, job, queueVars>>,
         \A b \in Audits \ {a} :
           live'[b] = live[b] /\ disk'[b] = disk[b] /\ lock'[b] = lock[b],
         live'[a] = live[a] \/ (wpc[w] \in Section /\ live'[a] = "running"),
         disk'[a].owner = disk[a].owner,
         disk'[a].report # "questions",
         HasReport(a) => HasReport(a)',
         to \in {"publish", "settle"} => HasReport(a)'
  PROVE  Work'
<1>1. /\ \A v \in Workers : /\ wpc'[v] = IF v = w THEN to ELSE wpc[v]
                            /\ job'[v] = job[v] /\ At(v)' = At(v)
      /\ UNCHANGED <<stream, pel, idle, pending>>
  BY DEF TypeOK, WorkerTypeOK, queueVars, At
<1>2. /\ Carried(a) /\ AuditOK(a) /\ disk[a].owner /\ job[w].audit = a
      /\ Active(a) \/ HasReport(a)
  BY HasEntry, SectionParts DEF At
<1>3. \A b : Queued(b)' <=> Queued(b)
  BY <1>1 DEF Queued, InStream
<1>4. InWork(a)' /\ \E v \in Workers : wpc'[v] \in Section /\ At(v)' = a
  BY <1>1, SectionParts DEF InWork
<1>5. Active(a)' => Active(a) \/ wpc[w] \in Section
  BY DEF Active
<1>6. AuditOK(a)'
  <2>1. Active(a)' \/ HasReport(a)'
    BY <1>2 DEF Active
  <2>2. live'[a] = "reported" => HasReport(a)'
    BY <1>2 DEF AuditOK
  <2> QED
    BY <1>2, <1>4, <2>1, <2>2 DEF AuditOK
<1>7. WorkerOK(w)'
  BY <1>1, NoMsgAssumption DEF WorkerOK, Work
<1>8. /\ job[w] = NoMsg \/ job[w].audit = a
      /\ job'[w] = NoMsg \/ job'[w].audit = a
      /\ \A v \in Workers \ {w} : wpc'[v] = wpc[v] /\ job'[v] = job[v]
      /\ \A b \in Audits \ {a} :
           /\ live'[b] = live[b] /\ disk'[b] = disk[b] /\ lock'[b] = lock[b]
           /\ b \in pending' <=> b \in pending
           /\ Queued(b)' <=> Queued(b)
  BY <1>1, <1>2, <1>3
<1>9. UNCHANGED <<rpc, subject, app, sweep>>
  OBVIOUS
<1> QED
  BY <1>2, <1>4, <1>5, <1>6, <1>7, <1>8, <1>9, WorkerKeeps

(* A step of the worker whose job is over.                                  *)
LEMMA OverKeeps ==
  ASSUME Calm, TypeOK, Work, Exclusion, Exclusion', NEW w \in Workers, NEW a \in Audits,
         a = At(w),
         wpc[w] \in Section,
         NEW to \in {"xack", "srem", "unlock", "unslot"},
         wpc' = [wpc EXCEPT ![w] = to],
         UNCHANGED <<rpc, subject, app, sweep, job, stream, disk>>,
         \A b \in Audits \ {a} : live'[b] = live[b] /\ lock'[b] = lock[b],
         pending' = pending \/ pending' = pending \ {a},
         pel' = pel \/ pel' = pel \ {job[w]},
         ~Active(a)', HasReport(a),
         to = "unslot" => lock'[a] = 0
  PROVE  Work'
<1>1. /\ \A v \in Workers : /\ wpc'[v] = IF v = w THEN to ELSE wpc[v]
                            /\ job'[v] = job[v] /\ At(v)' = At(v)
      /\ disk'[a] = disk[a]
  BY DEF TypeOK, WorkerTypeOK, At
<1>2. Carried(a) /\ AuditOK(a) /\ disk[a].owner /\ job[w].audit = a
  BY HasEntry DEF At
<1>3. \A b \in Audits \ {a} : /\ Queued(b)' <=> Queued(b)
                              /\ b \in pending' <=> b \in pending
                              /\ disk'[b] = disk[b]
  BY <1>2 DEF Queued, InStream
<1>4. HasReport(a)'
  BY <1>1 DEF HasReport
<1>5. AuditOK(a)'
  <2>1. lock'[a] > 0 => \E v \in Workers : wpc'[v] \in Section /\ At(v)' = a
    <3>1. CASE to = "unslot"
      BY <3>1
    <3>2. CASE to # "unslot"
      BY <1>1, <3>2, SectionParts
    <3> QED
      BY <3>1, <3>2
  <2> QED
    BY <1>1, <1>2, <1>4, <2>1 DEF AuditOK
<1>6. WorkerOK(w)'
  BY <1>1, NoMsgAssumption DEF WorkerOK, Work
<1> QED
  BY <1>1, <1>2, <1>3, <1>4, <1>5, <1>6, WorkerKeeps

(* A step of the worker that was refused the lock.                          *)
LEMMA DropKeeps ==
  ASSUME Calm, TypeOK, Work, Exclusion, Exclusion', NEW w \in Workers, NEW a \in Audits,
         a = At(w),
         wpc[w] \in {"dropack", "dropsrem"},
         NEW to \in {"dropsrem", "unslot"},
         wpc' = [wpc EXCEPT ![w] = to],
         UNCHANGED <<rpc, subject, app, sweep, job, stream, disk, live, lock>>,
         pending' = pending \/ pending' = pending \ {a},
         pel' = pel \/ pel' = pel \ {job[w]}
  PROVE  Work'
<1>1. \A v \in Workers : /\ wpc'[v] = IF v = w THEN to ELSE wpc[v]
                         /\ job'[v] = job[v] /\ At(v)' = At(v)
  BY DEF TypeOK, WorkerTypeOK, At
<1>2. /\ Carried(a) /\ AuditOK(a) /\ disk[a].owner /\ job[w].audit = a
      /\ Active(a) \/ HasReport(a)
  BY HasEntry DEF At
<1>3. InWork(a) \/ ~Active(a)
  BY DEF Work, WorkerOK
<1>4. \A b \in Audits \ {a} : /\ Queued(b)' <=> Queued(b)
                              /\ b \in pending' <=> b \in pending
  BY <1>2 DEF Queued, InStream
<1>5. \A b : /\ InWork(b)' <=> InWork(b)
             /\ Active(b)' <=> Active(b)
             /\ HasReport(b)' <=> HasReport(b)
  BY <1>1 DEF InWork, Active, HasReport
<1>6. AuditOK(a)'
  <2>1. lock[a] > 0 => \E v \in Workers : wpc'[v] \in Section /\ At(v)' = a
    <3> SUFFICES ASSUME lock[a] > 0 PROVE \E v \in Workers : wpc'[v] \in Section /\ At(v)' = a
      OBVIOUS
    <3>1. PICK v \in Workers : wpc[v] \in Section /\ At(v) = a
      BY <1>2 DEF AuditOK
    <3> QED
      BY <1>1, <3>1, SectionParts
  <2> QED
    BY <1>2, <1>3, <1>5, <2>1 DEF AuditOK
<1>7. WorkerOK(w)'
  BY <1>1, <1>3, <1>5 DEF WorkerOK
<1> QED
  BY <1>1, <1>2, <1>4, <1>5, <1>6, <1>7, WorkerKeeps

LEMMA StillWorking ==
  ASSUME Calm, TypeOK, Work, Exclusion, Exclusion', NEW w \in Workers, Working(w)
  PROVE  Work'
<1> USE DEF Working, apiVars, lifeVars, busVars, queueVars, keyVars
<1>0. UNCHANGED <<rpc, subject, app, sweep>>
  OBVIOUS
<1>w. WorkerOK(w) /\ w \notin dead /\ (w \in due => wpc[w] \in Threaded)
  BY DEF Work, Exclusion, Beating
<1>t. /\ wpc \in [Workers -> Section \cup Outside]
      /\ job \in [Workers -> Messages \cup {NoMsg}]
      /\ live \in [Audits -> Statuses]
      /\ lock \in [Audits -> 0..LockTtl]
      /\ disk \in [Audits -> Folder]
  BY DEF TypeOK, WorkerTypeOK, BusTypeOK, StoreTypeOK
<1>c. wpc[w] \in Section \cup {"claimed", "dropack", "dropsrem"} =>
        \E a \in Audits : /\ a = At(w) /\ AuditOK(a) /\ disk[a].owner
                          /\ Active(a) \/ HasReport(a)
  BY HasEntry
<1>1. CASE TakeSlot(w) \/ ClaimNothing(w) \/ ReleaseSlot(w)
  <2>1. /\ \A v \in Workers \ {w} : wpc'[v] = wpc[v] /\ job'[v] = job[v]
        /\ wpc[w] \in {"idle", "slot", "unslot"} /\ wpc'[w] \in {"idle", "slot", "unslot"}
        /\ job'[w] = job[w] \/ job'[w] = NoMsg
        /\ wpc'[w] \in {"idle", "slot"} => job'[w] = NoMsg
        /\ UNCHANGED <<live, queueVars, lock, disk>>
    BY <1>1, <1>t, <1>w DEF TakeSlot, ClaimNothing, ReleaseSlot, Goto, WorkerOK
  <2> QED
    BY <1>0, <2>1, OutsideKeeps
<1>2. CASE Claim(w)
  BY <1>0, <1>2, ClaimKeeps
<1>3. CASE AcquireRefused(w)
  BY <1>0, <1>3, RefusedKeeps
<1>4. CASE OwnerMissing(w)
  BY <1>4, <1>c, SectionParts DEF OwnerMissing, Goto
<1>5. CASE AcquireAudit(w)
  <2>1. PICK a \in Audits : a = At(w) /\ AuditOK(a)
    BY <1>5, <1>c DEF AcquireAudit, Goto
  <2>2. /\ wpc[w] = "claimed" /\ wpc' = [wpc EXCEPT ![w] = "exec"]
        /\ \A b \in Audits \ {a} : lock'[b] = lock[b]
        /\ UNCHANGED <<live, queueVars, job, disk>>
    BY <1>5, <1>t, <2>1 DEF AcquireAudit, TryLock, Goto
  <2>3. disk'[a].report # "questions" /\ (HasReport(a) => HasReport(a)')
    BY <2>1, <2>2 DEF AuditOK, HasReport
  <2> QED
    BY <1>0, <2>1, <2>2, <2>3, RunKeeps
<1>6. CASE StartRun(w) \/ EnterStage(w)
  <2>1. PICK a \in Audits : a = At(w) /\ AuditOK(a)
    BY <1>6, <1>c, SectionParts DEF StartRun, EnterStage, Goto
  <2>2. /\ wpc[w] \in {"exec", "run"} /\ wpc' = [wpc EXCEPT ![w] = "run"]
        /\ UNCHANGED <<queueVars, job, disk>>
    BY <1>6, <1>t DEF StartRun, EnterStage, Goto, workerVars
  <2>3. /\ \A b \in Audits \ {a} : live'[b] = live[b] /\ lock'[b] = lock[b]
        /\ live'[a] = "running"
    BY <1>6, <1>t, <2>1 DEF StartRun, EnterStage, SetProgress, SetStatus, Touched
  <2>4. disk'[a].report # "questions" /\ (HasReport(a) => HasReport(a)')
    BY <2>1, <2>2 DEF AuditOK, HasReport
  <2>5. wpc[w] \in Section
    BY <2>2, SectionParts
  <2> QED
    BY <1>0, <2>1, <2>2, <2>3, <2>4, <2>5, RunKeeps
<1>7. CASE Beat(w)
  <2>1. wpc[w] \in {"run", "publish"} /\ wpc[w] \in Section
    BY <1>7, <1>w, SectionParts DEF Beat
  <2>2. PICK a \in Audits : a = At(w) /\ AuditOK(a)
    BY <1>c, <2>1
  <2>3. wpc' = [wpc EXCEPT ![w] = wpc[w]] /\ UNCHANGED <<live, queueVars, job, disk>>
    BY <1>7, <1>t DEF Beat
  <2>4. \A b \in Audits \ {a} : lock'[b] = lock[b]
    BY <1>7, <1>t, <2>2 DEF Beat, Touched
  <2>5. /\ disk'[a].report # "questions" /\ (HasReport(a) => HasReport(a)')
        /\ wpc[w] \in {"publish", "settle"} => HasReport(a)'
    BY <1>w, <2>2, <2>3 DEF AuditOK, WorkerOK, HasReport
  <2> QED
    BY <1>0, <2>1, <2>2, <2>3, <2>4, <2>5, RunKeeps
<1>8. CASE SkipExplain(w)
  <2>1. PICK a \in Audits : a = At(w) /\ AuditOK(a)
    BY <1>8, <1>c, SectionParts DEF SkipExplain, Goto
  <2>2. /\ wpc[w] = "run" /\ wpc' = [wpc EXCEPT ![w] = "settle"]
        /\ UNCHANGED <<live, lock, queueVars, job, disk>>
    BY <1>8 DEF SkipExplain, Goto
  <2>3. HasReport(a)' /\ disk'[a].report # "questions"
    BY <1>8, <2>1, <2>2 DEF SkipExplain, Complete, AuditOK, HasReport
  <2> QED
    BY <1>0, <2>1, <2>2, <2>3, RunKeeps
<1>9. CASE WriteReport(w)
  <2>1. PICK a \in Audits : a = At(w) /\ AuditOK(a)
    BY <1>9, <1>c, SectionParts DEF WriteReport, Goto
  <2>2. /\ wpc[w] = "run" /\ wpc' = [wpc EXCEPT ![w] = "publish"]
        /\ UNCHANGED <<live, lock, queueVars, job>>
    BY <1>9 DEF WriteReport, Goto
  <2>3. PICK r \in Outcomes : disk' = [disk EXCEPT ![a].report = r, ![a].old = FALSE]
    BY <1>9, <2>1 DEF WriteReport, Published
  <2>4. r = "clean"
    BY <2>3 DEF Calm
  <2>5. /\ \A b \in Audits \ {a} : disk'[b] = disk[b]
        /\ disk'[a].owner = disk[a].owner /\ disk'[a].report = "clean"
    BY <1>t, <2>1, <2>3, <2>4 DEF Folder
  <2>6. HasReport(a)'
    BY <2>5 DEF HasReport
  <2> QED
    BY <1>0, <2>1, <2>2, <2>5, <2>6, RunKeeps
<1>10. CASE WriteMeta(w)
  <2>1. PICK a \in Audits : a = At(w) /\ AuditOK(a)
    BY <1>10, <1>c, SectionParts DEF WriteMeta, Goto
  <2>2. /\ wpc[w] = "publish" /\ wpc' = [wpc EXCEPT ![w] = "settle"]
        /\ UNCHANGED <<live, lock, queueVars, job>>
    BY <1>10 DEF WriteMeta, Goto
  <2>3. /\ \A b \in Audits \ {a} : disk'[b] = disk[b]
        /\ disk'[a].owner = disk[a].owner /\ disk'[a].report = disk[a].report
    BY <1>10, <1>t, <2>1 DEF WriteMeta, Committed, Folder
  <2>4. HasReport(a)' /\ disk'[a].report # "questions"
    BY <1>w, <2>1, <2>2, <2>3 DEF WorkerOK, AuditOK, HasReport
  <2> QED
    BY <1>0, <2>1, <2>2, <2>3, <2>4, RunKeeps
<1>11. CASE SetTerminal(w)
  <2>1. wpc[w] = "settle" /\ wpc[w] \in Section
    BY <1>11, <1>w, SectionParts DEF SetTerminal, WorkerOK
  <2>2. PICK a \in Audits : a = At(w) /\ AuditOK(a)
    BY <1>c, <2>1
  <2>3. /\ wpc' = [wpc EXCEPT ![w] = "xack"]
        /\ live' = [live EXCEPT ![a] = "reported"]
        /\ UNCHANGED <<lock, stream, pel, pending, job, disk>>
    BY <1>11, <2>1, <2>2 DEF SetTerminal, SetStatus
  <2>4. HasReport(a) /\ ~Active(a)' /\ \A b \in Audits \ {a} : live'[b] = live[b]
    BY <1>t, <1>w, <2>1, <2>2, <2>3 DEF WorkerOK, Active
  <2> QED
    BY <1>0, <2>1, <2>2, <2>3, <2>4, OverKeeps
<1>12. CASE Acknowledge(w) \/ ForgetPending(w)
  <2>1. wpc[w] \in {"xack", "srem"} /\ wpc[w] \in Section
    BY <1>12, SectionParts DEF Acknowledge, ForgetPending, Goto
  <2>2. PICK a \in Audits : a = At(w) /\ (Active(a) \/ HasReport(a))
    BY <1>c, <2>1
  <2>3. /\ wpc' = [wpc EXCEPT ![w] = "srem"] \/ wpc' = [wpc EXCEPT ![w] = "unlock"]
        /\ UNCHANGED <<live, lock, stream, job, disk>>
        /\ pending' = pending \/ pending' = pending \ {a}
        /\ pel' = pel \/ pel' = pel \ {job[w]}
    BY <1>12, <2>2 DEF Acknowledge, ForgetPending, XAck, Goto
  <2>4. HasReport(a) /\ ~Active(a)'
    BY <1>w, <2>1, <2>2, <2>3 DEF WorkerOK, Active
  <2> QED
    BY <1>0, <2>1, <2>2, <2>3, <2>4, OverKeeps
<1>13. CASE ReleaseAudit(w)
  <2>1. wpc[w] = "unlock" /\ wpc[w] \in Section
    BY <1>13, SectionParts DEF ReleaseAudit, Goto
  <2>2. PICK a \in Audits : a = At(w) /\ (Active(a) \/ HasReport(a))
    BY <1>c, <2>1
  <2>3. /\ wpc' = [wpc EXCEPT ![w] = "unslot"]
        /\ UNCHANGED <<live, stream, pel, pending, job, disk>>
        /\ lock'[a] = 0 /\ \A b \in Audits \ {a} : lock'[b] = lock[b]
    BY <1>13, <1>t, <2>2 DEF ReleaseAudit, Unlock, Goto
  <2>4. HasReport(a) /\ ~Active(a)'
    BY <1>w, <2>1, <2>2, <2>3 DEF WorkerOK, Active
  <2> QED
    BY <1>0, <2>1, <2>2, <2>3, <2>4, OverKeeps
<1>14. CASE DropMessage(w) \/ DropPending(w)
  <2>1. wpc[w] \in {"dropack", "dropsrem"}
    BY <1>14 DEF DropMessage, DropPending, Goto
  <2>2. PICK a \in Audits : a = At(w)
    BY <1>c, <2>1
  <2>3. /\ wpc' = [wpc EXCEPT ![w] = "dropsrem"] \/ wpc' = [wpc EXCEPT ![w] = "unslot"]
        /\ UNCHANGED <<live, lock, stream, job, disk>>
        /\ pending' = pending \/ pending' = pending \ {a}
        /\ pel' = pel \/ pel' = pel \ {job[w]}
    BY <1>14, <2>2 DEF DropMessage, DropPending, XAck, Goto
  <2> QED
    BY <1>0, <2>1, <2>2, <2>3, DropKeeps
<1>15. ~RunFails(w) /\ ~BeatErrorRaised(w) /\ ~BeatFails(w)
  BY <1>w DEF Calm, RunFails, BeatErrorRaised, BeatFails
<1>16. ~WorkerFault(w)
  BY DEF Calm, TypeOK, BusTypeOK, WorkerFault, GuardedFault, OutsideFault, SlotFault, LostClaim,
     LostAcquire, CountFault
<1> QED
  BY <1>1, <1>2, <1>3, <1>4, <1>5, <1>6, <1>7, <1>8, <1>9, <1>10, <1>11, <1>12,
     <1>13, <1>14, <1>15, <1>16 DEF WorkerStep, Advance

-----------------------------------------------------------------------------
(* The steps of a caller                                                    *)

LEMMA CallerKeeps ==
  ASSUME Calm, TypeOK, Work, Exclusion, NEW c \in Callers, NEW a \in Audits,
         \A d \in Callers \ {c} :
           rpc[d] = "idle" /\ rpc'[d] = "idle",
         rpc[c] # "idle" => subject[c] = a,
         rpc'[c] # "idle" => subject'[c] = a,
         UNCHANGED <<wpc, job, lock, pel>>,
         \A b \in Audits \ {a} :
           /\ live'[b] = live[b] /\ disk'[b] = disk[b]
           /\ b \in pending' <=> b \in pending
           /\ Queued(b)' <=> Queued(b),
         disk'[a].report = disk[a].report,
         Active(a)' => Active(a) \/ ~Carried(a),
         AuditOK(a)', CallerOK(c)', Turns'
  PROVE  Work'
<1>1. \A b : /\ Carried(b)' <=> Carried(b)
             /\ InWork(b)' <=> InWork(b)
  BY DEF Carried, InWork, At
<1>2. ASSUME NEW b \in Audits \ {a}
      PROVE  /\ Enqueuing(b)' <=> Enqueuing(b)
             /\ Active(b)' <=> Active(b)
             /\ HasReport(b)' <=> HasReport(b)
  BY DEF Enqueuing, Active, HasReport
<1>3. ASSUME NEW b \in Audits \ {a} PROVE AuditOK(b)'
  <2>1. AuditOK(b)
    BY DEF Work
  <2>2. Fresh(b)' <=> Fresh(b)
    BY <1>1 DEF Fresh
  <2>3. lock'[b] > 0 => \E v \in Workers : wpc'[v] \in Section /\ At(v)' = b
    BY <2>1 DEF AuditOK, At
  <2> QED
    BY <1>1, <1>2, <2>1, <2>2, <2>3 DEF AuditOK
<1>4. ASSUME NEW v \in Workers PROVE WorkerOK(v)'
  <2>1. WorkerOK(v) /\ wpc'[v] = wpc[v] /\ job'[v] = job[v] /\ At(v)' = At(v)
    BY DEF Work, At
  <2>2. wpc[v] \in {"publish", "settle", "xack", "srem", "unlock", "dropack", "dropsrem"} =>
          At(v) \in Audits /\ Carried(At(v))
    BY HasEntry, SectionParts
  <2>3. Carried(At(v)) /\ At(v) \in Audits =>
          /\ HasReport(At(v))' <=> HasReport(At(v))
          /\ Active(At(v))' => Active(At(v))
    BY <1>2, <2>1 DEF HasReport
  <2> QED
    BY <1>1, <2>1, <2>2, <2>3 DEF WorkerOK
<1>5. ASSUME NEW d \in Callers PROVE CallerOK(d)'
  <2>1. CASE d = c
    BY <2>1
  <2>2. CASE d # c
    BY <2>2 DEF CallerOK
  <2> QED
    BY <2>1, <2>2
<1>6. \A b \in Audits : AuditOK(b)'
  BY <1>3
<1> QED
  BY <1>4, <1>5, <1>6 DEF Work

(* The pair mark_queued, enqueue finds the audit untouched and leaves it    *)
(* queued with an entry.                                                    *)
LEMMA EnqueueKeeps ==
  ASSUME Calm, TypeOK, Work, Exclusion, NEW c \in Callers, Enqueue(c, Held),
         \A d \in Callers \ {c} : rpc[d] = "idle",
         UNCHANGED <<workerVars, app, sweep>>,
         (app = "up" /\ c \in Requests) \/ (app = "boot" /\ c = Boot)
  PROVE  Work'
<1> USE DEF workerVars, busVars, queueVars, keyVars
<1>t. /\ rpc \in [Callers -> ApiSteps]
      /\ subject \in [Callers -> Audits \cup {NoAudit}]
      /\ live \in [Audits -> Statuses]
      /\ \A d \in Callers : rpc[d] # "idle" => subject[d] \in Audits
  BY DEF TypeOK, ApiTypeOK, BusTypeOK
<1>0. rpc[c] # "idle"
  BY DEF Enqueue, ReadStatus, WriteQueued, AlreadyPending, AddPending, AppendEntry, Proceeds
<1>1. PICK a \in Audits : a = subject[c]
  BY <1>0, <1>t
<1>2. CallerOK(c) /\ AuditOK(a)
  BY DEF Work
<1>3. /\ rpc' = [rpc EXCEPT ![c] = rpc'[c]]
      /\ subject'[c] = a \/ rpc'[c] = "idle"
      /\ UNCHANGED <<wpc, job, lock, pel, disk>>
  BY <1>1, <1>t DEF Enqueue, ReadStatus, WriteQueued, AlreadyPending, AddPending, AppendEntry,
     Proceeds, Answered
<1>4. Turns'
  BY <1>3, <1>t, CallerAssumption DEF Turns, Work, Callers
<1>5. \A b : /\ Carried(b)' <=> Carried(b)
             /\ InWork(b)' <=> InWork(b)
             /\ HasReport(b)' <=> HasReport(b)
  BY <1>3 DEF Carried, InWork, At, HasReport
<1>6. lock'[a] > 0 => \E v \in Workers : wpc'[v] \in Section /\ At(v)' = a
  BY <1>2, <1>3 DEF AuditOK, At
<1>7. \A d \in Callers \ {c} : rpc[d] = "idle" /\ rpc'[d] = "idle"
  BY <1>3, <1>t
<1>8. /\ Active(a)' => Active(a) \/ ~Carried(a)
      /\ AuditOK(a)' /\ CallerOK(c)'
      /\ \A b \in Audits \ {a} : /\ live'[b] = live[b]
                                 /\ b \in pending' <=> b \in pending
                                 /\ Queued(b)' <=> Queued(b)
  <2>1. CASE ReadStatus(c)
    <3>1. rpc'[c] = "hset" /\ UNCHANGED <<live, stream, pel, pending>>
          /\ rpc[c] \in {"hget", "replace"}
      BY <1>1, <1>2, <1>t, <2>1 DEF ReadStatus, Proceeds, CallerOK, AuditOK
    <3>2. \A b : /\ Queued(b)' <=> Queued(b)
                 /\ Active(b)' <=> Active(b)
                 /\ Fresh(b)' <=> Fresh(b)
      BY <1>5, <3>1 DEF Queued, InStream, Active, Fresh
    <3>3. AuditOK(a)'
      BY <1>1, <1>2, <1>3, <1>5, <1>6, <3>1, <3>2 DEF AuditOK, CallerOK
    <3>4. CallerOK(c)'
      BY <1>1, <1>2, <1>3, <1>5, <3>1, <3>2 DEF CallerOK
    <3> QED
      BY <3>1, <3>2, <3>3, <3>4
  <2>2. CASE WriteQueued(c)
    <3>1. /\ rpc[c] = "hset" /\ rpc'[c] = "sadd"
          /\ live' = [live EXCEPT ![a] = "queued"]
          /\ UNCHANGED <<stream, pel, pending>>
      BY <1>1, <1>t, <2>2 DEF WriteQueued, Proceeds, SetStatus
    <3>2. \A b : /\ Queued(b)' <=> Queued(b)
                 /\ Fresh(b)' <=> Fresh(b)
      BY <1>5, <3>1 DEF Queued, InStream, Fresh
    <3>3. /\ live'[a] = "queued" /\ Active(a)'
          /\ \A b \in Audits \ {a} : live'[b] = live[b]
      BY <1>t, <3>1 DEF Active
    <3>4. Fresh(a) /\ ~Carried(a) /\ Enqueuing(a)'
      BY <1>0, <1>1, <1>2, <1>3, <3>1 DEF CallerOK, Fresh, Enqueuing
    <3>5. AuditOK(a)'
      BY <1>2, <1>3, <1>6, <3>2, <3>3, <3>4 DEF AuditOK
    <3>6. CallerOK(c)'
      BY <1>0, <1>1, <1>2, <1>3, <3>1, <3>2, <3>3, <3>4 DEF CallerOK
    <3> QED
      BY <3>1, <3>2, <3>3, <3>4, <3>5, <3>6
  <2>3. CASE AlreadyPending(c)
    BY <1>1, <1>2, <2>3 DEF AlreadyPending, CallerOK, Fresh
  <2>4. CASE AddPending(c)
    <3>1. /\ rpc[c] = "sadd" /\ rpc'[c] = "xadd" /\ pending' = pending \cup {a}
          /\ UNCHANGED <<live, stream, pel>>
      BY <1>1, <1>t, <2>4 DEF AddPending, Proceeds
    <3>2. \A b : /\ Queued(b)' <=> Queued(b)
                 /\ Active(b)' <=> Active(b)
      BY <3>1 DEF Queued, InStream, Active
    <3>3. live[a] = "queued" /\ Active(a) /\ Fresh(a) /\ disk[a].owner /\ Enqueuing(a)'
      BY <1>0, <1>1, <1>2, <1>3, <3>1 DEF CallerOK, Active, Enqueuing
    <3>4. AuditOK(a)'
      BY <1>2, <1>3, <1>6, <3>1, <3>2, <3>3 DEF AuditOK
    <3>5. CallerOK(c)'
      BY <1>1, <1>3, <1>5, <3>1, <3>2, <3>3 DEF CallerOK, Fresh
    <3> QED
      BY <3>1, <3>2, <3>4, <3>5
  <2>5. CASE AppendEntry(c, Held)
    <3>1. \E m : m.audit = a /\ stream' = Append(stream, m)
      BY <1>1, <2>5 DEF AppendEntry, XAdd
    <3>2. \E m : m.audit = a /\ InStream' = InStream \cup {m}
      BY <3>1, Appending
    <3>3. /\ rpc[c] = "xadd" /\ rpc'[c] = "idle" /\ UNCHANGED <<live, pel, pending>>
      BY <1>t, <2>5 DEF AppendEntry, Answered
    <3>4. Queued(a)' /\ \A b \in Audits \ {a} : Queued(b)' <=> Queued(b)
      BY <3>2, <3>3 DEF Queued
    <3>5. live[a] = "queued" /\ disk[a].owner /\ Active(a) /\ Active(a)'
      BY <1>0, <1>1, <1>2, <3>3 DEF CallerOK, Active
    <3>6. AuditOK(a)'
      BY <1>2, <1>3, <1>6, <3>3, <3>4, <3>5 DEF AuditOK
    <3>7. CallerOK(c)'
      BY <3>3 DEF CallerOK
    <3> QED
      BY <3>3, <3>4, <3>5, <3>6, <3>7
  <2> QED
    BY <2>1, <2>2, <2>3, <2>4, <2>5 DEF Enqueue
<1> QED
  BY <1>1, <1>3, <1>4, <1>7, <1>8, CallerKeeps

(* A request alone, since there is one at a time and the reconciler is      *)
(* through before the first is served.                                      *)
LEMMA StillServing ==
  ASSUME Calm, TypeOK, Work, Exclusion, NEW r \in Requests, Serving(r)
  PROVE  Work'
<1> USE DEF Serving, lifeVars, workerVars, busVars, queueVars, keyVars
<1>t. /\ rpc \in [Callers -> ApiSteps]
      /\ subject \in [Callers -> Audits \cup {NoAudit}]
      /\ disk \in [Audits -> Folder]
      /\ \A d \in Callers : rpc[d] # "idle" => subject[d] \in Audits
  BY DEF TypeOK, ApiTypeOK, StoreTypeOK
<1>c. r \in Callers /\ \A d \in Callers \ {r} : rpc[d] = "idle"
  BY DEF Calm, Work, Turns, Callers
<1>k. CallerOK(r) /\ (rpc[r] # "idle" => AuditOK(subject[r]))
  BY <1>c, <1>t DEF Work
<1>1. ASSUME NEW a \in Audits, StartUpload(r, a) PROVE Work'
  <2>1. /\ rpc[r] = "idle" /\ rpc' = [rpc EXCEPT ![r] = "recheck"]
        /\ subject' = [subject EXCEPT ![r] = a]
        /\ ~Active(a) /\ ~HasReport(a)
        /\ UNCHANGED <<live, stream, pel, pending, lock, wpc, job, app, sweep>>
    BY <1>1 DEF StartUpload, Begins, LiveOrReport
  <2>2. /\ disk'[a].owner /\ disk'[a].report = disk[a].report
        /\ \A b \in Audits \ {a} : disk'[b] = disk[b]
    BY <1>1, <1>t DEF StartUpload, Stored, Folder
  <2>3. \A b : /\ Queued(b)' <=> Queued(b)
               /\ Carried(b)' <=> Carried(b)
               /\ Active(b)' <=> Active(b)
               /\ Fresh(b)' <=> Fresh(b)
    BY <2>1 DEF Queued, InStream, Carried, Active, Fresh
  <2>4. AuditOK(a)'
    <3>1. AuditOK(a)
      BY DEF Work
    <3>2. lock'[a] > 0 => \E v \in Workers : wpc'[v] \in Section /\ At(v)' = a
      BY <2>1, <3>1 DEF AuditOK, At
    <3>3. HasReport(a)' <=> HasReport(a)
      BY <2>2 DEF HasReport
    <3> QED
      BY <2>1, <2>2, <2>3, <3>1, <3>2, <3>3 DEF AuditOK
  <2>5. CallerOK(r)' /\ rpc'[r] = "recheck" /\ subject'[r] = a
    BY <1>c, <1>t, <2>1, <2>2 DEF CallerOK
  <2>6. \A d \in Callers \ {r} : rpc'[d] = "idle"
    BY <1>c, <1>t, <2>1
  <2>7. Turns'
    BY <2>1, <2>6, CallerAssumption DEF Turns, Work, Callers
  <2> QED
    BY <1>c, <2>1, <2>2, <2>3, <2>4, <2>5, <2>6, <2>7, CallerKeeps
<1>2. ASSUME NEW a \in Audits, StartAnswers(r, a) PROVE FALSE
  BY <1>2 DEF StartAnswers, Work, AuditOK
<1>3. CASE Recheck(r)
  <2>0. PICK a \in Audits : a = subject[r]
    BY <1>3, <1>c, <1>t DEF Recheck
  <2>1. /\ rpc[r] = "recheck" /\ rpc' = [rpc EXCEPT ![r] = rpc'[r]]
        /\ \/ rpc'[r] = "idle"
           \/ rpc'[r] = "hget" /\ subject' = subject /\ ~Active(a) /\ ~HasReport(a)
        /\ UNCHANGED <<live, stream, pel, pending, lock, disk, wpc, job, app, sweep>>
    BY <1>3, <1>c, <1>t, <2>0 DEF Recheck, Proceeds, Answered, LiveOrReport
  <2>2. \A b : /\ Queued(b)' <=> Queued(b)
               /\ Carried(b)' <=> Carried(b)
               /\ InWork(b)' <=> InWork(b)
               /\ Active(b)' <=> Active(b)
               /\ HasReport(b)' <=> HasReport(b)
               /\ Fresh(b)' <=> Fresh(b)
    BY <2>1 DEF Queued, InStream, Carried, InWork, At, Active, HasReport, Fresh
  <2>3. \A d \in Callers \ {r} : rpc'[d] = "idle"
    BY <1>c, <1>t, <2>1
  <2>4. AuditOK(a)'
    <3>1. AuditOK(a)
      BY DEF Work
    <3>2. lock'[a] > 0 => \E v \in Workers : wpc'[v] \in Section /\ At(v)' = a
      BY <2>1, <3>1 DEF AuditOK, At
    <3>3. ~Enqueuing(a)
      BY <1>c, <2>1 DEF Enqueuing
    <3> QED
      BY <2>1, <2>2, <3>1, <3>2, <3>3 DEF AuditOK
  <2>5. CallerOK(r)'
    BY <1>k, <2>0, <2>1, <2>2 DEF CallerOK, AuditOK
  <2>6. Turns'
    BY <1>c, <2>1, <2>3, CallerAssumption DEF Turns, Work, Callers
  <2>7. \A b \in Audits : Active(b)' => Active(b)
    BY <2>2
  <2> QED
    BY <1>c, <2>0, <2>1, <2>2, <2>3, <2>4, <2>5, <2>6, <2>7, CallerKeeps
<1>4. ~GlossaryBusy(r) /\ ~ApplyAnswers(r) /\ ~ReleaseGlossary(r)
  BY <1>k DEF GlossaryBusy, ApplyAnswers, ReleaseGlossary, Proceeds, CallerOK
<1>5. CASE Enqueue(r, Held)
  BY <1>5, <1>c, EnqueueKeeps
<1>6. ~RequestFault(r)
  BY DEF Calm, TypeOK, BusTypeOK, RequestFault, CountFault
<1> QED
  BY <1>1, <1>2, <1>3, <1>4, <1>5, <1>6 DEF RequestStep

-----------------------------------------------------------------------------
(* The steps of the process                                                 *)

(* Steps that change only the clock, or where the process has got to.       *)
LEMMA CalmKeeps ==
  ASSUME TypeOK, Work,
         UNCHANGED <<live, stream, pel, pending, disk, wpc, job, rpc, subject, sweep>>,
         \A a \in Audits : lock'[a] > 0 => lock[a] > 0,
         app' = app \/ (\A c \in Callers : rpc[c] = "idle")
  PROVE  Work'
<1>1. \A b : /\ Queued(b)' <=> Queued(b)
             /\ Carried(b)' <=> Carried(b)
             /\ InWork(b)' <=> InWork(b)
             /\ Enqueuing(b)' <=> Enqueuing(b)
             /\ Active(b)' <=> Active(b)
             /\ HasReport(b)' <=> HasReport(b)
             /\ Fresh(b)' <=> Fresh(b)
  BY DEF Queued, InStream, Carried, InWork, At, Enqueuing, Active, HasReport, Fresh
<1>2. ASSUME NEW a \in Audits PROVE AuditOK(a)'
  <2>1. AuditOK(a)
    BY DEF Work
  <2>2. lock'[a] > 0 => \E v \in Workers : wpc'[v] \in Section /\ At(v)' = a
    BY <2>1 DEF AuditOK, At
  <2> QED
    BY <1>1, <2>1, <2>2 DEF AuditOK
<1>3. ASSUME NEW w \in Workers PROVE WorkerOK(w)'
  <2>1. WorkerOK(w) /\ At(w)' = At(w)
    BY DEF Work, At
  <2> QED
    BY <1>1, <2>1 DEF WorkerOK
<1>4. ASSUME NEW c \in Callers PROVE CallerOK(c)'
  <2>1. CallerOK(c)
    BY DEF Work
  <2> QED
    BY <1>1, <2>1 DEF CallerOK
<1>5. Turns'
  BY DEF Work, Turns, Callers
<1> QED
  BY <1>2, <1>3, <1>4, <1>5 DEF Work

(* The reconciler takes a directory that has neither report nor job.        *)
LEMMA TakeKeeps ==
  ASSUME Calm, TypeOK, Work, Exclusion, NEW a \in Audits, ReconcileTake(a)
  PROVE  Work'
<1>t. /\ rpc \in [Callers -> ApiSteps]
      /\ subject \in [Callers -> Audits \cup {NoAudit}]
  BY DEF TypeOK, ApiTypeOK
<1>1. /\ Boot \in Callers /\ app = "boot" /\ rpc[Boot] = "idle"
      /\ rpc' = [rpc EXCEPT ![Boot] = "replace"] /\ subject' = [subject EXCEPT ![Boot] = a]
      /\ disk[a].owner /\ ~HasReport(a) /\ ~Active(a)
      /\ UNCHANGED <<live, stream, pel, pending, lock, disk, wpc, job, app, sweep>>
  BY DEF ReconcileTake, Begins, Unfinished, Callers, busVars, queueVars, keyVars, workerVars
<1>2. \A d \in Callers \ {Boot} : rpc[d] = "idle" /\ rpc'[d] = "idle"
  BY <1>1, <1>t DEF Work, Turns, Callers
<1>3. \A b : /\ Queued(b)' <=> Queued(b)
             /\ Carried(b)' <=> Carried(b)
             /\ InWork(b)' <=> InWork(b)
             /\ Active(b)' <=> Active(b)
             /\ HasReport(b)' <=> HasReport(b)
             /\ Fresh(b)' <=> Fresh(b)
  BY <1>1 DEF Queued, InStream, Carried, InWork, At, Active, HasReport, Fresh
<1>4. AuditOK(a) /\ Fresh(a)
  BY <1>1 DEF Work, AuditOK
<1>5. AuditOK(a)'
  <2>1. lock'[a] > 0 => \E v \in Workers : wpc'[v] \in Section /\ At(v)' = a
    BY <1>1, <1>4 DEF AuditOK, At
  <2> QED
    BY <1>1, <1>3, <1>4, <2>1 DEF AuditOK
<1>6. rpc'[Boot] = "replace" /\ subject'[Boot] = a
  BY <1>1, <1>t
<1>7. CallerOK(Boot)'
  BY <1>1, <1>3, <1>4, <1>6 DEF CallerOK
<1>8. Turns'
  BY <1>1, <1>2, CallerAssumption DEF Turns, Work, Callers
<1>9. Active(a)' => Active(a)
  BY <1>3
<1> QED
  BY <1>1, <1>2, <1>3, <1>5, <1>6, <1>7, <1>8, <1>9, CallerKeeps

(* After a stop the job that was in work has its entry still, and its lock  *)
(* is released.                                                             *)
LEMMA StopKeeps ==
  ASSUME Calm, TypeOK, Work, Exclusion, Stop
  PROVE  Work'
<1>1. PICK done \in SUBSET {w \in Workers : wpc[w] \in Threaded}, r \in Outcomes :
        disk' = [a \in Audits |->
                   IF (\E w \in done : At(w) = a) /\ ~Complete(a)
                     THEN [disk[a] EXCEPT !.report = r, !.meta = "ready", !.old = FALSE]
                     ELSE disk[a]]
  BY DEF Stop
<1>2. r = "clean"
  BY <1>1 DEF Calm
<1>3. \A a \in Audits : /\ disk'[a].owner = disk[a].owner
                        /\ disk'[a].report = disk[a].report \/ disk'[a].report = "clean"
  BY <1>1, <1>2 DEF TypeOK, StoreTypeOK, Folder
<1>4. /\ \A w \in Workers : wpc'[w] = "idle" /\ job'[w] = NoMsg
      /\ \A c \in Callers : rpc[c] = "idle" /\ rpc'[c] = "idle"
      /\ app' = "down" /\ sweep' = NoAudit /\ "stop" \in RestartKinds
      /\ UNCHANGED <<live, stream, pel, pending>>
  BY DEF Stop, GoesDown, WorkersGone, RequestsGone, queueVars
<1>5. \A b : /\ Queued(b)' <=> Queued(b)
             /\ Active(b)' <=> Active(b)
             /\ ~Carried(b)'
  BY <1>4 DEF Queued, InStream, Active, Carried
<1>6. ASSUME NEW a \in Audits PROVE AuditOK(a)'
  <2>1. AuditOK(a)
    BY DEF Work
  <2>2. Fresh(a) => Fresh(a)'
    BY <1>4, <1>5 DEF Fresh
  <2>3. HasReport(a) => HasReport(a)'
    BY <1>3 DEF HasReport
  <2>4. Active(a) => Queued(a)
    <3>1. ASSUME InWork(a) PROVE Queued(a)
      <4>1. PICK w \in Workers :
              wpc[w] \in {"exec", "run", "publish", "settle", "fail"} /\ At(w) = a
        BY <3>1 DEF InWork
      <4>2. job[w] \in pel
        BY <1>4, <4>1 DEF Work, WorkerOK
      <4> QED
        BY <4>1, <4>2 DEF Queued, At
    <3>2. ~Enqueuing(a)
      BY <1>4 DEF Enqueuing
    <3> QED
      BY <2>1, <3>1, <3>2 DEF AuditOK
  <2>5. ~(lock'[a] > 0)
    <3>1. lock'[a] = IF a \in Locked THEN 0 ELSE lock[a]
      BY DEF Stop
    <3>2. lock[a] > 0 => a \in Locked
      BY <2>1 DEF AuditOK, Locked
    <3> QED
      BY <3>1, <3>2
  <2> QED
    BY <1>3, <1>4, <1>5, <2>1, <2>2, <2>3, <2>4, <2>5 DEF AuditOK
<1>7. \A w \in Workers : WorkerOK(w)'
  BY <1>4 DEF WorkerOK
<1>8. \A c \in Callers : CallerOK(c)'
  BY <1>4 DEF CallerOK
<1>9. Turns'
  BY <1>4 DEF Turns, Callers
<1> QED
  BY <1>6, <1>7, <1>8, <1>9 DEF Work

(* Redis empty: nothing is in work.                                         *)
Empty ==
  /\ live = EmptyBus.live /\ lock = EmptyBus.lock
  /\ stream = <<>> /\ pel = {} /\ pending = {}
  /\ \A w \in Workers : wpc[w] = "idle" /\ job[w] = NoMsg
  /\ \A c \in Callers : rpc[c] = "idle"
  /\ \A a \in Audits : disk[a].report # "questions"
  /\ sweep = NoAudit

LEMMA EmptyOK == Empty => Work
<1> SUFFICES ASSUME Empty PROVE Work
  OBVIOUS
<1> USE DEF Empty
<1>1. InStream = {}
  BY DEF InStream
<1>2. ASSUME NEW a \in Audits PROVE AuditOK(a)
  <2>1. Fresh(a) /\ ~Active(a)
    BY <1>1 DEF Fresh, Queued, Carried, Active, EmptyBus
  <2>2. live[a] = "none" /\ lock[a] = 0
    BY DEF EmptyBus
  <2> QED
    BY <2>1, <2>2 DEF AuditOK
<1>3. (\A w \in Workers : WorkerOK(w)) /\ (\A c \in Callers : CallerOK(c)) /\ Turns
  BY DEF WorkerOK, CallerOK, Turns, Callers
<1> QED
  BY <1>2, <1>3 DEF Work

LEMMA NextKeeps ==
  ASSUME Calm, TypeOK, TypeOK', Exclusion, Exclusion', Work, [Next]_vars
  PROVE  Work'
<1> USE DEF busVars, queueVars, keyVars, workerVars, apiVars, lifeVars
<1>1. ASSUME NEW w \in Workers, Working(w) PROVE Work'
  BY <1>1, StillWorking
<1>2. ASSUME NEW r \in Requests, Serving(r) PROVE Work'
  BY <1>2, StillServing
<1>3. CASE Tick
  <2>1. \A a \in Audits : lock'[a] > 0 => lock[a] > 0
    BY <1>3, TtlAssumption DEF Tick, BusTick, TypeOK, BusTypeOK
  <2> QED
    BY <1>3, <2>1, CalmKeeps DEF Tick, BusTick, WorkerTick
<1>4. ASSUME NEW a \in Audits, SweepLook(a) \/ GrowOld(a) PROVE FALSE
  BY <1>4 DEF Calm, SweepLook, GrowOld
<1>5. ~SweepDelete
  BY DEF SweepDelete, Work, Turns
<1>6. CASE StartProcess \/ StartReconcile \/ StartWorkers \/ \E a \in Audits : ReconcileSkip(a)
  <2>1. app' = app \/ \A c \in Callers : rpc[c] = "idle"
    BY <1>6 DEF StartProcess, StartReconcile, StartWorkers, ReconcileSkip, Work, Turns, Callers
  <2>2. \A a \in Audits : lock'[a] > 0 => lock[a] > 0
    BY <1>6 DEF StartProcess, StartReconcile, StartWorkers, ReconcileSkip
  <2>3. UNCHANGED <<live, stream, pel, pending, disk, wpc, job, rpc, subject, sweep>>
    BY <1>6 DEF StartProcess, StartReconcile, StartWorkers, ReconcileSkip
  <2> QED
    BY <2>1, <2>2, <2>3, CalmKeeps
<1>7. ASSUME NEW a \in Audits, ReconcileTake(a) PROVE Work'
  BY <1>7, TakeKeeps
<1>8. CASE Reconciling
  <2>1. /\ Boot \in Callers /\ app = "boot" /\ Enqueue(Boot, Held)
        /\ UNCHANGED <<workerVars, app, sweep>>
        /\ \A d \in Callers \ {Boot} : rpc[d] = "idle"
    BY <1>8 DEF Reconciling, Callers, Work, Turns
  <2> QED
    BY <2>1, EnqueueKeeps
<1>9. CASE Stop
  BY <1>9, StopKeeps
<1>10. ~Kill
  BY DEF Calm, Kill, GoesDown
<1>11. CASE PodLost
  <2>1. /\ BusFlushed /\ disk' = disk /\ sweep' = NoAudit
        /\ \A w \in Workers : wpc'[w] = "idle" /\ job'[w] = NoMsg
        /\ \A c \in Callers : rpc'[c] = "idle"
    BY <1>11 DEF PodLost, GoesDown, WorkersGone, RequestsGone
  <2>2. \A a \in Audits : disk'[a].report # "questions"
    BY <2>1 DEF Work, AuditOK
  <2>3. Empty'
    BY <2>1, <2>2 DEF Empty, BusFlushed, EmptyBus
  <2>4. Empty' => Work'
    BY EmptyOK, PTL
  <2> QED
    BY <2>3, <2>4
<1>12. CASE UNCHANGED vars
  BY <1>12, CalmKeeps DEF vars
<1> QED
  BY <1>1, <1>2, <1>3, <1>4, <1>5, <1>6, <1>7, <1>8, <1>9, <1>10, <1>11, <1>12 DEF Next

LEMMA WorkKept ==
  ASSUME Calm
  PROVE  Spec => []Work
<1>1. Init => Work
  <2> SUFFICES ASSUME Init PROVE Work
    OBVIOUS
  <2>1. Empty
    BY DEF Init, BusInit, WorkerInit, ApiInit, StoreInit, NoFolder, Empty, EmptyBus
  <2> QED
    BY <2>1, EmptyOK
<1>2. TypeOK /\ TypeOK' /\ Exclusion /\ Exclusion' /\ Work /\ [Next]_vars => Work'
  BY NextKeeps
<1>3. BeatMayFail = FALSE
  BY DEF Calm
<1>4. Spec => []Exclusion
  BY <1>3, Excludes
<1> QED
  BY <1>1, <1>2, <1>4, Typed, PTL DEF Spec

(* A job that GET shows as queued or running is not forgotten: however many *)
(* audits there are and workers contend for them, while Redis refuses no    *)
(* call, runs succeed without questions and one upload is served at a time, *)
(* a worker is at the job, or the stream holds an entry for it, or its      *)
(* caller has yet to enqueue it.  Pods may be lost at any time, and where   *)
(* there is one worker the process may be stopped.                          *)
THEOREM WorkIsKept ==
  ASSUME Calm
  PROVE  Spec => []WorkNotLost
<1>1. Work => WorkNotLost
  BY DEF Work, AuditOK, WorkNotLost
<1> QED
  BY <1>1, WorkKept, PTL

-----------------------------------------------------------------------------
(* A running job is never forgotten *)

(* What the theorem asks for.  A call of a worker that fails, a kill, and   *)
(* of several workers a stop or a refused heartbeat, leave an entry to a    *)
(* worker that finds the lock taken and drops it (README, section 5).       *)
Undisturbed ==
  /\ MaxFaults = 0 /\ "kill" \notin RestartKinds
  /\ \/ \A v, w \in Workers : v = w
     \/ BeatMayFail = FALSE /\ "stop" \notin RestartKinds

-----------------------------------------------------------------------------
(* One worker                                                               *)
(*                                                                          *)
(* The entry of a running job stays until its terminal status is written.   *)
(* What could drop it is a refused lock, so every lock must be known to be  *)
(* the worker's own.                                                        *)

Running(w) == wpc[w] \in {"claimed", "exec", "run", "publish", "settle", "fail"}

EntryKept ==
  /\ \A a \in Audits : live[a] = "running" => Queued(a)
  /\ \A w \in Workers : Running(w) => job[w] \in pel
  /\ \A w \in Workers : wpc[w] # "dropack"
  /\ \A w \in Workers : wpc[w] = "xack" => live[At(w)] # "running"
  /\ \A a \in Audits : lock[a] > 0 => \E w \in Workers : wpc[w] \in Section /\ At(w) = a

LEMMA EntryRests ==
  ASSUME EntryKept, UNCHANGED <<wpc, job, pel>>, InStream \subseteq InStream',
         \A a : live'[a] = "running" => live[a] = "running",
         \A a \in Audits : lock'[a] > 0 => lock[a] > 0
  PROVE  EntryKept'
<1>1. \A a : Queued(a) => Queued(a)'
  BY DEF Queued
<1> QED
  BY <1>1 DEF EntryKept, Running, At

LEMMA EntryFreed ==
  ASSUME EntryKept, WorkersGone, UNCHANGED queueVars,
         \A a \in Audits : live'[a] = live[a],
         \A a \in Audits : ~(lock'[a] > 0)
  PROVE  EntryKept'
<1>1. \A a : Queued(a)' <=> Queued(a)
  BY DEF Queued, InStream, queueVars
<1> QED
  BY <1>1 DEF EntryKept, WorkersGone, Running

(* A step of the worker that leaves the stream alone.                       *)
LEMMA EntryHeld ==
  ASSUME TypeOK, EntryKept, \A v, w \in Workers : v = w, NEW w \in Workers,
         UNCHANGED <<stream, pel>>,
         job' = job \/ ~Running(w)',
         Running(w)' => Running(w),
         wpc'[w] # "dropack",
         wpc'[w] = "xack" => live'[At(w)] # "running" /\ job' = job,
         \A a \in Audits : live'[a] = "running" =>
           live[a] = "running" \/ (a = At(w) /\ Running(w)),
         \A a \in Audits : lock'[a] > 0 =>
           \/ lock[a] > 0 /\ (wpc[w] \notin Section \/ (wpc'[w] \in Section /\ job' = job))
           \/ wpc'[w] \in Section /\ At(w)' = a
  PROVE  EntryKept'
<1>1. \A a : Queued(a)' <=> Queued(a)
  BY DEF Queued, InStream
<1>2. ASSUME NEW a \in Audits, live'[a] = "running" PROVE Queued(a)'
  BY <1>1, <1>2 DEF EntryKept, Queued, At
<1>3. ASSUME NEW a \in Audits, lock'[a] > 0
      PROVE  \E v \in Workers : wpc'[v] \in Section /\ At(v)' = a
  BY <1>3 DEF EntryKept, At
<1> QED
  BY <1>2, <1>3 DEF EntryKept, Running, At

LEMMA EntryWorked ==
  ASSUME MaxFaults = 0, TypeOK, EntryKept, \A v, w \in Workers : v = w,
         NEW w \in Workers, Working(w)
  PROVE  EntryKept'
<1> USE DEF Running
<1>t. /\ wpc \in [Workers -> Section \cup Outside]
      /\ job \in [Workers -> Messages \cup {NoMsg}]
      /\ live \in [Audits -> Statuses]
      /\ lock \in [Audits -> 0..LockTtl]
  BY DEF TypeOK, WorkerTypeOK, BusTypeOK
<1>s. WorkerStep(w)
  BY DEF Working
<1>1. CASE TakeSlot(w) \/ ClaimNothing(w) \/ ReleaseSlot(w)
  <2>1. /\ wpc[w] \in {"idle", "slot", "unslot"} /\ wpc'[w] \in {"idle", "slot", "unslot"}
        /\ UNCHANGED <<live, stream, pel, lock>>
    BY <1>1, <1>t DEF TakeSlot, ClaimNothing, ReleaseSlot, Goto, busVars, queueVars, keyVars
  <2> QED
    BY <2>1, SectionParts, EntryHeld
<1>2. CASE Claim(w)
  <2>1. PICK m \in Messages : (XAutoClaim(m) \/ XReadGroup(m)) /\ job' = [job EXCEPT ![w] = m]
    BY <1>2 DEF Claim
  <2>2. InStream' \cup pel' = InStream \cup pel /\ m \in pel'
    BY <2>1, Claiming
  <2>3. \A a : Queued(a)' <=> Queued(a)
    BY <2>2 DEF Queued
  <2>4. /\ wpc[w] = "slot" /\ wpc'[w] = "claimed" /\ job'[w] = m /\ UNCHANGED <<live, lock>>
    BY <1>2, <1>t, <2>1 DEF Claim, Goto, keyVars
  <2>5. \A a \in Audits : ~(lock[a] > 0)
    BY <2>4, SectionParts DEF EntryKept
  <2>6. \A v \in Workers : v = w
    OBVIOUS
  <2> QED
    BY <2>2, <2>3, <2>4, <2>5, <2>6, SectionParts DEF EntryKept
<1>3. CASE AcquireAudit(w)
  <2>1. wpc[w] = "claimed" /\ wpc'[w] = "exec" /\ UNCHANGED <<live, stream, pel, job>>
    BY <1>3, <1>t DEF AcquireAudit, Goto, queueVars
  <2>2. \A a \in Audits : lock'[a] > 0 => lock[a] > 0 \/ At(w)' = a
    BY <1>3, <1>t, <2>1 DEF AcquireAudit, TryLock, At
  <2> QED
    BY <2>1, <2>2, SectionParts, EntryHeld
<1>4. CASE AcquireRefused(w)
  <2>1. wpc[w] = "claimed" /\ lock[At(w)] > 0
    BY <1>4 DEF AcquireRefused, Goto
  <2>2. At(w) \in Audits
    BY <2>1, <1>t, NoMsgAssumption DEF EntryKept, At, TypeOK, BusTypeOK, Messages
  <2> QED
    BY <2>1, <2>2, SectionParts DEF EntryKept
<1>5. CASE StartRun(w) \/ EnterStage(w)
  <2>1. /\ wpc[w] \in {"exec", "run"} /\ wpc'[w] = "run" /\ UNCHANGED <<stream, pel, job>>
    BY <1>5, <1>t DEF StartRun, EnterStage, Goto, queueVars, workerVars
  <2>2. \A a \in Audits : /\ live'[a] = "running" => live[a] = "running" \/ a = At(w)
                          /\ lock'[a] > 0 => lock[a] > 0
    BY <1>5, <1>t DEF StartRun, EnterStage, SetProgress, SetStatus, Touched
  <2> QED
    BY <2>1, <2>2, SectionParts, EntryHeld
<1>6. CASE SkipExplain(w) \/ WriteReport(w) \/ WriteMeta(w) \/ RunFails(w)
  <2>1. /\ wpc[w] \in {"run", "publish"} /\ wpc'[w] \in {"publish", "settle", "fail"}
        /\ UNCHANGED <<live, stream, pel, job, lock>>
    BY <1>6, <1>t DEF SkipExplain, WriteReport, WriteMeta, RunFails, Goto, busVars, queueVars,
       keyVars
  <2> QED
    BY <2>1, SectionParts, EntryHeld
<1>7. CASE OwnerMissing(w) \/ SetTerminal(w)
  <2>1. /\ wpc[w] \in {"exec", "settle", "fail"} /\ wpc'[w] = "xack"
        /\ UNCHANGED <<stream, pel, job, lock>>
    BY <1>7, <1>t DEF OwnerMissing, SetTerminal, Goto, queueVars, keyVars
  <2>2. /\ \A a \in Audits : live'[a] = "running" => live[a] = "running"
        /\ At(w) \in Audits => live'[At(w)] # "running"
    BY <1>7, <1>t DEF OwnerMissing, SetTerminal, SetStatus
  <2>3. At(w) \in Audits
    BY <2>1, <1>t, NoMsgAssumption DEF EntryKept, At, TypeOK, BusTypeOK, Messages
  <2> QED
    BY <2>1, <2>2, <2>3, SectionParts, EntryHeld
<1>8. CASE Acknowledge(w)
  <2>1. /\ wpc[w] = "xack" /\ wpc' = [wpc EXCEPT ![w] = "srem"]
        /\ pel' = pel \ {job[w]} /\ UNCHANGED <<live, stream, job, lock>>
    BY <1>8 DEF Acknowledge, Goto, XAck, keyVars
  <2>2. ASSUME NEW a \in Audits, live'[a] = "running" PROVE Queued(a)'
    BY <2>1, <2>2 DEF EntryKept, Queued, InStream, At
  <2>3. \A v \in Workers : v = w
    OBVIOUS
  <2>4. wpc'[w] = "srem"
    BY <2>1, <1>t
  <2> QED
    BY <2>1, <2>2, <2>3, <2>4, SectionParts DEF EntryKept, At
<1>9. CASE ForgetPending(w)
  <2>1. /\ wpc[w] = "srem" /\ wpc'[w] = "unlock" /\ UNCHANGED <<live, stream, pel, job, lock>>
    BY <1>9, <1>t DEF ForgetPending, Goto, keyVars
  <2> QED
    BY <2>1, SectionParts, EntryHeld
<1>10. CASE DropMessage(w)
  BY <1>10 DEF DropMessage, Goto, EntryKept
<1>11. CASE DropPending(w)
  <2>1. /\ wpc[w] = "dropsrem" /\ wpc'[w] = "unslot" /\ UNCHANGED <<live, stream, pel, job, lock>>
    BY <1>11, <1>t DEF DropPending, Goto, keyVars
  <2> QED
    BY <2>1, SectionParts, EntryHeld
<1>12. CASE ReleaseAudit(w)
  <2>1. /\ wpc[w] = "unlock" /\ wpc'[w] = "unslot" /\ UNCHANGED <<live, stream, pel, job>>
    BY <1>12, <1>t DEF ReleaseAudit, Goto, queueVars
  <2>2. \A a \in Audits : lock[a] > 0 => At(w) = a
    BY <2>1, SectionParts DEF EntryKept
  <2>3. \A a \in Audits : ~(lock'[a] > 0)
    BY <1>12, <1>t, <2>2 DEF ReleaseAudit, Unlock
  <2> QED
    BY <2>1, <2>3, SectionParts, EntryHeld
<1>13. CASE BeatErrorRaised(w)
  <2>1. /\ wpc[w] \in {"settle", "fail"} /\ wpc'[w] = "unlock"
        /\ UNCHANGED <<live, stream, pel, job, lock>>
    BY <1>13, <1>t DEF BeatErrorRaised, busVars, queueVars, keyVars
  <2> QED
    BY <2>1, SectionParts, EntryHeld
<1>14. CASE Beat(w) \/ BeatFails(w)
  <2>1. UNCHANGED <<wpc, job, live, stream, pel>>
    BY <1>14 DEF Beat, BeatFails, busVars, queueVars
  <2>2. \A a \in Audits : lock'[a] > 0 => lock[a] > 0
    BY <1>14, <1>t DEF Beat, BeatFails, Touched, busVars, keyVars
  <2>3. InStream' = InStream
    BY <2>1 DEF InStream
  <2> QED
    BY <2>1, <2>2, <2>3, EntryRests
<1>15. CASE WorkerFault(w)
  <2>1. faults \in 0..MaxFaults
    BY DEF TypeOK, BusTypeOK
  <2> QED
    BY <1>15, <2>1 DEF WorkerFault, GuardedFault, OutsideFault, SlotFault, LostClaim, LostAcquire,
       CountFault
<1> QED
  BY <1>s, <1>1, <1>2, <1>3, <1>4, <1>5, <1>6, <1>7, <1>8, <1>9, <1>10, <1>11, <1>12, <1>13,
     <1>14, <1>15 DEF WorkerStep, Advance

(* What callers, the sweeper and the clock do to an entry and a lock.       *)
LEMMA EntryElsewhere ==
  ASSUME TypeOK, NEW c \in Callers, Enqueue(c, Held)
  PROVE  /\ InStream \subseteq InStream' /\ UNCHANGED <<pel, lock>>
         /\ \A a : live'[a] = "running" => live[a] = "running"
<1>t. live \in [Audits -> Statuses] /\ (rpc[c] # "idle" => subject[c] \in Audits)
  BY DEF TypeOK, BusTypeOK, ApiTypeOK
<1>1. CASE AppendEntry(c, Held)
  <2>1. PICK m : stream' = Append(stream, m)
    BY <1>1 DEF AppendEntry, XAdd
  <2> QED
    BY <1>1, <2>1, Appending DEF AppendEntry, keyVars
<1>2. CASE WriteQueued(c)
  <2>1. /\ live' = [live EXCEPT ![subject[c]] = "queued"] /\ subject[c] \in Audits
        /\ UNCHANGED <<stream, pel, lock>>
    BY <1>2, <1>t DEF WriteQueued, SetStatus, Proceeds, queueVars, keyVars
  <2>2. \A a : live'[a] = "running" => live[a] = "running"
    <3> SUFFICES ASSUME NEW a, live'[a] = "running" PROVE live[a] = "running"
      OBVIOUS
    <3>1. CASE a \in Audits
      BY <1>t, <2>1, <3>1
    <3>2. CASE a \notin Audits
      BY <1>t, <2>1, <3>2
    <3> QED
      BY <3>1, <3>2
  <2> QED
    BY <2>1, <2>2 DEF InStream
<1>3. CASE ReadStatus(c) \/ AlreadyPending(c) \/ AddPending(c)
  BY <1>3 DEF ReadStatus, AlreadyPending, AddPending, InStream, busVars, queueVars, keyVars
<1> QED
  BY <1>1, <1>2, <1>3 DEF Enqueue

LEMMA EntryNext ==
  ASSUME MaxFaults = 0, "kill" \notin RestartKinds, \A v, w \in Workers : v = w,
         TypeOK, EntryKept, [Next]_vars
  PROVE  EntryKept'
<1> USE DEF busVars, queueVars, keyVars, workerVars
<1>t. lock \in [Audits -> 0..LockTtl] /\ live \in [Audits -> Statuses]
  BY DEF TypeOK, BusTypeOK
<1>1. ASSUME NEW w \in Workers, Working(w) PROVE EntryKept'
  BY <1>1, EntryWorked
<1>2. ASSUME NEW r \in Requests, Serving(r) PROVE EntryKept'
  <2>1. r \in Callers /\ RequestStep(r, Held) /\ UNCHANGED <<wpc, job>>
    BY <1>2 DEF Serving, Callers
  <2>2. CASE Enqueue(r, Held)
    BY <2>1, <2>2, EntryElsewhere, EntryRests
  <2>3. CASE ~Enqueue(r, Held)
    <3>1. UNCHANGED <<live, stream, pel, lock>>
      BY <2>1, <2>3 DEF RequestStep, StartUpload, StartAnswers, Recheck, GlossaryBusy,
         ApplyAnswers, ReleaseGlossary, RequestFault
    <3>2. InStream' = InStream
      BY <3>1 DEF InStream
    <3> QED
      BY <2>1, <3>1, <3>2, EntryRests
  <2> QED
    BY <2>2, <2>3
<1>3. CASE Tick
  <2>1. /\ UNCHANGED <<live, stream, pel, wpc, job>>
        /\ \A a \in Audits : lock'[a] > 0 => lock[a] > 0
    BY <1>3, <1>t DEF Tick, BusTick, WorkerTick
  <2>2. InStream' = InStream
    BY <2>1 DEF InStream
  <2> QED
    BY <2>1, <2>2, EntryRests
<1>4. ASSUME NEW a \in Audits, SweepLook(a) \/ GrowOld(a) PROVE EntryKept'
  <2>1. /\ UNCHANGED <<stream, pel, lock, wpc, job>>
        /\ live' = live \/ StatusExpires(a)
    BY <1>4 DEF SweepLook, GrowOld
  <2>2. \A b : live'[b] = "running" => live[b] = "running"
    <3> SUFFICES ASSUME StatusExpires(a), NEW b, live'[b] = "running"
                 PROVE  live[b] = "running"
      BY <2>1
    <3>1. CASE b \in Audits
      BY <1>t, <3>1 DEF StatusExpires, SetStatus
    <3>2. CASE b \notin Audits
      BY <1>t, <3>2 DEF StatusExpires, SetStatus
    <3> QED
      BY <3>1, <3>2
  <2>3. InStream' = InStream
    BY <2>1 DEF InStream
  <2> QED
    BY <2>1, <2>2, <2>3, EntryRests
<1>5. CASE UNCHANGED <<busVars, workerVars>>
  <2>1. InStream' = InStream
    BY <1>5 DEF InStream
  <2> QED
    BY <1>5, <2>1, EntryRests
<1>6. CASE SweepDelete \/ StartProcess \/ StartReconcile \/ StartWorkers
  BY <1>5, <1>6 DEF SweepDelete, StartProcess, StartReconcile, StartWorkers
<1>7. ASSUME NEW a \in Audits, ReconcileSkip(a) \/ ReconcileTake(a) PROVE EntryKept'
  BY <1>5, <1>7 DEF ReconcileSkip, ReconcileTake
<1>8. CASE Reconciling
  <2>1. Boot \in Callers /\ Enqueue(Boot, Held) /\ UNCHANGED <<wpc, job>>
    BY <1>8 DEF Reconciling, Callers
  <2> QED
    BY <2>1, EntryElsewhere, EntryRests
<1>9. CASE Stop
  <2>1. WorkersGone /\ UNCHANGED <<live, queueVars>>
    BY <1>9 DEF Stop, GoesDown
  <2>2. \A a \in Audits : lock[a] > 0 => a \in Locked
    BY DEF EntryKept, Locked
  <2>3. lock' = [a \in Audits |-> IF a \in Locked THEN 0 ELSE lock[a]]
    BY <1>9 DEF Stop
  <2>4. \A a \in Audits : ~(lock'[a] > 0)
    BY <2>2, <2>3
  <2> QED
    BY <2>1, <2>4, EntryFreed
<1>10. CASE Kill
  BY <1>10 DEF Kill, GoesDown
<1>11. CASE PodLost
  BY <1>11 DEF PodLost, GoesDown, BusFlushed, EmptyBus, WorkersGone, EntryKept, Running
<1>12. CASE UNCHANGED vars
  BY <1>5, <1>12 DEF vars
<1> QED
  BY <1>1, <1>2, <1>3, <1>4, <1>6, <1>7, <1>8, <1>9, <1>10, <1>11, <1>12 DEF Next

LEMMA EntryStays ==
  ASSUME MaxFaults = 0, "kill" \notin RestartKinds, \A v, w \in Workers : v = w
  PROVE  Spec => []EntryKept
<1>1. Init => EntryKept
  BY DEF Init, BusInit, EmptyBus, WorkerInit, EntryKept, Running
<1>2. TypeOK /\ EntryKept /\ [Next]_vars => EntryKept'
  BY EntryNext
<1> QED
  BY <1>1, <1>2, Typed, PTL DEF Spec

-----------------------------------------------------------------------------
(* Any number of workers                                                    *)
(*                                                                          *)
(* While heartbeats last and nothing stops the process, a worker leaves a   *)
(* job by writing its terminal status and not otherwise.                    *)

Attended == \A a \in Audits : live[a] = "running" => InWork(a)

LEMMA AttendedStays ==
  ASSUME Attended, UNCHANGED <<wpc, job>>,
         \A a \in Audits : live'[a] = "running" => live[a] = "running"
  PROVE  Attended'
  BY DEF Attended, InWork, At

(* A worker outside a run, or at a run it goes on with.                     *)
LEMMA AttendedMoves ==
  ASSUME TypeOK, Attended, NEW w \in Workers,
         \A v \in Workers \ {w} : wpc'[v] = wpc[v] /\ job'[v] = job[v],
         wpc[w] \in {"exec", "run", "publish", "settle", "fail"} =>
           wpc'[w] \in {"exec", "run", "publish", "settle", "fail"} /\ job'[w] = job[w],
         \A a \in Audits : live'[a] = "running" =>
           \/ live[a] = "running"
           \/ wpc[w] \in {"exec", "run"} /\ At(w) = a
  PROVE  Attended'
<1> SUFFICES ASSUME NEW a \in Audits, live'[a] = "running" PROVE InWork(a)'
  BY DEF Attended
<1>1. InWork(a)
  BY DEF Attended, InWork
<1>2. PICK v \in Workers :
        wpc[v] \in {"exec", "run", "publish", "settle", "fail"} /\ At(v) = a
  BY <1>1 DEF InWork
<1> QED
  BY <1>2 DEF InWork, At

LEMMA AttendedWorked ==
  ASSUME MaxFaults = 0, TypeOK, Attended, dead = {}, NEW w \in Workers, Working(w)
  PROVE  Attended'
<1>t. /\ wpc \in [Workers -> Section \cup Outside]
      /\ job \in [Workers -> Messages \cup {NoMsg}]
      /\ live \in [Audits -> Statuses]
  BY DEF TypeOK, WorkerTypeOK, BusTypeOK
<1>1. CASE TakeSlot(w) \/ Claim(w) \/ ClaimNothing(w) \/ AcquireAudit(w) \/ AcquireRefused(w)
           \/ ForgetPending(w) \/ Acknowledge(w) \/ DropMessage(w) \/ DropPending(w)
           \/ ReleaseAudit(w) \/ ReleaseSlot(w)
  <2>1. /\ \A v \in Workers \ {w} : wpc'[v] = wpc[v] /\ job'[v] = job[v]
        /\ wpc[w] \notin {"exec", "run", "publish", "settle", "fail"}
        /\ live' = live
    BY <1>1, <1>t DEF TakeSlot, Claim, ClaimNothing, AcquireAudit, AcquireRefused, ForgetPending,
       Acknowledge, DropMessage, DropPending, ReleaseAudit, ReleaseSlot, Goto, busVars
  <2> QED
    BY <2>1, AttendedMoves
<1>2. CASE StartRun(w) \/ EnterStage(w)
  <2>1. /\ \A v \in Workers \ {w} : wpc'[v] = wpc[v]
        /\ wpc[w] \in {"exec", "run"} /\ wpc'[w] = "run" /\ job' = job
    BY <1>2, <1>t DEF StartRun, EnterStage, Goto, workerVars
  <2>2. \A a \in Audits : live'[a] = "running" => live[a] = "running" \/ At(w) = a
    BY <1>2, <1>t DEF StartRun, EnterStage, SetProgress, SetStatus
  <2> QED
    BY <2>1, <2>2, AttendedMoves
<1>3. CASE SkipExplain(w) \/ WriteReport(w) \/ WriteMeta(w) \/ RunFails(w)
  <2>1. /\ \A v \in Workers \ {w} : wpc'[v] = wpc[v]
        /\ wpc'[w] \in {"publish", "settle", "fail"} /\ job' = job /\ live' = live
    BY <1>3, <1>t DEF SkipExplain, WriteReport, WriteMeta, RunFails, Goto, busVars
  <2> QED
    BY <2>1, AttendedMoves
<1>4. CASE OwnerMissing(w) \/ SetTerminal(w)
  <2>1. /\ \A v \in Workers \ {w} : wpc'[v] = wpc[v]
        /\ wpc[w] \in {"exec", "settle", "fail"} /\ job' = job
    BY <1>4, <1>t DEF OwnerMissing, SetTerminal, Goto
  <2>2. PICK s \in {"reported", "failed"} : live' = [live EXCEPT ![At(w)] = s]
    BY <1>4 DEF OwnerMissing, SetTerminal, SetStatus
  <2>3. ASSUME NEW a \in Audits, live'[a] = "running" PROVE live[a] = "running" /\ At(w) # a
    BY <1>t, <2>2, <2>3
  <2> QED
    BY <2>1, <2>3 DEF Attended, InWork, At
<1>5. CASE BeatErrorRaised(w)
  BY <1>5 DEF BeatErrorRaised
<1>6. CASE Beat(w) \/ BeatFails(w)
  BY <1>6, AttendedStays DEF Beat, BeatFails, busVars
<1>7. CASE WorkerFault(w)
  <2>1. faults \in 0..MaxFaults
    BY DEF TypeOK, BusTypeOK
  <2> QED
    BY <1>7, <2>1 DEF WorkerFault, GuardedFault, OutsideFault, SlotFault, LostClaim, LostAcquire,
       CountFault
<1> QED
  BY <1>1, <1>2, <1>3, <1>4, <1>5, <1>6, <1>7 DEF Working, WorkerStep, Advance

LEMMA AttendedNext ==
  ASSUME MaxFaults = 0, "kill" \notin RestartKinds, "stop" \notin RestartKinds,
         TypeOK, Attended, dead = {}, [Next]_vars
  PROVE  Attended'
<1> USE DEF busVars, workerVars
<1>1. ASSUME NEW w \in Workers, Working(w) PROVE Attended'
  BY <1>1, AttendedWorked
<1>2. ASSUME NEW r \in Requests, Serving(r) PROVE Attended'
  <2>1. r \in Callers /\ RequestStep(r, Held) /\ UNCHANGED <<wpc, job>>
    BY <1>2 DEF Serving, Callers
  <2>2. CASE Enqueue(r, Held)
    BY <2>1, <2>2, EntryElsewhere, AttendedStays
  <2>3. CASE ~Enqueue(r, Held)
    <3>1. live' = live
      BY <2>1, <2>3 DEF RequestStep, StartUpload, StartAnswers, Recheck, GlossaryBusy,
         ApplyAnswers, ReleaseGlossary, RequestFault
    <3> QED
      BY <2>1, <3>1, AttendedStays
  <2> QED
    BY <2>2, <2>3
<1>3. CASE Tick
  BY <1>3, AttendedStays DEF Tick, BusTick, WorkerTick
<1>4. ASSUME NEW a \in Audits, SweepLook(a) \/ GrowOld(a) PROVE Attended'
  <2>1. live \in [Audits -> Statuses]
    BY DEF TypeOK, BusTypeOK
  <2>2. UNCHANGED <<wpc, job>> /\ (live' = live \/ StatusExpires(a))
    BY <1>4 DEF SweepLook, GrowOld
  <2>3. \A b \in Audits : live'[b] = "running" => live[b] = "running"
    BY <2>1, <2>2 DEF StatusExpires, SetStatus
  <2> QED
    BY <2>2, <2>3, AttendedStays
<1>5. CASE SweepDelete \/ StartProcess \/ StartReconcile \/ StartWorkers
  BY <1>5, AttendedStays DEF SweepDelete, StartProcess, StartReconcile, StartWorkers
<1>6. ASSUME NEW a \in Audits, ReconcileSkip(a) \/ ReconcileTake(a) PROVE Attended'
  BY <1>6, AttendedStays DEF ReconcileSkip, ReconcileTake
<1>7. CASE Reconciling
  <2>1. Boot \in Callers /\ Enqueue(Boot, Held) /\ UNCHANGED <<wpc, job>>
    BY <1>7 DEF Reconciling, Callers
  <2> QED
    BY <2>1, EntryElsewhere, AttendedStays
<1>8. CASE Stop \/ Kill
  BY <1>8 DEF Stop, Kill, GoesDown
<1>9. CASE PodLost
  BY <1>9 DEF PodLost, BusFlushed, EmptyBus, Attended
<1>10. CASE UNCHANGED vars
  BY <1>10, AttendedStays DEF vars
<1> QED
  BY <1>1, <1>2, <1>3, <1>4, <1>5, <1>6, <1>7, <1>8, <1>9, <1>10 DEF Next

LEMMA AttendedKept ==
  ASSUME MaxFaults = 0, "kill" \notin RestartKinds, "stop" \notin RestartKinds,
         BeatMayFail = FALSE
  PROVE  Spec => []Attended
<1>1. Init => Attended
  BY DEF Init, BusInit, EmptyBus, Attended
<1>2. TypeOK /\ Exclusion /\ Attended /\ [Next]_vars => Attended'
  BY AttendedNext DEF Exclusion, Beating
<1> QED
  BY <1>1, <1>2, Typed, Excludes, PTL DEF Spec

-----------------------------------------------------------------------------
(* A job that GET shows as running is in the hands of a worker, or its      *)
(* entry is there to be claimed: whatever runs end in, with answers and     *)
(* repeated uploads in any number and the sweeper at work, through pod      *)
(* losses, and with one worker also through stops and refused heartbeats.   *)
THEOREM RunningIsKept ==
  ASSUME Undisturbed
  PROVE  Spec => []RunningNotLost
<1>1. CASE \A v, w \in Workers : v = w
  <2>1. EntryKept => RunningNotLost
    BY DEF EntryKept, RunningNotLost
  <2>2. Spec => []EntryKept
    BY <1>1, EntryStays DEF Undisturbed
  <2> QED
    BY <2>1, <2>2, PTL
<1>2. CASE BeatMayFail = FALSE /\ "stop" \notin RestartKinds
  <2>1. Attended => RunningNotLost
    BY DEF Attended, RunningNotLost
  <2>2. Spec => []Attended
    BY <1>2, AttendedKept DEF Undisturbed
  <2> QED
    BY <2>1, <2>2, PTL
<1> QED
  BY <1>1, <1>2 DEF Undisturbed
=============================================================================
