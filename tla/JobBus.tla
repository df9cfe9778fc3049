------------------------------- MODULE JobBus -------------------------------
(***************************************************************************)
(* The Redis side of RedisJobBus.  Each operator is the effect of one      *)
(* Redis command (or of one Lua script) and says nothing of the keys the   *)
(* command does not touch, so an action joins it with UNCHANGED.           *)
(*                                                                         *)
(* Time is counted in ticks of 30 seconds, the heartbeat's period: a lock  *)
(* lives LockTtl ticks (120 s), a delivered message may be claimed by      *)
(* another consumer after MinIdle ticks (60 s), a glossary lock (30 s)     *)
(* lives one tick.  The 24 hour expiry of a terminal status only shows in  *)
(* AuditService, when the directory of the audit has grown old.            *)
(***************************************************************************)
EXTENDS AuditIds, Integers, Sequences, FiniteSets

CONSTANTS
  Workers,    \* consumer names worker-0, worker-1, ...
  MaxRun,     \* cap of the set cf:inflight:run
  MaxMsgs,    \* bound: stream entries of one audit that exist at once
  MinIdle,    \* XAUTOCLAIM min-idle-time, in ticks
  LockTtl,    \* expiry of cf:lock:audit:{id}, in ticks
  MaxFaults   \* bound: Redis calls that fail

ASSUME TtlAssumption == LockTtl \in Nat /\ LockTtl >= 2
ASSUME IdleAssumption == MinIdle \in Nat \ {0}
ASSUME CapAssumption == MaxRun \in Nat \ {0} /\ MaxMsgs \in Nat \ {0}
ASSUME FaultAssumption == MaxFaults \in Nat

VARIABLES
  live,       \* status field of the hash cf:job:{id}, "none" without a hash
  stream,     \* entries of cf:audits not yet delivered to the group
  pel,        \* entries delivered and not acknowledged
  idle,       \* ticks since an entry of pel was delivered
  pending,    \* the set cf:pending
  lock,       \* ticks left to cf:lock:audit:{id}, 0 without the key
  slots,      \* the set cf:inflight:run
  glocked,    \* actors whose key cf:lock:glossary:{actor} exists
  faults      \* Redis calls that have failed so far

queueVars == <<stream, pel, idle, pending>>
keyVars   == <<lock, slots, glocked>>
busVars   == <<live, queueVars, keyVars>>

(* "reported" stands for succeeded, degraded and needs_input, which the bus *)
(* and the handlers treat alike.                                            *)
Statuses == {"none", "queued", "running", "reported", "failed"}

Active(a) == live[a] \in {"queued", "running"}

Messages == [audit : Audits, id : 1..MaxMsgs]

BusTypeOK ==
  /\ live \in [Audits -> Statuses]
  /\ stream \in Seq(Messages)
  /\ pel \in SUBSET Messages
  /\ idle \in [Messages -> 0..MinIdle]
  /\ pending \in SUBSET Audits
  /\ lock \in [Audits -> 0..LockTtl]
  /\ slots \in SUBSET Workers
  /\ glocked \in SUBSET Actors
  /\ faults \in 0..MaxFaults

EmptyBus ==
  [live |-> [a \in Audits |-> "none"], idle |-> [m \in Messages |-> 0],
   lock |-> [a \in Audits |-> 0]]

BusInit ==
  /\ live = EmptyBus.live
  /\ stream = <<>>
  /\ pel = {}
  /\ idle = EmptyBus.idle
  /\ pending = {}
  /\ lock = EmptyBus.lock
  /\ slots = {}
  /\ glocked = {}
  /\ faults = 0

(* The pod is replaced: Redis keeps nothing (emptyDir). *)
BusFlushed ==
  /\ live' = EmptyBus.live
  /\ stream' = <<>>
  /\ pel' = {}
  /\ idle' = EmptyBus.idle
  /\ pending' = {}
  /\ lock' = EmptyBus.lock
  /\ slots' = {}
  /\ glocked' = {}

CountFault == faults < MaxFaults /\ faults' = faults + 1

-----------------------------------------------------------------------------
(* The stream and its consumer group *)

InStream == {stream[i] : i \in 1..Len(stream)}

(* XADD appends an entry whose id no consumer knows; held is the set of     *)
(* entries the consumers still remember.                                    *)
XAdd(a, held) ==
  \E n \in 1..MaxMsgs :
    LET m == [audit |-> a, id |-> n] IN
    /\ m \notin InStream \cup pel \cup held
    /\ \A k \in 1..(n - 1) : [audit |-> a, id |-> k] \in InStream \cup pel \cup held
    /\ stream' = Append(stream, m)

(* mutant: the idle time is never exceeded *)
StaleNever == {m \in pel : idle[m] > MinIdle}

Stale == {m \in pel : idle[m] >= MinIdle}

(* XAUTOCLAIM hands an entry idle for a minute to the caller ... *)
XAutoClaim(m) ==
  /\ m \in Stale
  /\ idle' = [idle EXCEPT ![m] = 0]
  /\ UNCHANGED <<stream, pel>>

(* mutant: XREADGROUP with NOACK *)
XReadGroupNoAck(m) ==
  /\ Stale = {}
  /\ stream # <<>>
  /\ m = Head(stream)
  /\ stream' = Tail(stream)
  /\ UNCHANGED <<pel, idle>>

(* ... and XREADGROUP, tried when there is none, the oldest new entry. *)
XReadGroup(m) ==
  /\ Stale = {}
  /\ stream # <<>>
  /\ m = Head(stream)
  /\ stream' = Tail(stream)
  /\ pel' = pel \cup {m}
  /\ UNCHANGED idle

NothingToClaim == Stale = {} /\ stream = <<>>

XAck(m) ==
  /\ pel' = pel \ {m}
  /\ idle' = [idle EXCEPT ![m] = 0]

-----------------------------------------------------------------------------
(* The status hash, the locks and the run slots *)

SetStatus(a, s) == live' = [live EXCEPT ![a] = s]

(* A terminal status expires after 24 hours, one of a job in work does not. *)
StatusExpires(a) == SetStatus(a, IF Active(a) THEN live[a] ELSE "none")

(* mutant: SET without NX *)
TryLockAny(a) == lock' = [lock EXCEPT ![a] = LockTtl]

(* SET NX PX *)
TryLock(a) == lock[a] = 0 /\ lock' = [lock EXCEPT ![a] = LockTtl]

(* EXPIRE and PEXPIRE move the expiry of a key that exists and do not       *)
(* create one that does not.                                                *)
Touched(a) == [lock EXCEPT ![a] = IF @ = 0 THEN 0 ELSE LockTtl]

(* DEL: the key holds no owner token, so it goes whoever set it. *)
Unlock(a) == lock' = [lock EXCEPT ![a] = 0]

(* HSET status running, then EXPIRE of the audit's lock. *)
SetProgress(a) == SetStatus(a, "running") /\ lock' = Touched(a)

(* mutant: one member too many *)
SlotGrantedLoose(w) == w \in slots \/ Cardinality(slots) <= MaxRun

(* _SLOT_LUA: a member keeps its slot, another one needs room. *)
SlotGranted(w) == w \in slots \/ Cardinality(slots) < MaxRun

(* A tick of the clock: keys expire and delivered entries get older. *)
BusTick ==
  /\ lock' = [a \in Audits |-> IF lock[a] = 0 THEN 0 ELSE lock[a] - 1]
  /\ idle' = [m \in Messages |->
                IF m \in pel /\ idle[m] < MinIdle THEN idle[m] + 1 ELSE idle[m]]
  /\ glocked' = {}
  /\ UNCHANGED <<live, stream, pel, pending, slots>>
=============================================================================
