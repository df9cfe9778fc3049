------------------------------ MODULE PortSlots ------------------------------
(***************************************************************************)
(* What the threads of running pipelines share while they use the two      *)
(* model ports: the sets cf:inflight:embed and cf:inflight:llm that cap    *)
(* how many audits call a port, the budget keys that cap the calls of one  *)
(* run, and the file of concept vectors that the first run to need it      *)
(* computes under a file lock.                                             *)
(*                                                                         *)
(* A run goes through the cascade of the mapping stage (embed, then chat)  *)
(* and the prose of the explain stage (chat).  step[a] names what the      *)
(* thread of audit a does next:                                            *)
(*                                                                         *)
(*   embed   : wait -> cache -> [flock -> recheck -> vectors] ->           *)
(*             charge -> call -> release                                   *)
(*   chat    : wait -> charge -> call -> charge -> ... -> release          *)
(*   explain : the same as chat                                            *)
(*                                                                         *)
(* Both ports are configured: without one its phases are not entered.      *)
(***************************************************************************)
EXTENDS Integers, FiniteSets

CONSTANTS
  Audits,     \* audits in work, at most one run of each at a time
  Nobody,     \* the file lock is free
  MaxEmbed, MaxLlm,       \* caps of the two sets
  EmbedBudget, LlmBudget, \* calls of one run
  MaxRows,    \* bound: rows or issues one phase asks chat about
  MaxAgain,   \* bound: jobs queued again by answers
  HitKinds,   \* subset of {"kill", "fault"}: interruptions that happen
  MaxHits     \* bound: kills of the process and failed Redis calls

ASSUME SlotAssumption == MaxEmbed \in Nat \ {0} /\ MaxLlm \in Nat \ {0}
ASSUME BudgetAssumption == EmbedBudget \in Nat /\ LlmBudget \in Nat
ASSUME BoundAssumption ==
  /\ MaxRows \in Nat \ {0}
  /\ MaxAgain \in Nat /\ MaxHits \in Nat
  /\ HitKinds \in SUBSET {"kill", "fault"}
ASSUME NobodyAssumption == Nobody \notin Audits

VARIABLES
  book,      \* what the workbooks call for, see Books
  mapped,    \* audits with a mapping.json: the cascade is done
  owed,      \* audits whose job is queued
  phase,     \* "idle", "embed", "chat", "explain" or "end"
  step,      \* what the thread does next in its phase
  rows,      \* rows or issues the phase has yet to ask about
  raised,    \* runs that an error is about to end
  inflight,  \* the sets cf:inflight:embed and cf:inflight:llm
  spent,     \* the budget keys
  calls,     \* calls the present run of an audit was granted
  cached,    \* the file of concept vectors exists
  flock,     \* the audit whose thread holds its lock
  computed,  \* times that file was written
  again, hits

vars == <<book, mapped, owed, phase, step, rows, raised, inflight, spent, calls, cached,
          flock, computed, again, hits>>

cacheVars == <<cached, flock, computed>>
jobVars   == <<book, owed, again, hits>>

(* unmatched : books with rows that the glossary and the templates leave    *)
(* open; hard : those of them with rows that embed cannot match either;     *)
(* issues : books with issues for the explain stage to put in prose.        *)
Books == {b \in [unmatched : SUBSET Audits, hard : SUBSET Audits, issues : SUBSET Audits] :
            b.hard \subseteq b.unmatched}

Kinds == {"embed", "llm"}
Phases == {"idle", "embed", "chat", "explain", "end"}
Steps == {"wait", "cache", "flock", "recheck", "vectors", "charge", "call", "release"}

Cap    == [embed |-> MaxEmbed, llm |-> MaxLlm]
Budget == [embed |-> EmbedBudget, llm |-> LlmBudget]

TypeOK ==
  /\ book \in Books
  /\ mapped \in SUBSET Audits
  /\ owed \in SUBSET Audits
  /\ phase \in [Audits -> Phases]
  /\ step \in [Audits -> Steps]
  /\ rows \in [Audits -> 0..MaxRows]
  /\ raised \in SUBSET Audits
  /\ inflight \in [Kinds -> SUBSET Audits]
  /\ spent \in [Kinds -> [Audits -> Nat]]
  /\ calls \in [Kinds -> [Audits -> Nat]]
  /\ \A k \in Kinds, a \in Audits : spent[k][a] <= Budget[k] /\ calls[k][a] <= Budget[k]
  /\ cached \in BOOLEAN
  /\ flock \in Audits \cup {Nobody}
  /\ computed \in Nat
  /\ again \in 0..MaxAgain
  /\ hits \in 0..MaxHits

NoCalls == [k \in Kinds |-> [a \in Audits |-> 0]]

Init ==
  /\ book \in Books
  /\ mapped = {}
  /\ owed = Audits
  /\ phase = [a \in Audits |-> "idle"]
  /\ step = [a \in Audits |-> "wait"]
  /\ rows = [a \in Audits |-> 0]
  /\ raised = {}
  /\ inflight = [k \in Kinds |-> {}]
  /\ spent = NoCalls
  /\ calls = NoCalls
  /\ cached = FALSE
  /\ flock = Nobody
  /\ computed = 0
  /\ again = 0
  /\ hits = 0

Kind(a) == IF phase[a] = "embed" THEN "embed" ELSE "llm"

InPhase(a) == phase[a] \in {"embed", "chat", "explain"}

At(a, s) == InPhase(a) /\ step[a] = s

(* The phase goes on with another step, or another phase begins. *)
Step(a, s) == step' = [step EXCEPT ![a] = s] /\ UNCHANGED phase
Enter(a, p) ==
  /\ phase' = [phase EXCEPT ![a] = p]
  /\ step' = [step EXCEPT ![a] = "wait"]

(* The explain stage, if there is something to explain. *)
Explain(a) ==
  IF a \in book.issues
    THEN /\ Enter(a, "explain")
         /\ \E n \in 1..MaxRows : rows' = [rows EXCEPT ![a] = n]
    ELSE /\ Enter(a, "end")
         /\ rows' = [rows EXCEPT ![a] = 0]

(* After embed the rows still open go to chat; then mapping.json is written *)
(* and the explain stage follows.                                           *)
LeavePhase(a) ==
  LET open == phase[a] = "embed" /\ rows[a] > 0
  IN  \/ open /\ Enter(a, "chat") /\ UNCHANGED <<rows, mapped>>
      \/ phase[a] = "explain" /\ Enter(a, "end") /\ rows' = [rows EXCEPT ![a] = 0] /\ UNCHANGED mapped
      \/ ~open /\ phase[a] # "explain" /\ Explain(a) /\ mapped' = mapped \cup {a}

-----------------------------------------------------------------------------
(* Redis: _SLOT_LUA, SREM, _CHARGE_LUA *)

(* mutant: one member too many *)
SlotGrantedLoose(a, k) == a \in inflight[k] \/ Cardinality(inflight[k]) <= Cap[k]

SlotGranted(a, k) ==
  a \in inflight[k] \/ Cardinality(inflight[k]) < Cap[k]

Joined(a, k) == inflight' = [inflight EXCEPT ![k] = @ \cup {a}]
Left(a, k)   == inflight' = [inflight EXCEPT ![k] = @ \ {a}]

(* mutant: one call too many *)
ChargeableOnceMore(a, k) == spent[k][a] <= Budget[k]

Chargeable(a, k) == spent[k][a] < Budget[k]

-----------------------------------------------------------------------------
(* The run *)

StartRun(a) ==
  /\ a \in owed
  /\ phase[a] = "idle"
  /\ calls' = [k \in Kinds |-> [calls[k] EXCEPT ![a] = 0]]
  /\ IF a \in book.unmatched \ mapped
       THEN /\ Enter(a, "embed")
            /\ \E n \in 1..MaxRows : rows' = [rows EXCEPT ![a] = n]
            /\ UNCHANGED mapped
       ELSE LeavePhase(a)
  /\ UNCHANGED <<raised, inflight, spent, cacheVars, jobVars>>

Acquire(a) ==
  /\ At(a, "wait")
  /\ SlotGranted(a, Kind(a))
  /\ Joined(a, Kind(a))
  /\ Step(a, IF phase[a] = "embed" THEN "cache" ELSE "charge")
  /\ UNCHANGED <<mapped, rows, raised, spent, calls, cacheVars, jobVars>>

(* A try that fails may be the last one before the deadline. *)
SlotTimeout(a) ==
  /\ At(a, "wait")
  /\ ~SlotGranted(a, Kind(a))
  /\ LeavePhase(a)
  /\ UNCHANGED <<raised, inflight, spent, calls, cacheVars, jobVars>>

(* load_concept_vectors *)
ReadCache(a) ==
  /\ At(a, "cache")
  /\ Step(a, IF cached THEN "charge" ELSE "flock")
  /\ UNCHANGED <<mapped, rows, raised, inflight, spent, calls, cacheVars, jobVars>>

TakeFlock(a) ==
  /\ At(a, "flock")
  /\ flock = Nobody
  /\ flock' = a
  /\ Step(a, "recheck")
  /\ UNCHANGED <<mapped, rows, raised, inflight, spent, calls, cached, computed, jobVars>>

(* mutant: the cache is not read again under the lock *)
RecheckNot(a) ==
  /\ At(a, "recheck")
  /\ Step(a, "vectors")
  /\ UNCHANGED <<mapped, rows, raised, inflight, spent, calls, cacheVars, jobVars>>

Recheck(a) ==
  /\ At(a, "recheck")
  /\ Step(a, IF cached THEN "charge" ELSE "vectors")
  /\ flock' = IF cached THEN Nobody ELSE a
  /\ UNCHANGED <<mapped, rows, raised, inflight, spent, calls, cached, computed, jobVars>>

ComputeVectors(a) ==
  /\ At(a, "vectors")
  /\ cached' = TRUE
  /\ computed' = computed + 1
  /\ flock' = Nobody
  /\ Step(a, "charge")
  /\ UNCHANGED <<mapped, rows, raised, inflight, spent, calls, jobVars>>

(* mutant: the lock stays taken when the port fails *)
NoVectorsLocked(a) ==
  /\ At(a, "vectors")
  /\ Step(a, "release")
  /\ UNCHANGED <<mapped, rows, raised, inflight, spent, calls, cacheVars, jobVars>>

(* PortError, or no vectors at all: nothing is written. *)
NoVectors(a) ==
  /\ At(a, "vectors")
  /\ flock' = Nobody
  /\ Step(a, "release")
  /\ UNCHANGED <<mapped, rows, raised, inflight, spent, calls, cached, computed, jobVars>>

Charge(a) ==
  /\ At(a, "charge")
  /\ Chargeable(a, Kind(a))
  /\ spent' = [spent EXCEPT ![Kind(a)][a] = @ + 1]
  /\ calls' = [calls EXCEPT ![Kind(a)][a] = @ + 1]
  /\ Step(a, "call")
  /\ UNCHANGED <<mapped, rows, raised, inflight, cacheVars, jobVars>>

(* On to the next row or issue, or out of the loop. *)
NextRow(a) ==
  /\ rows' = [rows EXCEPT ![a] = @ - 1]
  /\ Step(a, IF rows[a] = 1 THEN "release" ELSE "charge")

(* Out of budget: the cascade breaks, the explain stage goes on.            *)
ChargeRefused(a) ==
  /\ At(a, "charge")
  /\ ~Chargeable(a, Kind(a))
  /\ IF phase[a] = "explain" THEN NextRow(a) ELSE Step(a, "release") /\ UNCHANGED rows
  /\ UNCHANGED <<mapped, raised, inflight, spent, calls, cacheVars, jobVars>>

CallAnswered(a) ==
  /\ At(a, "call")
  /\ IF phase[a] = "embed"
       THEN /\ Step(a, "release")
            /\ rows' = [rows EXCEPT ![a] = IF a \in book.hard THEN @ ELSE 0]
       ELSE NextRow(a)
  /\ UNCHANGED <<mapped, raised, inflight, spent, calls, cacheVars, jobVars>>

(* mutant: the release is not in a finally clause *)
CallFailsHolding(a) ==
  /\ At(a, "call")
  /\ phase[a] \in {"embed", "chat"}
  /\ LeavePhase(a)
  /\ UNCHANGED <<raised, inflight, spent, calls, cacheVars, jobVars>>

(* PortError leaves the loop of the cascade, and not the one of explain.    *)
CallFails(a) ==
  /\ At(a, "call")
  /\ phase[a] \in {"embed", "chat"}
  /\ Step(a, "release")
  /\ UNCHANGED <<mapped, rows, raised, inflight, spent, calls, cacheVars, jobVars>>

Release(a) ==
  /\ At(a, "release")
  /\ Left(a, Kind(a))
  /\ IF a \in raised THEN Enter(a, "end") /\ UNCHANGED <<mapped, rows>> ELSE LeavePhase(a)
  /\ UNCHANGED <<raised, spent, calls, cacheVars, jobVars>>

(* mutant: the budget keys are left *)
EndRunUnpaid(a) ==
  /\ phase[a] = "end"
  /\ Enter(a, "idle")
  /\ owed' = owed \ {a}
  /\ raised' = raised \ {a}
  /\ UNCHANGED <<book, mapped, rows, inflight, spent, calls, cacheVars, again, hits>>

(* set_terminal deletes the budget keys, and the job is acknowledged.       *)
EndRun(a) ==
  /\ phase[a] = "end"
  /\ Enter(a, "idle")
  /\ owed' = owed \ {a}
  /\ raised' = raised \ {a}
  /\ spent' = [k \in Kinds |-> [spent[k] EXCEPT ![a] = 0]]
  /\ UNCHANGED <<book, mapped, rows, inflight, calls, cacheVars, again, hits>>

(* Answers drop mapping.json and queue the job again. *)
AnswersQueued(a) ==
  /\ again < MaxAgain
  /\ again' = again + 1
  /\ phase[a] = "idle"
  /\ a \notin owed
  /\ owed' = owed \cup {a}
  /\ mapped' = mapped \ {a}
  /\ UNCHANGED <<book, phase, step, rows, raised, inflight, spent, calls, cacheVars,
                 hits>>

-----------------------------------------------------------------------------
Hit(kind) ==
  /\ kind \in HitKinds
  /\ hits < MaxHits
  /\ hits' = hits + 1

(* A Redis call of the thread raises, and with it the run.  The release of  *)
(* the cascade is in a finally clause, that of explain is not.              *)
RedisFault(a) ==
  /\ Hit("fault")
  /\ \/ At(a, "wait") \/ At(a, "charge") \/ At(a, "release")
  /\ IF step[a] = "charge" /\ phase[a] # "explain"
       THEN raised' = raised \cup {a} /\ Step(a, "release")
       ELSE Enter(a, "end") /\ UNCHANGED raised
  /\ rows' = [rows EXCEPT ![a] = 0]
  /\ UNCHANGED <<book, mapped, owed, inflight, spent, calls, cacheVars, again>>

(* set_terminal raises: the job stays unacknowledged and comes again.       *)
TerminalFault(a) ==
  /\ Hit("fault")
  /\ phase[a] = "end"
  /\ Enter(a, "idle")
  /\ raised' = raised \ {a}
  /\ UNCHANGED <<book, mapped, owed, rows, inflight, spent, calls, cacheVars, again>>

(* The process is killed and Redis goes on.  The file lock goes with its    *)
(* process; the jobs that had not ended are delivered again.                *)
Kill ==
  /\ Hit("kill")
  /\ phase' = [a \in Audits |-> "idle"]
  /\ step' = [a \in Audits |-> "wait"]
  /\ rows' = [a \in Audits |-> 0]
  /\ raised' = {}
  /\ calls' = NoCalls
  /\ flock' = Nobody
  /\ UNCHANGED <<book, mapped, owed, inflight, spent, cached, computed, again>>

Run(a) ==
  \/ StartRun(a) \/ Acquire(a) \/ SlotTimeout(a)
  \/ ReadCache(a) \/ TakeFlock(a) \/ Recheck(a)
  \/ ComputeVectors(a) \/ NoVectors(a)
  \/ Charge(a) \/ ChargeRefused(a) \/ CallAnswered(a) \/ CallFails(a)
  \/ Release(a) \/ EndRun(a)

Next ==
  \/ \E a \in Audits : Run(a) \/ AnswersQueued(a) \/ RedisFault(a) \/ TerminalFault(a)
  \/ Kill

Spec == Init /\ [][Next]_vars

(* Threads are scheduled, and the ports answer or time out. *)
FairSpec == Spec /\ \A a \in Audits : WF_vars(Run(a))

-----------------------------------------------------------------------------
(* Properties *)

Calling(k) == {a \in Audits : At(a, "call") /\ Kind(a) = k}

(* No more audits call a port at once than its set has room for, whatever   *)
(* members kills and faults have left in it.                                *)
PortCapRespected == \A k \in Kinds : Cardinality(Calling(k)) <= Cap[k]

(* A run is granted no call its budget does not pay for, and unless it was  *)
(* interrupted the keys count its own calls: nothing that an earlier run of *)
(* the audit spent is held against it.                                      *)
BudgetPerRun ==
  \A a \in Audits, k \in Kinds :
    InPhase(a) => /\ calls[k][a] <= spent[k][a]
                  /\ hits = 0 => calls[k][a] = spent[k][a]

(* The vectors of the taxonomy are computed and written once, however many *)
(* runs miss the cache at the same time and wherever they are killed.      *)
VectorsOnce == computed <= 1

(* An audit that has taken a slot of a port gives it back, unless a kill or *)
(* a Redis error has interrupted a run.                                     *)
SlotsReturned ==
  \A a \in Audits, k \in Kinds :
    a \in inflight[k] ~> a \notin inflight[k] \/ hits > 0

(* No run waits for ever, neither for a slot nor for the file lock.         *)
RunsEnd == \A a \in Audits : a \in owed ~> a \notin owed
=============================================================================
