--------------------------- MODULE PortSlotsProofs ----------------------------
(***************************************************************************)
(* Theorems of PortSlots for any number of audits, caps and budgets, and   *)
(* wherever kills and Redis errors hit: types, budgets, the vectors that   *)
(* are computed once, and the caps of the ports.                           *)
(***************************************************************************)
EXTENDS PortSlots, FiniteSetTheorems, TLAPS

InPhases == {"embed", "chat", "explain"}

(* A thread that is not about to release its slot has rows to ask about. *)
RowsLeft == \A a \in Audits : InPhase(a) /\ step[a] # "release" => rows[a] > 0

(* The budget keys of an audit without a run are gone, unless a run of it   *)
(* was interrupted.                                                         *)
Unspent ==
  hits = 0 => \A a \in Audits, k \in Kinds : phase[a] = "idle" => spent[k][a] = 0

Accounts == TypeOK /\ RowsLeft /\ BudgetPerRun /\ Unspent

-----------------------------------------------------------------------------
(* What steps do to the run they are of *)

(* The run of a goes to phase p and step s with n rows to ask about. *)
MovesTo(a, p, s, n) ==
  /\ phase' = [phase EXCEPT ![a] = p]
  /\ step' = [step EXCEPT ![a] = s]
  /\ rows' = [rows EXCEPT ![a] = n]
  /\ p \in InPhases /\ s # "release" => n > 0

Moves(a) == \E p \in Phases \ {"idle"}, s \in Steps, n \in 0..MaxRows : MovesTo(a, p, s, n)

LEMMA MovesTyped ==
  ASSUME TypeOK, RowsLeft, NEW a \in Audits, NEW p \in Phases, NEW s \in Steps,
         NEW n \in 0..MaxRows, MovesTo(a, p, s, n)
  PROVE  /\ phase' \in [Audits -> Phases]
         /\ step' \in [Audits -> Steps]
         /\ rows' \in [Audits -> 0..MaxRows]
         /\ RowsLeft'
<1>1. phase' \in [Audits -> Phases] /\ step' \in [Audits -> Steps]
  BY DEF TypeOK, MovesTo
<1>2. rows' \in [Audits -> 0..MaxRows]
  BY DEF TypeOK, MovesTo
<1>3. RowsLeft'
  BY DEF TypeOK, MovesTo, RowsLeft, InPhase, InPhases
<1> QED
  BY <1>1, <1>2, <1>3

(* Leaving a phase begins another one, with rows to ask about, or ends the  *)
(* run.                                                                     *)
LEMMA LeavePhaseMoves ==
  ASSUME TypeOK, NEW a \in Audits, LeavePhase(a)
  PROVE  /\ \E p \in {"chat", "explain", "end"}, n \in 0..MaxRows : MovesTo(a, p, "wait", n)
         /\ mapped' \in SUBSET Audits
<1>1. CASE phase[a] = "embed" /\ rows[a] > 0
  <2>1. MovesTo(a, "chat", "wait", rows[a]) /\ UNCHANGED mapped
    BY <1>1 DEF LeavePhase, Enter, MovesTo, TypeOK
  <2> QED
    BY <2>1 DEF TypeOK
<1>2. CASE phase[a] = "explain"
  <2>1. MovesTo(a, "end", "wait", 0) /\ UNCHANGED mapped
    BY <1>2 DEF LeavePhase, Enter, MovesTo, InPhases
  <2> QED
    BY <2>1, BoundAssumption DEF TypeOK
<1>3. CASE ~(phase[a] = "embed" /\ rows[a] > 0) /\ phase[a] # "explain"
  <2>1. Explain(a) /\ mapped' = mapped \cup {a}
    BY <1>3 DEF LeavePhase
  <2>2. CASE a \in book.issues
    <3>1. PICK n \in 1..MaxRows : rows' = [rows EXCEPT ![a] = n]
      BY <2>1, <2>2 DEF Explain
    <3>2. MovesTo(a, "explain", "wait", n)
      BY <2>1, <2>2, <3>1 DEF Explain, Enter, MovesTo
    <3> QED
      BY <2>1, <3>2 DEF TypeOK
  <2>3. CASE a \notin book.issues
    <3>1. MovesTo(a, "end", "wait", 0)
      BY <2>1, <2>3 DEF Explain, Enter, MovesTo, InPhases
    <3> QED
      BY <2>1, <3>1, BoundAssumption DEF TypeOK
  <2> QED
    BY <2>2, <2>3
<1> QED
  BY <1>1, <1>2, <1>3

(* What a step of a run in a phase leaves of the accounts, when it charges  *)
(* nothing.                                                                 *)
LEMMA QuietMoves ==
  ASSUME Accounts, NEW a \in Audits, InPhase(a), Moves(a), UNCHANGED <<spent, calls, hits>>
  PROVE  /\ phase' \in [Audits -> Phases]
         /\ step' \in [Audits -> Steps]
         /\ rows' \in [Audits -> 0..MaxRows]
         /\ RowsLeft' /\ BudgetPerRun' /\ Unspent'
<1>1. PICK p \in Phases \ {"idle"}, s \in Steps, n \in 0..MaxRows : MovesTo(a, p, s, n)
  BY DEF Moves
<1>2. /\ phase' \in [Audits -> Phases]
      /\ step' \in [Audits -> Steps]
      /\ rows' \in [Audits -> 0..MaxRows]
      /\ RowsLeft'
  BY <1>1, MovesTyped DEF Accounts
<1>3. /\ phase' = [phase EXCEPT ![a] = p]
      /\ p # "idle"
      /\ phase \in [Audits -> Phases]
  BY <1>1 DEF MovesTo, Accounts, TypeOK
<1>4. \A b \in Audits : InPhase(b)' => InPhase(b)
  BY <1>3 DEF InPhase
<1>5. \A b \in Audits : phase'[b] = "idle" => phase[b] = "idle"
  BY <1>3
<1>6. BudgetPerRun'
  BY <1>4 DEF Accounts, BudgetPerRun
<1>7. Unspent'
  BY <1>5 DEF Accounts, Unspent
<1> QED
  BY <1>2, <1>6, <1>7

-----------------------------------------------------------------------------
(* Every step moves its run *)

QuietRun(a) ==
  \/ Acquire(a) \/ SlotTimeout(a) \/ ReadCache(a) \/ TakeFlock(a) \/ Recheck(a)
  \/ ComputeVectors(a) \/ NoVectors(a) \/ ChargeRefused(a) \/ CallAnswered(a)
  \/ CallFails(a) \/ Release(a)

(* A thread that goes on within its phase keeps its rows or takes the next. *)
LEMMA StepMoves ==
  ASSUME TypeOK, RowsLeft, NEW a \in Audits, InPhase(a), step[a] # "release",
         NEW s \in Steps, Step(a, s), UNCHANGED rows
  PROVE  Moves(a)
<1>1. rows[a] > 0 /\ rows[a] \in 0..MaxRows /\ phase[a] \in Phases \ {"idle"}
  BY DEF RowsLeft, TypeOK, InPhase, Phases
<1>2. MovesTo(a, phase[a], s, rows[a])
  BY <1>1 DEF Step, MovesTo, TypeOK
<1> QED
  BY <1>1, <1>2 DEF Moves

LEMMA NextRowMoves ==
  ASSUME TypeOK, RowsLeft, NEW a \in Audits, InPhase(a), step[a] # "release", NextRow(a)
  PROVE  Moves(a)
<1>1. rows[a] > 0 /\ rows[a] \in 0..MaxRows /\ phase[a] \in Phases \ {"idle"}
  BY DEF RowsLeft, TypeOK, InPhase, Phases
<1>2. rows[a] - 1 \in 0..MaxRows
  BY <1>1, BoundAssumption
<1>3. CASE rows[a] = 1
  <2>1. MovesTo(a, phase[a], "release", rows[a] - 1)
    BY <1>3 DEF NextRow, Step, MovesTo, TypeOK
  <2> QED
    BY <2>1, <1>1, <1>2 DEF Moves, Steps
<1>4. CASE rows[a] # 1
  <2>1. MovesTo(a, phase[a], "charge", rows[a] - 1)
    BY <1>1, <1>4 DEF NextRow, Step, MovesTo, TypeOK
  <2> QED
    BY <2>1, <1>1, <1>2 DEF Moves, Steps
<1> QED
  BY <1>3, <1>4

LEMMA LeaveMoves ==
  ASSUME TypeOK, NEW a \in Audits, LeavePhase(a)
  PROVE  Moves(a) /\ mapped' \in SUBSET Audits
BY LeavePhaseMoves DEF Moves, Phases, Steps

(* A step of a run that charges nothing moves the run and no budget. *)
LEMMA QuietRunMoves ==
  ASSUME TypeOK, RowsLeft, NEW a \in Audits, QuietRun(a)
  PROVE  /\ InPhase(a) /\ Moves(a)
         /\ UNCHANGED <<spent, calls, jobVars>>
         /\ raised' = raised
         /\ mapped' \in SUBSET Audits
         /\ inflight' = inflight \/ Joined(a, Kind(a)) \/ Left(a, Kind(a))
<1>0. mapped \in SUBSET Audits
  BY DEF TypeOK
<1>1. CASE Acquire(a)
  <2>1. InPhase(a) /\ step[a] # "release" /\ UNCHANGED rows
    BY <1>1 DEF Acquire, At
  <2>2. \E s \in Steps : Step(a, s)
    BY <1>1 DEF Acquire, Steps
  <2>3. Moves(a)
    BY <2>1, <2>2, StepMoves
  <2> QED
    BY <1>0, <1>1, <2>1, <2>3 DEF Acquire
<1>2. CASE SlotTimeout(a)
  BY <1>2, LeaveMoves DEF SlotTimeout, At
<1>3. CASE ReadCache(a)
  <2>1. InPhase(a) /\ step[a] # "release" /\ UNCHANGED rows
    BY <1>3 DEF ReadCache, At
  <2>2. \E s \in Steps : Step(a, s)
    BY <1>3 DEF ReadCache, Steps
  <2>3. Moves(a)
    BY <2>1, <2>2, StepMoves
  <2> QED
    BY <1>0, <1>3, <2>1, <2>3 DEF ReadCache
<1>4. CASE TakeFlock(a)
  <2>1. InPhase(a) /\ step[a] # "release" /\ UNCHANGED rows
    BY <1>4 DEF TakeFlock, At
  <2>2. \E s \in Steps : Step(a, s)
    BY <1>4 DEF TakeFlock, Steps
  <2>3. Moves(a)
    BY <2>1, <2>2, StepMoves
  <2> QED
    BY <1>0, <1>4, <2>1, <2>3 DEF TakeFlock
<1>5. CASE Recheck(a)
  <2>1. InPhase(a) /\ step[a] # "release" /\ UNCHANGED rows
    BY <1>5 DEF Recheck, At
  <2>2. \E s \in Steps : Step(a, s)
    BY <1>5 DEF Recheck, Steps
  <2>3. Moves(a)
    BY <2>1, <2>2, StepMoves
  <2> QED
    BY <1>0, <1>5, <2>1, <2>3 DEF Recheck
<1>6. CASE ComputeVectors(a) \/ NoVectors(a)
  <2>1. InPhase(a) /\ step[a] # "release" /\ UNCHANGED rows
    BY <1>6 DEF ComputeVectors, NoVectors, At
  <2>2. \E s \in Steps : Step(a, s)
    BY <1>6 DEF ComputeVectors, NoVectors, Steps
  <2>3. Moves(a)
    BY <2>1, <2>2, StepMoves
  <2> QED
    BY <1>0, <1>6, <2>1, <2>3 DEF ComputeVectors, NoVectors
<1>7. CASE ChargeRefused(a)
  <2>1. InPhase(a) /\ step[a] # "release"
    BY <1>7 DEF ChargeRefused, At
  <2>2. NextRow(a) \/ (Step(a, "release") /\ UNCHANGED rows)
    BY <1>7 DEF ChargeRefused
  <2>3. Moves(a)
    BY <2>1, <2>2, StepMoves, NextRowMoves DEF Steps
  <2> QED
    BY <1>0, <1>7, <2>1, <2>3 DEF ChargeRefused
<1>8. CASE CallAnswered(a)
  <2>1. InPhase(a) /\ step[a] # "release"
    BY <1>8 DEF CallAnswered, At
  <2>2. CASE phase[a] = "embed"
    <3>1. PICK n \in 0..MaxRows : rows' = [rows EXCEPT ![a] = n]
      BY <1>8, <2>2, BoundAssumption DEF CallAnswered, TypeOK
    <3>2. MovesTo(a, "embed", "release", n)
      BY <1>8, <2>2, <3>1 DEF CallAnswered, Step, MovesTo, TypeOK
    <3> QED
      BY <1>0, <1>8, <2>1, <3>2 DEF CallAnswered, Moves, Phases, Steps
  <2>3. CASE phase[a] # "embed"
    <3>1. Moves(a)
      BY <1>8, <2>1, <2>3, NextRowMoves DEF CallAnswered
    <3> QED
      BY <1>0, <1>8, <2>1, <3>1 DEF CallAnswered
  <2> QED
    BY <2>2, <2>3
<1>9. CASE CallFails(a)
  <2>1. InPhase(a) /\ step[a] # "release" /\ UNCHANGED rows
    BY <1>9 DEF CallFails, At
  <2>2. Moves(a)
    BY <1>9, <2>1, StepMoves DEF CallFails, Steps
  <2> QED
    BY <1>0, <1>9, <2>1, <2>2 DEF CallFails
<1>10. CASE Release(a)
  <2>1. CASE a \in raised
    <3>1. rows[a] \in 0..MaxRows /\ MovesTo(a, "end", "wait", rows[a])
      BY <1>10, <2>1 DEF Release, Enter, MovesTo, InPhases, TypeOK
    <3> QED
      BY <1>0, <1>10, <2>1, <3>1 DEF Release, At, Moves, Phases, Steps
  <2>2. CASE a \notin raised
    BY <1>10, <2>2, LeaveMoves DEF Release, At
  <2> QED
    BY <2>1, <2>2
<1> QED
  BY <1>1, <1>2, <1>3, <1>4, <1>5, <1>6, <1>7, <1>8, <1>9, <1>10 DEF QuietRun

-----------------------------------------------------------------------------
(* Types and budgets *)

LEMMA InitAccounts == Init => Accounts
<1>1. Init => TypeOK
  <2> SUFFICES ASSUME Init PROVE TypeOK
    OBVIOUS
  <2>1. \A k \in Kinds : Budget[k] \in Nat
    BY BudgetAssumption DEF Kinds, Budget
  <2>2. /\ spent \in [Kinds -> [Audits -> Nat]] /\ calls \in [Kinds -> [Audits -> Nat]]
        /\ \A k \in Kinds, a \in Audits : spent[k][a] <= Budget[k] /\ calls[k][a] <= Budget[k]
    BY <2>1 DEF Init, NoCalls
  <2>3. /\ phase \in [Audits -> Phases] /\ step \in [Audits -> Steps]
        /\ rows \in [Audits -> 0..MaxRows] /\ inflight \in [Kinds -> SUBSET Audits]
    BY BoundAssumption DEF Init, Phases, Steps
  <2>4. /\ mapped \in SUBSET Audits /\ owed \in SUBSET Audits /\ raised \in SUBSET Audits
        /\ cached \in BOOLEAN /\ flock \in Audits \cup {Nobody} /\ computed \in Nat
    BY DEF Init
  <2>6. again \in 0..MaxAgain /\ hits \in 0..MaxHits
    BY BoundAssumption DEF Init
  <2>5. book \in Books
    BY DEF Init
  <2> QED
    BY <2>2, <2>3, <2>4, <2>5, <2>6 DEF TypeOK
<1>2. Init => RowsLeft /\ BudgetPerRun
  BY DEF Init, RowsLeft, BudgetPerRun, InPhase
<1>3. Init => Unspent
  BY DEF Init, Unspent, NoCalls
<1> QED
  BY <1>1, <1>2, <1>3 DEF Accounts

LEMMA SlotsTyped ==
  ASSUME TypeOK, NEW a \in Audits,
         inflight' = inflight \/ Joined(a, Kind(a)) \/ Left(a, Kind(a))
  PROVE  inflight' \in [Kinds -> SUBSET Audits]
BY DEF TypeOK, Joined, Left, Kind, Kinds

LEMMA CacheTyped ==
  ASSUME TypeOK, [Next]_vars
  PROVE  cached' \in BOOLEAN /\ flock' \in Audits \cup {Nobody} /\ computed' \in Nat
<1> USE DEF TypeOK, cacheVars
<1>1. ASSUME NEW a \in Audits, Recheck(a) \/ ComputeVectors(a) \/ NoVectors(a) \/ TakeFlock(a)
      PROVE  cached' \in BOOLEAN /\ flock' \in Audits \cup {Nobody} /\ computed' \in Nat
  <2>1. CASE Recheck(a)
    BY <2>1 DEF Recheck
  <2>2. CASE ComputeVectors(a)
    BY <2>2 DEF ComputeVectors
  <2>3. CASE NoVectors(a) \/ TakeFlock(a)
    BY <2>3 DEF NoVectors, TakeFlock
  <2> QED
    BY <1>1, <2>1, <2>2, <2>3
<1>2. ASSUME NEW a \in Audits, Run(a)
      PROVE  cached' \in BOOLEAN /\ flock' \in Audits \cup {Nobody} /\ computed' \in Nat
  <2>1. CASE StartRun(a) \/ Acquire(a) \/ SlotTimeout(a) \/ ReadCache(a)
    BY <2>1 DEF StartRun, Acquire, SlotTimeout, ReadCache
  <2>2. CASE Charge(a) \/ ChargeRefused(a) \/ CallAnswered(a) \/ CallFails(a)
    BY <2>2 DEF Charge, ChargeRefused, CallAnswered, CallFails
  <2>3. CASE Release(a) \/ EndRun(a)
    BY <2>3 DEF Release, EndRun
  <2>4. CASE Recheck(a) \/ ComputeVectors(a) \/ NoVectors(a) \/ TakeFlock(a)
    BY <1>1, <2>4
  <2>5. \/ StartRun(a) \/ Acquire(a) \/ SlotTimeout(a) \/ ReadCache(a)
        \/ Charge(a) \/ ChargeRefused(a) \/ CallAnswered(a) \/ CallFails(a)
        \/ Release(a) \/ EndRun(a)
        \/ Recheck(a) \/ ComputeVectors(a) \/ NoVectors(a) \/ TakeFlock(a)
    BY <1>2 DEF Run
  <2> QED
    BY <2>1, <2>2, <2>3, <2>4, <2>5
<1>3. ASSUME NEW a \in Audits, AnswersQueued(a) \/ RedisFault(a) \/ TerminalFault(a)
      PROVE  cached' \in BOOLEAN /\ flock' \in Audits \cup {Nobody} /\ computed' \in Nat
  BY <1>3 DEF AnswersQueued, RedisFault, TerminalFault
<1>4. CASE Kill
  BY <1>4 DEF Kill
<1>5. CASE UNCHANGED vars
  BY <1>5 DEF vars
<1> QED
  BY <1>2, <1>3, <1>4, <1>5 DEF Next

LEMMA QuietRunKeepsAccounts ==
  ASSUME Accounts, NEW a \in Audits, QuietRun(a)
  PROVE  Accounts'
<1>1. /\ InPhase(a) /\ Moves(a)
      /\ UNCHANGED <<spent, calls, jobVars>>
      /\ raised' = raised
      /\ mapped' \in SUBSET Audits
      /\ inflight' \in [Kinds -> SUBSET Audits]
  BY QuietRunMoves, SlotsTyped DEF Accounts
<1>2. /\ phase' \in [Audits -> Phases]
      /\ step' \in [Audits -> Steps]
      /\ rows' \in [Audits -> 0..MaxRows]
      /\ RowsLeft' /\ BudgetPerRun' /\ Unspent'
  BY <1>1, QuietMoves DEF jobVars
<1>3. cached' \in BOOLEAN /\ flock' \in Audits \cup {Nobody} /\ computed' \in Nat
  <2>1. Run(a)
    BY DEF QuietRun, Run
  <2> QED
    BY <2>1, CacheTyped DEF Next, Accounts
<1>4. TypeOK'
  BY <1>1, <1>2, <1>3 DEF Accounts, TypeOK, jobVars
<1> QED
  BY <1>2, <1>4 DEF Accounts

(* A run begins with the wait for a slot, or has nothing to ask for. *)
LEMMA StartRunMoves ==
  ASSUME TypeOK, NEW a \in Audits, StartRun(a)
  PROVE  Moves(a) /\ step'[a] = "wait" /\ mapped' \in SUBSET Audits
<1>1. CASE a \in book.unmatched \ mapped
  <2>1. PICK n \in 1..MaxRows : rows' = [rows EXCEPT ![a] = n]
    BY <1>1 DEF StartRun
  <2>2. MovesTo(a, "embed", "wait", n) /\ UNCHANGED mapped
    BY <1>1, <2>1 DEF StartRun, Enter, MovesTo
  <2>3. step'[a] = "wait"
    BY <2>2 DEF MovesTo, TypeOK
  <2>4. Moves(a)
    BY <2>2 DEF Moves, Phases, Steps
  <2> QED
    BY <2>2, <2>3, <2>4 DEF TypeOK
<1>2. CASE a \notin book.unmatched \ mapped
  <2>1. LeavePhase(a)
    BY <1>2 DEF StartRun
  <2>2. PICK p \in {"chat", "explain", "end"}, n \in 0..MaxRows : MovesTo(a, p, "wait", n)
    BY <2>1, LeavePhaseMoves
  <2>3. step'[a] = "wait"
    BY <2>2 DEF MovesTo, TypeOK
  <2> QED
    BY <2>1, <2>3, LeaveMoves
<1> QED
  BY <1>1, <1>2

(* A run begins without calls and, unless one of the audit's was            *)
(* interrupted, with a budget nothing was taken from.                       *)
LEMMA StartRunKeepsAccounts ==
  ASSUME Accounts, NEW a \in Audits, StartRun(a)
  PROVE  Accounts'
<1>1. Moves(a) /\ mapped' \in SUBSET Audits
  BY StartRunMoves DEF Accounts
<1>2. PICK p \in Phases \ {"idle"}, s \in Steps, n \in 0..MaxRows : MovesTo(a, p, s, n)
  BY <1>1 DEF Moves
<1>3. /\ phase' \in [Audits -> Phases]
      /\ step' \in [Audits -> Steps]
      /\ rows' \in [Audits -> 0..MaxRows]
      /\ RowsLeft'
  BY <1>2, MovesTyped DEF Accounts
<1>4. /\ UNCHANGED <<raised, inflight, spent, cacheVars, jobVars>>
      /\ calls' = [k \in Kinds |-> [calls[k] EXCEPT ![a] = 0]]
      /\ phase[a] = "idle"
  BY DEF StartRun
<1>5. /\ calls' \in [Kinds -> [Audits -> Nat]]
      /\ \A k \in Kinds : calls'[k][a] = 0
      /\ \A k \in Kinds, b \in Audits \ {a} : calls'[k][b] = calls[k][b]
  BY <1>4 DEF Accounts, TypeOK
<1>6. \A k \in Kinds : Budget[k] \in Nat
  BY BudgetAssumption DEF Kinds, Budget
<1>7. TypeOK'
  <2>1. \A k \in Kinds, b \in Audits : spent'[k][b] <= Budget[k] /\ calls'[k][b] <= Budget[k]
    BY <1>4, <1>5, <1>6 DEF Accounts, TypeOK
  <2> QED
    BY <1>1, <1>3, <1>4, <1>5, <2>1 DEF Accounts, TypeOK, cacheVars, jobVars
<1>8. BudgetPerRun'
  <2> SUFFICES ASSUME NEW b \in Audits, NEW k \in Kinds, InPhase(b)'
               PROVE  /\ calls'[k][b] <= spent'[k][b]
                      /\ hits' = 0 => calls'[k][b] = spent'[k][b]
    BY DEF BudgetPerRun
  <2>1. CASE b = a
    <3>1. hits = 0 => spent[k][a] = 0
      BY <1>4 DEF Accounts, Unspent
    <3> QED
      BY <2>1, <3>1, <1>4, <1>5 DEF Accounts, TypeOK, jobVars
  <2>2. CASE b # a
    <3>1. InPhase(b)
      BY <1>2, <2>2 DEF MovesTo, InPhase, Accounts, TypeOK
    <3> QED
      BY <2>2, <3>1, <1>4, <1>5 DEF Accounts, BudgetPerRun, jobVars
  <2> QED
    BY <2>1, <2>2
<1>9. Unspent'
  <2>1. \A b \in Audits : phase'[b] = "idle" => phase[b] = "idle"
    BY <1>2 DEF MovesTo, Accounts, TypeOK
  <2> QED
    BY <1>4, <2>1 DEF Accounts, Unspent, jobVars
<1> QED
  BY <1>3, <1>7, <1>8, <1>9 DEF Accounts

(* A call that is granted is within the budget, and its key counts it. *)
LEMMA ChargeKeepsAccounts ==
  ASSUME Accounts, NEW a \in Audits, Charge(a)
  PROVE  Accounts'
<1> DEFINE kind == Kind(a)
<1>1. /\ InPhase(a) /\ step[a] # "release" /\ spent[kind][a] < Budget[kind]
      /\ kind \in Kinds
      /\ spent' = [spent EXCEPT ![kind][a] = @ + 1]
      /\ calls' = [calls EXCEPT ![kind][a] = @ + 1]
      /\ Step(a, "call")
      /\ UNCHANGED <<mapped, rows, raised, inflight, cacheVars, jobVars>>
  BY DEF Charge, At, Chargeable, Kind, Kinds
<1> HIDE DEF kind
<1>2. /\ phase' \in [Audits -> Phases]
      /\ step' \in [Audits -> Steps]
      /\ rows' \in [Audits -> 0..MaxRows]
      /\ RowsLeft'
  <2>1. PICK p \in Phases \ {"idle"}, s \in Steps, n \in 0..MaxRows : MovesTo(a, p, s, n)
    BY <1>1, StepMoves DEF Moves, Accounts, Steps
  <2> QED
    BY <2>1, MovesTyped DEF Accounts
<1>3. phase' = phase
  BY <1>1 DEF Step
<1>4. /\ spent' \in [Kinds -> [Audits -> Nat]]
      /\ calls' \in [Kinds -> [Audits -> Nat]]
      /\ spent'[kind][a] = spent[kind][a] + 1
      /\ calls'[kind][a] = calls[kind][a] + 1
      /\ \A k \in Kinds, b \in Audits :
            k # kind \/ b # a => spent'[k][b] = spent[k][b] /\ calls'[k][b] = calls[k][b]
  BY <1>1 DEF Accounts, TypeOK
<1>5. calls[kind][a] <= spent[kind][a] /\ (hits = 0 => calls[kind][a] = spent[kind][a])
  BY <1>1 DEF Accounts, BudgetPerRun
<1>6. \A k \in Kinds : Budget[k] \in Nat
  BY BudgetAssumption DEF Kinds, Budget
<1>7. spent[kind][a] \in Nat /\ calls[kind][a] \in Nat
  BY <1>1 DEF Accounts, TypeOK
<1>8. TypeOK'
  <2>1. spent'[kind][a] <= Budget[kind] /\ calls'[kind][a] <= Budget[kind]
    BY <1>1, <1>4, <1>5, <1>6, <1>7
  <2>2. \A k \in Kinds, b \in Audits : spent'[k][b] <= Budget[k] /\ calls'[k][b] <= Budget[k]
    BY <1>4, <2>1 DEF Accounts, TypeOK
  <2> QED
    BY <1>1, <1>2, <1>4, <2>2 DEF Accounts, TypeOK, cacheVars, jobVars
<1>9. BudgetPerRun'
  <2> SUFFICES ASSUME NEW b \in Audits, NEW k \in Kinds, InPhase(b)'
               PROVE  /\ calls'[k][b] <= spent'[k][b]
                      /\ hits' = 0 => calls'[k][b] = spent'[k][b]
    BY DEF BudgetPerRun
  <2>1. CASE k = kind /\ b = a
    BY <2>1, <1>1, <1>4, <1>5, <1>7 DEF jobVars
  <2>2. CASE k # kind \/ b # a
    BY <2>2, <1>1, <1>3, <1>4 DEF Accounts, BudgetPerRun, InPhase, jobVars
  <2> QED
    BY <2>1, <2>2
<1>10. Unspent'
  <2>1. phase[a] # "idle"
    BY <1>1 DEF InPhase
  <2> QED
    BY <1>1, <1>3, <1>4, <2>1 DEF Accounts, Unspent, jobVars
<1> QED
  BY <1>2, <1>8, <1>9, <1>10 DEF Accounts

(* A run that ends or is interrupted is in no phase any more.  When it ends *)
(* in order, its keys are gone.                                             *)
LEMMA EndRunKeepsAccounts ==
  ASSUME Accounts, NEW a \in Audits, EndRun(a)
  PROVE  Accounts'
<1>1. /\ phase' = [phase EXCEPT ![a] = "idle"]
      /\ step' = [step EXCEPT ![a] = "wait"]
      /\ owed' \in SUBSET Audits /\ raised' \in SUBSET Audits
      /\ spent' = [k \in Kinds |-> [spent[k] EXCEPT ![a] = 0]]
      /\ UNCHANGED <<book, mapped, rows, inflight, calls, cacheVars, again, hits>>
  BY DEF EndRun, Enter, Accounts, TypeOK
<1>2. phase' \in [Audits -> Phases] /\ step' \in [Audits -> Steps]
  BY <1>1 DEF Accounts, TypeOK, Phases, Steps
<1>3. /\ spent' \in [Kinds -> [Audits -> Nat]]
      /\ \A k \in Kinds : spent'[k][a] = 0
      /\ \A k \in Kinds, b \in Audits \ {a} : spent'[k][b] = spent[k][b]
  BY <1>1 DEF Accounts, TypeOK
<1>4. \A k \in Kinds : Budget[k] \in Nat
  BY BudgetAssumption DEF Kinds, Budget
<1>5. \A k \in Kinds, b \in Audits : spent'[k][b] <= Budget[k] /\ calls'[k][b] <= Budget[k]
  BY <1>1, <1>3, <1>4 DEF Accounts, TypeOK
<1>6. TypeOK'
  BY <1>1, <1>2, <1>3, <1>5 DEF Accounts, TypeOK, cacheVars
<1>7. ~InPhase(a)' /\ \A b \in Audits \ {a} : InPhase(b)' = InPhase(b) /\ step'[b] = step[b]
  BY <1>1 DEF InPhase, Accounts, TypeOK
<1>8. RowsLeft'
  BY <1>1, <1>7 DEF Accounts, RowsLeft
<1>9. BudgetPerRun'
  BY <1>1, <1>3, <1>7 DEF Accounts, BudgetPerRun
<1>10. Unspent'
  <2>1. \A b \in Audits \ {a} : phase'[b] = phase[b]
    BY <1>1 DEF Accounts, TypeOK
  <2> QED
    BY <1>1, <1>3, <2>1 DEF Accounts, Unspent
<1> QED
  BY <1>6, <1>8, <1>9, <1>10 DEF Accounts

LEMMA AnswersKeepAccounts ==
  ASSUME Accounts, NEW a \in Audits, AnswersQueued(a)
  PROVE  Accounts'
<1>1. /\ UNCHANGED <<book, phase, step, rows, raised, inflight, spent, calls, cacheVars, hits>>
      /\ owed' \in SUBSET Audits /\ mapped' \in SUBSET Audits
      /\ again' \in 0..MaxAgain
  BY BoundAssumption DEF AnswersQueued, Accounts, TypeOK
<1> QED
  BY <1>1 DEF Accounts, TypeOK, RowsLeft, BudgetPerRun, Unspent, InPhase, cacheVars

(* After a hit the keys may count calls of interrupted runs, never fewer    *)
(* than the present run made.                                               *)
LEMMA HitsKeepAccounts ==
  ASSUME Accounts, \/ \E a \in Audits : RedisFault(a) \/ TerminalFault(a)
                   \/ Kill
  PROVE  Accounts'
<1>1. hits' \in 1..MaxHits
  BY BoundAssumption DEF RedisFault, TerminalFault, Kill, Hit, Accounts, TypeOK
<1>2. Unspent'
  BY <1>1 DEF Unspent
<1>3. ASSUME NEW a \in Audits, RedisFault(a)
      PROVE  Accounts'
  <2>1. PICK p \in Phases, s \in Steps :
          /\ phase' = [phase EXCEPT ![a] = p]
          /\ step' = [step EXCEPT ![a] = s]
          /\ p = "end" \/ (p = phase[a] /\ s = "release")
    <3>1. CASE step[a] = "charge" /\ phase[a] # "explain"
      <4>1. /\ phase' = [phase EXCEPT ![a] = phase[a]]
            /\ step' = [step EXCEPT ![a] = "release"]
        BY <1>3, <3>1 DEF RedisFault, Step, Accounts, TypeOK
      <4> QED
        BY <4>1 DEF Accounts, TypeOK, Steps
    <3>2. CASE ~(step[a] = "charge" /\ phase[a] # "explain")
      BY <1>3, <3>2 DEF RedisFault, Enter, Phases, Steps
    <3> QED
      BY <3>1, <3>2
  <2>2. /\ InPhase(a)
        /\ rows' = [rows EXCEPT ![a] = 0]
        /\ raised' \in SUBSET Audits
        /\ UNCHANGED <<book, mapped, owed, inflight, spent, calls, cacheVars, again>>
    BY <1>3 DEF RedisFault, At, Accounts, TypeOK
  <2>3. /\ phase' \in [Audits -> Phases] /\ step' \in [Audits -> Steps]
        /\ rows' \in [Audits -> 0..MaxRows]
    BY <2>1, <2>2, BoundAssumption DEF Accounts, TypeOK
  <2>4. TypeOK'
    BY <1>1, <2>2, <2>3 DEF Accounts, TypeOK, cacheVars
  <2>5. RowsLeft'
    BY <2>1, <2>2 DEF Accounts, TypeOK, RowsLeft, InPhase
  <2>6. \A b \in Audits : InPhase(b)' => InPhase(b)
    BY <2>1, <2>2 DEF InPhase, Accounts, TypeOK
  <2>7. BudgetPerRun'
    BY <1>1, <2>2, <2>6 DEF Accounts, BudgetPerRun
  <2> QED
    BY <1>2, <2>4, <2>5, <2>7 DEF Accounts
<1>4. ASSUME NEW a \in Audits, TerminalFault(a)
      PROVE  Accounts'
  <2>1. /\ phase' = [phase EXCEPT ![a] = "idle"]
        /\ step' = [step EXCEPT ![a] = "wait"]
        /\ raised' \in SUBSET Audits
        /\ UNCHANGED <<book, mapped, owed, rows, inflight, spent, calls, cacheVars, again>>
    BY <1>4 DEF TerminalFault, Enter, Accounts, TypeOK
  <2>2. phase' \in [Audits -> Phases] /\ step' \in [Audits -> Steps]
    BY <2>1 DEF Accounts, TypeOK, Phases, Steps
  <2>3. TypeOK'
    BY <1>1, <2>1, <2>2 DEF Accounts, TypeOK, cacheVars
  <2>4. RowsLeft'
    BY <2>1 DEF Accounts, TypeOK, RowsLeft, InPhase
  <2>5. BudgetPerRun'
    BY <1>1, <2>1 DEF Accounts, TypeOK, BudgetPerRun, InPhase
  <2> QED
    BY <1>2, <2>3, <2>4, <2>5 DEF Accounts
<1>5. ASSUME Kill PROVE Accounts'
  <2>1. /\ phase' = [a \in Audits |-> "idle"]
        /\ step' = [a \in Audits |-> "wait"]
        /\ rows' = [a \in Audits |-> 0]
        /\ raised' = {} /\ calls' = NoCalls /\ flock' = Nobody
        /\ UNCHANGED <<book, mapped, owed, inflight, spent, cached, computed, again>>
    BY <1>5 DEF Kill
  <2>2. /\ phase' \in [Audits -> Phases] /\ step' \in [Audits -> Steps]
        /\ rows' \in [Audits -> 0..MaxRows]
    BY <2>1, BoundAssumption DEF Phases, Steps
  <2>3. \A a \in Audits : ~InPhase(a)'
    BY <2>1 DEF InPhase
  <2>4. \A k \in Kinds : Budget[k] \in Nat
    BY BudgetAssumption DEF Kinds, Budget
  <2>5. /\ calls' \in [Kinds -> [Audits -> Nat]]
        /\ \A k \in Kinds, a \in Audits : calls'[k][a] <= Budget[k]
    BY <2>1, <2>4 DEF NoCalls
  <2>6. TypeOK'
    BY <1>1, <2>1, <2>2, <2>5 DEF Accounts, TypeOK
  <2>7. RowsLeft' /\ BudgetPerRun'
    BY <2>3 DEF RowsLeft, BudgetPerRun
  <2> QED
    BY <1>2, <2>6, <2>7 DEF Accounts
<1> QED
  BY <1>3, <1>4, <1>5

LEMMA StepKeepsAccounts == Accounts /\ [Next]_vars => Accounts'
<1> SUFFICES ASSUME Accounts, [Next]_vars PROVE Accounts'
  OBVIOUS
<1>1. ASSUME NEW a \in Audits, Run(a) PROVE Accounts'
  <2>1. StartRun(a) \/ QuietRun(a) \/ Charge(a) \/ EndRun(a)
    BY <1>1 DEF Run, QuietRun
  <2> QED
    BY <2>1, StartRunKeepsAccounts, QuietRunKeepsAccounts, ChargeKeepsAccounts,
       EndRunKeepsAccounts
<1>2. ASSUME NEW a \in Audits, AnswersQueued(a) PROVE Accounts'
  BY <1>2, AnswersKeepAccounts
<1>3. CASE (\E a \in Audits : RedisFault(a) \/ TerminalFault(a)) \/ Kill
  BY <1>3, HitsKeepAccounts
<1>4. CASE UNCHANGED vars
  BY <1>4 DEF vars, Accounts, TypeOK, RowsLeft, BudgetPerRun, Unspent, InPhase
<1> QED
  BY <1>1, <1>2, <1>3, <1>4 DEF Next

LEMMA AccountsKept == Spec => []Accounts
BY InitAccounts, StepKeepsAccounts, PTL DEF Spec

(* The variables keep their types; in particular no budget key and no run   *)
(* ever counts more calls than the budget (_CHARGE_LUA).                    *)
THEOREM Typed == Spec => []TypeOK
<1>1. Accounts => TypeOK
  BY DEF Accounts
<1> QED
  BY <1>1, AccountsKept, PTL

(* A run is granted only calls that its budget pays for, and without kills  *)
(* and Redis errors nothing that an earlier run of the audit spent is held  *)
(* against it, since set_terminal deletes the keys.                         *)
THEOREM BudgetKept == Spec => []BudgetPerRun
<1>1. Accounts => BudgetPerRun
  BY DEF Accounts
<1> QED
  BY <1>1, AccountsKept, PTL

-----------------------------------------------------------------------------
(* The vectors *)

(* The file is there once it has been computed, and only who holds the lock *)
(* is about to compute it.                                                  *)
OneComputes ==
  /\ computed = IF cached THEN 1 ELSE 0
  /\ \A a \in Audits : /\ At(a, "recheck") \/ At(a, "vectors") => flock = a
                       /\ At(a, "vectors") => ~cached

Stays(b) == phase'[b] = phase[b] /\ step'[b] = step[b]

(* A step is one of a single run. *)
LEMMA OthersStay ==
  ASSUME TypeOK, RowsLeft, NEW a \in Audits,
         Run(a) \/ AnswersQueued(a) \/ RedisFault(a) \/ TerminalFault(a),
         NEW b \in Audits \ {a}
  PROVE  Stays(b)
<1>1. CASE Moves(a)
  BY <1>1 DEF Moves, MovesTo, Stays, TypeOK
<1>2. CASE StartRun(a) \/ QuietRun(a)
  BY <1>1, <1>2, StartRunMoves, QuietRunMoves
<1>3. CASE Charge(a)
  BY <1>3 DEF Charge, Step, Stays, TypeOK
<1>4. CASE EndRun(a)
  BY <1>4 DEF EndRun, Enter, Stays, TypeOK
<1>5. CASE AnswersQueued(a)
  BY <1>5 DEF AnswersQueued, Stays
<1>6. CASE RedisFault(a)
  BY <1>6 DEF RedisFault, Step, Enter, Stays, TypeOK
<1>7. CASE TerminalFault(a)
  BY <1>7 DEF TerminalFault, Enter, Stays, TypeOK
<1>8. Run(a) => StartRun(a) \/ QuietRun(a) \/ Charge(a) \/ EndRun(a)
  BY DEF Run, QuietRun
<1> QED
  BY <1>2, <1>3, <1>4, <1>5, <1>6, <1>7, <1>8

(* Steps that have nothing to do with the file of vectors *)
Aside(a) ==
  \/ StartRun(a) \/ Acquire(a) \/ SlotTimeout(a) \/ ReadCache(a) \/ Charge(a)
  \/ ChargeRefused(a) \/ CallAnswered(a) \/ CallFails(a) \/ Release(a) \/ EndRun(a)
  \/ AnswersQueued(a) \/ RedisFault(a) \/ TerminalFault(a)

LEMMA AsideStays ==
  ASSUME TypeOK, NEW a \in Audits, Aside(a)
  PROVE  /\ Stays(a) \/ step'[a] \notin {"recheck", "vectors"}
         /\ UNCHANGED cacheVars
<1>1. LeavePhase(a) => step'[a] = "wait"
  BY LeavePhaseMoves DEF MovesTo, TypeOK
<1>2. \A p \in Phases : Enter(a, p) => step'[a] = "wait"
  BY DEF Enter, TypeOK
<1>3. \A s \in Steps : Step(a, s) => step'[a] = s
  BY DEF Step, TypeOK
<1>4. CASE StartRun(a)
  BY <1>4, StartRunMoves DEF StartRun
<1>5. CASE Acquire(a) \/ ReadCache(a) \/ CallFails(a)
  BY <1>3, <1>5 DEF Acquire, ReadCache, CallFails, Steps
<1>6. CASE SlotTimeout(a)
  BY <1>1, <1>6 DEF SlotTimeout
<1>7. CASE Charge(a)
  BY <1>3, <1>7 DEF Charge, Steps
<1>8. CASE ChargeRefused(a) \/ CallAnswered(a)
  BY <1>3, <1>8 DEF ChargeRefused, CallAnswered, NextRow, Steps
<1>9. CASE Release(a)
  BY <1>1, <1>2, <1>9 DEF Release, Phases
<1>10. CASE EndRun(a) \/ TerminalFault(a)
  BY <1>2, <1>10 DEF EndRun, TerminalFault, Phases
<1>11. CASE AnswersQueued(a)
  BY <1>11 DEF AnswersQueued, Stays
<1>12. CASE RedisFault(a)
  BY <1>2, <1>3, <1>12 DEF RedisFault, Phases, Steps
<1> QED
  BY <1>4, <1>5, <1>6, <1>7, <1>8, <1>9, <1>10, <1>11, <1>12 DEF Aside

LEMMA InitOneComputes == Init => OneComputes
BY DEF Init, OneComputes, At, InPhase

LEMMA StepKeepsOneComputes == Accounts /\ OneComputes /\ [Next]_vars => OneComputes'
<1> SUFFICES ASSUME Accounts, OneComputes, [Next]_vars PROVE OneComputes'
  OBVIOUS
<1>0. TypeOK /\ RowsLeft
  BY DEF Accounts
<1>1. ASSUME NEW a \in Audits, Aside(a) PROVE OneComputes'
  <2>1. UNCHANGED cacheVars /\ (Stays(a) \/ step'[a] \notin {"recheck", "vectors"})
    BY <1>0, <1>1, AsideStays
  <2>2. \A b \in Audits \ {a} : Stays(b)
    BY <1>0, <1>1, OthersStay DEF Aside, Run
  <2> QED
    BY <2>1, <2>2 DEF OneComputes, Stays, At, InPhase, cacheVars
<1>2. ASSUME NEW a \in Audits, TakeFlock(a) PROVE OneComputes'
  <2>1. /\ flock = Nobody /\ flock' = a /\ step'[a] = "recheck"
        /\ UNCHANGED <<cached, computed>>
    BY <1>0, <1>2 DEF TakeFlock, Step, TypeOK
  <2>2. \A b \in Audits \ {a} : Stays(b)
    BY <1>0, <1>2, OthersStay DEF Run
  <2>3. \A b \in Audits : ~At(b, "recheck") /\ ~At(b, "vectors")
    BY <2>1, NobodyAssumption DEF OneComputes
  <2>4. \A b \in Audits \ {a} : ~At(b, "recheck")' /\ ~At(b, "vectors")'
    BY <2>2, <2>3 DEF Stays, At, InPhase
  <2> QED
    BY <2>1, <2>4 DEF OneComputes, At
<1>3. ASSUME NEW a \in Audits, Recheck(a) \/ ComputeVectors(a) \/ NoVectors(a)
      PROVE  OneComputes'
  <2>1. flock = a
    BY <1>3 DEF Recheck, ComputeVectors, NoVectors, OneComputes
  <2>2. \A b \in Audits \ {a} : Stays(b)
    BY <1>0, <1>3, OthersStay DEF Run
  <2>3. \A b \in Audits \ {a} : ~At(b, "recheck") /\ ~At(b, "vectors")
    BY <2>1 DEF OneComputes
  <2>4. \A b \in Audits \ {a} : ~At(b, "recheck")' /\ ~At(b, "vectors")'
    BY <2>2, <2>3 DEF Stays, At, InPhase
  <2>5. CASE Recheck(a)
    <3>1. /\ step'[a] = IF cached THEN "charge" ELSE "vectors"
          /\ flock' = IF cached THEN Nobody ELSE a
          /\ UNCHANGED <<cached, computed>>
      BY <1>0, <2>5 DEF Recheck, Step, TypeOK
    <3> QED
      BY <2>4, <3>1 DEF OneComputes, At
  <2>6. CASE ComputeVectors(a)
    <3>1. ~cached
      BY <2>6 DEF ComputeVectors, OneComputes
    <3>2. step'[a] = "charge" /\ cached' /\ computed' = computed + 1
      BY <1>0, <2>6 DEF ComputeVectors, Step, TypeOK
    <3> QED
      BY <2>4, <3>1, <3>2 DEF OneComputes, At
  <2>7. CASE NoVectors(a)
    <3>1. step'[a] = "release" /\ UNCHANGED <<cached, computed>>
      BY <1>0, <2>7 DEF NoVectors, Step, TypeOK
    <3> QED
      BY <2>4, <3>1 DEF OneComputes, At
  <2> QED
    BY <1>3, <2>5, <2>6, <2>7
<1>4. CASE Kill
  BY <1>4 DEF Kill, OneComputes, At, InPhase
<1>5. CASE UNCHANGED vars
  BY <1>5 DEF vars, OneComputes, At, InPhase
<1> QED
  BY <1>1, <1>2, <1>3, <1>4, <1>5 DEF Next, Run, Aside

(* The vectors of the taxonomy are computed and written at most once: who   *)
(* misses the cache reads it again under the file lock, and neither a kill  *)
(* nor a failing port lets two threads in.                                  *)
THEOREM VectorsComputedOnce == Spec => []VectorsOnce
<1>1. Init => Accounts /\ OneComputes
  BY InitAccounts, InitOneComputes
<1>2. (Accounts /\ OneComputes) /\ [Next]_vars => (Accounts /\ OneComputes)'
  BY StepKeepsAccounts, StepKeepsOneComputes
<1>3. Accounts /\ OneComputes => VectorsOnce
  BY DEF OneComputes, VectorsOnce
<1> QED
  BY <1>1, <1>2, <1>3, PTL DEF Spec

-----------------------------------------------------------------------------
(* The caps *)

(* Who is past the wait of its phase is a member of the set of its port. *)
SlotHeld == \A a \in Audits : InPhase(a) /\ step[a] # "wait" => a \in inflight[Kind(a)]

SlotsCounted == \A k \in Kinds : IsFiniteSet(inflight[k]) /\ Cardinality(inflight[k]) <= Cap[k]

LEMMA InitSlots == Init => SlotHeld /\ SlotsCounted
<1>1. \A k \in Kinds : Cap[k] >= 0
  BY SlotAssumption DEF Kinds, Cap
<1> QED
  BY <1>1, FS_EmptySet DEF Init, SlotHeld, SlotsCounted, InPhase

(* The sets change when a slot is acquired or released, and at no fault. *)
LEMMA OnlyRunsMoveSlots ==
  ASSUME NEW a \in Audits, ~Acquire(a),
         Run(a) \/ AnswersQueued(a) \/ RedisFault(a) \/ TerminalFault(a)
  PROVE  Release(a) \/ UNCHANGED inflight
<1>1. CASE StartRun(a) \/ SlotTimeout(a) \/ ReadCache(a) \/ TakeFlock(a) \/ Recheck(a)
  BY <1>1 DEF StartRun, SlotTimeout, ReadCache, TakeFlock, Recheck
<1>2. CASE ComputeVectors(a) \/ NoVectors(a) \/ Charge(a) \/ ChargeRefused(a)
  BY <1>2 DEF ComputeVectors, NoVectors, Charge, ChargeRefused
<1>3. CASE CallAnswered(a) \/ CallFails(a) \/ EndRun(a)
  BY <1>3 DEF CallAnswered, CallFails, EndRun
<1>4. CASE AnswersQueued(a) \/ RedisFault(a) \/ TerminalFault(a)
  BY <1>4 DEF AnswersQueued, RedisFault, TerminalFault
<1> QED
  BY <1>1, <1>2, <1>3, <1>4 DEF Run

(* A slot is granted below the cap or to who has it already. *)
LEMMA SlotsStayCounted ==
  ASSUME TypeOK, SlotsCounted, [Next]_vars
  PROVE  SlotsCounted'
<1>1. ASSUME NEW a \in Audits, Acquire(a) PROVE SlotsCounted'
  <2> DEFINE kind == Kind(a)
  <2>1. kind \in Kinds /\ SlotGranted(a, kind) /\ Joined(a, kind)
    BY <1>1 DEF Acquire, Kind, Kinds
  <2> HIDE DEF kind
  <2>2. /\ inflight'[kind] = inflight[kind] \cup {a}
        /\ \A k \in Kinds \ {kind} : inflight'[k] = inflight[k]
    BY <2>1 DEF Joined, TypeOK
  <2>3. IsFiniteSet(inflight[kind]) /\ Cardinality(inflight[kind]) <= Cap[kind]
    BY <2>1 DEF SlotsCounted
  <2>4. Cardinality(inflight[kind]) \in Nat /\ Cap[kind] \in Nat
    BY <2>1, <2>3, FS_CardinalityType, SlotAssumption DEF Cap, Kinds
  <2>5. /\ IsFiniteSet(inflight[kind] \cup {a})
        /\ Cardinality(inflight[kind] \cup {a}) =
             IF a \in inflight[kind] THEN Cardinality(inflight[kind])
                                    ELSE Cardinality(inflight[kind]) + 1
    BY <2>3, FS_AddElement
  <2>6. Cardinality(inflight[kind] \cup {a}) <= Cap[kind]
    BY <2>1, <2>3, <2>4, <2>5 DEF SlotGranted
  <2> QED
    BY <2>2, <2>5, <2>6 DEF SlotsCounted
<1>2. ASSUME NEW a \in Audits, Release(a) PROVE SlotsCounted'
  <2> DEFINE kind == Kind(a)
  <2>1. kind \in Kinds /\ Left(a, kind)
    BY <1>2 DEF Release, Kind, Kinds
  <2> HIDE DEF kind
  <2>2. /\ inflight'[kind] = inflight[kind] \ {a}
        /\ \A k \in Kinds \ {kind} : inflight'[k] = inflight[k]
    BY <2>1 DEF Left, TypeOK
  <2>3. IsFiniteSet(inflight[kind]) /\ Cardinality(inflight[kind]) <= Cap[kind]
    BY <2>1 DEF SlotsCounted
  <2>4. /\ IsFiniteSet(inflight[kind] \ {a})
        /\ Cardinality(inflight[kind] \ {a}) <= Cardinality(inflight[kind])
    BY <2>3, FS_Subset
  <2>5. /\ Cardinality(inflight[kind] \ {a}) \in Nat /\ Cardinality(inflight[kind]) \in Nat
        /\ Cap[kind] \in Nat
    BY <2>1, <2>3, <2>4, FS_CardinalityType, SlotAssumption DEF Cap, Kinds
  <2>6. Cardinality(inflight[kind] \ {a}) <= Cap[kind]
    BY <2>3, <2>4, <2>5
  <2> QED
    BY <2>2, <2>4, <2>6 DEF SlotsCounted
<1>3. CASE UNCHANGED inflight
  BY <1>3 DEF SlotsCounted
<1>4. ASSUME NEW a \in Audits, ~Acquire(a),
             Run(a) \/ AnswersQueued(a) \/ RedisFault(a) \/ TerminalFault(a)
      PROVE  Release(a) \/ UNCHANGED inflight
  BY <1>4, OnlyRunsMoveSlots
<1>5. Kill => UNCHANGED inflight
  BY DEF Kill
<1>6. UNCHANGED vars => UNCHANGED inflight
  BY DEF vars
<1> QED
  BY <1>1, <1>2, <1>3, <1>4, <1>5, <1>6 DEF Next, Run

(* Whoever is past the wait of a phase without having just acquired a slot  *)
(* was past it already.                                                     *)
PastWait(a) ==
  InPhase(a)' /\ step'[a] # "wait" =>
    InPhase(a) /\ step[a] # "wait" /\ phase'[a] = phase[a]

LEMMA PastWaitStays ==
  ASSUME TypeOK, NEW a \in Audits, ~Acquire(a),
         Run(a) \/ AnswersQueued(a) \/ RedisFault(a) \/ TerminalFault(a)
  PROVE  PastWait(a)
<1>1. LeavePhase(a) => step'[a] = "wait"
  BY LeavePhaseMoves DEF MovesTo, TypeOK
<1>2. \A p \in Phases : Enter(a, p) => step'[a] = "wait"
  BY DEF Enter, TypeOK
<1>3. \A s \in Steps : Step(a, s) => phase'[a] = phase[a]
  BY DEF Step
<1>4. CASE StartRun(a)
  BY <1>4, StartRunMoves DEF PastWait
<1>5. CASE ReadCache(a) \/ TakeFlock(a) \/ Recheck(a) \/ ComputeVectors(a) \/ NoVectors(a)
  BY <1>5 DEF ReadCache, TakeFlock, Recheck, ComputeVectors, NoVectors, At, Step, PastWait
<1>6. CASE SlotTimeout(a)
  BY <1>1, <1>6 DEF SlotTimeout, PastWait
<1>7. CASE Charge(a) \/ CallFails(a)
  BY <1>7 DEF Charge, CallFails, At, Step, PastWait
<1>8. CASE ChargeRefused(a) \/ CallAnswered(a)
  BY <1>8 DEF ChargeRefused, CallAnswered, NextRow, At, Step, PastWait
<1>9. CASE Release(a)
  BY <1>1, <1>2, <1>9 DEF Release, Phases, PastWait
<1>10. CASE EndRun(a) \/ TerminalFault(a)
  BY <1>2, <1>10 DEF EndRun, TerminalFault, Phases, PastWait
<1>11. CASE AnswersQueued(a)
  BY <1>11 DEF AnswersQueued, PastWait, InPhase
<1>12. CASE RedisFault(a)
  <2>1. CASE step[a] = "charge" /\ phase[a] # "explain"
    BY <1>12, <2>1 DEF RedisFault, At, Step, PastWait
  <2>2. CASE ~(step[a] = "charge" /\ phase[a] # "explain")
    BY <1>2, <1>12, <2>2 DEF RedisFault, Phases, PastWait
  <2> QED
    BY <2>1, <2>2
<1> QED
  BY <1>4, <1>5, <1>6, <1>7, <1>8, <1>9, <1>10, <1>11, <1>12 DEF Run

LEMMA StepKeepsSlotHeld == TypeOK /\ RowsLeft /\ SlotHeld /\ [Next]_vars => SlotHeld'
<1> SUFFICES ASSUME TypeOK, RowsLeft, SlotHeld, [Next]_vars PROVE SlotHeld'
  OBVIOUS
<1>1. ASSUME NEW a \in Audits, Acquire(a) PROVE SlotHeld'
  <2>1. /\ inflight' = [inflight EXCEPT ![Kind(a)] = @ \cup {a}]
        /\ Kind(a) \in Kinds /\ phase' = phase
    BY <1>1 DEF Acquire, Joined, Step, Kind, Kinds
  <2>2. \A b \in Audits \ {a} : Stays(b)
    BY <1>1, OthersStay DEF Run
  <2>3. Kind(a)' = Kind(a) /\ a \in inflight'[Kind(a)]
    BY <2>1 DEF Kind, TypeOK
  <2>4. ASSUME NEW b \in Audits \ {a}, InPhase(b)', step'[b] # "wait"
        PROVE  b \in inflight'[Kind(b)']
    <3>1. InPhase(b) /\ step[b] # "wait" /\ Kind(b)' = Kind(b)
      BY <2>2, <2>4 DEF Stays, InPhase, Kind
    <3>2. b \in inflight[Kind(b)] /\ Kind(b) \in Kinds
      BY <3>1 DEF SlotHeld, Kind, Kinds
    <3> QED
      BY <2>1, <3>1, <3>2 DEF TypeOK
  <2> QED
    BY <2>3, <2>4 DEF SlotHeld
<1>2. ASSUME NEW a \in Audits, ~Acquire(a), Run(a) \/ AnswersQueued(a) \/ RedisFault(a) \/ TerminalFault(a)
      PROVE  SlotHeld'
  <2>1. \A b \in Audits \ {a} : Stays(b)
    BY <1>2, OthersStay
  <2>2. PastWait(a)
    BY <1>2, PastWaitStays
  <2>3. \A b \in Audits : PastWait(b)
    BY <2>1, <2>2 DEF Stays, PastWait, InPhase
  <2>4. CASE Release(a)
    <3>1. step'[a] = "wait"
      <4>1. LeavePhase(a) => step'[a] = "wait"
        BY LeavePhaseMoves DEF MovesTo, TypeOK
      <4> QED
        BY <2>4, <4>1 DEF Release, Enter, TypeOK
    <3>2. inflight' = [inflight EXCEPT ![Kind(a)] = @ \ {a}]
      BY <2>4 DEF Release, Left
    <3>3. ASSUME NEW b \in Audits, InPhase(b)', step'[b] # "wait"
          PROVE  b \in inflight'[Kind(b)']
      <4>1. InPhase(b) /\ step[b] # "wait" /\ Kind(b)' = Kind(b) /\ b # a
        BY <2>3, <3>1, <3>3 DEF PastWait, Kind
      <4>2. b \in inflight[Kind(b)] /\ Kind(b) \in Kinds
        BY <4>1 DEF SlotHeld, Kind, Kinds
      <4> QED
        BY <3>2, <4>1, <4>2 DEF TypeOK
    <3> QED
      BY <3>3 DEF SlotHeld
  <2>5. CASE UNCHANGED inflight
    <3>1. ASSUME NEW b \in Audits, InPhase(b)', step'[b] # "wait"
          PROVE  b \in inflight'[Kind(b)']
      <4>1. InPhase(b) /\ step[b] # "wait" /\ Kind(b)' = Kind(b)
        BY <2>3, <3>1 DEF PastWait, Kind
      <4> QED
        BY <2>5, <4>1 DEF SlotHeld
    <3> QED
      BY <3>1 DEF SlotHeld
  <2>6. Release(a) \/ UNCHANGED inflight
    BY <1>2, OnlyRunsMoveSlots
  <2> QED
    BY <2>4, <2>5, <2>6
<1>3. CASE Kill
  BY <1>3 DEF Kill, SlotHeld, InPhase
<1>4. CASE UNCHANGED vars
  BY <1>4 DEF vars, SlotHeld, InPhase, Kind
<1> QED
  BY <1>1, <1>2, <1>3, <1>4 DEF Next

(* At no time do more audits call a port than its set has room for: a slot  *)
(* is granted below the cap, held through every call, and what kills and    *)
(* Redis errors leave in the set takes room and never gives any.            *)
THEOREM CapRespected == Spec => []PortCapRespected
<1> DEFINE Slots == Accounts /\ SlotHeld /\ SlotsCounted
<1>1. Init => Slots
  BY InitAccounts, InitSlots
<1>2. Slots /\ [Next]_vars => Slots'
  BY StepKeepsAccounts, StepKeepsSlotHeld, SlotsStayCounted DEF Accounts
<1>3. Slots => PortCapRespected
  <2> SUFFICES ASSUME Slots, NEW k \in Kinds PROVE Cardinality(Calling(k)) <= Cap[k]
    BY DEF PortCapRespected
  <2>1. Calling(k) \in SUBSET inflight[k]
    BY DEF Calling, SlotHeld, At
  <2>2. IsFiniteSet(inflight[k]) /\ Cardinality(inflight[k]) <= Cap[k]
    BY DEF SlotsCounted
  <2>3. IsFiniteSet(Calling(k)) /\ Cardinality(Calling(k)) <= Cardinality(inflight[k])
    BY <2>1, <2>2, FS_Subset
  <2>4. /\ Cardinality(Calling(k)) \in Nat /\ Cardinality(inflight[k]) \in Nat
        /\ Cap[k] \in Nat
    BY <2>2, <2>3, FS_CardinalityType, SlotAssumption DEF Cap, Kinds
  <2> QED
    BY <2>2, <2>3, <2>4
<1> HIDE DEF Slots
<1> QED
  BY <1>1, <1>2, <1>3, PTL DEF Spec
===============================================================================
