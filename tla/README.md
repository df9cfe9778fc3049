# Verification of cashflow-audit

cashflow-audit takes an Excel model of cash flows, compiles it, maps its rows to
a taxonomy, checks it, and publishes a report; rows it cannot map become
questions, and answers start the pipeline again from the mapping stage. One
process (FastAPI, one event loop) serves requests and runs the workers; the
pipeline runs in threads; Redis holds the queue, the statuses and the locks; the
files of an audit are in a directory of their own.

This directory holds TLA+ models of that program, TLC configurations that check
them, and TLAPS proofs about them. Source paths below are relative to
`src/src/cashflow_audit/`; `plan.md` and `api.md` are those of
`src/docs/architecture/`.

## 1. Inventory

| Component | Source | State it keeps | What makes it correct |
|---|---|---|---|
| Redis job bus | `adapters/redis_jobbus.py` | stream `cf:audits` with a consumer group, set `cf:pending`, hash `cf:job:{id}`, locks of audits and glossaries, sets `cf:inflight:*`, budget keys | an entry is worked on or still there; a lock has one holder; caps hold |
| Workers | `api/workers.py` | one coroutine per worker, its claimed entry, a heartbeat task per job | one run of an audit at a time; every job ends; a fault releases what was taken and nothing else |
| Reconciler, sweeper | `api/workers.py` | directories still to look at | unfinished uploads are queued again after a restart, once; nothing in work is removed |
| HTTP handlers | `api/routes.py` | requests in flight | a repeated upload changes nothing; answers never touch a running job; statuses come in a sensible order |
| Lifespan | `api/app.py` | whether the process sweeps, reconciles or serves | workers start after the reconciler |
| Audit directory | `store/disk.py`, `store/fs.py` | files, each replaced by a rename | `meta.json` commits a whole set |
| Pipeline | `app/pipeline.py`, `*/stage.py` | the stage at hand, files | a stage is skipped if its files exist, and what is skipped is still valid |
| Answers | `app/hitl.py`, `store/glossary.py` | the actor's glossary | a report follows from all answers accepted |
| Slot gate, budgets | `adapters/slots.py` | members of `cf:inflight:llm`, `:embed`, budget keys | caps, no leak, a deadline |
| Mapping cascade | `mapping/*` | shared file of concept vectors | precedence of the sources of a mapping; the vectors are computed once |
| Explain | `explain/*` | none | status and verdict follow from findings and questions |
| Layout | `layout/*` | none (pure) | blocks, periods, roles and lines are what the author of a sheet means, however its header is laid out |
| Compiler, graph | `compile/*`, `graph/*` | none (pure) | edges between formulas and cells |
| Series, checkers | `series/*`, `checkers/*` | none (pure) | accounts that agree raise nothing, a wrong number is found and cited |
| FRS controls | `frs/*` | none (pure) | a control does not depend on the grain of the columns, nor flags what is better |
| Lineage, report | `lineage/*`, `explain/compose.py`, `conclusions.py`, `verdict.py` | none (pure) | no finding that matters is lost or told twice |
| Parser | `parse/*` | none (pure) | limits on archives, values as Excel has them |
| Ports, probes, CLI, settings, logging | `adapters/openai_*`, `api/probes.py`, `cli.py`, ... | none | I/O and configuration |

Components interact as follows. A request stores files, then calls `mark_queued`
and `enqueue`; a worker takes a run slot, claims an entry, locks its audit, runs
the pipeline in a thread, and publishes `set_terminal`, XACK, SREM, unlock and
unslot in this order. The thread calls back into the event loop for slots,
budgets and stage marks. An answers request edits the glossary and unlinks files
of the directory the worker would write. After a restart the reconciler reads
the directories and writes the queue, while the consumer group still holds the
entries nobody acknowledged. The status a client polls is put together from the
hash, `meta.json` and `report.json`.

The stages themselves are functions from files to files: parse and layout turn the
workbook into blocks, axes and rows; mapping gives rows a concept; check finds
candidates by detectors over formulas and by accounting identities over mapped
rows; frs evaluates fourteen controls over the same rows, and lowers its
confidence by the identities that failed; lineage follows each candidate to the
outputs it reaches; explain draws conclusions and a verdict from all of it.

Hard parts: interleavings at every `await` between two Redis commands; a lock
that expires and a claim that comes after a minute of idleness; kills of the
process with Redis alive, loss of both, graceful stops; Redis calls that fail or
succeed without an answer; stages that are skipped by the existence of files;
sets whose members outlive the process that added them; in the analysis the signs of ten
flows, four grains of period keys, headers of several rows whose meaning depends on each other, optional rows and cells that silence a check,
and findings that several conclusions compete for. `PROJECT.json` lists
each of these hazards with its line and the properties that cover it.

## 2. Modules

    AuditIds            audits and their owners
      JobBus            one operator per Redis command of RedisJobBus
      AuditStore        an audit directory, seen from the service
        WorkerPool      _cycle, _execute, heartbeat (api/workers.py)
        AuditApi        post_audit, post_answers, mark_queued + enqueue
          AuditService  the process: lifespan, sweeper, reconciler, restarts
            MCAuditService       instances for TLC
            AuditServiceProofs   theorems: types, exclusion, run slots
              AuditWorkProofs      no job is lost; running jobs, in more cases
                AuditAnswersProofs   answers, reports, and the refinement of AuditLife
    AuditLife           abstract: the statuses of an audit a client may see
    PipelineRun         one directory: Pipeline.run, apply_hitl, requests and restarts
      Publication       abstract: a report follows from all answers merged
      PipelineRunProofs theorems
    PortSlots           threads of several pipelines, ports, slots, budgets, cache
      PortSlotsProofs   theorems
    MappingRounds       map_layout, the report's questions, _merge_answers, in rounds
      MCMappingRounds      a workbook for TLC
      MappingRoundsProofs  theorems
    Periods             period keys, roles
      Layout            detect_layout: bands of header rows, axes, blocks
        SheetEdits      an author dresses up a sheet; layout reads it
          MCSheetEdits  sheets for TLC
      Workbook          blocks, axes, rows and cells, as the checkers see them
        Identities      detect_identities: I1 .. I13 and their questions
          Detectors     run_checks: formulas, the graph, series, assumptions
        FrsControls     run_frs: F01 .. F14, the amounts of a year
            Report      trace_lineage, conclusions, verdict, merge of questions
              Screening  check -> frs -> explain over a workbook that is revised
                MCScreening  workbooks for TLC
                ScreeningProofs  theorems: what an edit may change, pasted numbers
                  ReportProofs     theorems: shortfalls, conclusions

**One step** of the service modules is one Redis command with the code that runs
until the next `await`, or one file written by a pipeline's thread. The state
names are the ones of the code's calls: a worker is at `claimed` before
`acquire_audit`, at `settle` before `set_terminal`, at `xack` before XACK, and so
on; a caller is at `hget` or `replace` before the HGET of `mark_queued` (without
and with `replace_terminal`), at `sadd` and `xadd` in `enqueue`. `GuardedFault`,
`OutsideFault` and `SlotFault` are a Redis call that raises, by the `finally`
clauses that still run; `LostClaim` and `LostAcquire` are commands Redis executed
and whose answer was lost. `Stop` is SIGTERM: uvicorn waits for requests, lifespan
cancels the worker tasks, threads may or may not finish; `Kill` is SIGKILL with
Redis alive; `PodLost` empties Redis and keeps the volume.

**Time** is counted in ticks of 30 s, the heartbeat's period. A lock lives
`LockTtl` = 4 ticks, an entry may be claimed after `MinIdle` = 2, a glossary lock
lives one. The only assumption about speed is `WorkersPrompt`: the clock does not
tick while a Redis call or a due heartbeat is pending, that is, those take less
than 30 s. Threads may take any time.

**Statuses.** The bus and the handlers treat succeeded, degraded and needs_input
alike; all three are `reported` in the hash, and the directory's report tells
`clean` from `questions`.

**PipelineRun** looks inside the directory: twelve files, written one at a time,
and for each the editions of the glossary it was computed from. Edition g holds
the answers merged by the first g requests, so "the report follows from all
answers" is `from["report"] = {edition}`. `Needs` and `Uses` are the files each
stage reads and fails without, or reads if they exist. Around the files are the
Redis keys by which requests and jobs find each other, one command a step. A request
is let through by the status hash and `report.json` alone, as in `post_audit` and
`post_answers`, and is then on its way: the lock of the glossary, `apply_hitl`, `mark_queued`
and `enqueue` come later, whatever has happened meanwhile. The end of a job is
`SetTerminal`, `Acknowledge`, `ForgetPending`; an answers request may come between
them, and its job is then dropped by the SADD guard. There is one worker: a second one
is kept out by the audit's lock, which is `Exclusive`'s question, and the lock a kill leaves is
`locked`. While `apply_hitl` runs, nothing else in the event loop does; the thread
of a job goes on, so its reads and writes fall between the unlinks.

Answers and jobs do cross in this code (section 5). Two history variables say when:
`crossed`, that answers were applied beside a job, in a directory without its
report, or cut short by a kill with the entry still in the stream; and `cut`, that a kill
hit `apply_hitl`. Both end when answers are next applied with no job running, since these
unlink all that follows from the glossary. No step is excluded: the properties claim what
holds while neither is set, and `Publication` has `upset` for the same.

**PortSlots** follows the cascade of `map_layout` and the prose of
`compose_report` through `try_slot`, `charge`, the port, and `release`, with the
vector file and its `flock`. What a workbook calls for (`Books`) is chosen at the
start; the answers of the ports are chosen at each call.

**MappingRounds** follows the rows of one workbook through the rounds of mapping
and answering. Rows are places in the layout, told apart by sheet and row number;
labels and concepts are values, `normalize_label` is the constant `Norm`, and the
numbers behind a ranking are the constants `Ranking` and `Confident`. A port may
be missing, out of slots or budget, or fail in any round: the embedding ranks all
the rows it is asked about or none, and the chat gets through a prefix of its rows and picks
anything for each. A question is known by the count of questions up to its row,
which is the number `map_layout` gives it. `ComposeReport` raises the questions of three origins,
the rows without a concept, the identities that lack one, the findings that ask, and
`Merged` keeps the first of each kind and set of cells, as `_merge_questions` does. A row's
question cites the cell of its label, those of identities all cite the first cell of the
workbook, so that one of them is left, and findings cite their cells. (No finding asks today:
`need_user_input` is set nowhere. The model has what the merge would do with it.)
Answers to questions of the last two kinds are accepted and change nothing. Two variables are history: `wanted`, what was last asked for
a row, and `astray`, the keys whose entry was meant for a row of another key.

**Layout** follows `detect_layout` over one sheet. A text is what the patterns of
`periods.py` make of it: the year, quarter, month and day it names, the role it
carries and whether it says so, a number, or a label, of which those that say what a
header row holds (quarters, months, beginnings, ends, an index) are told apart. Bands
grow row by row as in `_header_bands`, and `AxisFrom` carries the year from column to
column. A period is a text without its wording, and its key the integer of `Periods`.
In `SheetEdits` the author has blocks in mind (`meant`) and changes how they look:
empty rows, numbered columns, banners, marks and tags of fact and forecast, a total or a
scenario behind the periods, a year written once, a hidden column of notes. Each
edit says what becomes of `meant` by what a reader would take it for, not by the code.
The layouts TLC computes for the sheets of this run are those `detect_layout`
gives for the same cells.

**Workbook** to **Screening** follow the analysis. A book is a record: axes of
headers (period key, role, column), rows (block, concept, output flags), numbers
in cells, and for formulas what the detectors ask of their syntax trees: the
relative template, the cells read, the ranges summed. A period key is an
integer, 100 * year + part, ordered as the keys are as strings. The operators of
`Identities`, `Detectors`, `FrsControls` and `Report` are the functions of the
code over that record: the code loops over lists and the model states the set of
what the loop finds. Order is kept where it decides something: the steps of a
roll-forward, the cap of unused cells, the detectors' order behind the
conclusions and the headline.

`Screening` has one action per stage, and each reads what the stage before
left (`check`, `frs`). Between two runs the author uploads a revised workbook:
`Correct` changes a number no formula reads, `Overwrite` pastes a number over a
formula, `Regrain` gives each year its four quarters or twelve months. These
three are the environment, chosen since each says how two results must be
related: `before` and `last` are history, the results before the revision and
the revision.

Refinements: `AuditService` implements `AuditLife` under the mapping `Polled`, the
status `Shown` of every audit, which is the resolution of `_resolve_status` (the hash,
else `DiskStatus`); `PipelineRun` implements
`Publication` under the mapping `Downloaded`.

## 3. Runs

| Run | Instance | Shows |
|---|---|---|
| `Exclusive` | 1 audit, 3 workers, 2 run slots, 1 request, 1 stop or kill, 1 Redis fault; audits and workers symmetric | `ExclusiveRun`, `LockHeld`, `RunSlotRespected`, `TypeOK` |
| `Restarts` | 2 audits, 1 worker, 2 stops or pod losses, fairness | `WorkNotLost`, `UploadServed`, `JobsEnd` |
| `Questions` | 2 audits of one actor, 1 worker, both outcomes, failing runs, 1 pod loss | `StatusHasReport`, `FollowsLife` |
| `SweepRace` | 1 audit, 2 requests, 1 worker, sweeping, failing runs, refused heartbeats, 1 pod loss | `RunningNotLost` |
| `Pipeline` | 2 requests, 2 rounds of answers, 1 stop, kill or pod loss, failing stages, fairness | `TypeOK`, `CommitMarker`, `OneEdition`, `AnswersUsed`, `StageKept`, `JobFinishes`, `KeepsPromise` |
| `Ports` | 2 audits, 1 llm slot, 2 embed slots, budgets of 1, 1 further job, 1 kill or Redis fault, fairness | `BudgetPerRun`, `PortCapRespected`, `VectorsOnce`, `SlotsReturned`, `RunsEnd` |
| `Mapping` | 4 rows on 3 sheets, 3 keys, 2 concepts, 2 identities, 1 finding that may ask, 1 answer in another audit, fairness | `GmvNotRevenue`, `AnswersHonoured`, `AnswersMeanTheirRows`, `NoQuestionLost`, `QuestionsRunOut` |
| `Analysis` | 6 workbooks, 1 revision by 3, 25 or -45 in any cell, over any formula, or into quarters or months | `AgreeingAccountsPass`, `EditsExplained`, `EditsCaught`, `GrainKeepsIdentities`, `GrainKeepsControls`, `BetterNeverFlags`, `FindingsConcluded`, `HardcodesCaught` |
| `Layout` | 9 sheets, 2 edits | `SheetUnderstood` |
| `KillReclaim`, `StaleAnswer`, `CoverageLost` | the smallest instance of each | a documented promise the code does not keep, section 5 |

**Bounds.** Three workers for two slots are the least with which a slot is
refused while two workers contend for one audit; a second audit adds no contention for
a lock, since everything but the run slots is kept per audit, and the theorems of
section 6 hold for any number. `MaxMsgs` bounds the entries of one audit that
exist or are remembered at once; `cf:pending` admits one, a claim by another
worker and an entry a worker is about to drop make two, and the third of the
other runs is only reached after a fault. Restart and fault bounds of one or two
let each kind hit any step, and hit the recovery of an earlier one. Two rounds
of answers are what it takes for a file to be two editions old, and two requests for one to act
on what the other has changed since its check. In `Ports` every
budget and slot is exhausted by two audits. The workbook of `Mapping` has two rows
of one key, equal row numbers on different sheets, a GMV row the embedding
is sure is revenue, and a row whose sheet has a "!" in its name; the earlier glossary is
empty or says that GMV is revenue, as one written before `pnl.gmv` was known may.
`TopK` is 2, all of the concepts; its rounds are not bounded.

In `Analysis` three workbooks are whole sets of accounts over three sheets, computed
from their drivers in `MCScreening` (sales that decline with a debt that grows,
receivables that grow without a cash flow statement's financing part, and a calm
one), one is such a set with five numbers wrong in one year, and two are sheets of
formulas, one with every structural flaw a detector looks for. Four years, two
of fact and two of plan, are the least for the controls that need two forecast
years beside a history, and give three turns of a year. The corrections are small,
middle and of the other sign, beside numbers between 1 and 300: 25 exceeds every
tolerance, 3 is near the thousandth of the larger ones and above the unit, -45
turns signs round. One revision relates two results, and the properties are about
pairs. `UnusedCap` is 3 where the code has 50, so that the cap cuts; the cap of
conclusions is the code's.

The sheets of `Layout` have one header each of the forms the code and its tests know, the
shortest with which grain, carried years and two starter rows can go wrong, and a line of
amounts that counts 1, 2, 3 as a numbered header does. Two edits let any edit meet any
other in any place; three give the same answer on 80 thousand states.

Deadlock is checked except in `Pipeline` and `Ports`, which end when all jobs are
done and the bounds are used up, in `Mapping`, where a report without questions is
the end, in `Analysis` and `CoverageLost`, where the last report is, and in `Layout`, where
the last layout is.

**Switches.** `RunsMayFail`, `BeatMayFail`, `RestartKinds`, `Sweeping`,
`StaleAnswers` and `Careless` turn on behaviours that break a property in a way described in
section 5, so that the properties can be checked in the presence of all others. The
passing runs are therefore claims with a condition: `ExclusiveRun` and `LockHeld`
while no heartbeat is refused; `WorkNotLost` and `JobsEnd` with one worker and
without a SIGKILL; `StatusHasReport` and `FollowsLife` with one worker and request,
through pod losses; `Mapping`
while the analyst answers the report that is on the server; `Layout` while banners stand
over periods only and a mark is under a column whose own cells tell a date.

**Fairness.** Weak fairness of every worker's own steps, requests that have
begun, the reconciler, the first sweep, and the supervisor that restarts the
process: the event loop runs each ready coroutine, and threads end because
`_enter` checks `JOB_TIMEOUT_SEC` and the ports have timeouts. `EnterStage`, faults, restarts, new requests
and the growing old of directories have none. `Tick` is strongly fair, since
time passes although promptness disables it again and again. In `PipelineRun`
workers take queued jobs, threads go on and `apply_hitl` does not wait; in
`PortSlots` each run goes on (`SlotTimeout` is what the deadline of
`_wait_slot` guarantees). In `MappingRounds` a round goes on until its report is
there and the report is downloaded; that the analyst again and again answers some
question an answer can settle is strongly fair, and a premise of `QuestionsRunOut`
about a person, not about the code.

## 4. What the properties say

* `ExclusiveRun`, `LockHeld`: of the audit lock, its NX, its heartbeat, and a
  `release_audit` that deletes the key without looking whose it is.
* `RunSlotRespected`, `PortCapRespected`: caps hold whatever members earlier
  processes left in the sets.
* `WorkNotLost`, `RunningNotLost`: what GET shows as queued or running is
  somebody's: a worker's, the stream's, or a caller's that has yet to enqueue.
* `UploadServed`, `JobsEnd`, `JobFinishes`, `RunsEnd`: liveness, over restarts.
* `StatusHasReport`, `FollowsLife`: what a client sees.
* `AnswersUsed`, `OneEdition`, `KeepsPromise`: answers and
  the pipeline share a directory. What they may mix, and until when, is `crossed` and `cut`:
  outside of these a report is of one edition, of the last one, and only answers withdraw it.
* `CommitMarker`, `StageKept`: the files left by any sequence of runs, failures and
  kills.
* `BudgetPerRun`, `SlotsReturned`, `VectorsOnce`: the ports.
* `AnswersHonoured`, `AnswersMeanTheirRows`, `GmvNotRevenue`: who decides about a row:
  the analyst for the rows the answers were about, through all later rounds, and
  nobody when it is GMV and revenue.
* `NoQuestionLost`, `QuestionsRunOut`: the merge by cell loses no row, no kind of question
  and no cells of a finding, a report without questions has nothing left to ask, and answering leads there although the ports come and go.
* `SheetUnderstood`: no row, column, period or role of a sheet is read as
  something else because of what stands around it. A role reaches the columns it is
  meant for and a tag outlives a banner; a year written once dates the quarters after
  it; an empty row, a counter or a mark ends no header, and a second header does.
* `AgreeingAccountsPass`, `EditsCaught`: the identities against accounts computed
  by the rules they stand for. Every sign and every step must be right for sound
  accounts to pass; every line must be tied to another for a wrong number to be
  found. `Tied` names the lines that are.
* `EditsExplained`: an identity finding that appears or disappears with one corrected
  number cites its cell, and numbers pasted over formulas change none.
* `GrainKeepsIdentities`, `GrainKeepsControls`: the same accounts in years,
  quarters and months break the same identities and flag the same controls, with
  no more confidence in months than years deserve.
* `BetterNeverFlags`: a control that looks for a shortfall is monotone.
* `FindingsConcluded`: conclusions share no finding, and leave none that matters
  out while there is room.
* `HardcodesCaught`: a formula pasted over is found as long as the row's template
  keeps its majority. The cells of a row without a template, numbers and formulas the
  parser gives up alike, weigh against it, and so does what trimming leaves at its ends.

## 5. Where code and documents disagree

Three violation runs; TLC's counterexample is the scenario.

* `KillReclaim`: after a SIGKILL the entry may be claimed when it has been idle
  for 60 s, while the lock the dead worker left lives 120 s. The claim finds the
  lock taken, acknowledges the entry and drops it; the hash says running, the
  reconciler passes over running audits, and nobody is at work.
* `StaleAnswer`: questions are numbered anew in every round, and answers name them
  by number. A repeated request, or one from a page loaded before the last round,
  passes the checks and is stored for the rows that have those numbers now.
* `CoverageLost`: `year_amount` adds up the months or quarters of every concept that
  is no stock. Twelve monthly cover ratios of 0.95 are a yearly one of 11.4, and F07
  does not flag a DSCR below one that it flags in a workbook of years (`plan.md`, F07).

Further disagreements the models exhibit when a switch is turned; no run is kept
for them.

* With two workers a job that has run for 60 s loses its entry: the other worker
  claims it, finds the lock taken, acknowledges it and drops it while the first
  goes on. A graceful stop after that leaves a hash that says running and
  nothing to claim. (`RestartKinds = {"stop"}`, two workers, `WorkNotLost`.)
* `mark_queued` reads the status and writes it in two commands. A `set_terminal` in
  between is overwritten by queued, where `plan.md` (67) says that a repeated POST does
  not write over a terminal status. It takes two requests and a worker.
* `sweep_expired` deletes after an `await` of the status; an upload or answers
  that arrive meanwhile lose their directory.
* A killed process leaves its audit in `cf:inflight:llm` until that audit uses the
  port again, which it may never do.
* A kill between SADD and XADD, and a stop or a fault between XACK and SREM,
  leave the audit in `cf:pending`, which has no expiry: later jobs of the audit
  are taken for duplicates and never queued. (`WorkNotLost`.)
* Answers given between `set_terminal` and SREM are accepted with 202 (`routes.py:249` looks
  at the status alone), unlink the report and write queued; SADD then finds the audit in
  `cf:pending` and `enqueue` returns. SREM removes it, and the status says queued for
  good: nobody has an entry, a new upload is answered with that status, and new answers are refused.
  (`Outcomes = {"questions"}`, `WorkNotLost`; the interleaving is in run `Pipeline`, whose
  properties hold through it.)
* Answers are applied beside a job where `api.md` (426) promises 409 while one is
  running: of two answers requests that passed their checks together, the second unlinks
  files under the job the first has queued; and an entry that is claimed again after its
  terminal status (a kill between `set_terminal` and XACK) may start between the
  check of an answers request and its `apply_hitl`. The thread may then combine files of two
  editions in one report. (`OneEdition` without `~crossed`.)
* Of two answers requests that passed their checks together and are applied one after the other, the second finds
  no `mapping.json`: its answers are accepted with 202 and lost.
* One refused heartbeat ends the heartbeat task; the lock expires under the
  thread and another worker enters. (`BeatMayFail`, two workers, `ExclusiveRun`.)
* After the loss of the pod between `report.json` and `meta.json` nobody writes the
  commit marker: the reconciler takes the report alone for a result.
* A kill inside `apply_hitl` leaves part of the tail, `meta.json` beside missing files. The status
  is still that of the old report, the reconciler passes over a directory with either file, and
  nothing repairs it but the next answers; if `mapping.json` was gone, those are not merged.
  If an entry of the audit was still in the stream, the job goes on from the rest and may mix
  editions. (`CommitMarker` and `AnswersUsed` without `~cut`, `OneEdition` without `~crossed`.)
* A run that resumes beside a report and then times out leaves a failed
  `meta.json` next to it, which is why `CommitMarker` excepts kills where it speaks of failures.
* Budget keys are deleted by `set_terminal` only, so the run after a kill pays
  for the calls of the one that was killed.
* `release` in `compose_report` is not in a `finally` clause; `_fail` releases
  the run slot under the audit's name, which is never its member (no effect).
* A sheet may have a "!" in its name; `_sheet_row` splits at the first one, the
  answer is accepted and dropped, and the question comes back in every round.
* Two rows of one key answered differently in one request are both given the last
  answer, without a word.
* Several identities may lack concepts; one of their questions is shown, since all
  cite the same cell.
* Without `pnl.gmv` in the taxonomy, "revenue" for a GMV row would be stored,
  refused by `_guard` and asked for again, for ever.
* With two workers a job longer than 60 s may be claimed between `set_terminal`
  and XACK and be run again after its terminal status; it then skips every stage. A
  stop or a Redis fault between the two leaves the entry to the next claim as well, with one worker too. If answers come
  in the meantime, that run works beside them: their unlinks hit its files, their
  `queued` a job that has finished. (`RestartKinds = {"stop"}`, `MaxFaults = 1`, or two workers:
  `StatusHasReport`, `FollowsLife`.)

* A banner ("Факт", "Прогноз") over a block gives its role to the columns of totals and
  scenarios below it too, and roll-forwards then take those for periods, against
  `plan.md` (325). A mark under a month number whose column has no cell with a year of its
  own ends the header and is lost: `_band_calendar_cols` reads numbers without the row's label.
  (`Careless = TRUE`, `SheetUnderstood`.)

Met while translating the analysis. The models do what the code does:

* Headers. A row that starts a header has two cells with a year. Where the year is
  written once, over the quarters of one year, there is no such row and the sheet has no
  block, although `plan.md` (268) has the year carried forward from another row. Whole
  amounts between 1900 and 2099 are years: two of them in a line start a
  header of their own and end the block above, and one in the first line makes that line a header
  row and contradicts the year of its column, which is dropped. A marker over a dated column gives its role
  to this column alone (the tests agree), where `plan.md` (268) says up to the next one.

* Periods. `year_slots` appends the years it makes from quarters behind those that
  have a column, unsorted, so growth may be computed against a later year. F14 reads
  the first column of a year only, which of a quarterly axis is the first quarter. A year of
  fewer than twelve months counts as a year. `_rate_periods` knows
  months and takes any other column, a quarter too, for a year. Of two columns of
  one key identities prefer the fact, the comparisons of assumptions take the last
  column, and the role of a period is that of the first.
* Signs and bases. F02 and F12 compare growth over a base that may be negative, which
  turns the comparison round. I4 and I8 compare absolute values, so a sign turned in a
  volume or a depreciation is not seen. A rate of exactly 1 is read as 100 %. I12 takes the profit
  before tax for positive, which a year of loss without tax is not.
* `plan.md` against the controls: F12 does not ask for growing capex; F05 also
  flags DIO; a flag of F13 has the priority its first year gives it; a derived
  FCF leaves F12 and F13 at high confidence (402); F08 flags a cash plug whose cash is
  negative (394, where the tests agree with the code).
* `plan.md` against the report: conclusions come as combinations, trust, dynamics
  (432 has trust first), so the cap of eight cuts dynamics first; the verdict is
  blocked by an error of any identity (408 names I1, I3a, I3b). The questions
  of identities all cite the first cell of the book and are merged into one (323).
* Findings. A hole in a row of formulas gets a reference without a cell and is
  dropped by `compose_report`. `unused_cell` names the value cells of rows no output
  reads, labels of totals among them, and `agg_range_gap` a range that leaves out
  a subtotal on purpose. A flag of F02 for the margin does not cite the revenue of the year
  before, and one of F06 only the current year.

## 6. Proofs

Every safety invariant and action property of the runs of the service, the pipeline, the
ports and the mapping is a theorem, so are both refinements, and so is what the analysis
owes every workbook, whether its accounts agree or not. The theorems hold for
all values of the constants that satisfy the modules' assumptions: any number of audits,
workers, requests, restarts and faults unless a condition says otherwise. The
conditions are those of the runs (section 3, switches) or weaker, and
section 5 has the scenario for what they exclude.

| Theorem | Property | Condition |
|---|---|---|
| `AuditServiceProofs`: `Typed`, `SlotsKept` | `TypeOK`, `RunSlotRespected` | none |
| `Exclusive`, `LockKept` | `ExclusiveRun`, `LockHeld` | `BeatMayFail = FALSE` |
| `AuditWorkProofs`: `WorkIsKept` | `WorkNotLost` | `Calm` |
| `RunningIsKept` | `RunningNotLost` | `Undisturbed` |
| `AuditAnswersProofs`: `ReportIsThere`, `LifeIsFollowed` | `StatusHasReport`, `FollowsLife` | `Alone` |
| `PipelineRunProofs`: `Typed`, `StagesKept` | `TypeOK`, `StageKept` | none |
| `OneEditionKept`, `CommitMarkerTold`, `AnswersAreUsed`, `PromiseKept` | `OneEdition`, `CommitMarker`, `AnswersUsed`, `KeepsPromise` | none |
| `PortSlotsProofs`: `Typed`, `BudgetKept`, `VectorsComputedOnce`, `CapRespected` | `TypeOK`, `BudgetPerRun`, `VectorsOnce`, `PortCapRespected` | none |
| `MappingRoundsProofs`: `Typed`, `GmvKept`, `QuestionsKept` | `TypeOK`, `GmvNotRevenue`, `NoQuestionLost` | none |
| `OwnRows`, `Honoured` | `AnswersMeanTheirRows`, `AnswersHonoured` | `StaleAnswers = FALSE` |
| `ScreeningProofs`: `EditsAreExplained`, `HardcodesAreCaught` | `EditsExplained`, `HardcodesCaught` | none |
| `BooksStaySound` | `WorkbookOK` (no run) | none |
| `ReportProofs`: `BetterFlagsNothing`, `FindingsAreConcluded` | `BetterNeverFlags`, `FindingsConcluded` | none |

**AuditServiceProofs.** `TypeOK` is inductive. Lemmas give the type of what each operator of `JobBus` and
`AuditStore` writes, one lemma per process its steps; the theorem goes through
`Next`. Its last conjunct, that a heartbeat sleeps only for a worker in its thread, is
`BeatsThreads`: every way out of the thread cancels it.

`ExclusiveRun` is not inductive: a worker may enter if another one's lock has
gone. The invariant is `Exclusion`, the conjunction of

* `Claimed`: a worker past `claim` has an entry;
* `Beating`: no heartbeat has died, and a heartbeat is only due for a worker in
  its thread;
* `LockHeld`: the lock of a worker in the section has at least `LockTtl - 1`
  ticks left, and all `LockTtl` in a thread whose heartbeat is not due;
* `ExclusiveRun`.

A tick takes one from a lock and makes every heartbeat due, and there is no tick
while one is; so the lock of a worker in the section cannot reach 0, `SET NX`
cannot succeed for another worker, and the only DELs are by the holder. It is
here that `LockTtl >= 2` (assumption `TtlAssumption`) and `BeatMayFail = FALSE`
are used. The reader who drops the latter gets the counterexample of section 5.

`RunSlotRespected` follows from `SlotsBound`: every worker in a cycle is a member
of `cf:inflight:run`, and the set never has more than `MaxRun` members. Faults
and kills may leave members, so only one direction holds, and it is the one needed.

**AuditWorkProofs.** `WorkNotLost` is not inductive: an entry that is acknowledged
must be known to belong to a job that is over, one that is dropped because the lock was
taken must be known to belong to a job somebody is at, and a caller that is about to
queue an audit must have it to itself. The invariant `Work` says so per audit
(`AuditOK`), per worker (`WorkerOK`) and per caller (`CallerOK`); it uses `Exclusion`
for the lock. Workers take entries from each other after a minute of idleness,
and the proof covers that: the one that finds the lock taken drops the entry,
`RefusedKeeps`, while the first is at the job. `Calm` asks for no failing Redis call and no refused heartbeat, one request at
a time, clean runs, no sweeper, no SIGKILL, and a single worker if the
process may be stopped. TLC finds a lost job without any of these, for the sweeper
after a stop has left the audit in `cf:pending`, for refused heartbeats with two workers.

The second part of the module, `RunningIsKept`, needs less for a running job, in two cases with
different invariants. With one worker (`EntryKept`) the entry stays until the terminal status is
written, because every lock is the worker's own and none refuses it: this
survives stops and refused heartbeats. With several (`Attended`) entries may be taken and dropped, but
a worker leaves a job only by writing its terminal status. In both, runs may fail or ask,
uploads and answers come together in any number, and directories are swept. `Undisturbed` excludes failing
Redis calls and kills, and of several workers stops and refused heartbeats.

**AuditAnswersProofs.** What answers and statuses may not do follows from `Agreement`: an audit has one
entry at most (`Entries`), hash and files agree (`FilesAgree`), a worker that has an
entry finds the status its step expects (`RunAgrees`), and a caller past its checks
meets either no run at all, or one that is over but for XACK (`CallAgrees`, `Quiet`).
It needs `Alone`: one worker, one request at a time, pod losses as the only
restarts, no failing calls, which makes these two theorems of a single client; what two requests do to each
other's files is `PipelineRun`'s. Any second party makes an entry run again after its terminal status (section 5). Sweeping
and refused heartbeats break `FollowsLife` alone: a swept audit is unknown again, which `AuditLife` does not have,
and a run whose heartbeat was refused ends without a status and starts anew.
For the refinement the steps are sorted by what they do to `Shown`: one lemma each
for workers, callers and the loss of a pod, where the status falls back to the files (`LostShows`).

**PipelineRunProofs.** All theorems hold for any number of requests, answers and restarts of every
kind, without a condition on the constants. The invariant `Whole` has three parts. `Base` holds
whatever answers and jobs do to each other: types; what is left to write is a tail of
what the stage writes (`LeftDue`); a job is only acknowledged when it has ended (`Busy`); one
request at a time is in `apply_hitl` (`Handling`); the order and origin of the files of parse, compile
and layout (`BaseOrder`, `BaseFrom`); and what has been unlinked stays away unless there is a job beside
(`Unlinked`). It gives `StageKept`. `Apart` speaks of a directory with `crossed` unset: what the pipeline has
passed is there (`Passed`), and either answers are being applied with no job beside them (`Withdrawing`), or
every file that depends on the glossary is of the present edition (`Uniform`), or a kill has cut the answers short and
left the report to the next ones (`Halted`). `Uniform` is what skipping by existence needs: a file may be kept only
if it is of this edition. `Committed` is the commit marker, with the mapping beside each report. The steps that
leave files and glossary alone (`Calm`, among them all of Redis) keep the last two parts together; what is
left is one lemma for each action of the thread, for the merge, the unlinks and the
restarts. `PromiseKept` shows `Init` and every step to map to `Publication`.

**PortSlotsProofs.** `Accounts` adds to `BudgetPerRun` that without interruptions the keys
of an audit at rest are gone, which `set_terminal` sees to. `OneComputes` ties the count of
computations to the file and to the holder of the file lock, so that a kill in between
leaves neither. `SlotHeld` and `SlotsCounted` give the cap: who calls is a member, and
members only come below the cap.

**MappingRoundsProofs.**

* `GmvKept`: every way a row gets a concept goes through
  `Guard`, which never returns revenue for GMV (`GuardNotRevenue`); the proof does
  not ask whether the taxonomy knows `pnl.gmv`.
* `QuestionsKept`: `ComposeResult` says what `ComposeReport` publishes. No two rows cite one
  cell (`RowAssumption`), so no question of a row is merged away (`RowsKept`); of the questions of one key there is
  a first one by origin and place, from the well-foundedness of the naturals (`SmallestIs`), and it stays (`OneKept`).
  From there the invariant is `Composed`: the questions of a report are those of the
  mapping beside it, until both go.
* `OwnRows` and `Honoured`: the invariant is `Held`,
  what is wanted for a row is its key's entry in the glossary, together with the two properties
  and `Composed`. It needs three lemmas: the number of a question
  determines its row (`NumberInjective`, by cardinalities), so the row found under a
  number seen is the one it was seen for (`FoundSelf`); and sheet and row number
  determine the place (`CitedSelf`, the second half of `RowAssumption`). `SettledStays`
  says that a row with a concept passes both ports unchanged. Without the condition
  `FoundSelf` fails, and run `StaleAnswer` is the counterexample.

**ScreeningProofs.** The one assumption about books is `Sound`: headers are headers, rows
are in blocks and numbered from one, cells are addresses, and numbers are in cells of rows,
which parse, layout and mapping see to.

* `EditsExplained` says that identities are local. The invariant is `Explained`: the
  last check found what is wrong with the workbook (`Wrong`), and what came or went with
  the last correction cites it. Which rows and dates an identity compares depends on
  axes and mapping alone (`AxesStay`, `TotalsStay`); it compares only where each
  cell it cites has a number; so without the corrected cell among them
  all it adds up and compares is as it was (`NumbersStay`, `FlowsStay`). There is a lemma for each
  identity, since each cites in its own way, and `OtherFindings` keeps the other detectors
  out. Sums need no induction here: equal sequences have equal sums.
* `HardcodesCaught` is about counting. The invariant `PastedFound` adds to it that the cell
  last pasted over has no formula. A series loses to trimming only cells
  without a formula, at its ends (`FilledKept`), so all the formulas of the row are still
  there, and at least seven in ten of what is left (`PastedIsFound`); theorems of the library
  about cardinalities do the arithmetic, and `LeastIs` takes the first filled cell
  from the well-foundedness of the naturals.

**ReportProofs.** The assumption about books is the same.

* `BetterNeverFlags` says that the controls of shortfalls are monotone. A control compares
  the last workbook with this one, so the invariant remembers why it flagged: `ShortfallsShown`
  (F03, F07 and F13 flag exactly when `Raises`, a property of the workbook alone, before and
  after a revision), and `NoneNew`, which says of the workbook what the property says of the
  results. A correction keeps the rows, the dates and with them the years of each line; one
  upwards raises the amounts of its own concept and leaves the others alone (`LinesRaised`,
  from months and quarters up to years). `SumsRise`, that a sum of greater numbers is greater, is
  an induction, which the prover does not do: the least place where it would fail is taken from
  the well-foundedness of the naturals instead. `LowestIs` picks the lowest
  of some ratios and says which it is, and `F03Is`, `F07Is`, `F13Is` state for each control what
  the amounts must be for it to flag.
* `FindingsConcluded` is about who takes which finding. The invariant `Concluding` adds that the
  candidates of a check differ in name or cells (`CandidatesDistinct`, by way of the names of each identity),
  and that a control which is urgent cites a number (`ResultsUrgent`), without which `compose_report` would
  drop it. A conclusion's cards are told by name and cells, so that distinct candidates make distinct cards.
  The combinations are disjoint (`CombosAre`); the rest goes by detector. Detectors are ordered by stage and
  first cell, a strict order (`AheadIsOrder`), and `Ranks` and `ByRank` give each its place among the
  conclusions, by cardinalities: none is left out and none comes twice (`GroupedIs`). The parts are joined
  (`ApartJoined`) and cut at the cap (`ApartCut`).

**Only model-checked.** All liveness (`UploadServed`, `JobsEnd`, `JobFinishes`,
`SlotsReturned`, `RunsEnd`, `QuestionsRunOut`), since the provers have no fairness and no ENABLED;
`SheetUnderstood`, which compares what recursive functions of the header rows make of a
sheet with what its author has in mind; and four properties of `Screening`.
`AgreeingAccountsPass` and `EditsCaught` speak of accounts that agree: a theorem would have to assume of
each identity, up to its tolerance and its sums over years, that the book keeps it, which is what the detectors
compute. `GrainKeepsIdentities` and `GrainKeepsControls` speak of years whose parts are
all there, an axis that is regular and amounts that divide: their sums must be compared term by term.
No assumption here states these rules. The makers of the books of run `Analysis` keep
them; a book that is merely sound need not.

## 7. Abstractions and what is left out

* `set_progress` (HSET, EXPIRE of the lock) and `set_terminal` (HSET, EXPIRE, DEL
  of budgets) are one step each; the DEL is part of `PortSlots`.
* XAUTOCLAIM returns the oldest stale entry; the model takes any stale one.
* A terminal hash expires after 24 hours; `GrowOld` does it for directories that
  have reached their retention of 14 days. A hash of a job in work has no expiry
  until its first heartbeat.
* A cancelled Redis call that Redis has executed is covered by a lost answer
  followed by `Stop`. Redis errors while the process starts make it exit and are
  restarts.
* In `MappingRounds` rows are unique by sheet and number (a block of the layout ends
  where the next begins), `article_role` and the wording of questions are
  left out, and a failure between two files of a round is `PipelineRun`'s.
* One replica of the service, as deployed; worker names do not change between
  starts (a smaller `WORKER_CONCURRENCY` would leave members of
  `cf:inflight:run` for good).
* Numbers are exact integers of the workbook's unit, where the code has floats: what
  rounding may do at a threshold is left out. Rates are in hundredths, and both
  sides of a comparison are multiplied out.
* `Split` puts the flows of a year into its last part and keeps the stocks until
  then. Accounts that agree over the years then agree over the parts, except for
  I11, whose interest accrues; `GrainKeepsIdentities` leaves I11 out, and
  `GrainKeepsControls` the controls that read the finest columns or need months (F08,
  F09, F10, F14).
* Formulas are what the detectors ask of their syntax trees. Not modelled are the
  translation of the text (`compile/engine.py`, locale, R1C1), the expansion of
  ranges with its cap and the flag of a truncated lineage, `related_ids`, the metrics
  of a control that decide nothing, wording, the positives and the narratives.
* Of the layout the patterns by which a text is a date, a tag, a marker or a label are left
  out, and so are header texts, the hierarchy of lines by indentation, and check rows;
  `Analysis` starts from workbooks laid out. These patterns and the parser (ZIP and XML
  limits, values of cells) are functions over strings whose cases are characters, and stay
  with the tests.
* A file system that fails (a full disk) and a `meta.json` that cannot be written
  are not modelled, and neither are the read-only routes, request validation,
  actors' tokens, HTTP and TLS of the ports, probes, the CLI and logging.

## 8. Plan

1. Done: service, pipeline, ports, mapping and answers, their runs, and the first
   nine theorems.
2. Done: the analysis, from the mapped workbook to the report, the layout, and
   their runs.
3. Done: the theorems of section 6. For those of `ReportProofs` the filters of
   sequences in `FrsControls` and `Report` became definitions over indices (`Among`), since
   the library's are recursive and cannot be reasoned about.
4. Not planned: text patterns, parser, translation of formulas (section 7).
