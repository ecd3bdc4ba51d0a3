# A verification development for the algorithmic trading strategy laboratory

The laboratory (`src/src/ats_lab`) runs a research loop over trading strategies: jobs are queued
in a SQLite database, executed as backtests on a remote Jesse server, judged by an analysis
agent, and replaced by newly synthesized jobs. Several processes and threads, and an operator,
share nothing but that database and the server, and any of them may die between two statements.
This directory models that workflow in TLA+, checks it with TLC on small instances and proves
its central invariants with TLAPS for every value of the constants.

Paths below are relative to `src/src/ats_lab` unless they start with `docs/` or `README.md`,
which are the repository's own.

## 1. The system

### Components

| component | state it keeps | operations |
|---|---|---|
| Work queue (`database_queue.py`, table `work_items`) | state, blocker code, claim owner and time, attempts, `retry_after` | claim one or a batch, mark awaiting evaluation, guarded transitions, deferral, recovery of abandoned and of stale claims, promotion, the operator's resolve, retry, rectify, requeue and route repair |
| Batch supervisor (`supervisor.py`) | the batch in hand, counters, the future of one analysis thread | `run_round`: poll analysis, recover, preflight, promote, claim, execute, hand over, analyze, synthesize |
| Single-item worker (`worker.py`) | one claimed item | claim, execute, persist run and verdict together for the four operations it knows, finish, retry |
| Execution disposition (`execution_disposition.py`) | none | routes a result: persist, retry, analysis, operator; recovers exhausted retries as failed runs |
| Direct Jesse execution (`direct_mcp_executor.py`, tables `direct_execution_sessions`, `direct_execution_recoveries`) | a checkpoint and at most one replacement grant per item, telemetry | create or resume a session, start, poll, reconcile a zombie, replace a missing session |
| Correctness recovery (`correctness_recovery.py`) | none | operator's previewed repairs of zombie sessions and of orphaned reservations |
| Evidence store (`database_evidence.py`) | runs, append-only evaluations with a current one | add run, add failure run, append or supersede evaluation |
| Reconciliation (`reconcile.py`) | a report | lists stale claims and historical blockers, blocks and archives them one by one; puts blocked rows no attempt was charged to back into the queue |
| Dependencies and significance gates (`database_queue.py`, `database_synthesis.py`, `synthesis.py`) | dependencies, cohort tests | release, archive or keep dependents from the Benjamini-Hochberg decision of a cohort |
| Synthesis (`database_synthesis.py`, `batch_synthesis.py`) | cohorts, members, leases | reserve, plan, insert jobs, activate, fail, drain |
| Hyper-parameter optimisation (`database_hpo.py`, `hpo.py`) | studies, their lifecycle, analysis jobs, routes | schedule, run, hand over, import, analyse, configure routes, validate, requeue |
| Research memory (`research_memory.py`) | an outbox of learnings | enqueue, deliver, back off, backfill |
| Loop control (`loop_control.py`, `runtime_heartbeat.py`) | a control row, a runtime row | start, pause, resume, stop, detect a dead loop |
| Agent launcher, preflight, gates, sanitising, presentation | none of the workflow | subprocess and network I/O, pure decisions on numbers, rendering |

### How they interact

The database is the only channel between processes. Each method of `WorkflowDatabase` opens its
own connection and is one transaction, with a few exceptions that read in one transaction and
write in another; these are modelled as two steps. Inside a supervisor the main thread and the
analysis thread communicate through a `Future` the main thread polls. An executor talks to the
Jesse server in calls whose answers may be late, lost or malformed.

    synthesis --inserts--> work queue --claims--> supervisor / worker
                              ^   ^                    | dispatch
                  promotes    |   | recovers           v
             gates <-- evidence store <--runs-- direct execution <--> Jesse server
                              ^
                              | verdicts
                       analysis thread

### What is hard about it

* A claim has an age and no heartbeat: `claimed_at` is written once, so a claim that outlives
  `claim_timeout_seconds` is recovered under its living process (`README.md:40` speaks of
  heartbeat-based execution claims). After that two executors work on one item.
* Guarded updates compare the state of a row and not its owner.
* Evidence, verdict and state change in separate transactions, in an order chosen so that a
  crash loses nothing; retries, recoveries and the operator must respect it.
* Session creation is not idempotent, and its answer may be lost. One replacement at most may be
  created for a lost session, by processes that can die at any point of doing so.
* A study, its analysis job, its optimizer's item and its routes are separate rows, written by two
  threads, importers and the operator in separate transactions, some of them unguarded.
* A single-item worker finishes an item whose operation it does not know without evidence.
* The decision of a cohort needs tests that end at any time, is taken again whenever one does, and
  is lost when the process dies between the evaluation and the gate.
* All supervisors started from the command line have one id, and meet in two single rows.
* Attempts are charged or not according to who failed, and the loop must still end.

`PROJECT.json` lists these as hazards, each at its line with the properties that cover it.

### What makes each component correct

* *Work queue*: claims and states agree; claims are exclusive until one times out; the retry
  budget is bounded; a run handed to analysis stays claimed until it is judged; every item ends.
* *Supervisor and analysis*: an item is finished only with a verdict newer than its run; nothing
  is analysed before it is executed.
* *Direct execution*: one replacement per lost session; reservations do not leak; evidence is
  that of a session that finished, for the request that was asked, with its metrics.
* *Gates*: a baseline runs only on significant first tests; the decisions of a cohort are those
  of one family, however often they are taken; a chain of significant tests waits for ever only
  if its decision was withheld or lost.
  *Synthesis*: one cohort is planned at a time, only a complete one becomes active, planning
  ends. *HPO*: a study in analysis has a job; training and validation periods stay apart;
  finished optimizers and imported trials are dealt with; decisions stand. *Memory*: each
  evaluator has one current verdict; delivered means stored; copies are bounded; what `memory
  init` reports is true, and it ends. *Loop control*: at most one claim follows a pause or a
  stop; stops end and pauses quiet; starting again helps once ended processes have been waited
  for; a replacement frees what it replaces.

## 2. Modules

| module | what it is |
|---|---|
| `WorkLifecycle` | what the queue promises about an item: the abstract life cycle |
| `WorkQueue` | work items, their claimants, the analysis thread, the operator's commands |
| `WorkQueueProofs` | type correctness and three safety invariants of it |
| `WorkLifecycleProofs` | exclusive claims, kept runs, and that `WorkQueue` implements `WorkLifecycle` |
| `DirectSession` | one item executed on the remote server, by several executors |
| `DirectSessionProofs` | type correctness, five safety invariants and an action property of it |
| `HpoStudy` | the life of an optimization study: optimizer, import, analysis, validation |
| `HpoStudyProofs` | type correctness, four safety invariants and an action property of it |
| `SynthesisCohort` | planning cohorts of ideas, significance tests and the gate |
| `SynthesisCohortProofs` | type correctness, four safety invariants and an action property of it |
| `AdvisoryMemory` | what the research memory promises about a judgement, without the outbox |
| `ResearchMemory` | the history of verdicts, their copy in the evidence, and the outbox |
| `ResearchMemoryProofs` | type correctness and its safety invariants, and that it implements `AdvisoryMemory` |
| `LoopControl` | start, pause, resume and stop of supervisor processes |
| `LoopControlProofs` | type correctness and two safety invariants of it |
| `AnalysisCohorts` | how the rows of an analysis turn are cut into cohorts: operators and theorems |
| `MC...` | model values, tables and symmetry for TLC, one module per specification |

Operators named `...Slip` are wrong on purpose: each is the definition below it with one
plausible mistake, which a property has to notice. They are used by no specification.

The specifications meet in the rows of the database. Each keeps of its neighbours' tables what
decides in it, and says in its header which module has the rest: a claim of `WorkQueue` is one
step of `HpoStudy`, a finished item of `SynthesisCohort` is `FinishDirectly` or `Finalize` of
`WorkQueue`. Their state spaces therefore do not multiply.

### WorkQueue and the code

`item[i]` is the row of `work_items`. Two columns that hold a time are Booleans: `aged` is
`claimed_at < now - claim_timeout_seconds`, `later` is `retry_after > now`; `ClaimAges` and
`BackoffEnds` let time pass. `plain` says that the row's operation is none of the four a
single-item worker stores evidence for (it may hold for `PlainItems`), and `LegacyItems` may have
been imported blocked, with or without evidence. `runs[i]` keeps whether a finished run is stored
and what the latest one is, `judged[i]` what evaluation has been recorded since. A process `w` has
a program counter (`pc`), ids an earlier SELECT returned (`sel`), the claimed items it still has
to deal with (`held`), the attempts the claim returned (`snap`), and its analysis thread
(`cohort`, `settled`, `retried`).

The actions of `Step(w)` are the statements of `run_round` in their order: `Snapshot` reads what
waits for analysis, `Submit` starts the thread, `SelectStale`/`ApplyStale` are the two
transactions of `recover_stale_unexecuted_claims`, `PreflightBlocks` blocks on an unhealthy stack,
`SelectFailures` and `RecoverFailure` turn exhausted retries into evidence, `PromoteDueRetries`
and `PromoteScheduled` refill, `ClaimBatch` claims. `Execute` has one disjunct per route of a
result: `PersistRun` then `MarkAwaiting` (with `HandoffRaises` and `UndoHandoff` when the row has
moved), or for an hpo item `EvaluateHpo` and `FinishDirectly` in two transactions;
`DeferInfrastructure`, `ChargeRetry`, `BlockForOperator`, `FailToAnalysis`, and `LostClaimRaises`
when the row is no longer running. A `Worker` claims with `ClaimNext`, stores run and verdict
together (`PersistRun`) unless the row is plain, and ends in `FinishDirectly`. `Analyze(w)` is the
other thread. `Crash` and `Stop` end a process, `Start` and `RecoverAbandoned` are its restart
under the same id. The operator reconciles in two steps: `BuildReconciliation` reads a report
(claims older than a cutoff of his own choice, and historical blockers), `ApplyReconciliation`
moves its rows one transaction at a time and gives up at the first that has left its state.
`NormalizeBlockers` reschedules blocked rows no attempt was charged to.

### WorkLifecycle and the code

`WorkLifecycle` is the state machine that `README.md:491-499` and `docs/architecture.md` draw,
with claims and verdicts: an item is waiting, claimed, recorded, blocked, finished or archived,
and each stage is left by few steps, most of which only the holder of the item may take.
`Life` in `WorkQueue` is the refinement mapping: `running` is `claimed`, or `recorded` when the
row carries `awaiting_batch_evaluation`; `scheduled`, `ready` and `waiting_retry` are `waiting`.
The promise holds while the queue is *calm*: no claim has outlived its timeout and no operator
has intervened. Afterwards nothing is promised, because no claim is fenced (section 3, refuted
statements). What it rules out while calm is what the many guarded UPDATEs are for: evidence
that is executed again, an item that is finished without a verdict or by a process that does
not hold it, a verdict lost by a crash, a recovery that takes a completed run out of analysis.
The one way to finish without a verdict that it allows is in the code: `FinishPlain`, by a
single-item worker that holds an item of an operation it does not know.

### DirectSession and the code

`chk` is the row of `direct_execution_sessions` and `grant` the row of
`direct_execution_recoveries` of one work item; `jesse`, `gone` and `origin` are the server:
what each session is doing, which it has forgotten, and what it was created for. `origin` is
known to nobody in the program and serves the properties. An executor is one call of
`_execute_one`: `pc` is its next transaction or remote call, `sess` the session id in hand,
`seen` the checkpoint it has read, `obs` what it last observed, and at the end the outcome.
`request` is the edition of the item's execution request, the fingerprint of the code.

`Read` to `SaveDraft` are the path to a session, `Start` to `SaveFailure` the conversation with
the server and what is checkpointed of it, `Except` to `SaveStartFailed` the except clause,
`Report` and `Apply` the way back, a retry in two transactions (`Report` counts the retries in a
row, `Record` writes this one). `InitializeFails` is a protocol session that does not open.
`Apply` keeps of the work queue what decides here: a finished run is stored whatever the state of
the item, everything else needs the item to be running. `Plan...`/`Apply...` are the reads and the
later transaction of one repair call.

### HpoStudy and the code

A study is spread over `hpo_studies` (`study`), `hpo_analysis_jobs` (`job`, in the order of
creation), the optimizer's `work_items` row (`work`), the routes in its experiment's
specification (`routes`, one period per role) and the validation items (`val`). A supervisor has
a main thread (`pc`, the lists an earlier SELECT returned in `todo` and `lost`, the optimizers it
executes in `held`) and an analysis thread (`turn`).

`Start` to `RunFails` follow `run_round`: recovery of the previous process's claims and analyses
(`SelectLost`, `ResetLost`: SELECT and unguarded UPDATE), `Reconcile`/`HandOver` of optimizers
that finished without their study, default routes in three transactions, `MarkUnroutable`,
`Promote`, `ClaimJob`, `ClaimWork`, and the three writes of a finished optimizer
(`CompleteStudy`, the evaluation, `FinishWork`). `ReadPayload`, `Answer`, `FailJob`,
`ScheduleValidations` and `Terminalize` are the analysis. `Import` has the two importers, with
what each knows of completion. `Completion(s)` is `complete_hpo_study`, which three callers
share.

### SynthesisCohort and the code

`cohort[k]` is a row of `synthesis_cohorts` with its chains, `test[i][r]` the significance item
of an idea on a route with its gate, `base[i]` the idea's baseline item, `first` the binding test
of a rule and route. A planner (a supervisor's synthesis thread, or the command `synthesize`)
walks through `plan[w].at`: reserve, dispatch, then per idea capacity, tests, baseline, then
activate. `turn[w]` is the analysis thread between an evaluation and its gate.
`Reserve` fails expired leases and takes the one lease in one transaction. `InsertTest` reuses a
binding test of the same rule and route. `GateStep` follows `reconcile_significance_gate`:
archive the dependents of a test that could not be executed, decide alone outside a cohort, wait
for the family, or decide the family: `Rejected(F, x)` is the Benjamini-Hochberg step-up as
"some p-value at least as large has rank times level at or above it", `GateCohort` applies it to
every test of the family and releases what fits.

### ResearchMemory and the code

`history` is `evaluation_history` (an id is an index), `finding` the verdict copied into each
run's normalized evidence, `outbox` the `research_memory_outbox`, `copies` how many messages the
provider holds of a learning. `Store` is the one transaction of `add_evaluation`,
`add_run_and_evaluation` and `finalize_batch_evaluation`: supersede, append, refresh the
evidence, enqueue. A syncer (the supervisor after an analysis, the operator's commands) selects
a batch, and per entry lists the provider's messages, posts, and marks. `Command` starts `sync`
or `init`; `Scan`, `Insert`, `Deliver` and `Report` are the loops of `initialize_research_memory`.
`Ordered` and `First` are ORDER BY and LIMIT; rows that compare equal may come in any order.

### AdvisoryMemory and the code

`AdvisoryMemory` is what `docs/research-memory.md` says of the memory as a whole: a judgement is
recorded once and may be queued at once (`Record`) or later (`Queue`) unless its text is unsafe;
the provider is sent only what is queued (`Send`); `memory init` vouches only for what was sent
(`Vouch`); none of these sets ever shrinks. A judgement is named by its time. The refinement
mapping `Promise` in `ResearchMemory` reads the five sets off the history, the outbox, the
provider's copies and the reports; retries, backoffs, selections and lost answers are stutters.

### LoopControl and the code

`control` is the row `operator_control`, `runtime` the row `supervisor_runtime` (a process id and
a phase). A start command has four transactions and a launch (`StartProbes`, `StartReads`,
`StartSets`, `Launches` or `LaunchFails`, `StartRestores`). A process is launched, built, has
recovered its predecessors' claims, and loops: `Checks` reads the intent once per round, `Claims`
and `Dispatches` and `Finishes` are the round's execution, `StartsBackground` and `EndsBackground`
the background dispatch, `Pulses` the heartbeat of either (`beat[p]` is the phase each repeats),
`Stops` the shutdown. A process whose completion raised is *failing*: it exits once its background
threads have been joined (`Exits`). When the process named in the runtime row ends, its id stops
answering, or goes on doing so (`Unwaited`) because the terminal interface or web server that
launched it has not waited for it, until that launcher ends or launches again (`LauncherEnds`).
Claims name no process, since all have the same worker id: `older[p]` holds those made before `p`
started.

### AnalysisCohorts and the code

`_balanced_chunks` of the supervisor, as arithmetic: the number of cohorts, their sizes and their
offsets.

## 3. Runs

| run | instance | shows | states |
|---|---|---|---|
| `queue_one` | one supervisor, two items (one hpo, one that may be a legacy blocker), one each of crash, expired claim, infrastructure failure, operator | evidence before analysis; finished is judged; a run stays claimed until judged | 3.39 M |
| `queue_two` | a supervisor and a worker over one item, which may be of an operation the worker does not know; two crashes, one each of the rest | attempts bounded; claims exclusive until one expires; the queue implements its life cycle | 1.89 M |
| `queue_live` | one supervisor under fairness, an hpo and a gated item, a crash | every item ends | 0.12 M |
| `direct_race` | two executors, three sessions, a timed-out claim and a forgotten session | one replacement; a stored run protects the checkpoint from executors that find their session missing | 6.97 M |
| `direct_fail` | one executor under fairness; a crash, a lost answer, a forgotten session, two interventions | no leaked reservation; evidence is real and answers its request; the item settles | 1.78 M |
| `hpo_one` | one study, one supervisor, two periods, two jobs; a crash, two imports, an intervention | a study in analysis has a job; nothing with trials is parked; periods are disjoint; decisions stand; optimizers are handed over, trials analyzed | 0.99 M |
| `cohort_gate` | one supervisor and `synthesize`; an idea on two routes and a revision of its rule; three p-values; one event | baselines are earned; a family's decisions agree; only complete cohorts become active; releases fit | 2.26 M |
| `cohort_lease` | the same under fairness with one idea, two cohorts and two events | one lease; planning ends; baselines with significant tests resolve, unless a decision was withheld or lost | 0.12 M |
| `memory` | two evaluators, one run, supervisor and operator; two judgements, one fault | verdicts are revised and shown; delivered is stored; copies bounded; `memory init` ends, tells the truth and remembers; the memory implements `AdvisoryMemory` | 0.33 M |
| `loop` | one start at a time, two process slots, one item; a crash, a failed launch | one late claim; replacements own all claims; stops end, pauses quiet, starting helps when ended processes are waited for | 0.57 M |
| `v_metrics` | one executor | a finished run without metrics | |
| `v_unseen` | one study | a validation on the optimizer's own period | |

**The bounds.** Every bound is a named constant: crashes, expired claims, lost answers,
forgotten sessions, infrastructure failures, imports, events and interventions are each spent
from a budget. The races found in the code need one expired claim or one crash and two processes
or threads, and every interleaving up to that is explored. Two items are needed where a batch, a
promotion or a cohort must choose; one is enough for claims, since rows interact only through
those choices. `MaxAttempts = 2` makes both the retry and the exhausted retry occur.
`MaxSessions` is never reached: each run has as many sessions as its failures can make executors
create, so `Create` is never disabled by it (if it were, `ItemSettles` would fail).
`CircuitLimit` stands for a limit of ten: the circuit must be seen closed and open, and in
`direct_fail` it must stay closed for a missing session and a failed replacement, hence 3.
`MaxPolls` is 2 in the race, so that a poll is followed by another or
by the end of the slice, and 1 in `direct_fail`, where further polls only repeat. `MaxJobs = 2` of
a study lets a requeued or reimported study have an old and a new job; `MaxOverruns = 0` because
an analysis that outlives its claim is known to be overtaken (below), and the proofs do not
assume it. Three p-values tell "significant alone", "significant alone but withheld in a family"
and "not significant" apart. With two judgements an evaluator revises its own verdict, or two
judge the same experiment, around any one fault. Every action fires in some passing run. Deadlock
is not checked where a judged item, an analyzed study or a stopped loop is the end.

**The runs that fail on purpose** each check one sentence of the repository and produce a
counterexample, recorded under "findings":

* `v_metrics`: the state `terminal_success` is checkpointed before the metrics; an attempt that
  stops in between makes the next one return a finished result without metrics.
* `v_unseen`: when the validation routes are configured before the validations are created, as
  the supervisor does with the defaults, each validation is a copy of the optimizer's experiment,
  `routes` included, and executes the training period.

**Statements of the repository that the models refute, without a run.** They were found with the
modules here, and the properties above are conditional because of them.

* `README.md:546`, "completed executions awaiting analysis are excluded from stale-claim
  recovery": the exclusions are in the SELECT only (`database_queue.py:426-432`), so a run
  completed before the UPDATE is taken out of analysis. Needs an expired claim
  (`KeptUntilEvaluated`, `Calm`).
* `README.md:30`, the supervisor "analyzes each completed batch once": `supervisor.py:194` polls
  the analysis again after the rows were read, so rows finalized in between are submitted again,
  and when the second analysis fails its failure replaces the verdict.
* `database_queue.py:163`, "keep a completed execution claimed until its batch evaluation is
  durable": the transition at `database_queue.py:1153` does not compare owners; the late result
  of a process that lost its claim moves the row another process has handed to analysis.
* The data-route repair (`database_queue.py:719`) invalidates stale sessions, but a replacement
  whose id is stored in the grant and which is not checkpointed yet, because its executor was
  killed, survives it and answers the repaired request (`RunsMatchRequest` excludes crashes).
* `docs/jesse-adapter-contract.md:82`, "any finished run prevents checkpoint invalidation and
  requeue": the zombie repair checks for runs before its transaction
  (`correctness_recovery.py:170-175`) and not in it (`RunKeepsCheckpoint` excludes its plan).
* `README.md:313-316` and `docs/synthesis.md:37-45`, cohort members are decided by
  Benjamini-Hochberg: a member whose rule has been tested before is inserted finished, on its raw
  p-value, with its baseline ready (`synthesis.py:440-490`).
* `README.md:311`, a failed significance test archives its baseline: when
  `reconcile_scheduled_dependencies` runs first it blocks the baseline as `dependency_blocked`,
  and the release only looks at scheduled dependents.
* `README.md:375-377`, `pause` claims no new work and `stop` exits "before next claim": off by one
  round, whose intent had been read before. `OneLateClaim` is what holds.
* `README.md:507`, "`finished` | Execution and evaluation durable": a single-item worker stores
  evidence for significance, backtest, hpo and monte_carlo items only (`worker.py:138`) and finishes
  any other, such as a scheduled `cost_sensitivity` item, with neither (`worker.py:147-150`;
  `FinishedIsEvaluated` and `FinishPlain` have it as their exception).
* `reconcile.py:72-75`, only never-attempted legacy blockers are normalized, "runtime blockers are
  reserved for work that was actually attempted": the selection is `attempts=0` and any code, and
  an item that was executed and blocked at its first try has attempts 0 as well.
* A test that ends significant releases its baseline (`README.md:309`): the gate follows the
  evaluation in another transaction (`supervisor.py:1714-1723`), and a crash in between is never
  made good, so the test stays `awaiting` and the baseline held or `dependency_blocked` for ever
  (`Undecided` in `PassedChainsResolve`).
* `loop_control.py:34-45` takes a process that answers for alive. A supervisor launched from the
  terminal interface (`tui_controller.py:141`) or the web server is its child and nobody waits for
  it: once crashed it is a zombie that answers, and every start returns `already_running` while the
  launcher lives. `KeptStarting` has the premise that the row's process does not stay `Unwaited`.
* `docs/research-memory.md:28-31`, operational incidents are not remembered as learnings: an
  analysis failure (`supervisor.py:2475-2507`) is an evaluation like others and is queued.

Behaviour a maintainer may want to know, which contradicts no text:
`_release_replacement_reservation` also runs when creation succeeded and the answer was lost, and
then a second replacement is created (`OneReplacement` is conditional); the checkpoint upsert
keeps the session id of an existing row whatever session the writer observed (`EvidenceIsReal`
is conditional). An HPO item created between `mark_unroutable...` and the claim is claimed without
routes (`database_queue.py:1069`), and a parked study loses the code that `requeue_hpo_execution`
looks for when its item finishes. A manual significance test that another idea's replaces keeps
its own gate waiting; if a cohort later inserts the same idea its baseline is ready, never
claimable, and counts against the active limit. Two starts before the first child has written its
row launch two supervisors with one id, which execute the same items until the loser's completion
raises; a failed start may restore a control state that a stop has meanwhile replaced. A syncer
that fails late turns `delivered` into `retry`, and two syncers may store a learning twice
(`CopiesBounded`).

**Fairness.** `WorkQueue`'s `FairSpec` assumes that both threads of a live process keep running,
that a stopped process is started again, and that backoffs end: `run_round` never waits for
another process, and a killed supervisor "can be restarted with one command" (`README.md:41-42`),
by hand or by a scheduler. Without a restart nothing is promised, in the model as in the code.
`DirectSession`'s assumes that executors keep running, that backoffs end and that the claim of a
dead process is recovered. Neither assumes anything of the Jesse server: a poll slice is bounded
by `max_polls`, so an executor ends whatever the server does. `HpoStudy`'s assumes the threads and
the clock by which the claim of a lost analysis ages. `SynthesisCohort`'s assumes the threads,
that leases lapse (`lease_expires_at` is compared with the clock), and that running tests and
baselines end, which `queue_live` and `direct_fail` check. `ResearchMemory`'s assumes that a
started delivery goes on (each request has a timeout) and that backoffs end; that the operator
keeps running `memory init` is a premise of `InitRemembers`, not fairness. `LoopControl`'s assumes
that commands and processes go on, and not that launchers end; lasting intents, repeated starts
and that an ended process is waited for are premises of its properties. No crash, loss, timeout or
intervention is ever assumed to happen.

## 4. Proofs

All theorems hold for every set of items, processes, executors, sessions, studies, cohorts and
commands and for all limits and bounds, under the ASSUMEs of the modules (limits are positive
naturals, `None`-like constants are no row and no id, tables of constants are functions; the
sets that something is counted over, as items, processes, ideas and routes, are finite), which TLC
evaluates on every run.

**WorkQueueProofs.** `TypeCorrect`, `ClaimsMatch` (a row has an owner exactly when it is
running) and `AwaitingEvidence` (only a running row with a stored run carries the code that
hands it to the analyzer). None of them is inductive alone: an analysis thread may settle a row
it read long ago, and a supervisor may mark a row it executed. The strengthening says of every
row that it is either *busy* (running, owned) or *idle* (no owner, and no code that would make a
later claim look executed), and that the items a process is handing over, or has noted, have a
run. There is one lemma per update of a row, cited by the action that makes it.
`AttemptsStayBounded` (AttemptsBounded) needs a count of its own: the attempts of a row, plus the
number of processes that hold the item with a count that leaves room for a charge (`Charging`),
are at most `MaxAttempts - 2` plus the number of processes. Who charges leaves that set, and who
enters it, by a claim, read a count below the limit when nobody had more set aside than there
are other processes.

**WorkLifecycleProofs.** `ClaimsStayExclusive` and `QueueImplementsLifecycle`, the refinement;
and, for behaviours that stay calm, `CalmKeepsRuns` (KeptUntilEvaluated) and `CalmFinishesJudged`
(FinishedIsEvaluated, with its exception of plain operations). Without calm the two hold in the
small run, which has one supervisor, but not with two: a late run would find its item finished.
The invariant is `TypeOK`, the claim invariant above, that the budgets only shrink, and `Calm =>
CalmInv`. `CalmInv` says that no claim is aged and no reconciliation report pending, that a
finished row has its verdict or is plain, and of each process, `Local(w)`, what its program
counter lets one conclude about every item it has in hand: that it owns it, in which stage it is,
and that the rows an earlier SELECT listed have not left the stage in which they were listed
except by its own thread. That is the statement one would want of a lock, obtained from guards
that compare states only, and it is why the guards suffice while calm. Each action is then either
the end of calm or `Moves(w)`: an abstract step of that process on every item.

**DirectSessionProofs.** The inductive invariant `IInv` has six parts:

* `TypeOK`;
* `BudgetInv`: a new edition of the request has been paid for;
* `LocalsInv`: at each step an executor has what the step uses: a session in hand, a checkpoint
  it has read, a grant that exists;
* `KnownInv`: every id in the database or in a local variable is that of a created session;
* `NoOrphanWithoutCrash` itself, whose witness is the executor at `replace`, `persist` or
  `release`;
* `TokenInv`, while no answer is lost, nobody is killed and the operator has not intervened: the
  right to create the replacement is held by nobody, or by one executor and no replacement
  exists, or has been used, and the reservation is then never cleared.

`TypeCorrect`, `SessionsExist` (KnownInv), `ReservationsHaveOwners` (NoOrphanWithoutCrash) and
`AtMostOneReplacement` (OneReplacement) follow. There is one lemma per action and, under it, one
step per part of the invariant. `RunsKeepCheckpoints` proves the action property
`RunKeepsCheckpoint` from the same invariant; unlike the run, it covers the repair of the data
routes too.

`EvidenceStaysReal` (EvidenceIsReal) and `RunsAnswerTheirRequest` (RunsMatchRequest) need more,
since an executor stores what it remembers and not what the row says. `EvidenceInv` says that
without timeouts executors take turns (whoever is not idle is alone with the item), and then what
each step knows of the session in hand, the checkpoint and the server (`QuietInv`); and that, if
nobody was killed either, the row is of the current request, an executor's session was created for
the request in its hands, and a replacement whose id is stored is in the row or about to be saved
there, so that no session of an old request is left behind (`SteadyInv`).

**HpoStudyProofs.** `TypeCorrect`; `AnalysisAlwaysHasJob` and `ParkedNeverHasTrials` from
`JobsInv` (of a study without completed trials every job after the first is parked, and alone in
being so; what a list of lost jobs or an analysis thread names exists and has trials);
`PartitionsStayDisjoint` and `ValidationsHaveRoutes` from `RouteInv`. They allow analyses that
overrun their claims, which the run does not. `DecisionsStand` (DecisionStands) is an action
property under the premises it states, one supervisor and no overrun or intervention so far. Its
invariant `StandsInv` says that, under them, every study is `Settled` (a decided study has trials
and a finished optimizer, one sent back or rejected no active job) and the supervisor `Attentive`
(its analysis has an active job, the lists it has read are still true). A study waiting for its
validations may be analyzed again from a leftover job, and then only schedules them again.

**SynthesisCohortProofs.** One invariant: types, the shape of a plan at each of its steps, that
two planned cohorts are the same, that a gate passes only on a significant first p-value, and
`EarnedBaselines`. A step-wise frame (`BaseMoves`, `TestMoves`, ...) says which actions write
which variable, and the lemmas `FirstStays` and `TestsGrow` that a binding p-value and a passed
gate are never taken back. `TypeCorrect`, `LeasesAreExclusive` and `BaselinesAreEarned` follow.
`FamiliesAgree` (FamilyAgrees) adds that a gate set by the step-up belongs to an inserted test
with a p-value (`DecidedInFamily`): a later decision then sees the same family.
`ActiveCohortsAreComplete` (ActiveIsComplete) adds `PlansFill`: unless one was rejected, the ideas
a planner no longer has to insert are in the queue with all their tests; nothing leaves the queue.
`ReleasesFitTheLimit` (ReleasesFit) is an action property: every other step adds no active item,
or checks the room for those it adds.

**ResearchMemoryProofs.** `TypeInv` is `TypeOK`, that any rows have a newest one, and that a
delivery has rows of the outbox left. The lemma `HistorySteps` says that a step leaves history and
evidence alone, stores a run, or appends one judgement and refreshes runs of its experiment, none
only if none has evidence; `VerdictsStayRevised` and `EvidenceShowsLatest` follow by what
appending and refreshing do. `DeliveredStaysStored` and `CopiesStayBounded` are one invariant,
`DeliveryInv`: a syncer that is about to mark a row delivered has seen or stored its message, and
the copies of a learning plus the syncers about to post it are at most two plus the malformed
listings. `ReadyStaysRemembered` adds that what the last preview selected is in the outbox.
`MemoryImplementsPromise` is the refinement; it needs `PromiseInv`: no two judgements, stored or
still in an evaluator's hands, have one time, every learning is of a judgement that was made, and
no selected row is unsafe. Each step is then one abstract step or a stutter (`PromiseSteps`).

**LoopControlProofs.** `ClaimsStopAfterOne`: a process that has claimed late is not about to claim
again, and no claim counts as late while control is `running`. `ReplacementsOwnClaims`: whatever
other process there is beside a lone one is still coming up, and at each stage a lone process
knows which claims may exist. Both need nothing of the runtime row.

**AnalysisCohorts.** `CohortsFit`: for any number of rows and any limit, cohorts are consecutive,
cover the rows, are not empty, fit, and differ by at most one. `CohortsAreLargeEnough`: none is
below the minimum if twice the minimum is at most one more than the maximum, as with the default
limits 4 and 8. The policy (`resources.py`) only demands minimum <= maximum: nine rows under 6
and 8 become cohorts of five and four.

**Only model-checked**: liveness, which is out of the prover's reach (`EveryItemResolves`,
`ItemSettles`, `FinishedIsHandedOver`, `TrialsAreAnalyzed`, `PlanningEnds`, `PassedChainsResolve`,
`InitEnds`, `InitRemembers`, `StopEnds`, `PauseQuiets`, `KeptStarting`), and `KeptUntilEvaluated`
and `FinishedIsEvaluated` beyond a calm queue, where they hold for one supervisor only. Every
other invariant and action property of a run is stated by a theorem.
**Only proved**, since a theorem says more than a run: the type invariants of `DirectSession`,
`HpoStudy`, `SynthesisCohort`, `ResearchMemory` and `LoopControl`, `ClaimsMatchStates` and
`ValidationsAreRouted`.

## 5. Abstractions

*WorkQueue.* The continuous mode of the supervisor with background analysis; `pause` is a
supervisor that takes no step, `stop` is modelled. Claim order and priority are any choice of
ready rows. The limit of `TerminalFailureRecovery` is at least the number of items. The retry of
a failed analysis on halves of the cohort is any subset settled. HPO analysis jobs use the same
future; here `Submit` may simply be late. Fewer than `analysis_cohort_min` rows without a
deterministic verdict wait for more to come, for ever if none do; `queue_live` therefore has hpo
and gated rows only. Items exist from the start. The processes have different ids; one id for
two is in `LoopControl`. The cutoff of a reconciliation report is any choice of running rows; a row
without a claim does not occur (`ClaimsMatch`); the readiness kept in a normalized row's
specification is left out. The raw `finish`, `block` and `retry` commands of the CLI, which move a
row at the operator's word, are not modelled, nor are three recoveries of
`correctness_recovery.py`: of executor failures (347-424), of partially failed batches (489-581)
and of the margin-sizing blocker (674-783).

*DirectSession.* The strategy-preparation turn before a session, the validation of the request
contract and the fallback dispatcher are left out, and so are SQLite errors, the cosmetic flag
`replacement_created`, and `recover_unexecuted_draft_checkpoint`, a repair of rows of an older
version. A conversation with the server (`_start_and_verify`) is one step; that its start may
take effect later is the state `landing`. Samples that prove a stall are one observation. The block
with `invalid_execution_result` (`direct_mcp_executor.py:1590-1598`) cannot happen: `_finished`
validates an envelope it has just built from values of the types the validation asks for.

*HpoStudy.* Claims, retries and failures of the optimizer's item are an execution that completes,
fails or is deferred. A period stands for a list of routes; different periods do not overlap.
Trials are a flag: there are completed ones or not. The choice of candidates is any answer of the
agent. `reconcile_hpo_validation_jobs`, a projection of item states, is left out. `ReadPayload`
reads trials and selection at once (`supervisor.py:932`, `935`): completed trials are never lost,
so an import between the two reads has the outcome of one before or after both. The job state
`abandoned`, which `complete_hpo_study` would take up again, is only written by
`abandon_hpo_analysis`, which nothing calls.

*SynthesisCohort.* Priority order is any choice; the order of `finished_at` is the order in which
runs are stored; ties of p-values do not matter to the step-up. Validation of a request is whether
its idea is acceptable, the building of its context part of the dispatch. One bound, `MaxEvents`,
counts crashes, leases that lapse under a live planner, tests that fail and uses of `synthesize`.

*ResearchMemory.* The text and fingerprint of a learning are the judgement it is of and whether it
is of infrastructure; a listing of the provider is one answer; backoffs are a Boolean.
A judgement with a non-finite metric or whose learning exceeds the byte limit
(`research_memory.py:240`) aborts its transaction and is not made. Two judgements have two times:
ties of `evaluated_at` are not modelled. The run has one run of one experiment; that a verdict is
copied into each of several runs is in the theorems only.

*LoopControl.* A batch is one item; a process slot is free when its process has ended, so ids are
not reused; the phases of the runtime row are "stopped" and others. A heartbeat ends with its
dispatch: one pulse that outlasts the join timeout (`runtime_heartbeat.py:50`) is left out.

*Not modelled at all*: the agent launcher and contract validation (their results are
nondeterministic inputs), the evaluation of metrics against gates (floating point), data import
and sanitising (one-shot tools on a quiescent database), migrations of the schema (one transaction
under the writer lock, before anything else), the retry schedule (a pure function of attempts
and clock), the command line, dashboard, console and terminal interface except for the commands
named above (they read and render; they are a fifth of the code).

## 6. Plan

Done: the queue and its abstract life cycle, direct execution, studies, cohorts and gates, memory
and its abstract promise, loop control, and the cutting of cohorts. What would add most next:

1. `KeptUntilEvaluated` and `FinishedIsEvaluated` for one supervisor whose claims do time out, as
   `queue_one` checks them: theorems without the premise of calm.
2. Larger instances of the cohort: two supervisors, with the rules of two ideas shared.
3. The reduction of a failing analysis cohort to halves, and the retry schedule, as operators with
   theorems like those of `AnalysisCohorts`.
4. Migrations of the schema, interrupted and repeated.
