------------------------------- MODULE HpoStudy -------------------------------
(***************************************************************************)
(* The life of a hyper-parameter optimisation (HPO) study: from the verdict   *)
(* that asks for it, through the run of its optimizer work item, the import   *)
(* of the optimizer's trials and their analysis, to the validation of the     *)
(* selected trials on periods the optimizer has not seen.                     *)
(*                                                                         *)
(* A study is spread over four tables (hpo_studies, hpo_analysis_jobs,        *)
(* work_items, experiments).  Supervisors change them from two threads each,  *)
(* the operator from the command line; every method of HpoMixin is one        *)
(* transaction and one action here, except where the code reads in one        *)
(* transaction and writes in another.  The claims, retries and failures of    *)
(* the optimizer work item itself are those of WorkQueue: here an execution    *)
(* completes, fails or is deferred.                                           *)
(*                                                                         *)
(* Operators named ...Slip are the definition below them with one mistake.    *)
(***************************************************************************)
EXTENDS Naturals, FiniteSets

CONSTANTS
    Studies,          \* at most one study of each exists; its optimizer item with it
    Supervisors,      \* supervisor processes: a main and an analysis thread each
    Periods,          \* date ranges of one market; different ones do not overlap
    NoPeriod,         \* no route configured
    Nobody,           \* claimed_by IS NULL; a thread without a study
    MaxJobs,          \* bound: analysis jobs per study
    MaxCrashes,       \* bound: processes killed
    MaxOverruns,      \* bound: analyses that outlive claim_timeout_seconds
    MaxImports,       \* bound: imports of optimizer results
    MaxOperator       \* bound: other interventions of the operator

ASSUME HpoAssumption ==
    /\ Nobody \notin Supervisors \cup Studies
    /\ NoPeriod \notin Periods
    /\ \E p, q \in Periods : p # q
    /\ IsFiniteSet(Supervisors)
    /\ MaxJobs \in Nat \ {0}
    /\ MaxCrashes \in Nat /\ MaxOverruns \in Nat
    /\ MaxImports \in Nat /\ MaxOperator \in Nat

VARIABLES
    study,    \* hpo_studies: lifecycle, and what its trials tables hold
    work,     \* the optimizer's work item
    job,      \* hpo_analysis_jobs, per study in the order of creation
    routes,   \* routes of the study's experiment, per role
    val,      \* validation work items of the selected trials, per split
    pc,       \* per supervisor: the next statement of its main thread
    todo,     \* per supervisor: studies a SELECT has listed, still to be handled
    lost,     \* per supervisor: jobs a SELECT has listed for recovery
    held,     \* per supervisor: claimed optimizers whose result is not applied
    turn,     \* per supervisor: what its analysis thread is doing
    budget    \* what is left of each bound

vars == <<study, work, job, routes, val, pc, todo, lost, held, turn, budget>>
main == <<pc, todo, lost, held>>

Stages  == {"none", "hpo_scheduled", "hpo_running", "hpo_analysis",
            "validation", "revise", "reject"}
Decided == {"validation", "revise", "reject"}

Splits == {"oos", "rolling"}
Roles  == Splits \cup {"hpo"}

JobIds    == 1 .. MaxJobs
JobStates == {"absent", "pending", "running", "waiting_retry", "terminal", "completed"}

\* max_attempts of _fail_hpo_job; more attempts than this are not told apart.
MaxAnalyses == 2

WorkStates == {"none", "scheduled", "ready", "running", "waiting_retry", "finished"}
Codes == {"none", "requirements_pending", "hpo_trials_required", "abandoned_claim",
          "execution_failure", "awaiting_batch_evaluation"}

Study == [stage : Stages, trials : BOOLEAN, selected : BOOLEAN]

\* `ready` is readiness.status, which keeps rows from being promoted or claimed.
Work  == [state : WorkStates, code : Codes, ready : BOOLEAN,
          owner : Supervisors \cup {Nobody}]

\* `parked` is a NULL retry_after, which is never due; `aged` claimed_at < cutoff.
Job   == [state : JobStates, parked : BOOLEAN, attempts : 0 .. MaxAnalyses,
          aged : BOOLEAN]

Validation == [state : {"none", "scheduled", "ready", "finished"}, ready : BOOLEAN,
               route : Periods \cup {NoPeriod}]

PCs == {"down", "recover", "reset", "reconcile", "handOver", "defaults", "configure",
        "write", "mark", "promote", "claimJob", "claim", "read", "start", "execute",
        "complete", "finish"}

Turn == [at : {"idle", "park", "payload", "dispatch", "fail", "decide"},
         study : Studies \cup {Nobody}, id : 0 .. MaxJobs, saw : BOOLEAN]

Bounds == {"crash", "overrun", "import", "operator"}

-----------------------------------------------------------------------------
At(w, label)   == pc[w] = label
Goto(w, label) == pc' = [pc EXCEPT ![w] = label]

Spend(b) == budget[b] > 0 /\ budget' = [budget EXCEPT ![b] = @ - 1]

Doing(label, s, n) == [at |-> label, study |-> s, id |-> n, saw |-> FALSE]
Idle == Doing("idle", Nobody, 0)

JobsIn(s, states) == {n \in JobIds : job[s][n].state \in states}

\* ORDER BY created_at DESC LIMIT 1: a singleton, or empty if S is.
Newest(S) == {n \in S : \A m \in S : m <= n}

Fresh(state, parked) == [state |-> state, parked |-> parked, attempts |-> 0, aged |-> FALSE]

\* Every UPDATE that releases or requeues a job rewrites these columns.
Put(j, state, parked) == [j EXCEPT !.state = state, !.parked = parked, !.aged = FALSE]

Claimed(j) == [j EXCEPT !.state = "running", !.parked = FALSE, !.aged = FALSE,
                        !.attempts = IF @ < MaxAnalyses THEN @ + 1 ELSE @]

\* An INSERT takes the next id of the study, as long as the bound leaves one.
Insert(s, j) ==
    \E n \in JobIds : /\ \A m \in JobIds : job[s][m].state = "absent" <=> m >= n
                      /\ job' = [job EXCEPT ![s][n] = j]

\* _validate_hpo_route_partitions: training never overlaps a validation period.
Disjoint(r) == \A p \in Splits : r["hpo"] # NoPeriod => r[p] # r["hpo"]

DefaultRoutes == CHOOSE r \in [Roles -> Periods] : Disjoint(r)

Active == {"pending", "running", "waiting_retry"}

\* Slip: an existing job is taken for one that still waits for its trials.
CompletionSlip(s) ==
    LET missing == TRUE
        active  == JobsIn(s, Active)
    IN  /\ study' = [study EXCEPT ![s].stage = "hpo_analysis"]
        /\ IF active = {}
             THEN Insert(s, Fresh("waiting_retry", missing))
             ELSE \E n \in Newest(active) :
                    job' = [job EXCEPT ![s][n] = Put(@, "waiting_retry", TRUE)]
        /\ work' = [work EXCEPT ![s].code = "hpo_trials_required", ![s].ready = FALSE]

\* Slip: a terminal job counts as the study's job, which then has no active one.
JoblessSlip(s) ==
    LET missing == ~study[s].trials
    IN  /\ study' = [study EXCEPT ![s].stage = "hpo_analysis"]
        /\ job' = job
        /\ work' = IF missing
                     THEN [work EXCEPT ![s].code = "hpo_trials_required", ![s].ready = FALSE]
                     ELSE work

\* complete_hpo_study(require_trial_evidence): whatever the study's lifecycle is.
Completion(s) ==
    LET missing == ~study[s].trials
        active  == JobsIn(s, Active)
    IN  /\ study' = [study EXCEPT ![s].stage = "hpo_analysis"]
        /\ IF active = {}
             THEN Insert(s, Fresh(IF missing THEN "waiting_retry" ELSE "pending", missing))
             ELSE IF missing
                    THEN \E n \in Newest(active) :
                           job' = [job EXCEPT ![s][n] = Put(@, "waiting_retry", TRUE)]
                    ELSE job' = job
        /\ work' = IF missing
                     THEN [work EXCEPT ![s].code = "hpo_trials_required", ![s].ready = FALSE]
                     ELSE work

\* Slip: each split's periods are checked against the file, not the stored ones.
ConfigureSlip(s, r) ==
    /\ Disjoint(r)
    /\ routes' = [routes EXCEPT ![s] =
                    [role \in Roles |-> IF r[role] # NoPeriod THEN r[role] ELSE @[role]]]
    /\ UNCHANGED <<val, work>>

\* configure_hpo_validation_routes with the roles that r gives a period: the
\* file is checked against the stored routes; validation jobs of those splits,
\* and the optimizer if r routes it, become ready and lose their blocker.
Configure(s, r) ==
    LET given    == {role \in Roles : r[role] # NoPeriod}
        combined == [role \in Roles |-> IF role \in given THEN r[role] ELSE routes[s][role]]
    IN  /\ Disjoint(combined)
        /\ routes' = [routes EXCEPT ![s] = combined]
        /\ val' = [val EXCEPT ![s] = [p \in Splits |->
                     IF p \in given /\ @[p].state # "none"
                       THEN [@[p] EXCEPT !.ready = TRUE, !.route = r[p]] ELSE @[p]]]
        /\ work' = IF "hpo" \in given
                     THEN [work EXCEPT ![s].ready = TRUE, ![s].code = "none"] ELSE work

-----------------------------------------------------------------------------
Init ==
    /\ study = [s \in Studies |-> [stage |-> "none", trials |-> FALSE, selected |-> FALSE]]
    /\ work = [s \in Studies |-> [state |-> "none", code |-> "none", ready |-> TRUE,
                                  owner |-> Nobody]]
    /\ job = [s \in Studies |-> [n \in JobIds |-> Fresh("absent", FALSE)]]
    /\ routes = [s \in Studies |-> [role \in Roles |-> NoPeriod]]
    /\ val = [s \in Studies |-> [p \in Splits |->
                [state |-> "none", ready |-> FALSE, route |-> NoPeriod]]]
    /\ pc = [w \in Supervisors |-> "down"]
    /\ todo = [w \in Supervisors |-> {}]
    /\ lost = [w \in Supervisors |-> {}]
    /\ held = [w \in Supervisors |-> {}]
    /\ turn = [w \in Supervisors |-> Idle]
    /\ budget = [crash |-> MaxCrashes, overrun |-> MaxOverruns,
                 import |-> MaxImports, operator |-> MaxOperator]

\* schedule_hpo_candidate, called once the verdict hpo_candidate is durable.  The
\* optimizer's experiment inherits the routes of its parent, which may be none.
ScheduleCandidate(s) ==
    /\ study[s].stage = "none"
    /\ study' = [study EXCEPT ![s].stage = "hpo_scheduled"]
    /\ work' = [work EXCEPT ![s].state = "scheduled"]
    /\ \E p \in Periods \cup {NoPeriod} : routes' = [routes EXCEPT ![s]["hpo"] = p]
    /\ UNCHANGED <<job, val, main, turn, budget>>

-----------------------------------------------------------------------------
(* The main thread of a supervisor, in the order of run_round.               *)

Exit(w) ==
    /\ Goto(w, "down")
    /\ todo' = [todo EXCEPT ![w] = {}]
    /\ lost' = [lost EXCEPT ![w] = {}]
    /\ held' = [held EXCEPT ![w] = {}]

\* run: recover_abandoned_claims (whose two transactions WorkQueue tells apart).
Start(w) ==
    /\ At(w, "down") /\ turn[w].at = "idle"
    /\ work' = [s \in Studies |->
                  IF /\ work[s].state = "running" /\ work[s].owner = w
                     /\ work[s].code # "awaiting_batch_evaluation"
                    THEN [work[s] EXCEPT !.state = "ready", !.code = "abandoned_claim",
                                         !.owner = Nobody]
                    ELSE work[s]]
    /\ Goto(w, "recover")
    /\ UNCHANGED <<study, job, routes, val, todo, lost, held, turn, budget>>

\* Killed at any statement; the analysis thread dies with the process.
Crash(w) ==
    /\ ~At(w, "down")
    /\ Spend("crash")
    /\ Exit(w)
    /\ turn' = [turn EXCEPT ![w] = Idle]
    /\ UNCHANGED <<study, work, job, routes, val>>

\* recover_abandoned_hpo_analysis opens no transaction before its SELECT ...
SelectLost(w) ==
    /\ At(w, "recover")
    /\ lost' = [lost EXCEPT ![w] = {x \in Studies \X JobIds :
                                      LET j == job[x[1]][x[2]]
                                      IN  j.state = "running" /\ j.aged}]
    /\ Goto(w, "reset")
    /\ UNCHANGED <<study, work, job, routes, val, todo, held, turn, budget>>

\* Slip: nothing is recovered.
ResetSlip(w) ==
    /\ At(w, "reset")
    /\ lost' = [lost EXCEPT ![w] = {}]
    /\ Goto(w, "reconcile")
    /\ UNCHANGED <<study, work, job, routes, val, todo, held, turn, budget>>

\* ... and resets the listed jobs by id, whatever they have become.
ResetLost(w) ==
    /\ At(w, "reset")
    /\ job' = [s \in Studies |-> [n \in JobIds |->
                 IF <<s, n>> \in lost[w] THEN Put(job[s][n], "pending", FALSE)
                                         ELSE job[s][n]]]
    /\ lost' = [lost EXCEPT ![w] = {}]
    /\ Goto(w, "reconcile")
    /\ UNCHANGED <<study, work, routes, val, todo, held, turn, budget>>

\* Slip: nothing is found to be repaired.
ReconcileSlip(w) ==
    /\ At(w, "reconcile")
    /\ Goto(w, "handOver")
    /\ UNCHANGED <<study, work, job, routes, val, todo, lost, held, turn, budget>>

\* reconcile_finished_hpo_work lists the studies left running by a crash ...
Reconcile(w) ==
    /\ At(w, "reconcile")
    /\ todo' = [todo EXCEPT ![w] = {s \in Studies : /\ study[s].stage = "hpo_running"
                                                    /\ work[s].state = "finished"}]
    /\ Goto(w, "handOver")
    /\ UNCHANGED <<study, work, job, routes, val, lost, held, turn, budget>>

\* ... and completes them one by one.
HandOver(w) ==
    /\ At(w, "handOver")
    /\ \/ /\ \E s \in todo[w] : Completion(s) /\ todo' = [todo EXCEPT ![w] = @ \ {s}]
          /\ UNCHANGED pc
       \/ /\ todo[w] = {} /\ Goto(w, "defaults")
          /\ UNCHANGED <<study, job, work, todo>>
    /\ UNCHANGED <<routes, val, lost, held, turn, budget>>

NeedsDefaults(s) ==
    /\ study[s].stage = "hpo_scheduled"
    /\ work[s].state \in {"scheduled", "ready", "running"}
    /\ \A role \in Roles : routes[s][role] = NoPeriod

\* _apply_default_hpo_routes lists the untouched studies ...
SelectDefaults(w) ==
    /\ At(w, "defaults")
    /\ todo' = [todo EXCEPT ![w] = {s \in Studies : NeedsDefaults(s)}]
    /\ Goto(w, "configure")
    /\ UNCHANGED <<study, work, job, routes, val, lost, held, turn, budget>>

\* ... configure_default_hpo_routes looks at each once more, raising out of the
\* round if it has been touched ...
CheckDefaults(w) ==
    /\ At(w, "configure")
    /\ \/ \E s \in todo[w] : \/ /\ NeedsDefaults(s) /\ Goto(w, "write")
                                /\ UNCHANGED <<todo, lost, held>>
                             \/ ~NeedsDefaults(s) /\ Exit(w)
       \/ todo[w] = {} /\ Goto(w, "mark") /\ UNCHANGED <<todo, lost, held>>
    /\ UNCHANGED <<study, work, job, routes, val, turn, budget>>

\* ... and writes the default policy in a transaction of its own.
WriteDefaults(w) ==
    /\ At(w, "write")
    /\ \E s \in todo[w] : /\ Configure(s, DefaultRoutes)
                          /\ todo' = [todo EXCEPT ![w] = @ \ {s}]
    /\ Goto(w, "configure")
    /\ UNCHANGED <<study, job, lost, held, turn, budget>>

Unroutable(s) == work[s].state \in {"scheduled", "ready"} /\ routes[s]["hpo"] = NoPeriod

\* mark_unroutable_hpo_requirements_pending
MarkUnroutable(w) ==
    /\ At(w, "mark")
    /\ work' = [s \in Studies |->
                  IF Unroutable(s)
                    THEN [work[s] EXCEPT !.ready = FALSE, !.code = "requirements_pending"]
                    ELSE work[s]]
    /\ study' = [s \in Studies |->
                  IF Unroutable(s) /\ study[s].stage = "hpo_running"
                    THEN [study[s] EXCEPT !.stage = "hpo_scheduled"] ELSE study[s]]
    /\ Goto(w, "promote")
    /\ UNCHANGED <<job, routes, val, todo, lost, held, turn, budget>>

\* promote_due_retries and promote_scheduled_runnable; which of the runnable rows
\* fit the ready capacity depends on the rest of the queue.
Promote(w) ==
    /\ At(w, "promote")
    /\ \E S \in SUBSET {s \in Studies : work[s].state = "scheduled" /\ work[s].ready} :
         work' = [s \in Studies |->
                    IF s \in S \/ work[s].state = "waiting_retry"
                      THEN [work[s] EXCEPT !.state = "ready"] ELSE work[s]]
    /\ \E V \in SUBSET {x \in Studies \X Splits :
                          /\ val[x[1]][x[2]].state = "scheduled" /\ val[x[1]][x[2]].ready
                          /\ work[x[1]].state = "finished"} :
         val' = [s \in Studies |-> [p \in Splits |->
                   IF <<s, p>> \in V THEN [val[s][p] EXCEPT !.state = "ready"]
                                     ELSE val[s][p]]]
    /\ Goto(w, "claimJob")
    /\ UNCHANGED <<study, job, routes, todo, lost, held, turn, budget>>

Claimable(s, n) ==
    \/ job[s][n].state = "pending"
    \/ job[s][n].state = "waiting_retry" /\ ~job[s][n].parked

\* Slip: the SELECT does not filter by state, so completed and parked jobs are claimed.
ClaimJobSlip(w) ==
    /\ At(w, "claimJob")
    /\ \/ /\ turn[w].at = "idle"
          /\ \E s \in Studies, n \in JobIds :
               /\ job[s][n].state \in {"pending", "waiting_retry", "completed"}
               /\ job' = [job EXCEPT ![s][n] = Claimed(@)]
               /\ turn' = [turn EXCEPT ![w] = Doing("payload", s, n)]
       \/ UNCHANGED <<job, turn>>
    /\ Goto(w, "claim")
    /\ UNCHANGED <<study, work, routes, val, todo, lost, held, budget>>

\* claim_hpo_analysis, tried while no analysis is under way; the analysis thread
\* is handed the claimed job.
ClaimJob(w) ==
    /\ At(w, "claimJob")
    /\ \/ /\ turn[w].at = "idle"
          /\ \E s \in Studies, n \in JobIds :
               /\ Claimable(s, n)
               /\ job' = [job EXCEPT ![s][n] = Claimed(@)]
               /\ turn' = [turn EXCEPT ![w] = Doing("payload", s, n)]
       \/ /\ turn[w].at # "idle" \/ \A s \in Studies, n \in JobIds : ~Claimable(s, n)
          /\ UNCHANGED <<job, turn>>
    /\ Goto(w, "claim")
    /\ UNCHANGED <<study, work, routes, val, todo, lost, held, budget>>

\* claim_batch; which rows it takes depends on the rest of the queue.
ClaimWork(w) ==
    /\ At(w, "claim")
    /\ \E S \in SUBSET {s \in Studies : work[s].state = "ready" /\ work[s].ready} :
         /\ work' = [s \in Studies |->
                       IF s \in S THEN [work[s] EXCEPT !.state = "running", !.code = "none",
                                                       !.owner = w]
                                  ELSE work[s]]
         /\ held' = [held EXCEPT ![w] = S]
         /\ Goto(w, IF S = {} THEN "recover" ELSE "read")
    /\ UNCHANGED <<study, job, routes, val, todo, lost, turn, budget>>

\* _execute reads the lifecycle of the claimed studies ...
ReadStages(w) ==
    /\ At(w, "read")
    /\ todo' = [todo EXCEPT ![w] = {s \in held[w] : study[s].stage = "hpo_scheduled"}]
    /\ Goto(w, "start")
    /\ UNCHANGED <<study, work, job, routes, val, lost, held, turn, budget>>

\* ... and start_hpo_study raises on one that has moved on since.
StartStudy(w) ==
    /\ At(w, "start")
    /\ \/ \E s \in todo[w] :
            \/ /\ study[s].stage = "hpo_scheduled"
               /\ study' = [study EXCEPT ![s].stage = "hpo_running"]
               /\ todo' = [todo EXCEPT ![w] = @ \ {s}]
               /\ UNCHANGED <<pc, lost, held>>
            \/ study[s].stage # "hpo_scheduled" /\ Exit(w) /\ UNCHANGED study
       \/ todo[w] = {} /\ Goto(w, "execute") /\ UNCHANGED <<study, todo, lost, held>>
    /\ UNCHANGED <<work, job, routes, val, turn, budget>>

Settle(w, s) ==
    /\ held' = [held EXCEPT ![w] = @ \ {s}]
    /\ Goto(w, IF held[w] = {s} THEN "recover" ELSE "execute")

\* A completed optimizer run: the run is stored first ...
RunCompletes(w, s) ==
    /\ At(w, "execute") /\ s \in held[w]
    /\ todo' = [todo EXCEPT ![w] = {s}]
    /\ Goto(w, "complete")
    /\ UNCHANGED <<study, work, job, routes, val, lost, held, turn, budget>>

\* ... then the study is handed to analysis ...
CompleteStudy(w) ==
    /\ At(w, "complete")
    /\ \E s \in todo[w] : Completion(s)
    /\ Goto(w, "finish")
    /\ UNCHANGED <<routes, val, todo, lost, held, turn, budget>>

\* ... then the item finishes, which clears its blocker columns; a row that is
\* neither running nor finished raises out of the round.
FinishWork(w) ==
    /\ At(w, "finish")
    /\ \E s \in todo[w] :
         \/ /\ work[s].state \in {"running", "finished"}
            /\ work' = IF work[s].state = "finished" THEN work
                       ELSE [work EXCEPT ![s] = [@ EXCEPT !.state = "finished",
                                                          !.code = "none", !.owner = Nobody]]
            /\ todo' = [todo EXCEPT ![w] = {}]
            /\ Settle(w, s)
            /\ UNCHANGED lost
         \/ work[s].state \notin {"running", "finished"} /\ Exit(w) /\ UNCHANGED work
    /\ UNCHANGED <<study, job, routes, val, turn, budget>>

\* The other results: the failure is recorded for the analysis thread, or the item
\* is deferred; a row that is no longer running raises.
RunFails(w, s) ==
    /\ At(w, "execute") /\ s \in held[w]
    /\ \/ /\ work[s].state = "running"
          /\ work' = [work EXCEPT ![s] = [@ EXCEPT !.code = "awaiting_batch_evaluation",
                                                   !.owner = w]]
          /\ Settle(w, s) /\ UNCHANGED <<todo, lost>>
       \/ /\ work[s].state = "running"
          /\ work' = [work EXCEPT ![s] = [@ EXCEPT !.state = "waiting_retry",
                                                   !.code = "execution_failure",
                                                   !.owner = Nobody]]
          /\ Settle(w, s) /\ UNCHANGED <<todo, lost>>
       \/ work[s].state # "running" /\ Exit(w) /\ UNCHANGED work
    /\ UNCHANGED <<study, job, routes, val, turn, budget>>

Step(w) ==
    \/ Start(w) \/ SelectLost(w) \/ ResetLost(w) \/ Reconcile(w) \/ HandOver(w)
    \/ SelectDefaults(w) \/ CheckDefaults(w) \/ WriteDefaults(w) \/ MarkUnroutable(w)
    \/ Promote(w) \/ ClaimJob(w) \/ ClaimWork(w) \/ ReadStages(w) \/ StartStudy(w)
    \/ \E s \in Studies : RunCompletes(w, s) \/ RunFails(w, s)
    \/ CompleteStudy(w) \/ FinishWork(w)

-----------------------------------------------------------------------------
(* The analysis thread of a supervisor.                                      *)

Turning(w, label) == turn[w].at = label

Now(w) == job[turn[w].study][turn[w].id]

Think(w, t) == turn' = [turn EXCEPT ![w] = t]

\* A recorded failure gets its verdict and finishes the item ...
JudgeFailure(w) ==
    /\ Turning(w, "idle") /\ ~At(w, "down")
    /\ \E s \in Studies :
         /\ work[s].state = "running" /\ work[s].code = "awaiting_batch_evaluation"
         /\ work[s].owner = w
         /\ work' = [work EXCEPT ![s] = [@ EXCEPT !.state = "finished", !.code = "none",
                                                  !.owner = Nobody]]
         /\ Think(w, Doing("park", s, 0))
    /\ UNCHANGED <<study, job, routes, val, main, budget>>

\* ... and, in the next transaction, the study is parked for external trials.
ParkFailed(w) ==
    /\ Turning(w, "park")
    /\ Completion(turn[w].study)
    /\ Think(w, Idle)
    /\ UNCHANGED <<routes, val, main, budget>>

\* _analyze_hpo_job: without a completed trial there is nothing to analyze.  The
\* selection it goes on with is the one it read here.
ReadPayload(w) ==
    /\ Turning(w, "payload")
    /\ Think(w, [turn[w] EXCEPT !.at = IF study[turn[w].study].trials THEN "dispatch"
                                                                      ELSE "fail",
                                !.saw = study[turn[w].study].selected])
    /\ UNCHANGED <<study, work, job, routes, val, main, budget>>

\* The analyzer's answer is valid, and evaluated, or it is not.
Answer(w) ==
    /\ Turning(w, "dispatch")
    /\ \E label \in {"decide", "fail"} : Think(w, [turn[w] EXCEPT !.at = label])
    /\ UNCHANGED <<study, work, job, routes, val, main, budget>>

\* retry_hpo_analysis: no look at the job's state.
FailJob(w) ==
    /\ Turning(w, "fail")
    /\ job' = [job EXCEPT ![turn[w].study][turn[w].id] =
                 Put(@, IF @.attempts >= MaxAnalyses THEN "terminal" ELSE "waiting_retry",
                     FALSE)]
    /\ Think(w, Idle)
    /\ UNCHANGED <<study, work, routes, val, main, budget>>

\* schedule_hpo_validations: the experiments of the validations are copies of the
\* optimizer's, its routes included; running jobs of the study are completed.  A
\* selection replaced since it was read raises, and the job stays running.
ScheduleValidations(w) ==
    /\ Turning(w, "decide") /\ turn[w].saw
    /\ LET s == turn[w].study
       IN  \/ /\ study[s].selected
              /\ val' = [val EXCEPT ![s] = [p \in Splits |->
                   IF @[p].state = "none"
                     THEN [state |-> "scheduled", ready |-> routes[s][p] # NoPeriod,
                           route |-> routes[s]["hpo"]]
                     ELSE IF @[p].state = "scheduled"
                            THEN [@[p] EXCEPT !.ready = routes[s][p] # NoPeriod]
                            ELSE @[p]]]
              /\ study' = [study EXCEPT ![s].stage = "validation"]
              /\ job' = [job EXCEPT ![s] = [n \in JobIds |->
                   IF @[n].state = "running" THEN Put(@[n], "completed", FALSE) ELSE @[n]]]
           \/ ~study[s].selected /\ UNCHANGED <<val, study, job>>
    /\ Think(w, Idle)
    /\ UNCHANGED <<work, routes, main, budget>>

\* terminalize_hpo_analysis: disposition, job and lifecycle in one transaction.
Terminalize(w) ==
    /\ Turning(w, "decide") /\ ~turn[w].saw
    /\ LET s == turn[w].study
       IN  /\ job' = [job EXCEPT ![s][turn[w].id] = Put(@, "completed", FALSE)]
           /\ \E disposition \in {"revise", "reject"} :
                study' = [study EXCEPT ![s].stage = disposition]
    /\ Think(w, Idle)
    /\ UNCHANGED <<work, routes, val, main, budget>>

Analyze(w) ==
    \/ JudgeFailure(w) \/ ParkFailed(w) \/ ReadPayload(w) \/ Answer(w)
    \/ FailJob(w) \/ ScheduleValidations(w) \/ Terminalize(w)

-----------------------------------------------------------------------------
(* The operator, the optimizer outside the laboratory, and time.             *)

Importable == {"hpo_scheduled", "hpo_running", "hpo_analysis"}

\* The job part of an import: completed trials reopen the newest job, unless it
\* is pending or being analyzed; without a job one is queued.
Reopen(s, complete) ==
    LET known == JobsIn(s, Active \cup {"terminal"})
    IN  IF known = {} THEN Insert(s, Fresh("pending", FALSE))
        ELSE \E n \in Newest(known) :
               job' = IF complete /\ job[s][n].state \in {"waiting_retry", "terminal"}
                        THEN [job EXCEPT ![s][n] = Put(@, "pending", FALSE)]
                        ELSE job

\* A Jesse export is refused unless every trial is complete; an Optuna study is
\* read whatever its trials have come to.
JesseExports  == {TRUE}
OptunaStudies == BOOLEAN

\* The trials of a study are those of one optimizer run, which never takes back a
\* completed one; the selection is replaced by that of the classifications file.
ImportTrials(s, complete) ==
    /\ study[s].trials => complete
    /\ \E chosen \in BOOLEAN :
         study' = [study EXCEPT ![s] = [stage |-> "hpo_analysis", trials |-> complete,
                                        selected |-> chosen /\ complete]]

\* The optimizer item is finished, without being unclaimed, so that the optimizer
\* does not run again.
FinishImported(s, complete) ==
    LET row    == work[s]
        parked == row.code = "hpo_trials_required"
    IN  work' = IF /\ complete
                   /\ parked \/ row.state \in {"scheduled", "ready", "running", "waiting_retry"}
                  THEN [work EXCEPT ![s] = [row EXCEPT !.state = "finished", !.ready = TRUE,
                                              !.code = IF parked THEN "none" ELSE @]]
                  ELSE work

\* hpo-import and hpo-import-jesse-session, in one transaction.
Import(s) ==
    /\ study[s].stage \in Importable
    /\ Spend("import")
    /\ \E complete \in JesseExports \cup OptunaStudies :
         /\ ImportTrials(s, complete)
         /\ Reopen(s, complete)
         /\ FinishImported(s, complete)
    /\ UNCHANGED <<routes, val, main, turn>>

\* requeue_terminal_hpo_analysis
RequeueAnalysis(s, n) ==
    /\ job[s][n].state = "terminal"
    /\ Spend("operator")
    /\ job' = [job EXCEPT ![s][n] = Fresh("pending", FALSE)]
    /\ study' = [study EXCEPT ![s].stage = "hpo_analysis"]
    /\ UNCHANGED <<work, routes, val, main, turn>>

\* requeue_hpo_execution; the parked analysis job stays.
RequeueExecution(s) ==
    /\ study[s].stage = "hpo_analysis" /\ ~study[s].trials
    /\ work[s].code = "hpo_trials_required"
    /\ Spend("operator")
    /\ work' = [work EXCEPT ![s] = [state |-> "ready", code |-> "none", ready |-> TRUE,
                                    owner |-> Nobody]]
    /\ study' = [study EXCEPT ![s].stage = "hpo_scheduled"]
    /\ UNCHANGED <<job, routes, val, main, turn>>

\* configure-hpo-validation-routes with a file that routes some of the roles.
ConfigureRoutes(s) ==
    /\ study[s].stage # "none"
    /\ Spend("operator")
    /\ \E r \in [Roles -> Periods \cup {NoPeriod}] :
         /\ \E role \in Roles : r[role] # NoPeriod
         /\ Configure(s, r)
    /\ UNCHANGED <<study, job, main, turn>>

\* hpo-defaults --apply does what the supervisors do with an untouched study.
ApplyDefaults(s) ==
    /\ NeedsDefaults(s)
    /\ Spend("operator")
    /\ Configure(s, DefaultRoutes)
    /\ UNCHANGED <<study, job, main, turn>>

\* A validation is claimed, executed and finished like any other work item.
RunValidation(s, p) ==
    /\ val[s][p].state = "ready" /\ val[s][p].ready
    /\ val' = [val EXCEPT ![s][p].state = "finished"]
    /\ UNCHANGED <<study, work, job, routes, main, turn, budget>>

Analyzing(s, n) == \E w \in Supervisors : /\ turn[w].study = s /\ turn[w].id = n
                                          /\ turn[w].at # "idle"

\* A claim gets older than claim_timeout_seconds: an abandoned one sooner or later,
\* one whose analysis is still under way by overrunning its time.
ClaimAges(s, n) ==
    /\ job[s][n].state = "running" /\ ~job[s][n].aged
    /\ IF Analyzing(s, n) THEN Spend("overrun") ELSE UNCHANGED budget
    /\ job' = [job EXCEPT ![s][n].aged = TRUE]
    /\ UNCHANGED <<study, work, routes, val, main, turn>>

Operate ==
    \E s \in Studies :
        \/ Import(s) \/ RequeueExecution(s) \/ ConfigureRoutes(s) \/ ApplyDefaults(s)
        \/ \E n \in JobIds : RequeueAnalysis(s, n)

Next ==
    \/ \E w \in Supervisors : Step(w) \/ Analyze(w) \/ Crash(w)
    \/ Operate
    \/ \E s \in Studies : \/ ScheduleCandidate(s)
                          \/ \E p \in Splits : RunValidation(s, p)
                          \/ \E n \in JobIds : ClaimAges(s, n)

Spec == Init /\ [][Next]_vars

\* Both threads of a live supervisor keep running, a stopped one is restarted, and
\* time passes.  Nothing is assumed of crashes, of the operator or of overruns.
Fairness ==
    /\ \A w \in Supervisors : WF_vars(Step(w)) /\ WF_vars(Analyze(w))
    /\ \A s \in Studies, n \in JobIds : WF_vars(ClaimAges(s, n) /\ ~Analyzing(s, n))

FairSpec == Spec /\ Fairness

-----------------------------------------------------------------------------
(* Properties.                                                               *)

\* Every row, thread and bound keeps its shape.
TypeOK ==
    /\ study \in [Studies -> Study]
    /\ work \in [Studies -> Work]
    /\ job \in [Studies -> [JobIds -> Job]]
    /\ routes \in [Studies -> [Roles -> Periods \cup {NoPeriod}]]
    /\ val \in [Studies -> [Splits -> Validation]]
    /\ pc \in [Supervisors -> PCs]
    /\ todo \in [Supervisors -> SUBSET Studies]
    /\ lost \in [Supervisors -> SUBSET (Studies \X JobIds)]
    /\ held \in [Supervisors -> SUBSET Studies]
    /\ turn \in [Supervisors -> Turn]
    /\ budget \in [Bounds -> Nat]

\* A study in hpo_analysis always has a job that is not completed: four handlers
\* set that lifecycle without looking at the old one, two complete jobs, and a
\* study without a job would be invisible to claim and requeue alike.
AnalysisHasJob ==
    \A s \in Studies : study[s].stage = "hpo_analysis" =>
                         JobsIn(s, Active \cup {"terminal"}) # {}

\* A job without a retry time is never due again, so none may be left once the
\* study has completed trials, however import, execution, recovery of lost
\* analyses and requeues interleave.
ParkedHasNoTrials ==
    \A s \in Studies, n \in JobIds :
        job[s][n].state = "waiting_retry" /\ job[s][n].parked => ~study[s].trials

\* Over any sequence of partial route files and default policies, the optimizer's
\* period is not one of those that validate its trials.
PartitionsDisjoint == \A s \in Studies : Disjoint(routes[s])

\* A validation is only promoted, or executed, once periods for its split are
\* known: those of another split release nothing.
ValidationsAreRouted ==
    \A s \in Studies, p \in Splits :
        val[s][p].ready \/ val[s][p].state \in {"ready", "finished"} =>
            routes[s][p] # NoPeriod

\* As long as the only supervisor has no analysis overrun and the operator has not
\* requeued or rerouted anything, a decision about a study is never taken again
\* or replaced: not by the retry of an analysis, the recovery of lost ones or a
\* late hand-over.  Only the result of an execution that an import has overtaken
\* reopens it.
DecisionStands ==
    [][\A s \in Studies :
          /\ Cardinality(Supervisors) = 1 /\ budget["overrun"] = MaxOverruns
          /\ budget["operator"] = MaxOperator
          /\ study[s].stage \in Decided /\ study'[s].stage # study[s].stage
          => \/ budget'["operator"] < budget["operator"]
             \/ \E w \in Supervisors : s \in held[w]]_vars

\* Whatever transaction a crash separates it from, the study of a finished
\* optimizer item does not stay hpo_running.
FinishedIsHandedOver ==
    \A s \in Studies :
        work[s].state = "finished" /\ study[s].stage = "hpo_running"
            ~> study[s].stage # "hpo_running"

\* A study with completed trials is decided, or its job is terminal and reported
\* to the operator, after any crash of its analysis.
TrialsAreAnalyzed ==
    \A s \in Studies :
        study[s].stage = "hpo_analysis" /\ study[s].trials
            ~> study[s].stage \in Decided \/ JobsIn(s, {"terminal"}) # {}

-----------------------------------------------------------------------------
(* What the repository says of the program and the code does not do.         *)

\* README.md:35-37, studies are routed "to training/OOS/rolling splits" and their
\* selected trials validated: no validation runs on the optimizer's own period.
ValidatedOnUnseenPeriod ==
    \A s \in Studies, p \in Splits :
        val[s][p].state \in {"ready", "finished"} => val[s][p].route # routes[s]["hpo"]

=============================================================================
