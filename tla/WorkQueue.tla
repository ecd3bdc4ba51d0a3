------------------------------ MODULE WorkQueue ------------------------------
(***************************************************************************)
(* The life of a work item: rows of `work_items` in the SQLite workflow    *)
(* database, claimed, executed, retried, recovered and evaluated by         *)
(* processes that share nothing but that database.                          *)
(*                                                                         *)
(* Two kinds of process claim work.  A BatchSupervisor (supervisor.py)      *)
(* claims a batch, executes it, and hands completed runs to an analysis     *)
(* thread of its own.  A Worker (worker.py) claims one item at a time and   *)
(* persists run and verdict together, if the operation is one that it knows  *)
(* to have evidence.  Every method of the database is one transaction and one *)
(* action here, except the two that SELECT in one transaction and UPDATE in   *)
(* another (recover_abandoned_claims and recover_stale_unexecuted_claims),    *)
(* which are two actions each.                                              *)
(*                                                                         *)
(* Operators named ...Slip are wrong on purpose: each is the definition       *)
(* below it with one plausible mistake, which the properties must notice.     *)
(***************************************************************************)
EXTENDS Naturals, FiniteSets

CONSTANTS
    Items,            \* work-item ids
    Supervisors,      \* worker ids used by BatchSupervisor processes
    SoloWorkers,      \* worker ids used by single-item Worker processes
    NoWorker,         \* claimed_by IS NULL
    HpoItems,         \* items whose operation is hpo
    GatedItems,       \* items whose finished evidence a lifecycle or quality gate decides
    PlainItems,       \* items whose operation a Worker may not know, as cost_sensitivity
    LegacyItems,      \* items an old import may have left blocked
    MaxAttempts,      \* max_attempts of both process kinds
    BatchLimit,       \* execution_batch_size
    ActiveLimit,      \* active_ready_limit
    CohortMin,        \* analysis_cohort_min
    MaxCrashes,       \* bound: processes killed
    MaxAgings,        \* bound: claims that outlive claim_timeout_seconds
    MaxDeferrals,     \* bound: retries charged to infrastructure, not to the item
    MaxOperator       \* bound: interventions of the operator

Workers == Supervisors \cup SoloWorkers

ASSUME QueueAssumption ==
    /\ NoWorker \notin Workers
    /\ IsFiniteSet(Items) /\ IsFiniteSet(Workers)
    /\ Supervisors \cap SoloWorkers = {}
    /\ HpoItems \subseteq Items /\ GatedItems \subseteq Items
    /\ PlainItems \subseteq Items \ HpoItems /\ LegacyItems \subseteq Items
    /\ MaxAttempts \in Nat \ {0, 1}
    /\ BatchLimit \in Nat \ {0} /\ ActiveLimit \in Nat \ {0}
    /\ CohortMin \in Nat \ {0}
    /\ MaxCrashes \in Nat /\ MaxAgings \in Nat
    /\ MaxDeferrals \in Nat /\ MaxOperator \in Nat

VARIABLES
    item,     \* the work_items rows
    runs,     \* per item: is a finished run stored, and what is the latest run
    judged,   \* the evaluation recorded since the item's latest run, if any
    pc,       \* per process: the next statement of its main thread
    sel,      \* per process: ids read by an earlier SELECT and still to be used
    held,     \* per process: claimed items whose result is not yet applied
    snap,     \* per process: attempts of a held item as the claim returned it
    noted,    \* per process: items this batch left awaiting evaluation
    cohort,   \* per process: rows its analysis thread still has to settle
    settled,  \* per process: rows that thread finalized in its current attempt
    retried,  \* per process: is that attempt the second one
    report,   \* rows an operator's reconciliation has listed, with their target
    budget    \* what is left of each bound

rows  == <<item, runs, judged>>
local == <<pc, sel, held, snap, noted>>
analysis == <<cohort, settled, retried>>
vars  == <<item, runs, judged, pc, sel, held, snap, noted, cohort, settled, retried,
           report, budget>>

States == {"scheduled", "ready", "running", "waiting_retry", "blocked",
           "finished", "archived"}

Codes == {"none", "awaiting_batch_evaluation", "stale_claim_recovered",
          "abandoned_claim", "execution_failure", "retry_limit_reached",
          "operator_requirement", "analyzer_retry_exhausted",
          "stale_worker_claim", "legacy_blocked", "legacy_history"}

PCs == {"down", "abandon", "round", "submit", "stale", "applyStale", "failures",
        "record", "failSnapshot", "failSubmit", "due", "promote", "claim",
        "execute", "handoff", "evaluate", "finish", "undo", "tail", "tailSubmit"}

Bounds == {"crash", "age", "defer", "operator"}

\* `aged` abstracts claimed_at < cutoff, `later` abstracts retry_after > now, and
\* `plain` an operation that a Worker stores no evidence of.
Row == [state : States, blocker : Codes, owner : Workers \cup {NoWorker},
        aged : BOOLEAN, later : BOOLEAN, attempts : Nat, plain : BOOLEAN]

Evidence == [finished : BOOLEAN, last : {"none", "finished", "stopped"}]

-----------------------------------------------------------------------------
(* Rows and the updates that every handler shares. *)

Running(i)  == item[i].state = "running"
Awaiting(i) == Running(i) /\ item[i].blocker = "awaiting_batch_evaluation"

InState(s)  == {i \in Items : item[i].state = s}

\* Slip: the blocker code survives the end of the claim.
CodeKeptSlip(r, state, code) == [r EXCEPT !.state = state, !.owner = NoWorker, !.aged = FALSE]

\* The columns every UPDATE that ends a claim rewrites.
Unclaimed(r, state, code) ==
    [r EXCEPT !.state = state, !.blocker = code, !.owner = NoWorker, !.aged = FALSE]

\* _transition_work_item_row: a move to waiting_retry charges one attempt.
Moved(r, target, code) ==
    IF target = "waiting_retry"
      THEN [Unclaimed(r, target, code) EXCEPT !.later = TRUE, !.attempts = @ + 1]
      ELSE [Unclaimed(r, target, code) EXCEPT !.later = FALSE]

\* Slip: the attempt is handed back, although it had not been charged.
RefundSlip(r) == [Unclaimed(r, "waiting_retry", "execution_failure") EXCEPT
                    !.later = TRUE, !.attempts = @ - 1]

\* The row a failure of the infrastructure leaves: no attempt is charged.
Deferred(r) ==
    [Unclaimed(r, "waiting_retry", "execution_failure") EXCEPT !.later = TRUE]

\* transition_work_item returns for these rows and raises for the others.
CanTransition(i, target, from) == item[i].state \in from \cup {target}

\* Being in the target state already is a no-op; no claim owner is compared.
Transition(i, target, from, code) ==
    /\ CanTransition(i, target, from)
    /\ item' = IF item[i].state = target
                 THEN item
                 ELSE [item EXCEPT ![i] = Moved(@, target, code)]

Claimed(r, w, code) ==
    [r EXCEPT !.state = "running", !.owner = w, !.aged = FALSE, !.blocker = code]

Spend(b) == budget[b] > 0 /\ budget' = [budget EXCEPT ![b] = @ - 1]

\* The process ends; claims it holds stay in the database.
Exit(w) ==
    /\ pc' = [pc EXCEPT ![w] = "down"]
    /\ sel' = [sel EXCEPT ![w] = {}]
    /\ held' = [held EXCEPT ![w] = {}]
    /\ snap' = [snap EXCEPT ![w] = [i \in Items |-> 0]]
    /\ noted' = [noted EXCEPT ![w] = {}]

\* What an analysis turn has left to do; without rows it is over.
Remaining(w, left, done, again) ==
    /\ cohort' = [cohort EXCEPT ![w] = left]
    /\ settled' = [settled EXCEPT ![w] = IF left = {} THEN {} ELSE done]
    /\ retried' = [retried EXCEPT ![w] = left # {} /\ again]

Goto(w, label) == pc' = [pc EXCEPT ![w] = label]

At(w, label) == pc[w] = label

-----------------------------------------------------------------------------
NewRow(state, code, plain) ==
    [state |-> state, blocker |-> code, owner |-> NoWorker, aged |-> FALSE,
     later |-> FALSE, attempts |-> 0, plain |-> plain]

\* An import may leave a row blocked, and evidence that it found beside it.
Init ==
    /\ \E plain \in SUBSET PlainItems, old \in SUBSET LegacyItems, known \in SUBSET LegacyItems :
         /\ known \subseteq old
         /\ item = [i \in Items |->
                     IF i \in old THEN NewRow("blocked", "legacy_blocked", i \in plain)
                                  ELSE NewRow("scheduled", "none", i \in plain)]
         /\ runs = [i \in Items |-> IF i \in known
                                      THEN [finished |-> TRUE, last |-> "finished"]
                                      ELSE [finished |-> FALSE, last |-> "none"]]
         /\ judged \in [Items -> {"none", "verdict"}]
         /\ \A i \in Items \ known : judged[i] = "none"
    /\ pc = [w \in Workers |-> "down"]
    /\ sel = [w \in Workers |-> {}]
    /\ held = [w \in Workers |-> {}]
    /\ snap = [w \in Workers |-> [i \in Items |-> 0]]
    /\ noted = [w \in Workers |-> {}]
    /\ cohort = [w \in Workers |-> {}]
    /\ settled = [w \in Workers |-> {}]
    /\ retried = [w \in Workers |-> FALSE]
    /\ report = {}
    /\ budget = [crash |-> MaxCrashes, age |-> MaxAgings,
                 defer |-> MaxDeferrals, operator |-> MaxOperator]

-----------------------------------------------------------------------------
(* Process start, claim recovery, end of a process.                        *)

\* Slip: the claims of completed executions are recovered too.
AwaitingSlip(w) ==
    /\ At(w, "down") /\ cohort[w] = {}
    /\ sel' = [sel EXCEPT ![w] = {i \in Items : Running(i) /\ item[i].owner = w}]
    /\ Goto(w, "abandon")
    /\ UNCHANGED <<rows, held, snap, noted, analysis, report, budget>>

\* A process starts once the previous one with its id is gone, its analysis
\* thread included.  The SELECT of recover_abandoned_claims is autocommitted.
Start(w) ==
    /\ At(w, "down") /\ cohort[w] = {}
    /\ sel' = [sel EXCEPT ![w] = {i \in Items : /\ Running(i) /\ ~Awaiting(i)
                                                /\ item[i].owner = w}]
    /\ Goto(w, "abandon")
    /\ UNCHANGED <<rows, held, snap, noted, analysis, report, budget>>

\* Its UPDATE re-checks the state, not the owner.
RecoverAbandoned(w) ==
    /\ At(w, "abandon")
    /\ item' = [i \in Items |->
                  IF i \in sel[w] /\ Running(i)
                    THEN Unclaimed(item[i], "ready", "abandoned_claim")
                    ELSE item[i]]
    /\ sel' = [sel EXCEPT ![w] = {}]
    /\ Goto(w, IF w \in Supervisors THEN "round" ELSE "due")
    /\ UNCHANGED <<runs, judged, held, snap, noted, analysis, report, budget>>

\* Killed at any statement: the analysis thread dies with the process.
Crash(w) ==
    /\ ~At(w, "down")
    /\ Spend("crash")
    /\ Exit(w)
    /\ Remaining(w, {}, {}, FALSE)
    /\ UNCHANGED <<rows, report>>

\* A stop request ends the process before its next recovery or claim; the
\* analysis thread is waited for.
Stop(w) ==
    /\ At(w, "round") /\ w \in Supervisors
    /\ Spend("operator")
    /\ Exit(w)
    /\ UNCHANGED <<rows, analysis, report>>

\* Slip: the age of the claim is not looked at.
AgeSlip(w) ==
    /\ At(w, "stale")
    /\ sel' = [sel EXCEPT ![w] = {i \in Items : /\ Running(i) /\ ~Awaiting(i)
                                                /\ ~runs[i].finished}]
    /\ Goto(w, "applyStale")
    /\ UNCHANGED <<rows, held, snap, noted, analysis, report, budget>>

\* The read half of recover_stale_unexecuted_claims.
SelectStale(w) ==
    /\ At(w, "stale")
    /\ sel' = [sel EXCEPT ![w] = {i \in Items : /\ Running(i) /\ ~Awaiting(i)
                                                /\ item[i].aged
                                                /\ ~runs[i].finished}]
    /\ Goto(w, "applyStale")
    /\ UNCHANGED <<rows, held, snap, noted, analysis, report, budget>>

\* The write half, in a transaction of its own, re-checks only the state.
ApplyStale(w) ==
    /\ At(w, "applyStale")
    /\ item' = [i \in Items |->
                  IF i \in sel[w] /\ Running(i)
                    THEN Unclaimed(item[i], "ready", "stale_claim_recovered")
                    ELSE item[i]]
    /\ sel' = [sel EXCEPT ![w] = {}]
    /\ Goto(w, "failures")
    /\ UNCHANGED <<runs, judged, held, snap, noted, analysis, report, budget>>

\* An unhealthy stack ends the round before any recovery or claim.
PreflightBlocks(w) ==
    /\ At(w, "stale")
    /\ Spend("defer")
    /\ Goto(w, "round")
    /\ UNCHANGED <<rows, sel, held, snap, noted, analysis, report>>

-----------------------------------------------------------------------------
(* Submitting completed executions to the analysis thread.                  *)

\* pending_batch_evaluation(worker_id)
Pending(w) == {i \in Items : /\ Awaiting(i) /\ item[i].owner = w
                             /\ ~item[i].later}

\* A row whose verdict needs no model turn.
Deterministic(i) == runs[i].last = "stopped" \/ i \in GatedItems

\* _analysis_ready_rows: hpo and deterministic rows at once, the others only
\* when the ordinary rows reach the minimum cohort.
AnalysisReady(pending) ==
    {i \in pending : \/ i \in HpoItems \/ Deterministic(i)
                     \/ Cardinality(pending \ HpoItems) >= CohortMin}

\* The rows a failure recovery looks at are those of its own batch only.
Snapshot(w) ==
    /\ pc[w] \in {"round", "failSnapshot", "tail"}
    /\ sel' = [sel EXCEPT ![w] =
                 AnalysisReady(IF At(w, "failSnapshot") THEN Pending(w) \cap noted[w]
                                                        ELSE Pending(w))]
    /\ noted' = [noted EXCEPT ![w] = {}]
    /\ Goto(w, CASE At(w, "round")        -> "submit"
                 [] At(w, "failSnapshot") -> "failSubmit"
                 [] OTHER                 -> "tailSubmit")
    /\ UNCHANGED <<rows, held, snap, analysis, report, budget>>

\* _start_background_analysis polls the future once more before it submits the
\* rows read earlier; a cohort still in progress leaves them for later.
Submit(w) ==
    /\ pc[w] \in {"submit", "failSubmit", "tailSubmit"}
    /\ IF cohort[w] = {} THEN Remaining(w, sel[w], {}, FALSE) ELSE UNCHANGED analysis
    /\ sel' = [sel EXCEPT ![w] = {}]
    /\ Goto(w, CASE At(w, "submit")     -> "stale"
                 [] At(w, "failSubmit") -> "due"
                 [] OTHER               -> "round")
    /\ UNCHANGED <<rows, held, snap, noted, report, budget>>

-----------------------------------------------------------------------------
(* The analysis thread.  Each row of its cohort is finalized, deferred or     *)
(* terminalized in a transaction of its own; which one is the analyzer's      *)
(* answer, but a row that no longer awaits evaluation is refused.             *)

AnalysisFrame == UNCHANGED <<local, report, budget>>

\* Slip: the row is finished and its evaluation left to a later transaction.
EvaluationSlip(w, i) ==
    /\ i \in cohort[w] /\ Awaiting(i)
    /\ item' = [item EXCEPT ![i] = Unclaimed(@, "finished", "none")]
    /\ Remaining(w, cohort[w] \ {i}, settled[w] \cup {i}, retried[w])
    /\ UNCHANGED <<runs, judged>> /\ AnalysisFrame

\* finalize_batch_evaluation
Finalize(w, i) ==
    /\ i \in cohort[w] /\ Awaiting(i)
    /\ item' = [item EXCEPT ![i] = Unclaimed(@, "finished", "none")]
    /\ judged' = [judged EXCEPT ![i] = "verdict"]
    /\ Remaining(w, cohort[w] \ {i}, settled[w] \cup {i}, retried[w])
    /\ UNCHANGED runs /\ AnalysisFrame

\* A refused row fails its cohort, whose rows are all analyzed a second time,
\* those already finalized included; done is the part of them in i's cohort.
FinalizeRaises(w, i) ==
    /\ i \in cohort[w] /\ ~Awaiting(i) /\ ~retried[w]
    /\ \E done \in SUBSET settled[w] : Remaining(w, cohort[w] \cup done, {}, TRUE)
    /\ UNCHANGED rows /\ AnalysisFrame

\* defer_batch_analysis_retry; a refusal ends the turn, dropping its other rows.
DeferAnalysis(w, i) ==
    /\ i \in cohort[w]
    /\ \/ /\ Awaiting(i) /\ Spend("defer")
          /\ item' = [item EXCEPT ![i].later = TRUE]
          /\ Remaining(w, cohort[w] \ {i}, settled[w], retried[w])
       \/ /\ ~Awaiting(i) /\ UNCHANGED <<item, budget>>
          /\ Remaining(w, {}, {}, FALSE)
    /\ UNCHANGED <<runs, judged, local, report>>

\* The rows a failed second attempt terminalizes: with a refused row go the ones
\* that this attempt has finalized before it.
Failing(w) == cohort[w] \cup (IF retried[w] /\ \E i \in cohort[w] : ~Awaiting(i)
                                THEN settled[w] ELSE {})

\* _terminalize_analysis_failure: the infrastructure_failure evaluation is
\* stored first, then the row is moved, or the move raises and ends the turn.
TerminalizeAnalysis(w, i) ==
    /\ i \in Failing(w)
    /\ judged' = [judged EXCEPT ![i] = "infrastructure_failure"]
    /\ \/ /\ Transition(i, "blocked", {"running"}, "analyzer_retry_exhausted")
          /\ Remaining(w, cohort[w] \ {i}, settled[w] \ {i}, retried[w])
       \/ /\ ~CanTransition(i, "blocked", {"running"}) /\ UNCHANGED item
          /\ Remaining(w, {}, {}, FALSE)
    /\ UNCHANGED runs /\ AnalysisFrame

Analyze(w) == \E i \in Items :
    \/ Finalize(w, i) \/ FinalizeRaises(w, i)
    \/ DeferAnalysis(w, i) \/ TerminalizeAnalysis(w, i)

-----------------------------------------------------------------------------
(* Failure recovery, promotion, claims.                                      *)

\* add_failure_run_awaiting_evaluation: run and hand-off in one transaction.
RecordFailure(w, i) ==
    /\ item[i].state \in {"running", "blocked"}
    /\ item' = [item EXCEPT ![i] =
                  [Claimed(@, w, "awaiting_batch_evaluation") EXCEPT !.later = FALSE]]
    /\ runs' = [runs EXCEPT ![i].last = "stopped"]
    /\ judged' = [judged EXCEPT ![i] = "none"]
    /\ noted' = [noted EXCEPT ![w] = @ \cup {i}]

\* Slip: exhausted retries are taken for an operator's business.
ExhaustedSlip(w) ==
    /\ At(w, "failures")
    /\ Goto(w, "due")
    /\ sel' = [sel EXCEPT ![w] = {}] /\ noted' = [noted EXCEPT ![w] = {}]
    /\ UNCHANGED <<rows, held, snap, analysis, report, budget>>

\* TerminalFailureRecovery.recover reads the exhausted rows ...
SelectFailures(w) ==
    /\ At(w, "failures")
    /\ LET exhausted == {i \in InState("blocked") :
                           item[i].blocker = "retry_limit_reached"}
       IN  /\ sel' = [sel EXCEPT ![w] = exhausted]
           /\ Goto(w, IF exhausted = {} THEN "due" ELSE "record")
    /\ noted' = [noted EXCEPT ![w] = {}]
    /\ UNCHANGED <<rows, held, snap, analysis, report, budget>>

\* ... and records them one transaction at a time.
RecoverFailure(w) ==
    /\ At(w, "record")
    /\ \E i \in sel[w] :
         /\ RecordFailure(w, i)
         /\ sel' = [sel EXCEPT ![w] = @ \ {i}]
         /\ Goto(w, IF sel[w] = {i} THEN "failSnapshot" ELSE "record")
    /\ UNCHANGED <<held, snap, analysis, report, budget>>

\* A row another process moved on since the SELECT raises out of the round.
RecoverFailureRaises(w) ==
    /\ At(w, "record")
    /\ \E i \in sel[w] : item[i].state \notin {"running", "blocked"}
    /\ Exit(w)
    /\ UNCHANGED <<rows, analysis, report, budget>>

PromoteDueRetries(w) ==
    /\ At(w, "due")
    /\ item' = [i \in Items |->
                  IF item[i].state = "waiting_retry" /\ ~item[i].later
                    THEN [item[i] EXCEPT !.state = "ready"] ELSE item[i]]
    /\ Goto(w, "promote")
    /\ UNCHANGED <<runs, judged, sel, held, snap, noted, analysis, report, budget>>

Least(m, n) == IF m <= n THEN m ELSE n

\* promote_scheduled_runnable on the rows f: the ready capacity is filled with
\* scheduled rows (dependencies and gates are DependencyGate's subject).
Promotion(f) ==
    LET scheduled == {i \in Items : f[i].state = "scheduled"}
        active    == {i \in Items : f[i].state \in {"ready", "running"}}
        capacity  == IF Cardinality(active) < ActiveLimit
                       THEN ActiveLimit - Cardinality(active) ELSE 0
    IN  {[i \in Items |-> IF i \in chosen THEN [f[i] EXCEPT !.state = "ready"]
                                          ELSE f[i]] :
           chosen \in {S \in SUBSET scheduled :
                         Cardinality(S) = Least(capacity, Cardinality(scheduled))}}

PromoteScheduled(w) ==
    /\ At(w, "promote")
    /\ item' \in Promotion(item)
    /\ Goto(w, "claim")
    /\ UNCHANGED <<runs, judged, sel, held, snap, noted, analysis, report, budget>>

\* The rows a claim returns carry the attempts the claimer will reason with.
Hold(w, claimed) ==
    /\ held' = [held EXCEPT ![w] = claimed]
    /\ snap' = [snap EXCEPT ![w] = [i \in Items |->
                  IF i \in claimed THEN item[i].attempts ELSE 0]]

\* claim_batch
ClaimBatch(w) ==
    /\ At(w, "claim") /\ w \in Supervisors
    /\ \E S \in SUBSET InState("ready") :
         /\ Cardinality(S) = Least(BatchLimit, Cardinality(InState("ready")))
         /\ item' = [i \in Items |-> IF i \in S THEN Claimed(item[i], w, "none")
                                                ELSE item[i]]
         /\ Hold(w, S)
         /\ Goto(w, IF S = {} THEN "round" ELSE "execute")
    /\ noted' = [noted EXCEPT ![w] = {}]
    /\ UNCHANGED <<runs, judged, sel, analysis, report, budget>>

\* claim_next leaves the blocker columns of the row as they were.
ClaimNext(w) ==
    /\ At(w, "claim") /\ w \in SoloWorkers
    /\ \/ \E i \in InState("ready") :
            /\ item' = [item EXCEPT ![i] = Claimed(@, w, @.blocker)]
            /\ Hold(w, {i})
            /\ Goto(w, "execute")
       \/ /\ InState("ready") = {}
          /\ Goto(w, "due")
          /\ UNCHANGED <<item, held, snap>>
    /\ UNCHANGED <<runs, judged, sel, noted, analysis, report, budget>>

-----------------------------------------------------------------------------
(* Applying the results of an execution.  The row may have been recovered    *)
(* and claimed by another process while this one was executing: no handler    *)
(* compares claimed_by, they only look at the state.                          *)

\* i's result has been applied; after the last one the batch or turn is over.
Settle(w, i, note) ==
    /\ held' = [held EXCEPT ![w] = @ \ {i}]
    /\ snap' = [snap EXCEPT ![w][i] = 0]
    /\ Goto(w, IF held[w] # {i} THEN "execute"
               ELSE IF w \in SoloWorkers THEN "due"
               ELSE IF noted[w] # {} \/ note THEN "tail" ELSE "round")

ExecFrame == UNCHANGED <<sel, analysis, report>>

Executing(w, i) == At(w, "execute") /\ i \in held[w]

\* What follows a stored run: a solo worker has stored the evaluation with it.
Handover(w, i) == CASE w \in SoloWorkers -> "finish"
                    [] w \notin SoloWorkers /\ i \in HpoItems -> "evaluate"
                    [] OTHER -> "handoff"

\* _persist_run stores the finished run whatever the row's state is.  The solo
\* worker stores run and evaluation in one transaction (add_run_and_evaluation),
\* and none for an operation that it does not know.
PersistRun(w, i) ==
    /\ Executing(w, i) /\ ~ (w \in SoloWorkers /\ item[i].plain)
    /\ runs' = [runs EXCEPT ![i] = [finished |-> TRUE, last |-> "finished"]]
    /\ judged' = [judged EXCEPT ![i] = IF w \in SoloWorkers THEN "verdict" ELSE "none"]
    /\ sel' = [sel EXCEPT ![w] = {i}]
    /\ Goto(w, Handover(w, i))
    /\ UNCHANGED <<item, held, snap, noted, analysis, report, budget>>

\* mark_awaiting_evaluation: the claim, whoever owns it now, is kept.
MarkAwaiting(w, i) ==
    /\ At(w, "handoff") /\ i \in sel[w]
    /\ Running(i)
    /\ item' = [item EXCEPT ![i].blocker = "awaiting_batch_evaluation"]
    /\ noted' = [noted EXCEPT ![w] = @ \cup {i}]
    /\ sel' = [sel EXCEPT ![w] = {}]
    /\ Settle(w, i, TRUE)
    /\ UNCHANGED <<runs, judged, analysis, report, budget>>

\* An hpo run is evaluated at once, its analysis being a job of its own ...
EvaluateHpo(w, i) ==
    /\ At(w, "evaluate") /\ i \in sel[w]
    /\ judged' = [judged EXCEPT ![i] = "verdict"]
    /\ Goto(w, "finish")
    /\ UNCHANGED <<item, runs, sel, held, snap, noted, analysis, report, budget>>

\* ... and finished in the next transaction.  A solo worker finishes every item
\* this way, those whose operation it does not know without any evidence.
FinishDirectly(w, i) ==
    /\ \/ At(w, "finish") /\ i \in sel[w]
       \/ Executing(w, i) /\ w \in SoloWorkers /\ item[i].plain
    /\ Transition(i, "finished", {"running"}, "none")
    /\ sel' = [sel EXCEPT ![w] = {}]
    /\ Settle(w, i, FALSE)
    /\ UNCHANGED <<runs, judged, noted, analysis, report, budget>>

\* The hand-off raises on a row that is no longer running: a solo worker ends, a
\* supervisor takes the error for an invalid result.
HandoffRaises(w, i) ==
    /\ i \in sel[w]
    /\ \/ At(w, "handoff") /\ ~Running(i)
       \/ At(w, "finish") /\ ~CanTransition(i, "finished", {"running"})
    /\ IF w \in SoloWorkers THEN Exit(w)
                           ELSE Goto(w, "undo") /\ UNCHANGED <<sel, held, snap, noted>>
    /\ UNCHANGED <<rows, analysis, report, budget>>

\* ... which it defers, raising again unless the row has been claimed meanwhile.
UndoHandoff(w, i) ==
    /\ At(w, "undo") /\ i \in sel[w]
    /\ \/ /\ Running(i)
          /\ item' = [item EXCEPT ![i] = Deferred(@)]
          /\ sel' = [sel EXCEPT ![w] = {}]
          /\ Settle(w, i, FALSE)
          /\ UNCHANGED noted
       \/ ~Running(i) /\ Exit(w) /\ UNCHANGED item
    /\ UNCHANGED <<runs, judged, analysis, report, budget>>

\* defer_infrastructure_retry: no attempt is charged.
DeferInfrastructure(w, i) ==
    /\ Executing(w, i) /\ w \in Supervisors
    /\ Running(i)
    /\ Spend("defer")
    /\ item' = [item EXCEPT ![i] = Deferred(@)]
    /\ Settle(w, i, FALSE)
    /\ UNCHANGED <<runs, judged, noted>> /\ ExecFrame

\* Slip: the attempt being charged is left out of the count.
LimitSlip(w, i) ==
    /\ Executing(w, i)
    /\ IF snap[w][i] >= MaxAttempts
         THEN Transition(i, "blocked", {"running"}, "retry_limit_reached")
         ELSE Transition(i, "waiting_retry", {"running"}, "execution_failure")
    /\ Settle(w, i, FALSE)
    /\ UNCHANGED <<runs, judged, noted, budget>> /\ ExecFrame

\* _retry_or_block and the retry branch of run_once: the budget is judged on the
\* attempts the claim returned, the charge is made on the row as it is now.
ChargeRetry(w, i) ==
    /\ Executing(w, i)
    /\ IF snap[w][i] + 1 >= MaxAttempts
         THEN Transition(i, "blocked", {"running"}, "retry_limit_reached")
         ELSE Transition(i, "waiting_retry", {"running"}, "execution_failure")
    /\ Settle(w, i, FALSE)
    /\ UNCHANGED <<runs, judged, noted, budget>> /\ ExecFrame

\* The operator route of a supervisor; a `blocked` outcome of a solo worker, whose
\* code may be one that a supervisor recovers for analysis.
BlockForOperator(w, i) ==
    /\ Executing(w, i)
    /\ \E code \in {"operator_requirement"} \cup
                    (IF w \in SoloWorkers THEN {"retry_limit_reached"} ELSE {}) :
         Transition(i, "blocked", {"running"}, code)
    /\ Settle(w, i, FALSE)
    /\ UNCHANGED <<runs, judged, noted, budget>> /\ ExecFrame

\* The analysis route: a terminal strategy or harness failure is evidence.
FailToAnalysis(w, i) ==
    /\ Executing(w, i) /\ w \in Supervisors
    /\ RecordFailure(w, i)
    /\ Settle(w, i, TRUE)
    /\ UNCHANGED budget /\ ExecFrame

\* A result for a row that is no longer running raises and ends the process;
\* the rest of the batch stays claimed.
LostClaimRaises(w, i) ==
    /\ Executing(w, i) /\ ~Running(i)
    /\ Exit(w)
    /\ UNCHANGED <<rows, analysis, report, budget>>

Execute(w) == \E i \in Items :
    \/ PersistRun(w, i) \/ MarkAwaiting(w, i) \/ EvaluateHpo(w, i) \/ FinishDirectly(w, i)
    \/ HandoffRaises(w, i) \/ UndoHandoff(w, i) \/ DeferInfrastructure(w, i)
    \/ ChargeRetry(w, i) \/ BlockForOperator(w, i) \/ FailToAnalysis(w, i) \/ LostClaimRaises(w, i)

-----------------------------------------------------------------------------
(* Operator commands and the passing of time.                                *)

OperatorFrame == UNCHANGED <<local, analysis>>

\* resolve_blocked_work_item keeps the attempts.
ResolveBlocked(i) ==
    /\ item[i].state = "blocked"
    /\ Spend("operator")
    /\ item' = [item EXCEPT ![i] = [Unclaimed(@, "ready", "none") EXCEPT !.later = FALSE]]
    /\ UNCHANGED <<runs, judged, report>> /\ OperatorFrame

\* retry_blocked_work_item resets them and promotes what it can (the reset and the
\* promotion are two transactions; no read of the first is used by the second).
RetryBlocked(i) ==
    /\ item[i].state = "blocked"
    /\ Spend("operator")
    /\ item' \in Promotion([item EXCEPT ![i] =
                  [Unclaimed(@, "scheduled", "none") EXCEPT !.later = FALSE,
                                                            !.attempts = 0]])
    /\ UNCHANGED <<runs, judged, report>> /\ OperatorFrame

\* rectify_blocked_work_item
RectifyBlocked(i) ==
    /\ item[i].state = "blocked"
    /\ Spend("operator")
    /\ item' = [item EXCEPT ![i] = [Unclaimed(@, "archived", "legacy_history")
                                      EXCEPT !.later = FALSE]]
    /\ UNCHANGED <<runs, judged, report>> /\ OperatorFrame

\* requeue_finished_evaluation hands durable evidence to the analyzer of w.
RequeueEvaluation(i, w) ==
    /\ item[i].state = "finished" /\ runs[i].finished
    /\ Spend("operator")
    /\ item' = [item EXCEPT ![i] = Claimed(@, w, "awaiting_batch_evaluation")]
    /\ judged' = [judged EXCEPT ![i] = "none"]
    /\ UNCHANGED <<runs, report>> /\ OperatorFrame

\* A blocker of an old import that has an evaluation or a terminal run.
Historical(i) ==
    /\ item[i].state = "blocked" /\ item[i].blocker = "legacy_blocked"
    /\ judged[i] # "none" \/ runs[i].last # "none"

\* build_reconciliation lists claims older than the operator's own cutoff, those
\* awaiting evaluation included, and historical blockers ...
BuildReconciliation ==
    /\ report = {}
    /\ Spend("operator")
    /\ \E stale \in SUBSET InState("running") :
         report' = (stale \X {"blocked"})
                     \cup ({i \in Items : Historical(i)} \X {"archived"})
    /\ UNCHANGED rows /\ OperatorFrame

\* ... and apply_reconciliation moves the listed rows one by one, claims first,
\* giving up at the first one that has left its state for another.
ApplyReconciliation ==
    /\ \E i \in Items :
         \/ /\ <<i, "blocked">> \in report
            /\ \/ /\ Transition(i, "blocked", {"running"}, "stale_worker_claim")
                  /\ report' = report \ {<<i, "blocked">>}
               \/ /\ ~CanTransition(i, "blocked", {"running"})
                  /\ report' = {} /\ UNCHANGED item
         \/ /\ <<i, "archived">> \in report /\ report \in SUBSET (Items \X {"archived"})
            /\ \/ /\ Transition(i, "archived", {"blocked"}, "legacy_history")
                  /\ report' = report \ {<<i, "archived">>}
               \/ /\ ~CanTransition(i, "archived", {"blocked"})
                  /\ report' = {} /\ UNCHANGED item
    /\ UNCHANGED <<runs, judged, budget>> /\ OperatorFrame

\* normalize_unattempted_blockers reads the blocked rows that no attempt has been
\* charged to and reschedules those that are so still, whatever they wait for.
NormalizeBlockers ==
    /\ Spend("operator")
    /\ \E S \in SUBSET {i \in InState("blocked") : item[i].attempts = 0} :
         /\ S # {}
         /\ item' = [i \in Items |-> IF i \in S THEN Unclaimed(item[i], "scheduled", "none")
                                               ELSE item[i]]
    /\ UNCHANGED <<runs, judged, report>> /\ OperatorFrame

\* A claim becomes older than claim_timeout_seconds; nothing refreshes it.
ClaimAges(i) ==
    /\ Running(i) /\ ~item[i].aged
    /\ Spend("age")
    /\ item' = [item EXCEPT ![i].aged = TRUE]
    /\ UNCHANGED <<runs, judged, report>> /\ OperatorFrame

\* retry_after passes.
BackoffEnds(i) ==
    /\ item[i].later
    /\ item' = [item EXCEPT ![i].later = FALSE]
    /\ UNCHANGED <<runs, judged, report, budget>> /\ OperatorFrame

-----------------------------------------------------------------------------
\* The statements of a process's main thread, in the order of run_round.
Step(w) ==
    \/ Start(w) \/ RecoverAbandoned(w) \/ Snapshot(w) \/ Submit(w)
    \/ SelectStale(w) \/ ApplyStale(w) \/ PreflightBlocks(w)
    \/ SelectFailures(w) \/ RecoverFailure(w) \/ RecoverFailureRaises(w)
    \/ PromoteDueRetries(w) \/ PromoteScheduled(w)
    \/ ClaimBatch(w) \/ ClaimNext(w) \/ Execute(w)

Operate ==
    \/ \E i \in Items : \/ ResolveBlocked(i) \/ RetryBlocked(i) \/ RectifyBlocked(i)
                        \/ \E w \in Workers : RequeueEvaluation(i, w)
    \/ BuildReconciliation \/ ApplyReconciliation \/ NormalizeBlockers

Next ==
    \/ \E w \in Workers : Step(w) \/ Analyze(w) \/ Crash(w) \/ Stop(w)
    \/ Operate
    \/ \E i \in Items : ClaimAges(i) \/ BackoffEnds(i)

Spec == Init /\ [][Next]_vars

\* Both threads of a live process keep running, a stopped one is restarted, and
\* backoffs end.  Nothing is assumed of crashes, of the operator or of ageing.
Fairness ==
    /\ \A w \in Workers : WF_vars(Step(w)) /\ WF_vars(Analyze(w))
    /\ \A i \in Items : WF_vars(BackoffEnds(i))

FairSpec == Spec /\ Fairness

-----------------------------------------------------------------------------
(* Properties.                                                               *)

\* No claim has outlived its timeout and no operator has intervened.
Calm == budget["age"] = MaxAgings /\ budget["operator"] = MaxOperator

\* Every row, process and bound keeps its shape.
TypeOK ==
    /\ item \in [Items -> Row] /\ \A i \in Items : item[i].plain => i \in PlainItems
    /\ runs \in [Items -> Evidence]
    /\ judged \in [Items -> {"none", "verdict", "infrastructure_failure"}]
    /\ pc \in [Workers -> PCs]
    /\ sel \in [Workers -> SUBSET Items]
    /\ held \in [Workers -> SUBSET Items]
    /\ snap \in [Workers -> [Items -> Nat]]
    /\ noted \in [Workers -> SUBSET Items]
    /\ cohort \in [Workers -> SUBSET Items] /\ settled \in [Workers -> SUBSET Items]
    /\ retried \in [Workers -> BOOLEAN]
    /\ report \in SUBSET (Items \X {"blocked", "archived"})
    /\ budget \in [Bounds -> Nat]

\* claimed_by is set exactly on running rows, whichever process recovers,
\* steals, defers or finishes them.  A running row with no owner would be out of
\* reach of recover_abandoned_claims and of the analyzer.
ClaimsMatchStates == \A i \in Items : Running(i) <=> item[i].owner # NoWorker

\* The code awaiting_batch_evaluation is only ever found on a running row with a
\* stored run.  claim_next keeps the blocker columns of the row it claims, so a
\* ready row left with that code would be analyzed without having been executed.
AwaitingHasEvidence ==
    \A i \in Items : item[i].blocker = "awaiting_batch_evaluation" =>
                       Running(i) /\ runs[i].last # "none"

\* No fencing protects the attempt budget: a process that lost its claim still
\* charges the row with a count read long before.  Yet every such process
\* overshoots the budget at most once.
AttemptsBounded ==
    \A i \in Items :
        item[i].attempts <= MaxAttempts - 1 + (Cardinality(Workers) - 1)

\* As long as no claim has outlived claim_timeout_seconds and no operator has
\* intervened, what a process executes is claimed by it alone and waits for no
\* evaluation: claims are exclusive across crashes, restarts and retries.
ClaimsExclusiveUntilTimeout ==
    Calm =>
        \A w \in Workers : \A i \in held[w] :
            /\ Running(i) /\ item[i].owner = w
            /\ ~Awaiting(i)

\* A run recorded for analysis stays claimed until an evaluation of it is stored;
\* only an operator's reconciliation may take it away.  With a second process a
\* claim that has expired is enough, so this is claimed for one supervisor, or for
\* any number of processes as long as the queue is calm.
KeptUntilEvaluated ==
    [][\A i \in Items : Awaiting(i) /\ ~Awaiting(i)' =>
          \/ judged'[i] # "none"
          \/ item'[i].blocker = "stale_worker_claim"]_vars

\* A finished item has an evaluation newer than its newest run.  The exception is
\* in the code: a solo worker finishes an operation it does not know with neither.
FinishedIsEvaluated ==
    \A i \in Items : item[i].state = "finished" =>
        judged[i] # "none" \/ (item[i].plain /\ SoloWorkers # {})

\* What a row is in WorkLifecycle.
Stage(r) ==
    IF r.state = "running"
      THEN IF r.blocker = "awaiting_batch_evaluation" THEN "recorded" ELSE "claimed"
    ELSE IF r.state \in {"blocked", "finished", "archived"} THEN r.state
    ELSE "waiting"

Life == INSTANCE WorkLifecycle WITH
    stage  <- [i \in Items |-> Stage(item[i])],
    holder <- [i \in Items |-> item[i].owner],
    judged <- [i \in Items |-> judged[i] # "none"],
    calm   <- Calm

\* The queue implements WorkLifecycle: whatever the interleaving of its processes,
\* their threads and their crashes, each of their transactions is a step that the
\* life cycle allows, by the process that holds the item where only that one may.
LifecycleHolds == Life!Spec

\* Every item ends evaluated or archived, or blocked for a reason that only an
\* operator can lift; exhausted retries are not such a reason.
Resolved(i) ==
    \/ item[i].state \in {"finished", "archived"}
    \/ /\ item[i].state = "blocked"
       /\ item[i].blocker \in {"operator_requirement", "analyzer_retry_exhausted",
                                "stale_worker_claim", "legacy_blocked"}

EveryItemResolves == \A i \in Items : (item[i].state # "archived") ~> Resolved(i)

=============================================================================
