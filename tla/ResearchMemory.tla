--------------------------- MODULE ResearchMemory ---------------------------
(***************************************************************************)
(* Verdicts and what is remembered of them.  A judgement supersedes its      *)
(* evaluator's last one in an append-only history, is copied into the         *)
(* normalized evidence of the runs it judges, and is queued as a learning in  *)
(* the research_memory_outbox, all in one transaction.  The supervisor, after *)
(* it has finalized an analysis, and the operator's memory commands deliver   *)
(* the outbox to a memory provider over HTTP; `memory init` first queues what *)
(* was never queued.                                                          *)
(*                                                                         *)
(* Every action is one transaction or one HTTP request.  The provider is      *)
(* external: what it does is read off how deliver uses it.                    *)
(*                                                                         *)
(* Operators named ...Slip are the definition below them with one mistake.    *)
(***************************************************************************)
EXTENDS Naturals, FiniteSets, Sequences

CONSTANTS
    Experiments,
    Runs,          \* rows of runs
    RunOf,         \* the experiment of a run
    Finished,      \* runs that finished; the others failed
    Evaluators,
    Analyzer,      \* the evaluator of the supervisor's analysis
    Supervisor,
    Cli,           \* the operator's `memory` commands
    NoJudgement,
    NoEvidence,    \* of a run without normalized evidence
    BatchSize,     \* of a backfill
    CliLimit,      \* of a sync by the operator
    MaxJudgements, \* bound: evaluations made
    MaxFaults      \* bound: requests that fail or whose answer is lost, malformed
                   \* answers of the provider, processes killed during a delivery

Syncers == {Supervisor, Cli}

ASSUME MemoryAssumption ==
    /\ Supervisor # Cli
    /\ RunOf \in [Runs -> Experiments]
    /\ Finished \subseteq Runs
    /\ Analyzer \in Evaluators
    /\ NoEvidence \notin Nat /\ NoJudgement # NoEvidence
    /\ BatchSize \in Nat \ {0} /\ CliLimit \in Nat \ {0}
    /\ MaxJudgements \in Nat /\ MaxFaults \in Nat

VARIABLES
    clock,     \* evaluations made so far; evaluated_at is its value
    judging,   \* per evaluator: an Evaluation made and not stored yet
    history,   \* evaluation_history; the row id is the index
    finding,   \* per run: the row whose verdict its evidence carries
    outbox,    \* research_memory_outbox, by id
    copies,    \* the provider's messages, per learning
    sync,      \* per syncer: where its delivery is
    scan,      \* rows the operator's backfill has selected
    ready,     \* rows that a `memory init` has reported delivered
    used       \* faults so far

vars == <<clock, judging, history, finding, outbox, copies, sync, scan, ready, used>>

\* The finding of a run that is not judged.
Unjudged == 0

\* An unsafe summary holds text that may not leave the database.
Kinds     == {"research", "unsafe", "infrastructure_failure"}
Judgement == [exp : Experiments, by : Evaluators, at : Nat, kind : Kinds]
Row       == [exp : Experiments, by : Evaluators, at : Nat, kind : Kinds,
              sequence : Nat, current : BOOLEAN]
Findings  == Nat \cup {NoEvidence}
\* A learning is identified by the hash of the judgement and of what the
\* evidence was when it was built.
Learning  == [of : Nat, seen : [Runs -> Findings]]
Entry     == [learning : Learning, state : {"pending", "retry", "delivered"}, due : BOOLEAN]
Labels    == {"idle", "scan", "insert", "select", "list", "post", "delivered",
              "failed", "check", "report"}
Sync      == [at : Labels, todo : Seq(Nat), init : BOOLEAN]
Faults    == {"outage", "malformed", "crash"}

-----------------------------------------------------------------------------
(* The history of verdicts and the evidence that carries them. *)

OneOf(S) == CHOOSE x \in S : TRUE

Current(h) == {i \in DOMAIN h : h[i].current}

Newest(h, rows) == {i \in rows : \A k \in rows : h[i].at >= h[k].at}

\* ORDER BY evaluated_at DESC LIMIT 1, over all evaluators.
Latest(h, e) ==
    LET rows == {i \in Current(h) : h[i].exp = e}
    IN  IF rows = {} THEN Unjudged ELSE OneOf(Newest(h, rows))

\* Slip: the last row is superseded whoever wrote it.
SupersededSlip(h, j) == {i \in DOMAIN h : h[i].exp = j.exp}

Superseded(h, j) == {i \in DOMAIN h : h[i].exp = j.exp /\ h[i].by = j.by}

\* _append_evaluation.
Appended(h, j) ==
    LET mine == Superseded(h, j)
        kept == [i \in DOMAIN h |-> IF i \in mine THEN [h[i] EXCEPT !.current = FALSE] ELSE h[i]]
    IN  Append(kept, [exp |-> j.exp, by |-> j.by, at |-> j.at, kind |-> j.kind,
                      sequence |-> Cardinality(mine), current |-> TRUE])

RunsOf(e)   == {r \in Runs : RunOf[r] = e}
Evident(f, e) == {r \in RunsOf(e) : f[r] # NoEvidence}

\* Slip: the evidence is refreshed before the verdict is appended.
RefreshedSlip(h, f, runs) ==
    [r \in Runs |-> IF r \in runs THEN Latest(history, RunOf[r]) ELSE f[r]]

\* _refresh_run_evidence of each of `runs`.
Refreshed(h, f, runs) ==
    [r \in Runs |-> IF r \in runs THEN Latest(h, RunOf[r]) ELSE f[r]]

-----------------------------------------------------------------------------
(* Learnings. *)

LearningOf(j, f) == [of   |-> j.at,
                     seen |-> [r \in Runs |-> IF RunOf[r] = j.exp THEN f[r] ELSE NoEvidence]]

Queued == {outbox[k].learning : k \in DOMAIN outbox}

\* ORDER BY key: the members of S as a sequence.
Ordered(S, key) ==
    {rows \in [1 .. Cardinality(S) -> S] :
        \A i, k \in 1 .. Cardinality(S) :
           i < k => rows[i] # rows[k] /\ key[rows[i]] <= key[rows[k]]}

\* LIMIT n.
First(rows, n) == SubSeq(rows, 1, IF Len(rows) < n THEN Len(rows) ELSE n)

\* INSERT OR IGNORE of each of some learnings, the oldest judgement first.
Enqueue(learnings) ==
    \E new \in Ordered(learnings \ Queued, [l \in learnings |-> l.of]) :
       /\ outbox' = outbox \o [k \in 1 .. Len(new) |->
                       [learning |-> new[k], state |-> "pending", due |-> TRUE]]
       /\ copies' = copies \o [k \in 1 .. Len(new) |-> 0]

\* Slip: the text is not looked at.
UnsafeSlip(j, f) == Enqueue({LearningOf(j, f)})

\* enqueue_learning_safely: an unsafe text leaves an event only.
EnqueueSafely(j, f) ==
    Enqueue(IF j.kind = "unsafe" THEN {} ELSE {LearningOf(j, f)})

-----------------------------------------------------------------------------
(* Storing runs and judgements. *)

\* add_run, also of a run that is stored again.
StoreRun(r) ==
    /\ finding' = Refreshed(history, finding, {r})
    /\ UNCHANGED <<clock, judging, history, outbox, copies, sync, scan, ready, used>>

\* An Evaluation takes its time when it is made, before it is stored.
Judge(v, e, kind) ==
    /\ judging[v] = NoJudgement /\ clock < MaxJudgements
    /\ clock' = clock + 1
    /\ judging' = [judging EXCEPT ![v] = [exp |-> e, by |-> v, at |-> clock + 1, kind |-> kind]]
    /\ UNCHANGED <<history, finding, outbox, copies, sync, scan, ready, used>>

\* The part every way of storing a judgement shares.
Store(v, runs, learn) ==
    LET j == judging[v]
        h == Appended(history, j)
        f == Refreshed(h, finding, runs)
    IN  /\ history' = h
        /\ finding' = f
        /\ judging' = [judging EXCEPT ![v] = NoJudgement]
        /\ IF learn THEN EnqueueSafely(j, f) ELSE UNCHANGED <<outbox, copies>>
        /\ UNCHANGED <<clock, scan, ready, used>>

\* add_evaluation: of a command, an import or a terminal failure.
AddEvaluation(v) ==
    /\ judging[v] # NoJudgement
    /\ LET seen == Evident(finding, judging[v].exp)
       IN  Store(v, seen, seen # {})
    /\ UNCHANGED sync

\* add_run_and_evaluation: the single-item worker; other runs keep their finding.
AddRunAndEvaluation(v, r) ==
    /\ judging[v] # NoJudgement /\ RunOf[r] = judging[v].exp
    /\ Store(v, {r}, TRUE)
    /\ UNCHANGED sync

\* finalize_batch_evaluation, after which _finalize_analysis syncs.
Finalize ==
    /\ sync[Supervisor].at = "idle"
    /\ judging[Analyzer] # NoJudgement
    /\ LET seen == Evident(finding, judging[Analyzer].exp)
       IN  seen # {} /\ Store(Analyzer, seen, TRUE)
    /\ sync' = [sync EXCEPT ![Supervisor].at = "select"]

\* _reevaluate_route_failure revises the latest verdict, and queues nothing.
Reevaluate(r) ==
    LET last == Latest(history, RunOf[r])
        h    == Appended(history, [exp |-> RunOf[r], by |-> history[last].by,
                                   at |-> clock + 1, kind |-> "research"])
    IN  /\ clock < MaxJudgements
        /\ r \in Finished /\ finding[r] # NoEvidence /\ last # Unjudged
        /\ clock' = clock + 1
        /\ history' = h
        /\ finding' = Refreshed(h, finding, {r})
        /\ UNCHANGED <<judging, outbox, copies, sync, scan, ready, used>>

-----------------------------------------------------------------------------
(* Delivering the outbox: sync_memory_outbox and MemoryResearchAdapter.deliver. *)

Spend(fault) ==
    /\ used["outage"] + used["malformed"] + used["crash"] < MaxFaults
    /\ used' = [used EXCEPT ![fault] = @ + 1]

Goto(s, label) == sync' = [sync EXCEPT ![s].at = label]

\* Slip: rows that failed once are not selected again.
EligibleSlip == {k \in DOMAIN outbox : outbox[k].state = "pending"}

Eligible == {k \in DOMAIN outbox :
                outbox[k].state = "pending" \/ (outbox[k].state = "retry" /\ outbox[k].due)}

Limit(s) == IF s = Supervisor THEN 1 ELSE CliLimit

Select(s) ==
    /\ sync[s].at = "select"
    /\ \E rows \in Ordered(Eligible, [k \in Eligible |-> k]) :
          LET todo == First(rows, Limit(s))
          IN  sync' = [sync EXCEPT ![s].todo = todo,
                                   ![s].at = CASE todo # <<>> -> "list"
                                               [] todo = <<>> /\ sync[s].init -> "check"
                                               [] OTHER -> "idle"]
    /\ UNCHANGED <<clock, judging, history, finding, outbox, copies, scan, ready, used>>

\* Slip: a message with the fingerprint is not looked for.
FoundSlip(k) == FALSE

Found(k) == copies[k] > 0

\* deliver makes sure that the namespace exists and lists the messages with the
\* fingerprint of the learning; a malformed listing counts as empty.
List(s) ==
    /\ sync[s].at = "list"
    /\ \/ Goto(s, IF Found(Head(sync[s].todo)) THEN "delivered" ELSE "post") /\ UNCHANGED used
       \/ Spend("malformed") /\ Goto(s, "post")
       \/ Spend("outage") /\ Goto(s, "failed")
    /\ UNCHANGED <<clock, judging, history, finding, outbox, copies, scan, ready>>

\* Slip: a request that fails is taken for delivered.
UnansweredSlip == "delivered"

Unanswered == "failed"

\* The answer of a request that stored the message may be lost.
Post(s) ==
    LET k == Head(sync[s].todo)
        stored == copies' = [copies EXCEPT ![k] = @ + 1]
    IN  /\ sync[s].at = "post"
        /\ \/ stored /\ Goto(s, "delivered") /\ UNCHANGED used
           \/ Spend("outage") /\ (stored \/ UNCHANGED copies) /\ Goto(s, Unanswered)
        /\ UNCHANGED <<clock, judging, history, finding, outbox, scan, ready>>

Outcome(s) == IF sync[s].at = "delivered" THEN "delivered" ELSE "retry"

\* UPDATE ... WHERE id=?, whatever became of the row since it was selected.
Mark(s) ==
    LET k    == Head(sync[s].todo)
        rest == Tail(sync[s].todo)
    IN  /\ sync[s].at \in {"delivered", "failed"}
        /\ outbox' = [outbox EXCEPT ![k].state = Outcome(s),
                                    ![k].due   = (sync[s].at = "delivered")]
        /\ sync' = [sync EXCEPT ![s].todo = rest,
                                ![s].at = CASE rest # <<>> -> "list"
                                            [] rest = <<>> /\ sync[s].init -> "select"
                                            [] OTHER -> "idle"]
        /\ UNCHANGED <<clock, judging, history, finding, copies, scan, ready, used>>

\* retry_after passes.
BackoffEnds(k) ==
    /\ outbox[k].state = "retry" /\ ~outbox[k].due
    /\ outbox' = [outbox EXCEPT ![k].due = TRUE]
    /\ UNCHANGED <<clock, judging, history, finding, copies, sync, scan, ready, used>>

Crash(s) ==
    /\ sync[s].at # "idle"
    /\ Spend("crash")
    /\ sync' = [sync EXCEPT ![s] = [at |-> "idle", todo |-> <<>>, init |-> FALSE]]
    /\ scan' = IF s = Cli THEN {} ELSE scan
    /\ UNCHANGED <<clock, judging, history, finding, outbox, copies, ready>>

-----------------------------------------------------------------------------
(* The operator's commands. *)

\* `memory sync`, `memory-backfill` and `memory init`.
Command(label, init) ==
    /\ sync[Cli].at = "idle"
    /\ sync' = [sync EXCEPT ![Cli] = [at |-> label, todo |-> <<>>, init |-> init]]
    /\ UNCHANGED <<clock, judging, history, finding, outbox, copies, scan, ready, used>>

Commands == Command("select", FALSE) \/ Command("scan", FALSE) \/ Command("scan", TRUE)

\* What backfill_memory_outbox does not exclude.
Memorable ==
    {i \in Current(history) :
        /\ history[i].kind = "research"
        /\ \E r \in RunsOf(history[i].exp) : r \in Finished /\ finding[r] # NoEvidence}

\* The SELECT of a backfill; a CLI connection holds no lock until it inserts.
Scan ==
    /\ sync[Cli].at = "scan"
    /\ scan' = Memorable
    /\ Goto(Cli, "insert")
    /\ UNCHANGED <<clock, judging, history, finding, outbox, copies, ready, used>>

\* Slip: learnings that are in the outbox are counted as queued.
UnqueuedSlip(rows) == rows

Unqueued(rows) == {i \in rows : LearningOf(history[i], finding) \notin Queued}

Insert ==
    LET new == Unqueued(scan)
    IN  /\ sync[Cli].at = "insert"
        /\ \E rows \in Ordered(new, [i \in new |-> history[i].at]) :
              LET batch == First(rows, BatchSize)
              IN  Enqueue({LearningOf(history[batch[n]], finding) : n \in 1 .. Len(batch)})
        /\ Goto(Cli, CASE ~sync[Cli].init -> "idle"
                       [] sync[Cli].init /\ new # {} -> "scan"
                       [] OTHER -> "select")
        /\ scan' = {}
        /\ UNCHANGED <<clock, judging, history, finding, ready, used>>

\* The final backfill of initialize_research_memory is a preview.
Check ==
    /\ sync[Cli].at = "check"
    /\ scan' = IF Unqueued(Memorable) = {} THEN Memorable ELSE {}
    /\ Goto(Cli, "report")
    /\ UNCHANGED <<clock, judging, history, finding, outbox, copies, ready, used>>

\* Slip: rows that wait for a retry are not counted.
SettledSlip == \A k \in DOMAIN outbox : outbox[k].state # "pending"

Settled == \A k \in DOMAIN outbox : outbox[k].state = "delivered"

\* memory_status is read after the preview.
Report ==
    /\ sync[Cli].at = "report"
    /\ ready' = IF Settled THEN ready \cup scan ELSE ready
    /\ scan' = {}
    /\ sync' = [sync EXCEPT ![Cli].at = "idle", ![Cli].init = FALSE]
    /\ UNCHANGED <<clock, judging, history, finding, outbox, copies, used>>

-----------------------------------------------------------------------------
Init ==
    /\ clock = 0
    /\ judging = [v \in Evaluators |-> NoJudgement]
    /\ history = <<>>
    /\ finding = [r \in Runs |-> NoEvidence]
    /\ outbox = <<>> /\ copies = <<>>
    /\ sync = [s \in Syncers |-> [at |-> "idle", todo |-> <<>>, init |-> FALSE]]
    /\ scan = {} /\ ready = {}
    /\ used = [f \in Faults |-> 0]

Deliver(s) == Select(s) \/ List(s) \/ Post(s) \/ Mark(s)

Backfill == Scan \/ Insert \/ Check \/ Report

Next ==
    \/ \E r \in Runs : StoreRun(r) \/ Reevaluate(r)
    \/ \E v \in Evaluators, e \in Experiments, kind \in Kinds : Judge(v, e, kind)
    \/ \E v \in Evaluators : AddEvaluation(v)
    \/ \E v \in Evaluators, r \in Runs : AddRunAndEvaluation(v, r)
    \/ Finalize
    \/ \E s \in Syncers : Deliver(s) \/ Crash(s)
    \/ \E k \in DOMAIN outbox : BackoffEnds(k)
    \/ Commands
    \/ Backfill

Spec == Init /\ [][Next]_vars

\* A delivery or a command that has begun goes on unless its process is killed
\* (each request has a timeout), and backoffs run out; nobody is forced to judge
\* or to start a command.
Fairness ==
    /\ \A s \in Syncers : WF_vars(Deliver(s))
    /\ WF_vars(Backfill)
    /\ \A k \in 1 .. 2 * MaxJudgements : WF_vars(k \in DOMAIN outbox /\ BackoffEnds(k))

FairSpec == Spec /\ Fairness

-----------------------------------------------------------------------------
TypeOK ==
    /\ clock \in Nat
    /\ judging \in [Evaluators -> Judgement \cup {NoJudgement}]
    /\ history \in Seq(Row)
    /\ finding \in [Runs -> Findings]
    /\ outbox \in Seq(Entry)
    /\ copies \in [DOMAIN outbox -> Nat]
    /\ sync \in [Syncers -> Sync]
    /\ scan \subseteq DOMAIN history
    /\ ready \subseteq DOMAIN history
    /\ used \in [Faults -> Nat]

\* Whatever order judgements are stored in, each evaluator has one current
\* verdict on an experiment, its last revision, and keeps it when another
\* evaluator judges.
VerdictsAreRevised ==
    \A i \in DOMAIN history :
       LET group == {k \in DOMAIN history : history[k].exp = history[i].exp
                                              /\ history[k].by = history[i].by}
       IN  /\ history[i].current <=> (\A k \in group : k <= i)
           /\ history[i].sequence = Cardinality({k \in group : k < i})

\* An experiment with evidence shows its latest verdict on some run, whichever
\* of the paths stored it and wherever the run came from.
LatestVerdictInEvidence ==
    \A e \in Experiments :
       Evident(finding, e) # {} =>
          \E r \in RunsOf(e) : finding[r] = Latest(history, e)

\* What the outbox calls delivered is at the provider, whatever answers were
\* lost and whichever process was killed in between.
DeliveredIsStored ==
    \A k \in DOMAIN outbox : outbox[k].state = "delivered" => copies[k] > 0

\* The provider holds a learning at most once per process that delivers, and once
\* more for each malformed listing: retries after lost answers and restarts of a
\* process do not add to it.
CopiesBounded ==
    \A k \in DOMAIN outbox : copies[k] <= Cardinality(Syncers) + used["malformed"]

\* When `memory init` reports ready, every judgement it had selected is at the
\* provider, although others deliver, fail and judge while it runs.
ReadyMeansRemembered ==
    \A i \in ready :
       \E k \in DOMAIN outbox : outbox[k].learning.of = history[i].at /\ copies[k] > 0

\* What the abstract memory knows of judgements.
TimesOf(rows)  == {history[i].at : i \in rows}
JudgedIn(k)    == outbox[k].learning.of

Promise == INSTANCE AdvisoryMemory WITH
    Times    <- 1 .. MaxJudgements,
    recorded <- TimesOf(DOMAIN history),
    unsafe   <- TimesOf({i \in DOMAIN history : history[i].kind = "unsafe"}),
    queued   <- {JudgedIn(k) : k \in DOMAIN outbox},
    sent     <- {JudgedIn(k) : k \in {n \in DOMAIN outbox : copies[n] > 0}},
    vouched  <- TimesOf(ready)

\* The memory implements AdvisoryMemory: whichever path stores a judgement, and
\* whichever processes deliver, fail and die, no unsafe text is queued, nothing is
\* sent that is not in the outbox, nothing is lost, and `memory init` vouches only
\* for what the provider has.
PromiseHolds == Promise!Spec

\* `memory init` ends: neither the backfill loop, which goes on while something is
\* queued, nor the delivery loop, which goes on while something is eligible, turns
\* for ever once the provider answers.
InitEnds == sync[Cli].init ~> ~sync[Cli].init

\* If the operator keeps running `memory init`, every memorable current judgement
\* is delivered in the end: those the supervisor failed to deliver, those stored
\* before their run, and those of a repaired verdict.
InitRemembers ==
    ([]<>(sync[Cli].init)) =>
       <>[](\A i \in Memorable :
              \E k \in DOMAIN outbox :
                 outbox[k].learning.of = history[i].at /\ outbox[k].state = "delivered")
=============================================================================
