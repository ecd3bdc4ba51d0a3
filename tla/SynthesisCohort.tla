--------------------------- MODULE SynthesisCohort ---------------------------
(***************************************************************************)
(* How research ideas enter the queue and which of them may be tested.  A     *)
(* planner takes the only planning lease, asks an agent for a cohort of        *)
(* ideas and inserts each as significance tests (one per route) and a          *)
(* baseline that depends on them; the cohort becomes active when all are in.   *)
(* The significance gate reads the first finished test of an entry rule and    *)
(* route, controls the false discovery rate over a cohort, and releases,       *)
(* holds or archives the baselines.                                            *)
(*                                                                         *)
(* Every action is one transaction, except that the inserts of one baseline    *)
(* and of one test (each a few statements on one id) are one action.  Claims,  *)
(* retries and evaluations of the items are those of WorkQueue: here a         *)
(* running item is measured, errors or is blocked.                             *)
(*                                                                         *)
(* Operators named ...Slip are the definition below them with one mistake.    *)
(***************************************************************************)
EXTENDS Naturals, FiniteSets, Sequences

CONSTANTS
    Supervisors,   \* processes with a main, a synthesis and an analysis thread
    Cli,           \* the operator's `synthesize` command
    Cohorts,       \* rows of synthesis_cohorts
    NoCohort,      \* entry_rule.cohort_id IS NULL
    Ideas, Rules, Routes,
    RuleOf,        \* entry fingerprint of an idea
    RoutesOf,      \* its routes
    LeadOf,        \* the first of them
    Revisions,     \* ideas that revise an experiment; the others are new
    NonEntry,      \* revisions that keep the entry rule, and skip significance
    NoIdea,
    PValues,       \* in thousandths
    FdrLevel,      \* significance_fdr_level, in thousandths
    Requested,     \* synthesis_generate_limit
    Limit,         \* active_ready_limit
    LowWatermark,  \* synthesis_low_watermark
    MaxEvents      \* bound: processes killed, leases that expire under a live
                   \* planner, tests that error or are blocked, uses of `synthesize`

Planners == Supervisors \cup {Cli}

ASSUME CohortAssumption ==
    /\ Cli \notin Supervisors /\ NoCohort \notin Cohorts /\ NoIdea \notin Ideas
    /\ IsFiniteSet(Ideas) /\ IsFiniteSet(Routes) /\ IsFiniteSet(Cohorts)
    /\ Routes # {}
    /\ RuleOf \in [Ideas -> Rules]
    /\ RoutesOf \in [Ideas -> SUBSET Routes]
    /\ LeadOf \in [Ideas -> Routes]
    /\ \A i \in Ideas : LeadOf[i] \in RoutesOf[i]
    /\ NonEntry \subseteq Revisions /\ Revisions \subseteq Ideas
    /\ PValues \subseteq 0 .. 1000
    /\ FdrLevel \in 1 .. 1000
    /\ Requested \in Nat \ {0} /\ Limit \in Nat \ {0} /\ LowWatermark \in Nat
    /\ MaxEvents \in Nat

VARIABLES
    cohort,   \* synthesis_cohorts with their chains
    test,     \* significance work items, per idea and route
    base,     \* state of the idea's baseline work item
    first,    \* the binding test of a rule and route: its p-value and experiment
    plan,     \* per planner: what its synthesis thread is doing
    pc,       \* per supervisor: the next transaction of its main thread
    turn,     \* per supervisor: what its analysis thread still has to do
    events    \* how much of the bound is used

vars == <<cohort, test, base, first, plan, pc, turn, events>>

Untested == 1001

TestStates == {"none", "scheduled", "ready", "running", "measured", "errored",
               "finished", "blocked"}
BaseStates == {"none", "scheduled", "ready", "running", "finished", "archived",
               "dependency_blocked"}
Gates  == {"awaiting", "passed", "bh", "withheld", "inconclusive", "failed"}
Passed == {"passed", "bh"}

Labels == {"idle", "dispatch", "capacity", "tests", "baseline", "activate"}

\* `lapsed` is planning with lease_expires_at in the past, `cooled` is failed
\* longer ago than the retry cooldown.
Cohort == [status : {"none", "planning", "lapsed", "active", "drained", "failed", "cooled"},
           chains : SUBSET Ideas]
Test   == [state : TestStates, gate : Gates, family : Cohorts \cup {NoCohort}]
First  == [p : PValues \cup {Untested}, by : Ideas \cup {NoIdea}]
Plan   == [at : Labels,
           cohort : Cohorts \cup {NoCohort}, asked : SUBSET Ideas, todo : Seq(Ideas),
           complete : BOOLEAN, release : BOOLEAN, seen : [Routes -> PValues \cup {Untested}],
           done : SUBSET Routes]
PCs    == {"refresh", "reconcile", "promote", "reserve", "claim"}
Turn   == [at : {"idle", "gate", "archive"}, idea : Ideas \cup {NoIdea}, route : Routes]

-----------------------------------------------------------------------------
Happens == events < MaxEvents /\ events' = events + 1

Goto(w, label) == pc' = [pc EXCEPT ![w] = label]

Unseen == [r \in Routes |-> Untested]

NoPlan == [at |-> "idle", cohort |-> NoCohort, asked |-> {}, todo |-> <<>>,
           complete |-> TRUE, release |-> FALSE, seen |-> Unseen, done |-> {}]

NoTurn == [at |-> "idle", idea |-> NoIdea, route |-> CHOOSE r \in Routes : TRUE]

TestsOf(i) == IF i \in NonEntry THEN {} ELSE RoutesOf[i]

Absent == [state |-> "none", gate |-> "awaiting", family |-> NoCohort]

Busy == {"ready", "running", "measured", "errored"}

\* SELECT COUNT(*) ... state IN ('ready','running').
ActiveIn(t, b) ==
    LET tests == {x \in Ideas \X Routes : t[x[1]][x[2]].state \in Busy}
        bases == {i \in Ideas : b[i] \in Busy}
    IN  Cardinality(tests) + Cardinality(bases)

Active == ActiveIn(test, base)
Room   == IF Active < Limit THEN Limit - Active ELSE 0

Live == {"scheduled"} \cup Busy

LiveItems(i) == {r \in Routes : test[i][r].state \in Live}
IsLive(i)    == base[i] \in Live \/ LiveItems(i) # {}

\* The binding p-value of a test's rule and route.
PValue(i, r) == first[RuleOf[i]][r].p

\* Raw classes of a p-value: significance_p gates of ExperimentSpec.
RawGate(p) == IF p = Untested THEN "awaiting"
              ELSE IF p < 50 THEN "passed"
              ELSE IF p <= 100 THEN "inconclusive" ELSE "failed"

\* Every significance parent is finished and its gate passed.
Cleared(t, i) == \A r \in TestsOf(i) : /\ t[i][r].state = "finished"
                                       /\ t[i][r].gate \in Passed

Init ==
    /\ cohort = [k \in Cohorts |-> [status |-> "none", chains |-> {}]]
    /\ test = [i \in Ideas |-> [r \in Routes |-> Absent]]
    /\ base = [i \in Ideas |-> "none"]
    /\ first = [u \in Rules |-> [r \in Routes |-> [p |-> Untested, by |-> NoIdea]]]
    /\ plan = [w \in Planners |-> NoPlan]
    /\ pc = [w \in Supervisors |-> "refresh"]
    /\ turn = [w \in Supervisors |-> NoTurn]
    /\ events = 0

-----------------------------------------------------------------------------
(* The main thread: one round of the queue.                                  *)

\* refresh_synthesis_cohorts: a cohort without live work items is drained.
Refresh(w) ==
    /\ pc[w] = "refresh"
    /\ cohort' = [k \in Cohorts |->
                    IF cohort[k].status = "active" /\ \A i \in cohort[k].chains : ~ IsLive(i)
                      THEN [cohort[k] EXCEPT !.status = "drained"]
                      ELSE cohort[k]]
    /\ Goto(w, "reconcile")
    /\ UNCHANGED <<test, base, first, plan, turn, events>>

\* reconcile_scheduled_dependencies: a blocked or un-passed parent blocks a
\* scheduled child; once every parent is finished and passed it is scheduled again.
Stuck(i) == \E r \in TestsOf(i) :
               \/ test[i][r].state = "blocked"
               \/ test[i][r].state = "finished" /\ test[i][r].gate \notin Passed

Reopens(i) == Cleared(test, i)

ReconcileDependencies(w) ==
    /\ pc[w] = "reconcile"
    /\ base' = [i \in Ideas |->
                  IF base[i] = "scheduled" /\ Stuck(i) THEN "dependency_blocked"
                  ELSE IF base[i] = "dependency_blocked" /\ Reopens(i) THEN "scheduled"
                  ELSE base[i]]
    /\ Goto(w, "promote")
    /\ UNCHANGED <<cohort, test, first, plan, turn, events>>

\* Scheduled items whose dependencies are finished and passed.
RunnableTests == {x \in Ideas \X Routes : test[x[1]][x[2]].state = "scheduled"}

\* Slip: an item with dependencies is left to the gate.
RunnableSlip == {i \in Ideas : base[i] = "scheduled" /\ TestsOf(i) = {}}

RunnableBases == {i \in Ideas : base[i] = "scheduled" /\ Cleared(test, i)}

\* promote_scheduled_runnable fills the room by priority, which is not told
\* apart here: any choice that leaves no room to a runnable item.
Promote(w) ==
    /\ pc[w] = "promote"
    /\ \E T \in SUBSET RunnableTests, B \in SUBSET RunnableBases :
         /\ Cardinality(T) + Cardinality(B) <= Room
         /\ \/ Cardinality(T) + Cardinality(B) = Room
            \/ T = RunnableTests /\ B = RunnableBases
         /\ test' = [i \in Ideas |-> [r \in Routes |->
                       IF <<i, r>> \in T THEN [test[i][r] EXCEPT !.state = "ready"]
                                         ELSE test[i][r]]]
         /\ base' = [i \in Ideas |-> IF i \in B THEN "ready" ELSE base[i]]
    /\ Goto(w, "reserve")
    /\ UNCHANGED <<cohort, first, plan, turn, events>>

InStatus(c, s) == {k \in Cohorts : c[k].status = s}

Chains == {<<k, i>> : k \in Cohorts, i \in Ideas}

\* remaining_chain_count: live chains, and live items outside every chain.
Remaining ==
    LET tracked   == {x \in Chains : x[2] \in cohort[x[1]].chains /\ IsLive(x[2])}
        untracked == {i \in Ideas : \A k \in Cohorts : i \notin cohort[k].chains}
        bases     == {i \in untracked : base[i] \in Live}
        tests     == {x \in untracked \X Routes : test[x[1]][x[2]].state \in Live}
    IN  Cardinality(tracked) + Cardinality(bases) + Cardinality(tests)

\* Slip: the lease of a planner that still plans does not count.
MayPlanSlip(c) ==
    LET failures == Cardinality(InStatus(c, "failed"))
    IN  /\ Remaining <= LowWatermark
        /\ failures < 2 /\ (failures > 0 => Remaining > 0)

\* One planner at a time, a queue at the watermark, and one replacement of a
\* failed cohort per cooldown unless the queue is empty.
MayPlan(c) ==
    LET failures == Cardinality(InStatus(c, "failed"))
    IN  /\ InStatus(c, "planning") = {}
        /\ Remaining <= LowWatermark
        /\ failures < 2 /\ (failures > 0 => Remaining > 0)

\* reserve_synthesis_cohort: expired leases fail, whether or not a row follows.
Expired == [k \in Cohorts |-> IF cohort[k].status = "lapsed"
                                THEN [cohort[k] EXCEPT !.status = "failed"] ELSE cohort[k]]

\* Slip: expired leases fail only when a new cohort follows.
ReserveSlip(w) ==
    /\ pc[w] = "reserve"
    /\ Goto(w, "claim")
    /\ UNCHANGED <<test, base, first, turn, events>>
    /\ \/ /\ plan[w].at # "idle" \/ ~ MayPlan(Expired) \/ InStatus(cohort, "none") = {}
          /\ UNCHANGED <<cohort, plan>>
       \/ /\ plan[w].at = "idle" /\ MayPlan(Expired)
          /\ \E k \in InStatus(cohort, "none") :
               /\ cohort' = [Expired EXCEPT ![k].status = "planning"]
               /\ plan' = [plan EXCEPT ![w] = [NoPlan EXCEPT !.at = "dispatch", !.cohort = k]]

Reserve(w) ==
    /\ pc[w] = "reserve"
    /\ Goto(w, "claim")
    /\ UNCHANGED <<test, base, first, turn, events>>
    /\ \/ plan[w].at # "idle" /\ UNCHANGED <<cohort, plan>>
       \/ /\ plan[w].at = "idle"
          /\ ~ MayPlan(Expired) \/ InStatus(cohort, "none") = {}
          /\ cohort' = Expired
          /\ UNCHANGED plan
       \/ /\ plan[w].at = "idle" /\ MayPlan(Expired)
          /\ \E k \in InStatus(cohort, "none") :
               /\ cohort' = [Expired EXCEPT ![k].status = "planning"]
               /\ plan' = [plan EXCEPT ![w] = [NoPlan EXCEPT !.at = "dispatch", !.cohort = k]]

Claimable(i) == base[i] = "ready" /\ Cleared(test, i)

\* claim_batch: ready items whose parents are finished and passed.
Claim(w) ==
    /\ pc[w] = "claim"
    /\ test' = [i \in Ideas |-> [r \in Routes |->
                  IF test[i][r].state = "ready" THEN [test[i][r] EXCEPT !.state = "running"]
                                                ELSE test[i][r]]]
    /\ base' = [i \in Ideas |-> IF Claimable(i) THEN "running" ELSE base[i]]
    /\ Goto(w, "refresh")
    /\ UNCHANGED <<cohort, first, plan, turn, events>>

-----------------------------------------------------------------------------
(* The synthesis thread: dispatch, validate, insert, activate.               *)

\* fail_synthesis_cohort leaves a cohort that is no longer planning alone.
FailCohort(k) ==
    cohort' = IF k \in Cohorts /\ cohort[k].status \in {"planning", "lapsed"}
                THEN [cohort EXCEPT ![k].status = "failed"] ELSE cohort

Inserted(i) == base[i] # "none" \/ \E r \in Routes : test[i][r].state # "none"

\* _validate_cohort_request: a new concept repeats no known entry rule, nor
\* another one of its batch.
Valid(asked) ==
    \A i \in asked \ Revisions :
       /\ \A j \in Ideas : RuleOf[j] = RuleOf[i] => ~ Inserted(j)
       /\ \A j \in asked \ Revisions : RuleOf[j] = RuleOf[i] => j = i

\* Answers of the agent, over-generation trimmed: distinct ideas in slot order.
Answers == {s \in [1 .. Requested -> Ideas] :
              \A m, n \in 1 .. Requested : s[m] = s[n] => m = n}

\* No usable answer, or one that is refused before anything is inserted.
DispatchFails(w) ==
    /\ plan[w].at = "dispatch"
    /\ FailCohort(plan[w].cohort)
    /\ plan' = [plan EXCEPT ![w] = NoPlan]
    /\ UNCHANGED <<test, base, first, pc, turn, events>>

Dispatch(w) ==
    /\ plan[w].at = "dispatch"
    /\ \E s \in Answers :
         LET asked == {s[n] : n \in 1 .. Requested}
         IN  /\ Valid(asked)
             /\ plan' = [plan EXCEPT ![w].at = "capacity", ![w].asked = asked,
                                     ![w].todo = s]
    /\ UNCHANGED <<cohort, test, base, first, pc, turn, events>>

Next1(w) == Head(plan[w].todo)   \* the idea at hand

\* The label after an idea: the next one, or the end of apply_batch.
Advance(w, p) ==
    [p EXCEPT !.todo = Tail(@), !.release = FALSE, !.seen = Unseen, !.done = {},
              !.at = IF Tail(p.todo) # <<>> THEN "capacity"
                     ELSE IF p.cohort = NoCohort THEN "idle" ELSE "activate"]

\* apply_batch reads the active count, then calls synthesize.
ReadCapacity(w) ==
    /\ plan[w].at = "capacity"
    /\ plan' = [plan EXCEPT ![w].release = Active < Limit,
                            ![w].at = IF TestsOf(Next1(w)) = {} THEN "baseline" ELSE "tests"]
    /\ UNCHANGED <<cohort, test, base, first, pc, turn, events>>

\* _validate_source: the source of a revision lost its verdict in the meantime.
RejectIdea(w) ==
    /\ plan[w].at = "capacity"
    /\ Next1(w) \in Revisions
    /\ plan' = [plan EXCEPT ![w] = [Advance(w, plan[w]) EXCEPT !.complete = FALSE]]
    /\ UNCHANGED <<cohort, test, base, first, pc, turn, events>>

\* One route of synthesize: read the binding test, insert the work item unless
\* it exists.
InsertTest(w) ==
    /\ plan[w].at = "tests"
    /\ LET i == Next1(w)
           r == IF LeadOf[i] \notin plan[w].done THEN LeadOf[i]
                ELSE CHOOSE q \in TestsOf(i) \ plan[w].done : TRUE
           p == PValue(i, r)
           new == [state |-> IF p # Untested THEN "finished"
                             ELSE IF plan[w].release /\ r = LeadOf[i] THEN "ready"
                             ELSE "scheduled",
                   gate |-> RawGate(p), family |-> plan[w].cohort]
       IN  /\ test' = IF test[i][r].state = "none" THEN [test EXCEPT ![i][r] = new] ELSE test
           /\ plan' = [plan EXCEPT
                ![w].seen[r] = p, ![w].done = @ \cup {r},
                ![w].at = IF TestsOf(i) \subseteq plan[w].done \cup {r} THEN "baseline" ELSE "tests"]
    /\ UNCHANGED <<cohort, base, first, pc, turn, events>>

\* The state synthesize gives a baseline from the p-values it read.
BaselineState(i, seen, release) ==
    LET gates == {RawGate(seen[r]) : r \in TestsOf(i)}
    IN  IF "awaiting" \in gates THEN "scheduled"
        ELSE IF "failed" \in gates THEN "archived"
        ELSE IF "inconclusive" \in gates THEN "scheduled"
        ELSE IF release THEN "ready" ELSE "scheduled"

\* The baseline, its _set_state, and that of tests already decided.
InsertBaseline(w) ==
    /\ plan[w].at = "baseline"
    /\ LET i == Next1(w)
           tested == \A r \in TestsOf(i) : plan[w].seen[r] # Untested
       IN  /\ base' = IF base[i] \in {"none", "scheduled", "ready"}
                        THEN [base EXCEPT ![i] =
                                BaselineState(i, plan[w].seen, plan[w].release)]
                        ELSE base
           /\ test' = [test EXCEPT ![i] = [r \in Routes |->
                         IF /\ r \in TestsOf(i) /\ tested
                            /\ test[i][r].state \in {"scheduled", "ready"}
                           THEN [test[i][r] EXCEPT !.state = "finished"] ELSE test[i][r]]]
    /\ plan' = [plan EXCEPT ![w] = Advance(w, plan[w])]
    /\ UNCHANGED <<cohort, first, pc, turn, events>>

\* Slip: the lease is checked, the rejected requests are not.
ActivatesSlip(p) == cohort[p.cohort].status \in {"planning", "lapsed"}

\* activate_synthesis_cohort needs the status `planning` and every chain.
Activates(p) == p.complete /\ cohort[p.cohort].status \in {"planning", "lapsed"}

Activate(w) ==
    /\ plan[w].at = "activate"
    /\ LET p == plan[w]
       IN  IF Activates(p)
             THEN cohort' = [cohort EXCEPT ![p.cohort] =
                               [status |-> "active", chains |-> p.asked]]
             ELSE FailCohort(p.cohort)
    /\ plan' = [plan EXCEPT ![w] = NoPlan]
    /\ UNCHANGED <<test, base, first, pc, turn, events>>

\* `ats-lab synthesize`: one idea, no cohort, whatever the capacity.
Synthesize ==
    /\ plan[Cli].at = "idle" /\ Happens
    /\ \E i \in Ideas :
         plan' = [plan EXCEPT ![Cli] =
                    [NoPlan EXCEPT !.at = IF TestsOf(i) = {} THEN "baseline" ELSE "tests",
                                   !.todo = <<i>>, !.release = TRUE]]
    /\ UNCHANGED <<cohort, test, base, first, pc, turn>>

-----------------------------------------------------------------------------
(* Execution and evaluation.                                                 *)

SetTest(i, r, s) == test' = [test EXCEPT ![i][r].state = s]

\* Slip: the latest test of a rule is the binding one.
BindSlip(i, r, p) == first' = [first EXCEPT ![RuleOf[i]][r] = [p |-> p, by |-> i]]

\* Runs are ordered by finished_at: the first one of a rule and route binds.
Bind(i, r, p) ==
    first' = IF PValue(i, r) = Untested
               THEN [first EXCEPT ![RuleOf[i]][r] = [p |-> p, by |-> i]] ELSE first

\* The run of a test is stored; its item still waits for the evaluation.
Measure(i, r) ==
    /\ test[i][r].state = "running"
    /\ \E p \in PValues : Bind(i, r, p)
    /\ SetTest(i, r, "measured")
    /\ UNCHANGED <<cohort, base, plan, pc, turn, events>>

TestErrors(i, r) ==
    /\ test[i][r].state = "running" /\ Happens
    /\ \E s \in {"errored", "blocked"} : SetTest(i, r, s)
    /\ UNCHANGED <<cohort, base, first, plan, pc, turn>>

\* The operator, or the failure recovery, requeues a blocked item.
Requeue(i, r) ==
    /\ test[i][r].state = "blocked"
    /\ SetTest(i, r, "ready")
    /\ UNCHANGED <<cohort, base, first, plan, pc, turn, events>>

BaselineEnds(i) ==
    /\ base[i] = "running"
    /\ base' = [base EXCEPT ![i] = "finished"]
    /\ UNCHANGED <<cohort, test, first, plan, pc, turn, events>>

\* _finalize_analysis: the item finishes first, the rest follows it.
Evaluate(w, i, r) ==
    /\ turn[w].at = "idle"
    /\ test[i][r].state \in {"measured", "errored"}
    /\ turn' = [turn EXCEPT ![w] = [at |-> IF test[i][r].state = "errored"
                                             THEN "archive" ELSE "gate",
                                    idea |-> i, route |-> r]]
    /\ SetTest(i, r, "finished")
    /\ UNCHANGED <<cohort, base, first, plan, pc, events>>

\* archive_scheduled_dependents of a test whose execution failed.
ArchiveDependents(w) ==
    /\ turn[w].at = "archive"
    /\ base' = [base EXCEPT ![turn[w].idea] = IF @ = "scheduled" THEN "archived" ELSE @]
    /\ turn' = [turn EXCEPT ![w] = NoTurn]
    /\ UNCHANGED <<cohort, test, first, plan, pc, events>>

-----------------------------------------------------------------------------
(* reconcile_significance_gate.                                              *)

\* A test outside any cohort: the first test of its rule and route decides it,
\* if that is its own; otherwise it is superseded.
GateAlone(w) ==
    LET i == turn[w].idea
        r == turn[w].route
        decision == RawGate(PValue(i, r))
        after == [test EXCEPT ![i][r].gate = decision]
    IN  /\ turn[w].at = "gate" /\ test[i][r].family = NoCohort
        /\ turn' = [turn EXCEPT ![w] = NoTurn]
        /\ IF first[RuleOf[i]][r].by # i
             THEN UNCHANGED <<test, base>>
             ELSE /\ test' = after
                  /\ base' = [base EXCEPT ![i] =
                       IF @ # "scheduled" THEN @
                       ELSE IF decision = "failed" THEN "archived"
                       ELSE IF decision = "passed" /\ Cleared(after, i) /\ Room > 0
                         THEN "ready" ELSE @]
        /\ UNCHANGED <<cohort, first, plan, pc, events>>

\* The tests that name cohort k, as far as they are inserted.
Family(k) == {x \in Ideas \X Routes : /\ test[x[1]][x[2]].state # "none"
                                      /\ test[x[1]][x[2]].family = k}

\* Slip: every test is held to the threshold of its own rank.
RejectedSlip(F, x) ==
    LET p(y) == PValue(y[1], y[2])
    IN  p(x) * Cardinality(F) <= FdrLevel * Cardinality({z \in F : p(z) <= p(x)})

\* benjamini_hochberg: at or below the largest p(k) with p(k) <= k * level / m.
\* Equal p-values share the last of their ranks, which rejects the same tests.
Rejected(F, x) ==
    LET p(y) == PValue(y[1], y[2])
    IN  \E y \in F : /\ p(x) <= p(y)
                     /\ p(y) * Cardinality(F)
                          <= FdrLevel * Cardinality({z \in F : p(z) <= p(y)})

FdrGate(F, x) ==
    LET raw == RawGate(PValue(x[1], x[2]))
    IN  IF raw # "passed" THEN raw ELSE IF Rejected(F, x) THEN "bh" ELSE "withheld"

\* Some test of the cohort has no binding p-value yet: nothing is recorded.
GateWaits(w) ==
    LET k == test[turn[w].idea][turn[w].route].family
    IN  /\ turn[w].at = "gate" /\ k # NoCohort
        /\ \E x \in Family(k) : PValue(x[1], x[2]) = Untested
        /\ turn' = [turn EXCEPT ![w] = NoTurn]
        /\ UNCHANGED <<cohort, test, base, first, plan, pc, events>>

\* All are tested: the decisions of the whole cohort are recorded anew, one
\* test after the other, each releasing its baseline at once.  A baseline is
\* released at a passed test if the others are passed by then: those behind it
\* in the order still have their former decision.  The order is that of slots
\* and ids, which are hashes; here it is any.
Releasable(F, after, i) ==
    /\ base[i] = "scheduled"
    /\ \E r \in TestsOf(i) : <<i, r>> \in F /\ after[i][r].gate = "bh"
    /\ \A r \in TestsOf(i) :
         /\ test[i][r].state = "finished"
         /\ after[i][r].gate \in Passed \/ test[i][r].gate \in Passed

\* Slip: the active count is not carried from one release to the next.
FitsSlip(n) == n = 0 \/ Active < Limit

\* n baselines fit under the active limit.
Fits(n) == n <= Room

GateCohort(w) ==
    LET k == test[turn[w].idea][turn[w].route].family
        F == Family(k)
        after == [i \in Ideas |-> [r \in Routes |->
                    IF <<i, r>> \in F THEN [test[i][r] EXCEPT !.gate = FdrGate(F, <<i, r>>)]
                                      ELSE test[i][r]]]
        may  == {i \in Ideas : Releasable(F, after, i)}
        sure == {i \in may : Cleared(after, i)}
        failed(i) == \E r \in TestsOf(i) : <<i, r>> \in F /\ after[i][r].gate = "failed"
    IN  /\ turn[w].at = "gate" /\ k # NoCohort
        /\ \A x \in F : PValue(x[1], x[2]) # Untested
        /\ test' = after
        /\ \E R \in SUBSET may :
             /\ Fits(Cardinality(R))
             /\ Fits(Cardinality(R) + 1) => sure \subseteq R
             /\ base' = [i \in Ideas |->
                           IF i \in R THEN "ready"
                           ELSE IF base[i] = "scheduled" /\ failed(i) THEN "archived"
                           ELSE base[i]]
        /\ turn' = [turn EXCEPT ![w] = NoTurn]
        /\ UNCHANGED <<cohort, first, plan, pc, events>>

-----------------------------------------------------------------------------
(* Time and crashes.                                                         *)

\* A lease runs out: its planner is gone, or takes too long.
Lapse(k) ==
    /\ cohort[k].status = "planning"
    /\ cohort' = [cohort EXCEPT ![k].status = "lapsed"]
    /\ IF \E w \in Planners : plan[w].cohort = k THEN Happens ELSE UNCHANGED events
    /\ UNCHANGED <<test, base, first, plan, pc, turn>>

\* The retry cooldown of a failed cohort passes.
Cool(k) ==
    /\ cohort[k].status = "failed"
    /\ cohort' = [cohort EXCEPT ![k].status = "cooled"]
    /\ UNCHANGED <<test, base, first, plan, pc, turn, events>>

Crash(w) ==
    /\ Happens
    /\ plan' = [plan EXCEPT ![w] = NoPlan]
    /\ pc' = [pc EXCEPT ![w] = "refresh"]
    /\ turn' = [turn EXCEPT ![w] = NoTurn]
    /\ UNCHANGED <<cohort, test, base, first>>

-----------------------------------------------------------------------------
MainStep(w) == Refresh(w) \/ ReconcileDependencies(w) \/ Promote(w) \/ Reserve(w) \/ Claim(w)

PlanStep(w) == \/ DispatchFails(w) \/ Dispatch(w) \/ ReadCapacity(w) \/ RejectIdea(w)
               \/ InsertTest(w) \/ InsertBaseline(w) \/ Activate(w)

GateStep(w) == ArchiveDependents(w) \/ GateAlone(w) \/ GateWaits(w) \/ GateCohort(w)

Run(i, r) == Measure(i, r) \/ TestErrors(i, r) \/ Requeue(i, r)

Next ==
    \/ \E w \in Supervisors : MainStep(w) \/ GateStep(w) \/ Crash(w)
    \/ \E w \in Planners : PlanStep(w)
    \/ Synthesize
    \/ \E i \in Ideas : BaselineEnds(i)
    \/ \E i \in Ideas, r \in Routes : Run(i, r)
    \/ \E w \in Supervisors, i \in Ideas, r \in Routes : Evaluate(w, i, r)
    \/ \E k \in Cohorts : Lapse(k) \/ Cool(k)

Spec == Init /\ [][Next]_vars

\* Every thread takes its next step, every item it runs comes to an end and
\* the clock goes on; crashes, failures and the operator are free.
Fairness ==
    /\ \A w \in Supervisors : WF_vars(MainStep(w)) /\ WF_vars(GateStep(w))
    /\ \A w \in Planners : WF_vars(PlanStep(w))
    /\ \A i \in Ideas : WF_vars(BaselineEnds(i))
    /\ \A i \in Ideas, r \in Routes : WF_vars(Measure(i, r))
    /\ \A i \in Ideas, r \in Routes :
         WF_vars(\E w \in Supervisors : Evaluate(w, i, r))
    /\ \A k \in Cohorts : WF_vars(Lapse(k))

FairSpec == Spec /\ Fairness

-----------------------------------------------------------------------------
(* Properties.                                                               *)

\* Every variable holds a value of its type.
TypeOK ==
    /\ cohort \in [Cohorts -> Cohort]
    /\ test \in [Ideas -> [Routes -> Test]]
    /\ base \in [Ideas -> BaseStates]
    /\ first \in [Rules -> [Routes -> First]]
    /\ plan \in [Planners -> Plan]
    /\ pc \in [Supervisors -> PCs]
    /\ turn \in [Supervisors -> Turn]
    /\ events \in 0 .. MaxEvents

\* A baseline that has been claimed has earned it: the first test of its entry
\* rule on every one of its routes is significant, whatever later tests, other
\* ideas with its rule, lost gates or repeated `synthesize` commands did.
EarnedBaselines ==
    \A i \in Ideas : base[i] \in {"running", "finished"} =>
       \A r \in TestsOf(i) : PValue(i, r) < 50

\* The decisions of a cohort are those of one family: no test is withheld while
\* one of the cohort with a p-value no smaller passes the false discovery
\* control, although they are taken again whenever a member is evaluated.
FamilyAgrees ==
    \A i, j \in Ideas, q, r \in Routes :
       /\ test[i][q].family = test[j][r].family
       /\ test[i][q].gate = "bh" /\ test[j][r].gate = "withheld"
       => PValue(i, q) < PValue(j, r)

\* At most one cohort is being planned, although reserving, inserting and
\* activating are transactions of several processes and leases run out.
OneLease == Cardinality({k \in Cohorts : cohort[k].status \in {"planning", "lapsed"}}) <= 1

\* A cohort becomes active only when all requested chains are in the queue:
\* after a rejected request, a crash or a lost lease it never does.
ActiveIsComplete ==
    \A k \in Cohorts : cohort[k].status \in {"active", "drained"} =>
       /\ Cardinality(cohort[k].chains) = Requested
       /\ \A i \in cohort[k].chains :
            base[i] # "none" /\ \A r \in TestsOf(i) : test[i][r].state # "none"

\* Only an insert, whose capacity was read before, or a requeued item takes the
\* active items over the limit; promotions and gate decisions never do, however
\* many baselines one of them releases.
ReleasesFit ==
    [][Active' > Active /\ Active' > Limit =>
         \/ \E i \in Ideas, r \in Routes :
              test[i][r].state \in {"none", "blocked"} /\ test'[i][r].state = "ready"
         \/ \E w \in Planners : plan[w].at = "baseline" /\ plan'[w].at # "baseline"]_vars

\* A planning lease is not held for ever: whether its planner finishes, fails or
\* is killed, the cohort is decided, and the next one can be planned.
PlanningEnds ==
    \A k \in Cohorts : (cohort[k].status \in {"planning", "lapsed"})
                          ~> (cohort[k].status \notin {"planning", "lapsed"})

\* Every test of the baseline is evaluated and significant by itself.
Significant(i) == \A r \in TestsOf(i) :
    test[i][r].state = "finished" /\ RawGate(PValue(i, r)) = "passed"

\* A test that is evaluated, with the rest of its cohort, and at whose gate
\* nobody is any more, has no decision: the process died between the two, or
\* the gate met a test of the cohort that has no p-value and will have none.
Undecided(i, r) ==
    LET k == test[i][r].family
        F == IF k = NoCohort THEN {<<i, r>>} ELSE Family(k)
    IN  /\ test[i][r].gate = "awaiting"
        /\ \A x \in F : test[x[1]][x[2]].state = "finished"
        /\ \A w \in Supervisors :
             turn[w].at = "gate" => <<turn[w].idea, turn[w].route>> \notin F

\* A baseline whose tests are evaluated and significant does not wait for ever,
\* whether it is held for capacity or was blocked before the gate was reached:
\* it is run or archived, unless the false discovery control withholds a test or
\* a test stays undecided.  Nothing takes up a decision that was lost in a crash
\* (supervisor.py:1714-1723): such a baseline does wait for ever.
PassedChainsResolve ==
    \A i \in Ideas :
       (base[i] \in {"scheduled", "dependency_blocked", "ready"} /\ Significant(i))
          ~> \/ base[i] \in {"running", "finished", "archived"}
             \/ \E r \in TestsOf(i) : test[i][r].gate = "withheld" \/ Undecided(i, r)

=============================================================================
