----------------------- MODULE SynthesisCohortProofs -----------------------
(***************************************************************************)
(* Proofs about SynthesisCohort for any supervisors, cohorts, ideas, rules    *)
(* and routes, any p-values and any number of crashes, lapsed leases, failed  *)
(* tests and uses of `synthesize`.                                            *)
(***************************************************************************)
EXTENDS SynthesisCohort, FiniteSetTheorems, TLAPS

\* Several fields of one planner's plan are rewritten as one plan.
LEMMA RewriteTwo ==
    ASSUME NEW S, NEW T, NEW f \in [S -> T], NEW w \in S, NEW x, NEW y
    PROVE  [f EXCEPT ![w].release = x, ![w].at = y]
             = [f EXCEPT ![w] = [f[w] EXCEPT !.release = x, !.at = y]]
  OBVIOUS

LEMMA RewriteThree ==
    ASSUME NEW S, NEW T, NEW f \in [S -> T], NEW w \in S, NEW x, NEW y, NEW z
    PROVE  [f EXCEPT ![w].at = x, ![w].asked = y, ![w].todo = z]
             = [f EXCEPT ![w] = [f[w] EXCEPT !.at = x, !.asked = y, !.todo = z]]
  OBVIOUS

LEMMA RewriteTested ==
    ASSUME NEW S, NEW T, NEW f \in [S -> T], NEW w \in S, NEW r, NEW x, NEW z
    PROVE  [f EXCEPT ![w].seen[r] = x, ![w].done = @ \cup {r}, ![w].at = z]
             = [f EXCEPT ![w] = [f[w] EXCEPT !.seen = [f[w].seen EXCEPT ![r] = x],
                                             !.done = f[w].done \cup {r}, !.at = z]]
  OBVIOUS

LEMMA RewriteState ==
    ASSUME NEW S, NEW R, NEW T, NEW f \in [S -> [R -> T]], NEW i \in S, NEW r \in R, NEW x
    PROVE  [f EXCEPT ![i][r].state = x] = [f EXCEPT ![i][r] = [f[i][r] EXCEPT !.state = x]]
  OBVIOUS

LEMMA RewriteGate ==
    ASSUME NEW S, NEW R, NEW T, NEW f \in [S -> [R -> T]], NEW i \in S, NEW r \in R, NEW x
    PROVE  [f EXCEPT ![i][r].gate = x] = [f EXCEPT ![i][r] = [f[i][r] EXCEPT !.gate = x]]
  OBVIOUS

\* One cell of a table of rows and columns is replaced.
LEMMA CellPut ==
    ASSUME NEW S, NEW R, NEW T, NEW f \in [S -> [R -> T]], NEW i \in S, NEW r \in R, NEW x \in T
    PROVE  /\ [f EXCEPT ![i][r] = x] \in [S -> [R -> T]]
           /\ \A j \in S, q \in R :
                [f EXCEPT ![i][r] = x][j][q] = IF j = i /\ q = r THEN x ELSE f[j][q]
  OBVIOUS

USE CohortAssumption

CohortMoves ==
    \/ \E w \in Supervisors : Refresh(w)
    \/ \E w \in Supervisors : Reserve(w)
    \/ \E w \in Planners : DispatchFails(w)
    \/ \E w \in Planners : Activate(w)
    \/ \E k \in Cohorts : Lapse(k)
    \/ \E k \in Cohorts : Cool(k)

TestMoves ==
    \/ \E w \in Supervisors : Promote(w)
    \/ \E w \in Supervisors : Claim(w)
    \/ \E w \in Supervisors : GateAlone(w)
    \/ \E w \in Supervisors : GateCohort(w)
    \/ \E w \in Planners : InsertTest(w)
    \/ \E w \in Planners : InsertBaseline(w)
    \/ \E i \in Ideas, r \in Routes : Measure(i, r)
    \/ \E i \in Ideas, r \in Routes : TestErrors(i, r)
    \/ \E i \in Ideas, r \in Routes : Requeue(i, r)
    \/ \E w \in Supervisors, i \in Ideas, r \in Routes : Evaluate(w, i, r)

BaseMoves ==
    \/ \E w \in Supervisors : ReconcileDependencies(w)
    \/ \E w \in Supervisors : Promote(w)
    \/ \E w \in Supervisors : Claim(w)
    \/ \E w \in Supervisors : ArchiveDependents(w)
    \/ \E w \in Supervisors : GateAlone(w)
    \/ \E w \in Supervisors : GateCohort(w)
    \/ \E w \in Planners : InsertBaseline(w)
    \/ \E i \in Ideas : BaselineEnds(i)

FirstMoves ==
    \/ \E i \in Ideas, r \in Routes : Measure(i, r)

PlanMoves ==
    \/ \E w \in Supervisors : Reserve(w)
    \/ \E w \in Supervisors : Crash(w)
    \/ \E w \in Planners : DispatchFails(w)
    \/ \E w \in Planners : Dispatch(w)
    \/ \E w \in Planners : ReadCapacity(w)
    \/ \E w \in Planners : RejectIdea(w)
    \/ \E w \in Planners : InsertTest(w)
    \/ \E w \in Planners : InsertBaseline(w)
    \/ \E w \in Planners : Activate(w)
    \/ Synthesize

PcMoves ==
    \/ \E w \in Supervisors : Refresh(w)
    \/ \E w \in Supervisors : ReconcileDependencies(w)
    \/ \E w \in Supervisors : Promote(w)
    \/ \E w \in Supervisors : Reserve(w)
    \/ \E w \in Supervisors : Claim(w)
    \/ \E w \in Supervisors : Crash(w)

TurnMoves ==
    \/ \E w \in Supervisors : ArchiveDependents(w)
    \/ \E w \in Supervisors : GateAlone(w)
    \/ \E w \in Supervisors : GateWaits(w)
    \/ \E w \in Supervisors : GateCohort(w)
    \/ \E w \in Supervisors : Crash(w)
    \/ \E w \in Supervisors, i \in Ideas, r \in Routes : Evaluate(w, i, r)

EventsMoves ==
    \/ \E w \in Supervisors : Crash(w)
    \/ Synthesize
    \/ \E i \in Ideas, r \in Routes : TestErrors(i, r)
    \/ \E k \in Cohorts : Lapse(k)

\* Each variable is changed by the actions its step names and no other.
LEMMA Frame ==
    ASSUME [Next]_vars
    PROVE  /\ UNCHANGED cohort \/ CohortMoves
           /\ UNCHANGED test \/ TestMoves
           /\ UNCHANGED base \/ BaseMoves
           /\ UNCHANGED first \/ FirstMoves
           /\ UNCHANGED plan \/ PlanMoves
           /\ UNCHANGED pc \/ PcMoves
           /\ UNCHANGED turn \/ TurnMoves
           /\ UNCHANGED events \/ EventsMoves
<1> DEFINE Goal ==
      /\ UNCHANGED cohort \/ CohortMoves
      /\ UNCHANGED test \/ TestMoves
      /\ UNCHANGED base \/ BaseMoves
      /\ UNCHANGED first \/ FirstMoves
      /\ UNCHANGED plan \/ PlanMoves
      /\ UNCHANGED pc \/ PcMoves
      /\ UNCHANGED turn \/ TurnMoves
      /\ UNCHANGED events \/ EventsMoves
<1>1. ASSUME NEW w \in Supervisors, Refresh(w) PROVE Goal
  <2>1. UNCHANGED <<test, base, first, plan, turn, events>>
    BY <1>1 DEF Refresh
  <2>2. QED
    BY <1>1, <2>1 DEF CohortMoves, PcMoves
<1>2. ASSUME NEW w \in Supervisors, ReconcileDependencies(w) PROVE Goal
  <2>1. UNCHANGED <<cohort, test, first, plan, turn, events>>
    BY <1>2 DEF ReconcileDependencies
  <2>2. QED
    BY <1>2, <2>1 DEF BaseMoves, PcMoves
<1>3. ASSUME NEW w \in Supervisors, Promote(w) PROVE Goal
  <2>1. UNCHANGED <<cohort, first, plan, turn, events>>
    BY <1>3 DEF Promote
  <2>2. QED
    BY <1>3, <2>1 DEF TestMoves, BaseMoves, PcMoves
<1>4. ASSUME NEW w \in Supervisors, Reserve(w) PROVE Goal
  <2>1. UNCHANGED <<test, base, first, turn, events>>
    BY <1>4 DEF Reserve
  <2>2. QED
    BY <1>4, <2>1 DEF CohortMoves, PlanMoves, PcMoves
<1>5. ASSUME NEW w \in Supervisors, Claim(w) PROVE Goal
  <2>1. UNCHANGED <<cohort, first, plan, turn, events>>
    BY <1>5 DEF Claim
  <2>2. QED
    BY <1>5, <2>1 DEF TestMoves, BaseMoves, PcMoves
<1>6. ASSUME NEW w \in Supervisors, ArchiveDependents(w) PROVE Goal
  <2>1. UNCHANGED <<cohort, test, first, plan, pc, events>>
    BY <1>6 DEF ArchiveDependents
  <2>2. QED
    BY <1>6, <2>1 DEF BaseMoves, TurnMoves
<1>7. ASSUME NEW w \in Supervisors, GateAlone(w) PROVE Goal
  <2>1. UNCHANGED <<cohort, first, plan, pc, events>>
    BY <1>7 DEF GateAlone
  <2>2. QED
    BY <1>7, <2>1 DEF TestMoves, BaseMoves, TurnMoves
<1>8. ASSUME NEW w \in Supervisors, GateWaits(w) PROVE Goal
  <2>1. UNCHANGED <<cohort, test, base, first, plan, pc, events>>
    BY <1>8 DEF GateWaits
  <2>2. QED
    BY <1>8, <2>1 DEF TurnMoves
<1>9. ASSUME NEW w \in Supervisors, GateCohort(w) PROVE Goal
  <2>1. UNCHANGED <<cohort, first, plan, pc, events>>
    BY <1>9 DEF GateCohort
  <2>2. QED
    BY <1>9, <2>1 DEF TestMoves, BaseMoves, TurnMoves
<1>10. ASSUME NEW w \in Supervisors, Crash(w) PROVE Goal
  <2>1. UNCHANGED <<cohort, test, base, first>>
    BY <1>10 DEF Crash
  <2>2. QED
    BY <1>10, <2>1 DEF PlanMoves, PcMoves, TurnMoves, EventsMoves
<1>11. ASSUME NEW w \in Planners, DispatchFails(w) PROVE Goal
  <2>1. UNCHANGED <<test, base, first, pc, turn, events>>
    BY <1>11 DEF DispatchFails
  <2>2. QED
    BY <1>11, <2>1 DEF CohortMoves, PlanMoves
<1>12. ASSUME NEW w \in Planners, Dispatch(w) PROVE Goal
  <2>1. UNCHANGED <<cohort, test, base, first, pc, turn, events>>
    BY <1>12 DEF Dispatch
  <2>2. QED
    BY <1>12, <2>1 DEF PlanMoves
<1>13. ASSUME NEW w \in Planners, ReadCapacity(w) PROVE Goal
  <2>1. UNCHANGED <<cohort, test, base, first, pc, turn, events>>
    BY <1>13 DEF ReadCapacity
  <2>2. QED
    BY <1>13, <2>1 DEF PlanMoves
<1>14. ASSUME NEW w \in Planners, RejectIdea(w) PROVE Goal
  <2>1. UNCHANGED <<cohort, test, base, first, pc, turn, events>>
    BY <1>14 DEF RejectIdea
  <2>2. QED
    BY <1>14, <2>1 DEF PlanMoves
<1>15. ASSUME NEW w \in Planners, InsertTest(w) PROVE Goal
  <2>1. UNCHANGED <<cohort, base, first, pc, turn, events>>
    BY <1>15 DEF InsertTest
  <2>2. QED
    BY <1>15, <2>1 DEF TestMoves, PlanMoves
<1>16. ASSUME NEW w \in Planners, InsertBaseline(w) PROVE Goal
  <2>1. UNCHANGED <<cohort, first, pc, turn, events>>
    BY <1>16 DEF InsertBaseline
  <2>2. QED
    BY <1>16, <2>1 DEF TestMoves, BaseMoves, PlanMoves
<1>17. ASSUME NEW w \in Planners, Activate(w) PROVE Goal
  <2>1. UNCHANGED <<test, base, first, pc, turn, events>>
    BY <1>17 DEF Activate
  <2>2. QED
    BY <1>17, <2>1 DEF CohortMoves, PlanMoves
<1>18. ASSUME Synthesize PROVE Goal
  <2>1. UNCHANGED <<cohort, test, base, first, pc, turn>>
    BY <1>18 DEF Synthesize
  <2>2. QED
    BY <1>18, <2>1 DEF PlanMoves, EventsMoves
<1>19. ASSUME NEW i \in Ideas, BaselineEnds(i) PROVE Goal
  <2>1. UNCHANGED <<cohort, test, first, plan, pc, turn, events>>
    BY <1>19 DEF BaselineEnds
  <2>2. QED
    BY <1>19, <2>1 DEF BaseMoves
<1>20. ASSUME NEW i \in Ideas, NEW r \in Routes, Measure(i, r) PROVE Goal
  <2>1. UNCHANGED <<cohort, base, plan, pc, turn, events>>
    BY <1>20 DEF Measure
  <2>2. QED
    BY <1>20, <2>1 DEF TestMoves, FirstMoves
<1>21. ASSUME NEW i \in Ideas, NEW r \in Routes, TestErrors(i, r) PROVE Goal
  <2>1. UNCHANGED <<cohort, base, first, plan, pc, turn>>
    BY <1>21 DEF TestErrors
  <2>2. QED
    BY <1>21, <2>1 DEF TestMoves, EventsMoves
<1>22. ASSUME NEW i \in Ideas, NEW r \in Routes, Requeue(i, r) PROVE Goal
  <2>1. UNCHANGED <<cohort, base, first, plan, pc, turn, events>>
    BY <1>22 DEF Requeue
  <2>2. QED
    BY <1>22, <2>1 DEF TestMoves
<1>23. ASSUME NEW w \in Supervisors, NEW i \in Ideas, NEW r \in Routes, Evaluate(w, i, r) PROVE Goal
  <2>1. UNCHANGED <<cohort, base, first, plan, pc, events>>
    BY <1>23 DEF Evaluate
  <2>2. QED
    BY <1>23, <2>1 DEF TestMoves, TurnMoves
<1>24. ASSUME NEW k \in Cohorts, Lapse(k) PROVE Goal
  <2>1. UNCHANGED <<test, base, first, plan, pc, turn>>
    BY <1>24 DEF Lapse
  <2>2. QED
    BY <1>24, <2>1 DEF CohortMoves, EventsMoves
<1>25. ASSUME NEW k \in Cohorts, Cool(k) PROVE Goal
  <2>1. UNCHANGED <<test, base, first, plan, pc, turn, events>>
    BY <1>25 DEF Cool
  <2>2. QED
    BY <1>25, <2>1 DEF CohortMoves
<1>26. ASSUME UNCHANGED vars PROVE Goal
  BY <1>26 DEF vars
<1> HIDE DEF Goal
<1>27. ASSUME NEW w \in Supervisors, MainStep(w) \/ GateStep(w) \/ Crash(w) PROVE Goal
  BY <1>27, <1>1, <1>2, <1>3, <1>4, <1>5, <1>6, <1>7, <1>8, <1>9, <1>10 DEF MainStep, GateStep
<1>28. ASSUME NEW w \in Planners, PlanStep(w) PROVE Goal
  BY <1>28, <1>11, <1>12, <1>13, <1>14, <1>15, <1>16, <1>17 DEF PlanStep
<1>29. ASSUME NEW i \in Ideas, NEW r \in Routes, Run(i, r) PROVE Goal
  BY <1>29, <1>20, <1>21, <1>22 DEF Run
<1>30. Goal
  BY <1>18, <1>19, <1>23, <1>24, <1>25, <1>26, <1>27, <1>28, <1>29 DEF Next
<1>31. QED
  BY <1>30 DEF Goal


-----------------------------------------------------------------------------
(* The cohorts.                                                              *)

\* At most one cohort holds a planning lease.
LeaseIsUnique ==
    \A k, l \in Cohorts : cohort[k].status \in {"planning", "lapsed"} /\
                          cohort[l].status \in {"planning", "lapsed"} => k = l

CohortTyped == cohort \in [Cohorts -> Cohort]

StatusNames == {"none", "planning", "lapsed", "active", "drained", "failed", "cooled"}

LEMMA CohortExcept ==
    ASSUME NEW r \in Cohort, NEW s \in StatusNames
    PROVE  [r EXCEPT !.status = s] \in Cohort /\ [r EXCEPT !.status = s].status = s
  BY DEF Cohort, StatusNames

\* Expiring the leases keeps the table, and leaves no lapsed one.
LEMMA ExpiredTyped ==
    ASSUME CohortTyped
    PROVE  /\ Expired \in [Cohorts -> Cohort]
           /\ \A k \in Cohorts : /\ Expired[k].status # "lapsed"
                                 /\ Expired[k].status = "planning" => cohort[k].status = "planning"
<1>1. ASSUME NEW k \in Cohorts
      PROVE  /\ Expired[k] \in Cohort /\ Expired[k].status # "lapsed"
             /\ Expired[k].status = "planning" => cohort[k].status = "planning"
  <2>1. cohort[k] \in Cohort /\ "failed" \in StatusNames
    BY DEF CohortTyped, StatusNames
  <2>2. /\ [cohort[k] EXCEPT !.status = "failed"] \in Cohort
        /\ [cohort[k] EXCEPT !.status = "failed"].status = "failed"
    BY <2>1, CohortExcept
  <2>3. Expired[k] = IF cohort[k].status = "lapsed"
                       THEN [cohort[k] EXCEPT !.status = "failed"] ELSE cohort[k]
    BY DEF Expired
  <2>4. QED
    BY <2>1, <2>2, <2>3
<1>2. Expired = [k \in Cohorts |-> Expired[k]]
  BY DEF Expired
<1>3. QED
  BY <1>1, <1>2

\* A cohort's status becomes s and the rest stays.
LEMMA StatusUpdate ==
    ASSUME NEW c \in [Cohorts -> Cohort], NEW k \in Cohorts, NEW s \in StatusNames
    PROVE  /\ [c EXCEPT ![k].status = s] \in [Cohorts -> Cohort]
           /\ [c EXCEPT ![k].status = s][k].status = s
           /\ \A l \in Cohorts : l # k => [c EXCEPT ![k].status = s][l] = c[l]
<1>1. [c EXCEPT ![k].status = s] = [c EXCEPT ![k] = [c[k] EXCEPT !.status = s]]
  OBVIOUS
<1>2. [c[k] EXCEPT !.status = s] \in Cohort /\ [c[k] EXCEPT !.status = s].status = s
  BY CohortExcept
<1>3. QED
  BY <1>1, <1>2

-----------------------------------------------------------------------------
(* Plans.                                                                    *)

\* What a planner holds at each label.
ShapeOf(p) ==
    /\ p.at \in {"capacity", "tests", "baseline"} => p.todo # <<>>
    /\ p.at \in {"dispatch", "capacity"} => p.done = {}
    /\ p.at = "tests" => ~ (TestsOf(Head(p.todo)) \subseteq p.done)
    /\ p.at \in {"dispatch", "activate"} => p.cohort \in Cohorts

PlanTyped == plan \in [Planners -> Plan]
PlanShape == \A w \in Planners : ShapeOf(plan[w])

\* The sets the fields of a plan range over, under names of their own.
Families == Cohorts \cup {NoCohort}
Askeds   == SUBSET Ideas
Todos    == Seq(Ideas)
Seens    == [Routes -> PValues \cup {Untested}]
Dones    == SUBSET Routes
Flags    == BOOLEAN

LEMMA PlanIs ==
    Plan = [at : Labels, cohort : Families, asked : Askeds, todo : Todos,
            complete : Flags, release : Flags, seen : Seens, done : Dones]
  BY DEF Plan, Families, Askeds, Todos, Seens, Dones, Flags

\* The fields a step of a planner rewrites keep the plan's shape.
LEMMA PlanFields ==
    ASSUME NEW p \in Plan
    PROVE  /\ p.at \in Labels /\ p.cohort \in Families /\ p.asked \in Askeds
           /\ p.todo \in Todos /\ p.complete \in Flags /\ p.release \in Flags
           /\ p.seen \in Seens /\ p.done \in Dones
  BY PlanIs

LEMMA PlanReserved ==
    ASSUME NEW p \in Plan, NEW a \in Labels, NEW c \in Families
    PROVE  [p EXCEPT !.at = a, !.cohort = c] \in Plan
  BY PlanIs

LEMMA PlanReleases ==
    ASSUME NEW p \in Plan, NEW a \in Labels, NEW b \in Flags
    PROVE  [p EXCEPT !.release = b, !.at = a] \in Plan
  BY PlanIs

LEMMA PlanManual ==
    ASSUME NEW p \in Plan, NEW a \in Labels, NEW b \in Flags, NEW s \in Todos
    PROVE  [p EXCEPT !.at = a, !.todo = s, !.release = b] \in Plan
  BY PlanIs

LEMMA PlanIncomplete ==
    ASSUME NEW p \in Plan, NEW a \in Labels, NEW b \in Flags
    PROVE  [p EXCEPT !.complete = b] \in Plan
  BY PlanIs

LEMMA PlanAnswered ==
    ASSUME NEW p \in Plan, NEW a \in Labels, NEW x \in Askeds, NEW s \in Todos
    PROVE  [p EXCEPT !.at = a, !.asked = x, !.todo = s] \in Plan
  BY PlanIs

LEMMA PlanTested ==
    ASSUME NEW p \in Plan, NEW a \in Labels, NEW u \in Seens, NEW d \in Dones
    PROVE  [p EXCEPT !.seen = u, !.done = d, !.at = a] \in Plan
  BY PlanIs

LEMMA PlanAdvanced ==
    ASSUME NEW p \in Plan, NEW a \in Labels, NEW s \in Todos, NEW u \in Seens
    PROVE  [p EXCEPT !.todo = s, !.release = FALSE, !.seen = u, !.done = {}, !.at = a] \in Plan
<1> DEFINE q == [p EXCEPT !.todo = s, !.release = FALSE]
<1>1. q \in Plan
  BY PlanIs DEF Flags
<1>2. [p EXCEPT !.todo = s, !.release = FALSE, !.seen = u, !.done = {}, !.at = a]
        = [q EXCEPT !.seen = u, !.done = {}, !.at = a]
  OBVIOUS
<1>3. {} \in Dones
  BY DEF Dones
<1> HIDE DEF q
<1>4. QED
  BY <1>1, <1>2, <1>3, PlanTested, ZenonT(40)

LEMMA NoPlanTyped == NoPlan \in Plan /\ ShapeOf(NoPlan) /\ NoPlan.done = {} /\ NoPlan.cohort = NoCohort
<1>1. Unseen \in Seens /\ <<>> \in Todos /\ {} \in Askeds /\ {} \in Dones /\ TRUE \in Flags
      /\ FALSE \in Flags /\ NoCohort \in Families /\ "idle" \in Labels
  BY DEF Unseen, Seens, Todos, Askeds, Dones, Flags, Families, Labels
<1>2. NoPlan \in Plan
  BY <1>1, PlanIs DEF NoPlan
<1>3. QED
  BY <1>2 DEF NoPlan, ShapeOf

LEMMA PlanPut ==
    ASSUME PlanTyped, PlanShape, NEW w \in Planners, NEW q \in Plan, ShapeOf(q),
           plan' = [plan EXCEPT ![w] = q]
    PROVE  PlanTyped' /\ PlanShape'
<1>1. PlanTyped'
  BY DEF PlanTyped
<1>2. \A v \in Planners : plan'[v] = IF v = w THEN q ELSE plan[v]
  BY DEF PlanTyped
<1>3. ASSUME NEW v \in Planners PROVE ShapeOf(plan'[v])
  BY <1>2 DEF PlanShape
<1>4. PlanShape' <=> \A v \in Planners : ShapeOf(plan'[v])
  BY DEF PlanShape, ShapeOf
<1>5. QED
  BY <1>1, <1>3, <1>4

\* The end of an idea: the next one, the activation, or the end of the command.
LEMMA AdvanceTyped ==
    ASSUME NEW w, NEW p \in Plan, p.todo # <<>>
    PROVE  /\ Advance(w, p) \in Plan /\ ShapeOf(Advance(w, p))
<1> DEFINE a == IF Tail(p.todo) # <<>> THEN "capacity"
                ELSE IF p.cohort = NoCohort THEN "idle" ELSE "activate"
<1> DEFINE q == [p EXCEPT !.todo = Tail(p.todo), !.release = FALSE, !.seen = Unseen,
                          !.done = {}, !.at = a]
<1>1. Advance(w, p) = q
  BY DEF Advance
<1>2. p.todo \in Seq(Ideas) /\ p.cohort \in Cohorts \cup {NoCohort}
  BY PlanFields DEF Todos, Families
<1>3. Tail(p.todo) \in Todos
  BY <1>2 DEF Todos
<1>4. Unseen \in Seens
  BY DEF Unseen, Seens
<1>5. a \in {"capacity", "idle", "activate"} /\ (a = "capacity" => Tail(p.todo) # <<>>)
      /\ (a = "activate" => p.cohort \in Cohorts)
  BY <1>2
<1> HIDE DEF a
<1>6. q \in Plan
  BY <1>3, <1>4, <1>5, PlanAdvanced, ZenonT(40) DEF Labels
<1>7. q.at = a /\ q.todo = Tail(p.todo) /\ q.done = {} /\ q.cohort = p.cohort
  BY PlanIs
<1>8. QED
  BY <1>1, <1>5, <1>6, <1>7 DEF ShapeOf

LEMMA PlanStays ==
    ASSUME PlanTyped, PlanShape, NEW w \in Planners
    PROVE  plan[w] \in Plan /\ ShapeOf(plan[w])
  BY DEF PlanTyped, PlanShape

\* The binding p-values.
FirstTyped == first \in [Rules -> [Routes -> First]]

LEMMA PValueTyped ==
    ASSUME FirstTyped, NEW i \in Ideas, NEW r \in Routes
    PROVE  PValue(i, r) \in PValues \cup {Untested}
<1>1. RuleOf[i] \in Rules
  OBVIOUS
<1>2. first[RuleOf[i]][r] \in First
  BY <1>1 DEF FirstTyped
<1>3. QED
  BY <1>2 DEF PValue, First

\* The route whose test is inserted next is one that is not yet done.
NextRoute(w) ==
    LET i == Next1(w)
    IN  IF LeadOf[i] \notin plan[w].done THEN LeadOf[i]
        ELSE CHOOSE q \in TestsOf(i) \ plan[w].done : TRUE

LEMMA NextRouteTyped ==
    ASSUME PlanTyped, PlanShape, NEW w \in Planners, plan[w].at = "tests"
    PROVE  /\ Next1(w) \in Ideas /\ NextRoute(w) \in Routes
<1>1. plan[w] \in Plan /\ plan[w].todo # <<>> /\ ~ (TestsOf(Next1(w)) \subseteq plan[w].done)
  BY PlanStays DEF ShapeOf, Next1
<1>2. plan[w].todo \in Seq(Ideas)
  BY <1>1, PlanFields DEF Todos
<1>3. Next1(w) \in Ideas
  BY <1>1, <1>2 DEF Next1
<1>4. \E q \in TestsOf(Next1(w)) \ plan[w].done : TRUE
  BY <1>1
<1>5. TestsOf(Next1(w)) \subseteq Routes /\ LeadOf[Next1(w)] \in Routes
  BY <1>3 DEF TestsOf
<1>6. QED
  BY <1>3, <1>4, <1>5 DEF NextRoute

\* A planner's next step leaves every plan typed and in shape.
LEMMA PlanKept ==
    ASSUME PlanTyped, PlanShape, FirstTyped, PlanMoves
    PROVE  PlanTyped' /\ PlanShape'
<1> USE DEF Planners
<1>1. ASSUME NEW w \in Planners, plan' = [plan EXCEPT ![w] = NoPlan]
      PROVE  PlanTyped' /\ PlanShape'
  BY <1>1, NoPlanTyped, PlanPut, ZenonT(40)
<1>2. ASSUME NEW w \in Supervisors, Reserve(w) PROVE PlanTyped' /\ PlanShape'
  <2>1. CASE UNCHANGED plan
    BY <2>1 DEF PlanTyped, PlanShape, ShapeOf
  <2>2. CASE ~ UNCHANGED plan
    <3>1. PICK k \in Cohorts :
            plan' = [plan EXCEPT ![w] = [NoPlan EXCEPT !.at = "dispatch", !.cohort = k]]
      BY <1>2, <2>2 DEF Reserve, InStatus
    <3> DEFINE q == [NoPlan EXCEPT !.at = "dispatch", !.cohort = k]
    <3>2. q \in Plan
      BY NoPlanTyped, PlanReserved DEF Families, Labels
    <3>3. q.at = "dispatch" /\ q.cohort = k /\ q.done = {}
      BY DEF NoPlan
    <3>4. ShapeOf(q)
      BY <3>3 DEF ShapeOf
    <3> HIDE DEF q
    <3>5. plan' = [plan EXCEPT ![w] = q] /\ w \in Planners
      BY <3>1 DEF q
    <3>6. QED
      BY <3>2, <3>4, <3>5, PlanPut
  <2>3. QED
    BY <2>1, <2>2
<1>3. ASSUME NEW w \in Planners, DispatchFails(w) PROVE PlanTyped' /\ PlanShape'
  BY <1>1, <1>3 DEF DispatchFails
<1>4. ASSUME NEW w \in Planners, Activate(w) PROVE PlanTyped' /\ PlanShape'
  BY <1>1, <1>4 DEF Activate
<1>5. ASSUME NEW w \in Supervisors, Crash(w) PROVE PlanTyped' /\ PlanShape'
  BY <1>1, <1>5 DEF Crash
<1>6. ASSUME NEW w \in Planners, Dispatch(w) PROVE PlanTyped' /\ PlanShape'
  <2>1. PICK s \in Answers :
          plan' = [plan EXCEPT ![w].at = "capacity", ![w].asked = {s[n] : n \in 1 .. Requested},
                               ![w].todo = s]
    BY <1>6 DEF Dispatch
  <2> DEFINE x == {s[n] : n \in 1 .. Requested}
  <2>2. s \in [1 .. Requested -> Ideas]
    BY DEF Answers
  <2>3. s \in Seq(Ideas) /\ s # <<>> /\ x \in SUBSET Ideas
    <3>1. s \in Seq(Ideas) /\ Len(s) = Requested
      BY <2>2
    <3>2. QED
      BY <2>2, <3>1
  <2> HIDE DEF x
  <2> DEFINE q == [plan[w] EXCEPT !.at = "capacity", !.asked = x, !.todo = s]
  <2>4. plan[w] \in Plan /\ ShapeOf(plan[w]) /\ plan[w].at = "dispatch"
    BY <1>6, PlanStays, ZenonT(40) DEF Dispatch
  <2>5. q \in Plan
    BY <2>3, <2>4, PlanAnswered, ZenonT(40) DEF Labels, Askeds, Todos
  <2>6. q.at = "capacity" /\ q.todo = s /\ q.done = plan[w].done
    BY <2>4, PlanIs
  <2>7. ShapeOf(q)
    BY <2>3, <2>4, <2>6 DEF ShapeOf
  <2>8. plan' = [plan EXCEPT ![w] = q]
    BY <2>1, RewriteThree DEF x, PlanTyped
  <2> HIDE DEF q
  <2>9. QED
    BY <2>5, <2>7, <2>8, PlanPut
<1>7. ASSUME NEW w \in Planners, ReadCapacity(w) PROVE PlanTyped' /\ PlanShape'
  <2> DEFINE b == Active < Limit
  <2> DEFINE a == IF TestsOf(Next1(w)) = {} THEN "baseline" ELSE "tests"
  <2> DEFINE q == [plan[w] EXCEPT !.release = b, !.at = a]
  <2>1. plan' = [plan EXCEPT ![w] = q]
    BY <1>7, RewriteTwo, ZenonT(40) DEF ReadCapacity, PlanTyped
  <2>2. b \in Flags /\ a \in Labels /\ (a = "baseline" \/ (a = "tests" /\ TestsOf(Next1(w)) # {}))
    BY DEF Flags, Labels
  <2>3. plan[w] \in Plan /\ ShapeOf(plan[w]) /\ plan[w].at = "capacity"
    BY <1>7, PlanStays DEF ReadCapacity
  <2> HIDE DEF a, b
  <2>4. q \in Plan
    BY <2>2, <2>3, PlanReleases
  <2>5. q.at = a /\ q.todo = plan[w].todo /\ q.done = plan[w].done
    BY <2>3, PlanIs
  <2>6. ShapeOf(q)
    BY <2>2, <2>3, <2>5 DEF ShapeOf, Next1
  <2> HIDE DEF q
  <2>7. QED
    BY <2>1, <2>4, <2>6, PlanPut
<1>8. ASSUME NEW w \in Planners, RejectIdea(w) PROVE PlanTyped' /\ PlanShape'
  <2> DEFINE p == Advance(w, plan[w])
  <2> DEFINE q == [p EXCEPT !.complete = FALSE]
  <2>1. plan[w] \in Plan /\ ShapeOf(plan[w]) /\ plan[w].at = "capacity"
    BY <1>8, PlanStays DEF RejectIdea
  <2>2. p \in Plan /\ ShapeOf(p)
    BY <2>1, AdvanceTyped DEF ShapeOf
  <2>3. plan' = [plan EXCEPT ![w] = q]
    BY <1>8 DEF RejectIdea
  <2> HIDE DEF p
  <2>4. q \in Plan
    BY <2>2, PlanIncomplete, PlanFields DEF Flags, Labels
  <2>5. q.at = p.at /\ q.todo = p.todo /\ q.done = p.done /\ q.cohort = p.cohort
    BY <2>2, PlanIs
  <2>6. ShapeOf(q)
    BY <2>2, <2>5 DEF ShapeOf
  <2> HIDE DEF q
  <2>7. QED
    BY <2>3, <2>4, <2>6, PlanPut
<1>9. ASSUME NEW w \in Planners, InsertBaseline(w) PROVE PlanTyped' /\ PlanShape'
  <2>1. plan[w] \in Plan /\ ShapeOf(plan[w]) /\ plan[w].at = "baseline"
    BY <1>9, PlanStays DEF InsertBaseline
  <2>2. Advance(w, plan[w]) \in Plan /\ ShapeOf(Advance(w, plan[w]))
    BY <2>1, AdvanceTyped DEF ShapeOf
  <2>3. plan' = [plan EXCEPT ![w] = Advance(w, plan[w])]
    BY <1>9 DEF InsertBaseline
  <2>4. QED
    BY <2>2, <2>3, PlanPut
<1>10. ASSUME Synthesize PROVE PlanTyped' /\ PlanShape'
  <2>1. PICK i \in Ideas :
          plan' = [plan EXCEPT ![Cli] =
                    [NoPlan EXCEPT !.at = IF TestsOf(i) = {} THEN "baseline" ELSE "tests",
                                   !.todo = <<i>>, !.release = TRUE]]
    BY <1>10 DEF Synthesize
  <2> DEFINE a == IF TestsOf(i) = {} THEN "baseline" ELSE "tests"
  <2> DEFINE s == <<i>>
  <2> DEFINE q == [NoPlan EXCEPT !.at = a, !.todo = s, !.release = TRUE]
  <2>2. a \in Labels /\ (a = "baseline" \/ (a = "tests" /\ TestsOf(i) # {}))
    BY DEF Labels
  <2>3. s \in Todos /\ s # <<>> /\ Head(s) = i /\ TRUE \in Flags
    BY DEF Todos, Flags
  <2>4. plan' = [plan EXCEPT ![Cli] = q]
    BY <2>1
  <2> HIDE DEF a, s
  <2>5. q \in Plan
    BY <2>2, <2>3, NoPlanTyped, PlanManual
  <2>6. q.at = a /\ q.todo = s /\ q.done = {}
    BY NoPlanTyped, PlanIs
  <2>7. ShapeOf(q)
    BY <2>2, <2>3, <2>6 DEF ShapeOf
  <2> HIDE DEF q
  <2>8. QED
    BY <2>4, <2>5, <2>7, PlanPut
<1>11. ASSUME NEW w \in Planners, InsertTest(w) PROVE PlanTyped' /\ PlanShape'
  <2> DEFINE i == Next1(w)
  <2> DEFINE r == NextRoute(w)
  <2> DEFINE p == PValue(i, r)
  <2> DEFINE d == plan[w].done \cup {r}
  <2> DEFINE a == IF TestsOf(i) \subseteq d THEN "baseline" ELSE "tests"
  <2> DEFINE u == [plan[w].seen EXCEPT ![r] = p]
  <2> DEFINE q == [plan[w] EXCEPT !.seen = u, !.done = d, !.at = a]
  <2>1. plan[w] \in Plan /\ ShapeOf(plan[w]) /\ plan[w].at = "tests"
    BY <1>11, PlanStays, ZenonT(40) DEF InsertTest
  <2>2. plan' = [plan EXCEPT ![w].seen[r] = p, ![w].done = @ \cup {r}, ![w].at = a]
    BY <1>11 DEF InsertTest, NextRoute
  <2>3. plan' = [plan EXCEPT ![w] = q]
    BY <2>2, RewriteTested, ZenonT(40) DEF PlanTyped
  <2>4. i \in Ideas /\ r \in Routes
    BY <2>1, NextRouteTyped
  <2>5. p \in PValues \cup {Untested}
    BY <2>4, PValueTyped
  <2> HIDE DEF i, r, p
  <2>6. plan[w].seen \in Seens /\ plan[w].done \in Dones
    BY <2>1, PlanFields
  <2>7. u \in Seens
    BY <2>4, <2>5, <2>6 DEF Seens
  <2>8. d \in Dones
    BY <2>4, <2>6 DEF Dones
  <2>9. a \in Labels /\ (a = "baseline" \/ (a = "tests" /\ ~ (TestsOf(i) \subseteq d)))
    BY DEF Labels
  <2> HIDE DEF u, d, a
  <2>10. q \in Plan
    BY <2>1, <2>7, <2>8, <2>9, PlanTested, ZenonT(40)
  <2>11. q.at = a /\ q.todo = plan[w].todo /\ q.done = d
    BY <2>1, PlanIs
  <2>12. ShapeOf(q)
    BY <2>1, <2>9, <2>11 DEF ShapeOf, i, Next1
  <2> HIDE DEF q
  <2>13. QED
    BY <2>3, <2>10, <2>12, PlanPut
<1>12. QED
  BY <1>2, <1>3, <1>4, <1>5, <1>6, <1>7, <1>8, <1>9, <1>10, <1>11 DEF PlanMoves

-----------------------------------------------------------------------------
(* The significance tests.                                                   *)

TestTyped == test \in [Ideas -> [Routes -> Test]]
TurnTyped == turn \in [Supervisors -> Turn]

\* A turn that has something to do knows its test.
TurnShape == \A w \in Supervisors : turn[w].at # "idle" => turn[w].idea \in Ideas

LEMMA TestIs == Test = [state : TestStates, gate : Gates, family : Families]
  BY DEF Test, Families

LEMMA TestExcept ==
    ASSUME NEW x \in Test
    PROVE  /\ x.state \in TestStates /\ x.gate \in Gates /\ x.family \in Families
           /\ \A s \in TestStates : /\ [x EXCEPT !.state = s] \in Test
                                    /\ [x EXCEPT !.state = s].state = s
                                    /\ [x EXCEPT !.state = s].gate = x.gate
           /\ \A g \in Gates : /\ [x EXCEPT !.gate = g] \in Test
                               /\ [x EXCEPT !.gate = g].state = x.state
                               /\ [x EXCEPT !.gate = g].gate = g
  BY TestIs

\* What a step may do to a test whose rule and route have the p-value p: it never
\* disappears, and its gate passes only if p is significant.
Grows(x, y, p) ==
    /\ y \in Test
    /\ x.state # "none" => y.state # "none"
    /\ y.gate \in Passed => y.gate = x.gate \/ p < 50

LEMMA GrowsState ==
    ASSUME NEW x \in Test, NEW s \in TestStates, s # "none", NEW p
    PROVE  Grows(x, [x EXCEPT !.state = s], p)
  BY TestExcept DEF Grows

LEMMA GrowsSame == ASSUME NEW x \in Test, NEW p PROVE Grows(x, x, p)
  BY DEF Grows

LEMMA RawGateTyped ==
    ASSUME NEW p \in PValues \cup {Untested}
    PROVE  /\ RawGate(p) \in Gates
           /\ RawGate(p) \in Passed => p < 50
  BY DEF RawGate, Gates, Passed, Untested

\* Every test grows.
TestsGrow == \A i \in Ideas, r \in Routes : Grows(test[i][r], test'[i][r], PValue(i, r))

LEMMA CellGrows ==
    ASSUME TestTyped, NEW i \in Ideas, NEW r \in Routes, NEW y \in Test,
           Grows(test[i][r], y, PValue(i, r)), test' = [test EXCEPT ![i][r] = y]
    PROVE  TestTyped' /\ TestsGrow
<1> DEFINE t == [test EXCEPT ![i][r] = y]
<1>1. /\ t \in [Ideas -> [Routes -> Test]]
      /\ \A j \in Ideas, q \in Routes : t[j][q] = IF j = i /\ q = r THEN y ELSE test[j][q]
  <2>1. test \in [Ideas -> [Routes -> Test]]
    BY DEF TestTyped
  <2>2. QED
    BY ONLY <2>1, i \in Ideas, r \in Routes, y \in Test, CellPut
<1>2. test' = t
  OBVIOUS
<1> HIDE DEF t
<1>3. ASSUME NEW j \in Ideas, NEW q \in Routes PROVE Grows(test[j][q], test'[j][q], PValue(j, q))
  <2>1. test'[j][q] = IF j = i /\ q = r THEN y ELSE test[j][q]
    BY <1>1, <1>2
  <2>2. test[j][q] \in Test
    BY DEF TestTyped
  <2>3. QED
    BY <2>1, <2>2, GrowsSame
<1>4. QED
  BY <1>1, <1>2, <1>3 DEF TestTyped, TestsGrow

LEMMA SetTestGrows ==
    ASSUME TestTyped, NEW i \in Ideas, NEW r \in Routes, NEW s \in TestStates, s # "none",
           SetTest(i, r, s)
    PROVE  TestTyped' /\ TestsGrow
<1>1. test[i][r] \in Test
  BY DEF TestTyped
<1> DEFINE y == [test[i][r] EXCEPT !.state = s]
<1>2. y \in Test /\ Grows(test[i][r], y, PValue(i, r))
  BY <1>1, TestExcept, GrowsState
<1>3. test' = [test EXCEPT ![i][r] = y]
  BY RewriteState DEF SetTest, TestTyped
<1> HIDE DEF y
<1>4. QED
  BY <1>2, <1>3, CellGrows

\* A whole table is rewritten cell by cell.
LEMMA TableGrows ==
    ASSUME NEW c, test' = [i \in Ideas |-> [r \in Routes |-> c[i][r]]],
           \A i \in Ideas, r \in Routes : Grows(test[i][r], c[i][r], PValue(i, r))
    PROVE  TestTyped' /\ TestsGrow
<1>1. \A i \in Ideas, r \in Routes : test'[i][r] = c[i][r] /\ c[i][r] \in Test
  BY DEF Grows
<1>2. QED
  BY <1>1 DEF TestTyped, TestsGrow

LEMMA TurnOf ==
    ASSUME TurnTyped, TurnShape, NEW w \in Supervisors, turn[w].at # "idle"
    PROVE  turn[w].idea \in Ideas /\ turn[w].route \in Routes
  BY DEF TurnTyped, TurnShape, Turn

LEMMA TestKept ==
    ASSUME TestTyped, FirstTyped, PlanTyped, PlanShape, TurnTyped, TurnShape, TestMoves
    PROVE  TestTyped' /\ TestsGrow
<1> DEFINE Goal == TestTyped' /\ TestsGrow
<1>0. \A i \in Ideas, r \in Routes : test[i][r] \in Test
  BY DEF TestTyped
<1>s. {"ready", "running", "measured", "errored", "blocked", "finished", "scheduled"}
        \subseteq TestStates \ {"none"}
  BY DEF TestStates
<1>1. ASSUME NEW w \in Supervisors, Promote(w) PROVE Goal
  <2>1. PICK T \in SUBSET RunnableTests, B \in SUBSET RunnableBases :
         /\ Cardinality(T) + Cardinality(B) <= Room
         /\ \/ Cardinality(T) + Cardinality(B) = Room
            \/ T = RunnableTests /\ B = RunnableBases
         /\ test' = [i \in Ideas |-> [r \in Routes |->
                       IF <<i, r>> \in T THEN [test[i][r] EXCEPT !.state = "ready"]
                                         ELSE test[i][r]]]
         /\ base' = [i \in Ideas |-> IF i \in B THEN "ready" ELSE base[i]]
    BY <1>1 DEF Promote
  <2> DEFINE c == [i \in Ideas |-> [r \in Routes |->
                     IF <<i, r>> \in T THEN [test[i][r] EXCEPT !.state = "ready"]
                                       ELSE test[i][r]]]
  <2>2. ASSUME NEW i \in Ideas, NEW r \in Routes PROVE Grows(test[i][r], c[i][r], PValue(i, r))
    <3>1. /\ Grows(test[i][r], [test[i][r] EXCEPT !.state = "ready"], PValue(i, r))
          /\ Grows(test[i][r], test[i][r], PValue(i, r))
      BY <1>0, <1>s, GrowsState, GrowsSame
    <3>2. c[i][r] = IF <<i, r>> \in T THEN [test[i][r] EXCEPT !.state = "ready"] ELSE test[i][r]
      OBVIOUS
    <3>3. QED
      BY <3>1, <3>2
  <2>3. test' = [i \in Ideas |-> [r \in Routes |-> c[i][r]]]
    BY <2>1
  <2> HIDE DEF c
  <2>4. QED
    BY <2>2, <2>3, TableGrows
<1>2. ASSUME NEW w \in Supervisors, Claim(w) PROVE Goal
  <2> DEFINE c == [i \in Ideas |-> [r \in Routes |->
                     IF test[i][r].state = "ready" THEN [test[i][r] EXCEPT !.state = "running"]
                                                   ELSE test[i][r]]]
  <2>1. test' = [i \in Ideas |-> [r \in Routes |-> c[i][r]]]
    BY <1>2 DEF Claim
  <2>2. ASSUME NEW i \in Ideas, NEW r \in Routes PROVE Grows(test[i][r], c[i][r], PValue(i, r))
    <3>1. /\ Grows(test[i][r], [test[i][r] EXCEPT !.state = "running"], PValue(i, r))
          /\ Grows(test[i][r], test[i][r], PValue(i, r))
      BY <1>0, <1>s, GrowsState, GrowsSame
    <3>2. c[i][r] = IF test[i][r].state = "ready"
                      THEN [test[i][r] EXCEPT !.state = "running"] ELSE test[i][r]
      OBVIOUS
    <3>3. QED
      BY <3>1, <3>2
  <2> HIDE DEF c
  <2>3. QED
    BY <2>1, <2>2, TableGrows
<1>3. ASSUME NEW w \in Supervisors, GateAlone(w) PROVE Goal
  <2> DEFINE i == turn[w].idea
  <2> DEFINE r == turn[w].route
  <2> DEFINE g == RawGate(PValue(i, r))
  <2> DEFINE y == [test[i][r] EXCEPT !.gate = g]
  <2>1. turn[w].at = "gate" /\ (test' = test \/ test' = [test EXCEPT ![i][r].gate = g])
    BY <1>3 DEF GateAlone
  <2>2. i \in Ideas /\ r \in Routes
    BY <2>1, TurnOf
  <2>p. PValue(i, r) \in PValues \cup {Untested} /\ test[i][r] \in Test
    BY <2>2, <1>0, PValueTyped DEF TestTyped
  <2> HIDE DEF i, r
  <2>3. g \in Gates /\ (g \in Passed => PValue(i, r) < 50) /\ test[i][r] \in Test
    BY <2>p, RawGateTyped, ZenonT(40)
  <2>4. test' = test \/ test' = [test EXCEPT ![i][r] = y]
    BY <2>1, <2>2, RewriteGate DEF TestTyped
  <2> HIDE DEF i, r, g
  <2>5. y \in Test /\ y.state = test[i][r].state /\ y.gate = g
    BY <2>3, TestExcept
  <2> HIDE DEF y
  <2>6. Grows(test[i][r], y, PValue(i, r))
    BY <2>3, <2>5 DEF Grows
  <2>7. CASE test' = test
    BY <2>7, <1>0, GrowsSame DEF TestTyped, TestsGrow
  <2>8. QED
    BY <2>2, <2>4, <2>5, <2>6, <2>7, CellGrows
<1>4. ASSUME NEW w \in Supervisors, GateCohort(w) PROVE Goal
  <2> DEFINE F == Family(test[turn[w].idea][turn[w].route].family)
  <2> DEFINE ruled(i, r) ==
               IF <<i, r>> \in F THEN [test[i][r] EXCEPT !.gate = FdrGate(F, <<i, r>>)]
                                 ELSE test[i][r]
  <2> DEFINE c == [i \in Ideas |-> [r \in Routes |-> ruled(i, r)]]
  <2>0. test' = c
    BY <1>4 DEF GateCohort
  <2> HIDE DEF ruled
  <2>1. test' = [i \in Ideas |-> [r \in Routes |-> c[i][r]]]
    BY <2>0
  <2>2. ASSUME NEW i \in Ideas, NEW r \in Routes PROVE Grows(test[i][r], c[i][r], PValue(i, r))
    <3> DEFINE g == FdrGate(F, <<i, r>>)
    <3>1. /\ RawGate(PValue(i, r)) \in Gates
          /\ RawGate(PValue(i, r)) \in Passed => PValue(i, r) < 50
      BY PValueTyped, RawGateTyped
    <3>2. g \in {RawGate(PValue(i, r)), "withheld"}
          \/ (g = "bh" /\ RawGate(PValue(i, r)) = "passed")
      BY DEF FdrGate
    <3>3. g \in Gates /\ (g \in Passed => PValue(i, r) < 50)
      BY <3>1, <3>2 DEF Gates, Passed
    <3>4. c[i][r] = IF <<i, r>> \in F THEN [test[i][r] EXCEPT !.gate = g] ELSE test[i][r]
      BY DEF ruled
    <3> HIDE DEF g, c
    <3>5. test[i][r] \in Test
      BY <1>0
    <3>6. Grows(test[i][r], [test[i][r] EXCEPT !.gate = g], PValue(i, r))
      BY <3>3, <3>5, TestExcept DEF Grows
    <3>7. QED
      BY <3>4, <3>5, <3>6, GrowsSame
  <2> HIDE DEF c
  <2>3. QED
    BY <2>1, <2>2, TableGrows
<1>5. ASSUME NEW w \in Planners, InsertTest(w) PROVE Goal
  <2> DEFINE i == Next1(w)
  <2> DEFINE r == NextRoute(w)
  <2> DEFINE p == PValue(i, r)
  <2> DEFINE s == IF p # Untested THEN "finished"
                  ELSE IF plan[w].release /\ r = LeadOf[i] THEN "ready" ELSE "scheduled"
  <2> DEFINE y == [state |-> s, gate |-> RawGate(p), family |-> plan[w].cohort]
  <2>1. plan[w].at = "tests" /\ test' = IF test[i][r].state = "none"
                                          THEN [test EXCEPT ![i][r] = y] ELSE test
    BY <1>5 DEF InsertTest, NextRoute
  <2>2. i \in Ideas /\ r \in Routes
    BY <2>1, NextRouteTyped
  <2>3. p \in PValues \cup {Untested}
    BY <2>2, PValueTyped
  <2>4. plan[w].cohort \in Families
    BY PlanStays, PlanFields
  <2>5. s \in TestStates /\ s # "none"
    BY DEF TestStates
  <2>6. RawGate(p) \in Gates /\ (RawGate(p) \in Passed => p < 50)
    BY <2>3, RawGateTyped
  <2>7. y \in Test /\ Grows(test[i][r], y, p)
    BY <2>4, <2>5, <2>6, TestIs DEF Grows
  <2>8. CASE test' = test
    BY <2>8, <1>0, GrowsSame DEF TestTyped, TestsGrow
  <2>9. CASE test' = [test EXCEPT ![i][r] = y]
    BY <2>9, <2>2, <2>7, CellGrows
  <2>10. QED
    BY <2>1, <2>8, <2>9
<1>6. ASSUME NEW w \in Planners, InsertBaseline(w) PROVE Goal
  <2> DEFINE i == Next1(w)
  <2> DEFINE tested == \A q \in TestsOf(i) : plan[w].seen[q] # Untested
  <2> DEFINE c == [j \in Ideas |-> [r \in Routes |->
                     IF /\ j = i /\ r \in TestsOf(i) /\ tested
                        /\ test[j][r].state \in {"scheduled", "ready"}
                       THEN [test[j][r] EXCEPT !.state = "finished"] ELSE test[j][r]]]
  <2>1. test' = [test EXCEPT ![i] = [r \in Routes |->
                   IF r \in TestsOf(i) /\ tested /\ test[i][r].state \in {"scheduled", "ready"}
                     THEN [test[i][r] EXCEPT !.state = "finished"] ELSE test[i][r]]]
    BY <1>6 DEF InsertBaseline
  <2>2. test' = [j \in Ideas |-> [r \in Routes |-> c[j][r]]]
    <3>1. ASSUME NEW j \in Ideas PROVE test'[j] = [r \in Routes |-> c[j][r]]
      <4>1. CASE j = i
        BY <2>1, <4>1 DEF TestTyped
      <4>2. CASE j # i
        <5>1. test'[j] = test[j] /\ test[j] = [r \in Routes |-> test[j][r]]
          BY <2>1, <4>2 DEF TestTyped
        <5>2. \A r \in Routes : c[j][r] = test[j][r]
          BY <4>2
        <5> HIDE DEF c
        <5>3. QED
          BY <5>1, <5>2
      <4>3. QED
        BY <4>1, <4>2
    <3>2. test' = [j \in Ideas |-> test'[j]]
      BY <2>1, ZenonT(40) DEF TestTyped
    <3> HIDE DEF c
    <3>3. QED
      BY <3>1, <3>2
  <2>3. ASSUME NEW j \in Ideas, NEW r \in Routes PROVE Grows(test[j][r], c[j][r], PValue(j, r))
    <3>1. /\ Grows(test[j][r], [test[j][r] EXCEPT !.state = "finished"], PValue(j, r))
          /\ Grows(test[j][r], test[j][r], PValue(j, r))
      BY <1>0, <1>s, GrowsState, GrowsSame
    <3>2. c[j][r] \in {[test[j][r] EXCEPT !.state = "finished"], test[j][r]}
      OBVIOUS
    <3>3. QED
      BY <3>1, <3>2
  <2> HIDE DEF c
  <2>4. QED
    BY <2>2, <2>3, TableGrows
<1>7. ASSUME NEW i \in Ideas, NEW r \in Routes, Measure(i, r) \/ Requeue(i, r) \/ TestErrors(i, r)
      PROVE  Goal
  <2>1. \E s \in TestStates \ {"none"} : SetTest(i, r, s)
    BY <1>7, <1>s DEF Measure, Requeue, TestErrors
  <2>2. QED
    BY <2>1, SetTestGrows
<1>8. ASSUME NEW w \in Supervisors, NEW i \in Ideas, NEW r \in Routes, Evaluate(w, i, r) PROVE Goal
  <2>1. SetTest(i, r, "finished")
    BY <1>8 DEF Evaluate
  <2>2. QED
    BY <2>1, <1>s, SetTestGrows
<1>9. QED
  BY <1>1, <1>2, <1>3, <1>4, <1>5, <1>6, <1>7, <1>8 DEF TestMoves

-----------------------------------------------------------------------------
(* The binding tests.                                                        *)

\* A rule and route keeps its first p-value.
FirstStays == \A u \in Rules, r \in Routes :
                 first[u][r].p # Untested => first'[u][r] = first[u][r]

LEMMA FirstKept ==
    ASSUME FirstTyped, FirstMoves
    PROVE  FirstTyped' /\ FirstStays
<1>1. PICK i \in Ideas, r \in Routes : Measure(i, r)
  BY DEF FirstMoves
<1>2. PICK p \in PValues : Bind(i, r, p)
  BY <1>1 DEF Measure
<1> DEFINE u == RuleOf[i]
<1> DEFINE y == [p |-> p, by |-> i]
<1> DEFINE f == [first EXCEPT ![u][r] = y]
<1>3. u \in Rules
  OBVIOUS
<1>4. y \in First
  BY DEF First
<1>5. first' = IF first[u][r].p = Untested THEN f ELSE first
  BY <1>2 DEF Bind, PValue
<1> HIDE DEF u, y
<1>6. /\ f \in [Rules -> [Routes -> First]]
      /\ \A v \in Rules, q \in Routes : f[v][q] = IF v = u /\ q = r THEN y ELSE first[v][q]
  <2>1. first \in [Rules -> [Routes -> First]]
    BY DEF FirstTyped
  <2>2. QED
    BY ONLY <2>1, <1>3, <1>4, r \in Routes, CellPut
<1> HIDE DEF f
<1>7. QED
  BY <1>5, <1>6 DEF FirstTyped, FirstStays

-----------------------------------------------------------------------------
(* The baselines.                                                            *)

BaseTyped == base \in [Ideas -> BaseStates]

\* A baseline never disappears, and starts to run only when its tests are cleared.
BaseGrows ==
    \A i \in Ideas :
       /\ base[i] # "none" => base'[i] # "none"
       /\ base'[i] \in {"running", "finished"} =>
            base[i] \in {"running", "finished"} \/ Cleared(test, i)

LEMMA BaselineStateTyped ==
    ASSUME NEW i, NEW s, NEW b
    PROVE  BaselineState(i, s, b) \in {"scheduled", "archived", "ready"}
  BY DEF BaselineState

LEMMA BaseKept ==
    ASSUME BaseTyped, TurnTyped, TurnShape, PlanTyped, PlanShape, BaseMoves
    PROVE  BaseTyped' /\ BaseGrows
<1> DEFINE Goal == BaseTyped' /\ BaseGrows
\* A rewrite of every row, whose rows grow.
<1>0. ASSUME NEW b, base' = [i \in Ideas |-> b[i]],
             \A i \in Ideas : \/ b[i] = base[i]
                              \/ b[i] \in {"scheduled", "ready", "archived", "dependency_blocked"}
                              \/ b[i] = "running" /\ Cleared(test, i)
                              \/ b[i] = "finished" /\ base[i] = "running"
      PROVE  Goal
  <2>1. \A i \in Ideas : base'[i] = b[i] /\ base[i] \in BaseStates
    BY <1>0 DEF BaseTyped
  <2>2. BaseTyped'
    BY <1>0, <2>1 DEF BaseTyped, BaseStates
  <2>3. BaseGrows
    BY <1>0, <2>1 DEF BaseGrows
  <2>4. QED
    BY <2>2, <2>3
\* One row becomes x.
<1>r. ASSUME NEW i \in Ideas, NEW x, base' = [base EXCEPT ![i] = x],
             \/ x = base[i]
             \/ x \in {"scheduled", "ready", "archived", "dependency_blocked"}
             \/ x = "finished" /\ base[i] = "running"
      PROVE  Goal
  <2> DEFINE b == [j \in Ideas |-> IF j = i THEN x ELSE base[j]]
  <2>1. base' = [j \in Ideas |-> b[j]]
    BY <1>r, ZenonT(40) DEF BaseTyped
  <2>2. \A j \in Ideas : \/ b[j] = base[j]
                         \/ b[j] \in {"scheduled", "ready", "archived", "dependency_blocked"}
                         \/ b[j] = "finished" /\ base[j] = "running"
    BY <1>r
  <2> HIDE DEF b
  <2>3. QED
    BY <2>1, <2>2, <1>0
<1>1. ASSUME NEW w \in Supervisors, ReconcileDependencies(w) PROVE Goal
  <2> DEFINE b == [i \in Ideas |->
                     IF base[i] = "scheduled" /\ Stuck(i) THEN "dependency_blocked"
                     ELSE IF base[i] = "dependency_blocked" /\ Reopens(i) THEN "scheduled"
                     ELSE base[i]]
  <2>1. base' = [i \in Ideas |-> b[i]]
    BY <1>1 DEF ReconcileDependencies
  <2>2. \A i \in Ideas : b[i] = base[i] \/ b[i] \in {"scheduled", "dependency_blocked"}
    OBVIOUS
  <2> HIDE DEF b
  <2>3. QED
    BY <2>1, <2>2, <1>0
<1>2. ASSUME NEW w \in Supervisors, Promote(w) PROVE Goal
  <2>1. PICK T \in SUBSET RunnableTests, B \in SUBSET RunnableBases :
         /\ Cardinality(T) + Cardinality(B) <= Room
         /\ \/ Cardinality(T) + Cardinality(B) = Room
            \/ T = RunnableTests /\ B = RunnableBases
         /\ test' = [i \in Ideas |-> [r \in Routes |->
                       IF <<i, r>> \in T THEN [test[i][r] EXCEPT !.state = "ready"]
                                         ELSE test[i][r]]]
         /\ base' = [i \in Ideas |-> IF i \in B THEN "ready" ELSE base[i]]
    BY <1>2 DEF Promote
  <2> DEFINE b == [i \in Ideas |-> IF i \in B THEN "ready" ELSE base[i]]
  <2>2. base' = [i \in Ideas |-> b[i]]
    BY <2>1
  <2>3. \A i \in Ideas : b[i] = base[i] \/ b[i] = "ready"
    OBVIOUS
  <2> HIDE DEF b
  <2>4. QED
    BY <2>2, <2>3, <1>0
<1>3. ASSUME NEW w \in Supervisors, Claim(w) PROVE Goal
  <2> DEFINE b == [i \in Ideas |-> IF Claimable(i) THEN "running" ELSE base[i]]
  <2>1. base' = [i \in Ideas |-> b[i]]
    BY <1>3 DEF Claim
  <2>2. \A i \in Ideas : b[i] = base[i] \/ (b[i] = "running" /\ Cleared(test, i))
    BY DEF Claimable
  <2> HIDE DEF b
  <2>3. QED
    BY <2>1, <2>2, <1>0
<1>4. ASSUME NEW w \in Supervisors, ArchiveDependents(w) PROVE Goal
  <2> DEFINE x == IF base[turn[w].idea] = "scheduled" THEN "archived" ELSE base[turn[w].idea]
  <2>1. turn[w].idea \in Ideas /\ base' = [base EXCEPT ![turn[w].idea] = x]
    BY <1>4, TurnOf DEF ArchiveDependents
  <2>2. QED
    BY <2>1, <1>r, ZenonT(40)
<1>5. ASSUME NEW w \in Supervisors, GateAlone(w) PROVE Goal
  <2>1. turn[w].idea \in Ideas
    BY <1>5, TurnOf, ZenonT(40) DEF GateAlone
  <2>2. \/ base' = base
        \/ \E x \in {"archived", "ready", base[turn[w].idea]} :
              base' = [base EXCEPT ![turn[w].idea] = x]
    BY <1>5, ZenonT(40) DEF GateAlone
  <2>3. CASE base' = base
    BY <2>3 DEF BaseTyped, BaseGrows
  <2>4. QED
    BY <2>1, <2>2, <2>3, <1>r, SMTT(30)
<1>6. ASSUME NEW w \in Supervisors, GateCohort(w) PROVE Goal
  <2> DEFINE F == Family(test[turn[w].idea][turn[w].route].family)
  <2> DEFINE after == [i \in Ideas |-> [r \in Routes |->
                         IF <<i, r>> \in F THEN [test[i][r] EXCEPT !.gate = FdrGate(F, <<i, r>>)]
                                           ELSE test[i][r]]]
  <2> DEFINE failed(i) == \E r \in TestsOf(i) : <<i, r>> \in F /\ after[i][r].gate = "failed"
  <2> DEFINE may == {i \in Ideas : Releasable(F, after, i)}
  <2> DEFINE sure == {i \in may : Cleared(after, i)}
  <2>1. PICK R \in SUBSET may :
          /\ Fits(Cardinality(R))
          /\ Fits(Cardinality(R) + 1) => sure \subseteq R
          /\ base' = [i \in Ideas |->
                     IF i \in R THEN "ready"
                     ELSE IF base[i] = "scheduled" /\ failed(i) THEN "archived"
                     ELSE base[i]]
    BY <1>6 DEF GateCohort
  <2> DEFINE b == [i \in Ideas |->
                     IF i \in R THEN "ready"
                     ELSE IF base[i] = "scheduled" /\ failed(i) THEN "archived"
                     ELSE base[i]]
  <2>2. base' = [i \in Ideas |-> b[i]]
    BY <2>1, ZenonT(40)
  <2>3. \A i \in Ideas : b[i] = base[i] \/ b[i] \in {"ready", "archived"}
    BY ZenonT(40)
  <2> HIDE DEF b
  <2>4. QED
    BY <2>2, <2>3, <1>0, ZenonT(40)
<1>7. ASSUME NEW w \in Planners, InsertBaseline(w) PROVE Goal
  <2>1. plan[w] \in Plan /\ plan[w].todo # <<>>
    BY <1>7, PlanStays DEF InsertBaseline, ShapeOf
  <2>2. Next1(w) \in Ideas
    BY <2>1, PlanFields DEF Todos, Next1
  <2> DEFINE x == BaselineState(Next1(w), plan[w].seen, plan[w].release)
  <2>3. base' = base \/ base' = [base EXCEPT ![Next1(w)] = x]
    BY <1>7 DEF InsertBaseline
  <2>4. x \in {"scheduled", "archived", "ready"}
    BY BaselineStateTyped
  <2> HIDE DEF x
  <2>5. CASE base' = base
    BY <2>5 DEF BaseTyped, BaseGrows
  <2>6. QED
    BY <2>2, <2>3, <2>4, <2>5, <1>r
<1>8. ASSUME NEW i \in Ideas, BaselineEnds(i) PROVE Goal
  BY <1>8, <1>r, ZenonT(40) DEF BaselineEnds
<1>9. QED
  BY <1>1, <1>2, <1>3, <1>4, <1>5, <1>6, <1>7, <1>8 DEF BaseMoves

-----------------------------------------------------------------------------
(* The turns, the clocks and the counters.                                   *)

LEMMA NoTurnTyped == NoTurn \in Turn /\ NoTurn.at = "idle"
<1>1. (CHOOSE r \in Routes : TRUE) \in Routes
  OBVIOUS
<1>2. QED
  BY <1>1 DEF NoTurn, Turn

LEMMA TurnKept ==
    ASSUME TurnTyped, TurnShape, TurnMoves
    PROVE  TurnTyped' /\ TurnShape'
<1>1. ASSUME NEW w \in Supervisors, NEW i \in Ideas, NEW r \in Routes, Evaluate(w, i, r)
      PROVE  \E x \in Turn : x.idea \in Ideas /\ turn' = [turn EXCEPT ![w] = x]
  <2> DEFINE x == [at |-> IF test[i][r].state = "errored" THEN "archive" ELSE "gate",
                   idea |-> i, route |-> r]
  <2>1. x \in Turn /\ x.idea = i
    BY DEF Turn
  <2>2. turn' = [turn EXCEPT ![w] = x]
    BY <1>1 DEF Evaluate
  <2> HIDE DEF x
  <2>3. QED
    BY <2>1, <2>2
<1>2. \E w \in Supervisors, x \in Turn :
         (x.at # "idle" => x.idea \in Ideas) /\ turn' = [turn EXCEPT ![w] = x]
  <2>1. ASSUME NEW w \in Supervisors,
               ArchiveDependents(w) \/ GateAlone(w) \/ GateWaits(w) \/ GateCohort(w) \/ Crash(w)
        PROVE  turn' = [turn EXCEPT ![w] = NoTurn]
    BY <2>1 DEF ArchiveDependents, GateAlone, GateWaits, GateCohort, Crash
  <2>2. QED
    BY <1>1, <2>1, NoTurnTyped DEF TurnMoves
<1>3. QED
  BY <1>2 DEF TurnTyped, TurnShape

PcTyped     == pc \in [Supervisors -> PCs]
EventsTyped == events \in 0 .. MaxEvents

LEMMA PcKept ==
    ASSUME PcTyped, PcMoves
    PROVE  PcTyped'
<1>1. \E w \in Supervisors, x \in PCs : pc' = [pc EXCEPT ![w] = x]
  <2>1. ASSUME NEW w \in Supervisors,
               \/ Refresh(w) \/ ReconcileDependencies(w) \/ Promote(w) \/ Reserve(w)
               \/ Claim(w) \/ Crash(w)
        PROVE  \E x \in PCs : pc' = [pc EXCEPT ![w] = x]
    <3>1. \E x \in {"refresh", "reconcile", "promote", "reserve", "claim"} :
             pc' = [pc EXCEPT ![w] = x]
      <4>1. CASE Refresh(w)
        BY <4>1 DEF Refresh, Goto
      <4>2. CASE ReconcileDependencies(w)
        BY <4>2 DEF ReconcileDependencies, Goto
      <4>3. CASE Promote(w)
        BY <4>3 DEF Promote, Goto
      <4>4. CASE Reserve(w)
        BY <4>4 DEF Reserve, Goto
      <4>5. CASE Claim(w)
        BY <4>5 DEF Claim, Goto
      <4>6. CASE Crash(w)
        BY <4>6 DEF Crash
      <4>7. QED
        BY <2>1, <4>1, <4>2, <4>3, <4>4, <4>5, <4>6
    <3>2. QED
      BY <3>1 DEF PCs
  <2>2. QED
    BY <2>1 DEF PcMoves
<1>2. QED
  BY <1>1 DEF PcTyped

LEMMA EventsKept ==
    ASSUME EventsTyped, EventsMoves
    PROVE  EventsTyped'
<1>1. Happens \/ UNCHANGED events
  BY DEF EventsMoves, Crash, Synthesize, TestErrors, Lapse
<1>2. QED
  BY <1>1 DEF EventsTyped, Happens

-----------------------------------------------------------------------------
(* The cohorts, again.                                                       *)

\* No cohort takes the planning lease in a step that only takes leases away.
NoNewLease ==
    \A k \in Cohorts : cohort'[k].status \in {"planning", "lapsed"}
                         => cohort[k].status \in {"planning", "lapsed"}

LEMMA NoNewLeaseUnique ==
    ASSUME LeaseIsUnique, NoNewLease
    PROVE  LeaseIsUnique'
  BY DEF LeaseIsUnique, NoNewLease

LEMMA FailCohortKept ==
    ASSUME CohortTyped, NEW k, FailCohort(k)
    PROVE  CohortTyped' /\ NoNewLease
<1>1. CASE k \in Cohorts
  <2> DEFINE c == [cohort EXCEPT ![k].status = "failed"]
  <2>1. /\ c \in [Cohorts -> Cohort] /\ c[k].status = "failed"
        /\ \A l \in Cohorts : l # k => c[l] = cohort[l]
    <3>1. "failed" \in StatusNames /\ cohort \in [Cohorts -> Cohort]
      BY DEF StatusNames, CohortTyped
    <3>2. QED
      BY ONLY <1>1, <3>1, StatusUpdate
  <2>2. cohort' = c \/ cohort' = cohort
    BY DEF FailCohort
  <2> HIDE DEF c
  <2>3. QED
    BY <1>1, <2>1, <2>2 DEF CohortTyped, NoNewLease
<1>2. CASE k \notin Cohorts
  BY <1>2 DEF FailCohort, CohortTyped, NoNewLease
<1>3. QED
  BY <1>1, <1>2

LEMMA CohortKept ==
    ASSUME CohortTyped, LeaseIsUnique, PlanTyped, PlanShape, CohortMoves
    PROVE  CohortTyped' /\ LeaseIsUnique'
<1> DEFINE Goal == CohortTyped' /\ LeaseIsUnique'
<1>0. ASSUME CohortTyped', NoNewLease PROVE Goal
  BY <1>0, NoNewLeaseUnique
<1>1. ASSUME NEW w \in Supervisors, Refresh(w) PROVE Goal
  <2> DEFINE drains(k) == cohort[k].status = "active" /\ \A i \in cohort[k].chains : ~ IsLive(i)
  <2> DEFINE c == [k \in Cohorts |-> IF drains(k) THEN [cohort[k] EXCEPT !.status = "drained"]
                                                  ELSE cohort[k]]
  <2>1. cohort' = c
    BY <1>1 DEF Refresh
  <2>2. ASSUME NEW k \in Cohorts
        PROVE  c[k] \in Cohort /\ (c[k] = cohort[k] \/ c[k].status = "drained")
    <3>1. /\ [cohort[k] EXCEPT !.status = "drained"] \in Cohort
          /\ [cohort[k] EXCEPT !.status = "drained"].status = "drained"
          /\ cohort[k] \in Cohort
      <4>1. cohort[k] \in Cohort /\ "drained" \in StatusNames
        BY DEF CohortTyped, StatusNames
      <4>2. QED
        BY ONLY <4>1, CohortExcept
    <3> DEFINE y == [cohort[k] EXCEPT !.status = "drained"]
    <3>2. c[k] = y \/ c[k] = cohort[k]
      OBVIOUS
    <3>y. y \in Cohort /\ y.status = "drained"
      BY <3>1
    <3> HIDE DEF c, y
    <3>3. QED
      BY <3>1, <3>2, <3>y
  <2>3. c = [k \in Cohorts |-> c[k]]
    OBVIOUS
  <2> HIDE DEF c
  <2>4. CohortTyped' /\ NoNewLease
    BY <2>1, <2>2, <2>3 DEF CohortTyped, NoNewLease
  <2>5. QED
    BY <1>0, <2>4
<1>2. ASSUME NEW w \in Supervisors, Reserve(w) PROVE Goal
  <2>1. CASE cohort' = cohort
    BY <2>1 DEF CohortTyped, LeaseIsUnique
  <2>2. CASE cohort' = Expired
    <3>1. CohortTyped' /\ NoNewLease
      BY <2>2, ExpiredTyped DEF CohortTyped, NoNewLease
    <3>2. QED
      BY <1>0, <3>1
  <2>3. CASE /\ InStatus(Expired, "planning") = {}
             /\ \E k \in Cohorts : cohort' = [Expired EXCEPT ![k].status = "planning"]
    <3>1. PICK k \in Cohorts : cohort' = [Expired EXCEPT ![k].status = "planning"]
      BY <2>3
    <3>2. /\ cohort' \in [Cohorts -> Cohort]
          /\ \A l \in Cohorts : l # k => cohort'[l] = Expired[l]
      <4>1. "planning" \in StatusNames /\ Expired \in [Cohorts -> Cohort]
        BY ExpiredTyped DEF StatusNames
      <4>2. QED
        BY ONLY <3>1, <4>1, k \in Cohorts, StatusUpdate
    <3>3. \A l \in Cohorts : Expired[l].status \notin {"planning", "lapsed"}
      BY <2>3, ExpiredTyped DEF InStatus
    <3>4. QED
      BY <3>2, <3>3 DEF CohortTyped, LeaseIsUnique
  <2>4. QED
    BY <1>2, <2>1, <2>2, <2>3 DEF Reserve, MayPlan, InStatus
<1>3. ASSUME NEW w \in Planners, DispatchFails(w) PROVE Goal
  BY <1>0, <1>3, FailCohortKept DEF DispatchFails
<1>4. ASSUME NEW w \in Planners, Activate(w) PROVE Goal
  <2> DEFINE p == plan[w]
  <2> DEFINE x == [status |-> "active", chains |-> p.asked]
  <2>1. p.cohort \in Cohorts /\ p.asked \in SUBSET Ideas
    BY <1>4, PlanStays, PlanFields DEF Activate, ShapeOf, Askeds
  <2>2. cohort' = [cohort EXCEPT ![p.cohort] = x] \/ FailCohort(p.cohort)
    BY <1>4 DEF Activate
  <2>3. x \in Cohort /\ x.status = "active"
    BY <2>1 DEF Cohort
  <2> HIDE DEF x
  <2>4. CASE cohort' = [cohort EXCEPT ![p.cohort] = x]
    <3>1. CohortTyped' /\ NoNewLease
      BY <2>1, <2>3, <2>4 DEF CohortTyped, NoNewLease
    <3>2. QED
      BY <1>0, <3>1
  <2>5. QED
    BY <1>0, <2>2, <2>4, FailCohortKept
<1>5. ASSUME NEW k \in Cohorts, Lapse(k) \/ Cool(k) PROVE Goal
  <2>1. PICK s \in {"lapsed", "cooled"} : /\ cohort' = [cohort EXCEPT ![k].status = s]
                                          /\ s = "lapsed" => cohort[k].status = "planning"
    BY <1>5 DEF Lapse, Cool
  <2>2. /\ cohort' \in [Cohorts -> Cohort] /\ cohort'[k].status = s
        /\ \A l \in Cohorts : l # k => cohort'[l] = cohort[l]
    <3>1. s \in StatusNames /\ cohort \in [Cohorts -> Cohort]
      BY DEF StatusNames, CohortTyped
    <3>2. QED
      BY ONLY <2>1, <3>1, k \in Cohorts, StatusUpdate
  <2>3. CohortTyped' /\ NoNewLease
    BY <2>1, <2>2 DEF CohortTyped, NoNewLease
  <2>4. QED
    BY <1>0, <2>3
<1>6. QED
  BY <1>1, <1>2, <1>3, <1>4, <1>5 DEF CohortMoves

-----------------------------------------------------------------------------
(* The inductive invariant.                                                  *)

\* A gate passes only on a significant first p-value of its rule and route.
GatesAreFirst ==
    \A i \in Ideas, r \in Routes : test[i][r].gate \in Passed => PValue(i, r) < 50

Typed ==
    /\ CohortTyped /\ TestTyped /\ BaseTyped /\ FirstTyped /\ PlanTyped /\ PcTyped
    /\ TurnTyped /\ EventsTyped

Inv ==
    /\ Typed
    /\ PlanShape /\ TurnShape
    /\ LeaseIsUnique
    /\ GatesAreFirst
    /\ EarnedBaselines

\* A significant p-value is there to stay.
LEMMA SignificantStays ==
    ASSUME FirstTyped, FirstStays \/ UNCHANGED first, NEW i \in Ideas, NEW r \in Routes,
           PValue(i, r) < 50
    PROVE  PValue(i, r)' < 50
<1>1. RuleOf[i] \in Rules
  OBVIOUS
<1>2. PValue(i, r) # Untested
  BY DEF Untested
<1>3. first'[RuleOf[i]][r] = first[RuleOf[i]][r]
  BY <1>1, <1>2 DEF FirstStays, PValue
<1>4. QED
  BY <1>3 DEF PValue

LEMMA InitInv == Init => Inv
<1> SUFFICES ASSUME Init PROVE Inv
  OBVIOUS
<1>1. CohortTyped /\ LeaseIsUnique
  BY DEF Init, CohortTyped, Cohort, LeaseIsUnique
<1>2. TestTyped /\ GatesAreFirst
  <2>1. Absent \in Test /\ Absent.gate \notin Passed
    BY DEF Absent, Test, TestStates, Gates, Passed
  <2>2. test = [i \in Ideas |-> [r \in Routes |-> Absent]]
    BY DEF Init
  <2>3. QED
    BY <2>1, <2>2 DEF TestTyped, GatesAreFirst
<1>3. BaseTyped /\ EarnedBaselines
  BY DEF Init, BaseTyped, BaseStates, EarnedBaselines
<1>4. FirstTyped
  BY DEF Init, FirstTyped, First, Untested
<1>5. PlanTyped /\ PlanShape
  <2>1. plan = [w \in Planners |-> NoPlan]
    BY DEF Init
  <2>2. QED
    BY <2>1, NoPlanTyped DEF PlanTyped, PlanShape
<1>6. TurnTyped /\ TurnShape
  <2>1. turn = [w \in Supervisors |-> NoTurn]
    BY DEF Init
  <2>2. QED
    BY <2>1, NoTurnTyped DEF TurnTyped, TurnShape
<1>7. PcTyped /\ EventsTyped
  BY DEF Init, PcTyped, PCs, EventsTyped
<1>8. QED
  BY <1>1, <1>2, <1>3, <1>4, <1>5, <1>6, <1>7 DEF Inv, Typed

LEMMA NextInv == Inv /\ [Next]_vars => Inv'
<1> SUFFICES ASSUME Inv, [Next]_vars PROVE Inv'
  OBVIOUS
<1> USE DEF Inv, Typed
<1>1. CohortTyped' /\ LeaseIsUnique'
  <2>1. CASE UNCHANGED cohort
    BY <2>1 DEF CohortTyped, LeaseIsUnique
  <2>2. QED
    BY <2>1, Frame, CohortKept
<1>2. FirstTyped' /\ (FirstStays \/ UNCHANGED first)
  <2>1. CASE UNCHANGED first
    BY <2>1 DEF FirstTyped
  <2>2. QED
    BY <2>1, Frame, FirstKept
<1>3. TestTyped' /\ (TestsGrow \/ UNCHANGED test)
  <2>1. CASE UNCHANGED test
    BY <2>1 DEF TestTyped
  <2>2. QED
    BY <2>1, Frame, TestKept
<1>4. BaseTyped' /\ (BaseGrows \/ UNCHANGED base)
  <2>1. CASE UNCHANGED base
    BY <2>1 DEF BaseTyped
  <2>2. QED
    BY <2>1, Frame, BaseKept
<1>5. PlanTyped' /\ PlanShape'
  <2>1. CASE UNCHANGED plan
    BY <2>1 DEF PlanTyped, PlanShape, ShapeOf
  <2>2. QED
    BY <2>1, Frame, PlanKept
<1>6. TurnTyped' /\ TurnShape'
  <2>1. CASE UNCHANGED turn
    BY <2>1 DEF TurnTyped, TurnShape
  <2>2. QED
    BY <2>1, Frame, TurnKept
<1>7. PcTyped'
  <2>1. CASE UNCHANGED pc
    BY <2>1 DEF PcTyped
  <2>2. QED
    BY <2>1, Frame, PcKept
<1>8. EventsTyped'
  <2>1. CASE UNCHANGED events
    BY <2>1 DEF EventsTyped
  <2>2. QED
    BY <2>1, Frame, EventsKept
<1>9. GatesAreFirst'
  <2>1. ASSUME NEW i \in Ideas, NEW r \in Routes, test'[i][r].gate \in Passed
        PROVE  PValue(i, r)' < 50
    <3>1. test'[i][r].gate = test[i][r].gate \/ PValue(i, r) < 50
      BY <1>3, <2>1 DEF TestsGrow, Grows
    <3>2. PValue(i, r) < 50
      BY <2>1, <3>1 DEF GatesAreFirst
    <3>3. QED
      BY <1>2, <3>2, SignificantStays
  <2>2. QED
    BY <2>1 DEF GatesAreFirst
<1>10. EarnedBaselines'
  <2>1. ASSUME NEW i \in Ideas, base'[i] \in {"running", "finished"}, NEW r \in TestsOf(i)
        PROVE  PValue(i, r)' < 50
    <3>1. r \in Routes
      BY DEF TestsOf
    <3>2. base[i] \in {"running", "finished"} \/ Cleared(test, i)
      BY <1>4, <2>1 DEF BaseGrows
    <3>3. PValue(i, r) < 50
      BY <3>1, <3>2 DEF EarnedBaselines, Cleared, GatesAreFirst
    <3>4. QED
      BY <1>2, <3>1, <3>3, SignificantStays
  <2>2. QED
    BY <2>1 DEF EarnedBaselines, TestsOf
<1>11. QED
  BY <1>1, <1>2, <1>3, <1>4, <1>5, <1>6, <1>7, <1>8, <1>9, <1>10

LEMMA SpecInv == Spec => []Inv
  BY InitInv, NextInv, PTL DEF Spec

-----------------------------------------------------------------------------
(* The theorems.                                                             *)

\* Every variable keeps its type, whatever planners, gates and leases do.
THEOREM TypeCorrect == Spec => []TypeOK
<1>1. Inv => TypeOK
  BY DEF Inv, Typed, TypeOK, CohortTyped, TestTyped, BaseTyped, FirstTyped, PlanTyped,
         PcTyped, TurnTyped, EventsTyped
<1>2. QED
  BY <1>1, SpecInv, PTL

\* At most one cohort is being planned: a planner reserves only after the expired
\* leases have failed and no other is left, and no other step starts to plan.
THEOREM LeasesAreExclusive == Spec => []OneLease
<1>1. Inv => OneLease
  <2> SUFFICES ASSUME Inv PROVE OneLease
    OBVIOUS
  <2> DEFINE L == {k \in Cohorts : cohort[k].status \in {"planning", "lapsed"}}
  <2>1. \A k, l \in L : k = l
    BY DEF Inv, LeaseIsUnique
  <2>2. CASE L = {}
    <3>1. Cardinality(L) = 0
      BY <2>2, FS_EmptySet
    <3>2. QED
      BY <3>1 DEF OneLease
  <2>3. CASE L # {}
    <3>1. PICK k \in Cohorts : L = {k}
      BY <2>1, <2>3
    <3>2. Cardinality(L) = 1
      BY <3>1, FS_Singleton, ZenonT(40)
    <3>3. QED
      BY <3>2 DEF OneLease
  <2>4. QED
    BY <2>2, <2>3
<1>2. QED
  BY <1>1, SpecInv, PTL

\* A baseline that has been claimed has earned it: the gates of its tests passed,
\* a gate passes only on the first p-value of its rule and route, and that one
\* never changes.
THEOREM BaselinesAreEarned == Spec => []EarnedBaselines
<1>1. Inv => EarnedBaselines
  BY DEF Inv
<1>2. QED
  BY <1>1, SpecInv, PTL

HIDE CohortAssumption

-----------------------------------------------------------------------------
(* The decisions of a cohort.                                                *)

Ruled == {"bh", "withheld"}

\* A gate that the false discovery control has set belongs to a test of a cohort
\* that is inserted and has its p-value: the control saw it.
DecidedInFamily ==
    \A i \in Ideas, r \in Routes : test[i][r].gate \in Ruled =>
       /\ test[i][r].state # "none"
       /\ test[i][r].family # NoCohort
       /\ PValue(i, r) # Untested

\* What every step but the gate of a cohort does to a test: it rules on none, and
\* leaves the family of those ruled on.
Keeps(x, y) == y.gate \in Ruled => y.gate = x.gate /\ y.family = x.family

TestsKeep == \A i \in Ideas, r \in Routes : Keeps(test[i][r], test'[i][r])

LEMMA KeepsState ==
    ASSUME NEW x \in Test, NEW s \in TestStates
    PROVE  Keeps(x, [x EXCEPT !.state = s]) /\ Keeps(x, x)
  BY TestIs DEF Keeps

LEMMA RawNeverRules == \A p : RawGate(p) \notin Ruled
  BY DEF RawGate, Ruled

\* One test becomes y.
LEMMA CellKeeps ==
    ASSUME TestTyped, NEW i \in Ideas, NEW r \in Routes, NEW y \in Test,
           Keeps(test[i][r], y), test' = [test EXCEPT ![i][r] = y]
    PROVE  TestsKeep
<1>1. test \in [Ideas -> [Routes -> Test]]
  BY DEF TestTyped
<1>2. \A j \in Ideas, q \in Routes :
         [test EXCEPT ![i][r] = y][j][q] = IF j = i /\ q = r THEN y ELSE test[j][q]
  BY ONLY <1>1, i \in Ideas, r \in Routes, y \in Test, CellPut
<1>3. QED
  BY <1>2 DEF TestsKeep, Keeps

\* Every test becomes what c says.
LEMMA TableKeeps ==
    ASSUME NEW c, test' = [i \in Ideas |-> [r \in Routes |-> c[i][r]]],
           \A i \in Ideas, r \in Routes : Keeps(test[i][r], c[i][r])
    PROVE  TestsKeep
  BY DEF TestsKeep

\* Only the gate of a cohort rules on tests.
LEMMA OthersKeep ==
    ASSUME TestTyped, PlanTyped, PlanShape, FirstTyped, TurnTyped, TurnShape, TestMoves
    PROVE  TestsKeep \/ \E w \in Supervisors : GateCohort(w)
<1>0. \A i \in Ideas, r \in Routes : test[i][r] \in Test
  BY DEF TestTyped
<1>s. {"ready", "running", "measured", "errored", "blocked", "finished", "scheduled"}
        \subseteq TestStates
  BY DEF TestStates
<1>1. ASSUME NEW w \in Supervisors, Promote(w) PROVE TestsKeep
  <2>1. PICK T \in SUBSET RunnableTests :
          test' = [i \in Ideas |-> [r \in Routes |->
                       IF <<i, r>> \in T THEN [test[i][r] EXCEPT !.state = "ready"]
                                         ELSE test[i][r]]]
    BY <1>1 DEF Promote
  <2> DEFINE c == [i \in Ideas |-> [r \in Routes |->
                     IF <<i, r>> \in T THEN [test[i][r] EXCEPT !.state = "ready"]
                                       ELSE test[i][r]]]
  <2>2. ASSUME NEW i \in Ideas, NEW r \in Routes PROVE Keeps(test[i][r], c[i][r])
    BY <1>0, <1>s, KeepsState
  <2>3. test' = [i \in Ideas |-> [r \in Routes |-> c[i][r]]]
    BY <2>1
  <2> HIDE DEF c
  <2>4. QED
    BY <2>2, <2>3, TableKeeps
<1>2. ASSUME NEW w \in Supervisors, Claim(w) PROVE TestsKeep
  <2> DEFINE c == [i \in Ideas |-> [r \in Routes |->
                     IF test[i][r].state = "ready" THEN [test[i][r] EXCEPT !.state = "running"]
                                                   ELSE test[i][r]]]
  <2>1. test' = [i \in Ideas |-> [r \in Routes |-> c[i][r]]]
    BY <1>2 DEF Claim
  <2>2. ASSUME NEW i \in Ideas, NEW r \in Routes PROVE Keeps(test[i][r], c[i][r])
    BY <1>0, <1>s, KeepsState
  <2> HIDE DEF c
  <2>3. QED
    BY <2>1, <2>2, TableKeeps
<1>3. ASSUME NEW w \in Supervisors, GateAlone(w) PROVE TestsKeep
  <2> DEFINE i == turn[w].idea
  <2> DEFINE r == turn[w].route
  <2> DEFINE g == RawGate(PValue(i, r))
  <2> DEFINE y == [test[i][r] EXCEPT !.gate = g]
  <2>1. turn[w].at = "gate" /\ (test' = test \/ test' = [test EXCEPT ![i][r].gate = g])
    BY <1>3 DEF GateAlone
  <2>2. i \in Ideas /\ r \in Routes
    BY <2>1, TurnOf
  <2>3. g \in Gates /\ g \notin Ruled /\ test[i][r] \in Test
    BY <2>2, <1>0, PValueTyped, RawGateTyped, RawNeverRules
  <2>4. test' = test \/ test' = [test EXCEPT ![i][r] = y]
    BY <2>1, <2>2, RewriteGate DEF TestTyped
  <2> HIDE DEF i, r, g
  <2>5. y \in Test /\ y.gate = g
    BY <2>3, TestExcept
  <2> HIDE DEF y
  <2>6. Keeps(test[i][r], y)
    BY <2>3, <2>5 DEF Keeps
  <2>7. CASE test' = test
    BY <2>7 DEF TestsKeep, Keeps
  <2>8. QED
    BY <2>2, <2>4, <2>5, <2>6, <2>7, CellKeeps
<1>4. ASSUME NEW w \in Planners, InsertTest(w) PROVE TestsKeep
  <2> DEFINE i == Next1(w)
  <2> DEFINE r == NextRoute(w)
  <2> DEFINE p == PValue(i, r)
  <2> DEFINE s == IF p # Untested THEN "finished"
                  ELSE IF plan[w].release /\ r = LeadOf[i] THEN "ready" ELSE "scheduled"
  <2> DEFINE y == [state |-> s, gate |-> RawGate(p), family |-> plan[w].cohort]
  <2>1. plan[w].at = "tests" /\ test' = IF test[i][r].state = "none"
                                          THEN [test EXCEPT ![i][r] = y] ELSE test
    BY <1>4 DEF InsertTest, NextRoute
  <2>2. i \in Ideas /\ r \in Routes
    BY <2>1, NextRouteTyped
  <2>3. RawGate(p) \in Gates /\ RawGate(p) \notin Ruled
    BY <2>2, PValueTyped, RawGateTyped, RawNeverRules
  <2>4. plan[w].cohort \in Families
    BY PlanStays, PlanFields
  <2>5. s \in TestStates
    BY DEF TestStates
  <2>7. y \in Test /\ Keeps(test[i][r], y)
    BY <2>3, <2>4, <2>5, TestIs DEF Keeps
  <2>8. CASE test' = test
    BY <2>8 DEF TestsKeep, Keeps
  <2>9. CASE test' = [test EXCEPT ![i][r] = y]
    BY <2>9, <2>2, <2>7, CellKeeps
  <2>10. QED
    BY <2>1, <2>8, <2>9
<1>5. ASSUME NEW w \in Planners, InsertBaseline(w) PROVE TestsKeep
  <2>1. ASSUME NEW j \in Ideas, NEW r \in Routes
        PROVE  test'[j][r] \in {[test[j][r] EXCEPT !.state = "finished"], test[j][r]}
    <3>1. \A i \in Ideas : test[i] \in [Routes -> Test]
      BY DEF TestTyped
    <3>2. QED
      BY <1>5, <3>1 DEF InsertBaseline, TestTyped
  <2>2. ASSUME NEW j \in Ideas, NEW r \in Routes PROVE Keeps(test[j][r], test'[j][r])
    <3>1. test[j][r] \in Test /\ "finished" \in TestStates
      BY <1>0, <1>s
    <3>2. QED
      BY <2>1, <3>1, KeepsState
  <2>3. QED
    BY <2>2 DEF TestsKeep
<1>6. ASSUME NEW i \in Ideas, NEW r \in Routes, NEW s \in TestStates, SetTest(i, r, s)
      PROVE  TestsKeep
  <2> DEFINE y == [test[i][r] EXCEPT !.state = s]
  <2>1. y \in Test /\ Keeps(test[i][r], y)
    BY <1>0, TestExcept, KeepsState
  <2>2. test' = [test EXCEPT ![i][r] = y]
    BY <1>6, RewriteState DEF SetTest, TestTyped
  <2> HIDE DEF y
  <2>3. QED
    BY <2>1, <2>2, CellKeeps
<1>7. ASSUME NEW i \in Ideas, NEW r \in Routes, Measure(i, r) \/ Requeue(i, r) \/ TestErrors(i, r)
      PROVE  TestsKeep
  <2>1. PICK s \in TestStates : SetTest(i, r, s)
    BY <1>7, <1>s DEF Measure, Requeue, TestErrors
  <2>2. QED
    BY <1>6, <2>1
<1>8. ASSUME NEW w \in Supervisors, NEW i \in Ideas, NEW r \in Routes, Evaluate(w, i, r)
      PROVE  TestsKeep
  <2>1. SetTest(i, r, "finished")
    BY <1>8 DEF Evaluate
  <2>2. QED
    BY <1>6, <1>s, <2>1
<1>9. QED
  BY <1>1, <1>2, <1>3, <1>4, <1>5, <1>7, <1>8 DEF TestMoves

\* A p-value that is there stays.
LEMMA TestedStays ==
    ASSUME FirstTyped, FirstStays \/ UNCHANGED first, NEW i \in Ideas, NEW r \in Routes,
           PValue(i, r) # Untested
    PROVE  PValue(i, r)' = PValue(i, r)
<1>1. RuleOf[i] \in Rules
  BY CohortAssumption
<1>2. first'[RuleOf[i]][r] = first[RuleOf[i]][r]
  BY <1>1 DEF FirstStays, PValue
<1>3. QED
  BY <1>2 DEF PValue

\* The false discovery control withholds no test while it passes one of the same
\* family with a p-value no smaller.
LEMMA ControlIsMonotone ==
    ASSUME FirstTyped, NEW F \in SUBSET (Ideas \X Routes), NEW x \in F, NEW y \in F,
           FdrGate(F, x) = "bh", FdrGate(F, y) = "withheld"
    PROVE  PValue(x[1], x[2]) < PValue(y[1], y[2])
<1> DEFINE p(z) == PValue(z[1], z[2])
<1>1. \A z \in F : p(z) \in Nat
  <2>1. ASSUME NEW z \in F PROVE p(z) \in PValues \cup {Untested}
    BY PValueTyped
  <2>2. PValues \cup {Untested} \subseteq Nat
    BY CohortAssumption DEF Untested
  <2> HIDE DEF p
  <2>3. QED
    BY <2>1, <2>2
<1>2. Rejected(F, x)
  BY RawNeverRules DEF FdrGate, Ruled
<1>3. ~ Rejected(F, y)
  BY RawNeverRules DEF FdrGate, Ruled
<1>4. PICK z \in F : /\ p(x) <= p(z)
                     /\ p(z) * Cardinality(F)
                          <= FdrLevel * Cardinality({v \in F : p(v) <= p(z)})
  BY <1>2 DEF Rejected
<1>5. ~ (p(y) <= p(z))
  BY <1>3, <1>4 DEF Rejected
<1>6. p(x) < p(y)
  <2> HIDE DEF p
  <2>1. QED
    BY <1>1, <1>4, <1>5
<1>7. QED
  BY <1>6

FamilyInv == Inv /\ DecidedInFamily /\ FamilyAgrees

\* The gate of a cohort rules on the whole family at once.
LEMMA GateAgrees ==
    ASSUME FamilyInv, NEW w \in Supervisors, GateCohort(w)
    PROVE  DecidedInFamily' /\ FamilyAgrees'
<1> DEFINE k == test[turn[w].idea][turn[w].route].family
<1> DEFINE F == Family(k)
<1>t. /\ FirstTyped /\ TestTyped /\ DecidedInFamily /\ FamilyAgrees
  BY DEF FamilyInv, Inv, Typed
<1>1. /\ first' = first /\ k # NoCohort
      /\ \A x \in F : PValue(x[1], x[2]) # Untested
      /\ test' = [i \in Ideas |-> [r \in Routes |->
                    IF <<i, r>> \in F THEN [test[i][r] EXCEPT !.gate = FdrGate(F, <<i, r>>)]
                                      ELSE test[i][r]]]
  BY DEF GateCohort
<1>2. F \in SUBSET (Ideas \X Routes)
  BY DEF Family
<1>3. \A i \in Ideas, r \in Routes :
         <<i, r>> \in F <=> test[i][r].state # "none" /\ test[i][r].family = k
  BY DEF Family
<1> HIDE DEF k, F
<1>4. \A i \in Ideas, r \in Routes :
         /\ test'[i][r].family = test[i][r].family
         /\ test'[i][r].state = test[i][r].state
         /\ PValue(i, r)' = PValue(i, r)
         /\ test'[i][r].gate = IF <<i, r>> \in F THEN FdrGate(F, <<i, r>>) ELSE test[i][r].gate
  <2>1. \A i \in Ideas, r \in Routes : test[i][r] \in Test
    BY <1>t DEF TestTyped
  <2>2. ASSUME NEW i \in Ideas, NEW r \in Routes
        PROVE  /\ test'[i][r].family = test[i][r].family
               /\ test'[i][r].state = test[i][r].state
               /\ test'[i][r].gate = IF <<i, r>> \in F THEN FdrGate(F, <<i, r>>) ELSE test[i][r].gate
    <3>1. test'[i][r] = IF <<i, r>> \in F THEN [test[i][r] EXCEPT !.gate = FdrGate(F, <<i, r>>)]
                                          ELSE test[i][r]
      BY <1>1
    <3>2. QED
      BY <2>1, <3>1, TestIs
  <2>3. QED
    BY <1>1, <2>2 DEF PValue
<1>5. DecidedInFamily'
  <2>1. ASSUME NEW i \in Ideas, NEW r \in Routes, test'[i][r].gate \in Ruled
        PROVE  /\ test'[i][r].state # "none" /\ test'[i][r].family # NoCohort
               /\ PValue(i, r)' # Untested
    <3>1. CASE <<i, r>> \in F
      <4>1. PValue(<<i, r>>[1], <<i, r>>[2]) # Untested
        BY <1>1, <3>1
      <4>2. PValue(i, r) # Untested
        BY <4>1
      <4>3. PValue(i, r)' = PValue(i, r)
        BY <1>4
      <4>4. test'[i][r].state # "none" /\ test'[i][r].family # NoCohort
        <5>1. test[i][r].state # "none" /\ test[i][r].family = k
          BY <1>3, <3>1
        <5>2. test'[i][r].state = test[i][r].state /\ test'[i][r].family = test[i][r].family
          BY <1>4
        <5>3. QED
          BY <1>1, <5>1, <5>2
      <4>5. QED
        BY <4>2, <4>3, <4>4
    <3>2. CASE <<i, r>> \notin F
      BY <1>t, <1>4, <2>1, <3>2 DEF DecidedInFamily
    <3>3. QED
      BY <3>1, <3>2
  <2>2. QED
    BY <2>1 DEF DecidedInFamily
<1>6. FamilyAgrees'
  <2>1. ASSUME NEW i \in Ideas, NEW j \in Ideas, NEW q \in Routes, NEW r \in Routes,
               test'[i][q].family = test'[j][r].family,
               test'[i][q].gate = "bh", test'[j][r].gate = "withheld"
        PROVE  PValue(i, q)' < PValue(j, r)'
    <3>0. PValue(i, q)' = PValue(i, q) /\ PValue(j, r)' = PValue(j, r)
      BY <1>4
    <3>1. <<i, q>> \in F <=> <<j, r>> \in F
      BY <1>3, <1>4, <1>5, <2>1 DEF DecidedInFamily, Ruled
    <3>2. CASE <<i, q>> \in F
      <4>1. FdrGate(F, <<i, q>>) = "bh" /\ FdrGate(F, <<j, r>>) = "withheld" /\ <<j, r>> \in F
        BY <1>4, <2>1, <3>1, <3>2
      <4>2. PValue(<<i, q>>[1], <<i, q>>[2]) < PValue(<<j, r>>[1], <<j, r>>[2])
        BY <1>t, <1>2, <3>2, <4>1, ControlIsMonotone
      <4>3. QED
        BY <3>0, <4>2
    <3>3. CASE <<i, q>> \notin F
      <4>1. PValue(i, q) < PValue(j, r)
        BY <1>t, <1>4, <2>1, <3>1, <3>3 DEF FamilyAgrees
      <4>2. QED
        BY <3>0, <4>1
    <3>4. QED
      BY <3>2, <3>3
  <2>2. QED
    BY <2>1 DEF FamilyAgrees
<1>7. QED
  BY <1>5, <1>6

\* A step that rules on no test leaves the decisions and their p-values.
LEMMA OthersAgree ==
    ASSUME FamilyInv, TestsKeep, TestsGrow \/ UNCHANGED test, FirstStays \/ UNCHANGED first
    PROVE  DecidedInFamily' /\ FamilyAgrees'
<1>t. FirstTyped /\ DecidedInFamily /\ FamilyAgrees
  BY DEF FamilyInv, Inv, Typed
<1>1. ASSUME NEW i \in Ideas, NEW r \in Routes, test'[i][r].gate \in Ruled
      PROVE  /\ test'[i][r].gate = test[i][r].gate
             /\ test'[i][r].family = test[i][r].family
             /\ test'[i][r].state # "none" /\ test[i][r].family # NoCohort
             /\ PValue(i, r) # Untested
             /\ PValue(i, r)' = PValue(i, r)
  <2>1. /\ test'[i][r].gate = test[i][r].gate
        /\ test'[i][r].family = test[i][r].family
    BY <1>1 DEF TestsKeep, Keeps
  <2>2. /\ test[i][r].state # "none" /\ test[i][r].family # NoCohort
        /\ PValue(i, r) # Untested
    BY <1>t, <1>1, <2>1 DEF DecidedInFamily
  <2>3. test'[i][r].state # "none"
    BY <2>2 DEF TestsGrow, Grows
  <2>4. PValue(i, r)' = PValue(i, r)
    BY <1>t, <2>2, TestedStays
  <2>5. QED
    BY <2>1, <2>2, <2>3, <2>4
<1>2. DecidedInFamily'
  <2>1. ASSUME NEW i \in Ideas, NEW r \in Routes, test'[i][r].gate \in Ruled
        PROVE  /\ test'[i][r].state # "none" /\ test'[i][r].family # NoCohort
               /\ PValue(i, r)' # Untested
    BY <1>1, <2>1
  <2>2. QED
    BY <2>1 DEF DecidedInFamily
<1>3. FamilyAgrees'
  <2>1. ASSUME NEW i \in Ideas, NEW j \in Ideas, NEW q \in Routes, NEW r \in Routes,
               test'[i][q].family = test'[j][r].family,
               test'[i][q].gate = "bh", test'[j][r].gate = "withheld"
        PROVE  PValue(i, q)' < PValue(j, r)'
    <3>1. "bh" \in Ruled /\ "withheld" \in Ruled
      BY DEF Ruled
    <3>2. /\ test'[i][q].gate = test[i][q].gate /\ test'[j][r].gate = test[j][r].gate
          /\ test'[i][q].family = test[i][q].family /\ test'[j][r].family = test[j][r].family
          /\ PValue(i, q)' = PValue(i, q) /\ PValue(j, r)' = PValue(j, r)
      BY <1>1, <2>1, <3>1
    <3>3. PValue(i, q) < PValue(j, r)
      BY <1>t, <2>1, <3>2 DEF FamilyAgrees
    <3>4. QED
      BY <3>2, <3>3
  <2>2. QED
    BY <2>1 DEF FamilyAgrees
<1>4. QED
  BY <1>2, <1>3

LEMMA NextFamily == FamilyInv /\ [Next]_vars => FamilyInv'
<1> SUFFICES ASSUME FamilyInv, [Next]_vars PROVE FamilyInv'
  OBVIOUS
<1>1. Inv'
  BY NextInv DEF FamilyInv
<1>t. /\ TestTyped /\ FirstTyped /\ PlanTyped /\ PlanShape /\ TurnTyped /\ TurnShape
  BY DEF FamilyInv, Inv, Typed
<1>2. FirstStays \/ UNCHANGED first
  BY <1>t, Frame, FirstKept
<1>3. TestsGrow \/ UNCHANGED test
  BY <1>t, Frame, TestKept
<1>4. CASE UNCHANGED test
  <2>1. TestsKeep
    BY <1>4 DEF TestsKeep, Keeps
  <2>2. QED
    BY <1>1, <1>2, <1>4, <2>1, OthersAgree DEF FamilyInv
<1>5. CASE TestMoves
  <2>1. TestsKeep \/ \E w \in Supervisors : GateCohort(w)
    BY <1>t, <1>5, OthersKeep
  <2>2. QED
    BY <1>1, <1>2, <1>3, <2>1, OthersAgree, GateAgrees DEF FamilyInv
<1>6. QED
  BY <1>4, <1>5, Frame

LEMMA InitFamily == Init => FamilyInv
<1> SUFFICES ASSUME Init PROVE FamilyInv
  OBVIOUS
<1>1. \A i \in Ideas, r \in Routes : test[i][r].gate = "awaiting"
  BY DEF Init, Absent
<1>2. QED
  BY <1>1, InitInv DEF FamilyInv, DecidedInFamily, FamilyAgrees, Ruled

\* The decisions of a cohort are those of one family: the gate of a cohort rules
\* on all its tests at once, on p-values that never change, and no other step
\* passes or withholds a test.
THEOREM FamiliesAgree == Spec => []FamilyAgrees
<1>1. Spec => []FamilyInv
  BY InitFamily, NextFamily, PTL DEF Spec
<1>2. FamilyInv => FamilyAgrees
  BY DEF FamilyInv
<1>3. QED
  BY <1>1, <1>2, PTL

-----------------------------------------------------------------------------
(* Cohorts become active when they are complete.                             *)

\* All work items of an idea are in the queue.
FilledIn(t, bs, i) == bs[i] # "none" /\ \A r \in TestsOf(i) : t[i][r].state # "none"

\* An idea that a planner still has to insert.
Awaits(p, i) == \E n \in 1 .. Len(p.todo) : p.todo[n] = i

\* What a planner has inserted by each label: the routes it is done with, and all
\* ideas it no longer has to do, unless one was rejected.
FillsIn(t, bs, p) ==
    /\ p.at \in {"tests", "baseline"} => \A r \in p.done : t[Head(p.todo)][r].state # "none"
    /\ p.at = "baseline" => TestsOf(Head(p.todo)) \subseteq p.done
    /\ p.at = "activate" => p.todo = <<>>
    /\ p.at \in {"capacity", "tests", "baseline", "activate"} /\ p.cohort # NoCohort =>
         /\ Cardinality(p.asked) = Requested
         /\ p.complete => \A i \in p.asked : FilledIn(t, bs, i) \/ Awaits(p, i)

PlansFill == \A w \in Planners : FillsIn(test, base, plan[w])

CompleteInv == Inv /\ PlansFill /\ ActiveIsComplete

\* Work items are never taken out of the queue.
ItemsStay == /\ TestsGrow \/ UNCHANGED test
             /\ BaseGrows \/ UNCHANGED base

LEMMA StepKeepsItems == Inv /\ [Next]_vars => ItemsStay
<1> SUFFICES ASSUME Inv, [Next]_vars PROVE ItemsStay
  OBVIOUS
<1> USE DEF Inv, Typed
<1>1. TestsGrow \/ UNCHANGED test
  BY Frame, TestKept
<1>2. BaseGrows \/ UNCHANGED base
  BY Frame, BaseKept
<1>3. QED
  BY <1>1, <1>2 DEF ItemsStay

LEMMA FilledStays ==
    ASSUME ItemsStay, NEW i \in Ideas, FilledIn(test, base, i)
    PROVE  FilledIn(test', base', i)
<1>1. base'[i] # "none"
  BY DEF ItemsStay, BaseGrows, FilledIn
<1>2. ASSUME NEW r \in TestsOf(i) PROVE test'[i][r].state # "none"
  <2>1. r \in Routes
    BY CohortAssumption DEF TestsOf
  <2>2. QED
    BY <2>1 DEF ItemsStay, TestsGrow, Grows, FilledIn
<1>3. QED
  BY <1>1, <1>2 DEF FilledIn

\* Whatever the others insert, a plan that does not change still fills.
LEMMA FillsStays ==
    ASSUME ItemsStay, NEW p \in Plan, ShapeOf(p), FillsIn(test, base, p)
    PROVE  FillsIn(test', base', p)
<1>1. p.todo \in Seq(Ideas) /\ p.asked \in SUBSET Ideas /\ p.done \in SUBSET Routes
  BY PlanFields DEF Todos, Askeds, Dones
<1>2. p.at \in {"tests", "baseline"} => \A r \in p.done : test'[Head(p.todo)][r].state # "none"
  <2> SUFFICES ASSUME p.at \in {"tests", "baseline"}, NEW r \in p.done
               PROVE  test'[Head(p.todo)][r].state # "none"
    OBVIOUS
  <2>1. p.todo # <<>>
    BY DEF ShapeOf
  <2>2. Head(p.todo) \in Ideas /\ r \in Routes
    BY <1>1, <2>1
  <2>3. test[Head(p.todo)][r].state # "none"
    BY DEF FillsIn
  <2>4. QED
    BY <2>2, <2>3 DEF ItemsStay, TestsGrow, Grows
<1>3. \A i \in p.asked : FilledIn(test, base, i) => FilledIn(test', base', i)
  BY <1>1, FilledStays
<1>4. QED
  BY <1>2, <1>3 DEF FillsIn

\* The planner w goes on with the plan q.
LEMMA FillsPut ==
    ASSUME PlanTyped, PlanShape, PlansFill, ItemsStay, NEW w \in Planners, NEW q,
           FillsIn(test', base', q), plan' = [plan EXCEPT ![w] = q]
    PROVE  PlansFill'
<1>1. \A v \in Planners : plan'[v] = IF v = w THEN q ELSE plan[v]
  BY DEF PlanTyped
<1>2. ASSUME NEW v \in Planners PROVE FillsIn(test', base', plan'[v])
  <2>1. CASE v = w
    BY <1>1, <2>1
  <2>2. CASE v # w
    <3>1. FillsIn(test, base, plan[v])
      BY DEF PlansFill
    <3>2. FillsIn(test', base', plan[v])
      BY <3>1, PlanStays, FillsStays
    <3>3. QED
      BY <1>1, <2>2, <3>2
  <2>3. QED
    BY <2>1, <2>2
<1>3. QED
  BY <1>2 DEF PlansFill, FillsIn, FilledIn, Awaits

LEMMA AnswerHasAll ==
    ASSUME NEW s \in Answers
    PROVE  Cardinality({s[n] : n \in 1 .. Requested}) = Requested
<1> DEFINE A == {s[n] : n \in 1 .. Requested}
<1>1. Requested \in Nat
  BY CohortAssumption
<1>2. s \in [1 .. Requested -> Ideas] /\ \A m, n \in 1 .. Requested : s[m] = s[n] => m = n
  BY DEF Answers
<1>3. s \in Bijection(1 .. Requested, A)
  <2>1. s \in [1 .. Requested -> A]
    BY <1>2
  <2>2. \A m, n \in 1 .. Requested : s[m] = s[n] => m = n
    BY <1>2
  <2>3. \A x \in A : \E n \in 1 .. Requested : s[n] = x
    OBVIOUS
  <2>4. QED
    BY <2>1, <2>2, <2>3 DEF Bijection, Injection, Surjection, IsInjective
<1>4. ExistsBijection(1 .. Requested, A)
  BY <1>3 DEF ExistsBijection
<1>5. IsFiniteSet(1 .. Requested) /\ Cardinality(1 .. Requested) = Requested
  BY <1>1, FS_Interval
<1>6. QED
  BY <1>4, <1>5, FS_Bijection

LEMMA AwaitsRest ==
    ASSUME NEW p \in Plan, p.todo # <<>>, NEW i, Awaits(p, i), i # Head(p.todo)
    PROVE  \E n \in 1 .. Len(Tail(p.todo)) : Tail(p.todo)[n] = i
<1>1. p.todo \in Seq(Ideas)
  BY PlanFields DEF Todos
<1>2. PICK n \in 1 .. Len(p.todo) : p.todo[n] = i
  BY DEF Awaits
<1>3. n # 1
  BY <1>1, <1>2
<1>4. n - 1 \in 1 .. Len(Tail(p.todo)) /\ Tail(p.todo)[n - 1] = p.todo[n]
  BY <1>1, <1>2, <1>3
<1>5. QED
  BY <1>2, <1>4

LEMMA AdvanceFields ==
    ASSUME NEW w, NEW p \in Plan
    PROVE  LET q == Advance(w, p)
           IN  /\ q.todo = Tail(p.todo) /\ q.asked = p.asked /\ q.complete = p.complete
               /\ q.cohort = p.cohort
               /\ q.at \in {"capacity", "idle", "activate"}
               /\ q.at = "activate" => Tail(p.todo) = <<>>
               /\ q.at = "idle" => p.cohort = NoCohort
<1> DEFINE a == IF Tail(p.todo) # <<>> THEN "capacity"
                ELSE IF p.cohort = NoCohort THEN "idle" ELSE "activate"
<1> DEFINE q == [p EXCEPT !.todo = Tail(p.todo), !.release = FALSE, !.seen = Unseen,
                          !.done = {}, !.at = a]
<1>1. Advance(w, p) = q
  BY DEF Advance
<1>2. a \in {"capacity", "idle", "activate"} /\ (a = "activate" => Tail(p.todo) = <<>>)
      /\ (a = "idle" => p.cohort = NoCohort)
  OBVIOUS
<1> HIDE DEF a
<1>3. /\ q.at = a /\ q.todo = Tail(p.todo) /\ q.asked = p.asked
      /\ q.complete = p.complete /\ q.cohort = p.cohort
  BY PlanIs
<1> HIDE DEF q
<1>4. QED
  BY <1>1, <1>2, <1>3

\* Labels at which a planner has inserted nothing yet.
LEMMA FillsNothing ==
    ASSUME NEW t, NEW bs, NEW p, p.at \in {"idle", "dispatch"}
    PROVE  FillsIn(t, bs, p)
  BY DEF FillsIn

LEMMA PlansFillNext ==
    ASSUME Inv, PlansFill, ItemsStay, PlanMoves
    PROVE  PlansFill'
<1>t. PlanTyped /\ PlanShape /\ TestTyped /\ BaseTyped
  BY DEF Inv, Typed
<1>n. ASSUME NEW w \in Planners, plan' = [plan EXCEPT ![w] = NoPlan]
      PROVE  PlansFill'
  <2>1. NoPlan.at = "idle"
    BY DEF NoPlan
  <2>2. FillsIn(test', base', NoPlan)
    BY <2>1, FillsNothing
  <2>3. QED
    BY <1>n, <1>t, <2>2, FillsPut
<1>1. ASSUME NEW w \in Supervisors, Reserve(w) PROVE PlansFill'
  <2>1. CASE UNCHANGED plan
    BY <1>t, <2>1, PlanStays, FillsStays DEF PlansFill, FillsIn, FilledIn, Awaits
  <2>2. CASE ~ UNCHANGED plan
    <3>1. PICK k \in Cohorts :
            plan' = [plan EXCEPT ![w] = [NoPlan EXCEPT !.at = "dispatch", !.cohort = k]]
      BY <1>1, <2>2 DEF Reserve, InStatus
    <3> DEFINE q == [NoPlan EXCEPT !.at = "dispatch", !.cohort = k]
    <3>2. q.at = "dispatch" /\ plan' = [plan EXCEPT ![w] = q] /\ w \in Planners
      BY <3>1 DEF NoPlan, Planners
    <3> HIDE DEF q
    <3>3. FillsIn(test', base', q)
      BY <3>2, FillsNothing
    <3>4. QED
      BY <1>t, <3>2, <3>3, FillsPut
  <2>3. QED
    BY <2>1, <2>2
<1>2. ASSUME NEW w \in Planners, DispatchFails(w) \/ Activate(w) PROVE PlansFill'
  BY <1>n, <1>2 DEF DispatchFails, Activate
<1>3. ASSUME NEW w \in Supervisors, Crash(w) PROVE PlansFill'
  BY <1>n, <1>3 DEF Crash, Planners
<1>4. ASSUME NEW w \in Planners, Dispatch(w) PROVE PlansFill'
  <2>1. PICK s \in Answers :
          plan' = [plan EXCEPT ![w].at = "capacity", ![w].asked = {s[n] : n \in 1 .. Requested},
                               ![w].todo = s]
    BY <1>4 DEF Dispatch
  <2> DEFINE x == {s[n] : n \in 1 .. Requested}
  <2>2. Cardinality(x) = Requested
    BY AnswerHasAll
  <2>3. \A i \in x : \E n \in 1 .. Len(s) : s[n] = i
    <3>1. s \in [1 .. Requested -> Ideas] /\ Requested \in Nat
      BY CohortAssumption DEF Answers
    <3>2. s \in Seq(Ideas) /\ Len(s) = Requested
      BY <3>1
    <3>3. QED
      BY <3>2
  <2> HIDE DEF x
  <2> DEFINE q == [plan[w] EXCEPT !.at = "capacity", !.asked = x, !.todo = s]
  <2>4. plan[w] \in Plan
    BY <1>t, PlanStays
  <2>5. q.at = "capacity" /\ q.todo = s /\ q.asked = x
    BY <2>4, PlanIs
  <2>6. plan' = [plan EXCEPT ![w] = q]
    BY <1>t, <2>1, RewriteThree DEF x, PlanTyped
  <2> HIDE DEF q
  <2>7. FillsIn(test', base', q)
    BY <2>2, <2>3, <2>5 DEF FillsIn, Awaits
  <2>8. QED
    BY <1>t, <2>6, <2>7, FillsPut
<1>5. ASSUME NEW w \in Planners, ReadCapacity(w) PROVE PlansFill'
  <2> DEFINE b == Active < Limit
  <2> DEFINE a == IF TestsOf(Next1(w)) = {} THEN "baseline" ELSE "tests"
  <2> DEFINE q == [plan[w] EXCEPT !.release = b, !.at = a]
  <2>1. plan' = [plan EXCEPT ![w] = q]
    BY <1>t, <1>5, RewriteTwo DEF ReadCapacity, PlanTyped
  <2>2. a \in {"tests", "baseline"} /\ (a = "baseline" => TestsOf(Next1(w)) = {})
    OBVIOUS
  <2>3. plan[w] \in Plan /\ ShapeOf(plan[w]) /\ plan[w].at = "capacity"
    BY <1>t, <1>5, PlanStays DEF ReadCapacity
  <2> HIDE DEF a, b
  <2>4. /\ q.at = a /\ q.todo = plan[w].todo /\ q.done = plan[w].done
        /\ q.asked = plan[w].asked /\ q.complete = plan[w].complete
        /\ q.cohort = plan[w].cohort
    BY <2>3, PlanIs
  <2> HIDE DEF q
  <2>5. FillsIn(test', base', plan[w])
    BY <2>3, FillsStays DEF PlansFill
  <2>6. plan[w].done = {}
    BY <2>3 DEF ShapeOf
  <2>7. FillsIn(test', base', q)
    BY <2>2, <2>3, <2>4, <2>5, <2>6 DEF FillsIn, Awaits, Next1
  <2>8. QED
    BY <1>t, <2>1, <2>7, FillsPut
<1>6. ASSUME NEW w \in Planners, RejectIdea(w) PROVE PlansFill'
  <2> DEFINE p == Advance(w, plan[w])
  <2> DEFINE q == [p EXCEPT !.complete = FALSE]
  <2>1. plan[w] \in Plan /\ ShapeOf(plan[w]) /\ plan[w].at = "capacity"
    BY <1>t, <1>6, PlanStays DEF RejectIdea
  <2>2. p \in Plan
    BY <2>1, AdvanceTyped DEF ShapeOf
  <2>3. /\ p.asked = plan[w].asked /\ p.cohort = plan[w].cohort
        /\ p.todo = Tail(plan[w].todo)
        /\ p.at \in {"capacity", "idle", "activate"}
        /\ p.at = "activate" => Tail(plan[w].todo) = <<>>
    BY <2>1, AdvanceFields
  <2>4. plan' = [plan EXCEPT ![w] = q]
    BY <1>6 DEF RejectIdea
  <2> HIDE DEF p
  <2>5. q.at = p.at /\ q.todo = p.todo /\ q.asked = p.asked /\ q.cohort = p.cohort
        /\ q.complete = FALSE
    BY <2>2, PlanIs
  <2> HIDE DEF q
  <2>6. FillsIn(test', base', q)
    BY <2>1, <2>3, <2>5 DEF FillsIn, PlansFill
  <2>7. QED
    BY <1>t, <2>4, <2>6, FillsPut
<1>7. ASSUME NEW w \in Planners, InsertBaseline(w) PROVE PlansFill'
  <2> DEFINE q == Advance(w, plan[w])
  <2> DEFINE i == Next1(w)
  <2>1. plan[w] \in Plan /\ ShapeOf(plan[w]) /\ plan[w].at = "baseline" /\ plan[w].todo # <<>>
    BY <1>t, <1>7, PlanStays DEF InsertBaseline, ShapeOf
  <2>2. /\ q.asked = plan[w].asked /\ q.cohort = plan[w].cohort
        /\ q.complete = plan[w].complete /\ q.todo = Tail(plan[w].todo)
        /\ q.at \in {"capacity", "idle", "activate"}
        /\ q.at = "activate" => Tail(plan[w].todo) = <<>>
    BY <2>1, AdvanceFields
  <2>3. plan' = [plan EXCEPT ![w] = q]
    BY <1>7 DEF InsertBaseline
  <2>4. i \in Ideas /\ i = Head(plan[w].todo)
    BY <2>1, PlanFields DEF Next1, Todos
  <2>5. base'[i] # "none"
    <3>1. BaselineState(i, plan[w].seen, plan[w].release) # "none"
      BY BaselineStateTyped
    <3>2. QED
      BY <1>t, <1>7, <2>4, <3>1 DEF InsertBaseline, BaseTyped
  <2> HIDE DEF q, i
  <2>6. FillsIn(test', base', plan[w])
    BY <2>1, FillsStays DEF PlansFill
  <2>7. FilledIn(test', base', i)
    BY <2>1, <2>4, <2>5, <2>6 DEF FillsIn, FilledIn
  <2>8. ASSUME plan[w].complete, plan[w].cohort # NoCohort, NEW j \in plan[w].asked
        PROVE  FilledIn(test', base', j) \/ Awaits(q, j)
    <3>1. FilledIn(test', base', j) \/ Awaits(plan[w], j)
      BY <2>1, <2>6, <2>8 DEF FillsIn
    <3>2. CASE j = i
      BY <2>7, <3>2
    <3>3. CASE j # i /\ Awaits(plan[w], j)
      BY <2>1, <2>2, <2>4, <3>3, AwaitsRest, SMTT(30) DEF Awaits
    <3>4. QED
      BY <3>1, <3>2, <3>3
  <2>9. FillsIn(test', base', q)
    BY <2>1, <2>2, <2>6, <2>8 DEF FillsIn
  <2>10. QED
    BY <1>t, <2>3, <2>9, FillsPut
<1>8. ASSUME Synthesize PROVE PlansFill'
  <2>1. PICK i \in Ideas :
          plan' = [plan EXCEPT ![Cli] =
                    [NoPlan EXCEPT !.at = IF TestsOf(i) = {} THEN "baseline" ELSE "tests",
                                   !.todo = <<i>>, !.release = TRUE]]
    BY <1>8 DEF Synthesize
  <2> DEFINE a == IF TestsOf(i) = {} THEN "baseline" ELSE "tests"
  <2> DEFINE s == <<i>>
  <2> DEFINE q == [NoPlan EXCEPT !.at = a, !.todo = s, !.release = TRUE]
  <2>2. a \in {"tests", "baseline"} /\ (a = "baseline" => TestsOf(i) = {}) /\ Head(s) = i
    OBVIOUS
  <2>3. plan' = [plan EXCEPT ![Cli] = q] /\ Cli \in Planners
    BY <2>1 DEF Planners
  <2> HIDE DEF a, s
  <2>4. q.at = a /\ q.todo = s /\ q.done = {} /\ q.cohort = NoCohort
    BY NoPlanTyped, PlanIs
  <2> HIDE DEF q
  <2>5. FillsIn(test', base', q)
    BY <2>2, <2>4 DEF FillsIn
  <2>6. QED
    BY <1>t, <2>3, <2>5, FillsPut
<1>9. ASSUME NEW w \in Planners, InsertTest(w) PROVE PlansFill'
  <2> DEFINE i == Next1(w)
  <2> DEFINE r == NextRoute(w)
  <2> DEFINE p == PValue(i, r)
  <2> DEFINE d == plan[w].done \cup {r}
  <2> DEFINE a == IF TestsOf(i) \subseteq d THEN "baseline" ELSE "tests"
  <2> DEFINE u == [plan[w].seen EXCEPT ![r] = p]
  <2> DEFINE q == [plan[w] EXCEPT !.seen = u, !.done = d, !.at = a]
  <2> DEFINE s == IF p # Untested THEN "finished"
                  ELSE IF plan[w].release /\ r = LeadOf[i] THEN "ready" ELSE "scheduled"
  <2> DEFINE y == [state |-> s, gate |-> RawGate(p), family |-> plan[w].cohort]
  <2>1. plan[w] \in Plan /\ ShapeOf(plan[w]) /\ plan[w].at = "tests"
    BY <1>t, <1>9, PlanStays DEF InsertTest
  <2>2. plan' = [plan EXCEPT ![w].seen[r] = p, ![w].done = @ \cup {r}, ![w].at = a]
    BY <1>9 DEF InsertTest, NextRoute
  <2>3. plan' = [plan EXCEPT ![w] = q]
    BY <1>t, <2>2, RewriteTested DEF PlanTyped
  <2>4. i \in Ideas /\ r \in Routes /\ i = Head(plan[w].todo)
    BY <1>t, <2>1, NextRouteTyped DEF Next1
  <2>5. test'[i][r].state # "none"
    <3>1. test' = IF test[i][r].state = "none" THEN [test EXCEPT ![i][r] = y] ELSE test
      BY <1>9 DEF InsertTest, NextRoute
    <3>2. y.state # "none"
      OBVIOUS
    <3> HIDE DEF y, i, r
    <3>3. [test EXCEPT ![i][r] = y][i][r] = y
      BY <1>t, <2>4 DEF TestTyped
    <3>4. QED
      BY <3>1, <3>2, <3>3
  <2>6. a \in {"tests", "baseline"} /\ (a = "baseline" => TestsOf(i) \subseteq d)
    OBVIOUS
  <2>7. \A z \in d : z \in plan[w].done \/ z = r
    OBVIOUS
  <2> HIDE DEF u, d, a, i, r, p
  <2>8. /\ q.at = a /\ q.todo = plan[w].todo /\ q.done = d /\ q.asked = plan[w].asked
        /\ q.complete = plan[w].complete /\ q.cohort = plan[w].cohort
    BY <2>1, PlanIs
  <2> HIDE DEF q
  <2>9. FillsIn(test', base', plan[w])
    BY <2>1, FillsStays DEF PlansFill
  <2>10. \A z \in q.done : test'[Head(q.todo)][z].state # "none"
    BY <2>1, <2>4, <2>5, <2>7, <2>8, <2>9 DEF FillsIn
  <2>11. FillsIn(test', base', q)
    BY <2>1, <2>4, <2>6, <2>8, <2>9, <2>10 DEF FillsIn, Awaits
  <2>12. QED
    BY <1>t, <2>3, <2>11, FillsPut
<1>10. QED
  BY <1>1, <1>2, <1>3, <1>4, <1>5, <1>6, <1>7, <1>8, <1>9 DEF PlanMoves


\* A cohort that is active was so before, with the same chains, or has just been
\* activated by its planner.
LEMMA ActiveComesFrom ==
    ASSUME Inv, [Next]_vars, NEW k \in Cohorts, cohort'[k].status \in {"active", "drained"}
    PROVE  \/ cohort[k].status \in {"active", "drained"} /\ cohort'[k].chains = cohort[k].chains
           \/ \E w \in Planners : /\ plan[w].at = "activate" /\ plan[w].complete
                                  /\ plan[w].cohort = k /\ cohort'[k].chains = plan[w].asked
<1> DEFINE Goal ==
      \/ cohort[k].status \in {"active", "drained"} /\ cohort'[k].chains = cohort[k].chains
      \/ \E w \in Planners : /\ plan[w].at = "activate" /\ plan[w].complete
                             /\ plan[w].cohort = k /\ cohort'[k].chains = plan[w].asked
<1>t. cohort \in [Cohorts -> Cohort] /\ PlanTyped /\ PlanShape
  BY DEF Inv, Typed, CohortTyped
<1>0. cohort[k] \in Cohort
  BY <1>t
\* Only the status of a cohort changes, and not to active.
<1>s. ASSUME NEW c \in [Cohorts -> Cohort], c[k] = cohort[k], NEW l \in Cohorts,
             NEW s \in StatusNames \ {"active", "drained"}, cohort' = [c EXCEPT ![l].status = s]
      PROVE  Goal
  <2>1. /\ [c EXCEPT ![l].status = s][l].status = s
        /\ \A m \in Cohorts : m # l => [c EXCEPT ![l].status = s][m] = c[m]
    BY ONLY <1>s, StatusUpdate
  <2>2. k # l
    BY <1>s, <2>1
  <2>3. cohort'[k] = cohort[k]
    BY <1>s, <2>1, <2>2
  <2>4. QED
    BY <2>3
<1>f. ASSUME NEW l, FailCohort(l) PROVE Goal
  <2>1. CASE cohort' = cohort
    BY <2>1
  <2>2. CASE l \in Cohorts /\ cohort' = [cohort EXCEPT ![l].status = "failed"]
    <3>1. "failed" \in StatusNames \ {"active", "drained"}
      BY DEF StatusNames
    <3>2. QED
      BY <1>t, <1>s, <2>2, <3>1
  <2>3. QED
    BY <1>f, <2>1, <2>2 DEF FailCohort
<1>1. ASSUME NEW w \in Supervisors, Refresh(w) PROVE Goal
  <2>1. \/ cohort'[k] = cohort[k]
        \/ cohort[k].status = "active" /\ cohort'[k] = [cohort[k] EXCEPT !.status = "drained"]
    BY <1>1 DEF Refresh
  <2>2. [cohort[k] EXCEPT !.status = "drained"].chains = cohort[k].chains
    BY <1>0 DEF Cohort
  <2>3. QED
    BY <2>1, <2>2
<1>2. ASSUME NEW w \in Supervisors, Reserve(w) PROVE Goal
  <2>e. /\ Expired \in [Cohorts -> Cohort]
        /\ Expired[k].status \in {"active", "drained"} => Expired[k] = cohort[k]
    <3>1. [cohort[k] EXCEPT !.status = "failed"].status = "failed"
      BY <1>0, CohortExcept DEF StatusNames
    <3>2. Expired[k] = IF cohort[k].status = "lapsed"
                         THEN [cohort[k] EXCEPT !.status = "failed"] ELSE cohort[k]
      BY DEF Expired
    <3>3. QED
      BY <1>t, <3>1, <3>2, ExpiredTyped DEF CohortTyped
  <2>1. CASE cohort' = cohort
    BY <2>1
  <2>2. CASE cohort' = Expired
    BY <2>2, <2>e
  <2>3. CASE \E l \in Cohorts : cohort' = [Expired EXCEPT ![l].status = "planning"]
    <3>1. PICK l \in Cohorts : cohort' = [Expired EXCEPT ![l].status = "planning"]
      BY <2>3
    <3>2. "planning" \in StatusNames
      BY DEF StatusNames
    <3>3. /\ [Expired EXCEPT ![l].status = "planning"][l].status = "planning"
          /\ \A m \in Cohorts : m # l => [Expired EXCEPT ![l].status = "planning"][m] = Expired[m]
      BY ONLY <2>e, <3>2, l \in Cohorts, StatusUpdate
    <3>4. k # l
      BY <3>1, <3>3
    <3>5. cohort'[k] = Expired[k]
      BY <3>1, <3>3, <3>4
    <3>6. QED
      BY <2>e, <3>5
  <2>4. QED
    BY <1>2, <2>1, <2>2, <2>3 DEF Reserve, InStatus
<1>3. ASSUME NEW w \in Planners, DispatchFails(w) PROVE Goal
  BY <1>f, <1>3 DEF DispatchFails
<1>4. ASSUME NEW w \in Planners, Activate(w) PROVE Goal
  <2> DEFINE p == plan[w]
  <2> DEFINE x == [status |-> "active", chains |-> p.asked]
  <2>1. CASE FailCohort(p.cohort)
    BY <1>f, <2>1
  <2>2. CASE Activates(p) /\ cohort' = [cohort EXCEPT ![p.cohort] = x]
    <3>1. CASE p.cohort = k
      <4>1. cohort'[k] = x
        BY <1>t, <2>2, <3>1
      <4>2. x.chains = p.asked
        OBVIOUS
      <4>3. QED
        BY <1>4, <2>2, <3>1, <4>1, <4>2 DEF Activate, Activates
    <3>2. CASE p.cohort # k
      <4>1. cohort'[k] = cohort[k]
        BY <1>t, <2>2, <3>2
      <4>2. QED
        BY <4>1
    <3>3. QED
      BY <3>1, <3>2
  <2>3. QED
    BY <1>4, <2>1, <2>2 DEF Activate
<1>5. ASSUME NEW l \in Cohorts, Lapse(l) \/ Cool(l) PROVE Goal
  <2>1. \E s \in {"lapsed", "cooled"} : cohort' = [cohort EXCEPT ![l].status = s]
    BY <1>5 DEF Lapse, Cool
  <2>2. {"lapsed", "cooled"} \subseteq StatusNames \ {"active", "drained"}
    BY DEF StatusNames
  <2>3. QED
    BY <1>t, <1>s, <2>1, <2>2
<1>6. ASSUME UNCHANGED cohort PROVE Goal
  BY <1>6
<1> HIDE DEF Goal
<1>7. Goal
  <2>1. UNCHANGED cohort \/ CohortMoves
    BY Frame
  <2>2. QED
    BY <1>1, <1>2, <1>3, <1>4, <1>5, <1>6, <2>1 DEF CohortMoves
<1>8. QED
  BY <1>7 DEF Goal

LEMMA NextComplete == CompleteInv /\ [Next]_vars => CompleteInv'
<1> SUFFICES ASSUME CompleteInv, [Next]_vars PROVE CompleteInv'
  OBVIOUS
<1>1. Inv' /\ ItemsStay
  BY NextInv, StepKeepsItems DEF CompleteInv
<1>t. /\ Inv /\ PlansFill /\ ActiveIsComplete /\ PlanTyped /\ PlanShape
      /\ cohort \in [Cohorts -> Cohort]
  BY DEF CompleteInv, Inv, Typed, CohortTyped
<1>2. PlansFill'
  <2>1. CASE UNCHANGED plan
    BY <1>1, <1>t, <2>1, PlanStays, FillsStays DEF PlansFill, FillsIn, FilledIn, Awaits
  <2>2. QED
    BY <1>1, <1>t, <2>1, Frame, PlansFillNext
<1>3. ASSUME NEW k \in Cohorts, cohort'[k].status \in {"active", "drained"}
      PROVE  /\ Cardinality(cohort'[k].chains) = Requested
             /\ \A i \in cohort'[k].chains : FilledIn(test', base', i)
  <2>1. CASE cohort[k].status \in {"active", "drained"} /\ cohort'[k].chains = cohort[k].chains
    <3>1. /\ Cardinality(cohort[k].chains) = Requested
          /\ \A i \in cohort[k].chains : FilledIn(test, base, i)
      BY <1>t, <2>1 DEF ActiveIsComplete, FilledIn
    <3>2. cohort[k].chains \subseteq Ideas
      BY <1>t DEF Cohort
    <3>3. QED
      BY <1>1, <2>1, <3>1, <3>2, FilledStays
  <2>2. CASE \E w \in Planners : /\ plan[w].at = "activate" /\ plan[w].complete
                                 /\ plan[w].cohort = k /\ cohort'[k].chains = plan[w].asked
    <3>1. PICK w \in Planners : /\ plan[w].at = "activate" /\ plan[w].complete
                                /\ plan[w].cohort = k /\ cohort'[k].chains = plan[w].asked
      BY <2>2
    <3>2. plan[w].asked \subseteq Ideas /\ k # NoCohort
      BY <1>t, PlanStays, PlanFields, CohortAssumption DEF Askeds
    <3>3. FillsIn(test, base, plan[w])
      BY <1>t DEF PlansFill
    <3>4. ~ \E n \in 1 .. Len(plan[w].todo) : TRUE
      BY <3>1, <3>3 DEF FillsIn
    <3>5. /\ Cardinality(plan[w].asked) = Requested
          /\ \A i \in plan[w].asked : FilledIn(test, base, i)
      BY <3>1, <3>2, <3>3, <3>4 DEF FillsIn, Awaits
    <3>6. QED
      BY <1>1, <3>1, <3>2, <3>5, FilledStays
  <2>3. QED
    BY <1>t, <1>3, <2>1, <2>2, ActiveComesFrom
<1>4. ActiveIsComplete'
  BY <1>3 DEF ActiveIsComplete, FilledIn
<1>5. QED
  BY <1>1, <1>2, <1>4 DEF CompleteInv

LEMMA InitComplete == Init => CompleteInv
<1> SUFFICES ASSUME Init PROVE CompleteInv
  OBVIOUS
<1>1. \A w \in Planners : plan[w] = NoPlan /\ NoPlan.at = "idle"
  BY DEF Init, NoPlan
<1>2. PlansFill
  BY <1>1, FillsNothing DEF PlansFill
<1>3. \A k \in Cohorts : cohort[k].status = "none"
  BY DEF Init
<1>4. QED
  BY <1>2, <1>3, InitInv DEF CompleteInv, ActiveIsComplete

\* A cohort becomes active only when all requested chains are in the queue: its
\* planner has inserted every idea it no longer has to do, a rejected one marks
\* the plan, and no work item ever leaves the queue.
THEOREM ActiveCohortsAreComplete == Spec => []ActiveIsComplete
<1>1. Spec => []CompleteInv
  BY InitComplete, NextComplete, PTL DEF Spec
<1>2. CompleteInv => ActiveIsComplete
  BY DEF CompleteInv
<1>3. QED
  BY <1>1, <1>2, PTL

-----------------------------------------------------------------------------
(* The active limit.                                                         *)

BusyTests(t)  == {x \in Ideas \X Routes : t[x[1]][x[2]].state \in Busy}
BusyBases(bs) == {i \in Ideas : bs[i] \in Busy}

LEMMA ActiveCounts ==
    ASSUME NEW t, NEW bs
    PROVE  /\ ActiveIn(t, bs) = Cardinality(BusyTests(t)) + Cardinality(BusyBases(bs))
           /\ IsFiniteSet(BusyTests(t)) /\ Cardinality(BusyTests(t)) \in Nat
           /\ IsFiniteSet(BusyBases(bs)) /\ Cardinality(BusyBases(bs)) \in Nat
           /\ ActiveIn(t, bs) \in Nat
<1>1. ActiveIn(t, bs) = Cardinality(BusyTests(t)) + Cardinality(BusyBases(bs))
  BY DEF ActiveIn, BusyTests, BusyBases
<1>2. IsFiniteSet(Ideas \X Routes) /\ IsFiniteSet(Ideas)
  BY CohortAssumption, FS_Product
<1>3. BusyTests(t) \in SUBSET (Ideas \X Routes) /\ BusyBases(bs) \in SUBSET Ideas
  BY DEF BusyTests, BusyBases
<1>4. IsFiniteSet(BusyTests(t)) /\ IsFiniteSet(BusyBases(bs))
  BY <1>2, <1>3, FS_Subset
<1>5. Cardinality(BusyTests(t)) \in Nat /\ Cardinality(BusyBases(bs)) \in Nat
  BY <1>4, FS_CardinalityType
<1>6. QED
  BY <1>1, <1>4, <1>5

LEMMA UnionIsBounded ==
    ASSUME NEW S, IsFiniteSet(S), NEW T, IsFiniteSet(T), NEW U, U \subseteq S \cup T
    PROVE  Cardinality(U) <= Cardinality(S) + Cardinality(T)
<1>1. IsFiniteSet(S \cup T)
      /\ Cardinality(S \cup T) = Cardinality(S) + Cardinality(T) - Cardinality(S \cap T)
  BY FS_Union
<1>2. IsFiniteSet(U) /\ Cardinality(U) <= Cardinality(S \cup T)
  BY <1>1, FS_Subset
<1>3. IsFiniteSet(S \cap T)
  BY FS_Intersection
<1>4. /\ Cardinality(S) \in Nat /\ Cardinality(T) \in Nat /\ Cardinality(S \cap T) \in Nat
      /\ Cardinality(S \cup T) \in Nat /\ Cardinality(U) \in Nat
  BY <1>1, <1>2, <1>3, FS_CardinalityType
<1>5. QED
  BY <1>1, <1>2, <1>4

\* A step that makes at most the tests T and the baselines B busy adds as many.
LEMMA ActiveAdds ==
    ASSUME NEW T, T \subseteq Ideas \X Routes, NEW B, B \subseteq Ideas,
           BusyTests(test') \subseteq BusyTests(test) \cup T,
           BusyBases(base') \subseteq BusyBases(base) \cup B
    PROVE  /\ Active' <= Active + Cardinality(T) + Cardinality(B)
           /\ Active \in Nat /\ Active' \in Nat
           /\ Cardinality(T) \in Nat /\ Cardinality(B) \in Nat
<1>1. IsFiniteSet(Ideas \X Routes) /\ IsFiniteSet(Ideas)
  BY CohortAssumption, FS_Product
<1>2. IsFiniteSet(T) /\ IsFiniteSet(B)
  BY <1>1, FS_Subset
<1>3. Cardinality(T) \in Nat /\ Cardinality(B) \in Nat
  BY <1>2, FS_CardinalityType
<1>4. Cardinality(BusyTests(test')) <= Cardinality(BusyTests(test)) + Cardinality(T)
  BY <1>2, ActiveCounts, UnionIsBounded
<1>5. Cardinality(BusyBases(base')) <= Cardinality(BusyBases(base)) + Cardinality(B)
  BY <1>2, ActiveCounts, UnionIsBounded
<1>6. /\ Active = Cardinality(BusyTests(test)) + Cardinality(BusyBases(base))
      /\ Active' = Cardinality(BusyTests(test')) + Cardinality(BusyBases(base'))
      /\ Cardinality(BusyTests(test)) \in Nat /\ Cardinality(BusyBases(base)) \in Nat
      /\ Cardinality(BusyTests(test')) \in Nat /\ Cardinality(BusyBases(base')) \in Nat
  BY ActiveCounts DEF Active
<1>7. QED
  BY <1>3, <1>4, <1>5, <1>6

\* Some step makes no more items busy.
NoMore == /\ BusyTests(test') \subseteq BusyTests(test)
          /\ BusyBases(base') \subseteq BusyBases(base)

Overruns == Active' > Active /\ Active' > Limit

LEMMA NoMoreFits == ASSUME NoMore PROVE ~ Overruns
<1>1. Cardinality({}) = 0
  BY FS_EmptySet
<1>2. /\ {} \subseteq Ideas \X Routes /\ {} \subseteq Ideas
      /\ BusyTests(test') \subseteq BusyTests(test) \cup {}
      /\ BusyBases(base') \subseteq BusyBases(base) \cup {}
  BY DEF NoMore
<1>3. Active' <= Active + Cardinality({}) + Cardinality({}) /\ Active \in Nat /\ Active' \in Nat
  BY <1>2, ActiveAdds
<1>4. QED
  BY <1>1, <1>3 DEF Overruns

\* What fits in the room stays under the limit.
LEMMA RoomFits ==
    ASSUME NEW T, T \subseteq Ideas \X Routes, NEW B, B \subseteq Ideas,
           BusyTests(test') \subseteq BusyTests(test) \cup T,
           BusyBases(base') \subseteq BusyBases(base) \cup B,
           Cardinality(T) + Cardinality(B) <= Room
    PROVE  ~ Overruns
<1>1. /\ Active' <= Active + Cardinality(T) + Cardinality(B)
      /\ Active \in Nat /\ Active' \in Nat
      /\ Cardinality(T) \in Nat /\ Cardinality(B) \in Nat
  BY ActiveAdds
<1>2. Limit \in Nat
  BY CohortAssumption
<1>3. QED
  BY <1>1, <1>2 DEF Room, Overruns

\* The busy tests of a table whose cells change their state as s says.
LEMMA BusyTestsOf ==
    ASSUME NEW i \in Ideas, NEW r \in Routes, NEW t
    PROVE  <<i, r>> \in BusyTests(t) <=> t[i][r].state \in Busy
  BY DEF BusyTests

LEMMA TestsNoMore ==
    ASSUME \A i \in Ideas, r \in Routes :
              test'[i][r].state \in Busy => test[i][r].state \in Busy
    PROVE  BusyTests(test') \subseteq BusyTests(test)
<1>1. ASSUME NEW x \in BusyTests(test') PROVE x \in BusyTests(test)
  <2>1. PICK i \in Ideas, r \in Routes : x = <<i, r>>
    BY DEF BusyTests
  <2>2. QED
    BY <2>1, BusyTestsOf
<1>2. QED
  BY <1>1

LEMMA SetTestNoMore ==
    ASSUME TestTyped, NEW i \in Ideas, NEW r \in Routes, NEW s, SetTest(i, r, s),
           s \in Busy => test[i][r].state \in Busy
    PROVE  BusyTests(test') \subseteq BusyTests(test)
<1>1. ASSUME NEW j \in Ideas, NEW q \in Routes
      PROVE  test'[j][q].state \in Busy => test[j][q].state \in Busy
  <2>1. test[j] \in [Routes -> Test] /\ test[j][q] \in Test
    BY DEF TestTyped
  <2>2. (test'[j][q].state = s /\ j = i /\ q = r) \/ test'[j][q] = test[j][q]
    BY <2>1 DEF SetTest, TestTyped, Test
  <2>3. QED
    BY <2>2
<1>2. QED
  BY <1>1, TestsNoMore

LEMMA ReleasesFitStep ==
    ASSUME Inv, [Next]_vars
    PROVE  Overruns =>
             \/ \E i \in Ideas, r \in Routes :
                  test[i][r].state \in {"none", "blocked"} /\ test'[i][r].state = "ready"
             \/ \E w \in Planners : plan[w].at = "baseline" /\ plan'[w].at # "baseline"
<1> DEFINE Excused ==
      \/ \E i \in Ideas, r \in Routes :
           test[i][r].state \in {"none", "blocked"} /\ test'[i][r].state = "ready"
      \/ \E w \in Planners : plan[w].at = "baseline" /\ plan'[w].at # "baseline"
<1> DEFINE Goal == ~ Overruns \/ Excused
<1>t. /\ TestTyped /\ BaseTyped /\ PlanTyped /\ PlanShape /\ TurnTyped /\ TurnShape /\ FirstTyped
  BY DEF Inv, Typed
<1>0. \A i \in Ideas, r \in Routes : test[i][r] \in Test
  BY <1>t DEF TestTyped
<1>u. UNCHANGED test => BusyTests(test') \subseteq BusyTests(test)
  OBVIOUS
<1>b. UNCHANGED base => BusyBases(base') \subseteq BusyBases(base)
  OBVIOUS
<1>1. ASSUME UNCHANGED <<test, base>> PROVE Goal
  BY <1>1, <1>u, <1>b, NoMoreFits DEF NoMore
<1>2. ASSUME NEW w \in Supervisors, ReconcileDependencies(w) PROVE Goal
  <2>1. BusyBases(base') \subseteq BusyBases(base)
    BY <1>2 DEF ReconcileDependencies, BusyBases, Busy
  <2>2. UNCHANGED test
    BY <1>2 DEF ReconcileDependencies
  <2>3. QED
    BY <1>u, <2>1, <2>2, NoMoreFits DEF NoMore
<1>3. ASSUME NEW w \in Supervisors, Promote(w) PROVE Goal
  <2>1. PICK T \in SUBSET RunnableTests, B \in SUBSET RunnableBases :
         /\ Cardinality(T) + Cardinality(B) <= Room
         /\ test' = [i \in Ideas |-> [r \in Routes |->
                       IF <<i, r>> \in T THEN [test[i][r] EXCEPT !.state = "ready"]
                                         ELSE test[i][r]]]
         /\ base' = [i \in Ideas |-> IF i \in B THEN "ready" ELSE base[i]]
    BY <1>3 DEF Promote
  <2>2. T \subseteq Ideas \X Routes /\ B \subseteq Ideas
    BY DEF RunnableTests, RunnableBases
  <2>3. BusyBases(base') \subseteq BusyBases(base) \cup B
    BY <2>1 DEF BusyBases
  <2>4. BusyTests(test') \subseteq BusyTests(test) \cup T
    <3>1. ASSUME NEW x \in BusyTests(test'), x \notin T PROVE x \in BusyTests(test)
      <4>1. PICK i \in Ideas, r \in Routes : x = <<i, r>>
        BY DEF BusyTests
      <4>2. test'[i][r] = test[i][r]
        BY <2>1, <3>1, <4>1
      <4>3. QED
        BY <4>1, <4>2, BusyTestsOf
    <3>2. QED
      BY <3>1
  <2>5. QED
    BY <2>1, <2>2, <2>3, <2>4, RoomFits
<1>4. ASSUME NEW w \in Supervisors, Claim(w) PROVE Goal
  <2>1. BusyBases(base') \subseteq BusyBases(base)
    BY <1>4 DEF Claim, Claimable, BusyBases, Busy
  <2>2. ASSUME NEW i \in Ideas, NEW r \in Routes, test'[i][r].state \in Busy
        PROVE  test[i][r].state \in Busy
    <3>1. test[i][r].state = "ready" \/ test'[i][r] = test[i][r]
      BY <1>4 DEF Claim
    <3>2. QED
      BY <2>2, <3>1 DEF Busy
  <2>3. BusyTests(test') \subseteq BusyTests(test)
    BY <2>2, TestsNoMore
  <2>4. QED
    BY <2>1, <2>3, NoMoreFits DEF NoMore
<1>5. ASSUME NEW w \in Supervisors, ArchiveDependents(w) PROVE Goal
  <2>1. BusyBases(base') \subseteq BusyBases(base)
    BY <1>t, <1>5 DEF ArchiveDependents, BusyBases, Busy, BaseTyped
  <2>2. UNCHANGED test
    BY <1>5 DEF ArchiveDependents
  <2>3. QED
    BY <1>u, <2>1, <2>2, NoMoreFits DEF NoMore
<1>6. ASSUME NEW w \in Supervisors, GateAlone(w) PROVE Goal
  <2> DEFINE i == turn[w].idea
  <2> DEFINE r == turn[w].route
  <2>1. i \in Ideas /\ r \in Routes
    BY <1>t, <1>6, TurnOf DEF GateAlone
  <2>2. \/ test' = test /\ base' = base
        \/ /\ \E g \in Gates : test' = [test EXCEPT ![i][r].gate = g]
           /\ \/ base' = [base EXCEPT ![i] = base[i]] \/ base' = [base EXCEPT ![i] = "archived"]
              \/ Room > 0 /\ base' = [base EXCEPT ![i] = "ready"]
    <3>1. RawGate(PValue(i, r)) \in Gates
      BY <1>t, <2>1, PValueTyped, RawGateTyped
    <3> HIDE DEF i, r
    <3>2. QED
      BY <1>6, <3>1 DEF GateAlone, i, r
  <2> HIDE DEF i, r
  <2>3. BusyTests(test') \subseteq BusyTests(test)
    <3>1. CASE test' = test
      BY <1>u, <3>1
    <3>2. ASSUME NEW g \in Gates, test' = [test EXCEPT ![i][r].gate = g]
          PROVE  \A j \in Ideas, q \in Routes : test'[j][q].state = test[j][q].state
      <4>1. test' = [test EXCEPT ![i][r] = [test[i][r] EXCEPT !.gate = g]]
        BY <1>t, <2>1, <3>2, RewriteGate DEF TestTyped
      <4>2. [test[i][r] EXCEPT !.gate = g] \in Test
            /\ [test[i][r] EXCEPT !.gate = g].state = test[i][r].state
        BY <1>0, <2>1, TestExcept
      <4>3. QED
        BY <1>t, <2>1, <4>1, <4>2, CellPut DEF TestTyped
    <3>3. QED
      BY <2>2, <3>1, <3>2, TestsNoMore
  <2>4. CASE BusyBases(base') \subseteq BusyBases(base)
    BY <2>3, <2>4, NoMoreFits DEF NoMore
  <2>5. CASE Room > 0 /\ base' = [base EXCEPT ![i] = "ready"]
    <3>1. BusyBases(base') \subseteq BusyBases(base) \cup {i}
      BY <1>t, <2>5 DEF BusyBases, BaseTyped
    <3>2. Cardinality({}) = 0 /\ Cardinality({i}) = 1
      BY FS_EmptySet, FS_Singleton
    <3>3. Active \in Nat /\ Limit \in Nat
      BY ActiveCounts, CohortAssumption DEF Active
    <3>4. Cardinality({}) + Cardinality({i}) <= Room
      BY <2>5, <3>2, <3>3 DEF Room
    <3>5. /\ {} \subseteq Ideas \X Routes /\ {i} \subseteq Ideas
          /\ BusyTests(test') \subseteq BusyTests(test) \cup {}
      BY <2>1, <2>3
    <3>6. QED
      BY <3>1, <3>4, <3>5, RoomFits
  <2>6. QED
    BY <1>t, <1>b, <2>1, <2>2, <2>4, <2>5 DEF BusyBases, BaseTyped, Busy
<1>7. ASSUME NEW w \in Supervisors, GateCohort(w) PROVE Goal
  <2> DEFINE F == Family(test[turn[w].idea][turn[w].route].family)
  <2> DEFINE after == [i \in Ideas |-> [r \in Routes |->
                         IF <<i, r>> \in F THEN [test[i][r] EXCEPT !.gate = FdrGate(F, <<i, r>>)]
                                           ELSE test[i][r]]]
  <2> DEFINE failed(i) == \E r \in TestsOf(i) : <<i, r>> \in F /\ after[i][r].gate = "failed"
  <2> DEFINE may == {i \in Ideas : Releasable(F, after, i)}
  <2>1. /\ test' = after
        /\ \E R \in SUBSET may :
          /\ Fits(Cardinality(R))
          /\ base' = [i \in Ideas |->
                     IF i \in R THEN "ready"
                     ELSE IF base[i] = "scheduled" /\ failed(i) THEN "archived"
                     ELSE base[i]]
    BY <1>7 DEF GateCohort
  <2>2. PICK R \in SUBSET may :
          /\ Fits(Cardinality(R))
          /\ base' = [i \in Ideas |->
                     IF i \in R THEN "ready"
                     ELSE IF base[i] = "scheduled" /\ failed(i) THEN "archived"
                     ELSE base[i]]
    BY <2>1
  <2>3. R \subseteq Ideas
    OBVIOUS
  <2>4. ASSUME NEW i \in Ideas, NEW r \in Routes
        PROVE  test'[i][r].state = test[i][r].state
    <3>1. test'[i][r] = IF <<i, r>> \in F THEN [test[i][r] EXCEPT !.gate = FdrGate(F, <<i, r>>)]
                                          ELSE test[i][r]
      BY <2>1
    <3>2. QED
      BY <1>0, <3>1, TestIs
  <2>5. \A i \in Ideas : base'[i] \in {base[i], "archived"} \/ i \in R
    BY <2>2
  <2> HIDE DEF F, after, failed, may
  <2>6. BusyTests(test') \subseteq BusyTests(test)
    BY <2>4, TestsNoMore
  <2>7. BusyBases(base') \subseteq BusyBases(base) \cup R
    BY <2>5 DEF BusyBases, Busy
  <2>8. IsFiniteSet(R) /\ Cardinality(R) \in Nat
    BY <2>3, CohortAssumption, FS_Subset, FS_CardinalityType
  <2>9. Cardinality({}) + Cardinality(R) <= Room
    BY <2>2, <2>8, FS_EmptySet DEF Fits
  <2>10. /\ {} \subseteq Ideas \X Routes
         /\ BusyTests(test') \subseteq BusyTests(test) \cup {}
    BY <2>6
  <2>11. QED
    BY <2>3, <2>7, <2>9, <2>10, RoomFits
<1>8. ASSUME NEW w \in Planners, InsertTest(w) PROVE Goal
  <2> DEFINE i == Next1(w)
  <2> DEFINE r == NextRoute(w)
  <2> DEFINE p == PValue(i, r)
  <2> DEFINE s == IF p # Untested THEN "finished"
                  ELSE IF plan[w].release /\ r = LeadOf[i] THEN "ready" ELSE "scheduled"
  <2> DEFINE y == [state |-> s, gate |-> RawGate(p), family |-> plan[w].cohort]
  <2>1. /\ plan[w].at = "tests" /\ base' = base
        /\ \/ test' = test
           \/ test[i][r].state = "none" /\ test' = [test EXCEPT ![i][r] = y]
    BY <1>8 DEF InsertTest, NextRoute
  <2>2. i \in Ideas /\ r \in Routes
    BY <1>t, <2>1, NextRouteTyped
  <2>3. y.state = s /\ s \in {"finished", "ready", "scheduled"}
    OBVIOUS
  <2> HIDE DEF i, r, s, y
  <2>4. CASE test' = test
    BY <1>1, <2>1, <2>4
  <2>5. CASE test[i][r].state = "none" /\ test' = [test EXCEPT ![i][r] = y]
    <3>1. /\ test'[i][r] = y
          /\ \A j \in Ideas, q \in Routes : test'[j][q] \in {y, test[j][q]}
      BY <1>t, <2>2, <2>5 DEF TestTyped
    <3>2. CASE s = "ready"
      BY <2>2, <2>3, <2>5, <3>1, <3>2
    <3>3. CASE s # "ready"
      <4>1. \A j \in Ideas, q \in Routes :
               test'[j][q].state \in Busy => test[j][q].state \in Busy
        BY <2>3, <3>1, <3>3 DEF Busy
      <4>2. BusyTests(test') \subseteq BusyTests(test)
        BY <4>1, TestsNoMore
      <4>3. QED
        BY <1>b, <2>1, <4>2, NoMoreFits DEF NoMore
    <3>4. QED
      BY <3>2, <3>3
  <2>6. QED
    BY <2>1, <2>4, <2>5
<1>9. ASSUME NEW w \in Planners, InsertBaseline(w) PROVE Goal
  <2>1. plan[w] \in Plan /\ plan[w].at = "baseline"
    BY <1>t, <1>9, PlanStays DEF InsertBaseline
  <2>2. plan'[w] = Advance(w, plan[w])
    BY <1>t, <1>9 DEF InsertBaseline, PlanTyped
  <2>3. plan'[w].at # "baseline"
    BY <2>1, <2>2, AdvanceFields
  <2>4. QED
    BY <2>1, <2>3
<1>10. ASSUME NEW i \in Ideas, BaselineEnds(i) PROVE Goal
  <2>1. BusyBases(base') \subseteq BusyBases(base)
    BY <1>t, <1>10 DEF BaselineEnds, BusyBases, Busy, BaseTyped
  <2>2. UNCHANGED test
    BY <1>10 DEF BaselineEnds
  <2>3. QED
    BY <1>u, <2>1, <2>2, NoMoreFits DEF NoMore
<1>11. ASSUME NEW i \in Ideas, NEW r \in Routes,
              Measure(i, r) \/ TestErrors(i, r) \/ \E w \in Supervisors : Evaluate(w, i, r)
       PROVE  Goal
  <2>1. UNCHANGED base
    BY <1>11 DEF Measure, TestErrors, Evaluate
  <2>2. \E s \in TestStates : SetTest(i, r, s) /\ (s \in Busy => test[i][r].state \in Busy)
    BY <1>11 DEF Measure, TestErrors, Evaluate, Busy, TestStates
  <2>3. BusyTests(test') \subseteq BusyTests(test)
    BY <1>t, <2>2, SetTestNoMore
  <2>4. QED
    BY <1>b, <2>1, <2>3, NoMoreFits DEF NoMore
<1>12. ASSUME NEW i \in Ideas, NEW r \in Routes, Requeue(i, r) PROVE Goal
  <2>1. test[i][r].state = "blocked" /\ test' = [test EXCEPT ![i][r].state = "ready"]
    BY <1>12 DEF Requeue, SetTest
  <2>2. test'[i][r].state = "ready"
    BY <1>t, <2>1, RewriteState, TestExcept DEF TestTyped, Test
  <2>3. QED
    BY <2>1, <2>2
<1> HIDE DEF Goal
<1>13. Goal
  <2>1. (UNCHANGED test \/ TestMoves) /\ (UNCHANGED base \/ BaseMoves)
    BY Frame
  <2>2. CASE TestMoves
    BY <2>2, <1>3, <1>4, <1>6, <1>7, <1>8, <1>9, <1>11, <1>12 DEF TestMoves
  <2>3. CASE BaseMoves
    BY <2>3, <1>2, <1>3, <1>4, <1>5, <1>6, <1>7, <1>9, <1>10 DEF BaseMoves
  <2>4. QED
    BY <1>1, <2>1, <2>2, <2>3
<1>14. QED
  BY <1>13 DEF Goal

\* Only an insert or a requeued item takes the active items over the limit:
\* promotions and gate decisions release what fits in the room they read, and
\* every other step leaves an item busy or takes it out.
THEOREM ReleasesFitTheLimit == Spec => ReleasesFit
<1>1. Inv /\ [Next]_vars =>
        (Active' > Active /\ Active' > Limit =>
           \/ \E i \in Ideas, r \in Routes :
                test[i][r].state \in {"none", "blocked"} /\ test'[i][r].state = "ready"
           \/ \E w \in Planners : plan[w].at = "baseline" /\ plan'[w].at # "baseline")
  BY ReleasesFitStep DEF Overruns
<1>2. QED
  BY <1>1, SpecInv, PTL DEF Spec, ReleasesFit
=============================================================================
