--------------------------- MODULE HpoStudyProofs ---------------------------
(***************************************************************************)
(* Proofs about HpoStudy for any number of studies, periods and supervisors,  *)
(* any number of analyses that overrun, and any interventions.               *)
(***************************************************************************)
EXTENDS HpoStudy, FiniteSetTheorems, TLAPS

USE HpoAssumption

Known == Active \cup {"terminal"}

\* The columns an UPDATE of a job rewrites keep its shape.
LEMMA PutType ==
    ASSUME NEW j \in Job, NEW x \in JobStates, NEW b \in BOOLEAN
    PROVE  /\ Put(j, x, b) \in Job
           /\ Put(j, x, b).state = x /\ Put(j, x, b).parked = b
  BY DEF Put, Job, MaxAnalyses

LEMMA ClaimedType ==
    ASSUME NEW j \in Job
    PROVE  Claimed(j) \in Job /\ Claimed(j).state = "running"
<1>1. /\ j.attempts \in 0 .. 2
      /\ (IF j.attempts < 2 THEN j.attempts + 1 ELSE j.attempts) \in 0 .. 2
  BY DEF Job, MaxAnalyses
<1> DEFINE k == IF j.attempts < 2 THEN j.attempts + 1 ELSE j.attempts
<1>2. Claimed(j) = [j EXCEPT !.state = "running", !.parked = FALSE, !.aged = FALSE,
                            !.attempts = k]
  BY DEF Claimed, MaxAnalyses
<1>3. k \in 0 .. 2
  BY <1>1
<1> HIDE DEF k
<1> QED
  BY <1>2, <1>3 DEF Job, JobStates, MaxAnalyses

\* A new row of hpo_analysis_jobs.
LEMMA FreshType ==
    ASSUME NEW x \in JobStates, NEW b \in BOOLEAN
    PROVE  /\ Fresh(x, b) \in Job
           /\ Fresh(x, b).state = x /\ Fresh(x, b).parked = b
  BY DEF Fresh, Job, MaxAnalyses

\* Replacing columns of the other rows.
LEMMA StudyExcept ==
    ASSUME NEW r \in Study, NEW x \in Stages
    PROVE  [r EXCEPT !.stage = x] \in Study
  BY DEF Study

LEMMA WorkExcept ==
    ASSUME NEW r \in Work
    PROVE  /\ \A x \in WorkStates : [r EXCEPT !.state = x] \in Work
           /\ \A c \in Codes, b \in BOOLEAN :
                 /\ [r EXCEPT !.code = c, !.ready = b] \in Work
                 /\ [r EXCEPT !.ready = b, !.code = c] \in Work
           /\ \A c \in Codes, o \in Supervisors \cup {Nobody} :
                 [r EXCEPT !.code = c, !.owner = o] \in Work
           /\ \A x \in WorkStates, c \in Codes, o \in Supervisors \cup {Nobody} :
                 [r EXCEPT !.state = x, !.code = c, !.owner = o] \in Work
           /\ \A x \in WorkStates, b \in BOOLEAN, c \in Codes :
                 [r EXCEPT !.state = x, !.ready = b, !.code = c] \in Work
  BY DEF Work

LEMMA ValidationExcept ==
    ASSUME NEW r \in Validation
    PROVE  /\ \A x \in {"none", "scheduled", "ready", "finished"} :
                 [r EXCEPT !.state = x] \in Validation
           /\ \A b \in BOOLEAN : [r EXCEPT !.ready = b] \in Validation
           /\ \A b \in BOOLEAN, p \in Periods \cup {NoPeriod} :
                 [r EXCEPT !.ready = b, !.route = p] \in Validation
  BY DEF Validation

\* What the type invariant says of the tables.
LEMMA Tables ==
    ASSUME TypeOK
    PROVE  /\ study \in [Studies -> Study] /\ work \in [Studies -> Work]
           /\ job \in [Studies -> [JobIds -> Job]]
           /\ routes \in [Studies -> [Roles -> Periods \cup {NoPeriod}]]
           /\ val \in [Studies -> [Splits -> Validation]]
  BY DEF TypeOK

LEMMA StateNames ==
    /\ Active \subseteq JobStates /\ Known \subseteq JobStates
    /\ {"pending", "waiting_retry", "terminal", "completed", "running"} \subseteq JobStates
    /\ "waiting_retry" \in Active
  BY DEF Active, Known, JobStates

\* Rewriting one job of a study.
LEMMA JobUpdate ==
    ASSUME TypeOK, NEW s \in Studies, NEW n \in JobIds, NEW j \in Job
    PROVE  /\ [job EXCEPT ![s][n] = j] \in [Studies -> [JobIds -> Job]]
           /\ [job EXCEPT ![s][n] = j][s][n] = j
           /\ \A t \in Studies, m \in JobIds :
                 t # s \/ m # n => [job EXCEPT ![s][n] = j][t][m] = job[t][m]
  BY DEF TypeOK

LEMMA JobKept ==
    ASSUME TypeOK, NEW s \in Studies, NEW n \in JobIds, NEW j \in Job,
           job' = [job EXCEPT ![s][n] = j]
    PROVE  job' \in [Studies -> [JobIds -> Job]]
  BY DEF TypeOK

\* Inserting a job changes one absent row, the first of the study.
LEMMA InsertType ==
    ASSUME TypeOK, NEW s \in Studies, NEW j \in Job, Insert(s, j)
    PROVE  \E n \in JobIds :
             /\ \A m \in JobIds : job[s][m].state = "absent" <=> m >= n
             /\ job' = [job EXCEPT ![s][n] = j]
  BY DEF Insert

\* What Completion does to the jobs of the study, in the three cases of the code.
LEMMA CompletionJobs ==
    ASSUME TypeOK, NEW s \in Studies, Completion(s)
    PROVE  \/ /\ JobsIn(s, Active) = {}
              /\ \E n \in JobIds, b \in BOOLEAN, x \in {"waiting_retry", "pending"} :
                   /\ b = ~study[s].trials /\ x = IF b THEN "waiting_retry" ELSE "pending"
                   /\ \A m \in JobIds : job[s][m].state = "absent" <=> m >= n
                   /\ job' = [job EXCEPT ![s][n] = Fresh(x, b)]
           \/ /\ ~study[s].trials
              /\ \E n \in JobsIn(s, Active) :
                   /\ \A m \in JobsIn(s, Active) : m <= n
                   /\ job' = [job EXCEPT ![s][n] = Put(job[s][n], "waiting_retry", TRUE)]
           \/ study[s].trials /\ JobsIn(s, Active) # {} /\ job' = job
<1> DEFINE missing == ~study[s].trials
<1>t. study[s].trials \in BOOLEAN
  BY DEF TypeOK, Study
<1>1. CASE JobsIn(s, Active) = {}
  BY <1>1, <1>t DEF Completion, Insert
<1>2. CASE JobsIn(s, Active) # {} /\ missing
  BY <1>2, <1>t DEF Completion, Newest
<1>3. CASE JobsIn(s, Active) # {} /\ ~missing
  BY <1>3, <1>t DEF Completion
<1> QED
  BY <1>1, <1>2, <1>3

LEMMA CompletionType ==
    ASSUME TypeOK, NEW s \in Studies, Completion(s)
    PROVE  /\ study' \in [Studies -> Study]
           /\ work' \in [Studies -> Work]
           /\ job' \in [Studies -> [JobIds -> Job]]
<1>1. study' \in [Studies -> Study]
  <2>1. [study[s] EXCEPT !.stage = "hpo_analysis"] \in Study
    BY Tables, StudyExcept DEF Stages
  <2>2. study' = [study EXCEPT ![s] = [study[s] EXCEPT !.stage = "hpo_analysis"]]
    BY DEF Completion
  <2> QED
    BY <2>1, <2>2, Tables
<1>2. work' \in [Studies -> Work]
  <2> DEFINE row == [work[s] EXCEPT !.code = "hpo_trials_required", !.ready = FALSE]
  <2>1. row \in Work
    BY Tables, WorkExcept DEF Codes
  <2>2. work' = work \/ work' = [work EXCEPT ![s] = row]
    BY Tables DEF Completion
  <2> QED
    BY <2>1, <2>2, Tables
<1>3. job' \in [Studies -> [JobIds -> Job]]
  <2>1. JobsIn(s, Active) \subseteq JobIds /\ job \in [Studies -> [JobIds -> Job]]
    BY Tables DEF JobsIn
  <2>2. ASSUME NEW n \in JobIds
        PROVE  Put(job[s][n], "waiting_retry", TRUE) \in Job
    <3>1. job[s][n] \in Job /\ "waiting_retry" \in JobStates
      BY <2>1 DEF JobStates
    <3> QED
      BY <3>1, PutType
  <2>3. \A b \in BOOLEAN, x \in {"waiting_retry", "pending"} : Fresh(x, b) \in Job
    BY FreshType, StateNames
  <2>4. \A n \in JobIds, j \in Job : [job EXCEPT ![s][n] = j] \in [Studies -> [JobIds -> Job]]
    BY JobUpdate
  <2>5. CASE \E n \in JobIds, b \in BOOLEAN, x \in {"waiting_retry", "pending"} :
               job' = [job EXCEPT ![s][n] = Fresh(x, b)]
    BY <2>5, <2>3, <2>4
  <2>6. CASE \E n \in JobsIn(s, Active) :
               job' = [job EXCEPT ![s][n] = Put(job[s][n], "waiting_retry", TRUE)]
    <3>1. PICK n \in JobsIn(s, Active) :
                 job' = [job EXCEPT ![s][n] = Put(job[s][n], "waiting_retry", TRUE)]
      BY <2>6
    <3>2. n \in JobIds
      BY <2>1
    <3> QED
      BY <3>1, <3>2, <2>2, <2>4
  <2> QED
    BY <2>1, <2>5, <2>6, CompletionJobs
<1> QED
  BY <1>1, <1>2, <1>3

LEMMA ConfigureType ==
    ASSUME TypeOK, NEW s \in Studies, NEW r \in [Roles -> Periods \cup {NoPeriod}],
           Configure(s, r)
    PROVE  /\ routes' \in [Studies -> [Roles -> Periods \cup {NoPeriod}]]
           /\ val' \in [Studies -> [Splits -> Validation]]
           /\ work' \in [Studies -> Work]
<1> DEFINE new == [role \in Roles |-> IF r[role] # NoPeriod THEN r[role] ELSE routes[s][role]]
           vals == [p \in Splits |-> IF r[p] # NoPeriod /\ val[s][p].state # "none"
                      THEN [val[s][p] EXCEPT !.ready = TRUE, !.route = r[p]] ELSE val[s][p]]
           row == [work[s] EXCEPT !.ready = TRUE, !.code = "none"]
<1>r. /\ routes' = [routes EXCEPT ![s] = new] /\ val' = [val EXCEPT ![s] = vals]
      /\ work' = work \/ work' = [work EXCEPT ![s] = row]
  BY Tables DEF Configure, Roles, Splits
<1>1. new \in [Roles -> Periods \cup {NoPeriod}]
  BY Tables
<1>2. vals \in [Splits -> Validation]
  <2>1. ASSUME NEW p \in Splits
        PROVE  val[s][p] \in Validation /\ r[p] \in Periods \cup {NoPeriod}
    BY Tables DEF Splits, Roles
  <2>2. ASSUME NEW p \in Splits
        PROVE  [val[s][p] EXCEPT !.ready = TRUE, !.route = r[p]] \in Validation
    BY <2>1, ValidationExcept
  <2> QED
    BY <2>1, <2>2
<1>3. row \in Work
  BY Tables, WorkExcept DEF Codes
<1> HIDE DEF new, vals, row
<1> QED
  BY <1>1, <1>2, <1>3, <1>r, Tables

\* The default policy has a training period apart from the others.
LEMMA DefaultsType == DefaultRoutes \in [Roles -> Periods]
<1>1. PICK p \in Periods, q \in Periods : p # q
  BY DEF HpoAssumption
<1> DEFINE r == [role \in Roles |-> IF role = "hpo" THEN p ELSE q]
<1>2. r \in [Roles -> Periods] /\ Disjoint(r)
  BY <1>1 DEF Disjoint, Roles, Splits
<1> HIDE DEF r
<1> QED
  BY <1>2 DEF DefaultRoutes

-----------------------------------------------------------------------------
(* Type correctness.                                                         *)

MainType ==
    /\ pc \in [Supervisors -> PCs]
    /\ todo \in [Supervisors -> SUBSET Studies]
    /\ lost \in [Supervisors -> SUBSET (Studies \X JobIds)]
    /\ held \in [Supervisors -> SUBSET Studies]

LEMMA Locals ==
    ASSUME TypeOK
    PROVE  MainType /\ turn \in [Supervisors -> Turn] /\ budget \in [Bounds -> Nat]
  BY DEF TypeOK, MainType

LEMMA Assemble ==
    ASSUME study' \in [Studies -> Study], work' \in [Studies -> Work],
           job' \in [Studies -> [JobIds -> Job]],
           routes' \in [Studies -> [Roles -> Periods \cup {NoPeriod}]],
           val' \in [Studies -> [Splits -> Validation]],
           MainType', turn' \in [Supervisors -> Turn], budget' \in [Bounds -> Nat]
    PROVE  TypeOK'
  BY DEF TypeOK, MainType

LEMMA SpendType ==
    ASSUME budget \in [Bounds -> Nat], NEW b \in Bounds, Spend(b)
    PROVE  budget' \in [Bounds -> Nat]
  BY DEF Spend

LEMMA ExitType ==
    ASSUME MainType, NEW w \in Supervisors, Exit(w)
    PROVE  MainType'
  BY DEF MainType, Exit, Goto, PCs

LEMMA ThinkType ==
    ASSUME turn \in [Supervisors -> Turn], NEW w \in Supervisors, NEW t \in Turn, Think(w, t)
    PROVE  turn' \in [Supervisors -> Turn]
  BY DEF Think

LEMMA IdleType == Idle \in Turn /\ Idle.at = "idle"
  BY DEF Idle, Doing, Turn, HpoAssumption

LEMMA TurnRecord ==
    ASSUME NEW x \in {"park", "payload"}, NEW s \in Studies, NEW n \in 0 .. MaxJobs
    PROVE  /\ Doing(x, s, n) \in Turn
           /\ Doing(x, s, n).at = x /\ Doing(x, s, n).study = s /\ Doing(x, s, n).id = n
  BY DEF Doing, Turn

\* A thread that is not idle has a study, and a job unless it parks one.
TurnOK ==
    /\ turn \in [Supervisors -> Turn]
    /\ \A w \in Supervisors :
          /\ turn[w].at # "idle" => turn[w].study \in Studies
          /\ turn[w].at \notin {"idle", "park"} => turn[w].id \in JobIds

LEMMA TurnKept ==
    ASSUME TurnOK, NEW w \in Supervisors, NEW t \in Turn, turn' = [turn EXCEPT ![w] = t],
           t.at # "idle" => t.study \in Studies,
           t.at \notin {"idle", "park"} => t.id \in JobIds
    PROVE  TurnOK'
  BY DEF TurnOK

LEMMA TurnStep ==
    ASSUME TypeOK, TurnOK, [Next]_vars
    PROVE  TurnOK'
<1>1. CASE UNCHANGED turn
  BY <1>1 DEF TurnOK
<1>2. ASSUME NEW w \in Supervisors, Crash(w) \/ ParkFailed(w) \/ FailJob(w)
                                    \/ ScheduleValidations(w) \/ Terminalize(w)
      PROVE  TurnOK'
  <2>1. turn' = [turn EXCEPT ![w] = Idle]
    BY <1>2 DEF Crash, ParkFailed, FailJob, ScheduleValidations, Terminalize, Think
  <2> QED
    BY <2>1, IdleType, TurnKept
<1>3. ASSUME NEW w \in Supervisors, ClaimJob(w)
      PROVE  TurnOK'
  <2>1. ASSUME NEW s \in Studies, NEW n \in JobIds,
               turn' = [turn EXCEPT ![w] = Doing("payload", s, n)]
        PROVE  TurnOK'
    <3>1. n \in 0 .. MaxJobs
      BY DEF HpoAssumption, JobIds
    <3> DEFINE t == Doing("payload", s, n)
    <3>2. t \in Turn /\ t.study = s /\ t.id = n
      BY <3>1, TurnRecord
    <3>3. turn' = [turn EXCEPT ![w] = t]
      BY <2>1
    <3> HIDE DEF t
    <3> QED
      BY <3>2, <3>3, TurnKept
  <2> QED
    BY <1>1, <1>3, <2>1 DEF ClaimJob
<1>4. ASSUME NEW w \in Supervisors, JudgeFailure(w)
      PROVE  TurnOK'
  <2>1. PICK s \in Studies : turn' = [turn EXCEPT ![w] = Doing("park", s, 0)]
    BY <1>4 DEF JudgeFailure, Think
  <2>2. 0 \in 0 .. MaxJobs
    BY DEF HpoAssumption
  <2> DEFINE t == Doing("park", s, 0)
  <2>3. t \in Turn /\ t.study = s /\ t.at = "park"
    BY <2>2, TurnRecord
  <2>4. turn' = [turn EXCEPT ![w] = t]
    BY <2>1
  <2> HIDE DEF t
  <2> QED
    BY <2>3, <2>4, TurnKept
<1>5. ASSUME NEW w \in Supervisors, ReadPayload(w) \/ Answer(w)
      PROVE  TurnOK'
  <2>1. /\ turn[w] \in Turn /\ turn[w].study \in Studies /\ turn[w].id \in JobIds
        /\ turn[w].at \in {"payload", "dispatch"}
    BY <1>5 DEF TurnOK, ReadPayload, Answer, Turning
  <2>2. study[turn[w].study].selected \in BOOLEAN
    BY <2>1, Tables DEF Study
  <2>3. PICK t \in Turn : /\ turn' = [turn EXCEPT ![w] = t]
                          /\ t.study = turn[w].study /\ t.id = turn[w].id
    <3>1. CASE ReadPayload(w)
      <4>1. PICK x \in {"dispatch", "fail"}, b \in BOOLEAN :
                   turn' = [turn EXCEPT ![w] = [turn[w] EXCEPT !.at = x, !.saw = b]]
        BY <3>1, <2>2 DEF ReadPayload, Think
      <4>2. LET t == [turn[w] EXCEPT !.at = x, !.saw = b]
            IN  t \in Turn /\ t.study = turn[w].study /\ t.id = turn[w].id
        BY <2>1 DEF Turn
      <4> QED
        BY <4>1, <4>2
    <3>2. CASE Answer(w)
      <4>1. PICK x \in {"decide", "fail"} : turn' = [turn EXCEPT ![w] = [turn[w] EXCEPT !.at = x]]
        BY <3>2 DEF Answer, Think
      <4>2. LET t == [turn[w] EXCEPT !.at = x]
            IN  t \in Turn /\ t.study = turn[w].study /\ t.id = turn[w].id
        BY <2>1 DEF Turn
      <4> QED
        BY <4>1, <4>2
    <3> QED
      BY <1>5, <3>1, <3>2
  <2> QED
    BY <2>1, <2>3, TurnKept
<1>6. CASE \E w \in Supervisors : Step(w) /\ ~ClaimJob(w)
  BY <1>6, <1>1 DEF Step, Start, SelectLost, ResetLost, Reconcile, HandOver, SelectDefaults,
      CheckDefaults, WriteDefaults, MarkUnroutable, Promote, ClaimWork, ReadStages, StartStudy,
      RunCompletes, RunFails, CompleteStudy, FinishWork
<1>7. CASE Operate
  BY <1>7, <1>1 DEF Operate, Import, RequeueExecution, ConfigureRoutes, ApplyDefaults,
      RequeueAnalysis
<1>8. CASE \E s \in Studies : \/ ScheduleCandidate(s)
                              \/ \E p \in Splits : RunValidation(s, p)
                              \/ \E n \in JobIds : ClaimAges(s, n)
  BY <1>8, <1>1 DEF ScheduleCandidate, RunValidation, ClaimAges
<1>9. CASE UNCHANGED vars
  BY <1>9, <1>1 DEF vars
<1> QED
  BY <1>2, <1>3, <1>4, <1>5, <1>6, <1>7, <1>8, <1>9 DEF Next, Analyze

\* Type correctness of a step of the main thread.
LEMMA StepType ==
    ASSUME TypeOK, TurnOK, TurnOK', NEW w \in Supervisors, Step(w)
    PROVE  TypeOK'
<1> USE Tables, Locals
<1>1. CASE Start(w)
  <2>1. ASSUME NEW s \in Studies
        PROVE  [work[s] EXCEPT !.state = "ready", !.code = "abandoned_claim", !.owner = Nobody]
                 \in Work
    BY WorkExcept DEF WorkStates, Codes
  <2>2. work' \in [Studies -> Work]
    BY <1>1, <2>1 DEF Start
  <2> QED
    BY <1>1, <2>2, Assemble DEF Start, MainType, Goto, PCs, TurnOK
<1>2. CASE SelectLost(w)
  BY <1>2, Assemble DEF SelectLost, MainType, Goto, PCs, TurnOK
<1>3. CASE ResetLost(w)
  <2>1. ASSUME NEW s \in Studies, NEW n \in JobIds
        PROVE  Put(job[s][n], "pending", FALSE) \in Job
    <3>1. job[s][n] \in Job /\ "pending" \in JobStates
      BY DEF JobStates
    <3> QED
      BY <3>1, PutType
  <2>2. job' \in [Studies -> [JobIds -> Job]]
    BY <1>3, <2>1 DEF ResetLost
  <2> QED
    BY <1>3, <2>2, Assemble DEF ResetLost, MainType, Goto, PCs, TurnOK
<1>4. CASE Reconcile(w)
  BY <1>4, Assemble DEF Reconcile, MainType, Goto, PCs, TurnOK
<1>5. CASE HandOver(w)
  <2>1. /\ study' \in [Studies -> Study] /\ work' \in [Studies -> Work]
        /\ job' \in [Studies -> [JobIds -> Job]]
    BY <1>5, CompletionType DEF HandOver, MainType
  <2>2. MainType'
    <3>1. /\ pc' \in [Supervisors -> PCs] /\ todo' \in [Supervisors -> SUBSET Studies]
          /\ UNCHANGED <<lost, held>>
      BY <1>5 DEF HandOver, MainType, Goto, PCs
    <3> QED
      BY <3>1 DEF MainType
  <2> QED
    BY <1>5, <2>1, <2>2, Assemble DEF HandOver, TurnOK
<1>6. CASE SelectDefaults(w)
  BY <1>6, Assemble DEF SelectDefaults, MainType, Goto, PCs, TurnOK
<1>7. CASE CheckDefaults(w)
  <2>1. MainType'
    BY <1>7, ExitType DEF CheckDefaults, MainType, Goto, PCs
  <2> QED
    BY <1>7, <2>1, Assemble DEF CheckDefaults, TurnOK
<1>8. CASE WriteDefaults(w)
  <2>1. PICK s \in Studies : Configure(s, DefaultRoutes) /\ todo' = [todo EXCEPT ![w] = @ \ {s}]
    BY <1>8 DEF WriteDefaults, MainType
  <2>2. DefaultRoutes \in [Roles -> Periods \cup {NoPeriod}]
    BY DefaultsType
  <2>3. /\ routes' \in [Studies -> [Roles -> Periods \cup {NoPeriod}]]
        /\ val' \in [Studies -> [Splits -> Validation]] /\ work' \in [Studies -> Work]
    BY <2>1, <2>2, ConfigureType
  <2> QED
    BY <1>8, <2>1, <2>3, Assemble DEF WriteDefaults, MainType, Goto, PCs, TurnOK
<1>9. CASE MarkUnroutable(w)
  <2>1. ASSUME NEW s \in Studies
        PROVE  /\ [work[s] EXCEPT !.ready = FALSE, !.code = "requirements_pending"] \in Work
               /\ [study[s] EXCEPT !.stage = "hpo_scheduled"] \in Study
    BY WorkExcept, StudyExcept DEF Codes, Stages
  <2>2. work' \in [Studies -> Work] /\ study' \in [Studies -> Study]
    BY <1>9, <2>1 DEF MarkUnroutable
  <2> QED
    BY <1>9, <2>2, Assemble DEF MarkUnroutable, MainType, Goto, PCs, TurnOK
<1>10. CASE Promote(w)
  <2>1. ASSUME NEW s \in Studies, NEW p \in Splits
        PROVE  /\ [work[s] EXCEPT !.state = "ready"] \in Work
               /\ [val[s][p] EXCEPT !.state = "ready"] \in Validation
    <3>1. work[s] \in Work /\ val[s][p] \in Validation /\ "ready" \in WorkStates
      BY DEF WorkStates
    <3> QED
      BY <3>1, WorkExcept, ValidationExcept
  <2>2. work' \in [Studies -> Work]
    <3>1. PICK S \in SUBSET Studies :
                 work' = [s \in Studies |->
                    IF s \in S \/ work[s].state = "waiting_retry"
                      THEN [work[s] EXCEPT !.state = "ready"] ELSE work[s]]
      BY <1>10 DEF Promote
    <3> QED
      BY <3>1, <2>1 DEF Splits
  <2>3. val' \in [Studies -> [Splits -> Validation]]
    <3>1. PICK V \in SUBSET {x \in Studies \X Splits :
                           /\ val[x[1]][x[2]].state = "scheduled" /\ val[x[1]][x[2]].ready
                           /\ work[x[1]].state = "finished"} :
                 val' = [s \in Studies |-> [p \in Splits |->
                   IF <<s, p>> \in V THEN [val[s][p] EXCEPT !.state = "ready"]
                                     ELSE val[s][p]]]
      BY <1>10 DEF Promote
    <3> QED
      BY <3>1, <2>1
  <2> QED
    BY <1>10, <2>2, <2>3, Assemble DEF Promote, MainType, Goto, PCs, TurnOK
<1>11. CASE ClaimJob(w)
  <2>1. ASSUME NEW s \in Studies, NEW n \in JobIds
        PROVE  Claimed(job[s][n]) \in Job
    BY ClaimedType
  <2>2. job' \in [Studies -> [JobIds -> Job]]
    <3>1. CASE \E s \in Studies, n \in JobIds :
                 job' = [job EXCEPT ![s][n] = Claimed(job[s][n])]
      BY <3>1, <2>1
    <3> QED
      BY <1>11, <3>1 DEF ClaimJob
  <2> QED
    BY <1>11, <2>2, Assemble DEF ClaimJob, MainType, Goto, PCs, TurnOK
<1>12. CASE ClaimWork(w)
  <2>1. ASSUME NEW s \in Studies
        PROVE  [work[s] EXCEPT !.state = "running", !.code = "none", !.owner = w] \in Work
    BY WorkExcept DEF WorkStates, Codes
  <2>2. PICK S \in SUBSET Studies :
               /\ work' = [s \in Studies |->
                    IF s \in S THEN [work[s] EXCEPT !.state = "running", !.code = "none", !.owner = w]
                               ELSE work[s]]
               /\ held' = [held EXCEPT ![w] = S]
               /\ Goto(w, IF S = {} THEN "recover" ELSE "read")
    BY <1>12 DEF ClaimWork
  <2>3. work' \in [Studies -> Work]
    BY <2>1, <2>2
  <2>4. MainType'
    BY <1>12, <2>2 DEF ClaimWork, MainType, Goto, PCs
  <2> QED
    BY <1>12, <2>3, <2>4, Assemble DEF ClaimWork, TurnOK
<1>13. CASE ReadStages(w)
  BY <1>13, Assemble DEF ReadStages, MainType, Goto, PCs, TurnOK
<1>14. CASE StartStudy(w)
  <2>1. ASSUME NEW s \in Studies
        PROVE  [study[s] EXCEPT !.stage = "hpo_running"] \in Study
    BY StudyExcept DEF Stages
  <2>2. study' \in [Studies -> Study]
    <3>1. ASSUME NEW s \in todo[w], study' = [study EXCEPT ![s].stage = "hpo_running"]
          PROVE  study' \in [Studies -> Study]
      <4>1. s \in Studies
        BY DEF MainType
      <4> QED
        BY <3>1, <4>1, <2>1
    <3> QED
      BY <1>14, <3>1 DEF StartStudy
  <2>3. MainType'
    BY <1>14, ExitType, ZenonT(40) DEF StartStudy, MainType, Goto, PCs
  <2> QED
    BY <1>14, <2>2, <2>3, Assemble DEF StartStudy, TurnOK
<1>15. CASE \E s \in Studies : RunCompletes(w, s)
  BY <1>15, Assemble DEF RunCompletes, MainType, Goto, PCs, TurnOK
<1>16. CASE \E s \in Studies : RunFails(w, s)
  <2>1. ASSUME NEW s \in Studies
        PROVE  /\ [work[s] EXCEPT !.code = "awaiting_batch_evaluation", !.owner = w] \in Work
               /\ [work[s] EXCEPT !.state = "waiting_retry", !.code = "execution_failure",
                                  !.owner = Nobody] \in Work
    BY WorkExcept DEF WorkStates, Codes
  <2>2. work' \in [Studies -> Work]
    BY <1>16, <2>1 DEF RunFails
  <2>3. MainType'
    <3>1. ASSUME NEW s \in Studies, Settle(w, s), UNCHANGED <<todo, lost>>
          PROVE  MainType'
      BY <3>1 DEF Settle, MainType, Goto, PCs
    <3> QED
      BY <1>16, <3>1, ExitType DEF RunFails
  <2> QED
    BY <1>16, <2>2, <2>3, Assemble DEF RunFails, TurnOK
<1>17. CASE CompleteStudy(w)
  <2>1. PICK s \in Studies : Completion(s)
    BY <1>17 DEF CompleteStudy, MainType
  <2> QED
    BY <1>17, <2>1, CompletionType, Assemble DEF CompleteStudy, MainType, Goto, PCs, TurnOK
<1>18. CASE FinishWork(w)
  <2>1. ASSUME NEW s \in Studies
        PROVE  [work[s] EXCEPT !.state = "finished", !.code = "none", !.owner = Nobody] \in Work
    BY WorkExcept DEF WorkStates, Codes
  <2>2. work' \in [Studies -> Work]
    <3>1. ASSUME NEW s \in todo[w],
                 work' = [work EXCEPT ![s] = [@ EXCEPT !.state = "finished", !.code = "none",
                                                       !.owner = Nobody]]
          PROVE  work' \in [Studies -> Work]
      <4>1. s \in Studies
        BY DEF MainType
      <4> QED
        BY <3>1, <4>1, <2>1
    <3> QED
      BY <1>18, <3>1 DEF FinishWork
  <2>3. MainType'
    <3>1. ASSUME NEW s \in Studies, Settle(w, s), UNCHANGED lost,
                 todo' = [todo EXCEPT ![w] = {}]
          PROVE  MainType'
      BY <3>1 DEF Settle, MainType, Goto, PCs
    <3>2. todo[w] \subseteq Studies
      BY DEF MainType
    <3> QED
      BY <1>18, <3>1, <3>2, ExitType DEF FinishWork
  <2> QED
    BY <1>18, <2>2, <2>3, Assemble DEF FinishWork, TurnOK
<1> QED
  BY <1>1, <1>2, <1>3, <1>4, <1>5, <1>6, <1>7, <1>8, <1>9, <1>10, <1>11, <1>12, <1>13,
     <1>14, <1>15, <1>16, <1>17, <1>18 DEF Step

\* Type correctness of a step of the analysis thread.
LEMMA AnalyzeType ==
    ASSUME TypeOK, TurnOK, TurnOK', NEW w \in Supervisors, Analyze(w)
    PROVE  TypeOK'
<1> USE Tables, Locals
<1> DEFINE s == turn[w].study
           n == turn[w].id
<1>a. turn[w].at # "idle" => s \in Studies
  BY DEF TurnOK
<1>b. turn[w].at \notin {"idle", "park"} => n \in JobIds
  BY DEF TurnOK
<1>u. UNCHANGED main => MainType'
  BY DEF main, MainType
<1>1. CASE JudgeFailure(w)
  <2>1. ASSUME NEW x \in Studies
        PROVE  [work[x] EXCEPT !.state = "finished", !.code = "none", !.owner = Nobody] \in Work
    BY WorkExcept DEF WorkStates, Codes
  <2>2. work' \in [Studies -> Work]
    BY <1>1, <2>1 DEF JudgeFailure
  <2> QED
    BY <1>1, <1>u, <2>2, Assemble DEF JudgeFailure, TurnOK
<1>2. CASE ParkFailed(w)
  <2>1. Completion(s) /\ s \in Studies
    BY <1>2, <1>a DEF ParkFailed, Turning
  <2>2. /\ study' \in [Studies -> Study] /\ work' \in [Studies -> Work]
        /\ job' \in [Studies -> [JobIds -> Job]]
    BY <2>1, CompletionType
  <2> QED
    BY <1>2, <1>u, <2>2, Assemble DEF ParkFailed, TurnOK
<1>3. CASE ReadPayload(w) \/ Answer(w)
  BY <1>3, <1>u, Assemble DEF ReadPayload, Answer, TurnOK
<1>4. CASE FailJob(w)
  <2>1. /\ s \in Studies /\ n \in JobIds
        /\ \E x \in {"terminal", "waiting_retry"} :
             job' = [job EXCEPT ![s][n] = Put(job[s][n], x, FALSE)]
    BY <1>4, <1>a, <1>b DEF FailJob, Turning
  <2>2. \A x \in {"terminal", "waiting_retry"} : Put(job[s][n], x, FALSE) \in Job
    <3>1. job[s][n] \in Job /\ {"terminal", "waiting_retry"} \subseteq JobStates
      BY <2>1 DEF JobStates
    <3> QED
      BY <3>1, PutType
  <2>3. job' \in [Studies -> [JobIds -> Job]]
    <3>1. PICK x \in {"terminal", "waiting_retry"} :
                 job' = [job EXCEPT ![s][n] = Put(job[s][n], x, FALSE)]
      BY <2>1
    <3> DEFINE j == Put(job[s][n], x, FALSE)
    <3>2. j \in Job
      BY <2>2
    <3>3. job' = [job EXCEPT ![s][n] = j]
      BY <3>1
    <3> HIDE DEF j
    <3> QED
      BY <2>1, <3>2, <3>3, JobKept
  <2> QED
    BY <1>4, <1>u, <2>3, Assemble DEF FailJob, TurnOK
<1>5. CASE ScheduleValidations(w)
  <2>0. s \in Studies
    BY <1>5, <1>a DEF ScheduleValidations, Turning
  <2>1. study' \in [Studies -> Study]
    <3>1. [study[s] EXCEPT !.stage = "validation"] \in Study
      BY <2>0, StudyExcept DEF Stages
    <3> QED
      BY <1>5, <2>0, <3>1 DEF ScheduleValidations
  <2>2. job' \in [Studies -> [JobIds -> Job]]
    <3>1. ASSUME NEW m \in JobIds
          PROVE  job[s][m] \in Job /\ Put(job[s][m], "completed", FALSE) \in Job
      <4>1. job[s][m] \in Job /\ "completed" \in JobStates
        BY <2>0 DEF JobStates
      <4> QED
        BY <4>1, PutType
    <3>2. CASE job' = [job EXCEPT ![s] = [m \in JobIds |->
                 IF job[s][m].state = "running" THEN Put(job[s][m], "completed", FALSE)
                                                ELSE job[s][m]]]
      BY <3>1, <3>2
    <3> QED
      BY <1>5, <3>2, <2>0 DEF ScheduleValidations
  <2>3. val' \in [Studies -> [Splits -> Validation]]
    <3> DEFINE routed(p) == routes[s][p] # NoPeriod
               new(p) == [state |-> "scheduled", ready |-> routed(p), route |-> routes[s]["hpo"]]
               old(p) == [val[s][p] EXCEPT !.ready = routed(p)]
               vals == [p \in Splits |->
                          IF val[s][p].state = "none" THEN new(p)
                          ELSE IF val[s][p].state = "scheduled" THEN old(p) ELSE val[s][p]]
    <3>1. ASSUME NEW p \in Splits
          PROVE  val[s][p] \in Validation /\ new(p) \in Validation /\ old(p) \in Validation
      <4>1. val[s][p] \in Validation /\ routes[s]["hpo"] \in Periods \cup {NoPeriod}
        BY <2>0 DEF Roles
      <4> QED
        BY <4>1, ValidationExcept DEF Validation
    <3>2. vals \in [Splits -> Validation]
      BY <3>1
    <3>3. UNCHANGED val \/ val' = [val EXCEPT ![s] = vals]
      BY <1>5, <2>0 DEF ScheduleValidations
    <3> HIDE DEF vals
    <3> QED
      BY <3>2, <3>3, <2>0
  <2> QED
    BY <1>5, <1>u, <2>1, <2>2, <2>3, Assemble DEF ScheduleValidations, TurnOK
<1>6. CASE Terminalize(w)
  <2>1. s \in Studies /\ n \in JobIds
    BY <1>6, <1>a, <1>b DEF Terminalize, Turning
  <2>2. /\ Put(job[s][n], "completed", FALSE) \in Job
        /\ \A x \in {"revise", "reject"} : [study[s] EXCEPT !.stage = x] \in Study
    <3>1. job[s][n] \in Job /\ study[s] \in Study
      BY <2>1
    <3>2. "completed" \in JobStates /\ {"revise", "reject"} \subseteq Stages
      BY DEF JobStates, Stages
    <3> QED
      BY <3>1, <3>2, PutType, StudyExcept
  <2>3. job' = [job EXCEPT ![s][n] = Put(job[s][n], "completed", FALSE)]
    BY <1>6 DEF Terminalize
  <2>4. PICK x \in {"revise", "reject"} :
               study' = [study EXCEPT ![s] = [study[s] EXCEPT !.stage = x]]
    BY <1>6 DEF Terminalize
  <2>5. job' \in [Studies -> [JobIds -> Job]] /\ study' \in [Studies -> Study]
    BY <2>1, <2>2, <2>3, <2>4
  <2> QED
    BY <1>6, <1>u, <2>5, Assemble DEF Terminalize, TurnOK
<1> QED
  BY <1>1, <1>2, <1>3, <1>4, <1>5, <1>6, Analyze(w) DEF Analyze

\* Type correctness of the other steps.
LEMMA OtherType ==
    ASSUME TypeOK, TurnOK, TurnOK', NEW s \in Studies,
           \/ ScheduleCandidate(s) \/ Import(s) \/ RequeueExecution(s) \/ ConfigureRoutes(s)
           \/ ApplyDefaults(s)
           \/ \E n \in JobIds : RequeueAnalysis(s, n) \/ ClaimAges(s, n)
           \/ \E p \in Splits : RunValidation(s, p)
    PROVE  TypeOK'
<1> USE Tables, Locals
<1>u. UNCHANGED main => MainType'
  BY DEF main, MainType
<1>s. \A b \in Bounds : Spend(b) => budget' \in [Bounds -> Nat]
  BY SpendType
<1>b. {"crash", "overrun", "import", "operator"} \subseteq Bounds
  BY DEF Bounds
<1>1. CASE ScheduleCandidate(s)
  <2>1. /\ [study[s] EXCEPT !.stage = "hpo_scheduled"] \in Study
        /\ [work[s] EXCEPT !.state = "scheduled"] \in Work
    BY StudyExcept, WorkExcept DEF Stages, WorkStates
  <2>2. study' \in [Studies -> Study] /\ work' \in [Studies -> Work]
    BY <1>1, <2>1 DEF ScheduleCandidate
  <2>3. routes' \in [Studies -> [Roles -> Periods \cup {NoPeriod}]]
    <3>1. PICK p \in Periods \cup {NoPeriod} : routes' = [routes EXCEPT ![s]["hpo"] = p]
      BY <1>1 DEF ScheduleCandidate
    <3> QED
      BY <3>1
  <2> QED
    BY <1>1, <1>u, <2>2, <2>3, Assemble DEF ScheduleCandidate, TurnOK
<1>2. CASE Import(s)
  <2>1. PICK some \in BOOLEAN : ImportTrials(s, some) /\ Reopen(s, some) /\ FinishImported(s, some)
    BY <1>2 DEF Import, JesseExports, OptunaStudies
  <2>2. study' \in [Studies -> Study]
    BY <2>1 DEF ImportTrials, Study, Stages
  <2>3. job' \in [Studies -> [JobIds -> Job]]
    <3>1. ASSUME NEW n \in JobIds
          PROVE  Put(job[s][n], "pending", FALSE) \in Job /\ Fresh("pending", FALSE) \in Job
      <4>1. job[s][n] \in Job /\ "pending" \in JobStates
        BY DEF JobStates
      <4> QED
        BY <4>1, PutType, FreshType
    <3>2. CASE \E n \in JobIds : job' = [job EXCEPT ![s][n] = Fresh("pending", FALSE)]
      <4>1. PICK n \in JobIds : job' = [job EXCEPT ![s][n] = Fresh("pending", FALSE)]
        BY <3>2
      <4> QED
        BY <3>1, <4>1, JobKept
    <3>3. CASE \E n \in JobIds : job' = [job EXCEPT ![s][n] = Put(job[s][n], "pending", FALSE)]
      <4>1. PICK n \in JobIds : job' = [job EXCEPT ![s][n] = Put(job[s][n], "pending", FALSE)]
        BY <3>3
      <4> QED
        BY <3>1, <4>1, JobKept
    <3> QED
      BY <2>1, <3>2, <3>3 DEF Reopen, Insert, Newest, JobsIn
  <2>4. work' \in [Studies -> Work]
    <3> DEFINE row(c) == [work[s] EXCEPT !.state = "finished", !.ready = TRUE, !.code = c]
    <3>1. \A c \in Codes : row(c) \in Work
      BY WorkExcept DEF WorkStates
    <3>2. work[s].code \in Codes /\ "none" \in Codes
      BY DEF Work, Codes
    <3>3. work' = work \/ \E c \in Codes : work' = [work EXCEPT ![s] = row(c)]
      BY <2>1, <3>2 DEF FinishImported
    <3>4. CASE \E c \in Codes : work' = [work EXCEPT ![s] = row(c)]
      <4>1. PICK c \in Codes : work' = [work EXCEPT ![s] = row(c)]
        BY <3>4
      <4>2. row(c) \in Work
        BY <3>1
      <4> HIDE DEF row
      <4> QED
        BY <4>1, <4>2
    <3> QED
      BY <3>3, <3>4
  <2> QED
    BY <1>2, <1>u, <1>s, <1>b, <2>2, <2>3, <2>4, Assemble DEF Import, TurnOK
<1>3. CASE RequeueExecution(s)
  <2>1. [study[s] EXCEPT !.stage = "hpo_scheduled"] \in Study
    BY StudyExcept DEF Stages
  <2>2. study' \in [Studies -> Study]
    BY <1>3, <2>1 DEF RequeueExecution
  <2>3. work' \in [Studies -> Work]
    BY <1>3 DEF RequeueExecution, Work, WorkStates, Codes
  <2> QED
    BY <1>3, <1>u, <1>s, <1>b, <2>2, <2>3, Assemble DEF RequeueExecution, TurnOK
<1>4. CASE ConfigureRoutes(s) \/ ApplyDefaults(s)
  <2>1. PICK r \in [Roles -> Periods \cup {NoPeriod}] : Configure(s, r)
    BY <1>4, DefaultsType DEF ConfigureRoutes, ApplyDefaults
  <2> QED
    BY <1>4, <1>u, <1>s, <1>b, <2>1, ConfigureType, Assemble
       DEF ConfigureRoutes, ApplyDefaults, TurnOK
<1>5. CASE \E n \in JobIds : RequeueAnalysis(s, n)
  <2>1. [study[s] EXCEPT !.stage = "hpo_analysis"] \in Study /\ Fresh("pending", FALSE) \in Job
    BY StudyExcept, FreshType DEF Stages, JobStates
  <2>2. study' \in [Studies -> Study]
    BY <1>5, <2>1 DEF RequeueAnalysis
  <2>3. job' \in [Studies -> [JobIds -> Job]]
    <3>1. PICK n \in JobIds : job' = [job EXCEPT ![s][n] = Fresh("pending", FALSE)]
      BY <1>5 DEF RequeueAnalysis
    <3> QED
      BY <2>1, <3>1, JobKept
  <2> QED
    BY <1>5, <1>u, <1>s, <1>b, <2>2, <2>3, Assemble DEF RequeueAnalysis, TurnOK
<1>6. CASE \E n \in JobIds : ClaimAges(s, n)
  <2>1. ASSUME NEW n \in JobIds
        PROVE  [job[s][n] EXCEPT !.aged = TRUE] \in Job
    <3>1. job[s][n] \in Job
      OBVIOUS
    <3> QED
      BY <3>1 DEF Job
  <2>2. job' \in [Studies -> [JobIds -> Job]]
    BY <1>6, <2>1 DEF ClaimAges
  <2> QED
    BY <1>6, <1>u, <1>s, <1>b, <2>2, Assemble DEF ClaimAges, TurnOK
<1>7. CASE \E p \in Splits : RunValidation(s, p)
  <2>1. ASSUME NEW p \in Splits
        PROVE  [val[s][p] EXCEPT !.state = "finished"] \in Validation
    <3>1. val[s][p] \in Validation
      OBVIOUS
    <3> QED
      BY <3>1, ValidationExcept
  <2>2. val' \in [Studies -> [Splits -> Validation]]
    BY <1>7, <2>1 DEF RunValidation
  <2> QED
    BY <1>7, <1>u, <2>2, Assemble DEF RunValidation, TurnOK
<1> QED
  BY <1>1, <1>2, <1>3, <1>4, <1>5, <1>6, <1>7

Typed == TypeOK /\ TurnOK

LEMMA TypedInit == Init => Typed
<1> SUFFICES ASSUME Init PROVE Typed
  OBVIOUS
<1>1. \A s \in Studies : study[s] = [stage |-> "none", trials |-> FALSE, selected |-> FALSE]
  BY DEF Init
<1>2. study \in [Studies -> Study]
  BY DEF Init, Study, Stages
<1>3. work \in [Studies -> Work]
  BY DEF Init, Work, WorkStates, Codes
<1>4. job \in [Studies -> [JobIds -> Job]]
  <2>1. Fresh("absent", FALSE) \in Job
    BY FreshType DEF JobStates
  <2> QED
    BY <2>1 DEF Init
<1>5. routes \in [Studies -> [Roles -> Periods \cup {NoPeriod}]]
  BY DEF Init
<1>6. val \in [Studies -> [Splits -> Validation]]
  BY DEF Init, Validation
<1>7. /\ pc \in [Supervisors -> PCs] /\ todo \in [Supervisors -> SUBSET Studies]
      /\ lost \in [Supervisors -> SUBSET (Studies \X JobIds)]
      /\ held \in [Supervisors -> SUBSET Studies]
  BY DEF Init, PCs
<1>8. TurnOK
  BY IdleType DEF Init, TurnOK
<1>9. budget \in [Bounds -> Nat]
  BY DEF Init, Bounds, HpoAssumption
<1> QED
  BY <1>2, <1>3, <1>4, <1>5, <1>6, <1>7, <1>8, <1>9 DEF Typed, TypeOK, TurnOK

LEMMA TypedStep == Typed /\ [Next]_vars => Typed'
<1> SUFFICES ASSUME TypeOK, TurnOK, [Next]_vars PROVE Typed'
  BY DEF Typed
<1>t. TurnOK'
  BY TurnStep
<1>1. ASSUME NEW w \in Supervisors, Step(w)
      PROVE  TypeOK'
  BY <1>1, <1>t, StepType
<1>2. ASSUME NEW w \in Supervisors, Analyze(w)
      PROVE  TypeOK'
  BY <1>2, <1>t, AnalyzeType
<1>3. ASSUME NEW w \in Supervisors, Crash(w)
      PROVE  TypeOK'
  <2>1. MainType' /\ budget' \in [Bounds -> Nat]
    BY <1>3, Locals, ExitType, SpendType DEF Crash, Bounds
  <2> QED
    BY <1>3, <1>t, <2>1, Tables, Assemble DEF Crash, TurnOK
<1>4. CASE Operate
  <2>1. TypeOK'
    BY <1>4, <1>t, OtherType DEF Operate
  <2> QED
    BY <2>1, <1>t DEF Typed
<1>5. CASE \E s \in Studies : \/ ScheduleCandidate(s)
                              \/ \E p \in Splits : RunValidation(s, p)
                              \/ \E n \in JobIds : ClaimAges(s, n)
  <2>1. TypeOK'
    BY <1>5, <1>t, OtherType
  <2> QED
    BY <2>1, <1>t DEF Typed
<1>6. CASE UNCHANGED vars
  <2>1. TypeOK'
    BY <1>6 DEF vars, TypeOK
  <2> QED
    BY <2>1, <1>t DEF Typed
<1> QED
  BY <1>t, <1>1, <1>2, <1>3, <1>4, <1>5, <1>6 DEF Next, Typed

\* Every row, thread and bound keeps its shape, whatever handlers interleave.
THEOREM TypeCorrect == Spec => []TypeOK
<1>1. Typed => TypeOK
  BY DEF Typed
<1> QED
  BY <1>1, TypedInit, TypedStep, PTL DEF Spec

-----------------------------------------------------------------------------
(* Studies and their jobs.                                                   *)

Parked(s, n) == job[s][n].state = "waiting_retry" /\ job[s][n].parked

\* What a list of lost jobs, or an analysis thread, may name.
Named(s, n) ==
    s \in Studies /\ n \in JobIds /\ job[s][n].state # "absent" /\ (n = 1 \/ study[s].trials)

NamedInv ==
    \A w \in Supervisors :
        /\ \A x \in lost[w] : Named(x[1], x[2])
        /\ turn[w].at \notin {"idle", "park"} => Named(turn[w].study, turn[w].id)
        /\ turn[w].at \in {"dispatch", "decide"} => study[turn[w].study].trials

\* The jobs of one study: without completed trials, every job after the first was
\* parked when it was created, still is, and is alone in being so.
JobsOK(s) ==
    /\ study[s].selected => study[s].trials
    /\ \A n \in JobIds : /\ job[s][n].state = "completed" => study[s].trials
                         /\ Parked(s, n) => ~study[s].trials
    /\ ~study[s].trials =>
          \A n, m \in JobIds : n < m /\ job[s][m].state # "absent" =>
                                 Parked(s, m) /\ ~Parked(s, n)

HasJob(s) == study[s].stage = "hpo_analysis" => \E n \in JobIds : job[s][n].state \in Known

StudyInv == \A s \in Studies : JobsOK(s) /\ HasJob(s)

\* A study whose row and jobs keep what the invariant reads of them.
LEMMA StudyKept ==
    ASSUME NEW s \in Studies, JobsOK(s), HasJob(s), job'[s] = job[s],
           study'[s].trials = study[s].trials, study'[s].selected = study[s].selected,
           study'[s].stage = "hpo_analysis" => study[s].stage = "hpo_analysis"
    PROVE  JobsOK(s)' /\ HasJob(s)'
  BY DEF JobsOK, HasJob, Parked

\* Names stay good as long as trials and jobs do not disappear.
LEMMA NamesKept ==
    ASSUME NamedInv,
           \A s \in Studies : study[s].trials => study'[s].trials,
           \A s \in Studies, n \in JobIds :
              job[s][n].state # "absent" => job'[s][n].state # "absent",
           \A w \in Supervisors :
              /\ lost'[w] \subseteq lost[w]
              /\ \/ turn'[w] = turn[w]
                 \/ turn'[w].at \in {"idle", "park"}
           ,
           \A w \in Supervisors : turn[w].at # "idle" => turn[w].study \in Studies
    PROVE  NamedInv'
  BY DEF NamedInv, Named

\* A job is rewritten by an action that names it, or finds it in a state that
\* excludes a parked one.
Rewritten(s, m) ==
    /\ job[s][m].state # "absent" /\ (m = 1 \/ study[s].trials)
    /\ job'[s][m].state \in Known \cup {"completed"} /\ ~Parked(s, m)'
    /\ job'[s][m].state = "completed" => study[s].trials

LEMMA JobsRewritten ==
    ASSUME NEW s \in Studies, JobsOK(s),
           \A m \in JobIds : \/ /\ job'[s][m].state = job[s][m].state
                                /\ job'[s][m].parked = job[s][m].parked
                             \/ Rewritten(s, m),
           study'[s].trials = study[s].trials, study'[s].selected = study[s].selected
    PROVE  /\ JobsOK(s)'
           /\ \A m \in JobIds : job[s][m].state # "absent" => job'[s][m].state # "absent"
<1>1. \A m \in JobIds : /\ job[s][m].state # "absent" <=> job'[s][m].state # "absent"
                        /\ Parked(s, m)' => Parked(s, m)
                        /\ job'[s][m].state = "completed" => study[s].trials
  BY DEF Rewritten, Parked, Known, Active, JobsOK
<1>2. ASSUME ~study[s].trials, NEW a \in JobIds, NEW b \in JobIds, a < b,
             job'[s][b].state # "absent"
      PROVE  Parked(s, b)' /\ ~Parked(s, a)'
  <2>1. Parked(s, b) /\ ~Parked(s, a)
    BY <1>1, <1>2 DEF JobsOK
  <2>2. b # 1
    BY <1>2 DEF JobIds
  <2>3. ~Rewritten(s, b)
    BY <2>2, <1>2 DEF Rewritten
  <2> QED
    BY <2>1, <2>3, <1>1 DEF Parked
<1>3. \A m \in JobIds : Parked(s, m)' => ~study[s].trials
  BY <1>1 DEF JobsOK
<1> QED
  BY <1>1, <1>2, <1>3 DEF JobsOK

\* An optimizer that has completed leaves its study with an active job, parked if
\* there are no trials, and the only one that is.
LEMMA CompletionStudy ==
    ASSUME Typed, NEW s \in Studies, JobsOK(s), Completion(s)
    PROVE  /\ JobsOK(s)' /\ HasJob(s)'
           /\ study'[s].trials = study[s].trials
           /\ \A m \in JobIds : job[s][m].state # "absent" => job'[s][m].state # "absent"
           /\ \A r \in Studies : r # s => study'[r] = study[r] /\ job'[r] = job[r]
<1>t. /\ TypeOK /\ study \in [Studies -> Study] /\ job \in [Studies -> [JobIds -> Job]]
      /\ study[s].trials \in BOOLEAN
  BY Tables DEF Typed, Study
<1>s. /\ study'[s].trials = study[s].trials /\ study'[s].selected = study[s].selected
      /\ study'[s].stage = "hpo_analysis"
      /\ \A r \in Studies : r # s => study'[r] = study[r]
  BY <1>t DEF Completion, Study
<1>n. \A m \in JobIds : m \in Nat /\ m >= 1
  BY DEF JobIds
<1>a. \A m \in JobIds : Parked(s, m) => m \in JobsIn(s, Active)
  BY DEF Parked, JobsIn, Active
<1>1. ASSUME JobsIn(s, Active) = {}, NEW n \in JobIds, NEW b \in BOOLEAN,
             NEW x \in {"waiting_retry", "pending"}, b = ~study[s].trials,
             x = IF b THEN "waiting_retry" ELSE "pending",
             \A m \in JobIds : job[s][m].state = "absent" <=> m >= n,
             job' = [job EXCEPT ![s][n] = Fresh(x, b)]
      PROVE  /\ JobsOK(s)' /\ HasJob(s)'
             /\ \A m \in JobIds : job[s][m].state # "absent" => job'[s][m].state # "absent"
             /\ \A r \in Studies : r # s => job'[r] = job[r]
  <2>1. /\ job'[s][n].state = x /\ job'[s][n].parked = b
        /\ \A m \in JobIds : m # n => job'[s][m] = job[s][m]
        /\ \A r \in Studies : r # s => job'[r] = job[r]
    <3>1. /\ job' = [job EXCEPT ![s] = [job[s] EXCEPT ![n] = Fresh(x, b)]]
          /\ job[s] \in [JobIds -> Job]
      BY <1>1, <1>t
    <3>2. Fresh(x, b).state = x /\ Fresh(x, b).parked = b
      BY DEF Fresh
    <3> QED
      BY <3>1, <3>2, <1>t
  <2>2. HasJob(s)'
    BY <2>1, <1>1 DEF HasJob, Known, Active
  <2>3. \A m \in JobIds : m # n => ~Parked(s, m)'
    BY <2>1, <1>1, <1>a DEF Parked
  <2>4. Parked(s, n)' <=> ~study[s].trials
    BY <2>1, <1>1 DEF Parked
  <2>5. ASSUME ~study[s].trials, NEW p \in JobIds, NEW q \in JobIds, p < q,
               job'[s][q].state # "absent"
        PROVE  q = n
    <3>1. CASE q # n
      <4>1. job[s][q].state # "absent"
        BY <3>1, <2>1, <2>5
      <4>2. Parked(s, q)
        BY <4>1, <2>5 DEF JobsOK
      <4> QED
        BY <4>2, <1>a, <1>1
    <3> QED
      BY <3>1
  <2>6. JobsOK(s)'
    BY <2>1, <2>3, <2>4, <2>5, <1>s, <1>n, <1>1 DEF JobsOK
  <2> QED
    BY <2>1, <2>2, <2>6, <1>1
<1>2. ASSUME ~study[s].trials, NEW n \in JobsIn(s, Active),
             \A m \in JobsIn(s, Active) : m <= n,
             job' = [job EXCEPT ![s][n] = Put(job[s][n], "waiting_retry", TRUE)]
      PROVE  /\ JobsOK(s)' /\ HasJob(s)'
             /\ \A m \in JobIds : job[s][m].state # "absent" => job'[s][m].state # "absent"
             /\ \A r \in Studies : r # s => job'[r] = job[r]
  <2>0. n \in JobIds /\ job[s][n] \in Job /\ job[s][n].state # "absent"
    BY <1>t DEF JobsIn, Active
  <2>1. /\ job'[s][n].state = "waiting_retry" /\ job'[s][n].parked = TRUE
        /\ \A m \in JobIds : m # n => job'[s][m] = job[s][m]
        /\ \A r \in Studies : r # s => job'[r] = job[r]
    BY <1>2, <1>t, <2>0, PutType, StateNames
  <2>2. HasJob(s)'
    BY <2>1, <2>0 DEF HasJob, Known, Active
  <2>3. Parked(s, n)' /\ \A m \in JobIds : m # n => (Parked(s, m)' <=> Parked(s, m))
    BY <2>1 DEF Parked
  <2>4. ASSUME NEW p \in JobIds, NEW q \in JobIds, p < q, job'[s][q].state # "absent"
        PROVE  Parked(s, q)' /\ ~Parked(s, p)'
    <3>1. job[s][q].state # "absent"
      BY <2>1, <2>0, <2>4
    <3>2. Parked(s, q) /\ ~Parked(s, p)
      BY <3>1, <1>2, <2>4 DEF JobsOK
    <3>3. q <= n
      BY <3>2, <1>a, <1>2
    <3>4. p # n
      BY <3>3, <2>4, <1>n, <2>0
    <3> QED
      BY <3>2, <3>4, <2>3
  <2>5. JobsOK(s)'
    BY <2>1, <2>3, <2>4, <1>s, <1>2 DEF JobsOK
  <2> QED
    BY <2>1, <2>2, <2>5
<1>3. ASSUME study[s].trials, JobsIn(s, Active) # {}, job' = job
      PROVE  /\ JobsOK(s)' /\ HasJob(s)'
             /\ \A m \in JobIds : job[s][m].state # "absent" => job'[s][m].state # "absent"
             /\ \A r \in Studies : r # s => job'[r] = job[r]
  <2>1. JobsOK(s)'
    BY <1>3, <1>s DEF JobsOK, Parked
  <2>2. HasJob(s)'
    BY <1>3 DEF HasJob, JobsIn, Known
  <2> QED
    BY <2>1, <2>2, <1>3
<1> QED
  BY <1>s, <1>1, <1>2, <1>3, <1>t, CompletionJobs

\* An import reopens the newest job, which is the parked one if any is.
LEMMA ImportStudy ==
    ASSUME Typed, NEW s \in Studies, JobsOK(s), NEW c \in BOOLEAN,
           ImportTrials(s, c), Reopen(s, c)
    PROVE  /\ JobsOK(s)' /\ HasJob(s)'
           /\ study[s].trials => study'[s].trials
           /\ \A m \in JobIds : job[s][m].state # "absent" => job'[s][m].state # "absent"
           /\ \A r \in Studies : r # s => study'[r] = study[r] /\ job'[r] = job[r]
<1>t. /\ TypeOK /\ study \in [Studies -> Study] /\ job \in [Studies -> [JobIds -> Job]]
      /\ study[s].trials \in BOOLEAN
  BY Tables DEF Typed, Study
<1>s. /\ study'[s].trials = c /\ (study'[s].selected => c)
      /\ study[s].trials => c
      /\ \A r \in Studies : r # s => study'[r] = study[r]
  BY <1>t DEF ImportTrials
<1>n. \A m \in JobIds : m \in Nat /\ m >= 1
  BY DEF JobIds
<1> DEFINE known == JobsIn(s, Known)
<1>a. \A m \in JobIds : Parked(s, m) => m \in known
  BY DEF Parked, JobsIn, Known, Active
<1>r. \/ known = {} /\ Insert(s, Fresh("pending", FALSE))
      \/ \E n \in known :
            /\ \A m \in known : m <= n
            /\ \/ job' = job /\ ~(c /\ job[s][n].state \in {"waiting_retry", "terminal"})
               \/ c /\ job' = [job EXCEPT ![s][n] = Put(job[s][n], "pending", FALSE)]
  BY DEF Reopen, Known, Newest
<1>1. ASSUME known = {}, NEW n \in JobIds,
             \A m \in JobIds : job[s][m].state = "absent" <=> m >= n,
             job' = [job EXCEPT ![s][n] = Fresh("pending", FALSE)]
      PROVE  /\ JobsOK(s)' /\ HasJob(s)'
             /\ \A m \in JobIds : job[s][m].state # "absent" => job'[s][m].state # "absent"
             /\ \A r \in Studies : r # s => job'[r] = job[r]
  <2>1. /\ job'[s][n].state = "pending"
        /\ \A m \in JobIds : m # n => job'[s][m] = job[s][m]
        /\ \A r \in Studies : r # s => job'[r] = job[r]
    BY <1>1, <1>t, FreshType, StateNames, ZenonT(40)
  <2>2. HasJob(s)'
    BY <2>1 DEF HasJob, Known, Active
  <2>3. \A m \in JobIds : ~Parked(s, m)'
    BY <2>1, <1>1, <1>a DEF Parked
  <2>4. ASSUME NEW m \in JobIds, m < n
        PROVE  study[s].trials
    <3>1. job[s][m].state # "absent" /\ job[s][m].state \notin Known /\ job[s][m].state \in JobStates
      BY <2>4, <1>1, <1>n, <1>t DEF JobsIn, Job
    <3>2. job[s][m].state = "completed"
      BY <3>1 DEF Known, Active, JobStates
    <3> QED
      BY <3>2 DEF JobsOK
  <2>5. ASSUME ~study[s].trials, NEW p \in JobIds, NEW q \in JobIds, p < q,
               job'[s][q].state # "absent"
        PROVE  FALSE
    <3>1. p >= n /\ q > n
      BY <2>5, <2>4, <1>n
    <3>2. job[s][q].state = "absent"
      BY <3>1, <1>1, <1>n, <2>5
    <3>3. q # n /\ job'[s][q] = job[s][q]
      BY <3>1, <1>n, <2>1, <2>5
    <3> QED
      BY <3>2, <3>3, <2>5
  <2>6. JobsOK(s)'
    <3>1. \A m \in JobIds : job'[s][m].state = "completed" => study[s].trials
      BY <2>1 DEF JobsOK
    <3> QED
      BY <3>1, <2>3, <2>5, <1>s DEF JobsOK
  <2> QED
    BY <2>1, <2>2, <2>6, <1>1
<1>2. ASSUME NEW n \in known, \A m \in known : m <= n, job' = job,
             ~(c /\ job[s][n].state \in {"waiting_retry", "terminal"})
      PROVE  JobsOK(s)' /\ HasJob(s)'
  <2>1. HasJob(s)'
    BY <1>2 DEF HasJob, JobsIn
  <2>2. ASSUME NEW m \in JobIds, Parked(s, m)
        PROVE  ~c
    <3>1. m <= n /\ n \in JobIds /\ job[s][n].state # "absent"
      BY <2>2, <1>a, <1>2 DEF JobsIn, Known, Active
    <3>2. ~study[s].trials
      BY <2>2 DEF JobsOK
    <3>3. m = n
      BY <3>1, <3>2, <2>2, <1>n DEF JobsOK
    <3> QED
      BY <3>3, <2>2, <1>2 DEF Parked
  <2>3. JobsOK(s)'
    BY <2>2, <1>2, <1>s DEF JobsOK, Parked
  <2> QED
    BY <2>1, <2>3
<1>3. ASSUME NEW n \in known, \A m \in known : m <= n, c,
             job' = [job EXCEPT ![s][n] = Put(job[s][n], "pending", FALSE)]
      PROVE  /\ JobsOK(s)' /\ HasJob(s)'
             /\ \A m \in JobIds : job[s][m].state # "absent" => job'[s][m].state # "absent"
             /\ \A r \in Studies : r # s => job'[r] = job[r]
  <2>0. n \in JobIds /\ job[s][n] \in Job /\ job[s][n].state # "absent"
    BY <1>t DEF JobsIn, Known, Active
  <2>1. /\ job'[s][n].state = "pending"
        /\ \A m \in JobIds : m # n => job'[s][m] = job[s][m]
        /\ \A r \in Studies : r # s => job'[r] = job[r]
    BY <1>3, <1>t, <2>0, PutType, StateNames
  <2>2. HasJob(s)'
    BY <2>1, <2>0 DEF HasJob, Known, Active
  <2>3. ASSUME NEW m \in JobIds, Parked(s, m)'
        PROVE  FALSE
    <3>1. m # n /\ Parked(s, m)
      BY <2>3, <2>1 DEF Parked
    <3>2. ~study[s].trials /\ m <= n
      BY <3>1, <1>a, <1>3 DEF JobsOK
    <3>3. m < n
      BY <3>1, <3>2, <2>0, <1>n
    <3> QED
      BY <3>1, <3>2, <3>3, <2>0 DEF JobsOK
  <2>4. JobsOK(s)'
    BY <2>3, <1>s, <1>3 DEF JobsOK
  <2> QED
    BY <2>1, <2>2, <2>4, <2>0
<1> QED
  BY <1>s, <1>r, <1>1, <1>2, <1>3 DEF Insert

Grows ==
    \A s \in Studies :
        /\ study[s].trials => study'[s].trials
        /\ \A n \in JobIds : job[s][n].state # "absent" => job'[s][n].state # "absent"

\* The main thread and the invariant on studies.
LEMMA StepStudy ==
    ASSUME Typed, StudyInv, NamedInv, NEW w \in Supervisors, Step(w)
    PROVE  StudyInv' /\ Grows
<1>t. /\ study \in [Studies -> Study] /\ job \in [Studies -> [JobIds -> Job]]
      /\ \A s \in Studies : study[s] \in Study
      /\ \A s \in Studies, n \in JobIds : job[s][n] \in Job
  BY Tables DEF Typed
<1>k. ASSUME UNCHANGED job,
             \A s \in Studies : \/ study'[s] = study[s]
                                \/ \E x \in Stages \ {"hpo_analysis"} :
                                      study'[s] = [study[s] EXCEPT !.stage = x]
      PROVE  StudyInv' /\ Grows
  <2>1. \A s \in Studies : /\ study'[s].trials = study[s].trials
                           /\ study'[s].selected = study[s].selected
                           /\ study'[s].stage = "hpo_analysis" => study[s].stage = "hpo_analysis"
    BY <1>k, <1>t DEF Study
  <2>2. \A s \in Studies : JobsOK(s)' /\ HasJob(s)'
    BY <2>1, <1>k, StudyKept DEF StudyInv
  <2> QED
    BY <2>1, <2>2, <1>k DEF StudyInv, Grows
<1>c. ASSUME NEW s \in Studies, Completion(s)
      PROVE  StudyInv' /\ Grows
  <2>1. JobsOK(s) /\ \A r \in Studies : JobsOK(r) /\ HasJob(r)
    BY DEF StudyInv
  <2>2. /\ JobsOK(s)' /\ HasJob(s)'
        /\ study'[s].trials = study[s].trials
        /\ \A m \in JobIds : job[s][m].state # "absent" => job'[s][m].state # "absent"
        /\ \A r \in Studies : r # s => study'[r] = study[r] /\ job'[r] = job[r]
    BY <2>1, <1>c, CompletionStudy
  <2>3. ASSUME NEW r \in Studies, r # s
        PROVE  JobsOK(r)' /\ HasJob(r)'
    BY <2>1, <2>2, <2>3, StudyKept
  <2> QED
    BY <2>2, <2>3 DEF StudyInv, Grows
<1>1. CASE UNCHANGED <<study, job>>
  BY <1>1, <1>k
<1>2. CASE ResetLost(w)
  <2>1. ASSUME NEW s \in Studies, NEW m \in JobIds
        PROVE  \/ job'[s][m] = job[s][m]
               \/ Rewritten(s, m) /\ job'[s][m].state = "pending"
    <3>1. Put(job[s][m], "pending", FALSE).state = "pending"
      BY <1>t, PutType, StateNames
    <3>2. <<s, m>> \in lost[w] => Named(s, m)
      BY DEF NamedInv
    <3> QED
      BY <3>1, <3>2, <1>2 DEF ResetLost, Rewritten, Named, Known, Active, Parked
  <2>2. ASSUME NEW s \in Studies
        PROVE  /\ JobsOK(s)' /\ HasJob(s)'
               /\ \A m \in JobIds : job[s][m].state # "absent" => job'[s][m].state # "absent"
    <3>1. JobsOK(s) /\ HasJob(s) /\ study' = study
      BY <1>2 DEF StudyInv, ResetLost
    <3>2. HasJob(s)'
      BY <3>1, <2>1 DEF HasJob, Known, Active
    <3> QED
      BY <3>1, <3>2, <2>1, JobsRewritten
  <2> QED
    BY <2>2, <1>2 DEF StudyInv, Grows, ResetLost
<1>3. CASE ClaimJob(w)
  <2>1. CASE \E s \in Studies, n \in JobIds : /\ Claimable(s, n)
                                              /\ job' = [job EXCEPT ![s][n] = Claimed(@)]
    <3>1. PICK s \in Studies, n \in JobIds :
                 Claimable(s, n) /\ job' = [job EXCEPT ![s][n] = Claimed(job[s][n])]
      BY <2>1
    <3>2. /\ Claimed(job[s][n]).state = "running"
          /\ job[s][n].state # "absent" /\ ~Parked(s, n)
      BY <3>1, <1>t, ClaimedType DEF Claimable, Parked
    <3>3. job'[s][n].state = "running" /\ \A m \in JobIds : m # n => job'[s][m] = job[s][m]
      BY <3>1, <3>2, <1>t
    <3>4. JobsOK(s) /\ HasJob(s) /\ study' = study
      BY <1>3 DEF StudyInv, ClaimJob
    <3>5. n = 1 \/ study[s].trials
      <4>1. n # 1 => 1 \in JobIds /\ 1 < n
        BY DEF JobIds
      <4> QED
        BY <4>1, <3>2, <3>4 DEF JobsOK
    <3>6. Rewritten(s, n)
      BY <3>2, <3>3, <3>5 DEF Rewritten, Known, Active, Parked
    <3>7. /\ JobsOK(s)'
          /\ \A m \in JobIds : job[s][m].state # "absent" => job'[s][m].state # "absent"
      BY <3>3, <3>4, <3>6, JobsRewritten
    <3>8. HasJob(s)'
      BY <3>3, <3>4 DEF HasJob, Known, Active
    <3>9. ASSUME NEW r \in Studies, r # s
          PROVE  JobsOK(r)' /\ HasJob(r)' /\ job'[r] = job[r]
      <4>1. job'[r] = job[r]
        BY <3>1, <3>9, <1>t
      <4> QED
        BY <4>1, <3>4, StudyKept DEF StudyInv
    <3> QED
      BY <3>4, <3>7, <3>8, <3>9 DEF StudyInv, Grows
  <2> QED
    BY <2>1, <1>1, <1>3 DEF ClaimJob
<1>4. CASE HandOver(w) \/ CompleteStudy(w)
  <2>1. todo[w] \subseteq Studies
    BY Locals DEF Typed, MainType
  <2> QED
    BY <2>1, <1>4, <1>c, <1>1 DEF HandOver, CompleteStudy
<1>5. CASE MarkUnroutable(w) \/ StartStudy(w)
  <2>1. todo[w] \subseteq Studies
    BY Locals DEF Typed, MainType
  <2>2. {"hpo_scheduled", "hpo_running"} \subseteq Stages \ {"hpo_analysis"}
    BY DEF Stages
  <2> QED
    BY <2>1, <2>2, <1>5, <1>k, <1>t DEF MarkUnroutable, StartStudy
<1> QED
  BY <1>1, <1>2, <1>3, <1>4, <1>5
     DEF Step, Start, SelectLost, Reconcile, SelectDefaults, CheckDefaults, WriteDefaults,
         Promote, ClaimWork, ReadStages, RunCompletes, RunFails, FinishWork

\* One study changes, and it keeps the invariant.
LEMMA OneStudy ==
    ASSUME StudyInv, NEW s \in Studies, JobsOK(s)', HasJob(s)',
           study[s].trials => study'[s].trials,
           \A m \in JobIds : job[s][m].state # "absent" => job'[s][m].state # "absent",
           \A r \in Studies : r # s => study'[r] = study[r] /\ job'[r] = job[r]
    PROVE  StudyInv' /\ Grows
<1>1. ASSUME NEW r \in Studies, r # s
      PROVE  JobsOK(r)' /\ HasJob(r)'
  BY <1>1, StudyKept DEF StudyInv
<1> QED
  BY <1>1 DEF StudyInv, Grows

\* One job is rewritten by an action that names it.
LEMMA OneJob ==
    ASSUME Typed, StudyInv, NEW s \in Studies, NEW n \in JobIds, Named(s, n), NEW j,
           j.state \in Known \cup {"completed"}, j.state = "waiting_retry" => ~j.parked,
           j.state = "completed" => study[s].trials,
           job' = [job EXCEPT ![s][n] = j],
           study'[s].trials = study[s].trials, study'[s].selected = study[s].selected,
           study'[s].stage = "hpo_analysis" => j.state \in Known,
           \A r \in Studies : r # s => study'[r] = study[r]
    PROVE  StudyInv' /\ Grows
<1>1. /\ job'[s][n] = j /\ \A m \in JobIds : m # n => job'[s][m] = job[s][m]
      /\ \A r \in Studies : r # s => job'[r] = job[r]
  BY Tables DEF Typed
<1>2. Rewritten(s, n)
  BY <1>1 DEF Rewritten, Named, Parked
<1>3. JobsOK(s)
  BY DEF StudyInv
<1>4. /\ JobsOK(s)'
      /\ \A m \in JobIds : job[s][m].state # "absent" => job'[s][m].state # "absent"
  BY <1>1, <1>2, <1>3, JobsRewritten
<1>5. HasJob(s)'
  BY <1>1 DEF HasJob
<1> QED
  BY <1>1, <1>4, <1>5, OneStudy

\* The analysis thread and the invariant on studies.
LEMMA AnalyzeStudy ==
    ASSUME Typed, StudyInv, NamedInv, NEW w \in Supervisors, Analyze(w)
    PROVE  StudyInv' /\ Grows
<1> DEFINE s == turn[w].study
           n == turn[w].id
<1>t. /\ study \in [Studies -> Study] /\ job \in [Studies -> [JobIds -> Job]]
      /\ \A r \in Studies : study[r] \in Study /\ JobsOK(r)
      /\ \A r \in Studies, m \in JobIds : job[r][m] \in Job
  BY Tables DEF Typed, StudyInv
<1>n. turn[w].at \in {"payload", "dispatch", "fail", "decide"} => Named(s, n)
  BY DEF NamedInv
<1>d. turn[w].at = "decide" => study[s].trials
  BY DEF NamedInv
<1>1. CASE UNCHANGED <<study, job>>
  <2>1. \A r \in Studies : JobsOK(r)' /\ HasJob(r)'
    BY <1>1, StudyKept DEF StudyInv
  <2> QED
    BY <2>1, <1>1 DEF StudyInv, Grows
<1>2. CASE ParkFailed(w)
  <2>1. PICK p \in Studies : p = turn[w].study
    BY <1>2 DEF ParkFailed, Turning, Typed, TurnOK
  <2>2. /\ JobsOK(p)' /\ HasJob(p)'
        /\ study'[p].trials = study[p].trials
        /\ \A m \in JobIds : job[p][m].state # "absent" => job'[p][m].state # "absent"
        /\ \A r \in Studies : r # p => study'[r] = study[r] /\ job'[r] = job[r]
    BY <2>1, <1>2, <1>t, CompletionStudy DEF ParkFailed
  <2> QED
    BY <2>1, <2>2, OneStudy
<1>3. CASE FailJob(w)
  <2>1. Named(s, n) /\ s \in Studies /\ n \in JobIds
    BY <1>3, <1>n DEF FailJob, Turning, Named
  <2> DEFINE x == IF job[s][n].attempts >= MaxAnalyses THEN "terminal" ELSE "waiting_retry"
             j == Put(job[s][n], x, FALSE)
  <2>2. j.state = x /\ j.parked = FALSE /\ x \in Known
    <3>1. x \in JobStates /\ x \in Known
      BY StateNames DEF Known, Active
    <3> HIDE DEF x
    <3> QED
      BY <3>1, <2>1, <1>t, PutType
  <2>3. job' = [job EXCEPT ![s][n] = j] /\ study' = study
    BY <1>3 DEF FailJob
  <2>4. x # "completed"
    OBVIOUS
  <2> HIDE DEF j, x
  <2> QED
    BY <2>1, <2>2, <2>3, <2>4, OneJob
<1>4. CASE ScheduleValidations(w)
  <2>1. PICK p \in Studies : p = turn[w].study /\ Named(p, n) /\ study[p].trials
    BY <1>4, <1>n, <1>d DEF ScheduleValidations, Turning, Named
  <2>2. CASE UNCHANGED <<study, job>>
    BY <2>2, <1>1
  <2>3. CASE /\ study' = [study EXCEPT ![p].stage = "validation"]
             /\ job' = [job EXCEPT ![p] = [m \in JobIds |->
                  IF job[p][m].state = "running" THEN Put(job[p][m], "completed", FALSE)
                                                 ELSE job[p][m]]]
    <3>1. /\ study'[p].stage = "validation" /\ study'[p].trials = study[p].trials
          /\ study'[p].selected = study[p].selected
          /\ \A r \in Studies : r # p => study'[r] = study[r] /\ job'[r] = job[r]
      BY <2>3, <2>1, <1>t DEF Study
    <3>2. ASSUME NEW m \in JobIds
          PROVE  job'[p][m] = job[p][m] \/ Rewritten(p, m)
      <4>1. Put(job[p][m], "completed", FALSE).state = "completed"
        BY <2>1, <1>t, PutType, StateNames
      <4> QED
        BY <4>1, <2>3, <2>1, <1>t DEF Rewritten, Parked
    <3>3. /\ JobsOK(p)'
          /\ \A m \in JobIds : job[p][m].state # "absent" => job'[p][m].state # "absent"
      BY <3>1, <3>2, <2>1, <1>t, JobsRewritten
    <3>4. HasJob(p)'
      BY <3>1 DEF HasJob
    <3> QED
      BY <2>1, <3>1, <3>3, <3>4, OneStudy
  <2> QED
    BY <1>4, <2>1, <2>2, <2>3 DEF ScheduleValidations
<1>5. CASE Terminalize(w)
  <2>1. Named(s, n) /\ s \in Studies /\ n \in JobIds /\ study[s].trials
    BY <1>5, <1>n, <1>d DEF Terminalize, Turning, Named
  <2> DEFINE j == Put(job[s][n], "completed", FALSE)
  <2>2. j.state = "completed"
    BY <2>1, <1>t, PutType, StateNames
  <2>3. PICK x \in {"revise", "reject"} : study' = [study EXCEPT ![s].stage = x]
    BY <1>5 DEF Terminalize
  <2>4. /\ study'[s].stage # "hpo_analysis" /\ study'[s].trials = study[s].trials
        /\ study'[s].selected = study[s].selected
        /\ \A r \in Studies : r # s => study'[r] = study[r]
    BY <2>3, <2>1, <1>t DEF Study
  <2>5. job' = [job EXCEPT ![s][n] = j]
    BY <1>5 DEF Terminalize
  <2> HIDE DEF j
  <2> QED
    BY <2>1, <2>2, <2>4, <2>5, OneJob
<1> QED
  BY <1>1, <1>2, <1>3, <1>4, <1>5, Analyze(w) DEF Analyze, JudgeFailure, ReadPayload, Answer

\* The other steps and the invariant on studies.
LEMMA OtherStudy ==
    ASSUME Typed, StudyInv, NEW s \in Studies,
           \/ ScheduleCandidate(s) \/ Import(s) \/ RequeueExecution(s) \/ ConfigureRoutes(s)
           \/ ApplyDefaults(s)
           \/ \E n \in JobIds : RequeueAnalysis(s, n) \/ ClaimAges(s, n)
           \/ \E p \in Splits : RunValidation(s, p)
    PROVE  StudyInv' /\ Grows
<1>t. /\ study \in [Studies -> Study] /\ job \in [Studies -> [JobIds -> Job]]
      /\ study[s] \in Study /\ JobsOK(s) /\ HasJob(s)
      /\ \A m \in JobIds : job[s][m] \in Job
  BY Tables DEF Typed, StudyInv
<1>1. CASE /\ UNCHANGED job
           /\ \/ UNCHANGED study
              \/ study' = [study EXCEPT ![s].stage = "hpo_scheduled"]
  <2>1. /\ study'[s].trials = study[s].trials /\ study'[s].selected = study[s].selected
        /\ study'[s].stage = "hpo_analysis" => study[s].stage = "hpo_analysis"
        /\ \A r \in Studies : r # s => study'[r] = study[r]
    BY <1>1, <1>t DEF Study
  <2>2. JobsOK(s)' /\ HasJob(s)'
    BY <1>1, <2>1, <1>t, StudyKept
  <2> QED
    BY <1>1, <2>1, <2>2, OneStudy
<1>2. CASE Import(s)
  <2>1. PICK c \in BOOLEAN : ImportTrials(s, c) /\ Reopen(s, c)
    BY <1>2 DEF Import, JesseExports, OptunaStudies
  <2> QED
    BY <2>1, <1>t, ImportStudy, OneStudy
<1>3. CASE \E n \in JobIds : RequeueAnalysis(s, n)
  <2>1. PICK n \in JobIds : RequeueAnalysis(s, n)
    BY <1>3
  <2>2. Fresh("pending", FALSE).state = "pending"
    BY DEF Fresh
  <2>3. Named(s, n)
    <3>1. job[s][n].state = "terminal"
      BY <2>1 DEF RequeueAnalysis
    <3>2. n # 1 => 1 \in JobIds /\ 1 < n
      BY DEF JobIds
    <3> QED
      BY <3>1, <3>2, <1>t DEF Named, JobsOK, Parked
  <2>4. /\ study'[s].trials = study[s].trials /\ study'[s].selected = study[s].selected
        /\ \A r \in Studies : r # s => study'[r] = study[r]
        /\ job' = [job EXCEPT ![s][n] = Fresh("pending", FALSE)]
    BY <2>1, <1>t DEF RequeueAnalysis, Study
  <2>5. "pending" \in Known
    BY DEF Known, Active
  <2> QED
    BY <2>2, <2>3, <2>4, <2>5, OneJob
<1>4. CASE \E n \in JobIds : ClaimAges(s, n)
  <2>1. PICK n \in JobIds : ClaimAges(s, n)
    BY <1>4
  <2>2. /\ \A m \in JobIds : /\ job'[s][m].state = job[s][m].state
                             /\ job'[s][m].parked = job[s][m].parked
        /\ \A r \in Studies : r # s => job'[r] = job[r]
        /\ study' = study
    BY <2>1, <1>t DEF ClaimAges, Job
  <2>3. JobsOK(s)'
    BY <2>2, <1>t, JobsRewritten
  <2>4. HasJob(s)'
    BY <2>2, <1>t DEF HasJob
  <2> QED
    BY <2>2, <2>3, <2>4, OneStudy
<1> QED
  BY <1>1, <1>2, <1>3, <1>4
     DEF ScheduleCandidate, RequeueExecution, ConfigureRoutes, ApplyDefaults, RunValidation

\* What lists and threads name: a name made by a step is good, the others stay so.
LEMMA NamedStep ==
    ASSUME Typed, StudyInv, NamedInv, Grows, [Next]_vars
    PROVE  NamedInv'
<1>t. /\ lost \in [Supervisors -> SUBSET (Studies \X JobIds)]
      /\ turn \in [Supervisors -> Turn]
      /\ study \in [Studies -> Study] /\ job \in [Studies -> [JobIds -> Job]]
      /\ \A w \in Supervisors : turn[w].at # "idle" => turn[w].study \in Studies
  BY Locals, Tables DEF Typed, TurnOK, MainType
<1>g. \A s \in Studies, n \in JobIds : Named(s, n) => Named(s, n)'
  BY DEF Grows, Named
<1>f. \A s \in Studies, n \in JobIds :
         job[s][n].state # "absent" /\ ~Parked(s, n) => Named(s, n)
  <2>1. \A n \in JobIds : n # 1 => 1 \in JobIds /\ 1 < n
    BY DEF JobIds
  <2> QED
    BY <2>1 DEF StudyInv, JobsOK, Named
<1>k. ASSUME \A v \in Supervisors :
                /\ \A x \in lost'[v] : x \in lost[v] \/ Named(x[1], x[2])
                /\ \/ turn'[v].at \in {"idle", "park"}
                   \/ turn'[v] = turn[v]
                   \/ /\ Named(turn'[v].study, turn'[v].id)
                      /\ turn'[v].at \in {"dispatch", "decide"} =>
                            study[turn'[v].study].trials
      PROVE  NamedInv'
  <2>1. ASSUME NEW v \in Supervisors, NEW x \in lost'[v]
        PROVE  Named(x[1], x[2])'
    <3>1. Named(x[1], x[2])
      BY <1>k, <2>1 DEF NamedInv
    <3>2. PICK s \in Studies, n \in JobIds : s = x[1] /\ n = x[2] /\ Named(s, n)
      BY <3>1 DEF Named
    <3>3. Named(s, n)'
      BY <3>2, <1>g
    <3> QED
      BY <3>2, <3>3 DEF Named
  <2>2. ASSUME NEW v \in Supervisors, turn'[v].at \notin {"idle", "park"}
        PROVE  /\ Named(turn'[v].study, turn'[v].id)
               /\ turn'[v].at \in {"dispatch", "decide"} => study[turn'[v].study].trials
    BY <1>k, <2>2 DEF NamedInv
  <2>3. ASSUME NEW v \in Supervisors, turn'[v].at \notin {"idle", "park"}
        PROVE  /\ Named(turn[v].study, turn[v].id)'
               /\ turn'[v].at \in {"dispatch", "decide"} => study'[turn'[v].study].trials
    <3>1. PICK s \in Studies, n \in JobIds :
                 s = turn'[v].study /\ n = turn'[v].id /\ Named(s, n)
      BY <2>2, <2>3 DEF Named
    <3>2. Named(s, n)' /\ (study[s].trials => study'[s].trials)
      BY <3>1, <1>g DEF Grows
    <3> QED
      BY <3>1, <3>2, <2>2, <2>3 DEF Named
  <2> QED
    BY <2>1, <2>3 DEF NamedInv
<1>1. CASE UNCHANGED <<lost, turn>>
  BY <1>1, <1>k
<1>2. ASSUME NEW w \in Supervisors,
             Crash(w) \/ CheckDefaults(w) \/ StartStudy(w) \/ FinishWork(w) \/ ResetLost(w)
             \/ \E s \in Studies : RunFails(w, s)
      PROVE  NamedInv'
  <2>1. \A v \in Supervisors : lost'[v] = lost[v] \/ lost'[v] = {}
    BY <1>2, <1>t DEF Crash, CheckDefaults, StartStudy, FinishWork, RunFails, Exit, ResetLost
  <2>2. \A v \in Supervisors : turn'[v] = turn[v] \/ turn'[v].at = "idle"
    BY <1>2, <1>t, IdleType
       DEF Crash, CheckDefaults, StartStudy, FinishWork, RunFails, ResetLost
  <2> QED
    BY <2>1, <2>2, <1>k
<1>3. ASSUME NEW w \in Supervisors, SelectLost(w)
      PROVE  NamedInv'
  <2>1. \A v \in Supervisors : \A x \in lost'[v] :
           \/ x \in lost[v]
           \/ /\ x[1] \in Studies /\ x[2] \in JobIds
              /\ job[x[1]][x[2]].state = "running"
    BY <1>3, <1>t DEF SelectLost
  <2>2. \A v \in Supervisors : \A x \in lost'[v] : x \in lost[v] \/ Named(x[1], x[2])
    BY <2>1, <1>f DEF Parked
  <2>3. turn' = turn
    BY <1>3 DEF SelectLost
  <2> QED
    BY <2>2, <2>3, <1>k
<1>4. ASSUME NEW w \in Supervisors, ClaimJob(w)
      PROVE  NamedInv'
  <2>1. CASE \E s \in Studies, n \in JobIds :
                /\ Claimable(s, n) /\ turn' = [turn EXCEPT ![w] = Doing("payload", s, n)]
    <3>1. PICK s \in Studies, n \in JobIds :
                /\ Claimable(s, n) /\ turn' = [turn EXCEPT ![w] = Doing("payload", s, n)]
      BY <2>1
    <3>2. /\ Doing("payload", s, n).at = "payload"
          /\ Doing("payload", s, n).study = s /\ Doing("payload", s, n).id = n
      BY DEF Doing
    <3>3. Named(s, n)
      BY <3>1, <1>f DEF Claimable, Parked
    <3>4. \A v \in Supervisors : turn'[v] = turn[v] \/ turn'[v] = Doing("payload", s, n)
      BY <3>1, <1>t
    <3>5. lost' = lost
      BY <1>4 DEF ClaimJob
    <3> HIDE DEF Doing
    <3> QED
      BY <3>2, <3>3, <3>4, <3>5, <1>k
  <2> QED
    BY <2>1, <1>4, <1>1 DEF ClaimJob
<1>5. ASSUME NEW w \in Supervisors, Analyze(w)
      PROVE  NamedInv'
  <2>1. lost' = lost
    BY <1>5 DEF Analyze, JudgeFailure, ParkFailed, ReadPayload, Answer, FailJob,
                ScheduleValidations, Terminalize, main
  <2>2. ASSUME NEW t \in Turn, turn' = [turn EXCEPT ![w] = t],
               \/ t.at \in {"idle", "park"}
               \/ /\ Named(t.study, t.id)
                  /\ t.at \in {"dispatch", "decide"} => study[t.study].trials
        PROVE  NamedInv'
    <3>1. \A v \in Supervisors : turn'[v] = turn[v] \/ turn'[v] = t
      BY <2>2, <1>t
    <3> QED
      BY <2>1, <2>2, <3>1, <1>k
  <2>3. CASE JudgeFailure(w)
    <3>1. PICK s \in Studies : turn' = [turn EXCEPT ![w] = Doing("park", s, 0)]
      BY <2>3 DEF JudgeFailure, Think
    <3>2. Doing("park", s, 0) \in Turn /\ Doing("park", s, 0).at = "park"
      BY TurnRecord, HpoAssumption
    <3> HIDE DEF Doing
    <3> QED
      BY <3>1, <3>2, <2>2
  <2>4. CASE ParkFailed(w) \/ FailJob(w) \/ ScheduleValidations(w) \/ Terminalize(w)
    <3>1. turn' = [turn EXCEPT ![w] = Idle]
      BY <2>4 DEF ParkFailed, FailJob, ScheduleValidations, Terminalize, Think
    <3> QED
      BY <3>1, IdleType, <2>2
  <2>5. CASE ReadPayload(w) \/ Answer(w)
    <3>1. PICK t \in Turn : /\ turn' = [turn EXCEPT ![w] = t]
                            /\ t.study = turn[w].study /\ t.id = turn[w].id
                            /\ t.at \in {"fail", "dispatch", "decide"}
                            /\ \/ t.at = "fail"
                               \/ turn[w].at = "dispatch" \/ study[turn[w].study].trials
      <4>1. turn[w] \in Turn /\ study[turn[w].study] \in Study
        BY <1>t, <2>5 DEF ReadPayload, Answer, Turning
      <4>2. CASE ReadPayload(w)
        <5> DEFINE x == IF study[turn[w].study].trials THEN "dispatch" ELSE "fail"
                   t == [turn[w] EXCEPT !.at = x, !.saw = study[turn[w].study].selected]
        <5>1. t \in Turn /\ t.study = turn[w].study /\ t.id = turn[w].id /\ t.at = x
          BY <4>1 DEF Turn, Study
        <5>2. turn' = [turn EXCEPT ![w] = t]
          BY <4>2 DEF ReadPayload, Think
        <5>3. x \in {"fail", "dispatch"} /\ (x = "fail" \/ study[turn[w].study].trials)
          OBVIOUS
        <5> HIDE DEF t, x
        <5> QED
          BY <5>1, <5>2, <5>3
      <4>3. CASE Answer(w)
        <5>1. PICK x \in {"decide", "fail"} : turn' = [turn EXCEPT ![w] = [turn[w] EXCEPT !.at = x]]
          BY <4>3 DEF Answer, Think
        <5> DEFINE t == [turn[w] EXCEPT !.at = x]
        <5>2. t \in Turn /\ t.study = turn[w].study /\ t.id = turn[w].id /\ t.at = x
          BY <4>1 DEF Turn
        <5>3. turn[w].at = "dispatch"
          BY <4>3 DEF Answer, Turning
        <5> HIDE DEF t
        <5> QED
          BY <5>1, <5>2, <5>3 DEF t
      <4> QED
        BY <2>5, <4>2, <4>3
    <3>2. turn[w].at \in {"payload", "dispatch"}
      BY <2>5 DEF ReadPayload, Answer, Turning
    <3>3. /\ Named(turn[w].study, turn[w].id)
          /\ turn[w].at = "dispatch" => study[turn[w].study].trials
      BY <3>2 DEF NamedInv
    <3> QED
      BY <3>1, <3>3, <2>2
  <2> QED
    BY <1>5, <2>3, <2>4, <2>5, Analyze(w) DEF Analyze
<1>6. CASE Operate
  BY <1>6, <1>1 DEF Operate, Import, RequeueExecution, ConfigureRoutes, ApplyDefaults,
                    RequeueAnalysis, main
<1>7. CASE \E s \in Studies : \/ ScheduleCandidate(s)
                              \/ \E p \in Splits : RunValidation(s, p)
                              \/ \E n \in JobIds : ClaimAges(s, n)
  BY <1>7, <1>1 DEF ScheduleCandidate, RunValidation, ClaimAges, main
<1>8. ASSUME NEW w \in Supervisors, Step(w)
      PROVE  NamedInv'
  <2>1. CASE UNCHANGED <<lost, turn>>
    BY <2>1, <1>1
  <2> QED
    BY <1>2, <1>3, <1>4, <1>8, <2>1
       DEF Step, Start, Reconcile, HandOver, SelectDefaults, WriteDefaults, MarkUnroutable,
           Promote, ClaimWork, ReadStages, RunCompletes, CompleteStudy
<1>9. CASE UNCHANGED vars
  BY <1>9, <1>1 DEF vars
<1> QED
  BY <1>2, <1>5, <1>6, <1>7, <1>8, <1>9 DEF Next

JobsInv == Typed /\ StudyInv /\ NamedInv

LEMMA JobsInit == Init => JobsInv
<1> SUFFICES ASSUME Init PROVE JobsInv
  OBVIOUS
<1>1. \A s \in Studies, n \in JobIds : job[s][n].state = "absent"
  BY DEF Init, Fresh
<1>2. \A s \in Studies : /\ study[s].stage = "none" /\ ~study[s].selected
  BY DEF Init
<1>3. StudyInv
  BY <1>1, <1>2 DEF StudyInv, JobsOK, HasJob, Parked
<1>4. NamedInv
  BY IdleType DEF Init, NamedInv
<1> QED
  BY <1>3, <1>4, TypedInit DEF JobsInv

LEMMA JobsStep == JobsInv /\ [Next]_vars => JobsInv'
<1> SUFFICES ASSUME Typed, StudyInv, NamedInv, [Next]_vars PROVE JobsInv'
  BY DEF JobsInv
<1>k. ASSUME UNCHANGED <<study, job>>
      PROVE  StudyInv' /\ Grows
  <2>1. \A r \in Studies : JobsOK(r)' /\ HasJob(r)'
    BY <1>k, StudyKept DEF StudyInv
  <2> QED
    BY <2>1, <1>k DEF StudyInv, Grows
<1>1. StudyInv' /\ Grows
  <2>1. CASE \E w \in Supervisors : Step(w)
    BY <2>1, StepStudy
  <2>2. CASE \E w \in Supervisors : Analyze(w)
    BY <2>2, AnalyzeStudy
  <2>3. CASE \E w \in Supervisors : Crash(w)
    BY <2>3, <1>k DEF Crash
  <2>4. CASE Operate
    BY <2>4, OtherStudy DEF Operate
  <2>5. CASE \E s \in Studies : \/ ScheduleCandidate(s)
                                \/ \E p \in Splits : RunValidation(s, p)
                                \/ \E n \in JobIds : ClaimAges(s, n)
    BY <2>5, OtherStudy
  <2>6. CASE UNCHANGED vars
    BY <2>6, <1>k DEF vars
  <2> QED
    BY <2>1, <2>2, <2>3, <2>4, <2>5, <2>6 DEF Next
<1> QED
  BY <1>1, NamedStep, TypedStep DEF Typed, JobsInv

\* A study in hpo_analysis has a job that can be claimed, requeued or reopened,
\* whichever of complete_hpo_study, import, requeue and analysis came last.
THEOREM AnalysisAlwaysHasJob == Spec => []AnalysisHasJob
<1>1. JobsInv => AnalysisHasJob
  BY DEF JobsInv, StudyInv, HasJob, AnalysisHasJob, JobsIn, Known
<1> QED
  BY <1>1, JobsInit, JobsStep, PTL DEF Spec

\* No job is left without a retry time once its study has completed trials.
THEOREM ParkedNeverHasTrials == Spec => []ParkedHasNoTrials
<1>1. JobsInv => ParkedHasNoTrials
  BY DEF JobsInv, StudyInv, JobsOK, Parked, ParkedHasNoTrials
<1> QED
  BY <1>1, JobsInit, JobsStep, PTL DEF Spec

-----------------------------------------------------------------------------
(* Routes and the validations that wait for them.                            *)

Routed(s) == \A p \in Splits : val[s][p].ready \/ val[s][p].state \in {"ready", "finished"} =>
                                 routes[s][p] # NoPeriod

RoutesOK(s) == /\ Disjoint(routes[s])
               /\ study[s].stage = "none" => \A p \in Splits : routes[s][p] = NoPeriod

Deciding == {"configure", "write"}

RouteInv ==
    /\ \A s \in Studies : Routed(s) /\ RoutesOK(s)
    /\ \A w \in Supervisors : pc[w] \in Deciding => \A s \in todo[w] : study[s].stage # "none"

\* A study is never forgotten.
LEMMA StageKept ==
    ASSUME Typed, [Next]_vars
    PROVE  \A s \in Studies : study'[s].stage = "none" => study[s].stage = "none"
<1>t. /\ study \in [Studies -> Study] /\ \A s \in Studies : study[s] \in Study
  BY Tables DEF Typed
<1>1. CASE UNCHANGED study
  BY <1>1
<1>2. ASSUME NEW s \in Studies,
             \/ \E x \in Stages \ {"none"} : study' = [study EXCEPT ![s].stage = x]
             \/ Completion(s)
      PROVE  \A r \in Studies : study'[r].stage = "none" => study[r].stage = "none"
  BY <1>2, <1>t DEF Study, Completion
<1>3. {"hpo_scheduled", "hpo_running", "hpo_analysis", "validation", "revise", "reject"}
         \subseteq Stages \ {"none"}
  BY DEF Stages
<1>4. ASSUME NEW w \in Supervisors, Step(w)
      PROVE  \A r \in Studies : study'[r].stage = "none" => study[r].stage = "none"
  <2>1. todo[w] \subseteq Studies
    BY Locals DEF Typed, MainType
  <2>2. CASE HandOver(w) \/ CompleteStudy(w) \/ StartStudy(w)
    BY <2>1, <2>2, <1>1, <1>2, <1>3 DEF HandOver, CompleteStudy, StartStudy
  <2>3. CASE MarkUnroutable(w)
    BY <2>3, <1>t DEF MarkUnroutable, Study
  <2> QED
    BY <1>4, <2>2, <2>3
       DEF Step, Start, SelectLost, ResetLost, Reconcile, SelectDefaults, CheckDefaults,
           WriteDefaults, Promote, ClaimJob, ClaimWork, ReadStages, RunCompletes, RunFails,
           FinishWork
<1>5. ASSUME NEW w \in Supervisors, Analyze(w)
      PROVE  \A r \in Studies : study'[r].stage = "none" => study[r].stage = "none"
  <2>1. turn[w].at # "idle" => turn[w].study \in Studies
    BY DEF Typed, TurnOK
  <2>2. CASE ParkFailed(w) \/ ScheduleValidations(w) \/ Terminalize(w)
    <3>1. PICK s \in Studies : s = turn[w].study
      BY <2>1, <2>2 DEF ParkFailed, ScheduleValidations, Terminalize, Turning
    <3> QED
      BY <3>1, <2>2, <1>1, <1>2, <1>3 DEF ParkFailed, ScheduleValidations, Terminalize
  <2> QED
    BY <1>5, <2>2, Analyze(w) DEF Analyze, JudgeFailure, ReadPayload, Answer, FailJob
<1>6. ASSUME NEW s \in Studies,
             \/ ScheduleCandidate(s) \/ Import(s) \/ RequeueExecution(s) \/ ConfigureRoutes(s)
             \/ ApplyDefaults(s)
             \/ \E n \in JobIds : RequeueAnalysis(s, n) \/ ClaimAges(s, n)
             \/ \E p \in Splits : RunValidation(s, p)
      PROVE  \A r \in Studies : study'[r].stage = "none" => study[r].stage = "none"
  <2>1. CASE Import(s)
    BY <2>1, <1>t DEF Import, ImportTrials
  <2> QED
    BY <1>6, <2>1, <1>1, <1>2, <1>3
       DEF ScheduleCandidate, RequeueExecution, ConfigureRoutes, ApplyDefaults,
           RequeueAnalysis, ClaimAges, RunValidation
<1> QED
  BY <1>1, <1>4, <1>5, <1>6 DEF Next, Operate, Crash, vars

\* Routing a study: what was routed stays so, and what is released is routed.
LEMMA ConfigureRouted ==
    ASSUME Typed, NEW s \in Studies, NEW r \in [Roles -> Periods \cup {NoPeriod}],
           Configure(s, r), Routed(s)
    PROVE  /\ Routed(s)' /\ Disjoint(routes[s])'
           /\ \A x \in Studies : x # s => routes'[x] = routes[x] /\ val'[x] = val[x]
<1>t. /\ routes \in [Studies -> [Roles -> Periods \cup {NoPeriod}]]
      /\ val \in [Studies -> [Splits -> Validation]]
      /\ Splits \subseteq Roles
  BY Tables DEF Typed, Roles
<1>1. /\ Disjoint(routes'[s])
      /\ \A p \in Splits : routes'[s][p] = IF r[p] # NoPeriod THEN r[p] ELSE routes[s][p]
      /\ \A x \in Studies : x # s => routes'[x] = routes[x] /\ val'[x] = val[x]
  BY <1>t DEF Configure
<1>2. \A p \in Splits :
         val'[s][p] = IF r[p] # NoPeriod /\ val[s][p].state # "none"
                        THEN [val[s][p] EXCEPT !.ready = TRUE, !.route = r[p]] ELSE val[s][p]
  BY <1>t DEF Configure
<1>3. Routed(s)'
  BY <1>1, <1>2 DEF Routed
<1> QED
  BY <1>1, <1>3 DEF Disjoint

LEMMA RouteInit == Init => RouteInv
  BY HpoAssumption DEF Init, RouteInv, Routed, RoutesOK, Disjoint, Deciding, Roles

\* Steps that route nothing and release nothing.
LEMMA RoutesKept ==
    ASSUME Typed, RouteInv, [Next]_vars,
           UNCHANGED <<routes, val>>
    PROVE  \A s \in Studies : Routed(s)' /\ RoutesOK(s)'
  BY StageKept DEF RouteInv, Routed, RoutesOK, Disjoint

\* The lists of studies that are about to be given the default policy.
LEMMA ListsKept ==
    ASSUME Typed, RouteInv, [Next]_vars
    PROVE  \A w \in Supervisors : pc'[w] \in Deciding =>
                                    \A s \in todo'[w] : study'[s].stage # "none"
<1>t. /\ pc \in [Supervisors -> PCs] /\ todo \in [Supervisors -> SUBSET Studies]
  BY Locals DEF Typed, MainType
<1>k. ASSUME \A w \in Supervisors :
                \/ pc'[w] \notin Deciding
                \/ pc[w] \in Deciding /\ todo'[w] \subseteq todo[w]
                \/ \A s \in todo'[w] : s \in Studies /\ study[s].stage # "none"
      PROVE  \A w \in Supervisors : pc'[w] \in Deciding =>
                                      \A s \in todo'[w] : study'[s].stage # "none"
  BY <1>k, <1>t, StageKept DEF RouteInv
<1>1. CASE UNCHANGED <<pc, todo>>
  BY <1>1, <1>k
<1>2. ASSUME NEW w \in Supervisors, Step(w) \/ Crash(w)
      PROVE  \A v \in Supervisors : v # w => pc'[v] = pc[v] /\ todo'[v] = todo[v]
  BY <1>2, <1>t
     DEF Step, Crash, Start, SelectLost, ResetLost, Reconcile, HandOver, SelectDefaults,
         CheckDefaults, WriteDefaults, MarkUnroutable, Promote, ClaimJob, ClaimWork,
         ReadStages, StartStudy, RunCompletes, RunFails, CompleteStudy, FinishWork, Exit,
         Settle, Goto
<1>3. ASSUME NEW w \in Supervisors, Step(w) \/ Crash(w)
      PROVE  \/ pc'[w] \notin Deciding
             \/ pc[w] \in Deciding /\ todo'[w] \subseteq todo[w]
             \/ \A s \in todo'[w] : s \in Studies /\ study[s].stage # "none"
  <2>1. CASE SelectDefaults(w)
    BY <2>1, <1>t DEF SelectDefaults, NeedsDefaults
  <2>2. CASE CheckDefaults(w) \/ WriteDefaults(w)
    BY <2>2, <1>t DEF CheckDefaults, WriteDefaults, Exit, At, Deciding
  <2>3. CASE Crash(w) \/ Start(w) \/ SelectLost(w) \/ ResetLost(w) \/ Reconcile(w)
             \/ MarkUnroutable(w) \/ Promote(w) \/ ClaimJob(w) \/ ClaimWork(w) \/ ReadStages(w)
    BY <2>3, <1>t DEF Crash, Exit, Start, SelectLost, ResetLost, Reconcile, MarkUnroutable,
                      Promote, ClaimJob, ClaimWork, ReadStages, Goto, Deciding
  <2>4. CASE HandOver(w) \/ StartStudy(w) \/ CompleteStudy(w) \/ FinishWork(w)
             \/ \E s \in Studies : RunCompletes(w, s) \/ RunFails(w, s)
    BY <2>4, <1>t DEF HandOver, StartStudy, CompleteStudy, FinishWork, RunCompletes, RunFails,
                      Exit, Settle, Goto, At, Deciding
  <2> QED
    BY <1>3, <2>1, <2>2, <2>3, <2>4 DEF Step
<1>4. ASSUME NEW w \in Supervisors, Analyze(w)
      PROVE  UNCHANGED <<pc, todo>>
  BY <1>4, Analyze(w) DEF Analyze, JudgeFailure, ParkFailed, ReadPayload, Answer, FailJob,
                          ScheduleValidations, Terminalize, main
<1>5. CASE \/ Operate
           \/ \E s \in Studies : \/ ScheduleCandidate(s)
                                 \/ \E p \in Splits : RunValidation(s, p)
                                 \/ \E n \in JobIds : ClaimAges(s, n)
  BY <1>5, <1>1 DEF Operate, Import, RequeueExecution, ConfigureRoutes, ApplyDefaults,
                    RequeueAnalysis, ScheduleCandidate, RunValidation, ClaimAges, main
<1> QED
  BY <1>1, <1>2, <1>3, <1>4, <1>5, <1>k DEF Next, vars

LEMMA RouteStep == Typed /\ RouteInv /\ [Next]_vars => RouteInv'
<1> SUFFICES ASSUME Typed, RouteInv, [Next]_vars PROVE RouteInv'
  OBVIOUS
<1>t. /\ routes \in [Studies -> [Roles -> Periods \cup {NoPeriod}]]
      /\ val \in [Studies -> [Splits -> Validation]]
      /\ \A s \in Studies, p \in Splits : val[s][p] \in Validation
      /\ Splits \subseteq Roles /\ "hpo" \in Roles /\ "hpo" \notin Splits
  BY Tables DEF Typed, Roles, Splits
<1> DEFINE Good == \A s \in Studies : Routed(s)' /\ RoutesOK(s)'
<1>k. ASSUME UNCHANGED <<routes, val>>
      PROVE  Good
  BY <1>k, RoutesKept
<1>c. ASSUME NEW s \in Studies, study[s].stage # "none",
             NEW r \in [Roles -> Periods \cup {NoPeriod}], Configure(s, r)
      PROVE  Good
  <2>1. Routed(s)
    BY DEF RouteInv
  <2>2. /\ Routed(s)' /\ Disjoint(routes[s])'
        /\ \A x \in Studies : x # s => routes'[x] = routes[x] /\ val'[x] = val[x]
    BY <1>c, <2>1, ConfigureRouted
  <2>3. \A x \in Studies : x # s => Routed(x)' /\ RoutesOK(x)'
    BY <2>2, StageKept DEF RouteInv, Routed, RoutesOK, Disjoint
  <2>4. RoutesOK(s)'
    BY <2>2, <1>c, StageKept DEF RoutesOK
  <2> QED
    BY <2>2, <2>3, <2>4
\* Validations change without a new route, and none is released without one.
<1>v. ASSUME UNCHANGED routes,
             \A s \in Studies, p \in Splits :
                val'[s][p].ready \/ val'[s][p].state \in {"ready", "finished"} =>
                  \/ val[s][p].ready \/ val[s][p].state \in {"ready", "finished"}
                  \/ routes[s][p] # NoPeriod
      PROVE  Good
  BY <1>v, StageKept DEF RouteInv, Routed, RoutesOK, Disjoint
<1>1. ASSUME NEW w \in Supervisors, Step(w)
      PROVE  Good
  <2>1. CASE WriteDefaults(w)
    <3>1. PICK s \in todo[w] : Configure(s, DefaultRoutes)
      BY <2>1 DEF WriteDefaults
    <3>2. s \in Studies /\ study[s].stage # "none"
      BY <2>1, Locals DEF WriteDefaults, At, RouteInv, Deciding, Typed, MainType
    <3>3. DefaultRoutes \in [Roles -> Periods \cup {NoPeriod}]
      BY DefaultsType
    <3> QED
      BY <3>1, <3>2, <3>3, <1>c
  <2>2. CASE Promote(w)
    <3>1. PICK V \in SUBSET {x \in Studies \X Splits :
                    /\ val[x[1]][x[2]].state = "scheduled" /\ val[x[1]][x[2]].ready
                    /\ work[x[1]].state = "finished"} :
                 val' = [s \in Studies |-> [p \in Splits |->
                           IF <<s, p>> \in V THEN [val[s][p] EXCEPT !.state = "ready"]
                                             ELSE val[s][p]]]
      BY <2>2 DEF Promote
    <3>2. \A s \in Studies, p \in Splits : \/ val'[s][p] = val[s][p]
                                           \/ val[s][p].ready
      BY <3>1
    <3>3. routes' = routes
      BY <2>2 DEF Promote
    <3> QED
      BY <3>2, <3>3, <1>v
  <2> QED
    BY <1>1, <1>k, <2>1, <2>2
       DEF Step, Start, SelectLost, ResetLost, Reconcile, HandOver, SelectDefaults,
           CheckDefaults, MarkUnroutable, ClaimJob, ClaimWork, ReadStages, StartStudy,
           RunCompletes, RunFails, CompleteStudy, FinishWork
<1>2. ASSUME NEW w \in Supervisors, Analyze(w)
      PROVE  Good
  <2>1. CASE ScheduleValidations(w)
    <3>1. PICK s \in Studies : s = turn[w].study
      BY <2>1 DEF ScheduleValidations, Turning, Typed, TurnOK
    <3>2. CASE UNCHANGED val
      BY <3>2, <2>1, <1>k DEF ScheduleValidations
    <3>3. CASE val' = [val EXCEPT ![s] = [p \in Splits |->
                 IF val[s][p].state = "none"
                   THEN [state |-> "scheduled", ready |-> routes[s][p] # NoPeriod,
                         route |-> routes[s]["hpo"]]
                   ELSE IF val[s][p].state = "scheduled"
                          THEN [val[s][p] EXCEPT !.ready = routes[s][p] # NoPeriod]
                          ELSE val[s][p]]]
      <4>1. ASSUME NEW p \in Splits
            PROVE  \/ val'[s][p] = val[s][p]
                   \/ /\ val'[s][p].state = "scheduled"
                      /\ val'[s][p].ready <=> routes[s][p] # NoPeriod
        BY <3>3, <1>t DEF Validation
      <4>2. \A x \in Studies : x # s => val'[x] = val[x]
        BY <3>3, <1>t
      <4>3. routes' = routes
        BY <2>1 DEF ScheduleValidations
      <4> QED
        BY <4>1, <4>2, <4>3, <1>v
    <3> QED
      BY <2>1, <3>1, <3>2, <3>3 DEF ScheduleValidations
  <2> QED
    BY <1>2, <2>1, <1>k, Analyze(w)
       DEF Analyze, JudgeFailure, ParkFailed, ReadPayload, Answer, FailJob, Terminalize
<1>3. ASSUME NEW s \in Studies, ConfigureRoutes(s) \/ ApplyDefaults(s)
      PROVE  Good
  <2>1. PICK r \in [Roles -> Periods \cup {NoPeriod}] : Configure(s, r)
    BY <1>3, DefaultsType DEF ConfigureRoutes, ApplyDefaults
  <2>2. study[s].stage # "none"
    BY <1>3 DEF ConfigureRoutes, ApplyDefaults, NeedsDefaults
  <2> QED
    BY <2>1, <2>2, <1>c
<1>4. ASSUME NEW s \in Studies, ScheduleCandidate(s)
      PROVE  Good
  <2>1. PICK p \in Periods \cup {NoPeriod} : routes' = [routes EXCEPT ![s]["hpo"] = p]
    BY <1>4 DEF ScheduleCandidate
  <2>2. /\ \A x \in Splits : routes'[s][x] = NoPeriod
        /\ routes'[s]["hpo"] = p
        /\ \A x \in Studies : x # s => routes'[x] = routes[x]
    BY <2>1, <1>4, <1>t DEF ScheduleCandidate, RouteInv, RoutesOK
  <2>3. val' = val /\ \A x \in Splits : routes[s][x] = NoPeriod
    BY <1>4 DEF ScheduleCandidate, RouteInv, RoutesOK
  <2>4. Routed(s)' /\ RoutesOK(s)'
    BY <2>2, <2>3 DEF RouteInv, Routed, RoutesOK, Disjoint
  <2>5. \A x \in Studies : x # s => Routed(x)' /\ RoutesOK(x)'
    BY <2>2, <2>3, StageKept DEF RouteInv, Routed, RoutesOK, Disjoint
  <2> QED
    BY <2>4, <2>5
<1>5. ASSUME NEW s \in Studies, NEW p \in Splits, RunValidation(s, p)
      PROVE  Good
  <2>1. /\ routes' = routes /\ val[s][p].ready
        /\ \A x \in Studies, y \in Splits : x # s \/ y # p => val'[x][y] = val[x][y]
    BY <1>5, <1>t DEF RunValidation
  <2> QED
    BY <2>1, <1>v
<1>6. Good
  <2>1. CASE Operate
    BY <2>1, <1>3, <1>k DEF Operate, Import, RequeueExecution, RequeueAnalysis
  <2>2. CASE \E w \in Supervisors : Crash(w)
    BY <2>2, <1>k DEF Crash
  <2>3. CASE \E s \in Studies, n \in JobIds : ClaimAges(s, n)
    BY <2>3, <1>k DEF ClaimAges
  <2> QED
    BY <1>1, <1>2, <1>4, <1>5, <2>1, <2>2, <2>3, <1>k DEF Next, vars
<1> QED
  BY <1>6, ListsKept DEF RouteInv

LEMMA RoutesInvariant == Spec => [](Typed /\ RouteInv)
  BY TypedInit, RouteInit, TypedStep, RouteStep, PTL DEF Spec

\* Any sequence of partial route files, default policies and inherited routes keeps
\* the optimizer's period apart from those of its validations.
THEOREM PartitionsStayDisjoint == Spec => []PartitionsDisjoint
<1>1. RouteInv => PartitionsDisjoint
  BY DEF RouteInv, RoutesOK, PartitionsDisjoint
<1> QED
  BY <1>1, RoutesInvariant, PTL

\* No validation is promoted or executed before its own split has periods.
THEOREM ValidationsHaveRoutes == Spec => []ValidationsAreRouted
<1>1. RouteInv => ValidationsAreRouted
  BY DEF RouteInv, Routed, ValidationsAreRouted
<1> QED
  BY <1>1, RoutesInvariant, PTL

-----------------------------------------------------------------------------
(* Decisions of the only supervisor.                                         *)

Analyzed == {"payload", "dispatch", "fail", "decide"}

OnTurn(w, s) == turn[w].at \in Analyzed /\ turn[w].study = s

IsActive(s, n) == job[s][n].state \in Active

\* At most one job of a study is active, and none created later is terminal.
OneActive(s) ==
    \A m, n \in JobIds : IsActive(s, m) /\ n # m =>
        ~IsActive(s, n) /\ (n > m => job[s][n].state # "terminal")

\* A study with trials does not run again; its jobs begin with its first hand-over
\* or import; a decision for validation rests on a selection that no import can
\* replace any more, and another one leaves nothing to be analyzed.
Settled(s) ==
    /\ study[s].stage = "none" => ~study[s].trials
    /\ study[s].stage # "none" => work[s].state # "none"
    /\ study[s].trials => work[s].state = "finished"
    /\ study[s].stage \in Decided => study[s].trials
    /\ study[s].stage = "validation" => study[s].selected
    /\ \A n \in JobIds : job[s][n].state # "absent" =>
                            study[s].stage \in Decided \cup {"hpo_analysis"}
    /\ study[s].stage \in {"revise", "reject"} => \A n \in JobIds : ~IsActive(s, n)
    /\ OneActive(s)

\* The analysis thread works on an active job that is not given up; lost jobs are
\* not those it works on; what is still to be handed over is not decided.
Attentive(w) ==
    /\ turn[w].at \in Analyzed => /\ IsActive(turn[w].study, turn[w].id)
                                  /\ ~job[turn[w].study][turn[w].id].aged
    /\ turn[w].at \in {"dispatch", "decide"} /\ study[turn[w].study].stage = "validation" =>
          turn[w].saw
    /\ turn[w].at = "park" => /\ study[turn[w].study].stage \notin Decided
                              /\ work[turn[w].study].state # "none"
    /\ \A x \in lost[w] : IsActive(x[1], x[2]) /\ ~OnTurn(w, x[1])
    /\ lost[w] # {} => pc[w] = "reset"
    /\ pc[w] = "handOver" =>
          \A s \in todo[w] : /\ study[s].stage \notin Decided /\ ~OnTurn(w, s)
                             /\ work[s].state # "none"
    /\ pc[w] = "complete" => todo[w] \subseteq held[w]
    /\ \A s \in held[w] : work[s].state # "none"

WorkKept(s) == /\ work[s].state # "none" => work'[s].state # "none"
               /\ work[s].state = "finished" => work'[s].state = "finished"

LEMMA SettledKept ==
    ASSUME NEW s \in Studies, Settled(s), study'[s] = study[s], job'[s] = job[s], WorkKept(s)
    PROVE  Settled(s)'
  BY DEF Settled, OneActive, IsActive, WorkKept

\* Jobs that are active have been, and so have the ones that become terminal.
LEMMA OneActiveKept ==
    ASSUME NEW s \in Studies, OneActive(s),
           \A m \in JobIds : /\ IsActive(s, m)' => IsActive(s, m)
                             /\ job'[s][m].state = "terminal" =>
                                   job[s][m].state = "terminal" \/ IsActive(s, m)
    PROVE  OneActive(s)'
  BY DEF OneActive

\* The only job that becomes active is the newest of those that may.
LEMMA OneActiveOpened ==
    ASSUME NEW s \in Studies, NEW n \in JobIds,
           \A m \in JobIds : m # n => /\ ~IsActive(s, m)'
                                      /\ m > n => job'[s][m].state # "terminal"
    PROVE  OneActive(s)'
  BY DEF OneActive

\* Nothing is decided, and active jobs stay so and do not age.
Gentle(s) ==
    /\ study'[s].stage \in Decided => study'[s].stage = study[s].stage
    /\ work[s].state # "none" => work'[s].state # "none"
    /\ \A n \in JobIds : IsActive(s, n) => IsActive(s, n)' /\ (job'[s][n].aged => job[s][n].aged)

\* The main thread begins no hand-over, and forgets lost jobs when it goes on.
Steady(w) ==
    /\ lost'[w] \subseteq lost[w] /\ (lost'[w] # {} => pc'[w] = pc[w])
    /\ pc'[w] = "handOver" => pc[w] = "handOver" /\ todo'[w] \subseteq todo[w]
    /\ pc'[w] = "complete" => pc[w] = "complete" /\ todo'[w] \subseteq todo[w] /\ held'[w] = held[w]
    /\ held'[w] \subseteq held[w]

LEMMA Names ==
    ASSUME Typed, NEW w \in Supervisors
    PROVE  /\ turn[w] \in Turn
           /\ turn[w].at # "idle" => turn[w].study \in Studies
           /\ turn[w].at \in Analyzed => turn[w].id \in JobIds
           /\ \A x \in lost[w] : x[1] \in Studies /\ x[2] \in JobIds
           /\ todo[w] \subseteq Studies /\ held[w] \subseteq Studies
  BY Locals DEF Typed, TurnOK, MainType, Analyzed

LEMMA AttentiveKept ==
    ASSUME Typed, NEW w \in Supervisors, Attentive(w), \A s \in Studies : Gentle(s),
           turn'[w] = turn[w] \/ turn'[w].at = "idle", Steady(w)
    PROVE  Attentive(w)'
<1>1. CASE turn'[w] = turn[w]
  <2>1. /\ turn'[w].at \in Analyzed => /\ IsActive(turn[w].study, turn[w].id)'
                                       /\ ~job'[turn[w].study][turn[w].id].aged
    BY <1>1, Names DEF Attentive, Gentle, Analyzed
  <2>2. \A x \in lost'[w] : IsActive(x[1], x[2])' /\ ~OnTurn(w, x[1])'
    BY <1>1, Names DEF Attentive, Gentle, Steady, OnTurn
  <2>3. pc'[w] = "handOver" =>
          \A s \in todo'[w] : /\ study'[s].stage \notin Decided /\ ~OnTurn(w, s)'
                              /\ work'[s].state # "none"
    BY <1>1, Names DEF Attentive, Gentle, Steady, OnTurn
  <2>5. \A s \in held'[w] : work'[s].state # "none"
    BY Names DEF Attentive, Gentle, Steady
  <2>4. /\ turn'[w].at \in {"dispatch", "decide"} /\ study'[turn'[w].study].stage = "validation" =>
             turn'[w].saw
        /\ turn'[w].at = "park" => /\ study'[turn'[w].study].stage \notin Decided
                                   /\ work'[turn'[w].study].state # "none"
    BY <1>1, Names DEF Attentive, Gentle, Decided
  <2> QED
    BY <1>1, <2>1, <2>2, <2>3, <2>4, <2>5 DEF Attentive, Steady, IsActive
<1>2. CASE turn'[w].at = "idle"
  <2>1. \A s : ~OnTurn(w, s)'
    BY <1>2 DEF OnTurn, Analyzed
  <2>2. \A x \in lost'[w] : IsActive(x[1], x[2])'
    BY Names DEF Attentive, Gentle, Steady
  <2>3. /\ pc'[w] = "handOver" => \A s \in todo'[w] : /\ study'[s].stage \notin Decided
                                                      /\ work'[s].state # "none"
        /\ \A s \in held'[w] : work'[s].state # "none"
    BY Names DEF Attentive, Gentle, Steady
  <2> QED
    BY <1>2, <2>1, <2>2, <2>3 DEF Attentive, Steady, Analyzed
<1> QED
  BY <1>1, <1>2

LEMMA WorkState ==
    ASSUME NEW r \in Work
    PROVE  /\ \A x : [r EXCEPT !.state = x].state = x
           /\ \A x, c, o : [r EXCEPT !.state = x, !.code = c, !.owner = o].state = x
  BY DEF Work

\* What happens to studies that are scheduled, while the operator only imports.
Proceed ==
    \/ \E w \in Supervisors : Step(w) \/ Analyze(w) \/ Crash(w)
    \/ \E s \in Studies : \/ Import(s)
                          \/ \E p \in Splits : RunValidation(s, p)
                          \/ \E n \in JobIds : ClaimAges(s, n)
    \/ UNCHANGED vars

\* None of it starts an optimizer that has finished.
LEMMA WorkMoves ==
    ASSUME Typed, Proceed, NEW s \in Studies
    PROVE  WorkKept(s)
<1>t. work \in [Studies -> Work] /\ work[s] \in Work
  BY Tables DEF Typed
<1>k. CASE work'[s] = work[s] \/ work'[s].state = work[s].state
  BY <1>k DEF WorkKept
<1>1. ASSUME NEW w \in Supervisors, Step(w)
      PROVE  WorkKept(s)
  <2>1. CASE Start(w)
    <3>1. work'[s] = work[s] \/ (work[s].state = "running" /\ work'[s].state # "none")
      <4> DEFINE reset == [r \in Studies |-> [work[r] EXCEPT !.state = "ready", !.code = "abandoned_claim",
                                                            !.owner = Nobody]]
      <4>1. reset[s].state = "ready"
        <5>1. [work[s] EXCEPT !.state = "ready", !.code = "abandoned_claim", !.owner = Nobody].state
                = "ready"
          BY <1>t, WorkState
        <5>2. QED
          BY <5>1
      <4>2. work' = [r \in Studies |->
                       IF /\ work[r].state = "running" /\ work[r].owner = w
                          /\ work[r].code # "awaiting_batch_evaluation"
                         THEN reset[r] ELSE work[r]]
        BY <2>1 DEF Start
      <4> HIDE DEF reset
      <4> QED
        BY <4>1, <4>2
    <3> QED
      BY <3>1 DEF WorkKept
  <2>2. CASE HandOver(w) \/ CompleteStudy(w)
    <3>1. ASSUME NEW r, Completion(r)
          PROVE  WorkKept(s)
      <4>1. work' = [work EXCEPT ![r].code = "hpo_trials_required", ![r].ready = FALSE]
              \/ work' = work
        BY <3>1 DEF Completion
      <4> QED
        BY <4>1, <1>t, <1>k DEF Work
    <3> QED
      BY <2>2, <3>1, <1>k DEF HandOver, CompleteStudy
  <2>3. CASE WriteDefaults(w)
    <3>1. PICK r : Configure(r, DefaultRoutes)
      BY <2>3 DEF WriteDefaults
    <3>2. work' = [work EXCEPT ![r].ready = TRUE, ![r].code = "none"] \/ work' = work
      BY <3>1 DEF Configure
    <3> QED
      BY <3>2, <1>t, <1>k DEF Work
  <2>4. CASE MarkUnroutable(w)
    <3>1. work'[s].state = work[s].state
      BY <2>4, <1>t DEF MarkUnroutable, Work
    <3> QED
      BY <3>1, <1>k
  <2>5. CASE Promote(w) \/ ClaimWork(w)
    <3>0. /\ [work[s] EXCEPT !.state = "ready"].state = "ready"
          /\ [work[s] EXCEPT !.state = "running", !.code = "none", !.owner = w].state = "running"
      BY <1>t, WorkState
    <3>1. work'[s] = work[s] \/ /\ work[s].state \in {"scheduled", "waiting_retry", "ready"}
                                /\ work'[s].state \in {"ready", "running"}
      <4>1. CASE Promote(w)
        BY <4>1, <1>t, <3>0 DEF Promote
      <4>2. CASE ClaimWork(w)
        BY <4>2, <1>t, <3>0 DEF ClaimWork
      <4> QED
        BY <2>5, <4>1, <4>2
    <3> QED
      BY <3>1 DEF WorkKept
  <2>6. CASE FinishWork(w)
    <3>1. work'[s] = work[s] \/ work'[s].state = "finished"
      <4>1. [work[s] EXCEPT !.state = "finished", !.code = "none", !.owner = Nobody].state
              = "finished"
        BY <1>t, WorkState
      <4> QED
        BY <2>6, <1>t, <4>1 DEF FinishWork
    <3> QED
      BY <3>1 DEF WorkKept
  <2>7. CASE \E r \in Studies : RunFails(w, r)
    <3>1. work'[s] = work[s] \/ (work[s].state = "running" /\ work'[s].state # "none")
      <4>1. PICK r \in Studies : RunFails(w, r)
        BY <2>7
      <4> DEFINE late == [work[r] EXCEPT !.state = "waiting_retry", !.code = "execution_failure",
                                         !.owner = Nobody]
                 failed == [work[r] EXCEPT !.code = "awaiting_batch_evaluation", !.owner = w]
      <4>2. late.state = "waiting_retry" /\ failed.state = work[r].state
        BY <1>t, WorkState, Tables DEF Work, Typed
      <4>3. \/ work' = work
            \/ /\ work[r].state = "running"
               /\ work' = [work EXCEPT ![r] = late] \/ work' = [work EXCEPT ![r] = failed]
        BY <4>1 DEF RunFails
      <4> HIDE DEF late, failed
      <4> QED
        BY <4>2, <4>3, <1>t
    <3> QED
      BY <3>1 DEF WorkKept
  <2> QED
    BY <1>1, <1>k, <2>1, <2>2, <2>3, <2>4, <2>5, <2>6, <2>7
       DEF Step, SelectLost, ResetLost, Reconcile, SelectDefaults, CheckDefaults, ClaimJob,
           ReadStages, StartStudy, RunCompletes
<1>2. ASSUME NEW w \in Supervisors, Analyze(w)
      PROVE  WorkKept(s)
  <2>1. CASE JudgeFailure(w)
    <3>1. work'[s] = work[s] \/ work'[s].state = "finished"
      BY <2>1, <1>t DEF JudgeFailure, Work
    <3> QED
      BY <3>1 DEF WorkKept
  <2>2. CASE ParkFailed(w)
    <3>1. PICK r : Completion(r)
      BY <2>2 DEF ParkFailed
    <3>2. work' = [work EXCEPT ![r].code = "hpo_trials_required", ![r].ready = FALSE]
            \/ work' = work
      BY <3>1 DEF Completion
    <3> QED
      BY <3>2, <1>t, <1>k DEF Work
  <2> QED
    BY <1>2, <1>k, <2>1, <2>2
       DEF Analyze, ReadPayload, Answer, FailJob, ScheduleValidations, Terminalize
<1>3. ASSUME NEW r \in Studies, Import(r)
      PROVE  WorkKept(s)
  <2>1. PICK c \in BOOLEAN : FinishImported(r, c)
    BY <1>3 DEF Import, JesseExports, OptunaStudies
  <2>2. work'[s] = work[s] \/ work'[s].state = "finished"
    BY <2>1, <1>t DEF FinishImported, Work
  <2> QED
    BY <2>2 DEF WorkKept
<1>4. CASE \E r \in Studies : \/ \E p \in Splits : RunValidation(r, p)
                              \/ \E n \in JobIds : ClaimAges(r, n)
  BY <1>4, <1>k DEF RunValidation, ClaimAges
<1>5. CASE (\E w \in Supervisors : Crash(w)) \/ UNCHANGED vars
  BY <1>5, <1>k DEF Crash, vars
<1> QED
  BY <1>1, <1>2, <1>3, <1>4, <1>5 DEF Proceed

Elsewhere(s) == \A r \in Studies : r # s => study'[r] = study[r] /\ job'[r] = job[r]

\* A hand-over leaves one active job: the one there was, or a new one.
LEMMA CompletionSettled ==
    ASSUME Typed, NEW s \in Studies, Settled(s), WorkKept(s), work[s].state # "none", Completion(s)
    PROVE  /\ Settled(s)' /\ Gentle(s) /\ Elsewhere(s)
           /\ study'[s].stage = "hpo_analysis"
<1>t. /\ TypeOK /\ study \in [Studies -> Study] /\ job \in [Studies -> [JobIds -> Job]]
      /\ study[s] \in Study /\ \A m \in JobIds : job[s][m] \in Job
  BY Tables DEF Typed
<1>n. \A m \in JobIds : m \in Nat
  BY DEF JobIds
<1>s. /\ study'[s].trials = study[s].trials /\ study'[s].selected = study[s].selected
      /\ study'[s].stage = "hpo_analysis"
      /\ \A r \in Studies : r # s => study'[r] = study[r]
  BY <1>t DEF Completion, Study
<1>q. "hpo_analysis" \notin Decided \cup {"none"} /\ "validation" \in Decided
  BY DEF Decided
<1> DEFINE Kept ==
      /\ OneActive(s)' /\ \A r \in Studies : r # s => job'[r] = job[r]
      /\ \A m \in JobIds : IsActive(s, m) => IsActive(s, m)' /\ (job'[s][m].aged => job[s][m].aged)
<1>j. Kept
  <2>1. ASSUME JobsIn(s, Active) = {}, NEW n \in JobIds, NEW b \in BOOLEAN,
               NEW x \in {"waiting_retry", "pending"},
               \A m \in JobIds : job[s][m].state = "absent" <=> m >= n,
               job' = [job EXCEPT ![s][n] = Fresh(x, b)]
        PROVE  Kept
    <3>1. /\ \A m \in JobIds : m # n => job'[s][m] = job[s][m]
          /\ \A r \in Studies : r # s => job'[r] = job[r]
      BY <2>1, <1>t
    <3>2. \A m \in JobIds : ~IsActive(s, m)
      BY <2>1 DEF JobsIn, IsActive
    <3>3. \A m \in JobIds : m # n => ~IsActive(s, m)' /\ (m > n => job'[s][m].state # "terminal")
      BY <2>1, <3>1, <3>2, <1>n DEF IsActive
    <3> QED
      BY <3>1, <3>2, <3>3, OneActiveOpened
  <2>2. ASSUME NEW n \in JobsIn(s, Active),
               job' = [job EXCEPT ![s][n] = Put(job[s][n], "waiting_retry", TRUE)]
        PROVE  Kept
    <3>0. n \in JobIds /\ IsActive(s, n)
      BY DEF JobsIn, IsActive
    <3>1. /\ job'[s][n].state = "waiting_retry" /\ job'[s][n].aged = FALSE
          /\ \A m \in JobIds : m # n => job'[s][m] = job[s][m]
          /\ \A r \in Studies : r # s => job'[r] = job[r]
      BY <2>2, <1>t, <3>0 DEF Put, Job
    <3>2. \A m \in JobIds : /\ IsActive(s, m) <=> IsActive(s, m)'
                            /\ job'[s][m].aged => job[s][m].aged
                            /\ job'[s][m].state = "terminal" => job[s][m].state = "terminal"
      BY <3>0, <3>1 DEF IsActive, Active
    <3> QED
      BY <3>1, <3>2, OneActiveKept DEF Settled
  <2>3. ASSUME job' = job
        PROVE  Kept
    <3>1. OneActive(s)
      BY DEF Settled
    <3>2. \A m \in JobIds : IsActive(s, m)' <=> IsActive(s, m)
      BY <2>3 DEF IsActive
    <3> QED
      BY <2>3, <3>1, <3>2, OneActiveKept
  <2> HIDE DEF Kept
  <2>4. \/ /\ JobsIn(s, Active) = {}
           /\ \E n \in JobIds, b \in BOOLEAN, x \in {"waiting_retry", "pending"} :
                /\ \A m \in JobIds : job[s][m].state = "absent" <=> m >= n
                /\ job' = [job EXCEPT ![s][n] = Fresh(x, b)]
        \/ \E n \in JobsIn(s, Active) :
             job' = [job EXCEPT ![s][n] = Put(job[s][n], "waiting_retry", TRUE)]
        \/ job' = job
    BY <1>t, CompletionJobs
  <2> QED
    BY <2>1, <2>2, <2>3, <2>4
<1>1. Settled(s)'
  BY <1>s, <1>q, <1>j DEF Settled, WorkKept, Decided
<1>2. Gentle(s) /\ Elsewhere(s)
  BY <1>s, <1>q, <1>j DEF Gentle, Elsewhere, WorkKept
<1> QED
  BY <1>s, <1>1, <1>2

\* An import reopens the newest job, unless that is pending or being analyzed.
LEMMA ImportSettled ==
    ASSUME Typed, NEW s \in Studies, StudyInv, Settled(s), Import(s), WorkKept(s)
    PROVE  /\ Settled(s)' /\ Gentle(s) /\ Elsewhere(s)
           /\ study[s].stage \notin Decided
<1>t. /\ TypeOK /\ study \in [Studies -> Study] /\ job \in [Studies -> [JobIds -> Job]]
      /\ work \in [Studies -> Work] /\ work[s] \in Work
      /\ study[s] \in Study /\ \A m \in JobIds : job[s][m] \in Job
  BY Tables DEF Typed
<1>n. \A m \in JobIds : m \in Nat
  BY DEF JobIds
<1>c. PICK c \in BOOLEAN : ImportTrials(s, c) /\ Reopen(s, c) /\ FinishImported(s, c)
  BY DEF Import, JesseExports, OptunaStudies
<1>g. study[s].stage \notin Decided /\ study[s].stage # "none"
  BY DEF Import, Importable, Decided
<1>s. /\ study'[s].stage = "hpo_analysis" /\ study'[s].trials = c
      /\ \A r \in Studies : r # s => study'[r] = study[r]
  BY <1>t, <1>c DEF ImportTrials
<1>w. c => work'[s].state = "finished"
  <2>1. CASE work[s].state = "finished"
    BY <2>1 DEF WorkKept
  <2>2. CASE work[s].state \in {"scheduled", "ready", "running", "waiting_retry"}
    <3>1. ASSUME c
          PROVE  \E x : work' = [work EXCEPT ![s] = [work[s] EXCEPT !.state = "finished",
                                                       !.ready = TRUE, !.code = x]]
      BY <1>c, <2>2, <3>1 DEF FinishImported
    <3>2. \A x : [work[s] EXCEPT !.state = "finished", !.ready = TRUE, !.code = x].state
                   = "finished"
      BY <1>t DEF Work
    <3> QED
      BY <3>1, <3>2, <1>t
  <2>3. work[s].state \in WorkStates \ {"none"}
    BY <1>g, <1>t DEF Settled, Work
  <2> QED
    BY <2>1, <2>2, <2>3 DEF WorkStates
<1> DEFINE known == JobsIn(s, Known)
           Kept ==
             /\ OneActive(s)' /\ \A r \in Studies : r # s => job'[r] = job[r]
             /\ \A m \in JobIds : IsActive(s, m) =>
                                    IsActive(s, m)' /\ (job'[s][m].aged => job[s][m].aged)
<1>r. \/ known = {} /\ Insert(s, Fresh("pending", FALSE))
      \/ \E n \in known : /\ \A m \in known : m <= n
                          /\ job' = [job EXCEPT ![s][n] = Put(job[s][n], "pending", FALSE)]
      \/ job' = job
  BY <1>c DEF Reopen, Known, Newest
<1>1. ASSUME known = {}, NEW n \in JobIds,
             \A m \in JobIds : job[s][m].state = "absent" <=> m >= n,
             job' = [job EXCEPT ![s][n] = Fresh("pending", FALSE)]
      PROVE  Kept
  <2>1. /\ \A m \in JobIds : m # n => job'[s][m] = job[s][m]
        /\ \A r \in Studies : r # s => job'[r] = job[r]
    BY <1>1, <1>t
  <2>2. \A m \in JobIds : ~IsActive(s, m) /\ job[s][m].state # "terminal"
    BY <1>1 DEF JobsIn, IsActive, Known
  <2>3. \A m \in JobIds : m # n => ~IsActive(s, m)' /\ (m > n => job'[s][m].state # "terminal")
    BY <2>1, <2>2 DEF IsActive
  <2> QED
    BY <2>1, <2>2, <2>3, OneActiveOpened
<1>2. ASSUME NEW n \in known, \A m \in known : m <= n,
             job' = [job EXCEPT ![s][n] = Put(job[s][n], "pending", FALSE)]
      PROVE  Kept
  <2>0. n \in JobIds
    BY DEF JobsIn
  <2>1. /\ job'[s][n].state = "pending" /\ job'[s][n].aged = FALSE
        /\ \A m \in JobIds : m # n => job'[s][m] = job[s][m]
        /\ \A r \in Studies : r # s => job'[r] = job[r]
    BY <1>2, <1>t, <2>0 DEF Put, Job
  <2>2. IsActive(s, n)' /\ \A m \in JobIds : m # n => (IsActive(s, m)' <=> IsActive(s, m))
    BY <2>1 DEF IsActive, Active
  <2>3. ASSUME NEW m \in JobIds, m # n
        PROVE  ~IsActive(s, m)' /\ (m > n => job'[s][m].state # "terminal")
    <3>1. m > n => ~IsActive(s, m) /\ job[s][m].state # "terminal"
      BY <1>2, <1>n, <2>0, <2>3 DEF JobsIn, IsActive, Known
    <3>2. m < n /\ IsActive(s, m) => ~IsActive(s, n) /\ job[s][n].state # "terminal"
      BY <2>0, <2>3, <1>n DEF Settled, OneActive
    <3>3. IsActive(s, n) \/ job[s][n].state = "terminal"
      BY DEF JobsIn, IsActive, Known
    <3> QED
      BY <3>1, <3>2, <3>3, <2>0, <2>1, <2>2, <2>3, <1>n
  <2> QED
    BY <2>0, <2>1, <2>2, <2>3, OneActiveOpened
<1>3. ASSUME job' = job
      PROVE  Kept
  <2>1. OneActive(s)
    BY DEF Settled
  <2>2. \A m \in JobIds : IsActive(s, m)' <=> IsActive(s, m)
    BY <1>3 DEF IsActive
  <2> QED
    BY <1>3, <2>1, <2>2, OneActiveKept
<1>k. Kept
  <2> HIDE DEF Kept
  <2> QED
    BY <1>r, <1>1, <1>2, <1>3 DEF Insert
<1>4. Settled(s)'
  BY <1>s, <1>w, <1>k, <1>g DEF Settled, WorkKept, Decided
<1>5. Gentle(s) /\ Elsewhere(s)
  BY <1>s, <1>k DEF Gentle, Elsewhere, WorkKept, Decided
<1> QED
  BY <1>g, <1>4, <1>5

\* What a step does to the studies when it decides none.
Quietly == \A s \in Studies : Settled(s)' /\ Gentle(s)

LEMMA NothingMoved ==
    ASSUME \A s \in Studies : Settled(s), UNCHANGED <<study, job>>,
           \A s \in Studies : WorkKept(s)
    PROVE  Quietly
<1>1. ASSUME NEW s \in Studies
      PROVE  Settled(s)' /\ Gentle(s)
  <2>1. Settled(s)'
    BY SettledKept
  <2>2. Gentle(s)
    BY DEF Gentle, IsActive, WorkKept
  <2> QED
    BY <2>1, <2>2
<1> QED
  BY <1>1 DEF Quietly

\* One study changes.
LEMMA OneMoved ==
    ASSUME \A s \in Studies : Settled(s), \A s \in Studies : WorkKept(s),
           NEW s \in Studies, Settled(s)', Gentle(s), Elsewhere(s)
    PROVE  Quietly
<1>1. ASSUME NEW r \in Studies, r # s
      PROVE  Settled(r)' /\ Gentle(r)
  <2>1. study'[r] = study[r] /\ job'[r] = job[r]
    BY <1>1 DEF Elsewhere
  <2>2. Settled(r)'
    BY <2>1, SettledKept
  <2>3. Gentle(r)
    BY <2>1 DEF Gentle, IsActive, WorkKept
  <2> QED
    BY <2>2, <2>3
<1> QED
  BY <1>1 DEF Quietly

\* Jobs keep their states, but active ones may change among those.
LEMMA JobsMoved ==
    ASSUME NEW s \in Studies, Settled(s), WorkKept(s), study'[s] = study[s],
           \A m \in JobIds :
              \/ /\ job'[s][m].state = job[s][m].state
                 /\ job'[s][m].aged => job[s][m].aged \/ ~IsActive(s, m)
              \/ IsActive(s, m) /\ IsActive(s, m)' /\ ~job'[s][m].aged
    PROVE  Settled(s)' /\ Gentle(s)
<1>1. \A m \in JobIds :
         /\ IsActive(s, m)' <=> IsActive(s, m)
         /\ job'[s][m].state = "terminal" => job[s][m].state = "terminal"
         /\ job'[s][m].state = "absent" <=> job[s][m].state = "absent"
  BY DEF IsActive, Active
<1>2. OneActive(s)'
  BY <1>1, OneActiveKept DEF Settled
<1>3. Settled(s)'
  BY <1>1, <1>2 DEF Settled, WorkKept
<1> QED
  BY <1>1, <1>3 DEF Gentle, WorkKept

\* The main thread decides nothing.
LEMMA StepQuietly ==
    ASSUME JobsInv, \A s \in Studies : Settled(s), NEW w \in Supervisors, Attentive(w), Step(w)
    PROVE  /\ Quietly
           /\ \A s \in Studies : study[s].stage \in Decided /\ study'[s].stage # study[s].stage =>
                                    s \in held[w]
<1> DEFINE Stands == \A s \in Studies :
             study[s].stage \in Decided /\ study'[s].stage # study[s].stage => s \in held[w]
<1>t. /\ Typed /\ study \in [Studies -> Study] /\ job \in [Studies -> [JobIds -> Job]]
      /\ \A s \in Studies : study[s] \in Study /\ \A n \in JobIds : job[s][n] \in Job
      /\ todo[w] \subseteq Studies /\ \A x \in lost[w] : x[1] \in Studies /\ x[2] \in JobIds
  BY Tables, Names DEF Typed, JobsInv
<1>w. \A s \in Studies : WorkKept(s)
  BY <1>t, WorkMoves DEF Proceed
<1>1. CASE UNCHANGED <<study, job>>
  BY <1>1, <1>w, NothingMoved
<1>2. ASSUME NEW s \in Studies, Completion(s), work[s].state # "none",
             study[s].stage \notin Decided \/ s \in held[w]
      PROVE  Quietly /\ Stands
  <2>1. Settled(s)' /\ Gentle(s) /\ Elsewhere(s)
    BY <1>2, <1>t, <1>w, CompletionSettled
  <2>2. Quietly
    BY <2>1, <1>w, OneMoved
  <2>3. Stands
    BY <2>1, <1>2 DEF Elsewhere
  <2> QED
    BY <2>2, <2>3
<1>3. CASE HandOver(w)
  <2>1. \A s \in todo[w] : study[s].stage \notin Decided /\ work[s].state # "none"
    BY <1>3 DEF HandOver, At, Attentive
  <2>2. CASE \E s \in todo[w] : Completion(s)
    <3>1. PICK s \in todo[w] : Completion(s)
      BY <2>2
    <3>2. s \in Studies /\ study[s].stage \notin Decided /\ work[s].state # "none"
      BY <2>1, <1>t
    <3> QED
      BY <3>1, <3>2, <1>2
  <2>3. CASE ~ \E s \in todo[w] : Completion(s)
    <3>1. UNCHANGED <<study, job>>
      BY <2>3, <1>3 DEF HandOver
    <3> QED
      BY <3>1, <1>1
  <2> QED
    BY <2>2, <2>3
<1>4. CASE CompleteStudy(w)
  <2>1. PICK s \in todo[w] : Completion(s)
    BY <1>4 DEF CompleteStudy
  <2>2. s \in held[w] /\ work[s].state # "none" /\ s \in Studies
    BY <1>4, <1>t DEF CompleteStudy, At, Attentive
  <2> QED
    BY <2>1, <2>2, <1>2
<1>5. CASE ResetLost(w)
  <2>1. study' = study
    BY <1>5 DEF ResetLost
  <2>2. ASSUME NEW s \in Studies, NEW m \in JobIds
        PROVE  \/ job'[s][m] = job[s][m]
               \/ IsActive(s, m) /\ IsActive(s, m)' /\ ~job'[s][m].aged
    <3>1. Put(job[s][m], "pending", FALSE).state = "pending"
          /\ Put(job[s][m], "pending", FALSE).aged = FALSE
      BY <1>t DEF Put, Job
    <3>2. <<s, m>> \in lost[w] => IsActive(s, m)
      BY DEF Attentive
    <3>3. job'[s][m] = IF <<s, m>> \in lost[w] THEN Put(job[s][m], "pending", FALSE)
                                               ELSE job[s][m]
      BY <1>5 DEF ResetLost
    <3> QED
      BY <3>1, <3>2, <3>3 DEF IsActive, Active
  <2>3. \A s \in Studies : Settled(s)' /\ Gentle(s)
    BY <2>1, <2>2, <1>w, JobsMoved
  <2> QED
    BY <2>1, <2>3 DEF Quietly
<1>6. CASE ClaimJob(w)
  <2>1. study' = study
    BY <1>6 DEF ClaimJob
  <2>2. CASE \E s \in Studies, n \in JobIds : /\ Claimable(s, n)
                                              /\ job' = [job EXCEPT ![s][n] = Claimed(@)]
    <3>1. PICK s \in Studies, n \in JobIds :
                 Claimable(s, n) /\ job' = [job EXCEPT ![s][n] = Claimed(job[s][n])]
      BY <2>2
    <3>2. /\ Claimed(job[s][n]).state = "running" /\ Claimed(job[s][n]).aged = FALSE
          /\ IsActive(s, n)
      BY <3>1, <1>t DEF Claimable, Claimed, Job, IsActive, Active
    <3>3. /\ job'[s][n].state = "running" /\ job'[s][n].aged = FALSE
          /\ \A m \in JobIds : m # n => job'[s][m] = job[s][m]
          /\ \A r \in Studies : r # s => job'[r] = job[r]
      BY <3>1, <3>2, <1>t
    <3>4. Settled(s)' /\ Gentle(s)
      <4>1. IsActive(s, n)'
        BY <3>3 DEF IsActive, Active
      <4> QED
        BY <4>1, <3>2, <3>3, <2>1, <1>w, JobsMoved
    <3>5. Elsewhere(s)
      BY <3>3, <2>1 DEF Elsewhere
    <3> QED
      BY <3>4, <3>5, <2>1, <1>w, OneMoved
  <2> QED
    BY <2>2, <1>1, <1>6 DEF ClaimJob
<1>7. CASE MarkUnroutable(w) \/ StartStudy(w)
  <2>1. job' = job
    BY <1>7 DEF MarkUnroutable, StartStudy
  <2>0. ASSUME NEW s \in Studies
        PROVE  \/ study'[s] = study[s]
               \/ /\ study[s].stage \in {"hpo_scheduled", "hpo_running"}
                  /\ \E x \in {"hpo_scheduled", "hpo_running"} :
                        study'[s] = [study[s] EXCEPT !.stage = x]
    BY <1>7, <1>t DEF MarkUnroutable, StartStudy
  <2>2. ASSUME NEW s \in Studies, study'[s].stage # study[s].stage
        PROVE  /\ study[s].stage \in {"hpo_scheduled", "hpo_running"}
               /\ study'[s].stage \in {"hpo_scheduled", "hpo_running"}
    BY <2>0, <2>2, <1>t DEF Study
  <2>3. ASSUME NEW s \in Studies
        PROVE  study'[s].trials = study[s].trials /\ study'[s].selected = study[s].selected
    BY <2>0, <1>t DEF Study
  <2>4. ASSUME NEW s \in Studies
        PROVE  Settled(s)' /\ Gentle(s)
    <3>1. \A m \in JobIds : IsActive(s, m)' <=> IsActive(s, m)
      BY <2>1 DEF IsActive
    <3>2. OneActive(s)'
      BY <3>1, <2>1, OneActiveKept DEF Settled
    <3>3. CASE study'[s].stage = study[s].stage
      BY <3>1, <3>2, <3>3, <2>1, <2>3, <1>w DEF Settled, Gentle, WorkKept
    <3>4. CASE study'[s].stage # study[s].stage
      BY <3>1, <3>2, <3>4, <2>1, <2>2, <2>3, <1>w DEF Settled, Gentle, WorkKept, Decided
    <3> QED
      BY <3>3, <3>4
  <2>5. Stands
    BY <2>2 DEF Decided
  <2> QED
    BY <2>4, <2>5 DEF Quietly
<1> QED
  BY <1>1, <1>3, <1>4, <1>5, <1>6, <1>7
     DEF Step, Start, SelectLost, Reconcile, SelectDefaults, CheckDefaults, WriteDefaults,
         Promote, ClaimWork, ReadStages, RunCompletes, RunFails, FinishWork

\* What the invariant reads of the thread when the main one takes a step.
LEMMA StepAttentive ==
    ASSUME JobsInv, \A s \in Studies : Settled(s), NEW w \in Supervisors, Attentive(w), Step(w),
           Quietly
    PROVE  Attentive(w)'
<1>t. /\ Typed /\ pc \in [Supervisors -> PCs] /\ lost \in [Supervisors -> SUBSET (Studies \X JobIds)]
      /\ todo \in [Supervisors -> SUBSET Studies] /\ held \in [Supervisors -> SUBSET Studies]
      /\ turn \in [Supervisors -> Turn]
      /\ job \in [Studies -> [JobIds -> Job]] /\ work \in [Studies -> Work]
  BY Tables, Locals DEF JobsInv, Typed, MainType
<1>l. pc[w] # "reset" => lost[w] = {}
  BY DEF Attentive
<1>q. \A s \in Studies : Gentle(s)
  BY DEF Quietly
<1>k. ASSUME turn'[w] = turn[w], Steady(w)
      PROVE  Attentive(w)'
  BY <1>k, <1>q, <1>t, AttentiveKept
<1>n. turn[w].at \in Analyzed => turn[w].study \in Studies /\ turn[w].id \in JobIds
  BY <1>t, Names DEF Analyzed
<1>1. CASE SelectLost(w)
  <2>1. /\ pc'[w] = "reset" /\ turn' = turn /\ held' = held /\ UNCHANGED <<study, work, job>>
        /\ lost'[w] = {x \in Studies \X JobIds : LET j == job[x[1]][x[2]]
                                                 IN  j.state = "running" /\ j.aged}
    BY <1>1, <1>t DEF SelectLost, Goto
  <2>2. ASSUME NEW x \in lost'[w]
        PROVE  IsActive(x[1], x[2])' /\ ~OnTurn(w, x[1])'
    <3>1. /\ x[1] \in Studies /\ x[2] \in JobIds
          /\ job[x[1]][x[2]].state = "running" /\ job[x[1]][x[2]].aged
      BY <2>1
    <3>2. IsActive(x[1], x[2])
      BY <3>1 DEF IsActive, Active
    <3>3. CASE OnTurn(w, x[1])
      <4>1. /\ turn[w].id \in JobIds /\ IsActive(x[1], turn[w].id)
            /\ ~job[x[1]][turn[w].id].aged
        BY <3>3, <1>n DEF OnTurn, Attentive
      <4>2. turn[w].id # x[2]
        BY <4>1, <3>1
      <4> QED
        BY <4>1, <4>2, <3>1, <3>2 DEF Settled, OneActive
    <3> QED
      BY <3>2, <3>3, <2>1 DEF IsActive, OnTurn
  <2> QED
    BY <2>1, <2>2 DEF Attentive, IsActive
<1>2. CASE Reconcile(w)
  <2>1. /\ pc[w] = "reconcile" /\ pc'[w] = "handOver" /\ UNCHANGED <<study, work, job, turn, lost, held>>
        /\ todo'[w] = {s \in Studies : study[s].stage = "hpo_running" /\ work[s].state = "finished"}
    BY <1>2, <1>t DEF Reconcile, Goto, At
  <2>2. ASSUME NEW s \in todo'[w]
        PROVE  study[s].stage \notin Decided /\ ~OnTurn(w, s) /\ work[s].state # "none"
    <3>1. s \in Studies /\ study[s].stage = "hpo_running" /\ work[s].state = "finished"
      BY <2>1
    <3>2. ASSUME OnTurn(w, s)
          PROVE  FALSE
      <4>1. turn[w].id \in JobIds /\ job[s][turn[w].id].state # "absent"
        BY <3>2, <1>n DEF OnTurn, Attentive, IsActive, Active
      <4> QED
        BY <4>1, <3>1 DEF Settled, Decided
    <3> QED
      BY <3>1, <3>2 DEF Decided
  <2>3. lost'[w] = {}
    BY <2>1, <1>l
  <2> QED
    BY <2>1, <2>2, <2>3 DEF Attentive, IsActive, OnTurn
<1>3. CASE \E s \in Studies : RunCompletes(w, s)
  <2>1. PICK s \in Studies : RunCompletes(w, s)
    BY <1>3
  <2>2. /\ pc[w] = "execute" /\ pc'[w] = "complete" /\ todo'[w] = {s} /\ s \in held[w]
        /\ UNCHANGED <<study, work, job, turn, lost, held>>
    BY <2>1, <1>t DEF RunCompletes, Goto, At
  <2>3. lost'[w] = {}
    BY <2>2, <1>l
  <2> QED
    BY <2>2, <2>3 DEF Attentive, IsActive, OnTurn
<1>4. CASE ClaimJob(w)
  <2>1. /\ pc[w] = "claimJob" /\ pc'[w] = "claim" /\ UNCHANGED <<study, work, todo, lost, held>>
    BY <1>4, <1>t DEF ClaimJob, Goto, At
  <2>2. CASE turn' = turn
    BY <2>1, <2>2, <1>k, <1>l DEF Steady
  <2>3. CASE \E s \in Studies, n \in JobIds :
                /\ Claimable(s, n) /\ job' = [job EXCEPT ![s][n] = Claimed(@)]
                /\ turn' = [turn EXCEPT ![w] = Doing("payload", s, n)]
    <3>1. PICK s \in Studies, n \in JobIds :
                /\ Claimable(s, n) /\ job' = [job EXCEPT ![s][n] = Claimed(job[s][n])]
                /\ turn' = [turn EXCEPT ![w] = Doing("payload", s, n)]
      BY <2>3
    <3>2. /\ Claimed(job[s][n]).state = "running" /\ Claimed(job[s][n]).aged = FALSE
      BY <1>t DEF Claimed, Job
    <3>3. job'[s][n].state = "running" /\ job'[s][n].aged = FALSE
      BY <3>1, <3>2, <1>t
    <3>4. turn'[w].at = "payload" /\ turn'[w].study = s /\ turn'[w].id = n
      BY <3>1, <1>t DEF Doing
    <3>5. lost'[w] = {}
      BY <2>1, <1>l
    <3> QED
      BY <2>1, <3>3, <3>4, <3>5 DEF Attentive, IsActive, Active
  <2> QED
    BY <1>4, <2>2, <2>3 DEF ClaimJob
<1>5. CASE ClaimWork(w)
  <2>1. PICK S \in SUBSET {s \in Studies : work[s].state = "ready" /\ work[s].ready} :
           /\ work' = [s \in Studies |->
                         IF s \in S THEN [work[s] EXCEPT !.state = "running", !.code = "none",
                                                         !.owner = w]
                                    ELSE work[s]]
           /\ held' = [held EXCEPT ![w] = S]
           /\ Goto(w, IF S = {} THEN "recover" ELSE "read")
    BY <1>5 DEF ClaimWork
  <2>2. /\ pc[w] = "claim" /\ pc'[w] \in {"recover", "read"} /\ UNCHANGED <<study, job, turn, lost>>
    BY <1>5, <2>1, <1>t DEF ClaimWork, Goto, At
  <2>3. \A s \in held'[w] : work'[s].state # "none"
    <3>1. \A s \in Studies : work[s].state # "none" => work'[s].state # "none"
      BY <1>q DEF Gentle
    <3> QED
      BY <3>1, <2>1, <1>t
  <2>4. lost'[w] = {}
    BY <2>2, <1>l
  <2>5. turn[w].at = "park" => work'[turn[w].study].state # "none"
    BY <1>q, <1>t, Names DEF Gentle, Attentive
  <2> QED
    BY <2>2, <2>3, <2>4, <2>5 DEF Attentive, IsActive, OnTurn
<1>6. CASE HandOver(w)
  <2>1. /\ pc[w] = "handOver" /\ pc'[w] \in {"handOver", "defaults"} /\ todo'[w] \subseteq todo[w]
        /\ UNCHANGED <<turn, lost, held>>
    BY <1>6, <1>t DEF HandOver, Goto, At
  <2> QED
    BY <2>1, <1>k, <1>l DEF Steady
<1>7. CASE Start(w) \/ SelectDefaults(w) \/ WriteDefaults(w) \/ MarkUnroutable(w) \/ Promote(w)
           \/ ReadStages(w) \/ CompleteStudy(w)
  <2>1. /\ pc[w] # "reset" /\ pc'[w] \notin {"handOver", "complete"} /\ UNCHANGED <<turn, lost, held>>
    BY <1>7, <1>t DEF Start, SelectDefaults, WriteDefaults, MarkUnroutable, Promote, ReadStages,
                      CompleteStudy, Goto, At
  <2> QED
    BY <2>1, <1>k, <1>l DEF Steady
<1>8. CASE ResetLost(w)
  <2>1. pc'[w] = "reconcile" /\ lost'[w] = {} /\ UNCHANGED <<turn, held>>
    BY <1>8, <1>t DEF ResetLost, Goto
  <2> QED
    BY <2>1, <1>k DEF Steady
<1>9. CASE CheckDefaults(w) \/ StartStudy(w) \/ FinishWork(w) \/ \E s \in Studies : RunFails(w, s)
  <2>1. pc[w] # "reset" /\ turn' = turn
    BY <1>9 DEF CheckDefaults, StartStudy, FinishWork, RunFails, At
  <2>2. CASE Exit(w)
    <3>1. pc'[w] = "down" /\ lost'[w] = {} /\ held'[w] = {}
      BY <2>2, <1>t DEF Exit, Goto
    <3> QED
      BY <2>1, <3>1, <1>k DEF Steady
  <2>3. CASE ~Exit(w)
    <3>1. /\ pc'[w] = pc[w] \/ pc'[w] \in {"write", "mark", "execute", "recover"}
          /\ pc[w] \in {"configure", "start", "finish", "execute"}
          /\ lost' = lost /\ held'[w] \subseteq held[w]
      <4>1. CASE CheckDefaults(w)
        BY <4>1, <2>3, <1>t DEF CheckDefaults, Goto, At
      <4>2. CASE StartStudy(w)
        BY <4>2, <2>3, <1>t DEF StartStudy, Goto, At
      <4>3. ASSUME NEW s \in Studies, Settle(w, s)
            PROVE  pc'[w] \in {"execute", "recover"} /\ held'[w] \subseteq held[w]
        BY <4>3, <1>t DEF Settle, Goto
      <4>4. CASE FinishWork(w)
        <5>1. PICK s \in Studies : Settle(w, s) /\ lost' = lost
          BY <4>4, <2>3, <1>t DEF FinishWork
        <5> QED
          BY <4>3, <4>4, <5>1 DEF FinishWork, At
      <4>5. CASE \E s \in Studies : RunFails(w, s)
        <5>1. PICK s \in Studies : Settle(w, s) /\ lost' = lost
          BY <4>5, <2>3 DEF RunFails
        <5> QED
          BY <4>3, <4>5, <5>1 DEF RunFails, At
      <4> QED
        BY <1>9, <4>1, <4>2, <4>4, <4>5
    <3> QED
      BY <2>1, <3>1, <1>k, <1>l DEF Steady
  <2> QED
    BY <2>2, <2>3
<1> QED
  BY <1>1, <1>2, <1>3, <1>4, <1>5, <1>6, <1>7, <1>8, <1>9 DEF Step

\* The analysis thread is done with the study it was working on.
LEMMA TurnEnds ==
    ASSUME Typed, NEW w \in Supervisors, Attentive(w), turn[w].at \in Analyzed,
           turn'[w].at = "idle", UNCHANGED main, UNCHANGED work,
           \A r \in Studies : r # turn[w].study => study'[r] = study[r] /\ job'[r] = job[r]
    PROVE  Attentive(w)'
<1>1. /\ \A x \in lost[w] : x[1] \in Studies /\ x[1] # turn[w].study
      /\ pc[w] = "handOver" => \A s \in todo[w] : s \in Studies /\ s # turn[w].study
  BY Names DEF Attentive, OnTurn
<1>2. pc' = pc /\ lost' = lost /\ todo' = todo /\ held' = held
  BY DEF main
<1> QED
  BY <1>1, <1>2 DEF Attentive, IsActive, OnTurn, Analyzed

\* What the analysis thread does: it decides a study that is not decided, or
\* schedules the validations of its selection once more.
LEMMA AnalyzeStands ==
    ASSUME JobsInv, \A s \in Studies : Settled(s), NEW w \in Supervisors, Attentive(w), Analyze(w)
    PROVE  /\ \A s \in Studies : Settled(s)'
           /\ Attentive(w)'
           /\ \A s \in Studies : study[s].stage \in Decided => study'[s].stage = study[s].stage
<1> DEFINE Stands == \A s \in Studies :
                        study[s].stage \in Decided => study'[s].stage = study[s].stage
           Goal == /\ \A s \in Studies : Settled(s)'
                   /\ Attentive(w)' /\ Stands
<1>t. /\ Typed /\ study \in [Studies -> Study] /\ job \in [Studies -> [JobIds -> Job]]
      /\ work \in [Studies -> Work] /\ turn \in [Supervisors -> Turn] /\ turn[w] \in Turn
      /\ \A s \in Studies : study[s] \in Study /\ \A n \in JobIds : job[s][n] \in Job
  BY Tables, Names DEF Typed, JobsInv, TurnOK
<1>w. \A s \in Studies : WorkKept(s)
  BY <1>t, WorkMoves DEF Proceed
<1>m. UNCHANGED main
  BY DEF Analyze, JudgeFailure, ParkFailed, ReadPayload, Answer, FailJob, ScheduleValidations,
         Terminalize
<1>s. Steady(w)
  BY <1>m DEF Steady, main
<1>d. turn[w].at = "decide" => study[turn[w].study].trials
  BY DEF JobsInv, NamedInv
<1>n. turn[w].at \in Analyzed =>
         /\ turn[w].study \in Studies /\ turn[w].id \in JobIds
         /\ IsActive(turn[w].study, turn[w].id)
         /\ job[turn[w].study][turn[w].id].state # "absent"
         /\ study[turn[w].study].stage \in {"hpo_analysis", "validation"}
  <2>1. turn[w].at \in Analyzed =>
           /\ turn[w].study \in Studies /\ turn[w].id \in JobIds
           /\ IsActive(turn[w].study, turn[w].id)
    BY <1>t, Names DEF Analyzed, Attentive
  <2> QED
    BY <2>1 DEF Settled, IsActive, Active, Decided
<1>i. UNCHANGED <<study, job>> => Quietly /\ Stands
  BY <1>w, NothingMoved
<1>1. CASE JudgeFailure(w)
  <2>1. PICK s \in Studies : /\ work[s].state = "running"
                             /\ turn' = [turn EXCEPT ![w] = Doing("park", s, 0)]
                             /\ work' = [work EXCEPT ![s] = [@ EXCEPT !.state = "finished",
                                           !.code = "none", !.owner = Nobody]]
    BY <1>1 DEF JudgeFailure, Think
  <2>2. UNCHANGED <<study, job>>
    BY <1>1 DEF JudgeFailure
  <2>3. turn'[w].at = "park" /\ turn'[w].study = s
    BY <2>1, <1>t DEF Doing
  <2>4. study[s].stage \notin Decided
    BY <2>1 DEF Settled
  <2>5. \A r \in Studies : work[r].state # "none" => work'[r].state # "none"
    BY <1>w DEF WorkKept
  <2>6. todo[w] \subseteq Studies /\ held[w] \subseteq Studies
    BY <1>t, Names
  <2>7. Attentive(w)'
    BY <2>1, <2>2, <2>3, <2>4, <2>5, <2>6, <1>m DEF Attentive, main, IsActive, OnTurn, Analyzed
  <2> QED
    BY <2>2, <2>7, <1>i DEF Quietly
<1>2. CASE ParkFailed(w)
  <2>1. PICK s \in Studies : s = turn[w].study
    BY <1>2, <1>t, Names DEF ParkFailed, Turning
  <2>2. /\ Completion(s) /\ study[s].stage \notin Decided /\ work[s].state # "none"
        /\ turn'[w].at = "idle"
    BY <1>2, <2>1, <1>t, IdleType DEF ParkFailed, Turning, Attentive, Think
  <2>3. Settled(s)' /\ Gentle(s) /\ Elsewhere(s)
    BY <2>2, <1>t, <1>w, CompletionSettled
  <2>4. Quietly
    BY <2>3, <1>w, OneMoved
  <2>5. Attentive(w)'
    BY <2>2, <2>4, <1>t, <1>s, AttentiveKept DEF Quietly
  <2>6. Stands
    BY <2>2, <2>3 DEF Elsewhere
  <2> QED
    BY <2>4, <2>5, <2>6 DEF Quietly
<1>3. CASE ReadPayload(w) \/ Answer(w)
  <2>1. UNCHANGED <<study, job, work>>
    BY <1>3 DEF ReadPayload, Answer
  <2>2. turn[w].at \in {"payload", "dispatch"}
    BY <1>3 DEF ReadPayload, Answer, Turning
  <2>3. /\ turn'[w].at \in Analyzed
        /\ turn'[w].study = turn[w].study /\ turn'[w].id = turn[w].id
        /\ turn'[w].at \in {"dispatch", "decide"} =>
              turn'[w].saw = IF turn[w].at = "payload" THEN study[turn[w].study].selected
                                                       ELSE turn[w].saw
    <3>1. CASE ReadPayload(w)
      BY <3>1, <1>t DEF ReadPayload, Think, Turning, Turn, Analyzed
    <3>2. CASE Answer(w)
      BY <3>2, <1>t DEF Answer, Think, Turning, Turn, Analyzed
    <3> QED
      BY <1>3, <3>1, <3>2
  <2>4. study[turn[w].study].stage = "validation" => study[turn[w].study].selected
    BY <1>n, <2>2 DEF Settled, Analyzed
  <2>5. Attentive(w)'
    BY <2>1, <2>2, <2>3, <2>4, <1>m DEF Attentive, main, IsActive, OnTurn, Analyzed
  <2> QED
    BY <2>1, <2>5, <1>i DEF Quietly
<1>4. CASE FailJob(w)
  <2>1. PICK s \in Studies, n \in JobIds :
           /\ s = turn[w].study /\ n = turn[w].id /\ IsActive(s, n) /\ turn[w].at \in Analyzed
           /\ job[s][n].state # "absent"
    BY <1>4, <1>n DEF FailJob, Turning, Analyzed
  <2> DEFINE x == IF job[s][n].attempts >= MaxAnalyses THEN "terminal" ELSE "waiting_retry"
             j == Put(job[s][n], x, FALSE)
  <2>2. j.state = x /\ x \in {"terminal", "waiting_retry"}
    BY <1>t DEF Put, Job
  <2>3. /\ job' = [job EXCEPT ![s][n] = j] /\ study' = study /\ work' = work
        /\ turn'[w].at = "idle"
    BY <1>4, <2>1, <1>t, IdleType DEF FailJob, Think
  <2> HIDE DEF j, x
  <2>4. /\ job'[s][n].state \in {"terminal", "waiting_retry"}
        /\ \A m \in JobIds : m # n => job'[s][m] = job[s][m]
        /\ \A r \in Studies : r # s => job'[r] = job[r]
    BY <2>2, <2>3, <1>t
  <2>5. /\ \A m \in JobIds : /\ IsActive(s, m)' => IsActive(s, m)
                             /\ job'[s][m].state = "terminal" =>
                                   job[s][m].state = "terminal" \/ IsActive(s, m)
                             /\ job'[s][m].state # "absent" => job[s][m].state # "absent"
    BY <2>1, <2>4 DEF IsActive
  <2>6. Settled(s)'
    <3>1. OneActive(s)'
      BY <2>5, OneActiveKept DEF Settled
    <3> QED
      BY <3>1, <2>3, <2>5 DEF Settled
  <2>7. \A r \in Studies : r # s => Settled(r)'
    BY <2>3, <2>4, <1>w, SettledKept
  <2>8. Attentive(w)'
    BY <2>1, <2>3, <2>4, <1>t, <1>m, TurnEnds
  <2> QED
    BY <2>3, <2>6, <2>7, <2>8
<1>5. CASE ScheduleValidations(w)
  <2>1. PICK s \in Studies : /\ s = turn[w].study /\ turn[w].at \in Analyzed
                             /\ study[s].trials /\ study[s].stage \in {"hpo_analysis", "validation"}
    BY <1>5, <1>n, <1>d DEF ScheduleValidations, Turning, Analyzed
  <2>2. turn'[w].at = "idle" /\ work' = work
    BY <1>5, <1>t, IdleType DEF ScheduleValidations, Think
  <2>3. CASE UNCHANGED <<study, job>>
    <3>1. Attentive(w)'
      BY <2>2, <2>3, <1>i, <1>t, <1>s, AttentiveKept DEF Quietly
    <3> QED
      BY <3>1, <2>3, <1>i DEF Quietly
  <2>4. CASE /\ study[s].selected
             /\ study' = [study EXCEPT ![s].stage = "validation"]
             /\ job' = [job EXCEPT ![s] = [m \in JobIds |->
                  IF job[s][m].state = "running" THEN Put(job[s][m], "completed", FALSE)
                                                 ELSE job[s][m]]]
    <3>1. /\ study'[s].stage = "validation" /\ study'[s].trials = study[s].trials
          /\ study'[s].selected = study[s].selected
          /\ \A r \in Studies : r # s => study'[r] = study[r] /\ job'[r] = job[r]
      BY <2>4, <1>t DEF Study
    <3>2. ASSUME NEW m \in JobIds
          PROVE  job'[s][m] = job[s][m] \/ job'[s][m].state = "completed"
      <4>1. Put(job[s][m], "completed", FALSE).state = "completed"
        BY <1>t DEF Put, Job
      <4> QED
        BY <4>1, <2>4, <1>t
    <3>3. OneActive(s)'
      BY <3>2, OneActiveKept DEF Settled, IsActive, Active
    <3>4. Settled(s)'
      BY <3>1, <3>3, <2>1, <2>2, <2>4 DEF Settled, Decided
    <3>5. \A r \in Studies : r # s => Settled(r)'
      BY <3>1, <1>w, SettledKept
    <3>6. Attentive(w)'
      BY <2>1, <2>2, <3>1, <1>t, <1>m, TurnEnds
    <3>7. Stands
      BY <2>1, <3>1 DEF Decided
    <3> QED
      BY <3>4, <3>5, <3>6, <3>7
  <2> QED
    BY <1>5, <2>1, <2>3, <2>4 DEF ScheduleValidations
<1>6. CASE Terminalize(w)
  <2>1. PICK s \in Studies, n \in JobIds :
           /\ s = turn[w].study /\ n = turn[w].id /\ IsActive(s, n) /\ turn[w].at \in Analyzed
           /\ study[s].trials /\ study[s].stage = "hpo_analysis"
    BY <1>6, <1>n, <1>d DEF Terminalize, Turning, Analyzed, Attentive
  <2> DEFINE j == Put(job[s][n], "completed", FALSE)
  <2>2. j.state = "completed"
    BY <1>t DEF Put, Job
  <2>3. PICK x \in {"revise", "reject"} : study' = [study EXCEPT ![s].stage = x]
    BY <1>6, <2>1 DEF Terminalize
  <2>4. /\ job' = [job EXCEPT ![s][n] = j] /\ work' = work /\ turn'[w].at = "idle"
    BY <1>6, <2>1, <1>t, IdleType DEF Terminalize, Think
  <2> HIDE DEF j
  <2>5. /\ study'[s].stage = x /\ study'[s].trials = study[s].trials
        /\ \A r \in Studies : r # s => study'[r] = study[r] /\ job'[r] = job[r]
        /\ job'[s][n].state = "completed"
        /\ \A m \in JobIds : m # n => job'[s][m] = job[s][m]
    BY <2>2, <2>3, <2>4, <1>t DEF Study
  <2>6. \A m \in JobIds : ~IsActive(s, m)'
    BY <2>1, <2>5 DEF Settled, OneActive, IsActive, Active
  <2>7. Settled(s)'
    BY <2>1, <2>3, <2>4, <2>5, <2>6 DEF Settled, Decided, OneActive
  <2>8. \A r \in Studies : r # s => Settled(r)'
    BY <2>5, <1>w, SettledKept
  <2>9. Attentive(w)'
    BY <2>1, <2>4, <2>5, <1>t, <1>m, TurnEnds
  <2>10. Stands
    BY <2>1, <2>5 DEF Decided
  <2> QED
    BY <2>7, <2>8, <2>9, <2>10
<1> QED
  BY <1>1, <1>2, <1>3, <1>4, <1>5, <1>6 DEF Analyze

\* A claim that ages is one no thread works on.
LEMMA AgedStands ==
    ASSUME Typed, \A s \in Studies : Settled(s), NEW w \in Supervisors, Attentive(w),
           NEW s \in Studies, NEW n \in JobIds, ClaimAges(s, n), ~Analyzing(s, n)
    PROVE  (\A r \in Studies : Settled(r)') /\ Attentive(w)'
<1>t. /\ job \in [Studies -> [JobIds -> Job]] /\ \A m \in JobIds : job[s][m] \in Job
  BY Tables DEF Typed
<1>1. /\ \A m \in JobIds : job'[s][m].state = job[s][m].state
      /\ \A m \in JobIds : m # n => job'[s][m] = job[s][m]
      /\ \A r \in Studies : r # s => job'[r] = job[r]
      /\ UNCHANGED <<study, work, main, turn>>
  BY <1>t DEF ClaimAges, Job
<1>2. Settled(s)'
  <2>1. \A m \in JobIds : IsActive(s, m)' <=> IsActive(s, m)
    BY <1>1 DEF IsActive
  <2>2. OneActive(s)'
    BY <1>1, <2>1, OneActiveKept DEF Settled
  <2> QED
    BY <1>1, <2>1, <2>2 DEF Settled
<1>3. ASSUME NEW r \in Studies, r # s
      PROVE  Settled(r)'
  BY <1>1, <1>3, SettledKept DEF WorkKept
<1>4. ASSUME NEW r \in Studies, NEW m \in JobIds
      PROVE  /\ IsActive(r, m) => IsActive(r, m)'
             /\ r # s \/ m # n => job'[r][m] = job[r][m]
  BY <1>1 DEF IsActive
<1>5. turn[w].at \in Analyzed => /\ turn[w].study \in Studies /\ turn[w].id \in JobIds
                                 /\ turn[w].study # s \/ turn[w].id # n
  BY Names DEF Analyzing, Analyzed
<1>6. Attentive(w)'
  <2>0. UNCHANGED <<turn, study, work, pc, lost, todo, held>>
    BY <1>1 DEF main
  <2>1. ASSUME turn[w].at \in Analyzed
        PROVE  /\ IsActive(turn[w].study, turn[w].id)'
               /\ ~job'[turn[w].study][turn[w].id].aged
    <3>1. PICK r \in Studies, m \in JobIds :
             r = turn[w].study /\ m = turn[w].id /\ (r # s \/ m # n)
      BY <1>5, <2>1
    <3>2. IsActive(r, m)' /\ job'[r][m] = job[r][m]
      BY <3>1, <1>4, <2>1 DEF Attentive
    <3> QED
      BY <3>1, <3>2, <2>0, <2>1 DEF Attentive, IsActive
  <2>2. \A x \in lost[w] : IsActive(x[1], x[2])' /\ ~OnTurn(w, x[1])
    BY <1>4, Names DEF Attentive
  <2> QED
    BY <2>0, <2>1, <2>2 DEF Attentive, OnTurn, IsActive
<1> QED
  BY <1>2, <1>3, <1>6

\* A study is scheduled once, before it has jobs or trials.
LEMMA CandidateStands ==
    ASSUME Typed, \A s \in Studies : Settled(s), NEW w \in Supervisors, Attentive(w),
           NEW s \in Studies, ScheduleCandidate(s)
    PROVE  Quietly /\ Attentive(w)'
<1>t. /\ study \in [Studies -> Study] /\ work \in [Studies -> Work]
      /\ study[s] \in Study /\ work[s] \in Work
  BY Tables DEF Typed
<1>1. /\ study[s].stage = "none" /\ study'[s].stage = "hpo_scheduled"
      /\ study'[s].trials = study[s].trials
      /\ work'[s].state = "scheduled" /\ job' = job
      /\ \A r \in Studies : r # s => study'[r] = study[r] /\ work'[r] = work[r]
      /\ UNCHANGED <<main, turn>>
  BY <1>t DEF ScheduleCandidate, Study, Work
<1>2. \A r \in Studies : \A m \in JobIds : IsActive(r, m)' <=> IsActive(r, m)
  BY <1>1 DEF IsActive
<1>3. Settled(s)'
  <2>1. OneActive(s)'
    BY <1>1, <1>2, OneActiveKept DEF Settled
  <2> QED
    BY <1>1, <1>2, <2>1 DEF Settled, Decided
<1>4. Gentle(s)
  BY <1>1, <1>2 DEF Gentle, Decided
<1>5. ASSUME NEW r \in Studies, r # s
      PROVE  Settled(r)' /\ Gentle(r)
  <2>1. Settled(r)'
    BY <1>1, <1>5, SettledKept DEF WorkKept
  <2> QED
    BY <2>1, <1>1, <1>2, <1>5 DEF Gentle
<1>6. Quietly
  BY <1>3, <1>4, <1>5 DEF Quietly
<1>7. Attentive(w)'
  BY <1>1, <1>6, AttentiveKept DEF Quietly, Steady, main
<1> QED
  BY <1>6, <1>7

\* The bounds that are whole as long as nothing overran and nobody intervened.
Undisturbed == budget["overrun"] = MaxOverruns /\ budget["operator"] = MaxOperator

BudgetInv == budget["overrun"] <= MaxOverruns /\ budget["operator"] <= MaxOperator

StandsInv ==
    /\ BudgetInv
    /\ Cardinality(Supervisors) = 1 /\ Undisturbed =>
          (\A s \in Studies : Settled(s)) /\ \A w \in Supervisors : Attentive(w)

Intervention(s) ==
    \/ RequeueExecution(s) \/ ConfigureRoutes(s) \/ ApplyDefaults(s)
    \/ \E n \in JobIds : RequeueAnalysis(s, n)

\* Bounds are only spent; an overrun spends its own, and so does the operator.
LEMMA BudgetStep ==
    ASSUME TypeOK, BudgetInv, [Next]_vars
    PROVE  /\ BudgetInv' /\ (Undisturbed' => Undisturbed)
           /\ \A s \in Studies : Intervention(s) => budget'["operator"] < budget["operator"]
           /\ \A s \in Studies, n \in JobIds :
                 ClaimAges(s, n) /\ Analyzing(s, n) => budget'["overrun"] < budget["overrun"]
<1>t. budget \in [Bounds -> Nat] /\ {"crash", "overrun", "import", "operator"} = Bounds
  BY Locals DEF Bounds
<1>n. MaxOverruns \in Nat /\ MaxOperator \in Nat
  BY DEF HpoAssumption
<1>1. UNCHANGED budget \/ \E b \in Bounds : Spend(b)
  <2>1. CASE Operate
    BY <2>1, <1>t DEF Operate, Import, RequeueExecution, ConfigureRoutes, ApplyDefaults,
                      RequeueAnalysis
  <2>2. CASE \E w \in Supervisors : Step(w)
    BY <2>2 DEF Step, Start, SelectLost, ResetLost, Reconcile, HandOver, SelectDefaults,
      CheckDefaults, WriteDefaults, MarkUnroutable, Promote, ClaimJob, ClaimWork, ReadStages,
      StartStudy, RunCompletes, RunFails, CompleteStudy, FinishWork
  <2>3. CASE \E w \in Supervisors : Analyze(w) \/ Crash(w)
    BY <2>3, <1>t DEF Analyze, JudgeFailure, ParkFailed, ReadPayload, Answer, FailJob,
      ScheduleValidations, Terminalize, Crash
  <2>4. CASE \E s \in Studies : \/ ScheduleCandidate(s)
                                \/ \E p \in Splits : RunValidation(s, p)
                                \/ \E n \in JobIds : ClaimAges(s, n)
    BY <2>4, <1>t DEF ScheduleCandidate, RunValidation, ClaimAges
  <2>5. CASE UNCHANGED vars
    BY <2>5 DEF vars
  <2> QED
    BY <2>1, <2>2, <2>3, <2>4, <2>5 DEF Next
<1>2. ASSUME NEW b \in Bounds, Spend(b)
      PROVE  /\ budget'[b] < budget[b]
             /\ \A c \in Bounds : c # b => budget'[c] = budget[c]
  BY <1>2, <1>t DEF Spend
<1>3. BudgetInv' /\ (Undisturbed' => Undisturbed)
  <2>1. \A c \in Bounds : budget'[c] = budget[c] \/ budget'[c] = budget[c] - 1
    BY <1>1, <1>t DEF Spend
  <2>2. /\ budget["overrun"] \in Nat /\ budget["operator"] \in Nat
        /\ budget'["overrun"] \in {budget["overrun"], budget["overrun"] - 1}
        /\ budget'["operator"] \in {budget["operator"], budget["operator"] - 1}
    BY <2>1, <1>t
  <2> QED
    BY <2>2, <1>n DEF BudgetInv, Undisturbed
<1>4. ASSUME NEW s \in Studies, Intervention(s)
      PROVE  Spend("operator")
  BY <1>4 DEF Intervention, RequeueExecution, ConfigureRoutes, ApplyDefaults, RequeueAnalysis
<1>5. ASSUME NEW s \in Studies, NEW n \in JobIds, ClaimAges(s, n), Analyzing(s, n)
      PROVE  Spend("overrun")
  BY <1>5 DEF ClaimAges
<1> QED
  BY <1>2, <1>3, <1>4, <1>5, <1>t

\* A step of the system, or of its only supervisor, while it is undisturbed.
LEMMA UndisturbedStep ==
    ASSUME JobsInv, \A s \in Studies : Settled(s), NEW w \in Supervisors, Supervisors = {w},
           Attentive(w), [Next]_vars, ~ \E s \in Studies : Intervention(s),
           ~ \E s \in Studies, n \in JobIds : ClaimAges(s, n) /\ Analyzing(s, n)
    PROVE  /\ \A s \in Studies : Settled(s)'
           /\ Attentive(w)'
           /\ \A s \in Studies : study[s].stage \in Decided /\ study'[s].stage # study[s].stage =>
                                    s \in held[w]
<1>t. Typed /\ turn \in [Supervisors -> Turn] /\ lost \in [Supervisors -> SUBSET (Studies \X JobIds)]
      /\ pc \in [Supervisors -> PCs] /\ held \in [Supervisors -> SUBSET Studies]
  BY Locals DEF JobsInv, Typed, TurnOK, MainType
<1>q. ASSUME Quietly, turn'[w] = turn[w] \/ turn'[w].at = "idle", Steady(w)
      PROVE  (\A s \in Studies : Settled(s)') /\ Attentive(w)'
  BY <1>q, <1>t, AttentiveKept DEF Quietly
<1>k. ASSUME Proceed, UNCHANGED <<study, job>>
      PROVE  Quietly
  BY <1>k, <1>t, WorkMoves, NothingMoved
<1>1. CASE Step(w)
  <2>1. Quietly
    BY <1>1, StepQuietly
  <2>2. Attentive(w)'
    BY <1>1, <2>1, StepAttentive
  <2> QED
    BY <1>1, <2>1, <2>2, StepQuietly DEF Quietly
<1>2. CASE Analyze(w)
  BY <1>2, AnalyzeStands
<1>3. CASE Crash(w)
  <2>1. /\ UNCHANGED <<study, job>> /\ turn'[w].at = "idle"
        /\ pc'[w] = "down" /\ lost'[w] = {} /\ held'[w] = {}
    BY <1>3, <1>t, IdleType DEF Crash, Exit, Goto
  <2>2. Steady(w)
    BY <2>1 DEF Steady
  <2> QED
    BY <2>1, <2>2, <1>3, <1>k, <1>q DEF Proceed
<1>4. ASSUME NEW s \in Studies, Import(s)
      PROVE  /\ \A r \in Studies : Settled(r)'
             /\ Attentive(w)'
             /\ \A r \in Studies : study[r].stage \in Decided => study'[r].stage = study[r].stage
  <2>1. \A r \in Studies : WorkKept(r)
    BY <1>4, <1>t, WorkMoves DEF Proceed
  <2>2. Settled(s)' /\ Gentle(s) /\ Elsewhere(s) /\ study[s].stage \notin Decided
    BY <1>4, <1>t, <2>1, ImportSettled DEF JobsInv
  <2>3. Quietly
    BY <2>1, <2>2, OneMoved
  <2>4. turn' = turn /\ Steady(w)
    BY <1>4 DEF Import, Steady, main
  <2> QED
    BY <2>2, <2>3, <2>4, <1>q DEF Elsewhere
<1>5. ASSUME NEW s \in Studies, ScheduleCandidate(s)
      PROVE  /\ \A r \in Studies : Settled(r)'
             /\ Attentive(w)'
             /\ \A r \in Studies : study[r].stage \in Decided => study'[r].stage = study[r].stage
  <2>1. Quietly /\ Attentive(w)'
    BY <1>5, <1>t, CandidateStands
  <2>2. /\ study[s].stage = "none" /\ study' = [study EXCEPT ![s].stage = "hpo_scheduled"]
        /\ study \in [Studies -> Study]
    BY <1>5, <1>t, Tables DEF ScheduleCandidate, Typed
  <2> QED
    BY <2>1, <2>2 DEF Quietly, Decided
<1>6. ASSUME NEW s \in Studies, NEW n \in JobIds, ClaimAges(s, n)
      PROVE  (\A r \in Studies : Settled(r)') /\ Attentive(w)' /\ study' = study
  BY <1>6, <1>t, AgedStands DEF ClaimAges
<1>7. CASE \/ \E s \in Studies, p \in Splits : RunValidation(s, p)
           \/ UNCHANGED vars
  <2>1. UNCHANGED <<study, job, main, turn>>
    BY <1>7 DEF RunValidation, vars, main
  <2>2. Steady(w)
    BY <2>1 DEF Steady, main
  <2> QED
    BY <2>1, <2>2, <1>7, <1>k, <1>q DEF Proceed
<1> QED
  BY <1>1, <1>2, <1>3, <1>4, <1>5, <1>6, <1>7 DEF Next, Operate, Intervention

LEMMA StandsInit == Init => StandsInv
<1> SUFFICES ASSUME Init PROVE StandsInv
  OBVIOUS
<1>1. BudgetInv
  BY DEF Init, BudgetInv, HpoAssumption
<1>2. \A s \in Studies : Settled(s)
  BY DEF Init, Settled, OneActive, IsActive, Active, Fresh, Decided
<1>3. \A w \in Supervisors : Attentive(w)
  BY IdleType DEF Init, Attentive, Analyzed
<1> QED
  BY <1>1, <1>2, <1>3 DEF StandsInv

LEMMA StandsStep ==
    ASSUME JobsInv, StandsInv, [Next]_vars
    PROVE  /\ StandsInv'
           /\ \A s \in Studies :
                 /\ Cardinality(Supervisors) = 1 /\ budget["overrun"] = MaxOverruns
                 /\ budget["operator"] = MaxOperator
                 /\ study[s].stage \in Decided /\ study'[s].stage # study[s].stage
                 => \/ budget'["operator"] < budget["operator"]
                    \/ \E w \in Supervisors : s \in held[w]
<1>t. TypeOK /\ MaxOverruns \in Nat /\ MaxOperator \in Nat /\ budget \in [Bounds -> Nat]
  BY Locals DEF JobsInv, Typed, HpoAssumption
<1>b. /\ BudgetInv' /\ (Undisturbed' => Undisturbed)
      /\ \A s \in Studies : Intervention(s) => budget'["operator"] < budget["operator"]
      /\ \A s \in Studies, n \in JobIds :
            ClaimAges(s, n) /\ Analyzing(s, n) => budget'["overrun"] < budget["overrun"]
  BY <1>t, BudgetStep DEF StandsInv
<1>1. CASE ~(Cardinality(Supervisors) = 1 /\ Undisturbed)
  BY <1>1, <1>b DEF StandsInv, Undisturbed
<1>2. CASE Cardinality(Supervisors) = 1 /\ Undisturbed
  <2>1. PICK w : Supervisors = {w}
    BY <1>2, FS_Singleton DEF HpoAssumption
  <2>2. w \in Supervisors /\ Attentive(w) /\ \A s \in Studies : Settled(s)
    BY <1>2, <2>1 DEF StandsInv
  <2>3. CASE \E s \in Studies : Intervention(s)
    <3>1. budget'["operator"] < budget["operator"]
      BY <2>3, <1>b
    <3>2. ~Undisturbed'
      BY <3>1, <1>2 DEF Undisturbed
    <3> QED
      BY <3>1, <3>2, <1>b DEF StandsInv
  <2>4. CASE \E s \in Studies, n \in JobIds : ClaimAges(s, n) /\ Analyzing(s, n)
    <3>1. budget'["overrun"] < budget["overrun"] /\ study' = study
      BY <2>4, <1>b DEF ClaimAges
    <3>2. ~Undisturbed'
      BY <3>1, <1>2 DEF Undisturbed
    <3> QED
      BY <3>1, <3>2, <1>b DEF StandsInv
  <2>5. CASE /\ ~ \E s \in Studies : Intervention(s)
             /\ ~ \E s \in Studies, n \in JobIds : ClaimAges(s, n) /\ Analyzing(s, n)
    <3>1. /\ \A s \in Studies : Settled(s)'
          /\ Attentive(w)'
          /\ \A s \in Studies : study[s].stage \in Decided /\ study'[s].stage # study[s].stage =>
                                   s \in held[w]
      BY <2>1, <2>2, <2>5, UndisturbedStep
    <3> QED
      BY <2>1, <2>2, <3>1, <1>b DEF StandsInv
  <2> QED
    BY <2>3, <2>4, <2>5
<1> QED
  BY <1>1, <1>2

\* As long as nothing disturbs the only supervisor, a decision is replaced by no
\* step but the hand-over of an execution that was still held when it was made.
THEOREM DecisionsStand == Spec => DecisionStands
<1>1. JobsInv /\ StandsInv /\ [Next]_vars => StandsInv'
  BY StandsStep
<1>2. JobsInv /\ StandsInv /\ [Next]_vars =>
        [\A s \in Studies :
            /\ Cardinality(Supervisors) = 1 /\ budget["overrun"] = MaxOverruns
            /\ budget["operator"] = MaxOperator
            /\ study[s].stage \in Decided /\ study'[s].stage # study[s].stage
            => \/ budget'["operator"] < budget["operator"]
               \/ \E w \in Supervisors : s \in held[w]]_vars
  BY StandsStep
<1> QED
  BY <1>1, <1>2, JobsInit, JobsStep, StandsInit, PTL DEF Spec, DecisionStands

=============================================================================
