----------------------- MODULE WorkLifecycleProofs -----------------------
(***************************************************************************)
(* That WorkQueue implements WorkLifecycle, for any items and processes, any   *)
(* number of crashes and any attempts: while no claim has outlived its timeout *)
(* and no operator has intervened, claims are exclusive, and every transaction *)
(* is a step of the life cycle.                                                *)
(***************************************************************************)
EXTENDS WorkQueueProofs

USE DEF Workers

-----------------------------------------------------------------------------
(* Rows and their stages.                                                    *)

Verdicts == {"none", "verdict", "infrastructure_failure"}

\* The stage of a row that nothing claims.
Parked(s) == IF s \in {"blocked", "finished", "archived"} THEN s ELSE "waiting"

LEMMA StageParked ==
    ASSUME NEW r \in Row, NEW s \in States \ {"running"}, NEW c \in Codes
    PROVE  /\ Stage(Unclaimed(r, s, c)) = Parked(s) /\ ~ Unclaimed(r, s, c).aged
           /\ Stage(Moved(r, s, c)) = Parked(s) /\ ~ Moved(r, s, c).aged
<1> DEFINE u == Unclaimed(r, s, c)
<1>1. u \in Row /\ u.state = s /\ ~ u.aged
  BY UnclaimedRow DEF Unclaimed, Row
<1>2. Moved(r, s, c) = IF s = "waiting_retry" THEN [u EXCEPT !.later = TRUE, !.attempts = @ + 1]
                                              ELSE [u EXCEPT !.later = FALSE]
  BY DEF Moved
<1> HIDE DEF u
<1>3. ~ Moved(r, s, c).aged /\ Moved(r, s, c).state = s
  BY <1>1, <1>2 DEF Row
<1>4. QED
  BY <1>1, <1>3 DEF Stage, Parked, u

LEMMA StageDeferred ==
    ASSUME NEW r \in Row
    PROVE  Stage(Deferred(r)) = "waiting" /\ ~ Deferred(r).aged
<1> DEFINE u == Unclaimed(r, "waiting_retry", "execution_failure")
<1>1. u \in Row /\ u.state = "waiting_retry" /\ ~ u.aged
  BY UnclaimedRow, Literals DEF Unclaimed, Row
<1>2. Deferred(r) = [u EXCEPT !.later = TRUE]
  BY DEF Deferred
<1> HIDE DEF u
<1>3. QED
  BY <1>1, <1>2 DEF Row, Stage

LEMMA StageClaimed ==
    ASSUME NEW r \in Row, NEW w \in Workers, NEW c \in Codes
    PROVE  /\ Stage(Claimed(r, w, c)) = IF c = "awaiting_batch_evaluation" THEN "recorded"
                                                                          ELSE "claimed"
           /\ ~ Claimed(r, w, c).aged
           /\ Stage([Claimed(r, w, c) EXCEPT !.later = FALSE]) = Stage(Claimed(r, w, c))
           /\ ~ [Claimed(r, w, c) EXCEPT !.later = FALSE].aged
           /\ [Claimed(r, w, c) EXCEPT !.later = FALSE].owner = w
  BY DEF Row, Claimed, Stage

LEMMA StageTaken ==
    ASSUME NEW r \in Row, NEW w \in Workers, NEW c \in Codes, c # "awaiting_batch_evaluation"
    PROVE  /\ Stage(Claimed(r, w, c)) = "claimed" /\ ~ Claimed(r, w, c).aged
           /\ Claimed(r, w, c).owner = w
  BY DEF Row, Claimed, Stage

\* Columns that have nothing to do with the stage.
LEMMA StageColumns ==
    ASSUME NEW r \in Row, NEW b \in BOOLEAN
    PROVE  /\ Stage([r EXCEPT !.later = b]) = Stage(r)
           /\ [r EXCEPT !.later = b].owner = r.owner
           /\ [r EXCEPT !.later = b].aged = r.aged
           /\ [r EXCEPT !.later = b].plain = r.plain
  BY DEF Row, Stage

LEMMA StagePromoted ==
    ASSUME NEW r \in Row, r.state \in {"scheduled", "waiting_retry"}
    PROVE  /\ Stage([r EXCEPT !.state = "ready"]) = Stage(r)
           /\ [r EXCEPT !.state = "ready"].owner = r.owner
           /\ [r EXCEPT !.state = "ready"].aged = r.aged
  BY DEF Row, Stage

-----------------------------------------------------------------------------
(* The moves of one row.                                                     *)

\* Process w may turn row r with verdict j into row s with verdict k.
Move(w, r, j, s, k) ==
    /\ ~ s.aged
    /\ \/ Stage(s) = Stage(r) /\ s.owner = r.owner /\ k = j
       \/ Stage(r) = "waiting" /\ Stage(s) = "claimed" /\ s.owner = w /\ k = j
       \/ /\ Stage(r) = "claimed" /\ r.owner = w
          /\ \/ Stage(s) \in {"waiting", "blocked"} /\ s.owner = NoWorker /\ k = j
             \/ Stage(s) = "claimed" /\ s.owner = w
             \/ Stage(s) = "recorded" /\ s.owner = w /\ k = "none"
             \/ Stage(s) = "finished" /\ s.owner = NoWorker /\ k # "none"
             \/ /\ Stage(s) = "finished" /\ s.owner = NoWorker /\ k = j
                /\ r.plain /\ w \in SoloWorkers
       \/ /\ Stage(r) \in {"blocked", "recorded"}
          /\ Stage(s) = "recorded" /\ s.owner = w /\ k = "none"
       \/ /\ Stage(r) = "recorded"
          /\ Stage(s) \in {"finished", "blocked"} /\ s.owner = NoWorker /\ k # "none"
       \/ /\ Stage(r) \in {"finished", "blocked"}
          /\ Stage(s) = Stage(r) /\ s.owner = r.owner /\ k # "none"

\* What the step of process w does to every row.
Moves(w) == \A i \in Items : Move(w, item[i], judged[i], item'[i], judged'[i])

\* Row i is executed by w; its evidence is complete, or it has left the queue.
Mine(w, i) == Stage(item[i]) = "claimed" /\ item[i].owner = w
Past(i)    == Stage(item[i]) \in {"recorded", "blocked", "finished"}

Fresh == \A i \in Items : ~ item[i].aged

LEMMA MoveSame == ASSUME NEW w, NEW r, NEW j, ~ r.aged PROVE Move(w, r, j, r, j)
  BY DEF Move

LEMMA OneMoves ==
    ASSUME item \in [Items -> Row], judged \in [Items -> Verdicts], Fresh, NEW w,
           NEW i \in Items, NEW s, NEW k,
           item' = [item EXCEPT ![i] = s], judged' = [judged EXCEPT ![i] = k],
           Move(w, item[i], judged[i], s, k)
    PROVE  Moves(w)
<1>1. ASSUME NEW j \in Items PROVE Move(w, item[j], judged[j], item'[j], judged'[j])
  <2>1. CASE j = i
    BY <2>1
  <2>2. CASE j # i
    BY <2>2, MoveSame DEF Fresh
  <2>3. QED
    BY <2>1, <2>2
<1>2. QED
  BY <1>1 DEF Moves

\* Only rows change, each by a move that leaves its verdict alone.
LEMMA RowsMove ==
    ASSUME Fresh, UNCHANGED judged, NEW w,
           \A i \in Items : item'[i] = item[i] \/ Move(w, item[i], judged[i], item'[i], judged[i])
    PROVE  Moves(w)
  BY MoveSame DEF Moves, Fresh

\* What is past stays so; what another process executes stays as it is.
LEMMA PastStays ==
    ASSUME NEW w, Moves(w), NEW i \in Items, Past(i)
    PROVE  Past(i)'
  BY DEF Moves, Move, Past

LEMMA OthersStay ==
    ASSUME NEW w, NEW v, v # w, Moves(w), NEW i \in Items, Mine(v, i)
    PROVE  Mine(v, i)' /\ judged'[i] = judged[i]
  BY DEF Moves, Move, Mine

-----------------------------------------------------------------------------
(* The invariant of a calm queue.                                            *)

\* Labels at which a process holds ids of rows whose evidence was complete.
PastLabels == {"submit", "failSubmit", "tailSubmit", "record"}

\* Labels at which a process may hold claims.
HoldLabels == {"execute", "handoff", "evaluate", "finish"}

\* What process w may rely on: what it executes is its own, the rows it read are
\* where it read them, and its analysis thread has only complete evidence.
Local(w) ==
    /\ \A i \in held[w] : Mine(w, i)
    /\ held[w] # {} => pc[w] \in HoldLabels
    /\ pc[w] = "abandon" => \A i \in sel[w] : Mine(w, i)
    /\ pc[w] \in PastLabels => \A i \in sel[w] : Past(i)
    /\ pc[w] = "applyStale" => sel[w] = {}
    /\ pc[w] \in {"handoff", "evaluate", "finish"} => sel[w] \subseteq held[w]
    /\ pc[w] = "handoff" => \A i \in sel[w] : judged[i] = "none"
    /\ pc[w] = "evaluate" => \A i, j \in sel[w] : i = j
    /\ pc[w] = "finish" => \A i \in sel[w] : judged[i] # "none"
    /\ pc[w] # "undo"
    /\ \A i \in cohort[w] \cup settled[w] : Past(i)

\* Complete evidence has no verdict; a finished item has one, unless a solo worker
\* could finish it without.
VerdictsFit ==
    \A i \in Items :
        /\ Stage(item[i]) = "recorded" => judged[i] = "none"
        /\ Stage(item[i]) = "finished" =>
              judged[i] # "none" \/ (item[i].plain /\ SoloWorkers # {})

CalmInv == Fresh /\ report = {} /\ VerdictsFit /\ \A w \in Workers : Local(w)

BudgetInv == budget["age"] <= MaxAgings /\ budget["operator"] <= MaxOperator

\* The types the proofs below use.
LEMMA Types ==
    ASSUME TypeOK
    PROVE  /\ item \in [Items -> Row] /\ judged \in [Items -> Verdicts]
           /\ pc \in [Workers -> PCs] /\ sel \in [Workers -> SUBSET Items]
           /\ held \in [Workers -> SUBSET Items] /\ cohort \in [Workers -> SUBSET Items]
           /\ settled \in [Workers -> SUBSET Items]
           /\ \A i \in Items : item[i] \in Row
  BY DEF TypeOK, Verdicts

\* The variables of a process are what they were.
SameLocal(v) ==
    /\ pc'[v] = pc[v] /\ sel'[v] = sel[v] /\ held'[v] = held[v]
    /\ cohort'[v] = cohort[v] /\ settled'[v] = settled[v]

\* Another process than the one that acts.
LEMMA OtherLocal ==
    ASSUME TypeOK, NEW w, NEW v \in Workers, v # w, Moves(w), Local(v), SameLocal(v)
    PROVE  Local(v)'
<1>1. held[v] \subseteq Items /\ sel[v] \subseteq Items /\ cohort[v] \cup settled[v] \subseteq Items
  BY Types
<1>2. \A i \in Items : /\ Mine(v, i) => Mine(v, i)' /\ judged'[i] = judged[i]
                       /\ Past(i) => Past(i)'
  BY OthersStay, PastStays
<1>3. QED
  BY <1>1, <1>2 DEF Local, SameLocal

\* The process that acts, when it executes nothing and has read nothing but
\* complete evidence.
LEMMA IdleLocal ==
    ASSUME TypeOK, NEW w \in Workers, Moves(w), held'[w] = {},
           pc'[w] \notin HoldLabels \cup {"abandon", "undo"},
           sel'[w] \subseteq Items, cohort'[w] \cup settled'[w] \subseteq Items,
           pc'[w] \in PastLabels => \A i \in sel'[w] : Past(i),
           pc'[w] = "applyStale" => sel'[w] = {},
           \A i \in cohort'[w] \cup settled'[w] : Past(i)
    PROVE  Local(w)'
<1>1. \A i \in Items : Past(i) => Past(i)'
  BY PastStays
<1>2. QED
  BY <1>1 DEF Local, PastLabels, HoldLabels

\* The process that acts, after the result of i has been applied.
LEMMA SettleLocal ==
    ASSUME TypeOK, NEW w \in Workers, Moves(w), Local(w), NEW i \in held[w], NEW note,
           Settle(w, i, note), \A j \in Items \ {i} : item'[j] = item[j],
           cohort'[w] = cohort[w], settled'[w] = settled[w]
    PROVE  Local(w)'
<1>0. held \in [Workers -> SUBSET Items] /\ pc \in [Workers -> PCs]
      /\ cohort[w] \cup settled[w] \subseteq Items
  BY Types
<1>1. held'[w] = held[w] \ {i}
  BY <1>0 DEF Settle
<1>2. pc'[w] \in {"execute", "due", "tail", "round"} /\ (pc'[w] # "execute" => held[w] = {i})
  <2>1. CASE held[w] # {i}
    BY <1>0, <2>1 DEF Settle, Goto
  <2>2. CASE held[w] = {i} /\ w \in SoloWorkers
    BY <1>0, <2>2 DEF Settle, Goto
  <2>3. CASE held[w] = {i} /\ w \notin SoloWorkers /\ (noted[w] # {} \/ note)
    BY <1>0, <2>3 DEF Settle, Goto
  <2>4. CASE held[w] = {i} /\ w \notin SoloWorkers /\ ~ (noted[w] # {} \/ note)
    BY <1>0, <2>4 DEF Settle, Goto
  <2>5. QED
    BY <2>1, <2>2, <2>3, <2>4
<1>3. \A j \in held'[w] : Mine(w, j)'
  BY <1>0, <1>1 DEF Local, Mine
<1>4. \A j \in Items : Past(j) => Past(j)'
  BY PastStays
<1>5. QED
  BY <1>0, <1>1, <1>2, <1>3, <1>4 DEF Local, PastLabels, HoldLabels

\* A process that executes nothing holds nothing.
LEMMA HoldsNothing ==
    ASSUME NEW w, Local(w), pc[w] \notin HoldLabels
    PROVE  held[w] = {}
  BY DEF Local

-----------------------------------------------------------------------------
(* The bounds.                                                               *)

LEMMA BudgetStep ==
    ASSUME [Next]_vars
    PROVE  UNCHANGED budget \/ \E b \in Bounds : Spend(b)
<1>1. ASSUME NEW w \in Workers, Step(w) PROVE UNCHANGED budget \/ Spend("defer")
  BY <1>1 DEF Step, Execute, Start, RecoverAbandoned, Snapshot, Submit, SelectStale,
      ApplyStale, PreflightBlocks, SelectFailures, RecoverFailure, RecoverFailureRaises,
      PromoteDueRetries, PromoteScheduled, ClaimBatch, ClaimNext, PersistRun, MarkAwaiting,
      EvaluateHpo, FinishDirectly, HandoffRaises, UndoHandoff, DeferInfrastructure, ChargeRetry,
      BlockForOperator, FailToAnalysis, LostClaimRaises
<1>2. ASSUME NEW w \in Workers, Analyze(w) PROVE UNCHANGED budget \/ Spend("defer")
  BY <1>2 DEF Analyze, Finalize, FinalizeRaises, DeferAnalysis, TerminalizeAnalysis,
              AnalysisFrame
<1>3. ASSUME NEW w \in Workers, Crash(w) \/ Stop(w) PROVE Spend("crash") \/ Spend("operator")
  BY <1>3 DEF Crash, Stop
<1>4. CASE Operate
  BY <1>4 DEF Operate, ResolveBlocked, RetryBlocked, RectifyBlocked, RequeueEvaluation,
              BuildReconciliation, ApplyReconciliation, NormalizeBlockers, Bounds
<1>5. ASSUME NEW i \in Items, ClaimAges(i) \/ BackoffEnds(i) PROVE UNCHANGED budget \/ Spend("age")
  BY <1>5 DEF ClaimAges, BackoffEnds
<1>6. CASE UNCHANGED vars
  BY <1>6 DEF vars
<1>7. QED
  BY <1>1, <1>2, <1>3, <1>4, <1>5, <1>6 DEF Next, Bounds

\* Spending one of the two bounds ends the calm for good.
LEMMA CalmStep ==
    ASSUME TypeOK, BudgetInv, [Next]_vars
    PROVE  BudgetInv' /\ (Calm' => Calm /\ ~ Spend("age") /\ ~ Spend("operator"))
<1>1. budget \in [Bounds -> Nat] /\ "age" \in Bounds /\ "operator" \in Bounds
      /\ MaxAgings \in Nat /\ MaxOperator \in Nat
  BY QueueAssumption DEF TypeOK, Bounds
<1>2. CASE UNCHANGED budget
  BY <1>1, <1>2 DEF BudgetInv, Calm, Spend
<1>3. ASSUME NEW b \in Bounds, Spend(b)
      PROVE  BudgetInv' /\ (Calm' => Calm /\ ~ Spend("age") /\ ~ Spend("operator"))
  <2>1. \A c \in Bounds : budget'[c] = IF c = b THEN budget[c] - 1 ELSE budget[c]
    BY <1>1, <1>3 DEF Spend
  <2>2. budget["age"] \in Nat /\ budget["operator"] \in Nat
    BY <1>1
  <2>3. /\ Spend("age") => budget'["age"] = budget["age"] - 1
        /\ Spend("operator") => budget'["operator"] = budget["operator"] - 1
    BY <1>1 DEF Spend
  <2>4. /\ budget'["age"] = budget["age"] \/ budget'["age"] = budget["age"] - 1
        /\ budget'["operator"] = budget["operator"] \/ budget'["operator"] = budget["operator"] - 1
    BY <1>1, <2>1
  <2>5. QED
    BY <1>1, <2>2, <2>3, <2>4 DEF BudgetInv, Calm
<1>4. QED
  BY <1>2, <1>3, BudgetStep

-----------------------------------------------------------------------------
(* One step of a process in a calm queue.                                    *)

\* The label after a Goto.
LEMMA GotoLabel ==
    ASSUME TypeOK, NEW w \in Workers, NEW l, Goto(w, l)
    PROVE  pc'[w] = l
  BY Types DEF Goto

LEMMA ExitLocal ==
    ASSUME TypeOK, NEW w \in Workers, Exit(w), Local(w), Moves(w),
           cohort'[w] \cup settled'[w] \subseteq cohort[w] \cup settled[w]
    PROVE  Local(w)'
<1>1. pc'[w] = "down" /\ held'[w] = {} /\ sel'[w] = {}
  BY Types DEF Exit
<1>2. cohort[w] \cup settled[w] \subseteq Items /\ \A i \in cohort[w] \cup settled[w] : Past(i)
  BY Types DEF Local
<1>3. QED
  BY <1>1, <1>2, IdleLocal DEF PastLabels, HoldLabels

\* The statements that only read rows, or whose rows nobody executes.
LEMMA ReadStep ==
    ASSUME TypeOK, CalmInv, NEW w \in Workers,
           \/ Start(w) \/ Snapshot(w) \/ Submit(w) \/ SelectStale(w) \/ PreflightBlocks(w)
           \/ SelectFailures(w) \/ RecoverFailureRaises(w)
    PROVE  Moves(w) /\ Local(w)'
<1> DEFINE Goal == Moves(w) /\ Local(w)'
<1>0. Fresh /\ Local(w)
  BY DEF CalmInv
<1>t. /\ pc \in [Workers -> PCs] /\ sel \in [Workers -> SUBSET Items]
      /\ held \in [Workers -> SUBSET Items] /\ cohort \in [Workers -> SUBSET Items]
      /\ settled \in [Workers -> SUBSET Items]
  BY Types
<1>p. cohort[w] \cup settled[w] \subseteq Items /\ \A i \in cohort[w] \cup settled[w] : Past(i)
  BY <1>0, <1>t DEF Local
<1>1. UNCHANGED <<item, judged>>
  BY DEF Start, Snapshot, Submit, SelectStale, PreflightBlocks, SelectFailures,
         RecoverFailureRaises, rows
<1>2. Moves(w)
  BY <1>0, <1>1, RowsMove
<1>3. pc[w] \notin HoldLabels
  BY DEF HoldLabels, Start, Snapshot, Submit, SelectStale, PreflightBlocks, SelectFailures,
         RecoverFailureRaises, At
<1>4. held[w] = {}
  BY <1>0, <1>3, HoldsNothing
<1>5. CASE Start(w)
  <2>1. pc'[w] = "abandon" /\ held'[w] = {} /\ cohort' = cohort /\ settled' = settled
    BY <1>4, <1>5, GotoLabel DEF Start, analysis
  <2>2. \A i \in sel'[w] : i \in Items /\ Mine(w, i)
    <3>1. sel'[w] = {i \in Items : /\ Running(i) /\ ~Awaiting(i) /\ item[i].owner = w}
      BY <1>5, <1>t DEF Start
    <3>2. QED
      BY <3>1 DEF Mine, Stage, Running, Awaiting
  <2>3. \A i \in sel'[w] : Mine(w, i)'
    BY <1>1, <2>2 DEF Mine
  <2>4. \A i \in cohort'[w] \cup settled'[w] : Past(i)'
    BY <1>1, <1>p, <2>1 DEF Past
  <2>5. QED
    BY <1>2, <2>1, <2>3, <2>4 DEF Local, PastLabels, HoldLabels
<1>6. CASE Snapshot(w)
  <2>1. held'[w] = {} /\ cohort' = cohort /\ settled' = settled
    BY <1>4, <1>6 DEF Snapshot, analysis
  <2>2. pc'[w] \in {"submit", "failSubmit", "tailSubmit"}
    <3>1. Goto(w, "submit") \/ Goto(w, "failSubmit") \/ Goto(w, "tailSubmit")
      <4>1. CASE At(w, "round")
        BY <1>6, <4>1 DEF Snapshot
      <4>2. CASE At(w, "failSnapshot") /\ ~At(w, "round")
        BY <1>6, <4>2 DEF Snapshot
      <4>3. CASE ~At(w, "failSnapshot") /\ ~At(w, "round")
        BY <1>6, <4>3 DEF Snapshot
      <4>4. QED
        BY <4>1, <4>2, <4>3
    <3>2. QED
      BY <3>1, GotoLabel
  <2>3. sel'[w] \subseteq Items /\ \A i \in sel'[w] : Past(i)
    <3>1. sel'[w] \subseteq Pending(w)
      BY <1>6, <1>t DEF Snapshot, AnalysisReady
    <3>2. \A i \in Pending(w) : i \in Items /\ Past(i)
      BY DEF Pending, Awaiting, Running, Past, Stage
    <3>3. QED
      BY <3>1, <3>2
  <2>4. QED
    BY <1>2, <1>p, <2>1, <2>2, <2>3, IdleLocal DEF HoldLabels
<1>7. CASE Submit(w)
  <2>1. held'[w] = {} /\ sel'[w] = {}
    BY <1>4, <1>7, <1>t DEF Submit
  <2>2. pc'[w] \in {"stale", "due", "round"}
    <3>1. Goto(w, "stale") \/ Goto(w, "due") \/ Goto(w, "round")
      <4>1. CASE At(w, "submit")
        BY <1>7, <4>1 DEF Submit
      <4>2. CASE At(w, "failSubmit") /\ ~At(w, "submit")
        BY <1>7, <4>2 DEF Submit
      <4>3. CASE ~At(w, "failSubmit") /\ ~At(w, "submit")
        BY <1>7, <4>3 DEF Submit
      <4>4. QED
        BY <4>1, <4>2, <4>3
    <3>2. QED
      BY <3>1, GotoLabel
  <2>3. sel[w] \subseteq Items /\ \A i \in sel[w] : Past(i)
    BY <1>0, <1>7, <1>t DEF Local, PastLabels, Submit
  <2>4. cohort'[w] \cup settled'[w] \subseteq sel[w] \cup cohort[w] \cup settled[w]
    BY <1>7, <1>t DEF Submit, Remaining, analysis
  <2>5. QED
    BY <1>2, <1>p, <2>1, <2>2, <2>3, <2>4, IdleLocal DEF PastLabels, HoldLabels
<1>8. CASE SelectStale(w)
  <2>1. held'[w] = {} /\ cohort' = cohort /\ settled' = settled /\ pc'[w] = "applyStale"
    BY <1>4, <1>8, GotoLabel DEF SelectStale, analysis
  <2>2. sel'[w] = {}
    BY <1>0, <1>8, <1>t DEF SelectStale, Fresh
  <2>3. QED
    BY <1>2, <1>p, <2>1, <2>2, IdleLocal DEF PastLabels, HoldLabels
<1>9. CASE PreflightBlocks(w)
  <2>1. held'[w] = {} /\ cohort' = cohort /\ settled' = settled /\ pc'[w] = "round" /\ sel' = sel
    BY <1>4, <1>9, GotoLabel DEF PreflightBlocks, analysis
  <2>2. QED
    BY <1>2, <1>p, <1>t, <2>1, IdleLocal DEF PastLabels, HoldLabels
<1>10. CASE SelectFailures(w)
  <2>1. held'[w] = {} /\ cohort' = cohort /\ settled' = settled
    BY <1>4, <1>10 DEF SelectFailures, analysis
  <2>2. pc'[w] \in {"due", "record"}
    <3>1. Goto(w, "due") \/ Goto(w, "record")
      BY <1>10 DEF SelectFailures
    <3>2. QED
      BY <3>1, GotoLabel
  <2>3. sel'[w] \subseteq Items /\ \A i \in sel'[w] : Past(i)
    <3>1. sel'[w] = {i \in InState("blocked") : item[i].blocker = "retry_limit_reached"}
      BY <1>10, <1>t DEF SelectFailures
    <3>2. QED
      BY <3>1 DEF InState, Past, Stage
  <2>4. QED
    BY <1>2, <1>p, <2>1, <2>2, <2>3, IdleLocal DEF PastLabels, HoldLabels
<1>11. CASE RecoverFailureRaises(w)
  <2>1. Exit(w) /\ cohort' = cohort /\ settled' = settled
    BY <1>11 DEF RecoverFailureRaises, analysis
  <2>2. QED
    BY <1>0, <1>2, <2>1, ExitLocal
<1>12. QED
  BY <1>5, <1>6, <1>7, <1>8, <1>9, <1>10, <1>11

\* A failed execution becomes evidence.
LEMMA RecordMove ==
    ASSUME TypeOK, CalmInv, NEW w \in Workers, NEW i \in Items, RecordFailure(w, i),
           Mine(w, i) \/ Past(i)
    PROVE  Moves(w) /\ \A j \in Items \ {i} : item'[j] = item[j]
<1> DEFINE s == [Claimed(item[i], w, "awaiting_batch_evaluation") EXCEPT !.later = FALSE]
<1>0. item \in [Items -> Row] /\ judged \in [Items -> Verdicts] /\ item[i] \in Row /\ Fresh
  BY Types DEF CalmInv
<1>1. item' = [item EXCEPT ![i] = s] /\ judged' = [judged EXCEPT ![i] = "none"]
  BY DEF RecordFailure
<1>2. Stage(s) = "recorded" /\ ~ s.aged /\ s.owner = w
  BY <1>0, StageClaimed, Literals
<1>3. Stage(item[i]) \in {"blocked", "recorded"} \/ (Stage(item[i]) = "claimed" /\ item[i].owner = w)
  <2>1. item[i].state \in {"running", "blocked"}
    BY DEF RecordFailure
  <2>2. QED
    BY <2>1 DEF Mine, Past, Stage
<1> HIDE DEF s
<1>4. Move(w, item[i], judged[i], s, "none")
  BY <1>2, <1>3 DEF Move
<1>5. QED
  BY <1>0, <1>1, <1>4, OneMoves

\* The recoveries, promotions and claims.
LEMMA QueueStep ==
    ASSUME TypeOK, ClaimInv, CalmInv, NEW w \in Workers,
           \/ RecoverAbandoned(w) \/ ApplyStale(w) \/ RecoverFailure(w)
           \/ PromoteDueRetries(w) \/ PromoteScheduled(w) \/ ClaimBatch(w) \/ ClaimNext(w)
    PROVE  Moves(w) /\ Local(w)'
<1> DEFINE Goal == Moves(w) /\ Local(w)'
<1>0. Fresh /\ Local(w)
  BY DEF CalmInv
<1>t. /\ pc \in [Workers -> PCs] /\ sel \in [Workers -> SUBSET Items]
      /\ held \in [Workers -> SUBSET Items] /\ cohort \in [Workers -> SUBSET Items]
      /\ settled \in [Workers -> SUBSET Items] /\ item \in [Items -> Row]
      /\ judged \in [Items -> Verdicts] /\ \A i \in Items : item[i] \in Row
  BY Types
<1>p. cohort[w] \cup settled[w] \subseteq Items /\ \A i \in cohort[w] \cup settled[w] : Past(i)
  BY <1>0, <1>t DEF Local
<1>3. pc[w] \notin HoldLabels
  BY DEF HoldLabels, RecoverAbandoned, ApplyStale, RecoverFailure, PromoteDueRetries, PromoteScheduled,
         ClaimBatch, ClaimNext, At
<1>4. held[w] = {}
  BY <1>0, <1>3, HoldsNothing
<1>c. cohort' = cohort /\ settled' = settled
  BY DEF RecoverAbandoned, ApplyStale, RecoverFailure, PromoteDueRetries, PromoteScheduled,
         ClaimBatch, ClaimNext, analysis
<1>5. CASE RecoverAbandoned(w)
  <2>1. held'[w] = {} /\ sel'[w] = {} /\ judged' = judged
    BY <1>4, <1>5, <1>t DEF RecoverAbandoned
  <2>2. pc'[w] \in {"round", "due"}
    <3>1. Goto(w, "round") \/ Goto(w, "due")
      BY <1>5 DEF RecoverAbandoned
    <3>2. QED
      BY <3>1, GotoLabel
  <2>3. \A i \in sel[w] : Mine(w, i)
    BY <1>0, <1>5 DEF Local, RecoverAbandoned, At
  <2>4. ASSUME NEW i \in Items, i \in sel[w]
        PROVE  Move(w, item[i], judged[i], Unclaimed(item[i], "ready", "abandoned_claim"), judged[i])
    <3>1. /\ Stage(Unclaimed(item[i], "ready", "abandoned_claim")) = "waiting"
          /\ ~ Unclaimed(item[i], "ready", "abandoned_claim").aged
          /\ Unclaimed(item[i], "ready", "abandoned_claim").owner = NoWorker
      <4>1. item[i] \in Row /\ "ready" \in States \ {"running"} /\ "abandoned_claim" \in Codes
        BY <1>t DEF States, Codes
      <4>2. Unclaimed(item[i], "ready", "abandoned_claim").owner = NoWorker
        BY <4>1, UnclaimedRow
      <4>3. QED
        BY <4>1, <4>2, StageParked DEF Parked
    <3>2. QED
      BY <2>3, <2>4, <3>1 DEF Move, Mine
  <2>5. \A i \in Items : \/ item'[i] = item[i]
                         \/ i \in sel[w] /\ item'[i] = Unclaimed(item[i], "ready", "abandoned_claim")
    BY <1>5 DEF RecoverAbandoned
  <2>6. Moves(w)
    BY <1>0, <2>1, <2>4, <2>5, RowsMove
  <2>7. QED
    BY <1>c, <1>p, <2>1, <2>2, <2>6, IdleLocal DEF PastLabels, HoldLabels
<1>6. CASE ApplyStale(w)
  <2>1. held'[w] = {} /\ sel'[w] = {} /\ judged' = judged /\ pc'[w] = "failures"
    BY <1>4, <1>6, <1>t, GotoLabel DEF ApplyStale
  <2>2. sel[w] = {}
    BY <1>0, <1>6 DEF Local, ApplyStale, At
  <2>3. \A i \in Items : item'[i] = item[i]
    BY <1>6, <2>2 DEF ApplyStale
  <2>4. Moves(w)
    BY <1>0, <2>1, <2>3, RowsMove
  <2>5. QED
    BY <1>c, <1>p, <2>1, <2>4, IdleLocal DEF PastLabels, HoldLabels
<1>7. CASE RecoverFailure(w)
  <2>1. PICK i \in sel[w] : /\ RecordFailure(w, i)
                            /\ sel' = [sel EXCEPT ![w] = @ \ {i}]
                            /\ Goto(w, IF sel[w] = {i} THEN "failSnapshot" ELSE "record")
    BY <1>7 DEF RecoverFailure
  <2>2. \A j \in sel[w] : j \in Items /\ Past(j)
    BY <1>0, <1>7, <1>t DEF Local, RecoverFailure, At, PastLabels
  <2>3. Moves(w)
    BY <2>1, <2>2, RecordMove
  <2>4. held'[w] = {} /\ sel'[w] \subseteq sel[w] /\ pc'[w] \in {"failSnapshot", "record"}
    <3>1. pc'[w] = IF sel[w] = {i} THEN "failSnapshot" ELSE "record"
      BY <2>1, GotoLabel
    <3>2. QED
      BY <1>4, <1>7, <1>t, <2>1, <3>1 DEF RecoverFailure
  <2>5. QED
    BY <1>c, <1>p, <2>2, <2>3, <2>4, IdleLocal DEF PastLabels, HoldLabels
<1>8. CASE PromoteDueRetries(w)
  <2>1. held'[w] = {} /\ sel' = sel /\ judged' = judged /\ pc'[w] = "promote"
    BY <1>4, <1>8, GotoLabel DEF PromoteDueRetries
  <2>2. \A i \in Items : \/ item'[i] = item[i]
                         \/ /\ item[i].state = "waiting_retry"
                            /\ item'[i] = [item[i] EXCEPT !.state = "ready"]
    BY <1>8 DEF PromoteDueRetries
  <2>3. ASSUME NEW i \in Items, item[i].state = "waiting_retry"
        PROVE  Move(w, item[i], judged[i], [item[i] EXCEPT !.state = "ready"], judged[i])
    <3>1. item[i] \in Row /\ ~ item[i].aged
      BY <1>0, <1>t DEF Fresh
    <3>2. QED
      BY <2>3, <3>1, StagePromoted DEF Move
  <2>4. Moves(w)
    BY <1>0, <2>1, <2>2, <2>3, RowsMove
  <2>5. QED
    BY <1>c, <1>p, <1>t, <2>1, <2>4, IdleLocal DEF PastLabels, HoldLabels
<1>9. CASE PromoteScheduled(w)
  <2>1. held'[w] = {} /\ sel' = sel /\ judged' = judged /\ pc'[w] = "claim"
    BY <1>4, <1>9, GotoLabel DEF PromoteScheduled
  <2>2. \A i \in Items : \/ item'[i] = item[i]
                         \/ /\ item[i].state = "scheduled"
                            /\ item'[i] = [item[i] EXCEPT !.state = "ready"]
    BY <1>9 DEF PromoteScheduled, Promotion
  <2>3. ASSUME NEW i \in Items, item[i].state = "scheduled"
        PROVE  Move(w, item[i], judged[i], [item[i] EXCEPT !.state = "ready"], judged[i])
    <3>1. item[i] \in Row /\ ~ item[i].aged
      BY <1>0, <1>t DEF Fresh
    <3>2. QED
      BY <2>3, <3>1, StagePromoted DEF Move
  <2>4. Moves(w)
    BY <1>0, <2>1, <2>2, <2>3, RowsMove
  <2>5. QED
    BY <1>c, <1>p, <1>t, <2>1, <2>4, IdleLocal DEF PastLabels, HoldLabels
<1>10. CASE ClaimBatch(w)
  <2>1. PICK S \in SUBSET InState("ready") :
           /\ item' = [i \in Items |-> IF i \in S THEN Claimed(item[i], w, "none") ELSE item[i]]
           /\ Hold(w, S)
           /\ Goto(w, IF S = {} THEN "round" ELSE "execute")
    BY <1>10 DEF ClaimBatch
  <2>2. /\ held'[w] = S /\ judged' = judged /\ S \subseteq Items
        /\ pc'[w] = IF S = {} THEN "round" ELSE "execute"
    BY <1>10, <1>t, <2>1, GotoLabel DEF ClaimBatch, Hold, InState
  <2>3. ASSUME NEW i \in Items, i \in S
        PROVE  /\ Stage(Claimed(item[i], w, "none")) = "claimed"
               /\ Claimed(item[i], w, "none").owner = w
               /\ Move(w, item[i], judged[i], Claimed(item[i], w, "none"), judged[i])
    <3>1. item[i] \in Row /\ Stage(item[i]) = "waiting"
      BY <1>t, <2>1, <2>3 DEF InState, Stage
    <3>2. /\ Stage(Claimed(item[i], w, "none")) = "claimed" /\ ~ Claimed(item[i], w, "none").aged
          /\ Claimed(item[i], w, "none").owner = w
      <4>1. "none" \in Codes
        BY DEF Codes
      <4>2. QED
        BY <3>1, <4>1, StageTaken
    <3>3. QED
      BY <3>1, <3>2 DEF Move
  <2>4. \A i \in Items : item'[i] = IF i \in S THEN Claimed(item[i], w, "none") ELSE item[i]
    BY <2>1
  <2>5. Moves(w)
    BY <1>0, <2>2, <2>3, <2>4, RowsMove
  <2>6. \A i \in held'[w] : Mine(w, i)'
    BY <2>2, <2>3, <2>4 DEF Mine
  <2>7. \A i \in cohort'[w] \cup settled'[w] : Past(i)'
    BY <1>c, <1>p, <2>5, PastStays
  <2>8. QED
    BY <2>2, <2>5, <2>6, <2>7 DEF Local, PastLabels, HoldLabels
<1>11. CASE ClaimNext(w)
  <2>1. CASE InState("ready") = {} /\ Goto(w, "due") /\ UNCHANGED <<item, held, snap>>
    <3>1. held'[w] = {} /\ pc'[w] = "due" /\ judged' = judged /\ sel' = sel
      BY <1>4, <1>11, <2>1, GotoLabel DEF ClaimNext
    <3>2. Moves(w)
      BY <1>0, <2>1, <3>1, RowsMove
    <3>3. QED
      BY <1>c, <1>p, <1>t, <3>1, <3>2, IdleLocal DEF PastLabels, HoldLabels
  <2>2. ASSUME NEW i \in InState("ready"), item' = [item EXCEPT ![i] = Claimed(@, w, @.blocker)],
               Hold(w, {i}), Goto(w, "execute")
        PROVE  Goal
    <3>1. held'[w] = {i} /\ judged' = judged /\ i \in Items /\ pc'[w] = "execute"
      BY <1>11, <1>t, <2>2, GotoLabel DEF ClaimNext, Hold, InState
    <3> DEFINE s == Claimed(item[i], w, item[i].blocker)
    <3>2. item[i] \in Row /\ Stage(item[i]) = "waiting" /\ item[i].blocker \in Codes
          /\ item[i].blocker # "awaiting_batch_evaluation"
      <4>1. item[i].state = "ready"
        BY <2>2 DEF InState
      <4>2. QED
        BY <1>t, <3>1, <4>1, RowFields DEF ClaimInv, RowInv, Idle, Busy, Stage
    <3>3. Stage(s) = "claimed" /\ ~ s.aged /\ s.owner = w
      BY <3>2, StageTaken
    <3>4. item' = [item EXCEPT ![i] = s] /\ judged' = [judged EXCEPT ![i] = judged[i]]
      BY <1>t, <2>2, <3>1
    <3> HIDE DEF s
    <3>5. Move(w, item[i], judged[i], s, judged[i])
      BY <3>2, <3>3 DEF Move
    <3>6. Moves(w)
      BY <1>0, <1>t, <3>1, <3>4, <3>5, OneMoves
    <3>7. \A j \in held'[w] : Mine(w, j)'
      BY <1>t, <3>1, <3>3, <3>4 DEF Mine
    <3>8. \A j \in cohort'[w] \cup settled'[w] : Past(j)'
      BY <1>c, <1>p, <3>6, PastStays
    <3>9. QED
      BY <3>1, <3>6, <3>7, <3>8 DEF Local, PastLabels, HoldLabels
  <2>3. QED
    BY <1>11, <2>1, <2>2 DEF ClaimNext
<1>12. QED
  BY <1>5, <1>6, <1>7, <1>8, <1>9, <1>10, <1>11

\* transition_work_item on a running row.
LEMMA TransitionMove ==
    ASSUME TypeOK, NEW i \in Items, item[i].state = "running",
           NEW s \in {"blocked", "finished", "waiting_retry"}, NEW c \in Codes,
           Transition(i, s, {"running"}, c)
    PROVE  /\ item' = [item EXCEPT ![i] = Moved(item[i], s, c)]
           /\ Stage(Moved(item[i], s, c)) = Parked(s)
           /\ ~ Moved(item[i], s, c).aged
           /\ Moved(item[i], s, c).owner = NoWorker
<1>1. item[i] \in Row /\ s \in States \ {"running"}
  BY Types DEF States
<1>2. Moved(item[i], s, c).owner = NoWorker
  BY <1>1, MovedRow
<1>3. Stage(Moved(item[i], s, c)) = Parked(s) /\ ~ Moved(item[i], s, c).aged
  BY <1>1, StageParked
<1>4. item' = [item EXCEPT ![i] = Moved(item[i], s, c)]
  BY DEF Transition
<1>5. QED
  BY <1>2, <1>3, <1>4

\* The result of item i, which w executes, has been applied to its row.
LEMMA ResultStep ==
    ASSUME TypeOK, CalmInv, NEW w \in Workers, NEW i \in held[w], NEW note, Settle(w, i, note),
           NEW s, NEW k, item' = [item EXCEPT ![i] = s], judged' = [judged EXCEPT ![i] = k],
           Move(w, item[i], judged[i], s, k), UNCHANGED <<cohort, settled>>
    PROVE  Moves(w) /\ Local(w)'
<1>0. /\ item \in [Items -> Row] /\ judged \in [Items -> Verdicts] /\ i \in Items
      /\ Fresh /\ Local(w)
  BY Types DEF CalmInv
<1>1. Moves(w)
  BY <1>0, OneMoves
<1>2. \A j \in Items \ {i} : item'[j] = item[j]
  BY <1>0
<1>3. QED
  BY <1>0, <1>1, <1>2, SettleLocal

\* The statements of an execution.
LEMMA ExecuteStep ==
    ASSUME TypeOK, CalmInv, NEW w \in Workers, Execute(w)
    PROVE  Moves(w) /\ Local(w)'
<1> DEFINE Goal == Moves(w) /\ Local(w)'
<1>0. Fresh /\ Local(w)
  BY DEF CalmInv
<1>t. /\ pc \in [Workers -> PCs] /\ sel \in [Workers -> SUBSET Items]
      /\ held \in [Workers -> SUBSET Items] /\ cohort \in [Workers -> SUBSET Items]
      /\ settled \in [Workers -> SUBSET Items] /\ item \in [Items -> Row]
      /\ judged \in [Items -> Verdicts] /\ \A i \in Items : item[i] \in Row
  BY Types
<1>m. ASSUME NEW i \in held[w]
      PROVE  /\ i \in Items /\ Mine(w, i) /\ item[i].state = "running" /\ Running(i)
             /\ Stage(item[i]) = "claimed" /\ item[i].owner = w /\ ~ item[i].aged
  <2>1. i \in Items /\ Mine(w, i)
    BY <1>0, <1>t DEF Local
  <2>2. item[i].state = "running"
    BY <2>1 DEF Mine, Stage
  <2>3. QED
    BY <1>0, <2>1, <2>2 DEF Mine, Fresh, Running
<1>h. ASSUME At(w, "handoff") \/ At(w, "evaluate") \/ At(w, "finish"), NEW i \in sel[w]
      PROVE  /\ i \in held[w]
             /\ At(w, "handoff") => judged[i] = "none"
             /\ At(w, "finish") => judged[i] # "none"
  BY <1>0, <1>h DEF Local, At
<1>c. {"none", "retry_limit_reached", "execution_failure", "operator_requirement"} \subseteq Codes
  BY DEF Codes
<1>1. ASSUME NEW i \in Items, PersistRun(w, i) PROVE Goal
  <2>1. i \in held[w] /\ item' = item /\ held' = held /\ cohort' = cohort /\ settled' = settled
    BY <1>1 DEF PersistRun, Executing, analysis
  <2> DEFINE k == IF w \in SoloWorkers THEN "verdict" ELSE "none"
  <2>2. judged' = [judged EXCEPT ![i] = k] /\ sel'[w] = {i} /\ pc'[w] = Handover(w, i)
    BY <1>1, <1>t, GotoLabel DEF PersistRun
  <2>a. /\ pc'[w] \in {"handoff", "evaluate", "finish"}
        /\ pc'[w] = "finish" <=> w \in SoloWorkers
    BY <2>2 DEF Handover
  <2>3. Move(w, item[i], judged[i], item[i], k)
    BY <1>m, <2>1 DEF Move
  <2>4. item' = [item EXCEPT ![i] = item[i]]
    BY <1>t, <2>1
  <2>5. Moves(w)
    BY <1>0, <1>t, <2>2, <2>3, <2>4, OneMoves
  <2>6. \A j \in held'[w] : Mine(w, j)'
    BY <1>0, <2>1 DEF Local, Mine
  <2>7. \A j \in cohort'[w] \cup settled'[w] : Past(j)'
    BY <1>0, <2>1 DEF Local, Past
  <2>8. judged'[i] = k
    BY <1>t, <2>2
  <2>9. QED
    BY <2>1, <2>2, <2>a, <2>5, <2>6, <2>7, <2>8 DEF Local, PastLabels, HoldLabels
<1>2. ASSUME NEW i \in Items, MarkAwaiting(w, i) PROVE Goal
  <2> DEFINE s == [item[i] EXCEPT !.blocker = "awaiting_batch_evaluation"]
  <2>1. At(w, "handoff") /\ i \in sel[w]
    BY <1>2 DEF MarkAwaiting
  <2>2. i \in held[w] /\ judged[i] = "none"
    BY <1>h, <2>1
  <2>3. Stage(s) = "recorded" /\ s.owner = w /\ ~ s.aged
    BY <1>m, <1>t, <2>2 DEF Row, Stage
  <2>4. item' = [item EXCEPT ![i] = s] /\ judged' = [judged EXCEPT ![i] = judged[i]]
        /\ Settle(w, i, TRUE) /\ UNCHANGED <<cohort, settled>>
    BY <1>2, <1>t DEF MarkAwaiting, analysis
  <2> HIDE DEF s
  <2>5. Move(w, item[i], judged[i], s, judged[i])
    BY <1>m, <2>2, <2>3 DEF Move
  <2>6. QED
    BY <2>2, <2>4, <2>5, ResultStep
<1>3. ASSUME NEW i \in Items, FinishDirectly(w, i) PROVE Goal
  <2> DEFINE s == Moved(item[i], "finished", "none")
  <2>1. /\ \/ At(w, "finish") /\ i \in sel[w]
           \/ Executing(w, i) /\ w \in SoloWorkers /\ item[i].plain
        /\ Transition(i, "finished", {"running"}, "none")
        /\ judged' = [judged EXCEPT ![i] = judged[i]]
        /\ Settle(w, i, FALSE) /\ UNCHANGED <<cohort, settled>>
    BY <1>3, <1>t DEF FinishDirectly, analysis
  <2>2. i \in held[w] /\ (judged[i] # "none" \/ (w \in SoloWorkers /\ item[i].plain))
    BY <1>h, <2>1 DEF Executing
  <2>3. item' = [item EXCEPT ![i] = s] /\ Stage(s) = "finished" /\ ~ s.aged /\ s.owner = NoWorker
    BY <1>m, <1>c, <2>1, <2>2, TransitionMove DEF Parked
  <2> HIDE DEF s
  <2>4. Move(w, item[i], judged[i], s, judged[i])
    BY <1>m, <2>2, <2>3 DEF Move
  <2>5. QED
    BY <2>1, <2>2, <2>3, <2>4, ResultStep
<1>9. ASSUME NEW i \in Items, EvaluateHpo(w, i) PROVE Goal
  <2>1. /\ At(w, "evaluate") /\ i \in sel[w] /\ item' = item /\ sel' = sel /\ held' = held
        /\ cohort' = cohort /\ settled' = settled /\ judged' = [judged EXCEPT ![i] = "verdict"]
        /\ pc'[w] = "finish"
    BY <1>9, GotoLabel DEF EvaluateHpo, analysis
  <2>2. i \in held[w] /\ sel[w] \subseteq held[w]
    BY <1>0, <2>1 DEF Local, At
  <2>3. Move(w, item[i], judged[i], item[i], "verdict")
    BY <1>m, <2>2 DEF Move
  <2>4. item' = [item EXCEPT ![i] = item[i]]
    BY <1>t, <2>1
  <2>5. Moves(w)
    BY <1>0, <1>t, <2>1, <2>3, <2>4, OneMoves
  <2>6. \A j \in held'[w] : Mine(w, j)'
    BY <1>0, <2>1 DEF Local, Mine
  <2>7. \A j \in cohort'[w] \cup settled'[w] : Past(j)'
    BY <1>0, <2>1 DEF Local, Past
  <2>8. \A j \in sel'[w] : judged'[j] # "none"
    BY <1>0, <1>t, <2>1 DEF Local, At
  <2>9. QED
    BY <2>1, <2>2, <2>5, <2>6, <2>7, <2>8 DEF Local, PastLabels, HoldLabels
<1>4. ASSUME NEW i \in Items, HandoffRaises(w, i) \/ UndoHandoff(w, i) \/ LostClaimRaises(w, i)
      PROVE  Goal
  <2>1. pc[w] # "undo"
    BY <1>0 DEF Local
  <2>2. /\ ~ Running(i)
        /\ i \in held[w] \/ ((At(w, "handoff") \/ At(w, "finish")) /\ i \in sel[w])
    BY <1>4, <2>1 DEF HandoffRaises, UndoHandoff, LostClaimRaises, Executing, At, CanTransition,
                      Running
  <2>3. QED
    BY <1>h, <1>m, <2>2
<1>5. ASSUME NEW i \in Items, DeferInfrastructure(w, i) PROVE Goal
  <2> DEFINE s == Deferred(item[i])
  <2>1. i \in held[w] /\ item' = [item EXCEPT ![i] = s] /\ judged' = [judged EXCEPT ![i] = judged[i]]
        /\ Settle(w, i, FALSE) /\ UNCHANGED <<cohort, settled>>
    BY <1>5, <1>t DEF DeferInfrastructure, Executing, ExecFrame, analysis
  <2>2. Stage(s) = "waiting" /\ ~ s.aged /\ s.owner = NoWorker
    BY <1>t, StageDeferred, DeferredRow
  <2> HIDE DEF s
  <2>3. Move(w, item[i], judged[i], s, judged[i])
    BY <1>m, <2>1, <2>2 DEF Move
  <2>4. QED
    BY <2>1, <2>3, ResultStep
<1>6. ASSUME NEW i \in Items, ChargeRetry(w, i) \/ BlockForOperator(w, i) PROVE Goal
  <2>1. i \in held[w] /\ judged' = [judged EXCEPT ![i] = judged[i]]
        /\ Settle(w, i, FALSE) /\ UNCHANGED <<cohort, settled>>
    BY <1>6, <1>t DEF ChargeRetry, BlockForOperator, Executing, ExecFrame, analysis
  <2>2. \E s \in {"blocked", "waiting_retry"}, c \in Codes : Transition(i, s, {"running"}, c)
    <3>1. CASE ChargeRetry(w, i)
      BY <1>c, <3>1 DEF ChargeRetry
    <3>2. CASE BlockForOperator(w, i)
      BY <1>c, <3>2 DEF BlockForOperator
    <3>3. QED
      BY <1>6, <3>1, <3>2
  <2>3. PICK s \in {"blocked", "waiting_retry"}, c \in Codes : Transition(i, s, {"running"}, c)
    BY <2>2
  <2> DEFINE r == Moved(item[i], s, c)
  <2>4. item' = [item EXCEPT ![i] = r] /\ Stage(r) = Parked(s) /\ ~ r.aged /\ r.owner = NoWorker
    BY <1>m, <2>1, <2>3, TransitionMove
  <2> HIDE DEF r
  <2>5. Move(w, item[i], judged[i], r, judged[i])
    BY <1>m, <2>1, <2>4 DEF Move, Parked
  <2>6. QED
    BY <2>1, <2>4, <2>5, ResultStep
<1>7. ASSUME NEW i \in Items, FailToAnalysis(w, i) PROVE Goal
  <2>1. i \in held[w] /\ RecordFailure(w, i) /\ Settle(w, i, TRUE) /\ UNCHANGED <<cohort, settled>>
    BY <1>7 DEF FailToAnalysis, Executing, ExecFrame, analysis
  <2>2. Moves(w) /\ \A j \in Items \ {i} : item'[j] = item[j]
    BY <1>m, <2>1, RecordMove
  <2>3. QED
    BY <1>0, <2>1, <2>2, SettleLocal
<1>8. QED
  BY <1>1, <1>2, <1>3, <1>4, <1>5, <1>6, <1>7, <1>9 DEF Execute

-----------------------------------------------------------------------------
(* The analysis thread and the crash.                                        *)

\* A turn of the analysis thread settles only rows that are past.
LEMMA PastStep ==
    ASSUME TypeOK, CalmInv, NEW w \in Workers, Moves(w), UNCHANGED <<pc, sel, held>>,
           \A i \in Items : Mine(w, i) => item'[i] = item[i] /\ judged'[i] = judged[i],
           cohort'[w] \cup settled'[w] \subseteq cohort[w] \cup settled[w]
    PROVE  Moves(w) /\ Local(w)'
<1>0. Local(w) /\ held[w] \subseteq Items /\ sel[w] \subseteq Items
      /\ cohort[w] \cup settled[w] \subseteq Items
  BY Types DEF CalmInv
<1>1. \A i \in Items : /\ Mine(w, i) => Mine(w, i)' /\ judged'[i] = judged[i]
                       /\ Past(i) => Past(i)'
  BY PastStays DEF Mine
<1>2. QED
  BY <1>0, <1>1 DEF Local

LEMMA AnalyzeStep ==
    ASSUME TypeOK, CalmInv, NEW w \in Workers, Analyze(w)
    PROVE  Moves(w) /\ Local(w)'
<1> DEFINE Goal == Moves(w) /\ Local(w)'
<1>0. Fresh /\ Local(w) /\ VerdictsFit
  BY DEF CalmInv
<1>t. /\ cohort \in [Workers -> SUBSET Items] /\ settled \in [Workers -> SUBSET Items]
      /\ item \in [Items -> Row] /\ judged \in [Items -> Verdicts] /\ \A i \in Items : item[i] \in Row
  BY Types
<1>l. UNCHANGED <<pc, sel, held>>
  BY DEF Analyze, Finalize, FinalizeRaises, DeferAnalysis, TerminalizeAnalysis, AnalysisFrame, local
<1>r. ASSUME NEW left, NEW done, NEW again, Remaining(w, left, done, again),
             left \cup done \subseteq cohort[w] \cup settled[w]
      PROVE  cohort'[w] \cup settled'[w] \subseteq cohort[w] \cup settled[w]
  BY <1>r, <1>t DEF Remaining
\* One past row changes.
<1>o. ASSUME NEW i \in Items, Past(i), NEW s, NEW k,
             item' = [item EXCEPT ![i] = s], judged' = [judged EXCEPT ![i] = k],
             Move(w, item[i], judged[i], s, k),
             cohort'[w] \cup settled'[w] \subseteq cohort[w] \cup settled[w]
      PROVE  Goal
  <2>1. Moves(w)
    BY <1>0, <1>t, <1>o, OneMoves
  <2>2. ASSUME NEW j \in Items, Mine(w, j) PROVE item'[j] = item[j] /\ judged'[j] = judged[j]
    BY <1>t, <1>o, <2>2 DEF Mine, Past
  <2>3. QED
    BY <1>l, <1>o, <2>1, <2>2, PastStep
<1>p. \A i \in cohort[w] \cup settled[w] : i \in Items /\ Past(i)
  BY <1>0, <1>t DEF Local
<1>a. \A i \in Items : Awaiting(i) <=> Stage(item[i]) = "recorded"
  BY DEF Awaiting, Running, Stage
<1>1. ASSUME NEW i \in Items, Finalize(w, i) PROVE Goal
  <2> DEFINE s == Unclaimed(item[i], "finished", "none")
  <2>1. /\ i \in cohort[w] /\ item' = [item EXCEPT ![i] = s]
        /\ judged' = [judged EXCEPT ![i] = "verdict"] /\ Stage(item[i]) = "recorded"
        /\ Remaining(w, cohort[w] \ {i}, settled[w] \cup {i}, retried[w])
    BY <1>1, <1>a DEF Finalize
  <2>2. Stage(s) = "finished" /\ ~ s.aged /\ s.owner = NoWorker
    <3>1. item[i] \in Row /\ "finished" \in States \ {"running"} /\ "none" \in Codes
      BY <1>t DEF States, Codes
    <3>2. s.owner = NoWorker
      BY <3>1, UnclaimedRow
    <3>3. QED
      BY <3>1, <3>2, StageParked DEF Parked
  <2>3. cohort'[w] \cup settled'[w] \subseteq cohort[w] \cup settled[w]
    BY <1>r, <2>1
  <2> HIDE DEF s
  <2>4. Move(w, item[i], judged[i], s, "verdict")
    BY <2>1, <2>2 DEF Move
  <2>5. QED
    BY <1>o, <1>p, <2>1, <2>3, <2>4
<1>2. ASSUME NEW i \in Items, FinalizeRaises(w, i) PROVE Goal
  <2>1. UNCHANGED <<item, judged>>
    BY <1>2 DEF FinalizeRaises, rows
  <2>2. PICK done \in SUBSET settled[w] : Remaining(w, cohort[w] \cup done, {}, TRUE)
    BY <1>2 DEF FinalizeRaises
  <2>3. cohort'[w] \cup settled'[w] \subseteq cohort[w] \cup settled[w]
    BY <1>r, <2>2
  <2>4. Moves(w)
    BY <1>0, <2>1, RowsMove
  <2>5. QED
    BY <1>l, <2>1, <2>3, <2>4, PastStep
<1>3. ASSUME NEW i \in Items, DeferAnalysis(w, i) PROVE Goal
  <2>1. i \in cohort[w] /\ judged' = [judged EXCEPT ![i] = judged[i]]
    BY <1>3, <1>t DEF DeferAnalysis
  <2>2. CASE /\ item' = [item EXCEPT ![i].later = TRUE]
             /\ Remaining(w, cohort[w] \ {i}, settled[w], retried[w])
    <3> DEFINE s == [item[i] EXCEPT !.later = TRUE]
    <3>1. item' = [item EXCEPT ![i] = s] /\ Stage(s) = Stage(item[i]) /\ s.owner = item[i].owner
          /\ s.aged = item[i].aged
      BY <1>t, <2>2, StageColumns
    <3>2. cohort'[w] \cup settled'[w] \subseteq cohort[w] \cup settled[w]
      BY <1>r, <2>2
    <3> HIDE DEF s
    <3>3. Move(w, item[i], judged[i], s, judged[i])
      BY <1>0, <3>1 DEF Move, Fresh
    <3>4. QED
      BY <1>o, <1>p, <2>1, <3>1, <3>2, <3>3
  <2>3. CASE UNCHANGED item /\ Remaining(w, {}, {}, FALSE)
    <3>1. UNCHANGED judged
      BY <1>3 DEF DeferAnalysis
    <3>2. Moves(w)
      BY <1>0, <2>3, <3>1, RowsMove
    <3>3. cohort'[w] \cup settled'[w] \subseteq cohort[w] \cup settled[w]
      BY <1>r, <2>3
    <3>4. QED
      BY <1>l, <2>3, <3>1, <3>2, <3>3, PastStep
  <2>4. QED
    BY <1>3, <2>2, <2>3 DEF DeferAnalysis
<1>4. ASSUME NEW i \in Items, TerminalizeAnalysis(w, i) PROVE Goal
  <2> DEFINE k == "infrastructure_failure"
  <2> DEFINE s == Moved(item[i], "blocked", "analyzer_retry_exhausted")
  <2>1. i \in cohort[w] \cup settled[w] /\ judged' = [judged EXCEPT ![i] = k] /\ Past(i)
    BY <1>4, <1>p DEF TerminalizeAnalysis, Failing
  <2>2. cohort'[w] \cup settled'[w] \subseteq cohort[w] \cup settled[w]
    <3>1. \/ Remaining(w, cohort[w] \ {i}, settled[w] \ {i}, retried[w])
          \/ Remaining(w, {}, {}, FALSE)
      BY <1>4 DEF TerminalizeAnalysis
    <3>2. QED
      BY <1>r, <3>1
  <2>3. CASE Stage(item[i]) = "recorded"
    <3>1. item[i].state = "running"
      BY <1>a, <2>3 DEF Awaiting, Running
    <3>2. Transition(i, "blocked", {"running"}, "analyzer_retry_exhausted")
      BY <1>4, <3>1 DEF TerminalizeAnalysis, CanTransition
    <3>3. item' = [item EXCEPT ![i] = s] /\ Stage(s) = "blocked" /\ ~ s.aged /\ s.owner = NoWorker
      BY <3>1, <3>2, TransitionMove DEF Parked, Codes
    <3> HIDE DEF s
    <3>4. Move(w, item[i], judged[i], s, k)
      BY <2>3, <3>3 DEF Move
    <3>5. QED
      BY <1>o, <2>1, <2>2, <3>3, <3>4
  <2>4. CASE Stage(item[i]) \in {"blocked", "finished"}
    <3>1. item[i].state = "blocked" \/ ~ CanTransition(i, "blocked", {"running"})
      BY <2>4 DEF Stage, CanTransition
    <3>2. item' = item
      BY <1>4, <3>1 DEF TerminalizeAnalysis, Transition
    <3>3. item' = [item EXCEPT ![i] = item[i]]
      BY <1>t, <3>2
    <3>4. Move(w, item[i], judged[i], item[i], k)
      BY <1>0, <2>4 DEF Move, Fresh
    <3>5. QED
      BY <1>o, <2>1, <2>2, <3>3, <3>4
  <2>5. QED
    BY <2>1, <2>3, <2>4 DEF Past
<1>5. QED
  BY <1>1, <1>2, <1>3, <1>4 DEF Analyze

LEMMA CrashStep ==
    ASSUME TypeOK, CalmInv, NEW w \in Workers, Crash(w)
    PROVE  Moves(w) /\ Local(w)'
<1>1. Fresh /\ Local(w) /\ UNCHANGED <<item, judged>> /\ Exit(w) /\ Remaining(w, {}, {}, FALSE)
  BY DEF CalmInv, Crash, rows
<1>2. Moves(w)
  BY <1>1, RowsMove
<1>3. cohort'[w] \cup settled'[w] = {}
  BY <1>1, Types DEF Remaining
<1>4. QED
  BY <1>1, <1>2, <1>3, ExitLocal

-----------------------------------------------------------------------------
(* The other processes, and the theorems.                                    *)

\* A process writes only its own variables.
LEMMA Apart ==
    ASSUME TypeOK, NEW w \in Workers, Step(w) \/ Analyze(w) \/ Crash(w)
    PROVE  report' = report /\ \A v \in Workers \ {w} : SameLocal(v)
<1> DEFINE Goal == report' = report /\ \A v \in Workers \ {w} : SameLocal(v)
<1>t. /\ pc \in [Workers -> PCs] /\ sel \in [Workers -> SUBSET Items]
      /\ held \in [Workers -> SUBSET Items] /\ cohort \in [Workers -> SUBSET Items]
      /\ settled \in [Workers -> SUBSET Items]
  BY Types
\* What the shared parts of the handlers write.
<1>g. ASSUME NEW l, Goto(w, l) PROVE \A v \in Workers \ {w} : pc'[v] = pc[v]
  BY <1>t, <1>g DEF Goto
<1>e. ASSUME Exit(w)
      PROVE  \A v \in Workers \ {w} : pc'[v] = pc[v] /\ sel'[v] = sel[v] /\ held'[v] = held[v]
  BY <1>t, <1>e DEF Exit
<1>s. ASSUME NEW i, NEW note, Settle(w, i, note)
      PROVE  \A v \in Workers \ {w} : pc'[v] = pc[v] /\ held'[v] = held[v]
  <2>1. \E l : Goto(w, l)
    BY <1>s DEF Settle
  <2>2. QED
    BY <1>g, <1>t, <1>s, <2>1 DEF Settle
<1>m. ASSUME NEW left, NEW done, NEW again, Remaining(w, left, done, again)
      PROVE  \A v \in Workers \ {w} : cohort'[v] = cohort[v] /\ settled'[v] = settled[v]
  BY <1>t, <1>m DEF Remaining
<1>1. CASE Start(w) \/ RecoverAbandoned(w) \/ SelectStale(w) \/ ApplyStale(w)
           \/ PreflightBlocks(w) \/ SelectFailures(w) \/ PromoteDueRetries(w)
           \/ PromoteScheduled(w)
  BY <1>1, <1>g, <1>t DEF Start, RecoverAbandoned, SelectStale, ApplyStale, PreflightBlocks,
     SelectFailures, PromoteDueRetries, PromoteScheduled, SameLocal, analysis
<1>2. CASE Snapshot(w)
  <2>1. \E l : Goto(w, l)
    BY <1>2 DEF Snapshot
  <2>2. QED
    BY <1>2, <1>g, <1>t, <2>1 DEF Snapshot, SameLocal, analysis
<1>3. CASE Submit(w)
  <2>1. \E l : Goto(w, l)
    BY <1>3 DEF Submit
  <2>2. \A v \in Workers \ {w} : cohort'[v] = cohort[v] /\ settled'[v] = settled[v]
    BY <1>3, <1>m DEF Submit, analysis
  <2>3. QED
    BY <1>3, <1>g, <1>t, <2>1, <2>2 DEF Submit, SameLocal
<1>4. CASE RecoverFailure(w)
  <2>1. PICK i \in sel[w] : /\ RecordFailure(w, i)
                            /\ sel' = [sel EXCEPT ![w] = @ \ {i}]
                            /\ Goto(w, IF sel[w] = {i} THEN "failSnapshot" ELSE "record")
    BY <1>4 DEF RecoverFailure
  <2>2. QED
    BY <1>4, <1>g, <1>t, <2>1 DEF RecoverFailure, SameLocal, analysis
<1>5. CASE RecoverFailureRaises(w)
  BY <1>5, <1>e DEF RecoverFailureRaises, SameLocal, analysis
<1>6. CASE ClaimBatch(w) \/ ClaimNext(w)
  <2>1. UNCHANGED <<sel, analysis, report>>
        /\ ((\E l : Goto(w, l)) /\ (UNCHANGED held \/ \E S : Hold(w, S)))
    BY <1>6 DEF ClaimBatch, ClaimNext
  <2>2. \A v \in Workers \ {w} : held'[v] = held[v]
    BY <1>t, <2>1 DEF Hold
  <2>3. QED
    BY <1>g, <2>1, <2>2 DEF SameLocal, analysis
<1>7. ASSUME NEW i \in Items,
             \/ PersistRun(w, i) \/ MarkAwaiting(w, i) \/ EvaluateHpo(w, i)
             \/ FinishDirectly(w, i) \/ DeferInfrastructure(w, i) \/ ChargeRetry(w, i)
             \/ BlockForOperator(w, i) \/ FailToAnalysis(w, i)
      PROVE  Goal
  <2>1. UNCHANGED <<analysis, report>>
    BY <1>7 DEF PersistRun, MarkAwaiting, EvaluateHpo, FinishDirectly, DeferInfrastructure, ChargeRetry,
                BlockForOperator, FailToAnalysis, ExecFrame
  <2>2. UNCHANGED sel \/ \E S : sel' = [sel EXCEPT ![w] = S]
    BY <1>7 DEF PersistRun, MarkAwaiting, EvaluateHpo, FinishDirectly, DeferInfrastructure, ChargeRetry,
                BlockForOperator, FailToAnalysis, ExecFrame
  <2>3. (UNCHANGED held /\ \E l : Goto(w, l)) \/ \E note : Settle(w, i, note)
    BY <1>7 DEF PersistRun, MarkAwaiting, EvaluateHpo, FinishDirectly, DeferInfrastructure, ChargeRetry,
                BlockForOperator, FailToAnalysis
  <2>4. \A v \in Workers \ {w} : pc'[v] = pc[v] /\ held'[v] = held[v]
    BY <1>g, <1>s, <2>3
  <2>5. QED
    BY <1>t, <2>1, <2>2, <2>4 DEF SameLocal, analysis
<1>8. ASSUME NEW i \in Items, HandoffRaises(w, i) \/ UndoHandoff(w, i) \/ LostClaimRaises(w, i)
      PROVE  Goal
  <2>1. UNCHANGED <<analysis, report>>
    BY <1>8 DEF HandoffRaises, UndoHandoff, LostClaimRaises
  <2>2. \/ Exit(w)
        \/ Goto(w, "undo") /\ UNCHANGED <<sel, held>>
        \/ sel' = [sel EXCEPT ![w] = {}] /\ Settle(w, i, FALSE)
    BY <1>8 DEF HandoffRaises, UndoHandoff, LostClaimRaises
  <2>3. QED
    BY <1>e, <1>g, <1>s, <1>t, <2>1, <2>2 DEF SameLocal, analysis
<1>9. ASSUME NEW i \in Items,
             Finalize(w, i) \/ FinalizeRaises(w, i) \/ DeferAnalysis(w, i) \/ TerminalizeAnalysis(w, i)
      PROVE  Goal
  <2>1. UNCHANGED <<local, report>>
    BY <1>9 DEF Finalize, FinalizeRaises, DeferAnalysis, TerminalizeAnalysis, AnalysisFrame
  <2>2. \E left, done, again : Remaining(w, left, done, again)
    BY <1>9 DEF Finalize, FinalizeRaises, DeferAnalysis, TerminalizeAnalysis
  <2>3. QED
    BY <1>m, <2>1, <2>2 DEF SameLocal, local
<1>10. CASE Crash(w)
  BY <1>10, <1>e, <1>m DEF Crash, SameLocal
<1>11. QED
  BY <1>1, <1>2, <1>3, <1>4, <1>5, <1>6, <1>7, <1>8, <1>9, <1>10 DEF Step, Execute, Analyze

\* A process's step in a calm queue.
LEMMA ProcessStep ==
    ASSUME TypeOK, ClaimInv, CalmInv, NEW w \in Workers, Step(w) \/ Analyze(w) \/ Crash(w)
    PROVE  Moves(w) /\ CalmInv'
<1>1. Moves(w) /\ Local(w)'
  BY ReadStep, QueueStep, ExecuteStep, AnalyzeStep, CrashStep DEF Step
<1>2. report' = {} /\ \A v \in Workers \ {w} : SameLocal(v)
  BY Apart DEF CalmInv
<1>3. \A v \in Workers : Local(v)'
  <2>1. ASSUME NEW v \in Workers, v # w PROVE Local(v)'
    <3>1. Local(v) /\ SameLocal(v)
      BY <1>2, <2>1 DEF CalmInv
    <3>2. QED
      BY <1>1, <2>1, <3>1, OtherLocal
  <2>2. QED
    BY <1>1, <2>1
<1>4. Fresh'
  BY <1>1 DEF Moves, Move, Fresh
<1>5. VerdictsFit'
  <2>0. \A i \in Items : item'[i].plain = item[i].plain
    <3>1. [Next]_vars /\ item \in [Items -> Row]
      BY Types DEF Next
    <3>2. QED
      BY <3>1, RowsStep DEF SamePlain
  <2>1. ASSUME NEW i \in Items
        PROVE  /\ Stage(item'[i]) = "recorded" => judged'[i] = "none"
               /\ Stage(item'[i]) = "finished" =>
                     judged'[i] # "none" \/ (item'[i].plain /\ SoloWorkers # {})
    <3>1. /\ Stage(item[i]) = "recorded" => judged[i] = "none"
          /\ Stage(item[i]) = "finished" =>
                judged[i] # "none" \/ (item[i].plain /\ SoloWorkers # {})
      BY DEF CalmInv, VerdictsFit
    <3>2. Move(w, item[i], judged[i], item'[i], judged'[i])
      BY <1>1 DEF Moves
    <3>3. item'[i].plain = item[i].plain
      BY <2>0
    <3>4. QED
      BY <3>1, <3>2, <3>3 DEF Move
  <2>2. QED
    BY <2>1 DEF VerdictsFit
<1>6. QED
  BY <1>1, <1>2, <1>3, <1>4, <1>5 DEF CalmInv

\* Nothing that the life cycle sees changes.
Still ==
    /\ UNCHANGED <<judged, pc, sel, held, cohort, settled, report>>
    /\ \A i \in Items : /\ Stage(item'[i]) = Stage(item[i])
                        /\ item'[i].owner = item[i].owner /\ item'[i].aged = item[i].aged
                        /\ item'[i].plain = item[i].plain

LEMMA StillKeeps == ASSUME TypeOK, CalmInv, Still PROVE CalmInv'
<1>0. Fresh /\ VerdictsFit /\ report = {} /\ \A w \in Workers : Local(w)
  BY DEF CalmInv
<1>1. \A w \in Workers, i \in Items : Mine(w, i)' <=> Mine(w, i)
  BY DEF Still, Mine
<1>2. \A i \in Items : Past(i)' <=> Past(i)
  BY DEF Still, Past
<1>3. ASSUME NEW w \in Workers PROVE Local(w)'
  <2>1. /\ Local(w) /\ held[w] \subseteq Items /\ sel[w] \subseteq Items
        /\ cohort[w] \cup settled[w] \subseteq Items
    BY <1>0, Types
  <2>2. UNCHANGED <<judged, pc, sel, held, cohort, settled>>
    BY DEF Still
  <2>3. QED
    BY <1>1, <1>2, <2>1, <2>2 DEF Local
<1>4. Fresh' /\ VerdictsFit' /\ report' = {}
  BY <1>0 DEF Fresh, VerdictsFit, Still
<1>5. QED
  BY <1>3, <1>4 DEF CalmInv

\* As long as the queue stays calm only its processes act, and backoffs end.
LEMMA CalmNext ==
    ASSUME TypeOK, ClaimInv, BudgetInv, CalmInv, [Next]_vars, Calm'
    PROVE  CalmInv' /\ (Still \/ \E w \in Workers : Moves(w))
<1>0. ~ Spend("age") /\ ~ Spend("operator") /\ report = {}
  BY CalmStep DEF CalmInv
<1>1. CASE \E w \in Workers : Step(w) \/ Analyze(w) \/ Crash(w)
  BY <1>1, ProcessStep
<1>2. ASSUME NEW w \in Workers, Stop(w) PROVE FALSE
  BY <1>0, <1>2 DEF Stop
<1>3. CASE Operate
  <2>1. ASSUME BuildReconciliation \/ ApplyReconciliation \/ NormalizeBlockers PROVE FALSE
    BY <1>0, <2>1 DEF BuildReconciliation, ApplyReconciliation, NormalizeBlockers
  <2>2. ASSUME NEW i \in Items,
               \/ ResolveBlocked(i) \/ RetryBlocked(i) \/ RectifyBlocked(i)
               \/ \E w \in Workers : RequeueEvaluation(i, w)
        PROVE  FALSE
    BY <1>0, <2>2 DEF ResolveBlocked, RetryBlocked, RectifyBlocked, RequeueEvaluation
  <2>3. QED
    BY <1>3, <2>1, <2>2 DEF Operate
<1>4. ASSUME NEW i \in Items, ClaimAges(i) PROVE FALSE
  BY <1>0, <1>4 DEF ClaimAges
<1>5. ASSUME NEW i \in Items, BackoffEnds(i) PROVE Still
  <2>1. item \in [Items -> Row] /\ item' = [item EXCEPT ![i].later = FALSE]
        /\ UNCHANGED <<judged, pc, sel, held, cohort, settled, report>>
    BY <1>5, Types DEF BackoffEnds, OperatorFrame, local, analysis
  <2>2. /\ item[i] \in Row /\ item' = [item EXCEPT ![i] = [item[i] EXCEPT !.later = FALSE]]
    BY <2>1
  <2> DEFINE s == [item[i] EXCEPT !.later = FALSE]
  <2>3. /\ Stage(s) = Stage(item[i]) /\ s.owner = item[i].owner /\ s.aged = item[i].aged
        /\ s.plain = item[i].plain
    BY <2>2, StageColumns
  <2>4. item' = [item EXCEPT ![i] = s]
    BY <2>2
  <2> HIDE DEF s
  <2>5. \A j \in Items : item'[j] = IF j = i THEN s ELSE item[j]
    BY <2>1, <2>4
  <2>6. QED
    BY <2>1, <2>3, <2>5 DEF Still
<1>6. CASE UNCHANGED vars
  <2>1. UNCHANGED <<item, judged, pc, sel, held, cohort, settled, report>>
    BY <1>6 DEF vars
  <2>2. Still
    BY <2>1 DEF Still
  <2>3. QED
    BY <2>2, StillKeeps
<1>7. QED
  BY <1>1, <1>2, <1>3, <1>4, <1>5, <1>6, StillKeeps DEF Next

\* What holds in every state: the types, the claims, and a calm queue's order.
QueueInv == TypeOK /\ ClaimInv /\ BudgetInv /\ (Calm => CalmInv)

LEMMA QueueInvAlways == Spec => []QueueInv
<1> DEFINE Part == BudgetInv /\ (Calm => CalmInv)
<1>1. Init => Part
  <2> SUFFICES ASSUME Init PROVE Part
    OBVIOUS
  <2>1. BudgetInv
    BY QueueAssumption DEF Init, BudgetInv
  <2>2. Fresh /\ VerdictsFit
    BY InitRows DEF Fresh, VerdictsFit, Stage
  <2>5. report = {}
    BY DEF Init
  <2>3. \A w \in Workers : Local(w)
    BY DEF Init, Local, PastLabels
  <2>4. QED
    BY <2>1, <2>2, <2>3, <2>5 DEF CalmInv
<1>2. (TypeOK /\ ClaimInv) /\ Part /\ [Next]_vars => Part'
  <2> SUFFICES ASSUME TypeOK, ClaimInv, Part, [Next]_vars PROVE Part'
    OBVIOUS
  <2>1. BudgetInv' /\ (Calm' => Calm)
    BY CalmStep
  <2>2. Calm' => CalmInv'
    BY <2>1, CalmNext
  <2>3. QED
    BY <2>1, <2>2
<1> HIDE DEF Part
<1>3. Spec => []Part
  BY <1>1, <1>2, ClaimInvariant, PTL DEF Spec
<1>4. (TypeOK /\ ClaimInv) /\ Part => QueueInv
  BY DEF QueueInv, Part
<1>5. QED
  BY <1>3, <1>4, ClaimInvariant, PTL

\* Until a claim outlives its timeout or the operator intervenes, what a process
\* executes is claimed by it alone: no crash, restart, retry, recovery or late
\* analysis hands it to another process (database_queue.py claim_batch,
\* recover_abandoned_claims, recover_stale_unexecuted_claims).
THEOREM ClaimsStayExclusive == Spec => []ClaimsExclusiveUntilTimeout
<1>1. QueueInv => ClaimsExclusiveUntilTimeout
  <2> SUFFICES ASSUME QueueInv, Calm, NEW w \in Workers, NEW i \in held[w]
               PROVE  Running(i) /\ item[i].owner = w /\ ~ Awaiting(i)
    BY DEF ClaimsExclusiveUntilTimeout
  <2>1. Mine(w, i)
    BY DEF QueueInv, CalmInv, Local
  <2>2. QED
    BY <2>1 DEF Mine, Stage, Running, Awaiting
<1>2. QED
  BY <1>1, QueueInvAlways, PTL

-----------------------------------------------------------------------------
(* What a calm queue keeps of the runs it has stored.                        *)

Kept(i) == Awaiting(i) /\ ~ Awaiting(i)' =>
             judged'[i] # "none" \/ item'[i].blocker = "stale_worker_claim"

LEMMA StepKeeps ==
    ASSUME QueueInv, [Next]_vars, Calm'
    PROVE  \A i \in Items : Kept(i)
<1> SUFFICES ASSUME NEW i \in Items, Awaiting(i), ~ Awaiting(i)' PROVE judged'[i] # "none"
  BY DEF Kept
<1>1. Calm
  BY CalmStep DEF QueueInv
<1>2. Still \/ \E w \in Workers : Moves(w)
  BY <1>1, CalmNext DEF QueueInv
<1>3. Stage(item[i]) = "recorded"
  BY DEF Awaiting, Running, Stage
<1>4. Stage(item'[i]) # "recorded"
  BY DEF Awaiting, Running, Stage
<1>5. PICK w \in Workers : Move(w, item[i], judged[i], item'[i], judged'[i])
  BY <1>2, <1>3, <1>4 DEF Moves, Still
<1>6. QED
  BY <1>3, <1>4, <1>5 DEF Move

\* While the queue is calm a run that was handed to analysis stays so until its
\* verdict is stored, whatever is recovered, retried, deferred or killed: the late
\* results that could take it away are those of processes that have lost a claim
\* (database_queue.py _transition_work_item_row).
THEOREM CalmKeepsRuns == Spec /\ []Calm => KeptUntilEvaluated
<1>1. QueueInv /\ [Next]_vars /\ Calm' =>
        [\A i \in Items : Awaiting(i) /\ ~Awaiting(i)' =>
            \/ judged'[i] # "none"
            \/ item'[i].blocker = "stale_worker_claim"]_vars
  BY StepKeeps DEF Kept
<1>2. QED
  BY <1>1, QueueInvAlways, PTL DEF Spec, KeptUntilEvaluated

\* While the queue is calm a finished item has a verdict on its newest run, also
\* when several processes, their analysis threads and crashes store runs and
\* verdicts in separate transactions, unless its operation is one that a single-item
\* worker stores no evidence of and there is such a worker (worker.py run_once): with
\* supervisors only, every finished item is judged.
THEOREM CalmFinishesJudged == Spec /\ []Calm => []FinishedIsEvaluated
<1>1. QueueInv /\ Calm => FinishedIsEvaluated
  BY DEF QueueInv, CalmInv, VerdictsFit, FinishedIsEvaluated, Stage
<1>2. QED
  BY <1>1, QueueInvAlways, PTL

\* The steps of the queue are steps of the life cycle.
LEMMA MovesImplement ==
    ASSUME TypeOK, NEW w \in Workers, Moves(w), Calm, Calm'
    PROVE  Life!Next
<1>1. ASSUME NEW i \in Items
      PROVE  \/ Life!Stays(i) \/ Life!Claim(w, i) \/ Life!Return(w, i) \/ Life!Execute(w, i)
             \/ Life!Record(w, i) \/ Life!Finish(w, i) \/ Life!FinishPlain(w, i)
             \/ Life!Block(w, i) \/ Life!Rejudge(i)
  <2>p. item[i].plain => i \in PlainItems
    BY DEF TypeOK
  <2>1. Move(w, item[i], judged[i], item'[i], judged'[i])
    BY DEF Moves
  <2> DEFINE s == Stage(item[i])
             t == Stage(item'[i])
             v == judged[i] # "none"
             x == judged'[i] # "none"
  <2>2. /\ v \in BOOLEAN /\ x \in BOOLEAN
        /\ judged'[i] = judged[i] => x = v
        /\ judged'[i] = "none" => x = FALSE
        /\ judged'[i] # "none" => x = TRUE
    OBVIOUS
  <2>a. Life!Stays(i) <=> t = s /\ item'[i].owner = item[i].owner /\ x = v
    BY DEF Life!Stays, Life!Becomes
  <2>b. Life!Claim(w, i) <=> s = "waiting" /\ t = "claimed" /\ item'[i].owner = w /\ x = v
    BY DEF Life!Claim, Life!Becomes
  <2>h. Life!Holds(w, i) <=> s = "claimed" /\ item[i].owner = w
    BY DEF Life!Holds
  <2>c. Life!Return(w, i) <=> /\ Life!Holds(w, i)
                              /\ t = "waiting" /\ item'[i].owner = NoWorker /\ x = v
    BY DEF Life!Return, Life!Becomes
  <2>d. Life!Execute(w, i) <=> Life!Holds(w, i) /\ t = "claimed" /\ item'[i].owner = w
    BY DEF Life!Execute, Life!Becomes
  <2>e. Life!Record(w, i) <=> /\ Life!Holds(w, i) \/ s \in {"blocked", "recorded"}
                              /\ t = "recorded" /\ item'[i].owner = w /\ x = FALSE
    BY DEF Life!Record, Life!Becomes
  <2>f. Life!Finish(w, i) <=> /\ Life!Holds(w, i) \/ s = "recorded"
                              /\ t = "finished" /\ item'[i].owner = NoWorker /\ x = TRUE
    BY DEF Life!Finish, Life!Becomes
  <2>i. Life!FinishPlain(w, i) <=>
           /\ Life!Holds(w, i) /\ i \in PlainItems /\ w \in SoloWorkers
           /\ t = "finished" /\ item'[i].owner = NoWorker /\ x = v
    BY DEF Life!FinishPlain, Life!Becomes
  <2>g. Life!Block(w, i) <=>
           \/ Life!Holds(w, i) /\ t = "blocked" /\ item'[i].owner = NoWorker /\ x = v
           \/ s = "recorded" /\ t = "blocked" /\ item'[i].owner = NoWorker /\ x = TRUE
    BY DEF Life!Block, Life!Becomes
  <2>r. Life!Rejudge(i) <=> /\ s \in {"finished", "blocked"}
                            /\ t = s /\ item'[i].owner = item[i].owner /\ x = TRUE
    BY DEF Life!Rejudge, Life!Becomes
  <2> HIDE DEF s, t, v, x
  <2>6. \/ t = s /\ item'[i].owner = item[i].owner /\ x = v
        \/ s = "waiting" /\ t = "claimed" /\ item'[i].owner = w /\ x = v
        \/ /\ s = "claimed" /\ item[i].owner = w
           /\ \/ t \in {"waiting", "blocked"} /\ item'[i].owner = NoWorker /\ x = v
              \/ t = "claimed" /\ item'[i].owner = w
              \/ t = "recorded" /\ item'[i].owner = w /\ x = FALSE
              \/ t = "finished" /\ item'[i].owner = NoWorker /\ x = TRUE
              \/ /\ t = "finished" /\ item'[i].owner = NoWorker /\ x = v
                 /\ i \in PlainItems /\ w \in SoloWorkers
        \/ s \in {"blocked", "recorded"} /\ t = "recorded" /\ item'[i].owner = w /\ x = FALSE
        \/ /\ s = "recorded" /\ t \in {"finished", "blocked"}
           /\ item'[i].owner = NoWorker /\ x = TRUE
        \/ /\ s \in {"finished", "blocked"} /\ t = s
           /\ item'[i].owner = item[i].owner /\ x = TRUE
    BY <2>1, <2>2, <2>p DEF Move, s, t
  <2>7. QED
    BY <2>6, <2>a, <2>b, <2>c, <2>d, <2>e, <2>f, <2>g, <2>h, <2>i, <2>r
<1>2. Life!Act(w)
  BY <1>1 DEF Life!Act
<1>3. QED
  BY <1>2 DEF Life!Next

LEMMA StepImplements ==
    ASSUME QueueInv, [Next]_vars
    PROVE  [Life!Next]_(Life!life)
<1>1. CASE ~ Calm'
  BY <1>1 DEF Life!Next
<1>2. CASE Calm'
  <2>1. Calm
    BY <1>2, CalmStep DEF QueueInv
  <2>2. Still \/ \E w \in Workers : Moves(w)
    BY <1>2, <2>1, CalmNext DEF QueueInv
  <2>3. CASE Still
    <3>1. Life!life' = Life!life
      BY <1>2, <2>1, <2>3 DEF Still, Life!life
    <3>2. QED
      BY <3>1
  <2>4. QED
    BY <1>2, <2>1, <2>2, <2>3, MovesImplement DEF QueueInv
<1>3. QED
  BY <1>1, <1>2

\* The queue implements the life cycle: every transaction of the supervisors, of
\* their analysis threads, of the solo workers and of the operator, and every
\* crash, is one of its steps or changes nothing that it speaks of.  The worker's
\* finishing of an operation that it stores no evidence of is a step of its own
\* there (FinishPlain); every other way to finish an item brings its verdict.
THEOREM QueueImplementsLifecycle == Spec => LifecycleHolds
<1>1. Init => Life!Init
  <2> SUFFICES ASSUME Init PROVE Life!Init
    OBVIOUS
  <2>1. Calm
    BY DEF Init, Calm
  <2>2. \A i \in Items :
           /\ Stage(item[i]) \in {"waiting", "blocked"} /\ item[i].owner = NoWorker
           /\ judged[i] # "none" => Stage(item[i]) = "blocked"
    BY InitRows DEF Stage
  <2>3. QED
    BY <2>1, <2>2 DEF Life!Init
<1>2. QueueInv /\ [Next]_vars => [Life!Next]_(Life!life)
  BY StepImplements
<1>3. QED
  BY <1>1, <1>2, QueueInvAlways, PTL DEF Spec, Life!Spec, LifecycleHolds
=============================================================================
