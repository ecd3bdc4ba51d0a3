-------------------------- MODULE WorkQueueProofs --------------------------
(***************************************************************************)
(* Proofs about WorkQueue for any number of items and of processes.         *)
(***************************************************************************)
EXTENDS WorkQueue, FiniteSetTheorems, TLAPS

USE DEF Workers

\* The fields of a row.
LEMMA RowFields ==
    ASSUME NEW r \in Row
    PROVE  /\ r.state \in States /\ r.blocker \in Codes /\ r.attempts \in Nat
           /\ r.owner \in Workers \cup {NoWorker}
           /\ r.aged \in BOOLEAN /\ r.later \in BOOLEAN /\ r.plain \in BOOLEAN
  BY DEF Row

\* A row of the same operation.
Kin(r, q) == q \in Row /\ q.plain = r.plain

\* Replacing columns of a row yields a row of the same operation.
LEMMA RowExcept ==
    ASSUME NEW r \in Row
    PROVE  /\ \A s \in States : Kin(r, [r EXCEPT !.state = s])
           /\ \A c \in Codes : Kin(r, [r EXCEPT !.blocker = c])
           /\ \A b \in BOOLEAN : Kin(r, [r EXCEPT !.later = b])
           /\ \A b \in BOOLEAN : Kin(r, [r EXCEPT !.aged = b])
           /\ \A b \in BOOLEAN, n \in Nat :
                 Kin(r, [r EXCEPT !.later = b, !.attempts = n])
  BY DEF Row, Kin

\* The update that ends a claim.
LEMMA UnclaimedRow ==
    ASSUME NEW r \in Row, NEW s \in States, NEW c \in Codes
    PROVE  /\ Unclaimed(r, s, c) \in Row
           /\ Unclaimed(r, s, c).state = s
           /\ Unclaimed(r, s, c).blocker = c
           /\ Unclaimed(r, s, c).owner = NoWorker
           /\ Unclaimed(r, s, c).attempts = r.attempts
           /\ Kin(r, Unclaimed(r, s, c))
  BY DEF Row, Unclaimed, Kin

\* The update that makes a claim.
LEMMA ClaimedRow ==
    ASSUME NEW r \in Row, NEW c \in Codes, NEW w \in Workers
    PROVE  /\ Claimed(r, w, c) \in Row
           /\ Claimed(r, w, c).state = "running"
           /\ Claimed(r, w, c).blocker = c
           /\ Claimed(r, w, c).owner = w
           /\ Claimed(r, w, c).attempts = r.attempts
           /\ Kin(r, Claimed(r, w, c))
  BY DEF Row, Claimed, States, Kin

\* The guarded transition.
LEMMA MovedRow ==
    ASSUME NEW r \in Row, NEW s \in States, NEW c \in Codes
    PROVE  /\ Moved(r, s, c) \in Row
           /\ Moved(r, s, c).state = s
           /\ Moved(r, s, c).blocker = c
           /\ Moved(r, s, c).owner = NoWorker
           /\ Moved(r, s, c).attempts = IF s = "waiting_retry" THEN r.attempts + 1
                                                               ELSE r.attempts
           /\ Kin(r, Moved(r, s, c))
<1> DEFINE u == Unclaimed(r, s, c)
<1>1. /\ u \in Row /\ u.state = s /\ u.blocker = c /\ u.owner = NoWorker
      /\ u.attempts = r.attempts /\ u.plain = r.plain
  BY UnclaimedRow DEF Kin
<1> HIDE DEF u
<1> DEFINE charged == [u EXCEPT !.later = TRUE, !.attempts = @ + 1]
           kept == [u EXCEPT !.later = FALSE]
<1>a. \A n \in Nat : LET q == [u EXCEPT !.later = TRUE, !.attempts = n]
                    IN  /\ q \in Row /\ q.state = s /\ q.blocker = c
                        /\ q.owner = NoWorker /\ q.attempts = n /\ q.plain = u.plain
  BY <1>1 DEF Row
<1>b. u.attempts + 1 \in Nat /\ u.attempts + 1 = r.attempts + 1
  BY <1>1, RowFields
<1>2. /\ charged \in Row /\ charged.state = s /\ charged.blocker = c
      /\ charged.owner = NoWorker /\ charged.attempts = r.attempts + 1
      /\ charged.plain = u.plain
  BY <1>a, <1>b
<1>3. /\ kept \in Row /\ kept.state = s /\ kept.blocker = c
      /\ kept.owner = NoWorker /\ kept.attempts = r.attempts
      /\ kept.plain = u.plain
  BY <1>1 DEF Row
<1>4. Moved(r, s, c) = IF s = "waiting_retry" THEN charged ELSE kept
  BY DEF Moved, u
<1> HIDE DEF charged, kept
<1> QED
  BY <1>1, <1>2, <1>3, <1>4 DEF Kin

\* The row an infrastructure failure leaves.
LEMMA DeferredRow ==
    ASSUME NEW r \in Row
    PROVE  /\ Deferred(r) \in Row
           /\ Deferred(r).state = "waiting_retry"
           /\ Deferred(r).blocker = "execution_failure"
           /\ Deferred(r).owner = NoWorker
           /\ Deferred(r).attempts = r.attempts
           /\ Kin(r, Deferred(r))
<1> DEFINE u == Unclaimed(r, "waiting_retry", "execution_failure")
<1>1. /\ u \in Row /\ u.state = "waiting_retry" /\ u.blocker = "execution_failure"
      /\ u.owner = NoWorker /\ u.attempts = r.attempts /\ u.plain = r.plain
  BY UnclaimedRow DEF States, Codes, Kin
<1>2. Deferred(r) = [u EXCEPT !.later = TRUE]
  BY DEF Deferred
<1> HIDE DEF u
<1> QED
  BY <1>1, <1>2 DEF Row, Kin

\* Constants the handlers write into a row.
LEMMA Literals ==
    /\ {"scheduled", "ready", "running", "waiting_retry", "blocked", "finished",
        "archived"} \subseteq States
    /\ {"none", "awaiting_batch_evaluation", "stale_claim_recovered",
        "abandoned_claim", "execution_failure", "retry_limit_reached",
        "operator_requirement", "analyzer_retry_exhausted",
        "stale_worker_claim", "legacy_blocked", "legacy_history"} \subseteq Codes
  BY DEF States, Codes

\* A promotion of rows is a function of the same shape.
LEMMA PromotionType ==
    ASSUME NEW f \in [Items -> Row], NEW g \in Promotion(f)
    PROVE  g \in [Items -> Row] /\ \A i \in Items : g[i].plain = f[i].plain
<1>1. \A i \in Items : Kin(f[i], [f[i] EXCEPT !.state = "ready"])
  BY RowExcept, Literals
<1> QED
  BY <1>1 DEF Promotion, Kin

\* No step changes an item's operation.
SamePlain == \A i \in Items : item'[i].plain = item[i].plain

\* One row is replaced by one of the same operation.
LEMMA RowsPut ==
    ASSUME item \in [Items -> Row], NEW i \in Items, NEW r, Kin(item[i], r),
           item' = [item EXCEPT ![i] = r]
    PROVE  item' \in [Items -> Row] /\ SamePlain
  BY DEF SamePlain, Kin

\* transition_work_item leaves rows.
LEMMA TransitionType ==
    ASSUME item \in [Items -> Row], NEW i \in Items, NEW s \in States, NEW c \in Codes,
           NEW from, Transition(i, s, from, c)
    PROVE  item' \in [Items -> Row] /\ SamePlain
<1>1. Kin(item[i], Moved(item[i], s, c))
  BY MovedRow
<1>2. item' = item \/ item' = [item EXCEPT ![i] = Moved(item[i], s, c)]
  BY DEF Transition
<1> QED
  BY <1>1, <1>2, RowsPut DEF SamePlain

\* Every handler of every process, the operator and the clock leave rows of the same
\* operations.
LEMMA RowsStep == item \in [Items -> Row] /\ [Next]_vars
                    => item' \in [Items -> Row] /\ SamePlain
<1> SUFFICES ASSUME item \in [Items -> Row], [Next]_vars
             PROVE  item' \in [Items -> Row] /\ SamePlain
  OBVIOUS
<1> DEFINE Goal == item' \in [Items -> Row] /\ SamePlain
<1>0. \A i \in Items : item[i] \in Row
  OBVIOUS
<1>u. \A i \in Items, s \in States, c \in Codes : Kin(item[i], Unclaimed(item[i], s, c))
  BY <1>0, UnclaimedRow
<1>c. \A i \in Items, w \in Workers, c \in Codes : Kin(item[i], Claimed(item[i], w, c))
  BY <1>0, ClaimedRow
<1>k. ASSUME NEW r \in Row, NEW q, NEW p, Kin(r, q), Kin(q, p) PROVE Kin(r, p)
  BY <1>k DEF Kin
<1>s. item' = item => Goal
  BY DEF SamePlain
<1> HIDE DEF Goal
<1>p. ASSUME NEW i \in Items, NEW r, Kin(item[i], r), item' = [item EXCEPT ![i] = r] PROVE Goal
  BY <1>p, RowsPut DEF Goal
<1>t. ASSUME NEW i \in Items, NEW s \in States, NEW c \in Codes, NEW from,
             Transition(i, s, from, c)
      PROVE  Goal
  BY <1>t, TransitionType DEF Goal
<1>1. ASSUME NEW w \in Workers, Step(w) PROVE Goal
  <2>1. CASE RecoverAbandoned(w)
    <3>1. \A i \in Items : Kin(item[i], Unclaimed(item[i], "ready", "abandoned_claim"))
      BY <1>u, Literals
    <3> QED
      BY <1>0, <2>1, <3>1 DEF RecoverAbandoned, Kin, Goal, SamePlain
  <2>2. CASE ApplyStale(w)
    <3>1. \A i \in Items : Kin(item[i], Unclaimed(item[i], "ready", "stale_claim_recovered"))
      BY <1>u, Literals
    <3> QED
      BY <1>0, <2>2, <3>1 DEF ApplyStale, Kin, Goal, SamePlain
  <2>3. ASSUME NEW i \in Items, RecordFailure(w, i) PROVE Goal
    <3> DEFINE c == Claimed(item[i], w, "awaiting_batch_evaluation")
    <3>1. Kin(item[i], c)
      BY <1>c, Literals
    <3>2. Kin(c, [c EXCEPT !.later = FALSE])
      BY <3>1, RowExcept DEF Kin
    <3>3. item' = [item EXCEPT ![i] = [c EXCEPT !.later = FALSE]]
      BY <2>3 DEF RecordFailure
    <3> HIDE DEF c
    <3> QED
      BY <1>0, <1>k, <1>p, <3>1, <3>2, <3>3
  <2>4. CASE RecoverFailure(w)
    <3>1. PICK i \in sel[w] : RecordFailure(w, i)
      BY <2>4 DEF RecoverFailure
    <3>2. CASE i \in Items
      BY <2>3, <3>1, <3>2
    <3>3. CASE i \notin Items
      <4>1. \E r : item' = [item EXCEPT ![i] = r]
        BY <3>1 DEF RecordFailure
      <4>2. item' = item
        BY <3>3, <4>1
      <4> QED
        BY <1>s, <4>2
    <3> QED
      BY <3>2, <3>3
  <2>5. CASE PromoteDueRetries(w)
    <3>1. \A i \in Items : Kin(item[i], [item[i] EXCEPT !.state = "ready"])
      BY <1>0, RowExcept, Literals
    <3> QED
      BY <1>0, <2>5, <3>1 DEF PromoteDueRetries, Kin, Goal, SamePlain
  <2>6. CASE PromoteScheduled(w)
    BY <2>6, PromotionType DEF PromoteScheduled, Goal, SamePlain
  <2>7. CASE ClaimBatch(w)
    <3>1. \A i \in Items : Kin(item[i], Claimed(item[i], w, "none"))
      BY <1>c, Literals
    <3> QED
      BY <1>0, <2>7, <3>1 DEF ClaimBatch, Kin, Goal, SamePlain
  <2>8. CASE ClaimNext(w)
    <3>1. \A i \in Items : Kin(item[i], Claimed(item[i], w, item[i].blocker))
      BY <1>0, <1>c, RowFields
    <3>2. \/ item' = item
          \/ \E i \in Items : item' = [item EXCEPT ![i] = Claimed(item[i], w, item[i].blocker)]
      BY <2>8 DEF ClaimNext, InState
    <3> QED
      BY <1>p, <1>s, <3>1, <3>2
  <2>9. ASSUME NEW i \in Items, MarkAwaiting(w, i) PROVE Goal
    <3>1. Kin(item[i], [item[i] EXCEPT !.blocker = "awaiting_batch_evaluation"])
      BY <1>0, RowExcept, Literals
    <3>2. item' = [item EXCEPT ![i] = [item[i] EXCEPT !.blocker = "awaiting_batch_evaluation"]]
      BY <2>9 DEF MarkAwaiting
    <3> QED
      BY <1>p, <3>1, <3>2
  <2>10. ASSUME NEW i \in Items, FinishDirectly(w, i) PROVE Goal
    BY <1>t, <2>10, Literals DEF FinishDirectly
  <2>11. ASSUME NEW i \in Items, DeferInfrastructure(w, i) PROVE Goal
    <3>1. Kin(item[i], Deferred(item[i]))
      BY <1>0, DeferredRow
    <3>2. item' = [item EXCEPT ![i] = Deferred(item[i])]
      BY <2>11 DEF DeferInfrastructure
    <3> QED
      BY <1>p, <3>1, <3>2
  <2>12. ASSUME NEW i \in Items, ChargeRetry(w, i) PROVE Goal
    BY <1>t, <2>12, Literals DEF ChargeRetry
  <2>13. ASSUME NEW i \in Items, BlockForOperator(w, i) PROVE Goal
    BY <1>t, <2>13, Literals DEF BlockForOperator
  <2>14. ASSUME NEW i \in Items, FailToAnalysis(w, i) PROVE Goal
    BY <2>3, <2>14 DEF FailToAnalysis
  <2>15. ASSUME NEW i \in Items, UndoHandoff(w, i) PROVE Goal
    <3>1. Kin(item[i], Deferred(item[i]))
      BY <1>0, DeferredRow
    <3>2. item' = item \/ item' = [item EXCEPT ![i] = Deferred(item[i])]
      BY <2>15 DEF UndoHandoff
    <3> QED
      BY <1>p, <1>s, <3>1, <3>2
  <2>16. CASE item' = item
    BY <1>s, <2>16
  <2> QED
    BY <1>1, <2>1, <2>2, <2>4, <2>5, <2>6, <2>7, <2>8, <2>9, <2>10, <2>11,
       <2>12, <2>13, <2>14, <2>15, <2>16
    DEF Step, Execute, rows, Start, Snapshot, Submit, SelectStale, PreflightBlocks,
        SelectFailures, RecoverFailureRaises, PersistRun, EvaluateHpo, HandoffRaises,
        LostClaimRaises
<1>2. ASSUME NEW w \in Workers, Analyze(w) PROVE Goal
  <2>1. ASSUME NEW i \in Items, Finalize(w, i) PROVE Goal
    <3>1. Kin(item[i], Unclaimed(item[i], "finished", "none"))
      BY <1>u, Literals
    <3>2. item' = [item EXCEPT ![i] = Unclaimed(item[i], "finished", "none")]
      BY <2>1 DEF Finalize
    <3> QED
      BY <1>p, <3>1, <3>2
  <2>2. ASSUME NEW i \in Items, DeferAnalysis(w, i) PROVE Goal
    <3>1. Kin(item[i], [item[i] EXCEPT !.later = TRUE])
      BY <1>0, RowExcept
    <3>2. item' = item \/ item' = [item EXCEPT ![i] = [item[i] EXCEPT !.later = TRUE]]
      BY <2>2 DEF DeferAnalysis
    <3> QED
      BY <1>p, <1>s, <3>1, <3>2
  <2>3. ASSUME NEW i \in Items, TerminalizeAnalysis(w, i) PROVE Goal
    <3>1. \/ item' = item
          \/ Transition(i, "blocked", {"running"}, "analyzer_retry_exhausted")
      BY <2>3 DEF TerminalizeAnalysis
    <3> QED
      BY <1>s, <1>t, <3>1, Literals
  <2> QED
    BY <1>2, <1>s, <2>1, <2>2, <2>3 DEF Analyze, FinalizeRaises, rows
<1>3. ASSUME NEW w \in Workers, Crash(w) \/ Stop(w) PROVE Goal
  BY <1>3, <1>s DEF Crash, Stop, rows
<1>4. ASSUME Operate PROVE Goal
  <2>u. ASSUME NEW i \in Items, NEW s \in States, NEW c \in Codes,
               item' = [item EXCEPT ![i] = [Unclaimed(item[i], s, c) EXCEPT !.later = FALSE]]
        PROVE  Goal
    <3> DEFINE u == Unclaimed(item[i], s, c)
    <3>1. Kin(item[i], u)
      BY <1>u
    <3>2. Kin(u, [u EXCEPT !.later = FALSE])
      BY <3>1, RowExcept DEF Kin
    <3>3. item' = [item EXCEPT ![i] = [u EXCEPT !.later = FALSE]]
      BY <2>u
    <3> HIDE DEF u
    <3> QED
      BY <1>0, <1>k, <1>p, <3>1, <3>2, <3>3
  <2>1. ASSUME NEW i \in Items, ResolveBlocked(i) PROVE Goal
    BY <2>1, <2>u, Literals DEF ResolveBlocked
  <2>2. ASSUME NEW i \in Items, RetryBlocked(i) PROVE Goal
    <3> DEFINE u == Unclaimed(item[i], "scheduled", "none")
    <3> DEFINE q == [u EXCEPT !.later = FALSE, !.attempts = 0]
    <3> DEFINE f == [item EXCEPT ![i] = q]
    <3>1. Kin(item[i], u)
      BY <1>u, Literals
    <3>0. item' \in Promotion(f)
      BY <2>2 DEF RetryBlocked
    <3> HIDE DEF u
    <3>2. Kin(u, q)
      BY <3>1, RowExcept DEF Kin
    <3> HIDE DEF q
    <3>3. f \in [Items -> Row] /\ \A j \in Items : f[j].plain = item[j].plain
      BY <3>1, <3>2 DEF Kin
    <3> HIDE DEF f
    <3> QED
      BY <3>0, <3>3, PromotionType DEF Goal, SamePlain
  <2>3. ASSUME NEW i \in Items, RectifyBlocked(i) PROVE Goal
    BY <2>3, <2>u, Literals DEF RectifyBlocked
  <2>4. ASSUME NEW i \in Items, NEW w \in Workers, RequeueEvaluation(i, w) PROVE Goal
    <3>1. Kin(item[i], Claimed(item[i], w, "awaiting_batch_evaluation"))
      BY <1>c, Literals
    <3>2. item' = [item EXCEPT ![i] = Claimed(item[i], w, "awaiting_batch_evaluation")]
      BY <2>4 DEF RequeueEvaluation
    <3> QED
      BY <1>p, <3>1, <3>2
  <2>5. CASE BuildReconciliation
    BY <1>s, <2>5 DEF BuildReconciliation, rows
  <2>6. CASE ApplyReconciliation
    <3>1. PICK i \in Items : \/ Transition(i, "blocked", {"running"}, "stale_worker_claim")
                             \/ Transition(i, "archived", {"blocked"}, "legacy_history")
                             \/ UNCHANGED item
      BY <2>6 DEF ApplyReconciliation
    <3> QED
      BY <1>s, <1>t, <3>1, Literals
  <2>7. CASE NormalizeBlockers
    <3>1. \A i \in Items : Kin(item[i], Unclaimed(item[i], "scheduled", "none"))
      BY <1>u, Literals
    <3> QED
      BY <1>0, <2>7, <3>1 DEF NormalizeBlockers, Kin, Goal, SamePlain
  <2> QED
    BY <1>4, <2>1, <2>2, <2>3, <2>4, <2>5, <2>6, <2>7 DEF Operate
<1>5. ASSUME NEW i \in Items, ClaimAges(i) \/ BackoffEnds(i) PROVE Goal
  <2>1. /\ Kin(item[i], [item[i] EXCEPT !.aged = TRUE])
        /\ Kin(item[i], [item[i] EXCEPT !.later = FALSE])
    BY <1>0, RowExcept
  <2>2. \/ item' = [item EXCEPT ![i] = [item[i] EXCEPT !.aged = TRUE]]
        \/ item' = [item EXCEPT ![i] = [item[i] EXCEPT !.later = FALSE]]
    BY <1>5 DEF ClaimAges, BackoffEnds
  <2> QED
    BY <1>p, <2>1, <2>2
<1>6. ASSUME UNCHANGED vars PROVE Goal
  BY <1>6, <1>s DEF vars
<1> QED
  BY <1>1, <1>2, <1>3, <1>4, <1>5, <1>6 DEF Next, Goal

\* A bound that is spent stays a natural number.
LEMMA SpendType ==
    ASSUME budget \in [Bounds -> Nat], NEW b \in Bounds, Spend(b)
    PROVE  budget' \in [Bounds -> Nat]
<1>1. budget[b] \in Nat /\ budget[b] > 0 /\ budget' = [budget EXCEPT ![b] = budget[b] - 1]
  BY DEF Spend
<1>2. budget[b] - 1 \in Nat
  BY <1>1
<1> QED
  BY <1>1, <1>2

\* The variables of the analysis threads.
TurnType == /\ cohort \in [Workers -> SUBSET Items] /\ settled \in [Workers -> SUBSET Items]
            /\ retried \in [Workers -> BOOLEAN]

\* What a turn has left keeps its shape.
LEMMA RemainingType ==
    ASSUME TurnType, NEW w, NEW left \in SUBSET Items, NEW done \in SUBSET Items,
           NEW again \in BOOLEAN, Remaining(w, left, done, again)
    PROVE  TurnType'
  BY DEF TurnType, Remaining

\* The remaining variables keep their shapes too.
LEMMA TypeStep == TypeOK /\ [Next]_vars => TypeOK'
<1> SUFFICES ASSUME TypeOK, [Next]_vars PROVE TypeOK'
  OBVIOUS
<1>0. item' \in [Items -> Row] /\ \A i \in Items : item'[i].plain => i \in PlainItems
  BY RowsStep DEF TypeOK, SamePlain
<1> USE <1>0 DEF TypeOK, rows, local, analysis, Bounds, PCs
<1>1. ASSUME NEW w \in Workers, Step(w) PROVE TypeOK'
  <2>1. CASE Start(w)
    BY <2>1 DEF Start, Goto
  <2>2. CASE RecoverAbandoned(w)
    BY <2>2 DEF RecoverAbandoned, Goto
  <2>3. CASE Snapshot(w)
    <3>1. \A S : AnalysisReady(S) \subseteq S
      BY DEF AnalysisReady
    <3>2. Pending(w) \subseteq Items
      BY DEF Pending
    <3> QED
      BY <2>3, <3>1, <3>2 DEF Snapshot, Goto, At
  <2>4. CASE Submit(w)
    <3>1. TurnType'
      <4>1. CASE Remaining(w, sel[w], {}, FALSE)
        BY <4>1, RemainingType DEF TurnType
      <4>2. CASE UNCHANGED analysis
        BY <4>2 DEF TurnType
      <4> QED
        BY <2>4, <4>1, <4>2 DEF Submit
    <3> QED
      BY <2>4, <3>1 DEF Submit, Goto, At, TurnType
  <2>5. CASE SelectStale(w)
    BY <2>5 DEF SelectStale, Goto
  <2>6. CASE ApplyStale(w)
    BY <2>6 DEF ApplyStale, Goto
  <2>7. CASE PreflightBlocks(w)
    BY <2>7 DEF PreflightBlocks, Goto, Spend
  <2>8. CASE SelectFailures(w)
    BY <2>8 DEF SelectFailures, Goto, InState
  <2>9. ASSUME NEW i \in Items, RecordFailure(w, i)
        PROVE  /\ runs' \in [Items -> Evidence]
               /\ judged' \in [Items -> {"none", "verdict", "infrastructure_failure"}]
               /\ noted' \in [Workers -> SUBSET Items]
    <3>0. runs[i] \in Evidence
      OBVIOUS
    <3>1. [runs[i] EXCEPT !.last = "stopped"] \in Evidence
      BY <3>0 DEF Evidence
    <3> QED
      BY <2>9, <3>1 DEF RecordFailure
  <2>10. CASE RecoverFailure(w)
    <3>1. PICK i \in Items : /\ RecordFailure(w, i)
                             /\ sel' = [sel EXCEPT ![w] = @ \ {i}]
                             /\ Goto(w, IF sel[w] = {i} THEN "failSnapshot" ELSE "record")
      BY <2>10 DEF RecoverFailure
    <3> QED
      BY <2>9, <2>10, <3>1 DEF RecoverFailure, Goto
  <2>11. CASE RecoverFailureRaises(w)
    BY <2>11 DEF RecoverFailureRaises, Exit
  <2>12. CASE PromoteDueRetries(w) \/ PromoteScheduled(w)
    BY <2>12 DEF PromoteDueRetries, PromoteScheduled, Goto
  <2>13. \A S \in SUBSET Items :
            Hold(w, S) => /\ held' \in [Workers -> SUBSET Items]
                          /\ snap' \in [Workers -> [Items -> Nat]]
    BY RowFields DEF Hold
  <2>14. CASE ClaimBatch(w)
    BY <2>13, <2>14 DEF ClaimBatch, Goto, InState
  <2>15. CASE ClaimNext(w)
    <3>1. /\ held' \in [Workers -> SUBSET Items]
          /\ snap' \in [Workers -> [Items -> Nat]]
      <4>1. ASSUME NEW i \in Items, Hold(w, {i})
            PROVE  /\ held' \in [Workers -> SUBSET Items]
                   /\ snap' \in [Workers -> [Items -> Nat]]
        BY <2>13, <4>1
      <4> QED
        BY <2>15, <4>1 DEF ClaimNext, InState
    <3>2. pc' \in [Workers -> PCs]
      BY <2>15 DEF ClaimNext, Goto
    <3> QED
      BY <2>15, <3>1, <3>2 DEF ClaimNext
  <2>16. ASSUME NEW i \in Items, PersistRun(w, i) PROVE TypeOK'
    BY <2>16 DEF PersistRun, Goto, Handover, Evidence
  <2>17. ASSUME NEW i \in Items, NEW note \in BOOLEAN, Settle(w, i, note)
         PROVE  /\ held' \in [Workers -> SUBSET Items]
                /\ snap' \in [Workers -> [Items -> Nat]]
                /\ pc' \in [Workers -> PCs]
    BY <2>17 DEF Settle, Goto
  <2>18. ASSUME NEW i \in Items, MarkAwaiting(w, i) PROVE TypeOK'
    BY <2>17, <2>18 DEF MarkAwaiting
  <2>26. ASSUME NEW i \in Items, EvaluateHpo(w, i) PROVE TypeOK'
    BY <2>26 DEF EvaluateHpo, Goto
  <2>19. ASSUME NEW i \in Items, FinishDirectly(w, i) PROVE TypeOK'
    BY <2>17, <2>19 DEF FinishDirectly
  <2>20. ASSUME NEW i \in Items, HandoffRaises(w, i) PROVE TypeOK'
    <3>1. /\ judged' \in [Items -> {"none", "verdict", "infrastructure_failure"}]
          /\ UNCHANGED <<item, runs, analysis, report, budget>>
      BY <2>20 DEF HandoffRaises
    <3>2. CASE Exit(w)
      BY <3>1, <3>2 DEF Exit
    <3>3. CASE Goto(w, "undo") /\ UNCHANGED <<sel, held, snap, noted>>
      BY <3>1, <3>3 DEF Goto
    <3> QED
      BY <2>20, <3>2, <3>3 DEF HandoffRaises
  <2>21. ASSUME NEW i \in Items, DeferInfrastructure(w, i) PROVE TypeOK'
    <3>1. budget' \in [Bounds -> Nat]
      BY <2>21, SpendType DEF DeferInfrastructure
    <3> QED
      BY <2>17, <2>21, <3>1 DEF DeferInfrastructure, ExecFrame
  <2>25. ASSUME NEW i \in Items, UndoHandoff(w, i) PROVE TypeOK'
    <3>1. UNCHANGED <<runs, judged, analysis, report, budget>>
      BY <2>25 DEF UndoHandoff
    <3>2. CASE Exit(w)
      BY <3>1, <3>2 DEF Exit
    <3>3. CASE sel' = [sel EXCEPT ![w] = {}] /\ Settle(w, i, FALSE) /\ UNCHANGED noted
      <4>1. /\ held' \in [Workers -> SUBSET Items]
            /\ snap' \in [Workers -> [Items -> Nat]]
            /\ pc' \in [Workers -> PCs]
        BY <2>17, <3>3
      <4> QED
        BY <3>1, <3>3, <4>1
    <3> QED
      BY <2>25, <3>2, <3>3 DEF UndoHandoff
  <2>22. ASSUME NEW i \in Items, ChargeRetry(w, i) \/ BlockForOperator(w, i) PROVE TypeOK'
    BY <2>17, <2>22 DEF ChargeRetry, BlockForOperator, ExecFrame
  <2>23. ASSUME NEW i \in Items, FailToAnalysis(w, i) PROVE TypeOK'
    BY <2>9, <2>17, <2>23 DEF FailToAnalysis, ExecFrame
  <2>24. ASSUME NEW i \in Items, LostClaimRaises(w, i) PROVE TypeOK'
    BY <2>24 DEF LostClaimRaises, Exit
  <2> QED
    BY <1>1, <2>1, <2>2, <2>3, <2>4, <2>5, <2>6, <2>7, <2>8, <2>10, <2>11, <2>12,
       <2>14, <2>15, <2>16, <2>18, <2>19, <2>20, <2>21, <2>22, <2>23, <2>24, <2>25, <2>26
    DEF Step, Execute
<1>2. ASSUME NEW w \in Workers, Analyze(w) PROVE TypeOK'
  <2> USE DEF TurnType
  <2>0. \A i \in Items : /\ cohort[w] \ {i} \in SUBSET Items
                        /\ settled[w] \ {i} \in SUBSET Items
                        /\ settled[w] \cup {i} \in SUBSET Items
                        /\ settled[w] \in SUBSET Items /\ retried[w] \in BOOLEAN
                        /\ TurnType
    OBVIOUS
  <2> HIDE DEF TypeOK
  <2>1. ASSUME NEW i \in Items, Finalize(w, i) PROVE TypeOK'
    <3>1. Remaining(w, cohort[w] \ {i}, settled[w] \cup {i}, retried[w])
      BY <2>1 DEF Finalize
    <3>2. TurnType'
      BY <2>0, <3>1 DEF Remaining, TurnType
    <3> QED
      BY <2>1, <3>2 DEF TypeOK, Finalize, AnalysisFrame
  <2>4. ASSUME NEW i \in Items, FinalizeRaises(w, i) PROVE TypeOK'
    <3>1. PICK done \in SUBSET settled[w] : Remaining(w, cohort[w] \cup done, {}, TRUE)
      BY <2>4 DEF FinalizeRaises
    <3>2. TurnType'
      BY <2>0, <3>1, RemainingType
    <3> QED
      BY <2>4, <3>2 DEF TypeOK, FinalizeRaises, AnalysisFrame
  <2>2. ASSUME NEW i \in Items, DeferAnalysis(w, i) PROVE TypeOK'
    <3>1. budget' \in [Bounds -> Nat]
      BY <2>2, SpendType DEF TypeOK, DeferAnalysis
    <3>2. TurnType'
      <4>1. CASE Awaiting(i)
        <5>1. Remaining(w, cohort[w] \ {i}, settled[w], retried[w])
          BY <2>2, <4>1 DEF DeferAnalysis
        <5> QED
          BY <2>0, <5>1 DEF Remaining, TurnType
      <4>2. CASE ~Awaiting(i)
        BY <2>0, <2>2, <4>2, RemainingType DEF DeferAnalysis
      <4> QED
        BY <4>1, <4>2
    <3> QED
      BY <2>2, <3>1, <3>2 DEF TypeOK, DeferAnalysis
  <2>3. ASSUME NEW i \in Items, TerminalizeAnalysis(w, i) PROVE TypeOK'
    <3>1. \/ Remaining(w, cohort[w] \ {i}, settled[w] \ {i}, retried[w])
          \/ Remaining(w, {}, {}, FALSE)
      BY <2>3 DEF TerminalizeAnalysis
    <3>2. TurnType'
      BY <2>0, <3>1 DEF Remaining, TurnType
    <3> QED
      BY <2>3, <3>2 DEF TypeOK, TerminalizeAnalysis, AnalysisFrame
  <2> QED
    BY <1>2, <2>1, <2>2, <2>3, <2>4 DEF Analyze
<1>3. ASSUME NEW w \in Workers, Crash(w) \/ Stop(w) PROVE TypeOK'
  <2>1. budget' \in [Bounds -> Nat]
    BY <1>3, SpendType DEF Crash, Stop
  <2>2. CASE Crash(w)
    <3>1. TurnType'
      BY <2>2, RemainingType DEF Crash, TurnType
    <3> QED
      BY <2>1, <2>2, <3>1 DEF Crash, Exit, TurnType
  <2>3. CASE Stop(w)
    BY <2>1, <2>3 DEF Stop, Exit
  <2> QED
    BY <1>3, <2>2, <2>3
<1>4. CASE Operate
  <2> USE DEF OperatorFrame
  <2>1. ASSUME NEW i \in Items, ResolveBlocked(i) \/ RetryBlocked(i) \/ RectifyBlocked(i)
        PROVE TypeOK'
    <3>1. budget' \in [Bounds -> Nat]
      BY <2>1, SpendType DEF ResolveBlocked, RectifyBlocked, RetryBlocked
    <3> QED
      BY <2>1, <3>1 DEF ResolveBlocked, RectifyBlocked, RetryBlocked
  <2>2. ASSUME NEW i \in Items, NEW w \in Workers, RequeueEvaluation(i, w) PROVE TypeOK'
    <3>1. budget' \in [Bounds -> Nat]
      BY <2>2, SpendType DEF RequeueEvaluation
    <3> QED
      BY <2>2, <3>1 DEF RequeueEvaluation
  <2>3. CASE BuildReconciliation
    <3>1. budget' \in [Bounds -> Nat]
      BY <2>3, SpendType DEF BuildReconciliation
    <3>2. report' \in SUBSET (Items \X {"blocked", "archived"})
      BY <2>3 DEF BuildReconciliation, InState
    <3> QED
      BY <2>3, <3>1, <3>2 DEF BuildReconciliation
  <2>4. CASE ApplyReconciliation
    <3>1. report' \in SUBSET (Items \X {"blocked", "archived"})
      BY <2>4 DEF ApplyReconciliation
    <3> QED
      BY <2>4, <3>1 DEF ApplyReconciliation
  <2>5. CASE NormalizeBlockers
    <3>1. budget' \in [Bounds -> Nat]
      BY <2>5, SpendType DEF NormalizeBlockers
    <3> QED
      BY <2>5, <3>1 DEF NormalizeBlockers
  <2> QED
    BY <1>4, <2>1, <2>2, <2>3, <2>4, <2>5 DEF Operate
<1>5. ASSUME NEW i \in Items, ClaimAges(i) \/ BackoffEnds(i) PROVE TypeOK'
  <2>1. budget' \in [Bounds -> Nat]
    BY <1>5, SpendType DEF ClaimAges, BackoffEnds
  <2> QED
    BY <1>5, <2>1 DEF ClaimAges, BackoffEnds, OperatorFrame
<1>6. CASE UNCHANGED vars
  BY <1>6 DEF vars
<1> QED
  BY <1>1, <1>2, <1>3, <1>4, <1>5, <1>6 DEF Next

\* The first rows: scheduled, or left blocked by an import, never claimed.
LEMMA InitRows ==
    ASSUME Init
    PROVE  /\ item \in [Items -> Row]
           /\ \A i \in Items :
                /\ item[i].plain => i \in PlainItems
                /\ item[i].owner = NoWorker /\ item[i].attempts = 0 /\ ~item[i].aged
                /\ \/ /\ item[i].state = "scheduled" /\ item[i].blocker = "none"
                      /\ judged[i] = "none"
                   \/ item[i].state = "blocked" /\ item[i].blocker = "legacy_blocked"
<1>1. PICK plain \in SUBSET PlainItems, old \in SUBSET LegacyItems, known \in SUBSET LegacyItems :
         /\ known \subseteq old
         /\ item = [i \in Items |->
                     IF i \in old THEN NewRow("blocked", "legacy_blocked", i \in plain)
                                  ELSE NewRow("scheduled", "none", i \in plain)]
         /\ \A i \in Items \ known : judged[i] = "none"
  BY DEF Init
<1>2. \A b \in BOOLEAN : /\ NewRow("blocked", "legacy_blocked", b) \in Row
                         /\ NewRow("scheduled", "none", b) \in Row
  BY DEF NewRow, Row, States, Codes
<1>3. \A i \in Items : item[i] = IF i \in old THEN NewRow("blocked", "legacy_blocked", i \in plain)
                                              ELSE NewRow("scheduled", "none", i \in plain)
  BY <1>1
<1>4. item \in [Items -> Row]
  <2>1. \A i \in Items : (i \in plain) \in BOOLEAN
    OBVIOUS
  <2>2. \A i \in Items : item[i] \in Row
    BY <1>2, <1>3, <2>1
  <2>3. item = [i \in Items |-> item[i]]
    BY <1>1
  <2> QED
    BY <2>2, <2>3
<1> QED
  BY <1>1, <1>3, <1>4 DEF NewRow

\* Rows, evidence and process-local variables keep their shapes in every run of
\* the queue, for any items and any processes.
THEOREM TypeCorrect == Spec => []TypeOK
<1>1. Init => TypeOK
  <2> SUFFICES ASSUME Init PROVE TypeOK
    OBVIOUS
  <2>1. item \in [Items -> Row] /\ \A i \in Items : item[i].plain => i \in PlainItems
    BY InitRows
  <2>2. budget \in [Bounds -> Nat]
    BY QueueAssumption DEF Init, Bounds
  <2>3. runs \in [Items -> Evidence]
    BY DEF Init, Evidence
  <2>7. judged \in [Items -> {"none", "verdict", "infrastructure_failure"}]
    BY DEF Init
  <2>4. pc \in [Workers -> PCs]
    BY DEF Init, PCs
  <2>5. snap \in [Workers -> [Items -> Nat]]
    BY DEF Init
  <2>6. /\ sel \in [Workers -> SUBSET Items] /\ held \in [Workers -> SUBSET Items]
        /\ noted \in [Workers -> SUBSET Items] /\ TurnType
        /\ report \in SUBSET (Items \X {"blocked", "archived"})
    BY DEF Init, TurnType
  <2> QED
    BY <2>1, <2>2, <2>3, <2>4, <2>5, <2>6, <2>7 DEF TypeOK, TurnType
<1> QED
  BY <1>1, TypeStep, PTL DEF Spec

-----------------------------------------------------------------------------
(* Claims and evidence.  ClaimsMatchStates and AwaitingHasEvidence are not    *)
(* inductive: the hand-off relies on the run stored by the transaction before *)
(* it, and requeue_finished_evaluation on finished runs being latest runs.    *)

\* A process about to hand an execution over has stored its run.
HandoffInv ==
    \A w \in Workers : \A i \in sel[w] :
        pc[w] \in {"handoff", "evaluate", "finish", "undo"} => runs[i].last # "none"

\* A stored finished run is a run.
EvidenceInv == \A i \in Items : runs[i].finished => runs[i].last # "none"

\* A row that nothing claims and nothing analyzes.
Idle(r) == /\ r.state # "running" /\ r.owner = NoWorker
           /\ r.blocker # "awaiting_batch_evaluation"

\* A row that one process claims, whose item's latest run is `last`.
Busy(r, last) == /\ r.state = "running" /\ r.owner \in Workers
                 /\ r.blocker = "awaiting_batch_evaluation" => last # "none"

RowInv == \A i \in Items : Idle(item[i]) \/ Busy(item[i], runs[i].last)

ClaimInv == RowInv /\ HandoffInv /\ EvidenceInv

\* What ending a claim leaves is idle.
LEMMA IdleRow ==
    ASSUME NEW r \in Row, NEW s \in States \ {"running"},
           NEW c \in Codes \ {"awaiting_batch_evaluation"}
    PROVE  Idle(Unclaimed(r, s, c)) /\ Idle(Moved(r, s, c)) /\ Idle(Deferred(r))
<1>1. Idle(Unclaimed(r, s, c))
  BY UnclaimedRow DEF Idle
<1>2. Idle(Moved(r, s, c))
  BY MovedRow DEF Idle
<1>3. Idle(Deferred(r))
  BY DeferredRow DEF Idle
<1> QED
  BY <1>1, <1>2, <1>3

\* Columns that do not tell idle rows from busy ones.
LEMMA IdleColumns ==
    ASSUME NEW r \in Row, NEW last
    PROVE  /\ \A b \in BOOLEAN : /\ Idle(r) => Idle([r EXCEPT !.later = b])
                                 /\ Idle(r) => Idle([r EXCEPT !.aged = b])
                                 /\ Busy(r, last) => Busy([r EXCEPT !.later = b], last)
                                 /\ Busy(r, last) => Busy([r EXCEPT !.aged = b], last)
           /\ \A b \in BOOLEAN : \A n \in Nat :
                 Idle(r) => Idle([r EXCEPT !.later = b, !.attempts = n])
           /\ Idle(r) => Idle([r EXCEPT !.state = "ready"])
           /\ Busy(r, last) /\ last # "none" =>
                 Busy([r EXCEPT !.blocker = "awaiting_batch_evaluation"], last)
  BY DEF Idle, Busy, Row

\* Claiming makes a row busy.
LEMMA BusyRow ==
    ASSUME NEW r \in Row, NEW w \in Workers, NEW c \in Codes, NEW last,
           c = "awaiting_batch_evaluation" => last # "none"
    PROVE  Busy(Claimed(r, w, c), last)
  BY ClaimedRow DEF Busy

\* transition_work_item leaves idle rows or does nothing.
LEMMA IdleTransition ==
    ASSUME item \in [Items -> Row], NEW i \in Items, NEW s \in States \ {"running"},
           NEW c \in Codes \ {"awaiting_batch_evaluation"}, NEW from,
           Transition(i, s, from, c)
    PROVE  \A j \in Items : item'[j] = item[j] \/ Idle(item'[j])
<1>1. Idle(Moved(item[i], s, c))
  BY IdleRow
<1> QED
  BY <1>1 DEF Transition

\* Promotion keeps idle rows idle and touches no other.
LEMMA IdlePromotion ==
    ASSUME NEW f \in [Items -> Row], NEW g \in Promotion(f),
           \A i \in Items : f[i].state = "scheduled" => Idle(f[i])
    PROVE  \A i \in Items : g[i] = f[i] \/ Idle(g[i])
<1>1. ASSUME NEW i \in Items, f[i].state = "scheduled"
      PROVE  Idle([f[i] EXCEPT !.state = "ready"])
  <2>1. f[i] \in Row
    OBVIOUS
  <2> QED
    BY <1>1, <2>1 DEF Idle, Row
<1>2. \A i \in Items : \/ g[i] = f[i]
                       \/ f[i].state = "scheduled" /\ g[i] = [f[i] EXCEPT !.state = "ready"]
  BY DEF Promotion
<1> QED
  BY <1>1, <1>2

\* Runs are never withdrawn.
LEMMA RunsStep ==
    ASSUME TypeOK, EvidenceInv, [Next]_vars
    PROVE  /\ \A i \in Items : runs[i].last # "none" => runs'[i].last # "none"
           /\ EvidenceInv'
<1> DEFINE Kept == runs' = runs
<1>1. ASSUME NEW w \in Workers, NEW i \in Items, PersistRun(w, i)
      PROVE  runs' = [runs EXCEPT ![i] = [finished |-> TRUE, last |-> "finished"]]
  BY <1>1 DEF PersistRun
<1>2. ASSUME NEW w \in Workers, NEW i, RecordFailure(w, i)
      PROVE  runs' = [runs EXCEPT ![i].last = "stopped"]
  BY <1>2 DEF RecordFailure
<1>3. \/ Kept
      \/ \E i \in Items : runs' = [runs EXCEPT ![i] = [finished |-> TRUE, last |-> "finished"]]
      \/ \E i : runs' = [runs EXCEPT ![i].last = "stopped"]
  <2>1. ASSUME NEW w \in Workers, Step(w) PROVE <1>3
    <3>1. ASSUME NEW i \in Items, PersistRun(w, i) PROVE <1>3
      BY <1>1, <3>1
    <3>2. ASSUME NEW i, RecordFailure(w, i) PROVE <1>3
      BY <1>2, <3>2
    <3> QED
      BY <2>1, <3>1, <3>2
      DEF Step, Execute, rows, Start, RecoverAbandoned, Snapshot, Submit, SelectStale,
          ApplyStale, PreflightBlocks, SelectFailures, RecoverFailure,
          RecoverFailureRaises, PromoteDueRetries, PromoteScheduled, ClaimBatch,
          ClaimNext, MarkAwaiting, EvaluateHpo, FinishDirectly, HandoffRaises, UndoHandoff,
          DeferInfrastructure, ChargeRetry, BlockForOperator, FailToAnalysis,
          LostClaimRaises
  <2>2. ASSUME NEW w \in Workers, Analyze(w) \/ Crash(w) \/ Stop(w) PROVE Kept
    BY <2>2 DEF Analyze, Finalize, FinalizeRaises, DeferAnalysis, TerminalizeAnalysis,
                Crash, Stop, rows
  <2>3. CASE Operate
    BY <2>3 DEF Operate, ResolveBlocked, RetryBlocked, RectifyBlocked,
                RequeueEvaluation, BuildReconciliation, ApplyReconciliation,
                NormalizeBlockers, rows
  <2>4. ASSUME NEW i \in Items, ClaimAges(i) \/ BackoffEnds(i) PROVE Kept
    BY <2>4 DEF ClaimAges, BackoffEnds
  <2>5. CASE UNCHANGED vars
    BY <2>5 DEF vars
  <2> QED
    BY <2>1, <2>2, <2>3, <2>4, <2>5 DEF Next
<1>4. runs \in [Items -> Evidence]
  BY DEF TypeOK
<1>5. CASE \E i : runs' = [runs EXCEPT ![i].last = "stopped"]
  <2>1. PICK i : runs' = [runs EXCEPT ![i].last = "stopped"]
    BY <1>5
  <2>2. \A j \in Items : \/ runs'[j] = runs[j]
                         \/ runs'[j] = [runs[j] EXCEPT !.last = "stopped"]
    BY <1>4, <2>1
  <2>3. \A j \in Items : [runs[j] EXCEPT !.last = "stopped"].last = "stopped"
    BY <1>4 DEF Evidence
  <2> QED
    BY <2>2, <2>3 DEF EvidenceInv
<1>6. CASE \E i \in Items : runs' = [runs EXCEPT ![i] = [finished |-> TRUE, last |-> "finished"]]
  BY <1>4, <1>6 DEF EvidenceInv
<1>7. CASE Kept
  BY <1>7 DEF EvidenceInv
<1> QED
  BY <1>3, <1>5, <1>6, <1>7

\* Every step leaves a row as it is, idle, or busy.
LEMMA RowStep ==
    ASSUME TypeOK, ClaimInv, [Next]_vars
    PROVE  \A j \in Items : \/ item'[j] = item[j] \/ Idle(item'[j])
                            \/ Busy(item'[j], runs'[j].last)
<1> DEFINE Goal == \A j \in Items : \/ item'[j] = item[j] \/ Idle(item'[j])
                                    \/ Busy(item'[j], runs'[j].last)
<1>0. item \in [Items -> Row] /\ \A i \in Items : item[i] \in Row
  BY DEF TypeOK
<1>i. \A i \in Items : item[i].state # "running" => Idle(item[i])
  BY DEF ClaimInv, RowInv, Busy
<1>r. \A i \in Items : Running(i) => Busy(item[i], runs[i].last)
  BY DEF ClaimInv, RowInv, Idle, Running
<1>l. \A i \in Items, s \in States \ {"running"}, c \in Codes \ {"awaiting_batch_evaluation"} :
         /\ Idle(Unclaimed(item[i], s, c)) /\ Unclaimed(item[i], s, c) \in Row
         /\ Idle(Deferred(item[i]))
  BY <1>0, IdleRow, UnclaimedRow
<1>c. /\ {"ready", "finished", "archived", "scheduled", "blocked", "waiting_retry"}
            \subseteq States \ {"running"}
      /\ {"none", "stale_claim_recovered", "abandoned_claim", "execution_failure",
          "retry_limit_reached", "operator_requirement", "analyzer_retry_exhausted",
          "stale_worker_claim", "legacy_history", "legacy_blocked"} \subseteq Codes \ {"awaiting_batch_evaluation"}
  BY DEF States, Codes
<1>1. ASSUME NEW w \in Workers, Step(w) PROVE Goal
  <2>1. CASE RecoverAbandoned(w)
    <3>1. \A i \in Items : Idle(Unclaimed(item[i], "ready", "abandoned_claim"))
      BY <1>l, <1>c
    <3> QED
      BY <2>1, <3>1 DEF RecoverAbandoned
  <2>2. CASE ApplyStale(w)
    <3>1. \A i \in Items : Idle(Unclaimed(item[i], "ready", "stale_claim_recovered"))
      BY <1>l, <1>c
    <3> QED
      BY <2>2, <3>1 DEF ApplyStale
  <2>3. ASSUME NEW i \in Items, RecordFailure(w, i) PROVE Goal
    <3> DEFINE c == Claimed(item[i], w, "awaiting_batch_evaluation")
    <3>1. runs' = [runs EXCEPT ![i].last = "stopped"]
      BY <2>3 DEF RecordFailure
    <3>2. runs[i] \in Evidence
      BY DEF TypeOK
    <3>3. runs'[i].last = "stopped"
      BY <3>1, <3>2 DEF TypeOK, Evidence
    <3>4. c \in Row /\ Busy(c, runs'[i].last)
      BY <1>0, <3>3, BusyRow, ClaimedRow DEF Codes
    <3>5. Busy([c EXCEPT !.later = FALSE], runs'[i].last)
      BY <3>4, IdleColumns
    <3>6. item' = [item EXCEPT ![i] = [c EXCEPT !.later = FALSE]]
      BY <2>3 DEF RecordFailure
    <3> QED
      BY <1>0, <3>5, <3>6
  <2>4. CASE RecoverFailure(w)
    BY <2>3, <2>4 DEF RecoverFailure, TypeOK
  <2>5. CASE PromoteDueRetries(w)
    <3>1. \A i \in Items : item[i].state = "waiting_retry" =>
                               Idle([item[i] EXCEPT !.state = "ready"])
      BY <1>0, <1>i, IdleColumns
    <3> QED
      BY <2>5, <3>1 DEF PromoteDueRetries
  <2>6. CASE PromoteScheduled(w)
    <3>1. \A i \in Items : item[i].state = "scheduled" => Idle(item[i])
      BY <1>i
    <3> QED
      BY <1>0, <2>6, <3>1, IdlePromotion DEF PromoteScheduled
  <2>7. CASE ClaimBatch(w)
    <3>1. \A i \in Items : Busy(Claimed(item[i], w, "none"), runs'[i].last)
      BY <1>0, BusyRow DEF Codes
    <3> QED
      BY <2>7, <3>1 DEF ClaimBatch
  <2>8. CASE ClaimNext(w)
    <3>1. ASSUME NEW i \in InState("ready")
          PROVE  Busy(Claimed(item[i], w, item[i].blocker), runs'[i].last)
      <4>1. i \in Items /\ item[i].state = "ready"
        BY DEF InState
      <4>2. item[i].blocker # "awaiting_batch_evaluation"
        BY <1>i, <4>1 DEF Idle
      <4> QED
        BY <1>0, <4>1, <4>2, BusyRow, RowFields
    <3> QED
      BY <1>0, <2>8, <3>1 DEF ClaimNext, InState
  <2>9. ASSUME NEW i \in Items, MarkAwaiting(w, i) PROVE Goal
    <3>1. runs[i].last # "none" /\ runs' = runs
      BY <2>9 DEF MarkAwaiting, ClaimInv, HandoffInv, At
    <3>2. Busy(item[i], runs[i].last)
      BY <1>r, <2>9 DEF MarkAwaiting
    <3>3. Busy([item[i] EXCEPT !.blocker = "awaiting_batch_evaluation"], runs'[i].last)
      BY <1>0, <3>1, <3>2, IdleColumns
    <3> QED
      BY <1>0, <2>9, <3>3 DEF MarkAwaiting
  <2>10. ASSUME NEW i \in Items, FinishDirectly(w, i) PROVE Goal
    BY <1>0, <1>c, <2>10, IdleTransition DEF FinishDirectly
  <2>11. ASSUME NEW i \in Items, DeferInfrastructure(w, i) PROVE Goal
    <3>1. Idle(Deferred(item[i]))
      BY <1>l, <1>c
    <3> QED
      BY <1>0, <2>11, <3>1 DEF DeferInfrastructure
  <2>12. ASSUME NEW i \in Items, ChargeRetry(w, i) PROVE Goal
    BY <1>0, <1>c, <2>12, IdleTransition DEF ChargeRetry
  <2>13. ASSUME NEW i \in Items, BlockForOperator(w, i) PROVE Goal
    BY <1>0, <1>c, <2>13, IdleTransition DEF BlockForOperator
  <2>14. ASSUME NEW i \in Items, FailToAnalysis(w, i) PROVE Goal
    BY <2>3, <2>14 DEF FailToAnalysis
  <2>15. ASSUME NEW i \in Items, UndoHandoff(w, i) PROVE Goal
    <3>1. Idle(Deferred(item[i]))
      BY <1>l, <1>c
    <3> QED
      BY <1>0, <2>15, <3>1 DEF UndoHandoff
  <2>16. CASE item' = item
    BY <2>16
  <2> QED
    BY <1>1, <2>1, <2>2, <2>4, <2>5, <2>6, <2>7, <2>8, <2>9, <2>10, <2>11,
       <2>12, <2>13, <2>14, <2>15, <2>16
    DEF Step, Execute, rows, Start, Snapshot, Submit, SelectStale, PreflightBlocks,
        SelectFailures, RecoverFailureRaises, PersistRun, EvaluateHpo, HandoffRaises,
        LostClaimRaises
<1>2. ASSUME NEW w \in Workers, Analyze(w) PROVE Goal
  <2>1. ASSUME NEW i \in Items, Finalize(w, i) PROVE Goal
    <3>1. Idle(Unclaimed(item[i], "finished", "none"))
      BY <1>l, <1>c
    <3> QED
      BY <1>0, <2>1, <3>1 DEF Finalize
  <2>2. ASSUME NEW i \in Items, DeferAnalysis(w, i) PROVE Goal
    <3>0. runs' = runs
      BY <2>2 DEF DeferAnalysis
    <3>1. item' = item \/ (Awaiting(i) /\ item' = [item EXCEPT ![i].later = TRUE])
      <4>1. CASE Awaiting(i)
        BY <2>2, <4>1 DEF DeferAnalysis
      <4>2. CASE ~Awaiting(i)
        BY <2>2, <4>2 DEF DeferAnalysis
      <4> QED
        BY <4>1, <4>2
    <3>2. Awaiting(i) => Busy([item[i] EXCEPT !.later = TRUE], runs'[i].last)
      BY <1>0, <1>r, <3>0, IdleColumns DEF Awaiting
    <3> QED
      BY <1>0, <3>1, <3>2
  <2>3. ASSUME NEW i \in Items, TerminalizeAnalysis(w, i) PROVE Goal
    BY <1>0, <1>c, <2>3, IdleTransition DEF TerminalizeAnalysis
  <2> QED
    BY <1>2, <2>1, <2>2, <2>3 DEF Analyze, FinalizeRaises, rows
<1>3. ASSUME NEW w \in Workers, Crash(w) \/ Stop(w) PROVE Goal
  BY <1>3 DEF Crash, Stop, rows
<1>4. CASE Operate
  <2>1. ASSUME NEW i \in Items, ResolveBlocked(i) \/ RectifyBlocked(i) PROVE Goal
    <3> DEFINE u(s, c) == Unclaimed(item[i], s, c)
    <3>1. \A s \in States \ {"running"}, c \in Codes \ {"awaiting_batch_evaluation"} :
             Idle([u(s, c) EXCEPT !.later = FALSE])
      BY <1>l, IdleColumns
    <3> QED
      BY <1>0, <1>c, <2>1, <3>1 DEF ResolveBlocked, RectifyBlocked
  <2>2. ASSUME NEW i \in Items, RetryBlocked(i) PROVE Goal
    <3> DEFINE u == Unclaimed(item[i], "scheduled", "none")
               q == [u EXCEPT !.later = FALSE, !.attempts = 0]
               f == [item EXCEPT ![i] = q]
    <3>1. u \in Row /\ Idle(u)
      BY <1>l, <1>c
    <3>2. Idle(q) /\ q \in Row
      BY <3>1, IdleColumns, RowExcept DEF Kin
    <3>3. f \in [Items -> Row]
      BY <1>0, <3>2
    <3>4. \A j \in Items : f[j].state = "scheduled" => Idle(f[j])
      BY <1>0, <1>i, <3>2
    <3>5. item' \in Promotion(f)
      BY <2>2 DEF RetryBlocked
    <3> HIDE DEF f
    <3>6. \A j \in Items : item'[j] = f[j] \/ Idle(item'[j])
      BY <3>3, <3>4, <3>5, IdlePromotion
    <3>7. \A j \in Items : f[j] = item[j] \/ Idle(f[j])
      BY <1>0, <3>2 DEF f
    <3> QED
      BY <3>6, <3>7
  <2>4. ASSUME NEW i \in Items, NEW w \in Workers, RequeueEvaluation(i, w) PROVE Goal
    <3>1. runs[i].last # "none" /\ runs' = runs
      BY <2>4 DEF RequeueEvaluation, ClaimInv, EvidenceInv
    <3>2. Busy(Claimed(item[i], w, "awaiting_batch_evaluation"), runs'[i].last)
      BY <1>0, <3>1, BusyRow DEF Codes
    <3> QED
      BY <1>0, <2>4, <3>2 DEF RequeueEvaluation
  <2>5. CASE BuildReconciliation
    BY <2>5 DEF BuildReconciliation, rows
  <2>6. CASE ApplyReconciliation
    <3>1. PICK i \in Items : \/ Transition(i, "blocked", {"running"}, "stale_worker_claim")
                             \/ Transition(i, "archived", {"blocked"}, "legacy_history")
                             \/ UNCHANGED item
      BY <2>6 DEF ApplyReconciliation
    <3> QED
      BY <1>0, <1>c, <3>1, IdleTransition
  <2>7. CASE NormalizeBlockers
    <3>1. \A i \in Items : Idle(Unclaimed(item[i], "scheduled", "none"))
      BY <1>l, <1>c
    <3> QED
      BY <2>7, <3>1 DEF NormalizeBlockers
  <2> QED
    BY <1>4, <2>1, <2>2, <2>4, <2>5, <2>6, <2>7 DEF Operate
<1>5. ASSUME NEW i \in Items, ClaimAges(i) \/ BackoffEnds(i) PROVE Goal
  <2>1. /\ \A last : \A b \in BOOLEAN :
              /\ Idle(item[i]) => Idle([item[i] EXCEPT !.later = b])
              /\ Idle(item[i]) => Idle([item[i] EXCEPT !.aged = b])
              /\ Busy(item[i], last) => Busy([item[i] EXCEPT !.later = b], last)
              /\ Busy(item[i], last) => Busy([item[i] EXCEPT !.aged = b], last)
        /\ runs' = runs
        /\ Idle(item[i]) \/ Busy(item[i], runs[i].last)
    BY <1>0, <1>5, IdleColumns DEF ClaimAges, BackoffEnds, ClaimInv, RowInv
  <2> QED
    BY <1>0, <1>5, <2>1 DEF ClaimAges, BackoffEnds
<1>6. CASE UNCHANGED vars
  BY <1>6 DEF vars
<1> QED
  BY <1>1, <1>2, <1>3, <1>4, <1>5, <1>6 DEF Next

\* A process reaches its hand-off only through the transaction that stores its run.
LEMMA HandoffStep ==
    ASSUME TypeOK, ClaimInv, [Next]_vars
    PROVE  HandoffInv'
<1> DEFINE Bound == {"handoff", "evaluate", "finish", "undo"}
           There(w) == pc[w] \in Bound
           Same(w) == pc'[w] = pc[w] /\ sel'[w] = sel[w]
<1>0. \A i \in Items : runs[i].last # "none" => runs'[i].last # "none"
  BY RunsStep DEF ClaimInv
<1>s. sel \in [Workers -> SUBSET Items] /\ pc \in [Workers -> PCs]
  BY DEF TypeOK
<1>k. ASSUME NEW w \in Workers, \/ pc'[w] \notin Bound
                               \/ (sel'[w] = sel[w] /\ There(w))
                               \/ Same(w)
      PROVE  \A i \in sel'[w] : pc'[w] \in Bound => runs'[i].last # "none"
  BY <1>0, <1>k, <1>s DEF ClaimInv, HandoffInv
<1>1. ASSUME NEW w \in Workers, Step(w) PROVE HandoffInv'
  <2> DEFINE Others == \A v \in Workers \ {w} : Same(v)
             Away == pc'[w] \notin Bound
  <2>k. Others /\ Away => HandoffInv'
    BY <1>k DEF HandoffInv
  <2>g. ASSUME NEW l, Goto(w, l)
        PROVE  pc'[w] = l /\ \A v \in Workers \ {w} : pc'[v] = pc[v]
    BY <1>s, <2>g DEF Goto
  <2>x. Exit(w) => Others /\ Away
    BY <1>s DEF Exit
  <2>n. ASSUME NEW i \in Items, NEW note, Settle(w, i, note)
        PROVE  Away /\ \A v \in Workers \ {w} : pc'[v] = pc[v]
    BY <1>s, <2>n DEF Settle, Goto
  <2>1. CASE Start(w) \/ RecoverAbandoned(w) \/ SelectStale(w) \/ ApplyStale(w)
    <3>1. Away /\ \A v \in Workers \ {w} : pc'[v] = pc[v]
      BY <2>1, <2>g DEF Start, RecoverAbandoned, SelectStale, ApplyStale
    <3>2. \A v \in Workers \ {w} : sel'[v] = sel[v]
      BY <1>s, <2>1 DEF Start, RecoverAbandoned, SelectStale, ApplyStale
    <3> QED
      BY <2>k, <3>1, <3>2
  <2>2. CASE Snapshot(w) \/ Submit(w)
    <3>1. Away /\ \A v \in Workers \ {w} : pc'[v] = pc[v]
      <4>1. ASSUME NEW l, Goto(w, l), l \notin Bound
            PROVE  Away /\ \A v \in Workers \ {w} : pc'[v] = pc[v]
        BY <2>g, <4>1
      <4>2. CASE Snapshot(w)
        <5>1. Goto(w, "submit") \/ Goto(w, "failSubmit") \/ Goto(w, "tailSubmit")
          <6>1. CASE At(w, "round")
            BY <4>2, <6>1 DEF Snapshot
          <6>2. CASE At(w, "failSnapshot") /\ ~At(w, "round")
            BY <4>2, <6>2 DEF Snapshot
          <6>3. CASE ~At(w, "failSnapshot") /\ ~At(w, "round")
            BY <4>2, <6>3 DEF Snapshot
          <6> QED
            BY <6>1, <6>2, <6>3
        <5> QED
          BY <4>1, <5>1
      <4>3. CASE Submit(w)
        <5>1. Goto(w, "stale") \/ Goto(w, "due") \/ Goto(w, "round")
          <6>1. CASE At(w, "submit")
            BY <4>3, <6>1 DEF Submit
          <6>2. CASE At(w, "failSubmit") /\ ~At(w, "submit")
            BY <4>3, <6>2 DEF Submit
          <6>3. CASE ~At(w, "failSubmit") /\ ~At(w, "submit")
            BY <4>3, <6>3 DEF Submit
          <6> QED
            BY <6>1, <6>2, <6>3
        <5> QED
          BY <4>1, <5>1
      <4> QED
        BY <2>2, <4>2, <4>3
    <3>2. \A v \in Workers \ {w} : sel'[v] = sel[v]
      BY <1>s, <2>2 DEF Snapshot, Submit
    <3> QED
      BY <2>k, <3>1, <3>2
  <2>3. CASE SelectFailures(w) \/ RecoverFailure(w)
    <3>1. Away /\ \A v \in Workers \ {w} : pc'[v] = pc[v]
      BY <2>3, <2>g DEF SelectFailures, RecoverFailure
    <3>2. \A v \in Workers \ {w} : sel'[v] = sel[v]
      BY <1>s, <2>3 DEF SelectFailures, RecoverFailure
    <3> QED
      BY <2>k, <3>1, <3>2
  <2>4. CASE PreflightBlocks(w) \/ PromoteDueRetries(w) \/ PromoteScheduled(w) \/ ClaimBatch(w)
    <3>1. Away /\ Others
      BY <2>4, <2>g DEF PreflightBlocks, PromoteDueRetries, PromoteScheduled, ClaimBatch
    <3> QED
      BY <2>k, <3>1
  <2>5. CASE ClaimNext(w)
    <3>1. UNCHANGED sel /\ (Goto(w, "execute") \/ Goto(w, "due"))
      BY <2>5 DEF ClaimNext
    <3>2. Away /\ Others
      BY <2>g, <3>1
    <3> QED
      BY <2>k, <3>2
  <2>6. CASE RecoverFailureRaises(w)
    BY <2>6, <2>k, <2>x DEF RecoverFailureRaises
  <2>7. ASSUME NEW i \in Items, PersistRun(w, i) PROVE HandoffInv'
    <3>1. sel' = [sel EXCEPT ![w] = {i}] /\ \A v \in Workers \ {w} : pc'[v] = pc[v]
      BY <2>7, <2>g DEF PersistRun
    <3>2. Others
      BY <1>s, <3>1
    <3>3. sel'[w] = {i}
      BY <1>s, <3>1
    <3>4. runs'[i].last # "none"
      BY <2>7 DEF PersistRun, TypeOK
    <3>5. \A v \in Workers \ {w} : \A j \in sel'[v] :
             pc'[v] \in Bound => runs'[j].last # "none"
      BY <1>k, <3>2
    <3> QED
      BY <3>3, <3>4, <3>5 DEF HandoffInv
  <2>8. ASSUME NEW i \in Items, MarkAwaiting(w, i) \/ FinishDirectly(w, i) PROVE HandoffInv'
    <3>1. Away /\ \A v \in Workers \ {w} : pc'[v] = pc[v]
      BY <2>8, <2>n DEF MarkAwaiting, FinishDirectly
    <3>2. \A v \in Workers \ {w} : sel'[v] = sel[v]
      BY <1>s, <2>8 DEF MarkAwaiting, FinishDirectly
    <3> QED
      BY <2>k, <3>1, <3>2
  <2>9. ASSUME NEW i \in Items, HandoffRaises(w, i) PROVE HandoffInv'
    <3>1. CASE Exit(w)
      BY <2>k, <2>x, <3>1
    <3>2. CASE Goto(w, "undo") /\ UNCHANGED <<sel, held, snap, noted>>
      <4>1. There(w) /\ sel' = sel /\ \A v \in Workers \ {w} : pc'[v] = pc[v]
        BY <2>9, <2>g, <3>2 DEF HandoffRaises, At
      <4> QED
        BY <1>k, <4>1 DEF HandoffInv
    <3> QED
      BY <2>9, <3>1, <3>2 DEF HandoffRaises
  <2>10. ASSUME NEW i \in Items, UndoHandoff(w, i) PROVE HandoffInv'
    <3>1. CASE Exit(w)
      BY <2>k, <2>x, <3>1
    <3>2. CASE sel' = [sel EXCEPT ![w] = {}] /\ Settle(w, i, FALSE)
      <4>1. Away /\ Others
        BY <1>s, <2>n, <3>2
      <4> QED
        BY <2>k, <4>1
    <3> QED
      BY <2>10, <3>1, <3>2 DEF UndoHandoff
  <2>11. ASSUME NEW i \in Items,
                \/ DeferInfrastructure(w, i) \/ ChargeRetry(w, i)
                \/ BlockForOperator(w, i) \/ FailToAnalysis(w, i)
         PROVE HandoffInv'
    <3>1. \E note : Settle(w, i, note)
      BY <2>11 DEF DeferInfrastructure, ChargeRetry, BlockForOperator, FailToAnalysis
    <3>2. sel' = sel
      BY <2>11 DEF DeferInfrastructure, ChargeRetry, BlockForOperator, FailToAnalysis,
                   ExecFrame
    <3> QED
      BY <2>k, <2>n, <3>1, <3>2
  <2>12. ASSUME NEW i \in Items, LostClaimRaises(w, i) PROVE HandoffInv'
    BY <2>12, <2>k, <2>x DEF LostClaimRaises
  <2>13. ASSUME NEW i \in Items, EvaluateHpo(w, i) PROVE HandoffInv'
    <3>1. /\ There(w) /\ sel' = sel /\ \A v \in Workers \ {w} : pc'[v] = pc[v]
      BY <2>13, <2>g DEF EvaluateHpo, At
    <3> QED
      BY <1>k, <3>1 DEF HandoffInv
  <2> QED
    BY <1>1, <2>1, <2>2, <2>3, <2>4, <2>5, <2>6, <2>7, <2>8, <2>9, <2>10, <2>11, <2>12,
       <2>13
    DEF Step, Execute
<1>2. ASSUME NEW w \in Workers, Crash(w) \/ Stop(w) PROVE HandoffInv'
  <2>1. /\ pc'[w] = "down"
        /\ \A v \in Workers \ {w} : Same(v)
    BY <1>2, <1>s DEF Crash, Stop, Exit
  <2> QED
    BY <1>k, <2>1 DEF HandoffInv
<1>3. CASE pc' = pc /\ sel' = sel
  BY <1>3, <1>k DEF HandoffInv
<1>4. ASSUME NEW w \in Workers, Analyze(w) PROVE pc' = pc /\ sel' = sel
  BY <1>4 DEF Analyze, Finalize, FinalizeRaises, DeferAnalysis, TerminalizeAnalysis,
              AnalysisFrame, local
<1>5. CASE Operate
  <2>1. pc' = pc /\ sel' = sel
    BY <1>5 DEF Operate, ResolveBlocked, RetryBlocked, RectifyBlocked,
                RequeueEvaluation, BuildReconciliation, ApplyReconciliation,
                NormalizeBlockers, OperatorFrame, local
  <2> QED
    BY <1>3, <2>1
<1>6. ASSUME NEW i \in Items, ClaimAges(i) \/ BackoffEnds(i) PROVE pc' = pc /\ sel' = sel
  BY <1>6 DEF ClaimAges, BackoffEnds, OperatorFrame, local
<1>7. CASE UNCHANGED vars
  BY <1>3, <1>7 DEF vars
<1> QED
  BY <1>1, <1>2, <1>3, <1>4, <1>5, <1>6, <1>7 DEF Next

\* The claim invariant is inductive.
LEMMA ClaimStep == TypeOK /\ ClaimInv /\ [Next]_vars => ClaimInv'
<1> SUFFICES ASSUME TypeOK, ClaimInv, [Next]_vars PROVE ClaimInv'
  OBVIOUS
<1>1. \A i \in Items : runs[i].last # "none" => runs'[i].last # "none"
  BY RunsStep DEF ClaimInv
<1>2. RowInv'
  <2>1. \A i \in Items : Busy(item[i], runs[i].last) => Busy(item[i], runs'[i].last)
    BY <1>1 DEF Busy
  <2>2. \A i \in Items : Idle(item[i]) \/ Busy(item[i], runs'[i].last)
    BY <2>1 DEF ClaimInv, RowInv
  <2> QED
    BY <2>2, RowStep DEF RowInv
<1> QED
  BY <1>2, HandoffStep, RunsStep DEF ClaimInv

\* The claim invariant holds in every run of the queue.
LEMMA ClaimInvariant == Spec => [](TypeOK /\ ClaimInv)
<1>1. Init => ClaimInv
  <2> SUFFICES ASSUME Init PROVE ClaimInv
    OBVIOUS
  <2>1. RowInv
    BY InitRows DEF RowInv, Idle
  <2>2. HandoffInv /\ EvidenceInv
    BY DEF Init, HandoffInv, EvidenceInv
  <2> QED
    BY <2>1, <2>2 DEF ClaimInv
<1> QED
  BY <1>1, TypeCorrect, ClaimStep, PTL DEF Spec

\* claimed_by is set exactly on running rows, for any number of processes.
THEOREM ClaimsMatch == Spec => []ClaimsMatchStates
<1>1. ClaimInv => ClaimsMatchStates
  BY QueueAssumption DEF ClaimInv, RowInv, Idle, Busy, ClaimsMatchStates, Running
<1> QED
  BY <1>1, ClaimInvariant, PTL

\* A row is handed to the analyzer only with a stored run, whichever processes
\* recover, retry or steal it in between.
THEOREM AwaitingEvidence == Spec => []AwaitingHasEvidence
<1>1. ClaimInv => AwaitingHasEvidence
  BY DEF ClaimInv, RowInv, Idle, Busy, AwaitingHasEvidence, Running
<1> QED
  BY <1>1, ClaimInvariant, PTL

-----------------------------------------------------------------------------
(* The attempt budget.                                                       *)

\* The processes that will charge an attempt of i if their execution fails: they
\* hold it with a count that leaves room for one.
Charging(i) == {w \in Workers : i \in held[w] /\ snap[w][i] + 1 < MaxAttempts}

\* Who may still charge an item has its charge set aside.
ChargeInv ==
    \A i \in Items : item[i].attempts + Cardinality(Charging(i))
                       <= MaxAttempts - 2 + Cardinality(Workers)

SameAttempts == \A i \in Items : item'[i].attempts = item[i].attempts

LEMMA RowAttempts ==
    ASSUME NEW r \in Row
    PROVE  /\ \A s : [r EXCEPT !.state = s].attempts = r.attempts
           /\ \A c : [r EXCEPT !.blocker = c].attempts = r.attempts
           /\ \A b : [r EXCEPT !.later = b].attempts = r.attempts
           /\ \A b : [r EXCEPT !.aged = b].attempts = r.attempts
  BY DEF Row

LEMMA ClaimAttempts ==
    ASSUME NEW r \in Row
    PROVE  /\ \A s, c : Unclaimed(r, s, c).attempts = r.attempts
           /\ \A w, c : Claimed(r, w, c).attempts = r.attempts
  BY DEF Row, Unclaimed, Claimed

\* One row is replaced by one with as many attempts.
LEMMA RowPut ==
    ASSUME item \in [Items -> Row], NEW i, NEW r, i \in Items => r.attempts = item[i].attempts,
           item' = [item EXCEPT ![i] = r]
    PROVE  SameAttempts
  BY DEF SameAttempts

LEMMA PromotionAttempts ==
    ASSUME NEW f \in [Items -> Row], NEW g \in Promotion(f)
    PROVE  \A i \in Items : g[i].attempts = f[i].attempts
<1>1. \A i \in Items : [f[i] EXCEPT !.state = "ready"].attempts = f[i].attempts
  BY RowAttempts
<1> QED
  BY <1>1 DEF Promotion

\* A transition charges an attempt only on the way to waiting_retry.
LEMMA TransitionAttempts ==
    ASSUME item \in [Items -> Row], NEW i \in Items, NEW s \in States, NEW c \in Codes,
           NEW from, Transition(i, s, from, c)
    PROVE  /\ s # "waiting_retry" => SameAttempts
           /\ \A j \in Items : j # i => item'[j].attempts = item[j].attempts
           /\ item'[i].attempts \in {item[i].attempts, item[i].attempts + 1}
<1>1. /\ Moved(item[i], s, c) \in Row
      /\ Moved(item[i], s, c).attempts = IF s = "waiting_retry" THEN item[i].attempts + 1
                                                                ELSE item[i].attempts
  BY MovedRow
<1>2. item' = item \/ item' = [item EXCEPT ![i] = Moved(item[i], s, c)]
  BY DEF Transition
<1> QED
  BY <1>1, <1>2 DEF SameAttempts

\* What a process charges with a failed execution.
Charges(w, i) == ChargeRetry(w, i) /\ snap[w][i] + 1 < MaxAttempts

\* The other steps charge no attempt; one of the operator takes back all of them.
LEMMA AttemptsStay ==
    ASSUME TypeOK, [Next]_vars,
           ~ \E w \in Workers, i \in Items : Charges(w, i),
           ~ \E i \in Items : RetryBlocked(i)
    PROVE  SameAttempts
<1>t. item \in [Items -> Row] /\ snap \in [Workers -> [Items -> Nat]]
  BY DEF TypeOK
<1>0. \A i \in Items : item[i] \in Row
  BY <1>t
<1>s. item' = item => SameAttempts
  BY DEF SameAttempts
<1>1. ASSUME NEW w \in Workers, Step(w) PROVE SameAttempts
  <2>1. CASE RecoverAbandoned(w)
    <3>1. \A i \in Items : Unclaimed(item[i], "ready", "abandoned_claim").attempts = item[i].attempts
      BY <1>0, ClaimAttempts
    <3> QED
      BY <1>t, <2>1, <3>1 DEF RecoverAbandoned, SameAttempts
  <2>2. CASE ApplyStale(w)
    <3>1. \A i \in Items :
             Unclaimed(item[i], "ready", "stale_claim_recovered").attempts = item[i].attempts
      BY <1>0, ClaimAttempts
    <3> QED
      BY <2>2, <3>1 DEF ApplyStale, SameAttempts
  <2>3. ASSUME NEW i, RecordFailure(w, i) PROVE SameAttempts
    <3> DEFINE c == Claimed(item[i], w, "awaiting_batch_evaluation")
    <3>1. ASSUME i \in Items
          PROVE  c \in Row /\ c.attempts = item[i].attempts
      <4>1. "awaiting_batch_evaluation" \in Codes
        BY Literals
      <4> QED
        BY <1>0, <3>1, <4>1, ClaimedRow
    <3>2. item' = [item EXCEPT ![i] = [c EXCEPT !.later = FALSE]]
      BY <2>3 DEF RecordFailure
    <3> HIDE DEF c
    <3>3. i \in Items => [c EXCEPT !.later = FALSE].attempts = item[i].attempts
      BY <3>1, RowAttempts
    <3> QED
      BY <3>2, <3>3, <1>t, RowPut
  <2>4. CASE RecoverFailure(w)
    BY <2>3, <2>4 DEF RecoverFailure
  <2>5. CASE PromoteDueRetries(w)
    <3>1. \A i \in Items : [item[i] EXCEPT !.state = "ready"].attempts = item[i].attempts
      BY <1>0, RowAttempts
    <3> QED
      BY <2>5, <3>1 DEF PromoteDueRetries, SameAttempts
  <2>6. CASE PromoteScheduled(w)
    BY <2>6, <1>t, PromotionAttempts DEF PromoteScheduled, SameAttempts
  <2>7. CASE ClaimBatch(w)
    <3>1. \A i \in Items : Claimed(item[i], w, "none").attempts = item[i].attempts
      BY <1>0, ClaimAttempts
    <3> QED
      BY <2>7, <3>1 DEF ClaimBatch, SameAttempts
  <2>8. CASE ClaimNext(w)
    <3>1. \A i \in Items : Claimed(item[i], w, item[i].blocker).attempts = item[i].attempts
      BY <1>0, ClaimedRow, RowFields
    <3>2. item' = item \/ \E i \in Items : item' = [item EXCEPT ![i] = Claimed(item[i], w, item[i].blocker)]
      BY <2>8 DEF ClaimNext, InState
    <3> QED
      BY <1>s, <3>1, <3>2, <1>t, RowPut
  <2>9. ASSUME NEW i \in Items, MarkAwaiting(w, i) PROVE SameAttempts
    <3>1. item' = [item EXCEPT ![i] = [item[i] EXCEPT !.blocker = "awaiting_batch_evaluation"]]
      BY <2>9 DEF MarkAwaiting
    <3> QED
      BY <1>0, <3>1, RowAttempts, <1>t, RowPut
  <2>10. ASSUME NEW i \in Items, FinishDirectly(w, i) PROVE SameAttempts
    BY <2>10, <1>t, TransitionAttempts, Literals DEF FinishDirectly
  <2>11. ASSUME NEW i \in Items, DeferInfrastructure(w, i) PROVE SameAttempts
    <3>1. item' = [item EXCEPT ![i] = Deferred(item[i])]
      BY <2>11 DEF DeferInfrastructure
    <3> QED
      BY <1>0, <3>1, DeferredRow, <1>t, RowPut
  <2>12. ASSUME NEW i \in Items, ChargeRetry(w, i) PROVE SameAttempts
    <3>1. ~ (snap[w][i] + 1 < MaxAttempts)
      BY <2>12 DEF Charges
    <3>2. Transition(i, "blocked", {"running"}, "retry_limit_reached")
      <4>1. snap[w][i] + 1 >= MaxAttempts
        <5>1. snap[w][i] \in Nat /\ MaxAttempts \in Nat
          BY <1>t, QueueAssumption
        <5> QED
          BY <3>1, <5>1
      <4> QED
        BY <2>12, <4>1 DEF ChargeRetry
    <3> QED
      BY <3>2, <1>t, TransitionAttempts, Literals
  <2>13. ASSUME NEW i \in Items, BlockForOperator(w, i) PROVE SameAttempts
    BY <2>13, <1>t, TransitionAttempts, Literals DEF BlockForOperator
  <2>14. ASSUME NEW i \in Items, FailToAnalysis(w, i) PROVE SameAttempts
    BY <2>3, <2>14 DEF FailToAnalysis
  <2>15. ASSUME NEW i \in Items, UndoHandoff(w, i) PROVE SameAttempts
    <3>1. item' = item \/ item' = [item EXCEPT ![i] = Deferred(item[i])]
      BY <2>15 DEF UndoHandoff
    <3> QED
      BY <1>0, <1>s, <3>1, DeferredRow, <1>t, RowPut
  <2>16. ASSUME item' = item PROVE SameAttempts
    BY <1>s, <2>16
  <2> QED
    BY <1>1, <2>1, <2>2, <2>4, <2>5, <2>6, <2>7, <2>8, <2>9, <2>10, <2>11,
       <2>12, <2>13, <2>14, <2>15, <2>16
    DEF Step, Execute, rows, Start, Snapshot, Submit, SelectStale, PreflightBlocks,
        SelectFailures, RecoverFailureRaises, PersistRun, EvaluateHpo, HandoffRaises,
        LostClaimRaises
<1>2. ASSUME NEW w \in Workers, Analyze(w) PROVE SameAttempts
  <2>1. ASSUME NEW i \in Items, Finalize(w, i) PROVE SameAttempts
    <3>1. item' = [item EXCEPT ![i] = Unclaimed(item[i], "finished", "none")]
      BY <2>1 DEF Finalize
    <3> QED
      BY <1>0, <3>1, ClaimAttempts, <1>t, RowPut
  <2>2. ASSUME NEW i \in Items, DeferAnalysis(w, i) PROVE SameAttempts
    <3>1. item' = item \/ item' = [item EXCEPT ![i] = [item[i] EXCEPT !.later = TRUE]]
      BY <2>2 DEF DeferAnalysis
    <3> QED
      BY <1>0, <1>s, <3>1, RowAttempts, <1>t, RowPut
  <2>3. ASSUME NEW i \in Items, TerminalizeAnalysis(w, i) PROVE SameAttempts
    <3>1. item' = item \/ Transition(i, "blocked", {"running"}, "analyzer_retry_exhausted")
      BY <2>3 DEF TerminalizeAnalysis
    <3> QED
      BY <1>s, <3>1, <1>t, TransitionAttempts, Literals
  <2> QED
    BY <1>2, <1>s, <2>1, <2>2, <2>3 DEF Analyze, FinalizeRaises, rows
<1>3. ASSUME NEW w \in Workers, Crash(w) \/ Stop(w) PROVE SameAttempts
  BY <1>3, <1>s DEF Crash, Stop, rows
<1>4. ASSUME Operate PROVE SameAttempts
  <2>1. ASSUME NEW i \in Items, ResolveBlocked(i) PROVE SameAttempts
    <3> DEFINE u == Unclaimed(item[i], "ready", "none")
    <3>1. u \in Row /\ u.attempts = item[i].attempts
      <4>1. {"ready", "archived"} \subseteq States /\ {"none", "legacy_history"} \subseteq Codes
        BY Literals
      <4> QED
        BY <1>0, <4>1, UnclaimedRow
    <3>2. item' = [item EXCEPT ![i] = [u EXCEPT !.later = FALSE]]
      BY <2>1 DEF ResolveBlocked
    <3> HIDE DEF u
    <3> QED
      BY <3>1, <3>2, RowAttempts, <1>t, RowPut
  <2>2. ASSUME NEW i \in Items, RectifyBlocked(i) PROVE SameAttempts
    <3> DEFINE u == Unclaimed(item[i], "archived", "legacy_history")
    <3>1. u \in Row /\ u.attempts = item[i].attempts
      <4>1. {"ready", "archived"} \subseteq States /\ {"none", "legacy_history"} \subseteq Codes
        BY Literals
      <4> QED
        BY <1>0, <4>1, UnclaimedRow
    <3>2. item' = [item EXCEPT ![i] = [u EXCEPT !.later = FALSE]]
      BY <2>2 DEF RectifyBlocked
    <3> HIDE DEF u
    <3> QED
      BY <3>1, <3>2, RowAttempts, <1>t, RowPut
  <2>3. ASSUME NEW i \in Items, NEW w \in Workers, RequeueEvaluation(i, w) PROVE SameAttempts
    <3>1. item' = [item EXCEPT ![i] = Claimed(item[i], w, "awaiting_batch_evaluation")]
      BY <2>3 DEF RequeueEvaluation
    <3>2. Claimed(item[i], w, "awaiting_batch_evaluation").attempts = item[i].attempts
      BY <1>0, ClaimAttempts
    <3> HIDE DEF Workers
    <3> QED
      BY <3>1, <3>2, <1>t, RowPut
  <2>4. ASSUME BuildReconciliation PROVE SameAttempts
    BY <2>4, <1>s DEF BuildReconciliation, rows
  <2>5. ASSUME ApplyReconciliation PROVE SameAttempts
    <3>1. PICK i \in Items : \/ Transition(i, "blocked", {"running"}, "stale_worker_claim")
                             \/ Transition(i, "archived", {"blocked"}, "legacy_history")
                             \/ UNCHANGED item
      BY <2>5 DEF ApplyReconciliation
    <3> QED
      BY <1>s, <3>1, <1>t, TransitionAttempts, Literals
  <2>6. ASSUME NormalizeBlockers PROVE SameAttempts
    <3>1. \A i \in Items : Unclaimed(item[i], "scheduled", "none").attempts = item[i].attempts
      BY <1>0, ClaimAttempts
    <3> QED
      BY <2>6, <3>1 DEF NormalizeBlockers, SameAttempts
  <2> QED
    BY <1>4, <2>1, <2>2, <2>3, <2>4, <2>5, <2>6 DEF Operate
<1>5. ASSUME NEW i \in Items, ClaimAges(i) \/ BackoffEnds(i) PROVE SameAttempts
  <2>1. \E r \in {[item[i] EXCEPT !.aged = TRUE], [item[i] EXCEPT !.later = FALSE]} :
           item' = [item EXCEPT ![i] = r]
    BY <1>5 DEF ClaimAges, BackoffEnds
  <2> QED
    BY <1>0, <2>1, RowAttempts, <1>t, RowPut
<1>6. ASSUME UNCHANGED vars PROVE SameAttempts
  BY <1>6, <1>s DEF vars
<1> QED
  BY <1>1, <1>2, <1>3, <1>4, <1>5, <1>6 DEF Next

\* Holding the same claims with the same counts, or fewer of them.
HoldsLess(w) == \A i \in Items : i \in held'[w] => i \in held[w] /\ snap'[w][i] = snap[w][i]

LEMMA ExitHoldsLess ==
    ASSUME TypeOK, NEW w \in Workers, Exit(w)
    PROVE  \A v \in Workers : HoldsLess(v)
<1>1. held' = [held EXCEPT ![w] = {}] /\ snap' = [snap EXCEPT ![w] = [i \in Items |-> 0]]
  BY DEF Exit
<1>2. held \in [Workers -> SUBSET Items] /\ snap \in [Workers -> [Items -> Nat]]
  BY DEF TypeOK
<1> QED
  BY <1>1, <1>2 DEF HoldsLess

\* Settling an item gives up the claim on it and keeps the others.
LEMMA SettleHoldsLess ==
    ASSUME TypeOK, NEW w \in Workers, NEW i \in Items, NEW note, Settle(w, i, note)
    PROVE  (\A v \in Workers : HoldsLess(v)) /\ i \notin held'[w]
<1>1. held' = [held EXCEPT ![w] = @ \ {i}] /\ snap' = [snap EXCEPT ![w][i] = 0]
  BY DEF Settle
<1>2. held \in [Workers -> SUBSET Items] /\ snap \in [Workers -> [Items -> Nat]]
  BY DEF TypeOK
<1>3. held'[w] = held[w] \ {i} /\ \A v \in Workers : v # w => held'[v] = held[v]
  BY <1>1, <1>2
<1>4. \A v \in Workers, j \in Items : v # w \/ j # i => snap'[v][j] = snap[v][j]
  BY <1>1, <1>2
<1> QED
  BY <1>3, <1>4 DEF HoldsLess

LEMMA SameHolds ==
    ASSUME UNCHANGED <<held, snap>>
    PROVE  \A v \in Workers : HoldsLess(v)
  BY DEF HoldsLess

\* Only a claim makes a process hold more.
LEMMA HoldsStep ==
    ASSUME TypeOK, [Next]_vars, ~ \E w \in Workers : ClaimBatch(w) \/ ClaimNext(w)
    PROVE  \A v \in Workers : HoldsLess(v)
<1> DEFINE Goal == \A v \in Workers : HoldsLess(v)
<1>s. UNCHANGED <<held, snap>> => Goal
  BY SameHolds
<1>1. ASSUME NEW w \in Workers, Step(w) PROVE Goal
  <2>1. ASSUME NEW i \in Items, NEW note, Settle(w, i, note) PROVE Goal
    BY <2>1, SettleHoldsLess
  <2>2. ASSUME Exit(w) PROVE Goal
    BY <2>2, ExitHoldsLess
  <2>3. ASSUME NEW i \in Items,
               \/ PersistRun(w, i) \/ MarkAwaiting(w, i) \/ EvaluateHpo(w, i)
               \/ FinishDirectly(w, i) \/ HandoffRaises(w, i) \/ UndoHandoff(w, i) \/ DeferInfrastructure(w, i)
               \/ ChargeRetry(w, i) \/ BlockForOperator(w, i) \/ FailToAnalysis(w, i)
               \/ LostClaimRaises(w, i)
        PROVE  UNCHANGED <<held, snap>> \/ Exit(w) \/ \E note : Settle(w, i, note)
    <3>1. CASE PersistRun(w, i)
      BY <3>1 DEF PersistRun
    <3>2. CASE MarkAwaiting(w, i)
      BY <3>2 DEF MarkAwaiting
    <3>3. CASE FinishDirectly(w, i)
      BY <3>3 DEF FinishDirectly
    <3>4. CASE HandoffRaises(w, i)
      BY <3>4 DEF HandoffRaises
    <3>5. CASE UndoHandoff(w, i)
      BY <3>5 DEF UndoHandoff
    <3>6. CASE DeferInfrastructure(w, i)
      BY <3>6 DEF DeferInfrastructure
    <3>7. CASE ChargeRetry(w, i)
      BY <3>7 DEF ChargeRetry
    <3>8. CASE BlockForOperator(w, i)
      BY <3>8 DEF BlockForOperator
    <3>9. CASE FailToAnalysis(w, i)
      BY <3>9 DEF FailToAnalysis
    <3>10. CASE LostClaimRaises(w, i)
      BY <3>10 DEF LostClaimRaises
    <3>11. CASE EvaluateHpo(w, i)
      BY <3>11 DEF EvaluateHpo
    <3> QED
      BY <2>3, <3>1, <3>2, <3>3, <3>4, <3>5, <3>6, <3>7, <3>8, <3>9, <3>10, <3>11
  <2>4. CASE Execute(w)
    <3>1. PICK i \in Items : UNCHANGED <<held, snap>> \/ Exit(w) \/ \E note : Settle(w, i, note)
      BY <2>3, <2>4 DEF Execute
    <3> QED
      BY <1>s, <2>1, <2>2, <3>1
  <2>5. CASE ~ Execute(w)
    <3>1. UNCHANGED <<held, snap>> \/ Exit(w)
      BY <1>1, <2>5
      DEF Step, Start, RecoverAbandoned, Snapshot, Submit, SelectStale, ApplyStale,
          PreflightBlocks, SelectFailures, RecoverFailure, RecoverFailureRaises,
          PromoteDueRetries, PromoteScheduled
    <3> QED
      BY <1>s, <2>2, <3>1
  <2> QED
    BY <2>4, <2>5
<1>2. ASSUME NEW w \in Workers, Analyze(w) PROVE Goal
  <2>1. UNCHANGED <<held, snap>>
    BY <1>2 DEF Analyze, Finalize, FinalizeRaises, DeferAnalysis, TerminalizeAnalysis,
                AnalysisFrame, local
  <2> QED
    BY <1>s, <2>1
<1>3. ASSUME NEW w \in Workers, Crash(w) \/ Stop(w) PROVE Goal
  BY <1>3, ExitHoldsLess DEF Crash, Stop
<1>4. ASSUME Operate \/ \E i \in Items : ClaimAges(i) \/ BackoffEnds(i) PROVE Goal
  <2>1. UNCHANGED <<held, snap>>
    BY <1>4 DEF Operate, ResolveBlocked, RetryBlocked, RectifyBlocked, RequeueEvaluation,
                BuildReconciliation, ApplyReconciliation, NormalizeBlockers, ClaimAges,
                BackoffEnds, OperatorFrame, local
  <2> QED
    BY <1>s, <2>1
<1>5. ASSUME UNCHANGED vars PROVE Goal
  BY <1>5, <1>s DEF vars
<1> HIDE DEF Goal
<1>6. Goal
  BY <1>1, <1>2, <1>3, <1>4, <1>5 DEF Next
<1> QED
  BY <1>6 DEF Goal

LEMMA ChargingIsFinite ==
    ASSUME NEW i
    PROVE  /\ IsFiniteSet(Charging(i)) /\ Cardinality(Charging(i)) \in Nat
           /\ Cardinality(Workers) \in Nat
           /\ Cardinality(Charging(i)) <= Cardinality(Workers)
<1>1. IsFiniteSet(Workers) /\ Charging(i) \in SUBSET Workers
  BY QueueAssumption DEF Charging
<1>2. IsFiniteSet(Charging(i)) /\ Cardinality(Charging(i)) <= Cardinality(Workers)
  BY ONLY <1>1, FS_Subset
<1> QED
  BY ONLY <1>1, <1>2, FS_CardinalityType

\* What a step may do to the attempts of an item and to those who will charge it.
LEMMA ChargeCases ==
    ASSUME TypeOK, [Next]_vars, NEW i \in Items
    PROVE  \/ /\ item'[i].attempts = item[i].attempts
              /\ Charging(i)' \subseteq Charging(i)
           \/ item'[i].attempts <= MaxAttempts - 2
           \/ /\ item'[i].attempts = item[i].attempts + 1
              /\ \E w \in Charging(i) : Charging(i)' \subseteq Charging(i) \ {w}
<1>t. /\ item \in [Items -> Row] /\ snap \in [Workers -> [Items -> Nat]]
      /\ held \in [Workers -> SUBSET Items] /\ MaxAttempts \in Nat /\ MaxAttempts >= 2
  BY QueueAssumption DEF TypeOK
<1>l. (\A v \in Workers : HoldsLess(v)) => Charging(i)' \subseteq Charging(i)
  BY DEF HoldsLess, Charging
<1>1. CASE \E w \in Workers, j \in Items : Charges(w, j)
  <2>1. PICK w \in Workers, j \in Items : Charges(w, j)
    BY <1>1
  <2>2. /\ Executing(w, j) /\ snap[w][j] + 1 < MaxAttempts
        /\ Settle(w, j, FALSE)
        /\ Transition(j, "waiting_retry", {"running"}, "execution_failure")
    <3>1. ~ (snap[w][j] + 1 >= MaxAttempts)
      <4>1. snap[w][j] \in Nat
        BY <1>t
      <4> QED
        BY <1>t, <2>1, <4>1 DEF Charges
    <3> QED
      BY <2>1, <3>1 DEF Charges, ChargeRetry
  <2>3. Charging(i)' \subseteq Charging(i) /\ j \notin held'[w]
    BY <1>l, <2>2, SettleHoldsLess
  <2>4. /\ \A k \in Items : k # j => item'[k].attempts = item[k].attempts
        /\ item'[j].attempts \in {item[j].attempts, item[j].attempts + 1}
    <3>1. "waiting_retry" \in States /\ "execution_failure" \in Codes
      BY Literals
    <3> QED
      BY <1>t, <2>2, <3>1, TransitionAttempts
  <2>5. CASE i = j
    <3>1. w \in Charging(i) /\ w \notin Charging(i)'
      BY <2>2, <2>3, <2>5 DEF Charging, Executing
    <3> QED
      BY <2>3, <2>4, <2>5, <3>1
  <2> QED
    BY <2>3, <2>4, <2>5
<1>2. CASE \E j \in Items : RetryBlocked(j)
  <2>1. PICK j \in Items : RetryBlocked(j)
    BY <1>2
  <2> DEFINE u == Unclaimed(item[j], "scheduled", "none")
  <2> DEFINE r == [u EXCEPT !.later = FALSE, !.attempts = 0]
  <2> DEFINE f == [item EXCEPT ![j] = r]
  <2>2. UNCHANGED <<held, snap>> /\ item' \in Promotion(f)
    BY <2>1 DEF RetryBlocked, OperatorFrame, local
  <2>3. r \in Row /\ r.attempts = 0
    <3>1. item[j] \in Row /\ "scheduled" \in States /\ "none" \in Codes
      BY <1>t, Literals
    <3>2. u \in Row
      BY <3>1, UnclaimedRow
    <3> HIDE DEF u
    <3> QED
      BY <3>2 DEF Row
  <2> HIDE DEF u, r
  <2>4. f \in [Items -> Row] /\ f[i].attempts = IF i = j THEN 0 ELSE item[i].attempts
    BY <1>t, <2>3
  <2> HIDE DEF f
  <2>5. item'[i].attempts = IF i = j THEN 0 ELSE item[i].attempts
    BY <2>2, <2>4, PromotionAttempts
  <2>6. Charging(i)' \subseteq Charging(i)
    BY <1>l, <2>2, SameHolds
  <2> QED
    BY <1>t, <2>5, <2>6
<1>3. CASE /\ ~ \E w \in Workers, j \in Items : Charges(w, j)
           /\ ~ \E j \in Items : RetryBlocked(j)
  <2>1. item'[i].attempts = item[i].attempts /\ item[i].attempts \in Nat
    BY <1>3, <1>t, AttemptsStay DEF SameAttempts, Row
  <2>2. CASE ~ \E w \in Workers : ClaimBatch(w) \/ ClaimNext(w)
    BY <1>l, <2>1, <2>2, HoldsStep
  <2>3. ASSUME NEW w \in Workers, ClaimBatch(w) \/ ClaimNext(w)
        PROVE  Charging(i)' \subseteq Charging(i) \/ item[i].attempts <= MaxAttempts - 2
    <3>1. UNCHANGED <<held, snap>> \/ \E S \in SUBSET Items : Hold(w, S)
      BY <2>3 DEF ClaimBatch, ClaimNext, InState
    <3>2. CASE UNCHANGED <<held, snap>>
      BY <1>l, <3>2, SameHolds
    <3>3. ASSUME NEW S \in SUBSET Items, Hold(w, S)
          PROVE  Charging(i)' \subseteq Charging(i) \/ item[i].attempts <= MaxAttempts - 2
      <4>1. /\ held' = [held EXCEPT ![w] = S]
            /\ snap' = [snap EXCEPT ![w] = [k \in Items |-> IF k \in S THEN item[k].attempts ELSE 0]]
        BY <3>3 DEF Hold
      <4>2. /\ held'[w] = S /\ (i \in S => snap'[w][i] = item[i].attempts)
            /\ \A v \in Workers : v # w => held'[v] = held[v] /\ snap'[v] = snap[v]
        BY <1>t, <4>1
      <4>3. CASE i \in S /\ item[i].attempts + 1 < MaxAttempts
        BY <1>t, <2>1, <4>3
      <4>4. CASE ~ (i \in S /\ item[i].attempts + 1 < MaxAttempts)
        <5>1. w \notin Charging(i)'
          BY <4>2, <4>4 DEF Charging
        <5>2. \A v \in Workers : v # w /\ v \in Charging(i)' => v \in Charging(i)
          BY <4>2 DEF Charging
        <5>3. Charging(i)' \subseteq Workers
          BY DEF Charging
        <5> QED
          BY <5>1, <5>2, <5>3
      <4> QED
        BY <4>3, <4>4
    <3> QED
      BY <3>1, <3>2, <3>3
  <2> QED
    BY <2>1, <2>2, <2>3
<1> QED
  BY <1>1, <1>2, <1>3

LEMMA ChargeStep == TypeOK /\ ChargeInv /\ [Next]_vars => ChargeInv'
<1> SUFFICES ASSUME TypeOK, ChargeInv, [Next]_vars, NEW i \in Items
             PROVE  item'[i].attempts + Cardinality(Charging(i)')
                      <= MaxAttempts - 2 + Cardinality(Workers)
  BY DEF ChargeInv
<1> DEFINE C == Charging(i)
<1> DEFINE D == Charging(i)'
<1>1. /\ Cardinality(C) \in Nat /\ Cardinality(D) \in Nat /\ Cardinality(Workers) \in Nat
      /\ IsFiniteSet(C) /\ IsFiniteSet(D)
      /\ Cardinality(D) <= Cardinality(Workers)
  <2>1. IsFiniteSet(Workers) /\ D \in SUBSET Workers
    BY QueueAssumption DEF Charging
  <2>2. IsFiniteSet(D) /\ Cardinality(D) <= Cardinality(Workers)
    BY ONLY <2>1, FS_Subset
  <2>3. Cardinality(D) \in Nat
    BY ONLY <2>2, FS_CardinalityType
  <2> QED
    BY <2>2, <2>3, ChargingIsFinite
<1>2. /\ item[i].attempts + Cardinality(C) <= MaxAttempts - 2 + Cardinality(Workers)
      /\ item[i].attempts \in Nat /\ item'[i].attempts \in Nat
      /\ MaxAttempts \in Nat /\ MaxAttempts >= 2
  <2>0. item \in [Items -> Row]
    BY DEF TypeOK
  <2>1. item' \in [Items -> Row]
    BY <2>0, RowsStep
  <2>2. item[i].attempts \in Nat /\ item'[i].attempts \in Nat
    BY <2>0, <2>1, RowFields
  <2>3. MaxAttempts \in Nat /\ MaxAttempts >= 2
    BY QueueAssumption
  <2> HIDE DEF Workers
  <2>4. item[i].attempts + Cardinality(Charging(i)) <= MaxAttempts - 2 + Cardinality(Workers)
    BY DEF ChargeInv
  <2> QED
    BY <2>2, <2>3, <2>4
<1>3. \/ item'[i].attempts = item[i].attempts /\ D \subseteq C
      \/ item'[i].attempts <= MaxAttempts - 2
      \/ /\ item'[i].attempts = item[i].attempts + 1
         /\ \E w \in C : D \subseteq C \ {w}
  BY ChargeCases
<1> HIDE DEF C, D
<1>4. D \subseteq C => Cardinality(D) <= Cardinality(C)
  BY <1>1, FS_Subset
<1>5. ASSUME NEW w \in C, D \subseteq C \ {w}
      PROVE  Cardinality(D) <= Cardinality(C) - 1
  <2>1. IsFiniteSet(C \ {w}) /\ Cardinality(C \ {w}) = Cardinality(C) - 1
    BY <1>1, FS_RemoveElement
  <2>2. Cardinality(D) <= Cardinality(C \ {w})
    BY <1>5, <2>1, FS_Subset
  <2> QED
    BY <2>1, <2>2
<1>6. item'[i].attempts + Cardinality(D) <= MaxAttempts - 2 + Cardinality(Workers)
  <2>1. CASE item'[i].attempts = item[i].attempts /\ D \subseteq C
    BY <1>1, <1>2, <1>4, <2>1
  <2>2. CASE item'[i].attempts <= MaxAttempts - 2
    BY <1>1, <1>2, <2>2
  <2>3. CASE item'[i].attempts = item[i].attempts + 1 /\ \E w \in C : D \subseteq C \ {w}
    <3>1. Cardinality(D) <= Cardinality(C) - 1
      BY <1>5, <2>3
    <3> QED
      BY <1>1, <1>2, <2>3, <3>1
  <2> QED
    BY <1>3, <2>1, <2>2, <2>3
<1> QED
  BY <1>6 DEF D

LEMMA ChargeInit == Init => ChargeInv
<1> SUFFICES ASSUME Init, NEW i \in Items
             PROVE  item[i].attempts + Cardinality(Charging(i))
                      <= MaxAttempts - 2 + Cardinality(Workers)
  BY DEF ChargeInv
<1>1. Charging(i) = {} /\ item[i].attempts = 0
  BY InitRows DEF Init, Charging
<1>2. Cardinality(Charging(i)) = 0 /\ Cardinality(Workers) \in Nat
  BY <1>1, FS_EmptySet, ChargingIsFinite
<1>3. MaxAttempts \in Nat /\ MaxAttempts >= 2
  BY QueueAssumption
<1> QED
  BY <1>1, <1>2, <1>3

\* Every process overshoots the attempt budget of an item at most once, whatever
\* claims outlive their timeouts: each process that lost its claim has one charge
\* set aside, and a count at the budget gives no new one.
THEOREM AttemptsStayBounded == Spec => []AttemptsBounded
<1>1. Spec => [](TypeOK /\ ChargeInv)
  BY ChargeInit, ChargeStep, TypeCorrect, PTL DEF Spec
<1>2. TypeOK /\ ChargeInv => AttemptsBounded
  <2> SUFFICES ASSUME TypeOK, ChargeInv, NEW i \in Items
               PROVE  item[i].attempts <= MaxAttempts - 1 + (Cardinality(Workers) - 1)
    BY DEF AttemptsBounded
  <2>1. item[i].attempts \in Nat
    BY DEF TypeOK, Row
  <2>2. /\ Cardinality(Charging(i)) \in Nat /\ Cardinality(Workers) \in Nat
        /\ MaxAttempts \in Nat
    <3>1. MaxAttempts \in Nat
      BY QueueAssumption
    <3> QED
      BY <3>1, ChargingIsFinite
  <2> HIDE DEF Workers
  <2>3. item[i].attempts + Cardinality(Charging(i)) <= MaxAttempts - 2 + Cardinality(Workers)
    BY DEF ChargeInv
  <2> QED
    BY <2>1, <2>2, <2>3
<1> QED
  BY <1>1, <1>2, PTL
====
