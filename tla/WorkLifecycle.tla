--------------------------- MODULE WorkLifecycle ---------------------------
(***************************************************************************)
(* What the work queue promises about an item, without its threads, batches,   *)
(* snapshots, retries and limits: the state machine that README.md:491-499 and *)
(* docs/architecture.md draw, with its claims and verdicts.                     *)
(*                                                                         *)
(* While the queue is calm (no claim has outlived its timeout and no operator  *)
(* has intervened) an item is executed only by the process that holds it, its  *)
(* evidence is never executed again, and it finishes once: with a verdict,     *)
(* unless a single-item worker holds it and does not know its operation.        *)
(* Nothing is promised afterwards: no claim is fenced.                          *)
(***************************************************************************)
CONSTANTS Items, Workers, NoWorker, SoloWorkers, PlainItems

VARIABLES
    stage,    \* scheduled, ready and waiting_retry are `waiting`; running is
              \* `claimed`, or `recorded` once it awaits its evaluation
    holder,   \* claimed_by
    judged,   \* an evaluation newer than the newest run exists
    calm      \* nothing has disturbed the claims so far

life == <<stage, holder, judged, calm>>

Stages == {"waiting", "claimed", "recorded", "blocked", "finished", "archived"}

\* Only what an import left blocked can have been judged before.
Init ==
    /\ stage \in [Items -> {"waiting", "blocked"}]
    /\ holder = [i \in Items |-> NoWorker]
    /\ judged \in [Items -> BOOLEAN]
    /\ \A i \in Items : judged[i] => stage[i] = "blocked"
    /\ calm = TRUE

\* Item i moves to a stage, is held by w and has a verdict or none.
Becomes(i, s, w, v) == stage'[i] = s /\ holder'[i] = w /\ judged'[i] = v

Holds(w, i) == stage[i] = "claimed" /\ holder[i] = w

Stays(i) == Becomes(i, stage[i], holder[i], judged[i])

\* A waiting item is claimed.
Claim(w, i) == stage[i] = "waiting" /\ Becomes(i, "claimed", w, judged[i])

\* Its holder gives it back: a retry, or what an earlier process of that name left.
Return(w, i) == Holds(w, i) /\ Becomes(i, "waiting", NoWorker, judged[i])

\* Its holder stores a run, with or without the verdict.
Execute(w, i) == Holds(w, i) /\ \E v \in BOOLEAN : Becomes(i, "claimed", w, v)

\* The evidence is complete and waits for its evaluation: that of its holder, of a
\* blocked item, or the same evidence again.
Record(w, i) ==
    /\ Holds(w, i) \/ stage[i] \in {"blocked", "recorded"}
    /\ Becomes(i, "recorded", w, FALSE)

\* The verdict is stored and the item finished in one step.
Finish(w, i) ==
    /\ Holds(w, i) \/ stage[i] = "recorded"
    /\ Becomes(i, "finished", NoWorker, TRUE)

\* A worker that does not know the operation of its item finishes it as it is.
FinishPlain(w, i) ==
    /\ Holds(w, i) /\ i \in PlainItems /\ w \in SoloWorkers
    /\ Becomes(i, "finished", NoWorker, judged[i])

\* An item leaves the queue: its holder gives up, or its evaluation fails, which is
\* a verdict too.
Block(w, i) ==
    \/ Holds(w, i) /\ Becomes(i, "blocked", NoWorker, judged[i])
    \/ stage[i] = "recorded" /\ Becomes(i, "blocked", NoWorker, TRUE)

\* What has left the queue may be judged again.
Rejudge(i) ==
    stage[i] \in {"finished", "blocked"} /\ Becomes(i, stage[i], holder[i], TRUE)

\* One process acts at a time, on any number of items.
Act(w) ==
    \A i \in Items :
       \/ Stays(i) \/ Claim(w, i) \/ Return(w, i) \/ Execute(w, i)
       \/ Record(w, i) \/ Finish(w, i) \/ FinishPlain(w, i) \/ Block(w, i) \/ Rejudge(i)

Next ==
    \/ calm /\ calm' /\ \E w \in Workers : Act(w)
    \/ ~ calm'

Spec == Init /\ [][Next]_life
=============================================================================
