--------------------------- MODULE DirectSession ---------------------------
(***************************************************************************)
(* One work item executed on a remote Jesse server (direct_mcp_executor.py). *)
(*                                                                         *)
(* An executor creates a session, checkpoints its id, starts it, polls it    *)
(* and returns a result which the batch owner applies.  Executors share the   *)
(* checkpoint row (direct_execution_sessions) and the row that grants the one *)
(* replacement of a session that was lost (direct_execution_recoveries).      *)
(* They may be killed between any two statements, answers of the server may   *)
(* be lost, the server may forget a session, a claim may time out under its   *)
(* executor, and the operator repairs what is stuck (correctness_recovery.py). *)
(*                                                                         *)
(* Every database transaction and every remote call is one action.  Of the    *)
(* work item only what decides here is kept: `ready` is scheduled or ready,   *)
(* `done` is everything from a stored run on (WorkQueue has the rest).        *)
(***************************************************************************)
EXTENDS Naturals, FiniteSets

CONSTANTS
    Executors,      \* threads that may execute the item
    MaxSessions,    \* bound: sessions the server can create
    None,           \* no row, no id
    MaxPolls,       \* max_polls, the fetches of one poll slice
    CircuitLimit,   \* executor_infrastructure_failure_limit
    MaxCrashes,     \* bound: executors killed
    MaxLost,        \* bound: remote answers lost or garbled
    MaxForgotten,   \* bound: sessions forgotten by a restarted server
    MaxTimeouts,    \* bound: claims recovered under a living executor
    MaxOperator     \* bound: interventions of the operator

ASSUME DirectAssumption ==
    /\ MaxSessions \in Nat
    /\ MaxPolls \in Nat \ {0} /\ CircuitLimit \in Nat \ {0}
    /\ MaxCrashes \in Nat /\ MaxLost \in Nat /\ MaxForgotten \in Nat
    /\ MaxTimeouts \in Nat /\ MaxOperator \in Nat

\* The server gives out fresh ids, here in order.
Sessions == 1..MaxSessions

VARIABLES
    work,      \* state of the work item
    request,   \* edition of the item's execution request; a repair makes a new one
    runs,      \* finished runs stored for the item
    stopped,   \* is a failed run stored
    streak,    \* trailing retry outcomes in the executor telemetry
    chk,       \* the checkpoint row
    grant,     \* the recovery row
    plan,      \* the operator's previewed repair, not yet applied
    jesse,     \* per session: its state on the server
    gone,      \* sessions the server has forgotten
    origin,    \* per session: the request it was created for; first or replacement
    pc, sess,  \* per executor: next step, session id in hand
    req,       \* per executor: edition of the request it was dispatched with
    seen,      \* per executor: the checkpoint as last read
    obs,       \* per executor: last observation, then the outcome
    polls,     \* per executor: fetches of its poll slice
    budget     \* what is left of each bound

store  == <<chk, grant>>
server == <<jesse, gone, origin>>
queue  == <<work, request, runs, stopped, streak, plan>>
local  == <<pc, sess, req, seen, obs, polls>>
vars   == <<queue, store, server, local, budget>>

Editions == 0..MaxOperator

\* state: "success" is terminal_success, "observed" every other classification.
Checkpoint == [session : Sessions, request : Editions, attempted : BOOLEAN,
               state : {"draft", "observed", "success", "start_failed"},
               metrics : {"none", "full"}]

Grant == [old : Sessions, reserved : BOOLEAN, replacement : Sessions \cup {None}]

\* No row is not a row, and no id is not an id.
ASSUME NoneAssumption == None \notin Nat \cup Checkpoint \cup Grant

\* How the server shows a session; a start that is still landing shows a draft.
Shown == [draft |-> "draft", landing |-> "draft", running |-> "active",
          stalled |-> "stalled", finished |-> "success", partial |-> "partial",
          failed |-> "failure"]

ServerStates == {"absent", "draft", "landing", "running", "stalled", "finished",
                 "partial", "failed"}

Outcomes == {"finished", "finished_empty", "retry", "analysis", "operator"}

Observations == {"none", "draft", "active", "stalled", "zombie", "success", "partial",
                 "failure", "malformed", "missing", "error"} \cup Outcomes

PCs == {"idle", "read", "adopt", "resume", "reserve", "create", "replace", "release",
        "persist", "save", "saveResumed", "saveDraft", "fetch", "fetchReplacement",
        "poll", "start", "observe", "judge", "mark", "kick", "saveSuccess",
        "saveFailure", "except", "recover", "saveStartFailed", "report", "record", "apply"}

Budgets == {"crash", "lost", "forget", "timeout", "operator"}

Bounds == [b \in Budgets |-> IF b = "crash"   THEN MaxCrashes
                        ELSE IF b = "lost"    THEN MaxLost
                        ELSE IF b = "forget"  THEN MaxForgotten
                        ELSE IF b = "timeout" THEN MaxTimeouts ELSE MaxOperator]

Init ==
    /\ work = "ready" /\ request = 0 /\ runs = {} /\ stopped = FALSE
    /\ streak = 0 /\ chk = None /\ grant = None /\ plan = None
    /\ jesse = [s \in Sessions |-> "absent"] /\ gone = {}
    /\ origin = [s \in Sessions |-> [request |-> 0, kind |-> "first"]]
    /\ pc = [e \in Executors |-> "idle"] /\ sess = [e \in Executors |-> None]
    /\ req = [e \in Executors |-> 0] /\ seen = [e \in Executors |-> None]
    /\ obs = [e \in Executors |-> "none"] /\ polls = [e \in Executors |-> 0]
    /\ budget = Bounds

-----------------------------------------------------------------------------
Spend(b) == budget[b] > 0 /\ budget' = [budget EXCEPT ![b] = @ - 1]

Goto(e, label) == pc' = [pc EXCEPT ![e] = label]

See(e, o) == obs' = [obs EXCEPT ![e] = o]

\* The attempt ends with this outcome, which remains to be reported.
Return(e, outcome) == Goto(e, "report") /\ See(e, outcome)

\* An exception the except clause catches: missing or any other error.
Raise(e, kind) == Goto(e, "except") /\ See(e, kind)

\* Local variables a step leaves alone when it moves on or returns.
Kept == UNCHANGED <<sess, req, seen, polls>>

\* The executor is done, or dead: its local variables are lost.
Leave(e) ==
    /\ Goto(e, "idle") /\ See(e, "none")
    /\ sess' = [sess EXCEPT ![e] = None] /\ req' = [req EXCEPT ![e] = 0]
    /\ seen' = [seen EXCEPT ![e] = None] /\ polls' = [polls EXCEPT ![e] = 0]

\* _save_checkpoint and _observe_session: a row that exists keeps its session id
\* and its request, whatever the writer holds.
Upsert(s, r, state, metrics) ==
    chk' = IF chk = None
             THEN [session |-> s, request |-> r, attempted |-> FALSE,
                   state |-> state, metrics |-> metrics]
             ELSE [chk EXCEPT !.state = state, !.metrics = metrics]

-----------------------------------------------------------------------------
(* Dispatch and the checkpoint.                                              *)

\* A claimed item is handed to an executor with its request as it is now.
Dispatch(e) ==
    /\ pc[e] = "idle" /\ work = "ready"
    /\ work' = "running"
    /\ req' = [req EXCEPT ![e] = request]
    /\ Goto(e, "read")
    /\ UNCHANGED <<sess, seen, obs, polls, request, runs, stopped, streak, plan, store, server, budget>>

\* The session of the protocol does not open: nothing has been read yet.
InitializeFails(e) ==
    /\ pc[e] = "read"
    /\ Spend("lost") /\ Raise(e, "error")
    /\ Kept /\ UNCHANGED <<queue, store, server>>

\* A checkpoint of another request stops the attempt.
Read(e) ==
    /\ pc[e] = "read"
    /\ seen' = [seen EXCEPT ![e] = chk]
    /\ IF chk = None
         THEN Goto(e, "resume") /\ UNCHANGED <<obs, sess>>
         ELSE /\ sess' = [sess EXCEPT ![e] = chk.session]
              /\ IF chk.request # req[e] THEN Return(e, "operator")
                                         ELSE Goto(e, "adopt") /\ UNCHANGED obs
    /\ UNCHANGED <<req, polls, queue, store, server, budget>>

\* _adopt_replacement_checkpoint links a checkpoint that is not the old session
\* to the grant; then a terminal success is replayed, anything else fetched.
Adopt(e) ==
    /\ pc[e] = "adopt"
    /\ LET known  == grant # None => sess[e] \in {grant.old, grant.replacement}
           free   == ~grant.reserved /\ grant.replacement = None
                       /\ chk # None /\ chk.session = sess[e]
           onward == IF seen[e].state = "success"
                       THEN Return(e, IF seen[e].metrics = "full" THEN "finished"
                                                                  ELSE "finished_empty")
                       ELSE Goto(e, "fetch") /\ UNCHANGED obs
       IN  IF known THEN onward /\ UNCHANGED grant
           ELSE IF free
             THEN /\ grant' = [grant EXCEPT !.reserved = TRUE, !.replacement = sess[e]]
                  /\ onward
             ELSE Raise(e, "error") /\ UNCHANGED grant
    /\ Kept /\ UNCHANGED <<chk, queue, server, budget>>

-----------------------------------------------------------------------------
(* Creating a session, or the one replacement a grant allows.                *)

\* _create_or_resume_session reads the grant ...
Resume(e) ==
    /\ pc[e] = "resume"
    /\ \/ grant = None /\ Goto(e, "create") /\ UNCHANGED <<sess, obs>>
       \/ /\ grant # None /\ grant.replacement # None
          /\ sess' = [sess EXCEPT ![e] = grant.replacement]
          /\ Goto(e, "saveResumed") /\ UNCHANGED obs
       \/ /\ grant # None /\ grant.replacement = None /\ grant.reserved
          /\ Raise(e, "error") /\ UNCHANGED sess
       \/ /\ grant # None /\ grant.replacement = None /\ ~grant.reserved
          /\ Goto(e, "reserve") /\ UNCHANGED <<sess, obs>>
    /\ UNCHANGED <<req, seen, polls, queue, store, server, budget>>

\* Slip: the UPDATE is not guarded, two executors may reserve.
UnguardedSlip(e) ==
    /\ pc[e] = "reserve"
    /\ grant' = [grant EXCEPT !.reserved = TRUE]
    /\ Goto(e, "replace")
    /\ Kept /\ UNCHANGED <<obs, chk, queue, server, budget>>

\* ... reserves it ...
Reserve(e) ==
    /\ pc[e] = "reserve"
    /\ IF ~grant.reserved /\ grant.replacement = None
         THEN /\ grant' = [grant EXCEPT !.reserved = TRUE]
              /\ Goto(e, "replace") /\ UNCHANGED obs
         ELSE Raise(e, "error") /\ UNCHANGED grant
    /\ Kept /\ UNCHANGED <<chk, queue, server, budget>>

\* ... and creates the draft; of a lost answer the executor cannot know whether
\* the draft exists.
Create(e) ==
    /\ pc[e] \in {"create", "replace"}
    /\ LET fresh == {s \in Sessions : /\ jesse[s] = "absent"
                                      /\ \A t \in 1..(s - 1) : jesse[t] # "absent"}
           kind == IF pc[e] = "replace" THEN "replacement" ELSE "first"
           Made(s) == /\ jesse' = [jesse EXCEPT ![s] = "draft"]
                      /\ origin' = [origin EXCEPT ![s] = [request |-> req[e], kind |-> kind]]
       IN  \/ /\ \E s \in fresh : Made(s) /\ sess' = [sess EXCEPT ![e] = s]
              /\ Goto(e, IF pc[e] = "create" THEN "save" ELSE "persist")
              /\ UNCHANGED <<obs, budget>>
           \/ /\ Spend("lost")
              /\ (\E s \in fresh : Made(s)) \/ UNCHANGED <<jesse, origin>>
              /\ IF pc[e] = "create" THEN Raise(e, "error")
                                     ELSE Goto(e, "release") /\ UNCHANGED obs
              /\ UNCHANGED sess
    /\ UNCHANGED <<req, seen, polls, gone, queue, store>>

\* Slip: a failed creation leaves the reservation behind.
ReleaseSlip(e) ==
    /\ pc[e] = "release"
    /\ Raise(e, "error")
    /\ Kept /\ UNCHANGED <<store, queue, server, budget>>

\* _release_replacement_reservation
Release(e) ==
    /\ pc[e] = "release"
    /\ grant' = IF grant.replacement = None THEN [grant EXCEPT !.reserved = FALSE]
                                            ELSE grant
    /\ Raise(e, "error")
    /\ Kept /\ UNCHANGED <<chk, queue, server, budget>>

PersistId(e) ==
    /\ pc[e] = "persist"
    /\ IF grant.reserved /\ grant.replacement = None
         THEN /\ grant' = [grant EXCEPT !.replacement = sess[e]]
              /\ Goto(e, "save") /\ UNCHANGED obs
         ELSE Raise(e, "error") /\ UNCHANGED grant
    /\ Kept /\ UNCHANGED <<chk, queue, server, budget>>

\* The draft is checkpointed before it is started; a replacement found in the
\* grant is fetched first.
SaveDraft(e) ==
    /\ pc[e] \in {"save", "saveResumed", "saveDraft"}
    /\ Upsert(sess[e], req[e], "draft", "none")
    /\ Goto(e, IF pc[e] = "saveResumed" THEN "fetchReplacement" ELSE "start")
    /\ Kept /\ UNCHANGED <<obs, grant, queue, server, budget>>

-----------------------------------------------------------------------------
(* Talking to the server about the session in hand.                          *)

\* _start_and_verify: one conversation, after which the session runs, or its
\* start is still landing, or has failed.
Start(e) ==
    /\ pc[e] = "start"
    /\ LET s == sess[e]
           Becomes(t) == jesse' = IF jesse[s] \in {"draft", "landing"}
                                    THEN [jesse EXCEPT ![s] = t] ELSE jesse
       IN  \/ s \in gone /\ Raise(e, "missing") /\ UNCHANGED <<jesse, budget>>
           \/ /\ s \notin gone /\ Becomes("running") /\ UNCHANGED budget
              /\ See(e, Shown[jesse'[s]]) /\ Goto(e, "observe")
           \/ /\ s \notin gone /\ jesse[s] = "landing" /\ UNCHANGED <<jesse, budget>>
              /\ Raise(e, "error")
           \/ /\ s \notin gone /\ Spend("lost")
              /\ \E t \in {"running", "landing", "draft"} : Becomes(t)
              /\ Raise(e, "error")
    /\ Kept /\ UNCHANGED <<gone, origin, queue, store>>

\* A fetch before the poll loop looks for a draft to start; a draft whose start
\* has failed before goes to analysis.
Fetch(e) ==
    /\ pc[e] \in {"fetch", "fetchReplacement", "poll"}
    /\ LET view == Shown[jesse[sess[e]]]
       IN  \/ sess[e] \in gone /\ Raise(e, "missing") /\ UNCHANGED budget
           \/ Spend("lost") /\ Raise(e, "error")
           \/ /\ sess[e] \notin gone /\ Spend("lost")
              /\ See(e, "malformed") /\ Goto(e, "observe")
           \/ /\ sess[e] \notin gone /\ UNCHANGED budget
              /\ IF view = "draft" /\ pc[e] # "poll"
                   THEN IF pc[e] = "fetch" /\ seen[e].state = "start_failed"
                          THEN Return(e, "analysis")
                          ELSE /\ Goto(e, IF pc[e] = "fetch" THEN "saveDraft" ELSE "start")
                               /\ UNCHANGED obs
                   ELSE See(e, view) /\ Goto(e, "observe")
    /\ Kept /\ UNCHANGED <<queue, store, server>>

\* Slip: an answer that cannot be read counts as terminal.
MalformedSlip(e) ==
    /\ pc[e] = "observe"
    /\ Upsert(sess[e], req[e],
              IF obs[e] \in {"success", "partial", "malformed"} THEN "success" ELSE "observed",
              IF chk = None THEN "none" ELSE chk.metrics)
    /\ \/ UNCHANGED obs
       \/ obs[e] = "stalled" /\ See(e, "zombie")
    /\ Goto(e, "judge")
    /\ Kept /\ UNCHANGED <<grant, queue, server, budget>>

\* _observe_session: a stalled session is a zombie once its stall is proven.
\* The state is stored, the metrics column is not touched.
Observe(e) ==
    /\ pc[e] = "observe"
    /\ Upsert(sess[e], req[e],
              IF obs[e] \in {"success", "partial"} THEN "success" ELSE "observed",
              IF chk = None THEN "none" ELSE chk.metrics)
    /\ \/ UNCHANGED obs
       \/ obs[e] = "stalled" /\ See(e, "zombie")
    /\ Goto(e, "judge")
    /\ Kept /\ UNCHANGED <<grant, queue, server, budget>>

\* One turn of the poll loop: the first is spared the fetch when the session has
\* already ended; a session that has not ended is polls until the slice ends.
Judge(e) ==
    /\ pc[e] = "judge"
    /\ LET again == /\ polls[e] < MaxPolls
                    /\ polls' = [polls EXCEPT ![e] = @ + 1]
                    /\ Goto(e, "poll") /\ UNCHANGED obs
           ended == obs[e] \in {"success", "partial", "failure"}
           last  == polls[e] > 0 /\ UNCHANGED polls
           reconcile == IF chk # None /\ chk.attempted
                          THEN Return(e, "analysis")
                          ELSE Goto(e, "mark") /\ UNCHANGED obs
       IN  \/ obs[e] = "success" /\ Goto(e, "saveSuccess") /\ UNCHANGED <<obs, polls>>
           \/ obs[e] = "partial" /\ Return(e, "retry") /\ UNCHANGED polls
           \/ obs[e] = "failure" /\ Goto(e, "saveFailure") /\ UNCHANGED <<obs, polls>>
           \/ polls[e] = 0 /\ ~ended /\ again
           \/ last /\ obs[e] = "malformed" /\ reconcile
           \/ last /\ obs[e] = "draft" /\ Return(e, "retry")
           \/ polls[e] > 0 /\ obs[e] \in {"active", "stalled", "zombie"} /\ again
           \/ /\ last /\ polls[e] = MaxPolls
              /\ \/ obs[e] = "zombie" /\ reconcile
                 \/ obs[e] \in {"active", "stalled"} /\ Return(e, "retry")
    /\ UNCHANGED <<sess, req, seen, queue, store, server, budget>>

\* _mark_recovery_attempted: one reconciliation per checkpoint.
Mark(e) ==
    /\ pc[e] = "mark"
    /\ IF chk # None /\ ~chk.attempted
         THEN /\ chk' = [chk EXCEPT !.attempted = TRUE]
              /\ IF obs[e] = "zombie" THEN Goto(e, "kick") /\ UNCHANGED obs
                                      ELSE Return(e, "retry")
         ELSE Raise(e, "error") /\ UNCHANGED chk
    /\ Kept /\ UNCHANGED <<grant, queue, server, budget>>

\* The reconciliation of a zombie starts it once more.
Kick(e) ==
    /\ pc[e] = "kick"
    /\ LET s == sess[e]
           runs_again == jesse' = IF jesse[s] = "stalled" THEN [jesse EXCEPT ![s] = "running"]
                                                          ELSE jesse
       IN  \/ s \in gone /\ Raise(e, "missing") /\ UNCHANGED <<jesse, budget>>
           \/ /\ s \notin gone /\ (runs_again \/ UNCHANGED jesse)
              /\ Return(e, "retry") /\ UNCHANGED budget
           \/ /\ Spend("lost") /\ (runs_again \/ UNCHANGED jesse)
              /\ Raise(e, "error")
    /\ Kept /\ UNCHANGED <<gone, origin, queue, store>>

\* The terminal metrics are checkpointed, then returned.
SaveSuccess(e) ==
    /\ pc[e] = "saveSuccess"
    /\ Upsert(sess[e], req[e], "success", "full")
    /\ Return(e, "finished")
    /\ Kept /\ UNCHANGED <<grant, queue, server, budget>>

\* A terminal failure is evidence for analysis, or lacks a data route only the
\* operator can add.
SaveFailure(e) ==
    /\ pc[e] = "saveFailure"
    /\ Upsert(sess[e], req[e], "observed", "none")
    /\ \E outcome \in {"analysis", "operator"} : Return(e, outcome)
    /\ Kept /\ UNCHANGED <<grant, queue, server, budget>>

-----------------------------------------------------------------------------
(* The except clause.                                                        *)

Except(e) ==
    /\ pc[e] = "except"
    /\ seen' = [seen EXCEPT ![e] = chk]
    /\ IF chk = None THEN Return(e, "retry")
                     ELSE /\ Goto(e, IF obs[e] = "missing"  THEN "recover"
                                     ELSE IF chk.state = "draft" THEN "saveStartFailed"
                                     ELSE "report")
                          /\ See(e, IF obs[e] = "error" /\ chk.state # "draft"
                                      THEN "retry" ELSE obs[e])
    /\ UNCHANGED <<sess, req, polls, queue, store, server, budget>>

\* Slip: the stored runs are not looked at.
RunIgnoredSlip(e) ==
    /\ pc[e] = "recover"
    /\ LET s     == seen[e].session
           fresh == chk # None /\ chk.session = s
           first == grant # None => grant.old = s /\ grant.replacement = None
       IN  \/ /\ ~fresh
              /\ IF seen[e].state = "draft" THEN Goto(e, "saveStartFailed") /\ UNCHANGED obs
                                            ELSE Return(e, "retry")
              /\ UNCHANGED store
           \/ /\ fresh /\ first
              /\ grant' = IF grant = None
                            THEN [old |-> s, reserved |-> FALSE, replacement |-> None]
                            ELSE grant
              /\ chk' = None
              /\ Return(e, "retry")
           \/ /\ fresh /\ ~first
              /\ Return(e, "analysis") /\ UNCHANGED store
    /\ Kept /\ UNCHANGED <<queue, server, budget>>

\* _recover_missing_session_checkpoint: a session the server has forgotten is
\* invalidated and one replacement granted, unless a run is stored, the
\* checkpoint has changed, or the replacement has been granted before.
RecoverMissing(e) ==
    /\ pc[e] = "recover"
    /\ LET s     == seen[e].session
           fresh == chk # None /\ chk.session = s /\ runs = {} /\ ~stopped
           first == grant # None => grant.old = s /\ grant.replacement = None
       IN  \/ /\ ~fresh
              /\ IF seen[e].state = "draft" THEN Goto(e, "saveStartFailed") /\ UNCHANGED obs
                                            ELSE Return(e, "retry")
              /\ UNCHANGED store
           \/ /\ fresh /\ first
              /\ grant' = IF grant = None
                            THEN [old |-> s, reserved |-> FALSE, replacement |-> None]
                            ELSE grant
              /\ chk' = None
              /\ Return(e, "retry")
           \/ /\ fresh /\ ~first
              /\ Return(e, "analysis") /\ UNCHANGED store
    /\ Kept /\ UNCHANGED <<queue, server, budget>>

SaveStartFailed(e) ==
    /\ pc[e] = "saveStartFailed"
    /\ Upsert(seen[e].session, seen[e].request, "start_failed", "none")
    /\ Return(e, "retry")
    /\ Kept /\ UNCHANGED <<grant, queue, server, budget>>

-----------------------------------------------------------------------------
(* Results.                                                                  *)

\* Slip: the circuit never opens.
CircuitSlip(e) ==
    /\ pc[e] = "report"
    /\ Goto(e, IF obs[e] = "retry" THEN "record" ELSE "apply")
    /\ streak' = IF obs[e] = "retry" THEN streak ELSE 0
    /\ Kept /\ UNCHANGED <<obs, work, request, runs, stopped, plan, store, server, budget>>

\* _record_and_return writes the telemetry of the item; before a retry it reads how
\* many were written in a row: too many open the circuit, which makes the attempt
\* terminal.  What the attempt read and how often it polled is done with.
Report(e) ==
    /\ pc[e] = "report"
    /\ \/ /\ obs[e] # "retry"
          /\ streak' = 0 /\ Goto(e, "apply") /\ UNCHANGED obs
       \/ /\ obs[e] = "retry"
          /\ IF streak + 1 < CircuitLimit THEN UNCHANGED obs ELSE See(e, "analysis")
          /\ Goto(e, "record") /\ UNCHANGED streak
    /\ UNCHANGED <<sess, req>> /\ seen' = [seen EXCEPT ![e] = None]
    /\ polls' = [polls EXCEPT ![e] = 0] /\ UNCHANGED <<work, request, runs, stopped, plan, store, server, budget>>

\* The row that ends a retry, which another executor's may have preceded: the
\* streak is looked up no further back than the limit.
Record(e) ==
    /\ pc[e] = "record"
    /\ streak' = IF obs[e] # "retry" THEN 0
                 ELSE IF streak < CircuitLimit THEN streak + 1 ELSE streak
    /\ Goto(e, "apply")
    /\ Kept /\ UNCHANGED <<obs, work, request, runs, stopped, plan, store, server, budget>>

\* The batch owner applies the result: a run is stored whatever the state of the
\* item, everything else needs an item that is still running (WorkQueue).
Apply(e) ==
    /\ pc[e] = "apply"
    /\ \/ /\ obs[e] \in {"finished", "finished_empty"}
          /\ runs' = runs \cup {[session |-> sess[e], request |-> req[e],
                metrics |-> IF obs[e] = "finished" THEN "full" ELSE "none"]}
          /\ work' = IF work = "running" THEN "done" ELSE work
          /\ UNCHANGED stopped
       \/ /\ obs[e] = "retry"
          /\ work' = IF work = "running" THEN "waiting" ELSE work
          /\ UNCHANGED <<runs, stopped>>
       \/ /\ obs[e] = "analysis"
          /\ work' = IF work \in {"running", "blocked"} THEN "done" ELSE work
          /\ stopped' = (stopped \/ work \in {"running", "blocked"})
          /\ UNCHANGED runs
       \/ /\ obs[e] = "operator"
          /\ work' = IF work = "running" THEN "blocked" ELSE work
          /\ UNCHANGED <<runs, stopped>>
    /\ Leave(e)
    /\ UNCHANGED <<request, streak, plan, store, server, budget>>

-----------------------------------------------------------------------------
(* The environment: processes, the queue, the server, the operator.          *)

Crash(e) ==
    /\ pc[e] # "idle"
    /\ Spend("crash")
    /\ Leave(e)
    /\ UNCHANGED <<queue, store, server>>

\* WorkQueue recovers the claim of a dead process, or one that has timed out
\* although its executor lives; an item with a finished run is not recovered.
ClaimRecovered ==
    /\ work = "running" /\ runs = {}
    /\ \/ (\A e \in Executors : pc[e] = "idle") /\ UNCHANGED budget
       \/ (\E e \in Executors : pc[e] # "idle") /\ Spend("timeout")
    /\ work' = "ready"
    /\ UNCHANGED <<request, runs, stopped, streak, plan, store, server, local>>

\* The backoff of a deferred item ends.
BackoffEnds ==
    /\ work = "waiting" /\ work' = "ready"
    /\ UNCHANGED <<request, runs, stopped, streak, plan, store, server, local, budget>>

\* The server: a start lands, an execution ends, stalls, or completes its metrics.
Progress(s) ==
    /\ s \notin gone
    /\ \/ jesse[s] = "landing" /\ jesse' = [jesse EXCEPT ![s] = "running"]
       \/ /\ jesse[s] = "running"
          /\ \E t \in {"finished", "partial", "failed", "stalled"} :
               jesse' = [jesse EXCEPT ![s] = t]
       \/ jesse[s] = "partial" /\ jesse' = [jesse EXCEPT ![s] = "finished"]
    /\ UNCHANGED <<gone, origin, queue, store, local, budget>>

Forget(s) ==
    /\ jesse[s] # "absent" /\ s \notin gone
    /\ Spend("forget")
    /\ gone' = gone \cup {s}
    /\ UNCHANGED <<jesse, origin, queue, store, local>>

OperatorFrame == UNCHANGED <<runs, stopped, streak, server, local>>

\* resolve_blocked_work_item
ResolveBlocked ==
    /\ work = "blocked" /\ work' = "ready"
    /\ Spend("operator")
    /\ UNCHANGED <<request, plan, store>> /\ OperatorFrame

\* Slip: a replacement that has been created does not stop the repair.
RouteSlip ==
    /\ work \in {"ready", "waiting", "blocked"} /\ runs = {} /\ ~stopped
    /\ Spend("operator")
    /\ IF chk = None THEN UNCHANGED store ELSE chk' = None /\ UNCHANGED grant
    /\ request' = request + 1 /\ work' = "ready"
    /\ UNCHANGED plan /\ OperatorFrame

\* repair_work_item_data_routes: a new request invalidates the checkpoint, unless
\* that one is a replacement or a run is stored.
RepairRoutes ==
    /\ work \in {"ready", "waiting", "blocked"} /\ runs = {} /\ ~stopped
    /\ Spend("operator")
    /\ \/ chk = None /\ UNCHANGED store
       \/ /\ chk # None
          /\ grant # None => grant.old = chk.session /\ grant.replacement = None
          /\ grant' = IF grant = None
                        THEN [old |-> chk.session, reserved |-> FALSE, replacement |-> None]
                        ELSE grant
          /\ chk' = None
    /\ request' = request + 1 /\ work' = "ready"
    /\ UNCHANGED plan /\ OperatorFrame

Stuck == work \in {"blocked", "waiting"}

\* recover_zombie_execution_sessions plans on what it has read ...
PlanZombie ==
    /\ plan = None /\ Stuck /\ runs = {} /\ ~stopped
    /\ chk # None /\ grant = None
    /\ jesse[chk.session] = "stalled" /\ chk.session \notin gone
    /\ Spend("operator")
    /\ plan' = [repair |-> "zombie", session |-> chk.session]
    /\ UNCHANGED <<work, request, store>> /\ OperatorFrame

\* ... and applies the plan if the rows it changes are still the ones it read.
ApplyZombie ==
    /\ plan # None /\ plan.repair = "zombie"
    /\ plan' = None
    /\ IF grant = None /\ chk # None /\ chk.session = plan.session /\ Stuck
         THEN /\ grant' = [old |-> plan.session, reserved |-> FALSE, replacement |-> None]
              /\ chk' = None /\ work' = "ready"
         ELSE UNCHANGED <<work, store>>
    /\ UNCHANGED <<request, budget>> /\ OperatorFrame

\* recover_orphaned_replacement_reservations, likewise.
PlanOrphan ==
    /\ plan = None /\ Stuck /\ runs = {} /\ ~stopped
    /\ grant # None /\ grant.reserved /\ grant.replacement = None
    /\ chk # None => chk.session = grant.old
    /\ Spend("operator")
    /\ plan' = [repair |-> "orphan", session |-> grant.old]
    /\ UNCHANGED <<work, request, store>> /\ OperatorFrame

ApplyOrphan ==
    /\ plan # None /\ plan.repair = "orphan"
    /\ plan' = None
    /\ grant' = IF grant.reserved /\ grant.replacement = None
                  THEN [grant EXCEPT !.reserved = FALSE] ELSE grant
    /\ UNCHANGED <<work, request, chk, budget>> /\ OperatorFrame

-----------------------------------------------------------------------------
Step(e) ==
    \/ Dispatch(e) \/ InitializeFails(e) \/ Read(e) \/ Adopt(e) \/ Resume(e)
    \/ Reserve(e) \/ Create(e) \/ Release(e) \/ PersistId(e) \/ SaveDraft(e)
    \/ Start(e) \/ Fetch(e) \/ Observe(e) \/ Judge(e) \/ Mark(e) \/ Kick(e)
    \/ SaveSuccess(e) \/ SaveFailure(e) \/ Except(e) \/ RecoverMissing(e)
    \/ SaveStartFailed(e) \/ Report(e) \/ Record(e) \/ Apply(e)

Operate == \/ ResolveBlocked \/ RepairRoutes
           \/ PlanZombie \/ ApplyZombie \/ PlanOrphan \/ ApplyOrphan

Next ==
    \/ \E e \in Executors : Step(e) \/ Crash(e)
    \/ \E s \in Sessions : Progress(s) \/ Forget(s)
    \/ ClaimRecovered \/ BackoffEnds \/ Operate

Spec == Init /\ [][Next]_vars

\* Executors run, backoffs end and claims of the dead are recovered; of the
\* server nothing is assumed: a poll slice is bounded.
Fairness ==
    /\ \A e \in Executors : WF_vars(Step(e))
    /\ WF_vars(BackoffEnds) /\ WF_vars(ClaimRecovered /\ UNCHANGED budget)

FairSpec == Spec /\ Fairness

-----------------------------------------------------------------------------
(* Properties.                                                               *)

QueueTypeOK ==
    /\ work \in {"ready", "running", "waiting", "blocked", "done"}
    /\ request \in Editions
    /\ runs \subseteq [session : Sessions, request : Editions, metrics : {"none", "full"}]
    /\ streak \in 0..CircuitLimit
    /\ plan \in [repair : {"zombie", "orphan"}, session : Sessions] \cup {None}

StoreTypeOK == chk \in Checkpoint \cup {None} /\ grant \in Grant \cup {None}

ServerTypeOK ==
    /\ jesse \in [Sessions -> ServerStates] /\ gone \subseteq Sessions
    /\ origin \in [Sessions -> [request : Editions, kind : {"first", "replacement"}]]

LocalTypeOK ==
    /\ pc \in [Executors -> PCs] /\ sess \in [Executors -> Sessions \cup {None}]
    /\ req \in [Executors -> Editions]
    /\ seen \in [Executors -> Checkpoint \cup {None}]
    /\ obs \in [Executors -> Observations] /\ polls \in [Executors -> 0..MaxPolls]

TypeOK == /\ QueueTypeOK /\ StoreTypeOK /\ ServerTypeOK /\ LocalTypeOK
          /\ budget \in [Budgets -> Nat] /\ stopped \in BOOLEAN

Replacements == {s \in Sessions : jesse[s] # "absent" /\ origin[s].kind = "replacement"}

Untroubled == /\ budget["lost"] = MaxLost /\ budget["crash"] = MaxCrashes
              /\ budget["operator"] = MaxOperator

\* However many executors find the same session missing, one replacement draft
\* is created, as long as no answer of the server is lost, no executor is killed
\* and the operator clears no reservation.
OneReplacement == Untroubled => Cardinality(Replacements) <= 1

\* A reservation without a session id has an executor that will fill or release
\* it, unless an executor was killed: only then does the item need the repair of
\* orphaned reservations.
NoOrphanWithoutCrash ==
    budget["crash"] = MaxCrashes /\ grant # None =>
        (grant.reserved /\ grant.replacement = None =>
            \E e \in Executors : pc[e] \in {"replace", "persist", "release"})

\* Without a claim that timed out, a checkpoint says terminal success only of a
\* session that did finish, and a finished run is that of such a session: the
\* upsert, which never replaces the session id, does not mix sessions up.
EvidenceIsReal ==
    budget["timeout"] = MaxTimeouts =>
        /\ chk # None /\ chk.state = "success" =>
              jesse[chk.session] \in {"finished", "partial"}
        /\ \A r \in runs : jesse[r.session] \in {"finished", "partial"}

CheckpointDropped == chk # None /\ chk' = None

\* As long as no executor was killed and no claim has timed out, a finished run is
\* that of a session created for the request it answers: the route repair takes the
\* sessions of the old request away, wherever an attempt on them has stopped.
RunsMatchRequest ==
    budget["crash"] = MaxCrashes /\ budget["timeout"] = MaxTimeouts =>
        \A r \in runs : origin[r.session].request = r.request

\* No executor that finds its session missing, and no repair of the data routes,
\* deletes the checkpoint of an item that has a finished run, even when the run was
\* stored by an executor whose claim had timed out.
RunKeepsCheckpoint ==
    [][CheckpointDropped /\ plan' = plan => runs = {}]_vars

\* Every dispatched item leaves the executors: it is evidence for analysis, or
\* waits for the operator.  Failures that charge no attempt, a wedged reservation
\* included, are cut off by the circuit.
ItemSettles == work = "ready" ~> work \in {"done", "blocked"}

-----------------------------------------------------------------------------
(* What the repository says of the program and the code does not do.          *)

\* docs/jesse-adapter-contract.md:77, "exact terminal metrics are checkpointed":
\* a finished run carries the metrics of its session.
MetricsExact == \A r \in runs : r.metrics = "full"

=============================================================================
